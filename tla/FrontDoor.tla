----------------------------- MODULE FrontDoor -----------------------------
(***************************************************************************)
(* Who may come in, as whom, and how far: the token store, the middleware  *)
(* in front of /v1/*, the identity gate of the dashboard with its token    *)
(* routes, and the administration commands.  Replicas share one table of   *)
(* tokens and keep no copy of it, so a request may be at any of them.  It  *)
(* is verified in two steps, a read of the table and a decision on what    *)
(* was read, and in between tokens are minted and revoked, time passes,    *)
(* the store goes away and the router restarts.                            *)
(*                                                                         *)
(* A token's secret is known to whoever minted it; a presented secret is   *)
(* the right one or it is not.  Names and scopes are kept as typed, with   *)
(* the spellings that trimming and folding tell apart.                     *)
(***************************************************************************)
EXTENDS Naturals

CONSTANTS
  Requests, Ids,
  Typed,          \* names as an operator or the front proxy spells them
  Fold,           \* typed name -> the name normalizePrincipal makes of it
  Owners,         \* folded names of --dashboard-owners
  Synthetic,      \* names under a reserved prefix
  KeyPrincipals,  \* the operator's fingerprint map: credential -> person or ""
  Asked, Headers, \* scopes asked for at minting; tiers asked for by header
  Lifetimes,      \* lifetimes asked for at minting; 0 is no expiry
  MaxTime, MaxFaults

Never == MaxTime + 1 + CHOOSE n \in Lifetimes : \A m \in Lifetimes : m <= n

ASSUME FrontDoorAssumption ==
  /\ Fold \in [Typed -> STRING] /\ KeyPrincipals \in [{"xkey", "bearer", "key"} -> STRING]
  /\ Lifetimes \subseteq Nat /\ 0 \in Lifetimes
  /\ Asked \subseteq STRING /\ Headers \subseteq 0 .. 2
  /\ \E n \in Lifetimes : \A m \in Lifetimes : m <= n
  /\ MaxTime \in Nat /\ MaxFaults \in Nat

ASSUME SyntheticAssumption == "" \notin Synthetic

VARIABLES
  rows,      \* pat_tokens: id -> row, or NoRow
  now,
  up,        \* the store answers
  serving,   \* the router has opened the store and listens
  req,       \* per request: the handler's local state and its answer
  reply,     \* answer of a token route or command, until the next request
  faults     \* outages, lost acknowledgements and crashes so far

vars == <<rows, now, up, serving, req, reply, faults>>

-----------------------------------------------------------------------------
(* Scopes.  The rank, and so validation, sees the trimmed scope; the tier  *)
(* is looked up by the scope as it was stored.  "local_" stands for the    *)
(* scope local typed with a blank.                                         *)
Trimmed(s) == IF s = "local_" THEN "local" ELSE s
KnownScopes == {"all", "zdr", "local"}
FamilyScope == "local"

Rank(s) == IF Trimmed(s) = "local" THEN 2 ELSE IF Trimmed(s) = "zdr" THEN 1 ELSE 0

ValidScopes(S) == \A s \in S : Trimmed(s) \in KnownScopes

(* The strictest scope of an identity, as it is spelled.                   *)
ModelScope(S) ==
  IF \E s \in S : Rank(s) > 0
  THEN CHOOSE s \in S : \A t \in S : Rank(t) <= Rank(s)
  ELSE "all"

ScopeTier(s) == IF s = "local" THEN 2 ELSE IF s = "zdr" THEN 1 ELSE 0

ScopeAtMost(s, limit) == {s, limit} \subseteq KnownScopes /\ Rank(s) >= Rank(limit)

(* Mutant: the caller's header wins where there is one.                    *)
DemandOfHeader(hdr, S) == IF hdr > 0 THEN hdr ELSE ScopeTier(ModelScope(S))

(* privacyDemandFor: the stricter of the header and the token's scope.     *)
Demand(hdr, S) ==
  LET st == ScopeTier(ModelScope(S)) IN IF st # 0 /\ st >= hdr THEN st ELSE hdr

-----------------------------------------------------------------------------
NoRow == [principal |-> "", scopes |-> {}, expires |-> 0, revoked |-> 0, by |-> ""]

(* Anonymous is a request with no identity on its context.                 *)
Identity(principal, token, S) == [principal |-> principal, token |-> token, scopes |-> S]
Anonymous == Identity("", "", {})
LegacyIdentity == Identity("legacy:", "legacy-", {})
Mapped(cred, synthetic) ==
  IF KeyPrincipals[cred] # "" THEN KeyPrincipals[cred] ELSE synthetic
AnthropicKeyIdentity == Identity(Mapped("xkey", "anthropic:"), "anthropic-", {})
AnthropicOAuthIdentity(cred) ==
  Identity(Mapped(cred, "anthropic-oauth:"), "anthropic-oauth-", {})

Reserved(p) == p \in Synthetic

(* Token.Active, asked of the row that was read and the time of asking.    *)
Active(row) == row.revoked = Never /\ now < row.expires

IsOwner(id) == id.scopes = {}

(* The credentials a caller can send: a personal token with its secret or  *)
(* a wrong one, a malformed one, a shared key, any other bearer, and none  *)
(* (a header that is no bearer counts as none).                            *)
PAT(i, good) == [kind |-> "pat", id |-> i, good |-> good]
Other(kind) == [kind |-> kind, id |-> "", good |-> FALSE]
Credentials ==
  {PAT(i, g) : i \in Ids, g \in BOOLEAN}
    \cup {Other(k) : k \in {"malformed", "key", "bearer", "none"}}

(* What a token route or a command answered: an error says nothing.        *)
Reply(op, who, S) == [op |-> op, who |-> who, ids |-> S]
NoReply == Reply("none", "", {})

Idle ==
  [ pc |-> "idle", path |-> "v1", cred |-> Other("none"), hdr |-> 0, xkey |-> FALSE,
    dead |-> FALSE, row |-> NoRow,
    id |-> Anonymous, tier |-> 0, sends |-> "none", status |-> 0 ]

(* The answer is out; the handler's locals are gone.                       *)
Answered(q, status) ==
  [q EXCEPT !.pc = "done", !.status = status, !.row = NoRow, !.xkey = FALSE]

(* The request goes on to its handler, under an identity and a tier.  A    *)
(* personal token is taken off before it can be forwarded.                 *)
Admit(q, id) ==
  [Answered(q, 200) EXCEPT !.id = id, !.tier = Demand(q.hdr, id.scopes),
     !.sends = IF q.path = "messages" /\ q.cred.kind # "pat" THEN q.cred.kind ELSE "none"]

-----------------------------------------------------------------------------
(* A new request at a serving router, up to where the store is asked.      *)
(* Only a well-formed personal token is looked up; everything else is      *)
(* settled here, by path and credential.                                   *)
Straight(q) ==
  IF q.path = "exempt" THEN Answered(q, 200)
  ELSE IF q.cred.kind = "malformed" THEN Answered(q, 401)
  ELSE IF q.path = "messages" /\ q.xkey THEN Admit(q, AnthropicKeyIdentity)
  ELSE IF q.path = "messages" /\ q.cred.kind \in {"bearer", "key"}
         THEN Admit(q, AnthropicOAuthIdentity(q.cred.kind))
  ELSE IF q.path = "messages" THEN Admit(q, Anonymous)
  ELSE IF q.cred.kind = "key" THEN Admit(q, LegacyIdentity)
  ELSE Answered(q, 401)

Asks(q) == q.cred.kind = "pat" /\ q.path # "exempt"

(* The token that is presented is already revoked or has run out.          *)
DeadToken(cred) == cred.kind = "pat" /\ rows[cred.id] # NoRow /\ ~Active(rows[cred.id])

Fresh(path, cred, hdr, x, dead) ==
  [Idle EXCEPT !.pc = "asking", !.path = path, !.cred = cred, !.hdr = hdr, !.xkey = x,
     !.dead = dead]

Entering(q) == IF Asks(q) THEN q ELSE Straight(q)

Arrive(r) ==
  /\ serving /\ req[r].pc \in {"idle", "done"}
  /\ \E path \in {"v1", "messages", "exempt"}, cred \in Credentials,
        hdr \in Headers, x, dead \in BOOLEAN :
       /\ cred.good => rows[cred.id] # NoRow
       /\ x => path = "messages" /\ cred.kind # "pat"
       /\ path = "exempt" => cred.kind = "none" /\ hdr = 0
       /\ dead <=> DeadToken(cred)
       /\ req' = [req EXCEPT ![r] = Entering(Fresh(path, cred, hdr, x, dead))]
  /\ reply' = NoReply
  /\ UNCHANGED <<rows, now, up, serving, faults>>

(* The SELECT of Verify: the row as it is now, or a store that cannot say. *)
Lookup(r) ==
  /\ req[r].pc = "asking"
  /\ LET q == req[r] IN
     req' = [req EXCEPT ![r] =
       IF up THEN [q EXCEPT !.pc = "read", !.row = rows[q.cred.id]] ELSE Answered(q, 503)]
  /\ UNCHANGED <<rows, now, up, serving, reply, faults>>

(* Mutant: whether the token still lives is not asked.                     *)
AcceptsBearer(q) == q.row # NoRow /\ q.cred.good

Accepts(q) == q.row # NoRow /\ q.cred.good /\ Active(q.row)

(* The rest of Verify, on the row that was read, and the request's fate.   *)
Decide(r) ==
  LET q == req[r] IN
  /\ q.pc = "read"
  /\ IF Accepts(q)
     THEN req' = [req EXCEPT ![r] =
                    Admit(q, Identity(q.row.principal, q.cred.id, q.row.scopes))]
     ELSE req' = [req EXCEPT ![r] = Answered(q, 401)]
  /\ UNCHANGED <<rows, now, up, serving, reply, faults>>

-----------------------------------------------------------------------------
(* The dashboard's gate.  What the front proxy asserts is believed when    *)
(* its secret matches; a person who is no owner gets the family's scope.   *)
GateStatus(name, proven) ==
  IF ~proven \/ Fold[name] = "" THEN 401 ELSE IF Fold[name] = "legacy:" THEN 403 ELSE 200

GateIdentity(name) ==
  Identity(Fold[name], "dashboard", IF Fold[name] \in Owners THEN {} ELSE {FamilyScope})

(* Quick chat: re-enters the proxy under the gate's identity.  The inner   *)
(* request has fresh headers, so the caller's privacy header is not on it. *)
DashChat(r) ==
  /\ serving /\ req[r].pc \in {"idle", "done"}
  /\ \E name \in Typed, proven \in BOOLEAN :
       LET q == [Idle EXCEPT !.path = "chat"]
           s == GateStatus(name, proven)
       IN req' = [req EXCEPT ![r] =
                    IF s = 200 THEN Admit(q, GateIdentity(name)) ELSE Answered(q, s)]
  /\ reply' = NoReply
  /\ UNCHANGED <<rows, now, up, serving, faults>>

-----------------------------------------------------------------------------
(* Finished requests are forgotten when the table is administered.         *)
Settled == [r \in Requests |-> IF req[r].pc = "done" THEN Idle ELSE req[r]]

ExpiryOf(life) == IF life = 0 THEN Never ELSE now + life

(* A statement that committed is acknowledged, or the word of it is lost.  *)
Acknowledged(answer) ==
  \/ reply' = answer /\ UNCHANGED faults
  \/ /\ faults < MaxFaults
     /\ faults' = faults + 1
     /\ reply' = NoReply

MayMint(principal, S) == principal # "" /\ ~Reserved(principal) /\ ValidScopes(S)

(* Store.Mint under a fresh id, and its INSERT.                            *)
Mint(principal, S, life, i, by) ==
  /\ MayMint(principal, S) /\ up /\ rows[i] = NoRow
  /\ rows' = [rows EXCEPT ![i] =
       [ principal |-> principal, scopes |-> S, expires |-> ExpiryOf(life),
         revoked |-> Never, by |-> by ]]
  /\ Acknowledged(Reply("mint", principal, {i}))

(* Mutant: a row that was not updated is not looked for.                   *)
RevokeBlindly(i, who, mine) ==
  /\ up /\ rows[i] # NoRow
  /\ rows' = IF mine THEN [rows EXCEPT ![i].revoked = IF @ = Never THEN now ELSE @] ELSE rows
  /\ Acknowledged(Reply("revoke", who, {i}))

(* Mutant: the instant of the revocation is written every time.            *)
RevokeAgain(i, who, mine) ==
  /\ up /\ mine /\ rows' = [rows EXCEPT ![i].revoked = now]
  /\ Acknowledged(Reply("revoke", who, {i}))

(* Revoke and RevokeOwned.  mine: the row exists and belongs to whoever    *)
(* asks; any other is unknown to them.  The first revocation stands, and a *)
(* repetition is no error.                                                 *)
Revoke(i, who, mine) ==
  /\ up /\ mine
  /\ rows' = [rows EXCEPT ![i].revoked = IF @ = Never THEN now ELSE @]
  /\ Acknowledged(Reply("revoke", who, {i}))

(* List, and the tokens it shows as active.                                *)
List(who, mine) ==
  /\ up /\ reply' = Reply("list", who, {i \in mine : Active(rows[i])})
  /\ UNCHANGED <<rows, faults>>

(* Any refusal, and any error of the store: nothing is changed.            *)
Failed == reply' = NoReply /\ UNCHANGED <<rows, faults>>

Theirs(p) == {i \in Ids : rows[i] # NoRow /\ rows[i].principal = p}

(* POST /api/tokens: the scope is trimmed, "" means the family's, and it   *)
(* is capped for anyone but an owner.                                      *)
Wanted(scope) == IF scope = "" THEN FamilyScope ELSE Trimmed(scope)

MintAllowed(id, scope) ==
  /\ ValidScopes({Wanted(scope)})
  /\ IsOwner(id) \/ ScopeAtMost(Wanted(scope), FamilyScope)

(* What a person does with their own tokens behind the gate.               *)
OwnTokens(name) ==
  LET id == GateIdentity(name)
      p == id.principal
  IN /\ GateStatus(name, TRUE) = 200
     /\ \/ \E scope \in Asked, life \in Lifetimes, i \in Ids :
             /\ MintAllowed(id, scope)
             /\ Mint(p, {Wanted(scope)}, life, i, IF IsOwner(id) THEN "owner" ELSE "family")
        \/ \E i \in Ids : Revoke(i, p, i \in Theirs(p))
        \/ List(p, Theirs(p))

(* The token routes.  Failed is also a body that is malformed, without a   *)
(* label or with an expiry out of range.                                   *)
TokenRoute ==
  /\ serving
  /\ Failed \/ \E name \in Typed : OwnTokens(name)
  /\ req' = Settled
  /\ UNCHANGED <<now, up, serving>>

(* --pat-mint, --pat-revoke, --pat-list: the name is trimmed and not       *)
(* folded, the scope is stored as typed.                                   *)
Admin ==
  /\ \/ Failed
     \/ \E name \in Typed \ {""} :
          \/ \E scope \in Asked, life \in Lifetimes, i \in Ids :
               Mint(name, {scope} \ {""}, life, i, "operator")
          \/ List(name, Theirs(name))
     \/ \E i \in Ids : Revoke(i, rows[i].principal, rows[i] # NoRow)
  /\ req' = Settled
  /\ UNCHANGED <<now, up, serving>>

-----------------------------------------------------------------------------
(* The world: time, the store, the router process.                         *)
Tick == /\ now < MaxTime /\ now' = now + 1
        /\ UNCHANGED <<rows, up, serving, req, reply, faults>>

StoreFails == /\ up /\ faults < MaxFaults /\ up' = FALSE
              /\ faults' = faults + 1
              /\ UNCHANGED <<rows, now, serving, req, reply>>

StoreReturns == /\ ~up /\ up' = TRUE
                /\ UNCHANGED <<rows, now, serving, req, reply, faults>>

(* A router ends, with what it was doing.                                  *)
Stop ==
  /\ serving /\ faults < MaxFaults
  /\ serving' = FALSE /\ faults' = faults + 1
  /\ req' = [r \in Requests |->
       IF req[r].pc \in {"asking", "read"} THEN Answered(req[r], 0) ELSE req[r]]
  /\ UNCHANGED <<rows, now, up, reply>>

(* A router that is told to use a store it cannot open does not start.     *)
Start ==
  /\ ~serving /\ up /\ serving' = TRUE
  /\ UNCHANGED <<rows, now, up, req, reply, faults>>

Init ==
  /\ rows = [i \in Ids |-> NoRow] /\ now = 0 /\ up = TRUE /\ serving = FALSE
  /\ req = [r \in Requests |-> Idle] /\ reply = NoReply
  /\ faults = 0

Handle(r) == Lookup(r) \/ Decide(r)

Next ==
  \/ \E r \in Requests : Arrive(r) \/ DashChat(r) \/ Handle(r)
  \/ TokenRoute \/ Admin
  \/ Tick \/ StoreFails \/ StoreReturns
  \/ Stop \/ Start

Spec == Init /\ [][Next]_vars
-----------------------------------------------------------------------------
Times == 0 .. Never
Names == Typed \cup {Fold[n] : n \in Typed} \cup Synthetic
           \cup {KeyPrincipals[c] : c \in DOMAIN KeyPrincipals} \cup {""}

(* Every variable keeps its type; instants lie in the horizon.             *)
TypeOK ==
  /\ \A i \in Ids :
       /\ rows[i].principal \in Names /\ rows[i].scopes \subseteq Asked \cup KnownScopes
       /\ {rows[i].expires, rows[i].revoked} \subseteq Times
  /\ now \in 0 .. MaxTime /\ up \in BOOLEAN /\ serving \in BOOLEAN
  /\ \A r \in Requests :
       /\ req[r].pc \in {"idle", "asking", "read", "done"} /\ req[r].tier \in 0 .. 2
       /\ req[r].status \in {0, 200, 401, 403, 503}
  /\ faults \in 0 .. MaxFaults

Admitted(q) == q.pc = "done" /\ q.status = 200
ByToken(q) == q.cred.kind = "pat" /\ q.path # "exempt"

(* Verify has no cache, so a revocation "takes effect on the very next     *)
(* request": whatever replica it reaches, a request that arrives after its *)
(* token was revoked or ran out is not admitted.                           *)
RevokedStaysOut ==
  \A r \in Requests : Admitted(req[r]) /\ ByToken(req[r]) => ~req[r].dead

(* A 401 always means the credential.  However the store failed and came   *)
(* back in between, a caller with the right secret of a living token, or   *)
(* with a shared key, is never told to change it (writeStoreUnavailable).  *)
NotYourFault ==
  \A r \in Requests : LET q == req[r] IN
    q.pc = "done" /\ q.status = 401 /\ q.path # "chat" =>
      /\ q.cred.kind # "key"
      /\ q.cred.good => ~Active(rows[q.cred.id])

(* Admission is just in both directions: no dead token enters, and no      *)
(* living one is blamed for an outage.                                     *)
AdmissionJust == TypeOK /\ RevokedStaysOut /\ NotYourFault

(* A token's scope is a floor the caller cannot lower: with any header, on *)
(* any path, the request is held to its scope and to its header.  (A scope *)
(* stored with a blank around it has no tier: see the README.)             *)
ScopeIsFloor ==
  \A r \in Requests : LET q == req[r] IN
    Admitted(q) /\ ByToken(q) =>
      /\ q.tier >= q.hdr
      /\ \A s \in rows[q.cred.id].scopes \cap KnownScopes : q.tier >= ScopeTier(s)

(* What a family member starts stays on the fleet's hardware: their chat,  *)
(* and every request under a token they minted themselves, whatever scope  *)
(* they asked for and whoever presents it.                                 *)
FamilyFenced ==
  \A r \in Requests : LET q == req[r] IN
    Admitted(q) /\ (\/ q.path = "chat" /\ q.id.principal \notin Owners
                    \/ ByToken(q) /\ rows[q.cred.id].by = "family") => q.tier = 2

(* A request under a token is attributed to the token's person, and a name *)
(* that the router makes up for a credential is never a token's person.    *)
AttributionHonest ==
  /\ \A r \in Requests :
       Admitted(req[r]) /\ ByToken(req[r]) =>
         req[r].id.principal = rows[req[r].cred.id].principal
  /\ \A i \in Ids : rows[i].principal \notin Synthetic

(* A personal token is the router's business only: on the passthrough it   *)
(* is taken off, never sent to the upstream beside the caller's own key.   *)
TokenNotForwarded == \A r \in Requests : req[r].sends # "pat"

(* An admitted request stays within its fences: held to its token's scope, *)
(* its header and the family's cap, under its own name, and its token does *)
(* not travel on.                                                          *)
WithinFences == ScopeIsFloor /\ FamilyFenced /\ AttributionHonest /\ TokenNotForwarded

(* What the token routes and commands answer is so: a minted token is      *)
(* there under its person, a revoked one is revoked, and a list holds only *)
(* tokens of the person it is for.                                         *)
AnsweredMeansDone ==
  \A i \in reply.ids :
    /\ rows[i] # NoRow /\ rows[i].principal = reply.who
    /\ reply.op = "revoke" => rows[i].revoked # Never

(* A token's row is never removed, and its person, scope and expiry never  *)
(* change; a revocation is final, its instant included: no repetition, by  *)
(* whoever did not hear the answer, moves it.                              *)
RowsOnlyDie ==
  [][\A i \in Ids : rows[i] # NoRow =>
       /\ rows'[i].principal = rows[i].principal /\ rows'[i].scopes = rows[i].scopes
       /\ rows'[i].expires = rows[i].expires
       /\ rows[i].revoked # Never => rows'[i].revoked = rows[i].revoked]_vars
=============================================================================
