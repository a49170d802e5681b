-------------------------- MODULE FrontDoorProofs --------------------------
(***************************************************************************)
(* Proofs about FrontDoor for every set of tokens, names, scopes and       *)
(* lifetimes: a token's row only ever dies, so what was decided on a row   *)
(* that was read earlier is still right when the request is answered.      *)
(***************************************************************************)
EXTENDS FrontDoor, TLAPS

(* What the state is made of.                                              *)
RowSet ==
  [ principal : Names, scopes : SUBSET (Asked \cup KnownScopes), expires : Times,
    revoked : Times, by : {"", "owner", "family", "operator"} ]

CredSet ==
  [ kind : {"pat", "malformed", "key", "bearer", "none"}, id : Ids \cup {""}, good : BOOLEAN ]

Principals == Names \cup {"legacy:", "anthropic:", "anthropic-oauth:"}
Tokens == Ids \cup {"", "legacy-", "anthropic-", "anthropic-oauth-", "dashboard"}

IdentitySet == [principal : Principals, token : Tokens, scopes : SUBSET (Asked \cup KnownScopes)]

Pcs == {"idle", "asking", "read", "done"}
Paths == {"v1", "messages", "exempt", "chat"}
Tiers == 0 .. 2
Sent == {"none", "malformed", "key", "bearer"}
Statuses == {0, 200, 401, 403, 503}
Flags == BOOLEAN

RequestSet ==
  [ pc : Pcs, path : Paths, cred : CredSet, hdr : Tiers, xkey : Flags, dead : Flags,
    row : RowSet, id : IdentitySet, tier : Tiers, sends : Sent, status : Statuses ]

ReplySet == [op : {"none", "mint", "revoke", "list"}, who : Names, ids : SUBSET Ids]

(* A row that is there: its person is real, it has at most one scope, and  *)
(* a family member's is the family's.                                      *)
GoodRow(row) ==
  row # NoRow =>
    /\ row.principal # "" /\ row.principal \notin Synthetic
    /\ \A s, t \in row.scopes : s = t
    /\ row.by = "family" => row.scopes = {FamilyScope}

(* What is still so of a row since it was read.                            *)
Since(old, new) ==
  /\ new # NoRow
  /\ new.principal = old.principal /\ new.scopes = old.scopes
  /\ new.expires = old.expires /\ new.by = old.by
  /\ old.revoked # Never => new.revoked = old.revoked

Grows(old, new) == \A i \in Ids : old[i] # NoRow => Since(old[i], new[i])

(* Active, at a given instant.                                             *)
Alive(row, t) == row.revoked = Never /\ t < row.expires

(* What is so of a request q while the table is T and the time is t.       *)
CredGood(q, T, t) ==
  /\ q.cred.kind = "pat" => q.cred.id \in Ids
  /\ q.cred.good => q.cred.kind = "pat" /\ T[q.cred.id] # NoRow
  /\ q.dead => q.cred.kind = "pat" /\ T[q.cred.id] # NoRow /\ ~Alive(T[q.cred.id], t)

AskGood(q) == q.pc \in {"asking", "read"} => ByToken(q) /\ q.path # "chat"

ReadGood(q, T, t) ==
  q.pc = "read" =>
    /\ q.row # NoRow => Since(q.row, T[q.cred.id])
    /\ q.cred.good => q.row # NoRow
    /\ q.dead /\ q.row # NoRow => ~Alive(q.row, t)

(* An admitted request under a token, an admitted chat, and a 401.         *)
EnteredGood(q, T) ==
  Admitted(q) /\ ByToken(q) =>
    /\ T[q.cred.id] # NoRow /\ ~q.dead
    /\ q.id.principal = T[q.cred.id].principal
    /\ q.tier = Demand(q.hdr, T[q.cred.id].scopes)

ChatGood(q) ==
  /\ q.path = "chat" => q.cred.kind = "none"
  /\ q.path = "chat" /\ Admitted(q) /\ q.id.principal \notin Owners => q.tier = 2

RefusedGood(q, T, t) ==
  q.pc = "done" /\ q.status = 401 /\ q.path # "chat" =>
    /\ q.cred.kind # "key"
    /\ q.cred.good => ~Alive(T[q.cred.id], t)

GoodRequest(q, T, t) ==
  /\ q \in RequestSet
  /\ CredGood(q, T, t) /\ AskGood(q) /\ ReadGood(q, T, t)
  /\ EnteredGood(q, T) /\ ChatGood(q) /\ RefusedGood(q, T, t)

GoodTable(T) == T \in [Ids -> RowSet] /\ \A i \in Ids : GoodRow(T[i])

GoodReply(a, T) ==
  /\ a \in ReplySet
  /\ \A i \in a.ids :
       /\ T[i] # NoRow /\ T[i].principal = a.who
       /\ a.op = "revoke" => T[i].revoked # Never

WorldOK ==
  /\ now \in 0 .. MaxTime /\ up \in BOOLEAN /\ serving \in BOOLEAN /\ faults \in 0 .. MaxFaults

RequestsOK ==
  req \in [Requests -> RequestSet] /\ \A r \in Requests : GoodRequest(req[r], rows, now)

(* The inductive invariant.                                                *)
IInv == WorldOK /\ GoodTable(rows) /\ RequestsOK /\ GoodReply(reply, rows)
-----------------------------------------------------------------------------
(* Instants.                                                               *)
LEMMA Instants ==
  /\ Never \in Nat /\ Never > MaxTime /\ MaxTime \in Nat /\ Lifetimes \subseteq Nat
  /\ \A t \in 0 .. MaxTime, life \in Lifetimes : t + life < Never
<1> DEFINE top == CHOOSE n \in Lifetimes : \A m \in Lifetimes : m <= n
<1>1. top \in Lifetimes /\ \A m \in Lifetimes : m <= top BY FrontDoorAssumption
<1>2. top \in Nat BY <1>1, FrontDoorAssumption
<1>3. Never = MaxTime + 1 + top BY DEF Never
<1> HIDE DEF top
<1> QED BY <1>1, <1>2, <1>3, FrontDoorAssumption

(* A row that is not there is not active, whenever one asks.               *)
LEMMA NoRowTyped == NoRow \in RowSet /\ ~(NoRow.revoked = Never)
<1>1. 0 \in Times BY Instants DEF Times
<1>2. "" \in Names BY DEF Names
<1>3. Never # 0 BY Instants, FrontDoorAssumption
<1>4. {} \in SUBSET (Asked \cup KnownScopes) OBVIOUS
<1>5. NoRow \in RowSet BY <1>1, <1>2, <1>4 DEF NoRow, RowSet
<1>6. NoRow.revoked = 0 BY DEF NoRow
<1> QED BY <1>3, <1>5, <1>6

(* Ranks and tiers are 0, 1 or 2, and for a known scope they are the same. *)
LEMMA RankTier ==
  ASSUME NEW s
  PROVE Rank(s) \in 0 .. 2 /\ ScopeTier(s) \in 0 .. 2
        /\ (s \in KnownScopes => ScopeTier(s) = Rank(s))
BY DEF Rank, ScopeTier, KnownScopes, Trimmed

(* The demand is one of the three tiers and at least the header's.         *)
LEMMA DemandTyped ==
  ASSUME NEW hdr \in 0 .. 2, NEW S
  PROVE Demand(hdr, S) \in 0 .. 2 /\ Demand(hdr, S) >= hdr
<1>1. ScopeTier(ModelScope(S)) \in 0 .. 2 BY RankTier
<1> QED BY <1>1 DEF Demand

(* The strictest of at most one scope is that scope, or has no tier.       *)
LEMMA ScopeOfOne ==
  ASSUME NEW S, \A s, t \in S : s = t, NEW s \in S
  PROVE ModelScope(S) = s \/ Rank(s) = 0
<1> SUFFICES ASSUME Rank(s) # 0 PROVE ModelScope(S) = s OBVIOUS
<1>1. \A x : Rank(x) \in 0 .. 2 BY RankTier
<1>2. Rank(s) > 0 BY <1>1
<1>3. \A t \in S : Rank(t) <= Rank(s) BY <1>1
<1>4. (CHOOSE x \in S : \A t \in S : Rank(t) <= Rank(x)) \in S BY <1>3
<1> QED BY <1>2, <1>4 DEF ModelScope

(* A single known scope is a floor under the demand.                       *)
LEMMA ScopeFloor ==
  ASSUME NEW hdr \in 0 .. 2, NEW S, \A s, t \in S : s = t, NEW s \in S \cap KnownScopes
  PROVE Demand(hdr, S) >= ScopeTier(s)
<1>1. ModelScope(S) = s \/ Rank(s) = 0 BY ScopeOfOne
<1>2. ScopeTier(s) = Rank(s) /\ ScopeTier(s) \in 0 .. 2 BY RankTier
<1>3. Demand(hdr, S) \in 0 .. 2 BY DemandTyped
<1>4. CASE Rank(s) = 0 BY <1>2, <1>3, <1>4
<1>5. CASE ModelScope(S) = s BY <1>2, <1>5 DEF Demand
<1> QED BY <1>1, <1>4, <1>5

(* The family's scope keeps a request on the fleet.                        *)
LEMMA FamilyLocal ==
  ASSUME NEW hdr \in 0 .. 2 PROVE Demand(hdr, {FamilyScope}) = 2
<1>1. FamilyScope \in {FamilyScope} \cap KnownScopes BY DEF FamilyScope, KnownScopes
<1>2. ScopeTier(FamilyScope) = 2 BY DEF ScopeTier, FamilyScope
<1>3. Demand(hdr, {FamilyScope}) >= 2 BY <1>1, <1>2, ScopeFloor
<1>4. Demand(hdr, {FamilyScope}) \in 0 .. 2 BY DemandTyped
<1> QED BY <1>3, <1>4

-----------------------------------------------------------------------------
(* The instants of a row are numbers.                                      *)
LEMMA RowInstants ==
  ASSUME NEW row \in RowSet PROVE row.expires \in Nat /\ row.revoked \in Nat
<1>1. row.expires \in Times /\ row.revoked \in Times BY DEF RowSet
<1>2. \A x \in Times : x \in Nat BY DEF Times
<1> QED BY <1>1, <1>2

(* A row that has died stays dead.                                         *)
LEMMA DeadStays ==
  ASSUME NEW old \in RowSet, NEW new \in RowSet, Since(old, new),
         NEW t \in Nat, NEW u \in Nat, t <= u, ~Alive(old, t)
  PROVE ~Alive(new, u)
<1>1. old.expires \in Nat /\ new.expires = old.expires
  BY RowInstants DEF Since
<1>2. CASE old.revoked = Never BY <1>1, <1>2 DEF Alive
<1>3. CASE old.revoked # Never BY <1>3 DEF Alive, Since
<1> QED BY <1>2, <1>3

(* What is so of a request stays so while rows only die and time passes.   *)
LEMMA Persists ==
  ASSUME NEW q, NEW T \in [Ids -> RowSet], NEW U \in [Ids -> RowSet], Grows(T, U),
         NEW t \in Nat, NEW u \in Nat, t <= u, GoodRequest(q, T, t)
  PROVE GoodRequest(q, U, u)
<1> DEFINE i == q.cred.id
<1>1. q \in RequestSet /\ q.cred \in CredSet /\ q.row \in RowSet
  BY DEF GoodRequest, RequestSet
<1>2. (q.cred.good \/ q.dead) => q.cred.kind = "pat" BY DEF GoodRequest, CredGood
<1>3. q.cred.kind = "pat" => i \in Ids BY DEF GoodRequest, CredGood
<1>4. ASSUME i \in Ids, T[i] # NoRow
      PROVE /\ Since(T[i], U[i]) /\ T[i] \in RowSet /\ U[i] \in RowSet
            /\ ~Alive(T[i], t) => ~Alive(U[i], u)
  <2>1. Since(T[i], U[i]) /\ T[i] \in RowSet /\ U[i] \in RowSet BY <1>4 DEF Grows
  <2> QED BY <2>1, DeadStays
<1>5. CredGood(q, U, u)
  <2>1. CredGood(q, T, t) BY DEF GoodRequest
  <2> QED BY <2>1, <1>3, <1>4 DEF CredGood, Since
<1>6. ReadGood(q, U, u)
  <2> SUFFICES ASSUME q.pc = "read" PROVE ReadGood(q, U, u) BY DEF ReadGood
  <2>1. ReadGood(q, T, t) BY DEF GoodRequest
  <2>2. i \in Ids BY <1>3 DEF GoodRequest, AskGood, ByToken
  <2>3. ASSUME q.row # NoRow PROVE Since(q.row, U[i])
    <3>1. Since(q.row, T[i]) BY <2>1, <2>3 DEF ReadGood
    <3>2. T[i] # NoRow BY <3>1 DEF Since
    <3> QED BY <3>1, <3>2, <2>2, <1>4 DEF Since
  <2>4. ASSUME ~Alive(q.row, t) PROVE ~Alive(q.row, u)
    <3>1. q.row.expires \in Nat BY <1>1, RowInstants
    <3> QED BY <2>4, <3>1 DEF Alive
  <2> QED BY <2>1, <2>3, <2>4 DEF ReadGood
<1>7. EnteredGood(q, U)
  <2>1. EnteredGood(q, T) BY DEF GoodRequest
  <2>2. Admitted(q) /\ ByToken(q) => i \in Ids BY <1>3 DEF ByToken
  <2> QED BY <2>1, <2>2, <1>4 DEF EnteredGood, Since
<1>8. RefusedGood(q, U, u)
  <2>1. RefusedGood(q, T, t) /\ CredGood(q, T, t) BY DEF GoodRequest
  <2> QED BY <2>1, <1>2, <1>3, <1>4 DEF RefusedGood, CredGood
<1> QED BY <1>5, <1>6, <1>7, <1>8 DEF GoodRequest

(* The answer of a route stays true as well.                               *)
LEMMA ReplyPersists ==
  ASSUME NEW a, NEW T \in [Ids -> RowSet], NEW U \in [Ids -> RowSet], Grows(T, U),
         GoodReply(a, T)
  PROVE GoodReply(a, U)
<1>1. a.ids \subseteq Ids BY DEF GoodReply, ReplySet
<1> QED BY <1>1 DEF GoodReply, Grows, Since

(* A table that is left alone grows.                                       *)
LEMMA GrowsSelf == ASSUME NEW T PROVE Grows(T, T)
BY DEF Grows, Since

-----------------------------------------------------------------------------
(* What an answer leaves of the request, and what an admission adds.       *)
LEMMA AnsweredFields ==
  ASSUME NEW q \in RequestSet, NEW s \in Statuses
  PROVE LET a == Answered(q, s) IN
        /\ a \in RequestSet
        /\ a.pc = "done" /\ a.status = s /\ a.path = q.path /\ a.cred = q.cred
        /\ a.hdr = q.hdr /\ a.dead = q.dead
<1> DEFINE a == Answered(q, s)
<1>1. a = [q EXCEPT !.pc = "done", !.status = s, !.row = NoRow, !.xkey = FALSE] BY DEF Answered
<1>2. NoRow \in RowSet /\ FALSE \in Flags /\ "done" \in Pcs BY NoRowTyped DEF Flags, Pcs
<1> HIDE DEF a
<1>3. a \in RequestSet BY <1>1, <1>2 DEF RequestSet
<1>4. /\ a.pc = "done" /\ a.status = s /\ a.path = q.path /\ a.cred = q.cred
      /\ a.hdr = q.hdr /\ a.dead = q.dead
  BY <1>1 DEF RequestSet
<1> QED BY <1>3, <1>4 DEF a

LEMMA AdmitFields ==
  ASSUME NEW q \in RequestSet, NEW id \in IdentitySet
  PROVE LET a == Admit(q, id) IN
        /\ a \in RequestSet
        /\ a.pc = "done" /\ a.status = 200 /\ a.path = q.path /\ a.cred = q.cred
        /\ a.hdr = q.hdr /\ a.dead = q.dead
        /\ a.id = id /\ a.tier = Demand(q.hdr, id.scopes)
<1> DEFINE b == Answered(q, 200)
           tier == Demand(q.hdr, id.scopes)
           sends == IF q.path = "messages" /\ q.cred.kind # "pat" THEN q.cred.kind ELSE "none"
           a == Admit(q, id)
<1>1. /\ b \in RequestSet
      /\ b.pc = "done" /\ b.status = 200 /\ b.path = q.path /\ b.cred = q.cred
      /\ b.hdr = q.hdr /\ b.dead = q.dead
  BY AnsweredFields DEF Statuses
<1>2. q.hdr \in 0 .. 2 BY DEF RequestSet, Tiers
<1>3. tier \in Tiers BY <1>2, DemandTyped DEF Tiers
<1>4. q.cred.kind \in {"pat", "malformed", "key", "bearer", "none"} BY DEF RequestSet, CredSet
<1>5. sends \in Sent BY <1>4 DEF Sent
<1>6. a = [b EXCEPT !.id = id, !.tier = tier, !.sends = sends] BY DEF Admit
<1> HIDE DEF b, tier, sends, a
<1>7. a \in RequestSet BY <1>1, <1>3, <1>5, <1>6 DEF RequestSet
<1>8. /\ a.pc = b.pc /\ a.status = b.status /\ a.path = b.path /\ a.cred = b.cred
      /\ a.hdr = b.hdr /\ a.dead = b.dead /\ a.id = id /\ a.tier = tier
  BY <1>1, <1>6 DEF RequestSet
<1> QED BY <1>1, <1>7, <1>8 DEF a, tier

(* A refusal is good when a 401 is the credential's fault; a 200 without   *)
(* an identity is for an exempt path.                                      *)
LEMMA GoodAnswer ==
  ASSUME NEW q \in RequestSet, NEW s \in Statuses, NEW T, NEW t,
         CredGood(q, T, t), q.path = "chat" => q.cred.kind = "none",
         s = 200 => ~ByToken(q) /\ q.path # "chat",
         s = 401 /\ q.path # "chat" =>
           q.cred.kind # "key" /\ (q.cred.good => ~Alive(T[q.cred.id], t))
  PROVE GoodRequest(Answered(q, s), T, t)
<1> DEFINE a == Answered(q, s)
<1>1. /\ a \in RequestSet
      /\ a.pc = "done" /\ a.status = s /\ a.path = q.path /\ a.cred = q.cred
      /\ a.hdr = q.hdr /\ a.dead = q.dead
  BY AnsweredFields
<1> HIDE DEF a
<1>2. CredGood(a, T, t) BY <1>1 DEF CredGood
<1>3. AskGood(a) /\ ReadGood(a, T, t) BY <1>1 DEF AskGood, ReadGood
<1>4. EnteredGood(a, T) /\ ChatGood(a) BY <1>1 DEF EnteredGood, ChatGood, Admitted, ByToken
<1>5. RefusedGood(a, T, t) BY <1>1 DEF RefusedGood
<1> QED BY <1>1, <1>2, <1>3, <1>4, <1>5 DEF GoodRequest, a

(* An admission under a token is good when it is the token's row that the  *)
(* identity is made of.                                                    *)
LEMMA GoodAdmit ==
  ASSUME NEW q \in RequestSet, NEW id \in IdentitySet, NEW T, NEW t,
         CredGood(q, T, t), q.path = "chat" => q.cred.kind = "none",
         q.path = "chat" /\ id.principal \notin Owners => id.scopes = {FamilyScope},
         ByToken(q) =>
           /\ T[q.cred.id] # NoRow /\ ~q.dead
           /\ id.principal = T[q.cred.id].principal /\ id.scopes = T[q.cred.id].scopes
  PROVE GoodRequest(Admit(q, id), T, t)
<1> DEFINE a == Admit(q, id)
<1>1. /\ a \in RequestSet
      /\ a.pc = "done" /\ a.status = 200 /\ a.path = q.path /\ a.cred = q.cred
      /\ a.hdr = q.hdr /\ a.dead = q.dead
      /\ a.id = id /\ a.tier = Demand(q.hdr, id.scopes)
  BY AdmitFields
<1> HIDE DEF a
<1>2. CredGood(a, T, t) BY <1>1 DEF CredGood
<1>3. AskGood(a) /\ ReadGood(a, T, t) BY <1>1 DEF AskGood, ReadGood
<1>4. EnteredGood(a, T) BY <1>1 DEF EnteredGood, ByToken
<1>5. ChatGood(a)
  <2>1. q.hdr \in 0 .. 2 BY DEF RequestSet, Tiers
  <2> QED BY <2>1, <1>1, FamilyLocal DEF ChatGood
<1>6. RefusedGood(a, T, t) BY <1>1 DEF RefusedGood
<1> QED BY <1>1, <1>2, <1>3, <1>4, <1>5, <1>6 DEF GoodRequest, a
-----------------------------------------------------------------------------
(* What a statement on the table must leave behind.                        *)
TableStep ==
  /\ GoodTable(rows') /\ Grows(rows, rows')
  /\ GoodReply(reply', rows') /\ faults' \in 0 .. MaxFaults

LEMMA NoReplyGood == ASSUME NEW T PROVE GoodReply(NoReply, T)
<1>1. "" \in Names BY DEF Names
<1> QED BY <1>1 DEF GoodReply, NoReply, Reply, ReplySet

(* Whether or not its word gets through, an answer that is true is good.   *)
LEMMA AcknowledgedGood ==
  ASSUME WorldOK, NEW answer, GoodReply(answer, rows'), Acknowledged(answer)
  PROVE GoodReply(reply', rows') /\ faults' \in 0 .. MaxFaults
<1>1. faults \in 0 .. MaxFaults /\ MaxFaults \in Nat BY FrontDoorAssumption DEF WorldOK
<1>2. CASE reply' = answer /\ UNCHANGED faults BY <1>1, <1>2
<1>3. CASE faults < MaxFaults /\ faults' = faults + 1 /\ reply' = NoReply
  BY <1>1, <1>3, NoReplyGood
<1> QED BY <1>2, <1>3 DEF Acknowledged

LEMMA FailedKeeps == ASSUME IInv, Failed PROVE TableStep
<1>1. rows' = rows /\ reply' = NoReply /\ faults' = faults BY DEF Failed
<1>2. GoodTable(rows) /\ faults \in 0 .. MaxFaults BY DEF IInv, WorldOK
<1> QED BY <1>1, <1>2, NoReplyGood, GrowsSelf DEF TableStep

LEMMA MintKeeps ==
  ASSUME IInv, NEW principal \in Names, NEW S \in SUBSET (Asked \cup KnownScopes),
         \A s, t \in S : s = t, NEW life \in Lifetimes, NEW i \in Ids,
         NEW by \in {"owner", "family", "operator"}, by = "family" => S = {FamilyScope},
         Mint(principal, S, life, i, by)
  PROVE TableStep
<1> DEFINE row == [ principal |-> principal, scopes |-> S, expires |-> ExpiryOf(life),
                    revoked |-> Never, by |-> by ]
<1>1. rows' = [rows EXCEPT ![i] = row] /\ rows[i] = NoRow BY DEF Mint
<1>2. ExpiryOf(life) \in Times /\ Never \in Times
  <2>1. now \in 0 .. MaxTime BY DEF IInv, WorldOK
  <2>2. now + life < Never /\ now + life \in Nat /\ Never \in Nat BY <2>1, Instants
  <2>3. now + life \in 0 .. Never /\ Never \in 0 .. Never BY <2>2
  <2> QED BY <2>3 DEF Times, ExpiryOf
<1>3. row \in RowSet BY <1>2 DEF RowSet
<1>4. row # NoRow /\ row.principal = principal
  <2>1. NoRow.revoked = 0 BY DEF NoRow
  <2>2. row.revoked = Never OBVIOUS
  <2> QED BY <2>1, <2>2, NoRowTyped
<1>5. GoodRow(row) BY DEF GoodRow, Mint, MayMint, Reserved
<1>6. rows \in [Ids -> RowSet] /\ \A j \in Ids : GoodRow(rows[j]) BY DEF IInv, GoodTable
<1>7. /\ rows' \in [Ids -> RowSet] /\ rows'[i] = row
      /\ \A j \in Ids : j # i => rows'[j] = rows[j]
  BY <1>1, <1>3, <1>6
<1> HIDE DEF row
<1>8. GoodTable(rows') BY <1>5, <1>6, <1>7 DEF GoodTable
<1>9. Grows(rows, rows') BY <1>1, <1>7 DEF Grows, Since
<1>10. GoodReply(Reply("mint", principal, {i}), rows')
  BY <1>4, <1>7 DEF GoodReply, Reply, ReplySet
<1>11. Acknowledged(Reply("mint", principal, {i})) BY DEF Mint
<1> QED BY <1>8, <1>9, <1>10, <1>11, AcknowledgedGood DEF TableStep, IInv

LEMMA RevokeKeeps ==
  ASSUME IInv, NEW who, NEW i \in Ids, rows[i] # NoRow, rows[i].principal = who,
         rows' = [rows EXCEPT ![i].revoked = IF @ = Never THEN now ELSE @],
         Acknowledged(Reply("revoke", who, {i}))
  PROVE TableStep
<1> DEFINE when == IF rows[i].revoked = Never THEN now ELSE rows[i].revoked
           row == [rows[i] EXCEPT !.revoked = when]
<1>1. rows \in [Ids -> RowSet] /\ \A j \in Ids : GoodRow(rows[j]) BY DEF IInv, GoodTable
<1>2. rows' = [rows EXCEPT ![i] = row] BY <1>1
<1>3. when \in Times /\ when # Never
  <2>1. now \in 0 .. MaxTime BY DEF IInv, WorldOK
  <2>2. now \in 0 .. Never /\ now # Never BY <2>1, Instants
  <2>3. rows[i].revoked \in Times BY <1>1 DEF RowSet
  <2> QED BY <2>2, <2>3 DEF Times
<1>4. rows[i] \in RowSet BY <1>1
<1> HIDE DEF when
<1>5. /\ row \in RowSet /\ row.revoked = when
      /\ row.principal = rows[i].principal /\ row.scopes = rows[i].scopes
      /\ row.expires = rows[i].expires /\ row.by = rows[i].by
  BY <1>3, <1>4 DEF RowSet
<1>6. rows[i].revoked # Never => when = rows[i].revoked BY DEF when
<1> HIDE DEF row
<1>7. GoodRow(rows[i]) BY <1>1
<1>8. row # NoRow
  <2>1. NoRow.principal = "" BY DEF NoRow
  <2> QED BY <2>1, <1>5, <1>7 DEF GoodRow
<1>9. GoodRow(row) BY <1>5, <1>7 DEF GoodRow
<1>10. /\ rows' \in [Ids -> RowSet] /\ rows'[i] = row
       /\ \A j \in Ids : j # i => rows'[j] = rows[j]
  BY <1>1, <1>2, <1>5
<1>11. GoodTable(rows') BY <1>1, <1>9, <1>10 DEF GoodTable
<1>12. Grows(rows, rows')
  <2>1. Since(rows[i], row) BY <1>5, <1>6, <1>8 DEF Since
  <2> QED BY <2>1, <1>10 DEF Grows, Since
<1>13. GoodReply(Reply("revoke", who, {i}), rows')
  <2>1. rows[i].principal \in Names BY <1>4 DEF RowSet
  <2> QED BY <2>1, <1>3, <1>5, <1>8, <1>10 DEF GoodReply, Reply, ReplySet
<1> QED BY <1>11, <1>12, <1>13, AcknowledgedGood DEF TableStep, IInv

LEMMA ListKeeps ==
  ASSUME IInv, NEW who \in Names, List(who, Theirs(who)) PROVE TableStep
<1> DEFINE shown == {i \in Theirs(who) : Active(rows[i])}
<1>1. rows' = rows /\ faults' = faults /\ reply' = Reply("list", who, shown) BY DEF List
<1>2. GoodTable(rows) /\ faults \in 0 .. MaxFaults BY DEF IInv, WorldOK
<1>3. \A i \in shown : i \in Ids /\ rows[i] # NoRow /\ rows[i].principal = who BY DEF Theirs
<1> HIDE DEF shown
<1>4. GoodReply(Reply("list", who, shown), rows) BY <1>3 DEF GoodReply, Reply, ReplySet
<1> QED BY <1>1, <1>2, <1>4, GrowsSelf DEF TableStep

(* What a person may mint through the dashboard: one known scope, and the  *)
(* family's for anyone who is no owner.                                    *)
LEMMA WantedScope ==
  ASSUME NEW id, NEW scope \in Asked, MintAllowed(id, scope)
  PROVE /\ {Wanted(scope)} \in SUBSET (Asked \cup KnownScopes)
        /\ ~IsOwner(id) => {Wanted(scope)} = {FamilyScope}
<1>1. Wanted(scope) \in Asked \cup KnownScopes
  BY DEF Wanted, FamilyScope, KnownScopes, Trimmed
<1>2. ASSUME ~IsOwner(id) PROVE Wanted(scope) = FamilyScope
  <2>1. Wanted(scope) \in KnownScopes /\ Rank(Wanted(scope)) >= Rank(FamilyScope)
    BY <1>2 DEF MintAllowed, ScopeAtMost
  <2>2. Rank(FamilyScope) = 2 BY DEF Rank, FamilyScope, Trimmed
  <2>3. \A s \in KnownScopes : Rank(s) >= 2 => s = FamilyScope
    BY DEF Rank, KnownScopes, FamilyScope, Trimmed
  <2> QED BY <2>1, <2>2, <2>3
<1> QED BY <1>1, <1>2

LEMMA TokenRouteKeeps == ASSUME IInv, TokenRoute PROVE TableStep
<1>1. CASE Failed BY <1>1, FailedKeeps
<1>2. ASSUME NEW name \in Typed, OwnTokens(name) PROVE TableStep
  <2> DEFINE id == GateIdentity(name)
             p == id.principal
  <2>1. p \in Names
    <3>1. p = Fold[name] BY DEF GateIdentity, Identity
    <3> QED BY <3>1 DEF Names
  <2>2. ASSUME NEW scope \in Asked, NEW life \in Lifetimes, NEW i \in Ids, MintAllowed(id, scope),
               Mint(p, {Wanted(scope)}, life, i, IF IsOwner(id) THEN "owner" ELSE "family")
        PROVE TableStep
    <3>1. CASE IsOwner(id)
      <4>1. Mint(p, {Wanted(scope)}, life, i, "owner") BY <2>2, <3>1
      <4>2. {Wanted(scope)} \in SUBSET (Asked \cup KnownScopes) BY <2>2, WantedScope
      <4> HIDE DEF p, id
      <4> QED BY <4>1, <4>2, <2>1, MintKeeps
    <3>2. CASE ~IsOwner(id)
      <4>1. Mint(p, {Wanted(scope)}, life, i, "family") BY <2>2, <3>2
      <4>2. /\ {Wanted(scope)} \in SUBSET (Asked \cup KnownScopes)
            /\ {Wanted(scope)} = {FamilyScope}
        BY <2>2, <3>2, WantedScope
      <4> HIDE DEF p, id
      <4> QED BY <4>1, <4>2, <2>1, MintKeeps
    <3> QED BY <3>1, <3>2
  <2>3. ASSUME NEW i \in Ids, Revoke(i, p, i \in Theirs(p)) PROVE TableStep
    <3> HIDE DEF p, id
    <3>1. rows[i] # NoRow /\ rows[i].principal = p BY <2>3 DEF Revoke, Theirs
    <3>2. /\ rows' = [rows EXCEPT ![i].revoked = IF @ = Never THEN now ELSE @]
          /\ Acknowledged(Reply("revoke", p, {i}))
      BY <2>3 DEF Revoke
    <3> QED BY <3>1, <3>2, RevokeKeeps
  <2>4. CASE List(p, Theirs(p)) BY <2>1, <2>4, ListKeeps
  <2> QED BY <1>2, <2>2, <2>3, <2>4 DEF OwnTokens
<1> QED BY <1>1, <1>2 DEF TokenRoute

LEMMA AdminKeeps == ASSUME IInv, Admin PROVE TableStep
<1>1. CASE Failed BY <1>1, FailedKeeps
<1>2. ASSUME NEW name \in Typed, NEW scope \in Asked, NEW life \in Lifetimes, NEW i \in Ids,
             Mint(name, {scope} \ {""}, life, i, "operator")
      PROVE TableStep
  <2>1. name \in Names BY DEF Names
  <2> DEFINE S == {scope} \ {""}
  <2>2. S \in SUBSET (Asked \cup KnownScopes) /\ \A s, t \in S : s = t OBVIOUS
  <2>3. Mint(name, S, life, i, "operator") BY <1>2
  <2> HIDE DEF S
  <2> QED BY <2>1, <2>2, <2>3, MintKeeps
<1>3. ASSUME NEW name \in Typed, List(name, Theirs(name)) PROVE TableStep
  BY <1>3, ListKeeps DEF Names
<1>4. ASSUME NEW i \in Ids, Revoke(i, rows[i].principal, rows[i] # NoRow) PROVE TableStep
  BY <1>4, RevokeKeeps DEF Revoke
<1> QED BY <1>1, <1>2, <1>3, <1>4 DEF Admin
-----------------------------------------------------------------------------
(* A request that nobody has made is good.                                 *)
LEMMA IdleGood == ASSUME NEW T, NEW t PROVE GoodRequest(Idle, T, t)
<1>1. Other("none") \in CredSet BY DEF Other, CredSet
<1>2. Anonymous \in IdentitySet
  BY DEF Anonymous, Identity, IdentitySet, Principals, Names, Tokens
<1>3. "idle" \in Pcs /\ "v1" \in Paths /\ 0 \in Tiers /\ "none" \in Sent /\ 0 \in Statuses
  BY DEF Pcs, Paths, Tiers, Sent, Statuses
<1>4. FALSE \in Flags BY DEF Flags
<1>5. Idle \in RequestSet BY <1>1, <1>2, <1>3, <1>4, NoRowTyped DEF Idle, RequestSet
<1>6. /\ Idle.pc = "idle" /\ Idle.path = "v1" /\ Idle.dead = FALSE
      /\ Idle.cred.kind = "none" /\ Idle.cred.good = FALSE
  BY DEF Idle, Other
<1>7. CredGood(Idle, T, t) BY <1>6 DEF CredGood
<1>8. AskGood(Idle) /\ ReadGood(Idle, T, t) BY <1>6 DEF AskGood, ReadGood
<1>9. EnteredGood(Idle, T) /\ ChatGood(Idle) /\ RefusedGood(Idle, T, t)
  BY <1>6 DEF EnteredGood, ChatGood, RefusedGood, Admitted
<1> QED BY <1>5, <1>7, <1>8, <1>9 DEF GoodRequest

(* Requests that are good now are good after the table and time moved on.  *)
LEMMA RequestsPersist ==
  ASSUME IInv, GoodTable(rows'), Grows(rows, rows'), now' \in 0 .. MaxTime, now <= now',
         req' \in [Requests -> RequestSet], \A r \in Requests : GoodRequest(req'[r], rows, now)
  PROVE RequestsOK'
<1>1. now \in Nat /\ now' \in Nat BY DEF IInv, WorldOK
<1>2. rows \in [Ids -> RowSet] /\ rows' \in [Ids -> RowSet] BY DEF IInv, GoodTable
<1>3. ASSUME NEW r \in Requests PROVE GoodRequest(req'[r], rows', now')
  BY <1>1, <1>2, Persists
<1> QED BY <1>3 DEF RequestsOK

(* One request moves, the world stands still.                              *)
LEMMA OneMoves ==
  ASSUME IInv, NEW r \in Requests, NEW q, GoodRequest(q, rows, now),
         req' = [req EXCEPT ![r] = q], UNCHANGED <<rows, now>>
  PROVE RequestsOK'
<1>1. req \in [Requests -> RequestSet] /\ \A x \in Requests : GoodRequest(req[x], rows, now)
  BY DEF IInv, RequestsOK
<1>2. q \in RequestSet BY DEF GoodRequest
<1>3. req' \in [Requests -> RequestSet] BY <1>1, <1>2
<1>4. \A x \in Requests : req'[x] = IF x = r THEN q ELSE req[x] BY <1>1
<1> QED BY <1>1, <1>3, <1>4 DEF RequestsOK

(* Forgetting finished requests.                                           *)
LEMMA SettledGood ==
  ASSUME IInv, TableStep, req' = Settled, UNCHANGED now PROVE RequestsOK'
<1>1. req \in [Requests -> RequestSet] /\ \A x \in Requests : GoodRequest(req[x], rows, now)
  BY DEF IInv, RequestsOK
<1>2. \A x \in Requests : req'[x] = (IF req[x].pc = "done" THEN Idle ELSE req[x])
  BY DEF Settled
<1>3. \A x \in Requests : GoodRequest(req'[x], rows, now) BY <1>1, <1>2, IdleGood
<1>4. \A x \in Requests : req'[x] \in RequestSet BY <1>3 DEF GoodRequest
<1>5. req' \in [Requests -> RequestSet] BY <1>4 DEF Settled
<1>6. now \in 0 .. MaxTime /\ now' = now /\ now <= now' BY DEF IInv, WorldOK
<1> QED BY <1>3, <1>5, <1>6, RequestsPersist DEF TableStep

(* A router that ends answers nobody.                                      *)
LEMMA StopGood == ASSUME IInv, Stop PROVE RequestsOK'
<1>1. req \in [Requests -> RequestSet] /\ \A x \in Requests : GoodRequest(req[x], rows, now)
  BY DEF IInv, RequestsOK
<1>2. \A x \in Requests :
        req'[x] = IF req[x].pc \in {"asking", "read"} THEN Answered(req[x], 0) ELSE req[x]
  BY DEF Stop
<1>3. ASSUME NEW x \in Requests PROVE GoodRequest(Answered(req[x], 0), rows, now)
  <2>1. GoodRequest(req[x], rows, now) BY <1>1
  <2>2. req[x] \in RequestSet /\ CredGood(req[x], rows, now) /\ ChatGood(req[x])
    BY <2>1 DEF GoodRequest
  <2>3. 0 \in Statuses BY DEF Statuses
  <2> QED BY <2>2, <2>3, GoodAnswer DEF ChatGood
<1>4. \A x \in Requests : GoodRequest(req'[x], rows, now) BY <1>1, <1>2, <1>3
<1>5. \A x \in Requests : req'[x] \in RequestSet BY <1>4 DEF GoodRequest
<1>6. req' \in [Requests -> RequestSet] BY <1>5 DEF Stop
<1>7. rows' = rows /\ now' = now BY DEF Stop
<1> QED BY <1>4, <1>6, <1>7 DEF RequestsOK
-----------------------------------------------------------------------------
(* A request as it comes in.                                               *)
LEMMA FreshFields ==
  ASSUME NEW path \in Paths, NEW cred \in CredSet, NEW hdr \in Tiers, NEW x \in Flags,
         NEW dead \in Flags
  PROVE LET q == Fresh(path, cred, hdr, x, dead) IN
        /\ q \in RequestSet /\ q.pc = "asking" /\ q.path = path /\ q.cred = cred
        /\ q.dead = dead
<1> DEFINE q == Fresh(path, cred, hdr, x, dead)
<1>1. Idle \in RequestSet BY IdleGood DEF GoodRequest
<1>2. "asking" \in Pcs BY DEF Pcs
<1>3. q \in RequestSet BY <1>1, <1>2 DEF RequestSet, Fresh
<1>4. q.pc = "asking" /\ q.path = path /\ q.cred = cred /\ q.dead = dead
  BY <1>1 DEF RequestSet, Fresh
<1> QED BY <1>3, <1>4

LEMMA CredTyped ==
  ASSUME NEW cred \in Credentials
  PROVE /\ cred \in CredSet
        /\ cred.kind = "pat" => cred.id \in Ids
        /\ cred.kind # "pat" => cred.good = FALSE
<1>1. ASSUME NEW i \in Ids, NEW g \in BOOLEAN, cred = PAT(i, g)
      PROVE cred \in CredSet /\ cred.kind = "pat" /\ cred.id \in Ids
  BY <1>1 DEF PAT, CredSet
<1>2. ASSUME NEW k \in {"malformed", "key", "bearer", "none"}, cred = Other(k)
      PROVE cred \in CredSet /\ cred.kind # "pat" /\ cred.good = FALSE
  BY <1>2 DEF Other, CredSet
<1>3. \/ \E i \in Ids, g \in BOOLEAN : cred = PAT(i, g)
      \/ \E k \in {"malformed", "key", "bearer", "none"} : cred = Other(k)
  BY DEF Credentials
<1> QED BY <1>1, <1>2, <1>3

(* The identities the router makes up.                                     *)
LEMMA MadeUp ==
  /\ AnthropicKeyIdentity \in IdentitySet /\ LegacyIdentity \in IdentitySet
  /\ Anonymous \in IdentitySet
  /\ \A k \in {"bearer", "key"} : AnthropicOAuthIdentity(k) \in IdentitySet
<1>1. DOMAIN KeyPrincipals = {"xkey", "bearer", "key"} BY FrontDoorAssumption
<1>2. \A c \in {"xkey", "bearer", "key"} : KeyPrincipals[c] \in Names BY <1>1 DEF Names
<1>3. "" \in Names BY DEF Names
<1>4. Mapped("xkey", "anthropic:") \in Principals BY <1>2 DEF Mapped, Principals
<1>5. \A k \in {"bearer", "key"} : Mapped(k, "anthropic-oauth:") \in Principals
  BY <1>2 DEF Mapped, Principals
<1>6. "" \in Principals /\ "legacy:" \in Principals BY <1>3 DEF Principals
<1>7. {"", "legacy-", "anthropic-", "anthropic-oauth-"} \subseteq Tokens BY DEF Tokens
<1>8. {} \in SUBSET (Asked \cup KnownScopes) OBVIOUS
<1> QED BY <1>4, <1>5, <1>6, <1>7, <1>8
  DEF AnthropicKeyIdentity, LegacyIdentity, Anonymous, AnthropicOAuthIdentity, Identity, IdentitySet

(* What needs no look at the table is settled well.                        *)
LEMMA StraightGood ==
  ASSUME NEW q \in RequestSet, NEW T, NEW t, CredGood(q, T, t), q.path # "chat", ~Asks(q)
  PROVE GoodRequest(Straight(q), T, t)
<1>1. ~ByToken(q) BY DEF ByToken, Asks
<1>2. ASSUME NEW id \in IdentitySet PROVE GoodRequest(Admit(q, id), T, t)
  BY <1>1, GoodAdmit
<1>3. GoodRequest(Answered(q, 200), T, t) BY <1>1, GoodAnswer DEF Statuses
<1>4. ASSUME q.cred.kind # "key", q.cred.kind # "pat" PROVE GoodRequest(Answered(q, 401), T, t)
  <2>1. ~q.cred.good BY <1>4 DEF CredGood
  <2>2. 401 \in Statuses BY DEF Statuses
  <2> QED BY <1>4, <2>1, <2>2, GoodAnswer
<1>5. q.path = "exempt" \/ q.cred.kind # "pat" BY DEF Asks
<1> QED BY <1>2, <1>3, <1>4, <1>5, MadeUp DEF Straight

LEMMA ArriveGood == ASSUME IInv, NEW r \in Requests, Arrive(r) PROVE RequestsOK'
<1>1. PICK path \in {"v1", "messages", "exempt"}, cred \in Credentials,
           hdr \in Headers, x, dead \in BOOLEAN :
        /\ cred.good => rows[cred.id] # NoRow
        /\ x => path = "messages" /\ cred.kind # "pat"
        /\ path = "exempt" => cred.kind = "none" /\ hdr = 0
        /\ dead <=> DeadToken(cred)
        /\ req' = [req EXCEPT ![r] = Entering(Fresh(path, cred, hdr, x, dead))]
  BY Zenon DEF Arrive
<1> DEFINE q == Fresh(path, cred, hdr, x, dead)
<1>2. req' = [req EXCEPT ![r] = IF Asks(q) THEN q ELSE Straight(q)] BY <1>1 DEF Entering
<1>3. rows' = rows /\ now' = now BY DEF Arrive
<1>4. dead => /\ cred.kind = "pat" /\ rows[cred.id] # NoRow /\ ~Alive(rows[cred.id], now)
  BY <1>1 DEF DeadToken, Active, Alive
<1>5. path \in Paths /\ path # "chat" /\ hdr \in Tiers /\ x \in Flags /\ dead \in Flags
  BY FrontDoorAssumption DEF Paths, Tiers, Flags
<1>6. /\ cred \in CredSet
      /\ cred.kind = "pat" => cred.id \in Ids
      /\ cred.kind # "pat" => cred.good = FALSE
  BY CredTyped
<1>7. /\ q \in RequestSet /\ q.pc = "asking" /\ q.path = path /\ q.cred = cred
      /\ q.dead = dead
  BY <1>5, <1>6, FreshFields
<1> HIDE DEF q
<1>8. CredGood(q, rows, now) BY <1>1, <1>4, <1>6, <1>7 DEF CredGood
<1>9. CASE Asks(q)
  <2>1. AskGood(q) /\ ReadGood(q, rows, now)
    BY <1>5, <1>7, <1>9 DEF AskGood, ReadGood, Asks, ByToken
  <2>2. EnteredGood(q, rows) /\ ChatGood(q) /\ RefusedGood(q, rows, now)
    BY <1>5, <1>7 DEF EnteredGood, ChatGood, RefusedGood, Admitted
  <2>3. GoodRequest(q, rows, now) BY <1>7, <1>8, <2>1, <2>2 DEF GoodRequest
  <2> QED BY <1>2, <1>9, <2>3, <1>3, OneMoves
<1>10. CASE ~Asks(q)
  <2>1. GoodRequest(Straight(q), rows, now) BY <1>5, <1>7, <1>8, <1>10, StraightGood
  <2> QED BY <1>2, <1>10, <2>1, <1>3, OneMoves
<1> QED BY <1>9, <1>10

LEMMA GateTyped ==
  ASSUME NEW name \in Typed
  PROVE /\ GateIdentity(name) \in IdentitySet
        /\ GateIdentity(name).principal \notin Owners
             => GateIdentity(name).scopes = {FamilyScope}
<1>1. Fold[name] \in Principals BY DEF Names, Principals
<1>2. {FamilyScope} \in SUBSET (Asked \cup KnownScopes) BY DEF FamilyScope, KnownScopes
<1>3. "dashboard" \in Tokens BY DEF Tokens
<1> QED BY <1>1, <1>2, <1>3 DEF GateIdentity, Identity, IdentitySet

LEMMA DashChatGood == ASSUME IInv, NEW r \in Requests, DashChat(r) PROVE RequestsOK'
<1> DEFINE q == [Idle EXCEPT !.path = "chat"]
<1>1. PICK name \in Typed, proven \in BOOLEAN :
        req' = [req EXCEPT ![r] =
                  IF GateStatus(name, proven) = 200 THEN Admit(q, GateIdentity(name))
                  ELSE Answered(q, GateStatus(name, proven))]
  BY Zenon DEF DashChat
<1>2. rows' = rows /\ now' = now BY DEF DashChat
<1>3. GateStatus(name, proven) \in {200, 401, 403} BY DEF GateStatus
<1>4. /\ q \in RequestSet /\ q.path = "chat" /\ q.cred = Idle.cred /\ q.dead = Idle.dead
  <2>1. Idle \in RequestSet BY IdleGood DEF GoodRequest
  <2>2. "chat" \in Paths BY DEF Paths
  <2>3. q \in RequestSet BY <2>1, <2>2 DEF RequestSet
  <2> QED BY <2>1, <2>3 DEF RequestSet
<1>5. Idle.cred.kind = "none" /\ CredGood(Idle, rows, now)
  BY IdleGood DEF GoodRequest, Idle, Other
<1> HIDE DEF q
<1>6. q.cred.kind = "none" /\ CredGood(q, rows, now) /\ ~ByToken(q)
  BY <1>4, <1>5 DEF CredGood, ByToken
<1>7. GoodRequest(Admit(q, GateIdentity(name)), rows, now)
  BY <1>4, <1>6, GateTyped, GoodAdmit
<1>8. ASSUME NEW s \in {401, 403} PROVE GoodRequest(Answered(q, s), rows, now)
  <2>1. s \in Statuses /\ s # 200 BY DEF Statuses
  <2> QED BY <1>4, <1>6, <2>1, GoodAnswer
<1>9. CASE GateStatus(name, proven) = 200 BY <1>1, <1>2, <1>7, <1>9, OneMoves
<1>10. CASE GateStatus(name, proven) # 200
  <2>1. GateStatus(name, proven) \in {401, 403} BY <1>3, <1>10
  <2>2. PICK s \in {401, 403} : s = GateStatus(name, proven) BY <2>1, ZenonT(60)
  <2>3. req' = [req EXCEPT ![r] = Answered(q, s)] BY <1>1, <1>10, <2>2, Zenon
  <2>4. GoodRequest(Answered(q, s), rows, now) BY <1>8
  <2> QED BY <1>2, <2>3, <2>4, OneMoves
<1> QED BY <1>9, <1>10

(* The row that is read is the table's.                                    *)
LEMMA LookupGood == ASSUME IInv, NEW r \in Requests, Lookup(r) PROVE RequestsOK'
<1> DEFINE q == req[r]
           i == q.cred.id
           a == [q EXCEPT !.pc = "read", !.row = rows[i]]
<1>1. /\ q.pc = "asking" /\ rows' = rows /\ now' = now
      /\ req' = [req EXCEPT ![r] = IF up THEN a ELSE Answered(q, 503)]
  BY DEF Lookup
<1>2. GoodRequest(q, rows, now) BY DEF IInv, RequestsOK
<1>3. /\ q \in RequestSet /\ CredGood(q, rows, now) /\ ByToken(q) /\ q.path # "chat"
      /\ i \in Ids
  BY <1>1, <1>2 DEF GoodRequest, AskGood, CredGood, ByToken
<1>4. CASE ~up
  <2>1. 503 \in Statuses /\ 503 # 200 /\ 503 # 401 BY DEF Statuses
  <2>2. GoodRequest(Answered(q, 503), rows, now) BY <1>3, <2>1, GoodAnswer
  <2> QED BY <1>1, <1>4, <2>2, OneMoves
<1>5. CASE up
  <2>1. rows[i] \in RowSet BY <1>3 DEF IInv, GoodTable
  <2>2. "read" \in Pcs BY DEF Pcs
  <2> HIDE DEF q
  <2>3. a \in RequestSet BY <1>3, <2>1, <2>2 DEF RequestSet
  <2>4. /\ a.pc = "read" /\ a.row = rows[i] /\ a.cred = q.cred /\ a.dead = q.dead
        /\ a.path = q.path
    BY <1>3 DEF RequestSet
  <2> HIDE DEF a
  <2>5. CredGood(a, rows, now) BY <1>3, <2>4 DEF CredGood
  <2>6. AskGood(a) /\ ChatGood(a) BY <1>3, <2>4 DEF AskGood, ChatGood, ByToken, Admitted
  <2>7. ReadGood(a, rows, now) BY <2>4, <2>5 DEF ReadGood, CredGood, Since
  <2>8. EnteredGood(a, rows) /\ RefusedGood(a, rows, now)
    BY <2>4 DEF EnteredGood, RefusedGood, Admitted
  <2>9. GoodRequest(a, rows, now) BY <2>3, <2>5, <2>6, <2>7, <2>8 DEF GoodRequest
  <2>10. req' = [req EXCEPT ![r] = a] BY <1>1, <1>5 DEF q
  <2> QED BY <1>1, <2>9, <2>10, OneMoves
<1> QED BY <1>4, <1>5

(* The decision on the row that was read is right of the row as it is now. *)
LEMMA DecideGood == ASSUME IInv, NEW r \in Requests, Decide(r) PROVE RequestsOK'
<1> DEFINE q == req[r]
           i == q.cred.id
           id == Identity(q.row.principal, i, q.row.scopes)
<1>1. /\ q.pc = "read" /\ rows' = rows /\ now' = now
      /\ req' = [req EXCEPT ![r] = IF Accepts(q) THEN Admit(q, id) ELSE Answered(q, 401)]
  BY DEF Decide
<1>2. GoodRequest(q, rows, now) BY DEF IInv, RequestsOK
<1>3. /\ q \in RequestSet /\ CredGood(q, rows, now) /\ ReadGood(q, rows, now)
      /\ ByToken(q) /\ q.path # "chat" /\ i \in Ids
  BY <1>1, <1>2 DEF GoodRequest, AskGood, CredGood, ByToken
<1>4. q.row \in RowSet /\ rows[i] \in RowSet /\ now \in Nat
  BY <1>3 DEF RequestSet, IInv, GoodTable, WorldOK
<1> HIDE DEF q
<1>5. q.row # NoRow => Since(q.row, rows[i]) BY <1>1, <1>3 DEF ReadGood
<1>6. CASE Accepts(q)
  <2>1. q.row # NoRow /\ Alive(q.row, now) BY <1>6 DEF Accepts, Active, Alive
  <2>2. ~q.dead BY <1>1, <1>3, <2>1 DEF ReadGood
  <2>3. id \in IdentitySet
    <3>1. q.row.principal \in Principals /\ q.row.scopes \in SUBSET (Asked \cup KnownScopes)
      BY <1>4 DEF RowSet, Principals
    <3>2. i \in Tokens BY <1>3 DEF Tokens
    <3> QED BY <3>1, <3>2 DEF Identity, IdentitySet
  <2>4. id.principal = rows[i].principal /\ id.scopes = rows[i].scopes /\ rows[i] # NoRow
    BY <1>5, <2>1 DEF Identity, Since
  <2> HIDE DEF id
  <2>5. GoodRequest(Admit(q, id), rows, now) BY <1>3, <2>2, <2>3, <2>4, GoodAdmit
  <2> QED BY <1>1, <1>6, <2>5, OneMoves
<1>7. CASE ~Accepts(q)
  <2>1. ASSUME q.cred.good PROVE ~Alive(rows[i], now)
    <3>1. q.row # NoRow BY <1>1, <1>3, <2>1 DEF ReadGood
    <3>2. ~Alive(q.row, now) BY <1>7, <2>1, <3>1 DEF Accepts, Active, Alive
    <3>3. now <= now BY <1>4
    <3> QED BY <1>4, <1>5, <3>1, <3>2, <3>3, DeadStays
  <2>2. 401 \in Statuses /\ 401 # 200 /\ q.cred.kind # "key" BY <1>3 DEF Statuses, ByToken
  <2>3. GoodRequest(Answered(q, 401), rows, now) BY <1>3, <2>1, <2>2, GoodAnswer
  <2> QED BY <1>1, <1>7, <2>3, OneMoves
<1> QED BY <1>6, <1>7
-----------------------------------------------------------------------------
LEMMA InitGood == Init => IInv
<1> SUFFICES ASSUME Init PROVE IInv OBVIOUS
<1>1. WorldOK
  <2>1. 0 \in 0 .. MaxTime /\ 0 \in 0 .. MaxFaults BY FrontDoorAssumption
  <2> QED BY <2>1 DEF Init, WorldOK
<1>2. GoodTable(rows) BY NoRowTyped DEF Init, GoodTable, GoodRow
<1>3. RequestsOK
  <2>1. GoodRequest(Idle, rows, now) BY IdleGood
  <2>2. Idle \in RequestSet BY <2>1 DEF GoodRequest
  <2> QED BY <2>1, <2>2 DEF Init, RequestsOK
<1>4. GoodReply(reply, rows) BY NoReplyGood DEF Init
<1> QED BY <1>1, <1>2, <1>3, <1>4 DEF IInv

(* Every step leaves a good state, and rows only die.                      *)
LEMMA StepGood == ASSUME IInv, [Next]_vars PROVE IInv' /\ Grows(rows, rows')
<1>1. GoodTable(rows) /\ RequestsOK /\ GoodReply(reply, rows) /\ WorldOK BY DEF IInv
<1>2. ASSUME rows' = rows, now' = now, up' \in BOOLEAN, serving' \in BOOLEAN,
             faults' \in 0 .. MaxFaults, reply' = reply \/ reply' = NoReply, RequestsOK'
      PROVE IInv' /\ Grows(rows, rows')
  <2>1. GoodReply(reply', rows') BY <1>1, <1>2, NoReplyGood
  <2> QED BY <1>1, <1>2, <2>1, GrowsSelf DEF IInv, WorldOK
<1>3. ASSUME TableStep, req' = Settled, UNCHANGED <<now, up, serving>>
      PROVE IInv' /\ Grows(rows, rows')
  <2>1. RequestsOK' BY <1>3, SettledGood
  <2> QED BY <1>1, <1>3, <2>1 DEF IInv, WorldOK, TableStep
<1>4. ASSUME NEW r \in Requests, Arrive(r) \/ DashChat(r) PROVE IInv' /\ Grows(rows, rows')
  <2>1. RequestsOK' BY <1>4, ArriveGood, DashChatGood
  <2>2. reply' = NoReply /\ UNCHANGED <<rows, now, up, serving, faults>>
    BY <1>4 DEF Arrive, DashChat
  <2> QED BY <1>1, <1>2, <2>1, <2>2 DEF WorldOK
<1>5. ASSUME NEW r \in Requests, Handle(r) PROVE IInv' /\ Grows(rows, rows')
  <2>1. RequestsOK' BY <1>5, LookupGood, DecideGood DEF Handle
  <2>2. UNCHANGED <<rows, now, up, serving, reply, faults>> BY <1>5 DEF Handle, Lookup, Decide
  <2> QED BY <1>1, <1>2, <2>1, <2>2 DEF WorldOK
<1>6. CASE TokenRoute BY <1>3, <1>6, TokenRouteKeeps DEF TokenRoute
<1>7. CASE Admin BY <1>3, <1>7, AdminKeeps DEF Admin
<1>8. CASE Tick
  <2>1. UNCHANGED <<rows, up, serving, req, reply, faults>> BY <1>8 DEF Tick
  <2>2. now' \in 0 .. MaxTime /\ now <= now' BY <1>1, <1>8, FrontDoorAssumption DEF Tick, WorldOK
  <2>3. RequestsOK' BY <1>1, <2>1, <2>2, GrowsSelf, RequestsPersist DEF RequestsOK
  <2> QED BY <1>1, <2>1, <2>2, <2>3, GrowsSelf DEF IInv, WorldOK
<1>9. ASSUME req' = req, rows' = rows, now' = now PROVE RequestsOK' BY <1>1, <1>9 DEF RequestsOK
<1>10. faults < MaxFaults => faults + 1 \in 0 .. MaxFaults
  BY <1>1, FrontDoorAssumption DEF WorldOK
<1>11. CASE StoreFails BY <1>1, <1>2, <1>9, <1>10, <1>11 DEF StoreFails, WorldOK
<1>12. CASE StoreReturns BY <1>1, <1>2, <1>9, <1>12 DEF StoreReturns, WorldOK
<1>13. CASE Stop
  <2>1. RequestsOK' BY <1>13, StopGood
  <2> QED BY <1>1, <1>2, <1>10, <1>13, <2>1 DEF Stop, WorldOK
<1>14. CASE Start BY <1>1, <1>2, <1>9, <1>14 DEF Start, WorldOK
<1>15. CASE UNCHANGED vars BY <1>1, <1>2, <1>9, <1>15 DEF vars, WorldOK
<1> QED BY <1>4, <1>5, <1>6, <1>7, <1>8, <1>11, <1>12, <1>13, <1>14, <1>15 DEF Next

(* The invariant holds of every reachable state: the table is well formed, *)
(* every request knows of its token only what is still so, and what was    *)
(* answered is true.                                                       *)
THEOREM Inductive == Spec => []IInv
<1>1. Init => IInv BY InitGood
<1>2. IInv /\ [Next]_vars => IInv' BY StepGood
<1> QED BY <1>1, <1>2, PTL DEF Spec
-----------------------------------------------------------------------------
LEMMA RequestFacts ==
  ASSUME IInv, NEW r \in Requests
  PROVE /\ GoodRequest(req[r], rows, now) /\ req[r] \in RequestSet /\ req[r].hdr \in 0 .. 2
        /\ ByToken(req[r]) => req[r].cred.id \in Ids /\ GoodRow(rows[req[r].cred.id])
<1>1. GoodRequest(req[r], rows, now) BY DEF IInv, RequestsOK
<1>2. req[r] \in RequestSet BY <1>1 DEF GoodRequest
<1>3. req[r].hdr \in 0 .. 2 BY <1>2 DEF RequestSet, Tiers
<1>4. ByToken(req[r]) => req[r].cred.id \in Ids BY <1>1 DEF GoodRequest, CredGood, ByToken
<1> QED BY <1>1, <1>2, <1>3, <1>4 DEF IInv, GoodTable

LEMMA TypesHold == IInv => TypeOK
<1> SUFFICES ASSUME IInv PROVE TypeOK OBVIOUS
<1>1. \A i \in Ids : /\ rows[i].principal \in Names
                    /\ rows[i].scopes \subseteq Asked \cup KnownScopes
                    /\ {rows[i].expires, rows[i].revoked} \subseteq Times
  <2>1. ASSUME NEW i \in Ids PROVE rows[i] \in RowSet BY DEF IInv, GoodTable
  <2> QED BY <2>1 DEF RowSet
<1>2. \A r \in Requests : /\ req[r].pc \in {"idle", "asking", "read", "done"}
                         /\ req[r].tier \in 0 .. 2
                         /\ req[r].status \in {0, 200, 401, 403, 503}
  <2>1. ASSUME NEW r \in Requests
        PROVE req[r].pc \in Pcs /\ req[r].tier \in Tiers /\ req[r].status \in Statuses
    BY RequestFacts DEF RequestSet
  <2> QED BY <2>1 DEF Pcs, Tiers, Statuses
<1>3. WorldOK BY DEF IInv
<1> QED BY <1>1, <1>2, <1>3 DEF TypeOK, WorldOK

(* For every table, name, scope and lifetime, and however many requests    *)
(* are verified at once: a request that arrives after its token died is    *)
(* not admitted, and a 401 never blames a living token or a shared key.    *)
THEOREM AdmissionJustHolds == Spec => []AdmissionJust
<1>1. IInv => AdmissionJust
  <2> SUFFICES ASSUME IInv PROVE RevokedStaysOut /\ NotYourFault
    BY TypesHold DEF AdmissionJust
  <2>1. RevokedStaysOut BY RequestFacts DEF RevokedStaysOut, GoodRequest, EnteredGood
  <2>2. ASSUME NEW r \in Requests, req[r].pc = "done", req[r].status = 401, req[r].path # "chat"
        PROVE /\ req[r].cred.kind # "key"
              /\ req[r].cred.good => ~Active(rows[req[r].cred.id])
    <3>1. RefusedGood(req[r], rows, now) BY RequestFacts DEF GoodRequest
    <3> QED BY <2>2, <3>1 DEF RefusedGood, Alive, Active
  <2> QED BY <2>1, <2>2 DEF NotYourFault
<1> QED BY <1>1, Inductive, PTL

(* A request under a token is held to the token's scope, to its header and *)
(* to the family's cap, is attributed to the token's person, and the token *)
(* does not travel on.                                                     *)
THEOREM WithinFencesHolds == Spec => []WithinFences
<1>1. IInv => WithinFences
  <2> SUFFICES ASSUME IInv PROVE WithinFences OBVIOUS
  <2>1. ASSUME NEW r \in Requests, Admitted(req[r]), ByToken(req[r])
        PROVE /\ req[r].tier = Demand(req[r].hdr, rows[req[r].cred.id].scopes)
              /\ req[r].id.principal = rows[req[r].cred.id].principal
              /\ rows[req[r].cred.id] # NoRow /\ GoodRow(rows[req[r].cred.id])
              /\ req[r].hdr \in 0 .. 2
    BY <2>1, RequestFacts DEF GoodRequest, EnteredGood
  <2>2. ScopeIsFloor
    <3> SUFFICES ASSUME NEW r \in Requests, Admitted(req[r]), ByToken(req[r])
        PROVE /\ req[r].tier >= req[r].hdr
              /\ \A s \in rows[req[r].cred.id].scopes \cap KnownScopes :
                   req[r].tier >= ScopeTier(s)
      BY DEF ScopeIsFloor
    <3> DEFINE S == rows[req[r].cred.id].scopes
    <3>1. \A s, t \in S : s = t BY <2>1 DEF GoodRow
    <3>2. req[r].tier = Demand(req[r].hdr, S) /\ req[r].hdr \in 0 .. 2 BY <2>1
    <3> HIDE DEF S
    <3>3. req[r].tier >= req[r].hdr BY <3>2, DemandTyped
    <3>4. \A s \in S \cap KnownScopes : req[r].tier >= ScopeTier(s) BY <3>1, <3>2, ScopeFloor
    <3> QED BY <3>3, <3>4 DEF S
  <2>3. FamilyFenced
    <3>1. ASSUME NEW r \in Requests, Admitted(req[r]), req[r].path = "chat",
                 req[r].id.principal \notin Owners
          PROVE req[r].tier = 2
      BY <3>1, RequestFacts DEF GoodRequest, ChatGood
    <3>2. ASSUME NEW r \in Requests, Admitted(req[r]), ByToken(req[r]),
                 rows[req[r].cred.id].by = "family"
          PROVE req[r].tier = 2
      <4>1. rows[req[r].cred.id].scopes = {FamilyScope} BY <2>1, <3>2 DEF GoodRow
      <4> QED BY <2>1, <3>2, <4>1, FamilyLocal
    <3> QED BY <3>1, <3>2 DEF FamilyFenced
  <2>4. AttributionHonest
    <3>1. ASSUME NEW i \in Ids PROVE rows[i].principal \notin Synthetic
      <4>1. CASE rows[i] = NoRow
        <5>1. NoRow.principal = "" BY DEF NoRow
        <5> QED BY <4>1, <5>1, SyntheticAssumption
      <4>2. CASE rows[i] # NoRow BY <4>2 DEF IInv, GoodTable, GoodRow
      <4> QED BY <4>1, <4>2
    <3> QED BY <2>1, <3>1 DEF AttributionHonest
  <2>5. TokenNotForwarded BY RequestFacts DEF TokenNotForwarded, RequestSet, Sent
  <2> QED BY <2>2, <2>3, <2>4, <2>5 DEF WithinFences
<1> QED BY <1>1, Inductive, PTL

(* What a token route or command answered is so, and stays so until the    *)
(* next request whatever else happens to the table.                        *)
THEOREM AnsweredMeansDoneHolds == Spec => []AnsweredMeansDone
<1>1. IInv => AnsweredMeansDone BY DEF IInv, GoodReply, AnsweredMeansDone
<1> QED BY <1>1, Inductive, PTL

(* No step removes a row or changes its person, scope or expiry, and none  *)
(* moves the instant of a revocation.                                      *)
THEOREM RowsOnlyDieHolds == Spec => RowsOnlyDie
<1>1. IInv /\ [Next]_vars =>
        [\A i \in Ids : rows[i] # NoRow =>
           /\ rows'[i].principal = rows[i].principal /\ rows'[i].scopes = rows[i].scopes
           /\ rows'[i].expires = rows[i].expires
           /\ rows[i].revoked # Never => rows'[i].revoked = rows[i].revoked]_vars
  BY StepGood DEF Grows, Since
<1> QED BY <1>1, Inductive, PTL DEF Spec, RowsOnlyDie
=============================================================================
