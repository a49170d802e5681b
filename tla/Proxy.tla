------------------------------- MODULE Proxy -------------------------------
(***************************************************************************)
(* A proxied request, from handleProxy to its last byte: resolution of a   *)
(* role, a fallback chain or a named model under a privacy tier, the       *)
(* forwarding loop with its failover walk, the response headers that say   *)
(* who served, the in-flight counts of the pressure balancer, the reports  *)
(* to the availability tracker and the one record every request leaves.    *)
(*                                                                         *)
(* The tracker, and the catalogue of discovered models, are shared with    *)
(* every other goroutine and may change between any two reads.  So each    *)
(* walk over the candidates sees its own availability and its own          *)
(* catalogue: both are chosen afresh, with \E, at every walk.  What holds  *)
(* here holds for every provider of the availability interface.            *)
(***************************************************************************)
EXTENDS Integers, Sequences, FiniteSets, SequencesExt

CONSTANTS
  Requests, Models,
  Local,            \* models pinned to fleet hardware (IsLocal)
  ZDREnforceable,   \* externals that honour a zero-retention directive
  Discovered,       \* models the catalogue may drop at any time
  LacksCapability,  \* discovered models the role's contract rules out
  Windowed,         \* models a prompt may be too large for
  Fallbacks,        \* chain name -> its fallback providers, in order
  Candidates, Overflow, OverflowOnEmpty,  \* the role's lists and on_empty
  RoleNeedsZDR,     \* the role declares require.locality: local_or_zdr
  MaxFailoverAttempts

Chains == DOMAIN Fallbacks
Names == Models \cup Chains

ASSUME ProxyAssumption ==
  /\ "" \notin Names
  /\ Local \subseteq Models /\ ZDREnforceable \subseteq Models \ Local
  /\ Discovered \subseteq Models \ Local /\ LacksCapability \subseteq Discovered
  /\ Windowed \subseteq Models
  /\ \A c \in Chains : Fallbacks[c] \in Seq(Models \ (Chains \cup Discovered))
  /\ Candidates \in Seq(Names) /\ Overflow \in Seq(Names)
  /\ OverflowOnEmpty \in BOOLEAN /\ RoleNeedsZDR \in BOOLEAN
  /\ MaxFailoverAttempts \in Nat

VARIABLES
  req,        \* per request: the handler's local state and its response
  inflight    \* pressureTracker.inflight

vars == <<req, inflight>>

-----------------------------------------------------------------------------
Tiers == {"none", "zdr", "local"}
NoCandidate == [ id |-> "", overflow |-> FALSE, chain |-> "" ]

(* What an upstream can do with one attempt: answer 2xx, 4xx, a retryable  *)
(* 5xx or 429, a 503, a 2xx holding an error envelope; or fail to answer.  *)
(* cancelled: the client left before the upstream answered.                *)
Answers == {"ok", "clientError", "retryable", "loading", "envelope"}
Silences == {"transport", "cancelled"}

NewRequest ==
  [ pc |-> "new", kind |-> "named", caller |-> "none", attachable |-> TRUE,
    tooSmall |-> {}, target |-> NoCandidate, rest |-> <<>>, attempt |-> 0,
    tier |-> "none", suppress |-> FALSE, status |-> "none", gone |-> "no",
    hdr |-> [resolved |-> "", chain |-> "", overflow |-> FALSE],
    sent |-> <<>>, failed |-> <<>>, spurious |-> FALSE, answered |-> "none" ]

-----------------------------------------------------------------------------
(* The orders a request walks.  A chain entry stands for its providers; it *)
(* is its own first provider unless it is virtual, that is no model.       *)
ChainEntries(c, overflow) ==
  LET providers == (IF c \in Models THEN <<c>> ELSE <<>>) \o Fallbacks[c]
  IN [i \in 1 .. Len(providers) |-> [id |-> providers[i], overflow |-> overflow, chain |-> c]]

Plain(ids, overflow) ==
  [i \in 1 .. Len(ids) |-> [id |-> ids[i], overflow |-> overflow, chain |-> ""]]

RoleOrder ==
  Plain(Candidates, FALSE) \o (IF OverflowOnEmpty THEN Plain(Overflow, TRUE) ELSE <<>>)

ExpandChains(order) ==
  FlattenSeq([i \in 1 .. Len(order) |->
    IF order[i].id \in Chains THEN ChainEntries(order[i].id, order[i].overflow)
    ELSE <<order[i]>>])

(* One entry of a preference order.  chain is "" for a plain model.        *)
Entries == [id : Models, overflow : BOOLEAN, chain : Chains \cup {""}]

(* A request asks for the role, for a chain or for a model by name, whose  *)
(* order is the model alone.                                               *)
KindOf(name) ==
  IF name = "role" THEN "role" ELSE IF name \in Chains THEN "chain" ELSE "named"

OrderOf(name) ==
  CASE KindOf(name) = "role" -> ExpandChains(RoleOrder)
    [] KindOf(name) = "chain" -> ChainEntries(name, FALSE)
    [] OTHER -> Plain(<<name>>, FALSE)

-----------------------------------------------------------------------------
(* Mutant: the role's own promise is forgotten.                            *)
EffectiveTierOfCaller(kind, caller) == caller

(* The stricter of the role's tolerance and the caller's.                  *)
EffectiveTier(kind, caller) ==
  IF kind = "role" /\ RoleNeedsZDR /\ caller = "none" THEN "zdr" ELSE caller

PrivacyGate(m, tier) ==
  \/ tier = "none" \/ m \in Local
  \/ tier = "zdr" /\ m \in ZDREnforceable

(* The gates of a walk.  routable and known are the tracker and the        *)
(* catalogue as that walk finds them.                                      *)
Viable(q, c, routable, known) ==
  /\ c.id \in known \cap routable
  /\ PrivacyGate(c.id, q.tier)
  /\ q.kind = "role" => c.id \notin LacksCapability \cup q.tooSmall

ViableAt(q, order, routable, known) ==
  {i \in 1 .. Len(order) : Viable(q, order[i], routable, known)}

First(S) == CHOOSE i \in S : \A j \in S : i <= j

(* Bind a request to one entry of an order, keeping the untried tail.      *)
BindTo(q, order, i) ==
  [q EXCEPT !.target = order[i], !.rest = SubSeq(order, i + 1, Len(order))]

Catalogues == {(Models \ Discovered) \cup D : D \in SUBSET Discovered}

(* The response has its status and the deferred record is written.         *)
Finish(q, status) == [q EXCEPT !.pc = "done", !.status = status]

-----------------------------------------------------------------------------
(* A malformed body, a missing model or an unrecognised privacy value.     *)
Reject(r) ==
  /\ req[r].pc = "new"
  /\ \E status \in {"400", "403"} : req' = [req EXCEPT ![r] = Finish(@, status)]
  /\ UNCHANGED inflight

(* A walk that finds nothing is a 403 when the tier excluded every entry,  *)
(* and a 503 when anything else stood in the way of one.                   *)
Excluded(q, order, known) ==
  {i \in 1 .. Len(order) : order[i].id \in known /\ ~PrivacyGate(order[i].id, q.tier)}

Refusal(q, order, known) ==
  CASE q.kind = "named" -> "404"
    [] q.kind # "named" /\ Excluded(q, order, known) = 1 .. Len(order) /\ order # <<>> -> "403"
    [] OTHER -> "503"

(* A role or a chain binds to the first viable entry of its order; a named *)
(* model is taken as it is, whatever the tracker says.                     *)
ResolveTo(q, name, routable, known) ==
  LET order == OrderOf(name)
      viable == IF q.kind = "named" THEN {i \in {1} : name \in known}
                ELSE ViableAt(q, order, routable, known)
  IN IF viable = {} THEN Finish(q, Refusal(q, order, known))
     ELSE [BindTo(q, order, First(viable)) EXCEPT !.pc = "resolved"]

Resolve(r) ==
  /\ req[r].pc = "new"
  /\ \E name \in Names \cup {"role"}, caller \in Tiers, attachable \in BOOLEAN,
        tooSmall \in SUBSET Windowed, routable \in SUBSET Models, known \in Catalogues :
       LET kind == KindOf(name)
           q == [req[r] EXCEPT !.kind = kind, !.caller = caller, !.attachable = attachable,
                               !.tier = EffectiveTier(kind, caller),
                               !.tooSmall = IF kind = "role" THEN tooSmall ELSE {}]
       IN req' = [req EXCEPT ![r] = ResolveTo(q, name, routable, known)]
  /\ UNCHANGED inflight

(* The api_class of what was resolved is not the endpoint's.               *)
ClassMismatch(r) ==
  /\ req[r].pc = "resolved"
  /\ req' = [req EXCEPT ![r] = Finish(@, "400")]
  /\ UNCHANGED inflight

(* The class fits: the live feed hears of the target, forwarding begins.   *)
Begin(r) ==
  /\ req[r].pc = "resolved"
  /\ req' = [req EXCEPT ![r].pc = "attempt"]
  /\ UNCHANGED inflight

-----------------------------------------------------------------------------
(* applyPrivacy: the catalogue is read again, and an external seat under a *)
(* tier must take the zero-retention directive, which a caller's malformed *)
(* provider field prevents.                                                *)
PrivacyApplies(q, known) ==
  \/ q.tier = "none"
  \/ /\ q.target.id \in known /\ PrivacyGate(q.target.id, q.tier)
     /\ q.target.id \in Local \/ q.attachable

Refuse(r) ==
  /\ req[r].pc = "attempt"
  /\ \E known \in Catalogues : ~PrivacyApplies(req[r], known)
  /\ req' = [req EXCEPT ![r] = Finish(@, "403")]
  /\ UNCHANGED inflight

(* setRoleHeaders: headers are set, never removed, attempt after attempt.  *)
SetHeaders(q) ==
  IF q.kind = "named" THEN q.hdr
  ELSE [ resolved |-> q.target.id,
         chain |-> IF q.target.chain # "" THEN q.target.chain ELSE q.hdr.chain,
         overflow |-> q.hdr.overflow \/ q.target.overflow ]

(* Mutants: one retry too many; a walk that forgets the role's contract.   *)
NextRoleCandidateTooMany(q, routable, known) ==
  IF q.kind # "named" /\ q.attempt <= MaxFailoverAttempts /\ q.status = "none"
    THEN ViableAt(q, q.rest, routable, known) ELSE {}

NextRoleCandidateNoContract(q, routable, known) ==
  IF q.kind # "named" /\ q.attempt < MaxFailoverAttempts /\ q.status = "none"
    THEN ViableAt([q EXCEPT !.kind = "chain"], q.rest, routable, known) ELSE {}

(* Only roles and chains fail over, and only while the response is still   *)
(* untouched and attempts remain.                                          *)
NextRoleCandidate(q, routable, known) ==
  IF q.kind # "named" /\ q.attempt < MaxFailoverAttempts /\ q.status = "none"
    THEN ViableAt(q, q.rest, routable, known) ELSE {}

Directive(q) == q.tier # "none" /\ q.target.id \notin Local

AddInflight(m) == [inflight EXCEPT ![m] = @ + 1]

DoneInflight(m) == [inflight EXCEPT ![m] = IF @ > 0 THEN @ - 1 ELSE @]

(* One attempt goes upstream.  Whether its retryable answers are withheld  *)
(* is decided now, by asking whether the walk has somewhere to go.         *)
Send(r) ==
  /\ req[r].pc = "attempt"
  /\ \E known \in Catalogues : PrivacyApplies(req[r], known)
  /\ \E routable \in SUBSET Models, known \in Catalogues :
       LET q == req[r] IN
       req' = [req EXCEPT ![r] =
         [q EXCEPT !.pc = "upstream", !.hdr = SetHeaders(q),
                   !.suppress = NextRoleCandidate(q, routable, known) # {},
                   !.sent = Append(q.sent, [id |-> q.target.id, zdr |-> Directive(q)])]]
  /\ inflight' = AddInflight(req[r].target.id)

-----------------------------------------------------------------------------
(* The client hangs up: an attempt under way may be cancelled, and one     *)
(* begun later always is.                                                  *)
Disconnect(r) ==
  /\ req[r].pc \in {"attempt", "upstream"} /\ req[r].gone = "no"
  /\ req' = [req EXCEPT ![r].gone = IF req[r].pc = "attempt" THEN "before" ELSE "midway"]
  /\ UNCHANGED inflight

Possible(q, o) ==
  CASE q.gone = "no" -> o # "cancelled"
    [] q.gone = "midway" -> TRUE
    [] q.gone = "before" -> o = "cancelled"

(* Mutant: answers are withheld whether or not a retry can follow.         *)
FailsWithAlways(q, o) == o \in Silences \/ o \in {"retryable", "loading", "envelope"}

(* Withheld answers and silences leave the response untouched.             *)
FailsWith(q, o) ==
  \/ o \in Silences
  \/ q.suppress /\ o \in {"retryable", "loading", "envelope"}

UpstreamStatus(o) ==
  CASE o = "retryable" -> "up5xx" [] o = "loading" -> "up503"
    [] o = "clientError" -> "up4xx" [] o \in {"ok", "envelope"} -> "up2xx"
    [] o \in Silences -> "none"

(* Mutant: a withheld answer is not reported.                              *)
ChargedSilencesOnly(q, o) == o \in Silences \/ (o = "loading" /\ q.target.id \in Local)

(* What the tracker is told of an attempt: a failure when it failed, or    *)
(* when a fleet seat's 503 passed through; a success otherwise.            *)
Charged(q, o) == FailsWith(q, o) \/ (o = "loading" /\ q.target.id \in Local)

Report(q, o) ==
  [q EXCEPT !.failed = IF Charged(q, o) THEN Append(@, q.target.id) ELSE @,
            !.spurious = @ \/ o = "cancelled",
            !.answered = UpstreamStatus(o)]

(* The answer passes through, whatever it says.                            *)
PassThrough(r, o) ==
  /\ req[r].pc = "upstream" /\ Possible(req[r], o) /\ ~FailsWith(req[r], o)
  /\ req' = [req EXCEPT ![r] = Finish(Report(@, o), UpstreamStatus(o))]
  /\ inflight' = DoneInflight(req[r].target.id)

(* The body breaks off after its headers were passed on: the copy panics   *)
(* through the handler, and only the deferred record is reached.           *)
Abort(r, o) ==
  /\ req[r].pc = "upstream" /\ Possible(req[r], o) /\ ~FailsWith(req[r], o)
  /\ req' = [req EXCEPT ![r] =
       Finish([@ EXCEPT !.answered = UpstreamStatus(o)], UpstreamStatus(o))]
  /\ UNCHANGED inflight

(* Mutant: a walk with nowhere to go writes no answer of its own.          *)
FailUnanswered(r, o) ==
  /\ req[r].pc = "upstream" /\ Possible(req[r], o) /\ FailsWith(req[r], o)
  /\ req' = [req EXCEPT ![r] = Finish(Report(@, o), "none")]
  /\ inflight' = DoneInflight(req[r].target.id)

(* The attempt failed with nothing written: the tracker is told, then the  *)
(* walk moves on, or gives up with a 502.                                  *)
Fail(r, o) ==
  /\ req[r].pc = "upstream" /\ Possible(req[r], o) /\ FailsWith(req[r], o)
  /\ \E routable \in SUBSET Models, known \in Catalogues :
       LET q == [Report(req[r], o) EXCEPT !.gone = IF @ = "midway" THEN "before" ELSE @]
           next == NextRoleCandidate(q, routable, known)
       IN req' = [req EXCEPT ![r] =
            IF next = {} THEN Finish(q, "502")
            ELSE [BindTo(q, q.rest, First(next)) EXCEPT !.pc = "attempt", !.attempt = @ + 1]]
  /\ inflight' = DoneInflight(req[r].target.id)

-----------------------------------------------------------------------------
Init ==
  /\ req = [r \in Requests |-> NewRequest]
  /\ inflight = [m \in Models |-> 0]

HandlerStep(r) ==
  \/ Reject(r) \/ Resolve(r) \/ ClassMismatch(r) \/ Begin(r)
  \/ Refuse(r) \/ Send(r)
  \/ \E o \in Answers : PassThrough(r, o) \/ Abort(r, o)
  \/ \E o \in Answers \cup Silences : Fail(r, o)

Finished == (\A r \in Requests : req[r].pc = "done") /\ UNCHANGED vars

Next ==
  \/ \E r \in Requests : HandlerStep(r) \/ Disconnect(r)
  \/ Finished

Spec == Init /\ [][Next]_vars

(* A handler that has work does it, and an upstream call returns: it       *)
(* answers, its connection fails, or the client stops waiting for it.      *)
FairSpec == Spec /\ \A r \in Requests : WF_vars(HandlerStep(r))
-----------------------------------------------------------------------------
Statuses == {"none", "400", "403", "404", "502", "503", "up2xx", "up4xx", "up5xx", "up503"}

RequestType ==
  [ pc : {"new", "resolved", "attempt", "upstream", "done"},
    kind : {"role", "chain", "named"}, caller : Tiers, attachable : BOOLEAN,
    tooSmall : SUBSET Windowed, target : Entries \cup {NoCandidate},
    rest : Seq(Entries), attempt : 0 .. MaxFailoverAttempts,
    tier : Tiers, suppress : BOOLEAN, status : Statuses,
    gone : {"no", "midway", "before"},
    hdr : [resolved : Models \cup {""}, chain : Chains \cup {""}, overflow : BOOLEAN],
    sent : Seq([id : Models, zdr : BOOLEAN]), failed : Seq(Models),
    spurious : BOOLEAN, answered : Statuses ]

(* Every handler and the in-flight table keep to their types; the walk     *)
(* never makes more than maxFailoverAttempts retries.                      *)
TypeOK ==
  /\ req \in [Requests -> RequestType]
  /\ inflight \in [Models -> Nat]

(* No prompt leaves for a seat the caller's tier or the role's promise     *)
(* excludes, on the first attempt or on any failover, and every external   *)
(* seat reached under a tier is told to retain nothing.  Stated on the     *)
(* demands themselves (effectiveTier, privacyGate, applyPrivacy together). *)
PrivacyHeld ==
  \A r \in Requests : \A i \in 1 .. Len(req[r].sent) :
    LET q == req[r] e == req[r].sent[i] IN
    \/ e.id \in Local
    \/ /\ q.caller # "local"
       /\ q.caller = "zdr" \/ (q.kind = "role" /\ RoleNeedsZDR) =>
            e.id \in ZDREnforceable /\ e.zdr

(* The role's contract binds every attempt, not only the first: no seat    *)
(* whose listing lacks a required capability, none the prompt is too large *)
(* for (the estimate travels with the walk, capabilityGap is asked again). *)
RoleContractHeld ==
  \A r \in Requests : \A i \in 1 .. Len(req[r].sent) :
    req[r].kind = "role" => req[r].sent[i].id \notin LacksCapability \cup req[r].tooSmall

(* The failover walk only goes forward: what was sent, in order, and what  *)
(* is still untried never overlap a position of the preference order, so   *)
(* no entry is tried twice and none is tried before a better one that was  *)
(* passed over (res.Remaining).                                            *)
WalksForward ==
  \A r \in Requests :
    LET q == req[r]
        order == IF q.kind = "role" THEN ExpandChains(RoleOrder) ELSE <<>>
    IN q.kind = "role" /\ q.sent # <<>> =>
         /\ q.rest = SubSeq(order, Len(order) - Len(q.rest) + 1, Len(order))
         /\ \E at \in [1 .. Len(q.sent) -> 1 .. Len(order) - Len(q.rest)] :
              /\ \A i \in DOMAIN at : order[at[i]].id = q.sent[i].id
              /\ \A i, j \in DOMAIN at : i < j => at[i] < at[j]

(* What the tracker is told agrees with where the request went: every seat *)
(* left behind by a failover was charged once, the current one not yet,    *)
(* and a request that ended charged its last seat only when the attempt    *)
(* failed or a fleet seat was loading.                                     *)
ChargesMatchAttempts ==
  \A r \in Requests :
    LET q == req[r]
        ids == [i \in 1 .. Len(q.sent) |-> q.sent[i].id]
        n == Len(ids)
    IN CASE q.pc = "upstream" -> q.failed = SubSeq(ids, 1, n - 1)
         [] q.pc = "attempt" -> q.failed = ids /\ n = q.attempt
         [] q.pc = "done" /\ q.status \in {"up2xx", "up4xx", "up5xx"} ->
              q.failed = SubSeq(ids, 1, n - 1)
         [] q.pc = "done" /\ q.status = "502" -> q.failed = ids
         [] OTHER -> Len(q.failed) <= n

(* The walk down the preference list is accounted for: it only moves       *)
(* forward, and the tracker hears of every attempt what became of it.      *)
WalkAccounted == WalksForward /\ ChargesMatchAttempts

(* The headers a finished answer carries name the seat that produced it    *)
(* and say truthfully whether the locality boundary was crossed, however   *)
(* many attempts were made before (setRoleHeaders runs once per attempt on *)
(* the same header map).                                                   *)
HeadersNameServer ==
  \A r \in Requests :
    LET q == req[r] IN
    q.pc = "done" /\ q.kind # "named" /\ q.answered # "none" /\ q.status = q.answered =>
      /\ q.hdr.resolved = q.sent[Len(q.sent)].id
      /\ q.hdr.overflow = q.target.overflow

(* A role answers with an outage (503), and not with a policy refusal,     *)
(* whenever some seat of it satisfies the tier: 403 before anything is     *)
(* sent means that no retry could ever have been served.                   *)
RefusedMeansHopeless ==
  \A r \in Requests :
    LET q == req[r] IN
    q.pc = "done" /\ q.status = "403" /\ q.kind = "role" /\ q.target = NoCandidate =>
      \A i \in 1 .. Len(ExpandChains(RoleOrder)) :
        ~PrivacyGate(ExpandChains(RoleOrder)[i].id, q.tier)

(* An upstream's own error is withheld for a retry only: where none can    *)
(* follow, the tail or the attempts being used up, it passes through, and  *)
(* the router's 502 stands for a seat that did not answer.  (A candidate   *)
(* that disappears while the attempt is out may still cost the answer.)    *)
LastErrorPasses ==
  \A r \in Requests : LET q == req[r] IN
    q.status = "502" /\ q.answered # "none" => q.rest # <<>> /\ q.attempt < MaxFailoverAttempts

(* What the client is told is so: the headers name the seat that served,   *)
(* a 403 is policy where a 503 is an outage, and a 502 replaces no error   *)
(* of an upstream's that no retry could follow.                            *)
ClientToldRight == HeadersNameServer /\ RefusedMeansHopeless /\ LastErrorPasses

(* Every request is answered: the failover walk ends whatever the upstream *)
(* seats, the tracker and the client do.                                   *)
EveryRequestEnds == \A r \in Requests : <>(req[r].pc = "done" /\ req[r].status # "none")

-----------------------------------------------------------------------------
(* What the code's own comments say, and the code does not do.             *)

(* tracker.go, ReportFailure: "Only genuine transport-level failures       *)
(* should be reported".  A caller who hangs up is not a failing seat.      *)
GenuineFailuresOnly == \A r \in Requests : ~req[r].spurious

Upstream(m) == {r \in Requests : req[r].pc = "upstream" /\ req[r].target.id = m}

(* pressure.go, inflight: "requests this router is proxying right now".    *)
InflightExact == \A m \in Models : inflight[m] = Cardinality(Upstream(m))
=============================================================================
