------------------------------ MODULE Tracker ------------------------------
(***************************************************************************)
(* The availability tracker of internal/health: for every model it folds   *)
(* three signals into one routing verdict,                                 *)
(*   - the poll: node reachability and agent-reported state, with          *)
(*     hysteresis (applyObservation);                                      *)
(*   - the passive circuit breaker, fed by real proxy outcomes             *)
(*     (ReportFailure, ReportSuccess, the half-open state of stateLocked); *)
(*   - the generation probe, which keeps a seat "warming" until it has     *)
(*     produced a token (enterWarmingLocked, dueProbesLocked,              *)
(*     applyProbeLocked);                                                  *)
(* plus the verdict "absent" set by the live-listing check.                *)
(*                                                                         *)
(* Every exported method runs under one mutex, so each is one action.  A   *)
(* poll round is not: it reads the nodes, and runs the generation probes,  *)
(* outside the lock, and those steps interleave with reports and reads.    *)
(*                                                                         *)
(* Time is kept as countdowns: breakerLeft is breakerOpenedAt + cooldown - *)
(* now, probeLeft is probeNextAt - now (0 once past).  Counters that the   *)
(* code only compares with a threshold stop at that threshold.  probeFails *)
(* is represented by probeGap = probeBackoff(probeFails), its only use.    *)
(***************************************************************************)
EXTENDS Integers, FiniteSets

CONSTANTS
  Nodes,            \* the registry's nodes
  Models,           \* every model id the tracker may be asked about
  Registered,       \* the ones in models.yaml; the others are discovered ids
  Probed,           \* those the generation probe gates (ProbeEnabled)
  Managed,          \* those a node agent lists
  ModelNodes,       \* the nodes a model needs ({}: a nodeless external)
  Head,             \* the node whose agent speaks for a model
  Bases,            \* the member sets of the listing bases
  DownAfter, BreakerTrip, BreakerCooldown, MaxRetryAfter,
  ProbeBackoffBase, ProbeBackoffCap,
  RetryAfters,      \* the Retry-After delays an upstream may name
  MaxFaults         \* bound: how many faults the environment injects

ASSUME SetsAssumption ==
  /\ Registered \subseteq Models
  /\ Probed \subseteq Registered
  /\ Managed \subseteq Registered
  /\ ModelNodes \in [Models -> SUBSET Nodes]
  /\ \A m \in Models : ModelNodes[m] # {} => Head[m] \in ModelNodes[m]
  /\ \A B \in Bases : B \subseteq Registered
  /\ IsFiniteSet(Nodes) /\ IsFiniteSet(Models)

ASSUME NumbersAssumption ==
  /\ DownAfter \in Nat \ {0} /\ BreakerTrip \in Nat \ {0}
  /\ BreakerCooldown \in Nat \ {0} /\ MaxRetryAfter \in Nat \ {0}
  /\ ProbeBackoffBase \in Nat \ {0} /\ ProbeBackoffCap \in Nat \ {0}
  /\ ProbeBackoffBase <= ProbeBackoffCap
  /\ \A r \in RetryAfters : r \in Nat \ {0}
  /\ MaxFaults \in Nat

VARIABLES
  st,         \* the per-model bookkeeping (t.models; known = has an entry)
  polled,     \* one round has completed
  phase,      \* where the poll goroutine is
  toRead,     \* nodes this round has yet to hear from
  snaps,      \* what the nodes said this round
  jobs,       \* the generation probes of this round
  reachable, engine, faults,   \* environment: nodes, engines, faults so far
  voided,     \* history: seats demoted since this round's probes started
  asked       \* history: models whose upstream named a Retry-After since
              \* their last success

trackerVars == <<st, polled>>
roundVars == <<phase, toRead, snaps, jobs>>
envVars == <<reachable, engine, faults>>
historyVars == <<voided, asked>>
vars == <<trackerVars, roundVars, envVars, historyVars>>

-----------------------------------------------------------------------------
ModelState ==
  [ known : BOOLEAN,
    pollState : {"unknown", "available", "unavailable"},
    pollFails : 0 .. DownAfter,
    breakerFails : 0 .. BreakerTrip,
    breakerOpen : BOOLEAN, halfOpen : BOOLEAN,
    breakerCooldown : 0 .. MaxRetryAfter,
    breakerLeft : Nat,
    confirmed : BOOLEAN, probeSeq : Nat, probeErr : BOOLEAN,
    probeGap : Nat, probeLeft : Nat,
    absent : BOOLEAN ]

NewModelState ==
  [ known |-> FALSE, pollState |-> "unknown", pollFails |-> 0,
    breakerFails |-> 0, breakerOpen |-> FALSE, halfOpen |-> FALSE,
    breakerCooldown |-> 0, breakerLeft |-> 0,
    confirmed |-> FALSE, probeSeq |-> 0, probeErr |-> FALSE,
    probeGap |-> 0, probeLeft |-> 0, absent |-> FALSE ]

(* A probe job: the sequence number it was launched under and its answer.  *)
Job == [ seq : Nat, result : {"none", "pending", "ok", "rejected", "fail"} ]
NoJob == [ seq |-> 0, result |-> "none" ]

(* What one node said: whether it answered, and which of the models it     *)
(* lists it reports in a state other than running.                         *)
Snapshot == [ reachable : BOOLEAN, notRunning : SUBSET Models ]
Silent == [ reachable |-> FALSE, notRunning |-> {} ]

(* A proxy failure as ReportFailure reads it: does it look like a loading  *)
(* seat (isWarmingSignal), and which Retry-After does it carry (0: none).  *)
Failure == [ warming : BOOLEAN, after : RetryAfters \cup {0} ]

UpTo(n, cap) == IF n < cap THEN n + 1 ELSE n
Down(n) == IF n > 0 THEN n - 1 ELSE 0

(* probeBackoff: base, 2*base, 4*base, ... up to the cap.                  *)
NextBackoff(gap) ==
  IF gap = 0 THEN ProbeBackoffBase
  ELSE IF 2 * gap > ProbeBackoffCap THEN ProbeBackoffCap ELSE 2 * gap

-----------------------------------------------------------------------------
(* The verdict (stateLocked).                                              *)
BreakerCooling(s) == s.breakerOpen /\ s.breakerLeft > 0
BreakerElapsed(s) == s.breakerOpen /\ s.breakerLeft = 0

Verdict(m) ==
  LET s == st[m] IN
  CASE BreakerCooling(s) -> "unavailable"
    [] BreakerElapsed(s) -> "available"
    [] ~s.breakerOpen /\ s.pollState = "unavailable" -> "unavailable"
    [] ~s.breakerOpen /\ s.pollState # "unavailable" /\ s.absent -> "absent"
    [] OTHER ->
         IF s.pollState = "available"
           THEN IF m \in Probed /\ ~s.confirmed THEN "warming" ELSE "available"
           ELSE IF polled THEN "available" ELSE "unknown"

Routable(m) == Verdict(m) \notin {"unavailable", "warming", "absent"}

(* How long an opened breaker stays open.                                  *)
CooldownOf(after) == IF after > 0 THEN after ELSE BreakerCooldown

(* Mutant: every read of an open breaker starts its cooldown again.        *)
ConsultedRearms(s) ==
  IF s.breakerOpen THEN [s EXCEPT !.breakerLeft = CooldownOf(s.breakerCooldown)] ELSE s

(* Reading a verdict marks an elapsed breaker half-open.                   *)
Consulted(s) == IF BreakerElapsed(s) THEN [s EXCEPT !.halfOpen = TRUE] ELSE s

-----------------------------------------------------------------------------
(* The state changes, one per method that runs under the mutex.            *)

(* Mutant: a new warm-up keeps the old sequence number.                    *)
EnterWarmingSameSeq(s, why) ==
  [s EXCEPT !.confirmed = FALSE, !.probeErr = why, !.probeGap = 0, !.probeLeft = 0]

EnterWarming(s, why) ==
  [s EXCEPT !.confirmed = FALSE, !.probeSeq = @ + 1, !.probeErr = why,
            !.probeGap = 0, !.probeLeft = 0]

ApplyObservation(m, s, ok) ==
  IF ok
    THEN LET t == IF s.pollState # "available" /\ m \in Probed
                    THEN EnterWarming(s, FALSE) ELSE s
         IN  [t EXCEPT !.known = TRUE, !.pollFails = 0, !.pollState = "available"]
    ELSE LET fails == UpTo(s.pollFails, DownAfter)
         IN  [s EXCEPT !.known = TRUE, !.pollFails = fails,
                       !.pollState = IF fails >= DownAfter THEN "unavailable" ELSE @]

(* Mutant: a late probe result is applied to a confirmed seat.             *)
ApplyProbeLate(s, job) ==
  IF job.result = "none" \/ job.seq # s.probeSeq THEN s
  ELSE IF job.result \in {"ok", "rejected"}
         THEN [s EXCEPT !.confirmed = TRUE, !.probeErr = FALSE]
         ELSE [s EXCEPT !.probeErr = TRUE]

ApplyProbe(s, job) ==
  IF job.result = "none" \/ job.seq # s.probeSeq \/ s.confirmed
    THEN s
    ELSE IF job.result \in {"ok", "rejected"}
           THEN [s EXCEPT !.confirmed = TRUE, !.probeErr = FALSE]
           ELSE [s EXCEPT !.probeErr = TRUE, !.probeGap = NextBackoff(s.probeGap),
                          !.probeLeft = NextBackoff(s.probeGap)]

(* A warming signal from a probed seat demotes it, unless it is already    *)
(* warming with an error on record.                                        *)
Demotes(m, s, f) == m \in Probed /\ f.warming /\ (s.confirmed \/ ~s.probeErr)

(* Mutant: the Retry-After is taken as it comes.                           *)
RetryAfterUncapped(f) == f.after

RetryAfterOf(f) == IF f.after > MaxRetryAfter THEN MaxRetryAfter ELSE f.after

(* Mutant: any failure of an open breaker counts as its trial.             *)
BreakerFailureRearms(s, f) ==
  LET fails == UpTo(s.breakerFails, BreakerTrip)
      after == RetryAfterOf(f)
      counted == [s EXCEPT !.known = TRUE, !.halfOpen = FALSE, !.breakerFails = fails]
  IN  IF ~s.breakerOpen /\ after = 0 /\ fails < BreakerTrip
        THEN counted
        ELSE [counted EXCEPT !.breakerOpen = TRUE, !.breakerCooldown = after,
                             !.breakerLeft = CooldownOf(after)]

BreakerFailure(s, f) ==
  LET trial == s.breakerOpen /\ s.halfOpen
      fails == UpTo(s.breakerFails, BreakerTrip)
      after == RetryAfterOf(f)
      counted == [s EXCEPT !.known = TRUE, !.halfOpen = FALSE, !.breakerFails = fails]
  IN  IF ~trial /\ after = 0 /\ (s.breakerOpen \/ fails < BreakerTrip)
        THEN counted
        ELSE [counted EXCEPT !.breakerOpen = TRUE, !.breakerCooldown = after,
                             !.breakerLeft = CooldownOf(after)]

ApplyFailure(m, s, f) ==
  IF m \in Probed /\ f.warming
    THEN IF Demotes(m, s, f)
           THEN [EnterWarming(s, TRUE) EXCEPT !.known = TRUE,
                   !.probeGap = NextBackoff(0), !.probeLeft = NextBackoff(0)]
           ELSE [s EXCEPT !.known = TRUE]
    ELSE BreakerFailure(s, f)

ApplySuccess(m, s) ==
  IF ~s.known THEN s
  ELSE LET closed == [s EXCEPT !.breakerFails = 0, !.breakerOpen = FALSE,
                               !.halfOpen = FALSE, !.breakerCooldown = 0,
                               !.breakerLeft = 0]
       IN  IF m \in Probed /\ ~s.confirmed
             THEN [closed EXCEPT !.confirmed = TRUE, !.probeErr = FALSE] ELSE closed

ApplyListing(m, s, listed) == [s EXCEPT !.known = TRUE, !.absent = m \notin listed]

-----------------------------------------------------------------------------
(* The poll goroutine: Run repeats PollOnce, one round at a time.          *)

(* PollOnce: a round starts by asking every node at once.                  *)
BeginRound ==
  /\ phase = "idle"
  /\ phase' = "nodes"
  /\ toRead' = Nodes
  /\ UNCHANGED <<trackerVars, snaps, jobs, envVars, historyVars>>

(* What a node's agent says.  A worker rank of a tensor-parallel group     *)
(* runs headless, so its agent always reports the model stopped.           *)
Says(n) ==
  IF reachable[n]
  THEN [reachable |-> TRUE,
        notRunning |-> {m \in Managed : /\ n \in ModelNodes[m]
                                        /\ n = Head[m] => engine[m] = "stopped"}]
  ELSE Silent

(* ProbeNode: /health, then /models.  Either may fail for a node that is   *)
(* up, and fetchJSON makes "no data" of any failure: without the second a  *)
(* node is reachable and mentions no model.                                *)
ReadNode(n) ==
  /\ phase = "nodes" /\ n \in toRead
  /\ toRead' = toRead \ {n}
  /\ \/ snaps' = [snaps EXCEPT ![n] = Says(n)] /\ UNCHANGED faults
     \/ /\ reachable[n] /\ faults < MaxFaults
        /\ faults' = faults + 1
        /\ \E heard \in {Silent, [reachable |-> TRUE, notRunning |-> {}]} :
             snaps' = [snaps EXCEPT ![n] = heard]
  /\ UNCHANGED <<trackerVars, phase, jobs, reachable, engine, historyVars>>

(* observeModel: what the snapshots say about one model.                   *)
ObserveModel(m) ==
  /\ \A n \in ModelNodes[m] : snaps[n].reachable
  /\ ModelNodes[m] # {} => m \notin snaps[Head[m]].notRunning

(* Mutant: a seat whose probe failed once is not probed again.             *)
DueProbeOnce(m, s) ==
  m \in Probed /\ ~s.confirmed /\ s.pollState = "available" /\ s.probeGap = 0

(* dueProbesLocked: listed up, not confirmed, past the backoff.            *)
DueProbe(m, s) ==
  m \in Probed /\ ~s.confirmed /\ s.pollState = "available" /\ s.probeLeft = 0

(* The first critical section of PollOnce: fold the snapshots into every   *)
(* registry model, then capture the probes that are due.                   *)
ObserveModels ==
  LET new == [m \in Models |->
                IF m \in Registered THEN ApplyObservation(m, st[m], ObserveModel(m))
                                    ELSE st[m]]
  IN  /\ phase = "nodes" /\ toRead = {}
      /\ st' = new
      /\ jobs' = [m \in Models |-> IF DueProbe(m, new[m])
                                     THEN [seq |-> new[m].probeSeq, result |-> "pending"]
                                     ELSE NoJob]
      /\ snaps' = [n \in Nodes |-> Silent]
      /\ phase' = "probing"
      /\ voided' = {}
      /\ UNCHANGED <<polled, toRead, envVars, asked>>

(* A generation probe comes back (runProbes).  A seat that can generate    *)
(* answers it, possibly with a 4xx; any other seat fails or times out.     *)
Generates(m) == engine[m] = "ready" /\ \A n \in ModelNodes[m] : reachable[n]

ProbeAnswer(m) ==
  /\ phase = "probing" /\ jobs[m].result = "pending"
  /\ \E r \in IF Generates(m) THEN {"ok", "rejected"} ELSE {"fail"} :
       jobs' = [jobs EXCEPT ![m].result = r]
  /\ UNCHANGED <<trackerVars, phase, toRead, snaps, envVars, historyVars>>

(* The second critical section of PollOnce: once every probe is back,      *)
(* apply them all.                                                         *)
ApplyProbes ==
  /\ phase = "probing"
  /\ \A m \in Models : jobs[m].result # "pending"
  /\ st' = [m \in Models |-> ApplyProbe(st[m], jobs[m])]
  /\ polled' = TRUE
  /\ phase' = "onpoll"
  /\ jobs' = [m \in Models |-> NoJob]
  /\ voided' = {}
  /\ UNCHANGED <<toRead, snaps, envVars, asked>>

(* OnPoll republishes the availability gauges, which reads every verdict.  *)
OnPoll ==
  /\ phase = "onpoll"
  /\ phase' = "idle"
  /\ st' = [m \in Models |-> Consulted(st[m])]
  /\ UNCHANGED <<polled, toRead, snaps, jobs, envVars, historyVars>>

PollStep ==
  \/ BeginRound
  \/ \E n \in Nodes : ReadNode(n)
  \/ ObserveModels
  \/ \E m \in Models : ProbeAnswer(m)
  \/ ApplyProbes
  \/ OnPoll

-----------------------------------------------------------------------------
(* Calls from request goroutines, dashboards and listing fetches.          *)

(* State, Routable, Reason: read one verdict.                              *)
Consult(m) ==
  /\ st' = [st EXCEPT ![m] = Consulted(@)]
  /\ UNCHANGED <<polled, roundVars, envVars, historyVars>>

(* Snapshot, Counts: read every verdict.                                   *)
TakeSnapshot ==
  /\ st' = [m \in Models |-> Consulted(st[m])]
  /\ UNCHANGED <<polled, roundVars, envVars, historyVars>>

ReportFailure(m, f) ==
  /\ faults < MaxFaults
  /\ faults' = faults + 1
  /\ st' = [st EXCEPT ![m] = ApplyFailure(m, @, f)]
  /\ voided' = IF Demotes(m, st[m], f) THEN voided \cup {m} ELSE voided
  /\ asked' = IF f.after > 0 /\ ~(m \in Probed /\ f.warming) THEN asked \cup {m} ELSE asked
  /\ UNCHANGED <<polled, roundVars, reachable, engine>>

ReportSuccess(m) ==
  /\ st' = [st EXCEPT ![m] = ApplySuccess(m, @)]
  /\ asked' = asked \ {m}
  /\ UNCHANGED <<polled, roundVars, envVars, voided>>

(* A base's listing lands (applyInventoryLocked, its members' part): a     *)
(* member is absent exactly when its served name was not listed.  One that *)
(* takes a member out counts as a fault.                                   *)
ListingLands(B, listed) ==
  /\ IF B \subseteq listed THEN UNCHANGED faults
     ELSE faults < MaxFaults /\ faults' = faults + 1
  /\ st' = [m \in Models |-> IF m \in B THEN ApplyListing(m, st[m], listed) ELSE st[m]]
  /\ UNCHANGED <<polled, roundVars, reachable, engine, historyVars>>

Call ==
  \/ \E m \in Models : Consult(m) \/ ReportSuccess(m)
  \/ TakeSnapshot
  \/ \E m \in Models, f \in Failure : ReportFailure(m, f)
  \/ \E B \in Bases : \E listed \in SUBSET B : ListingLands(B, listed)

-----------------------------------------------------------------------------
(* Time and the fleet.                                                     *)
Tick ==
  /\ st' = [m \in Models |-> [st[m] EXCEPT !.breakerLeft = Down(@), !.probeLeft = Down(@)]]
  /\ UNCHANGED <<polled, roundVars, envVars, historyVars>>

NodeDown(n) ==
  /\ reachable[n] /\ faults < MaxFaults
  /\ faults' = faults + 1
  /\ reachable' = [reachable EXCEPT ![n] = FALSE]
  /\ engine' = [m \in Models |-> IF n \in ModelNodes[m] THEN "stopped" ELSE engine[m]]
  /\ UNCHANGED <<trackerVars, roundVars, historyVars>>

NodeUp(n) ==
  /\ ~reachable[n]
  /\ reachable' = [reachable EXCEPT ![n] = TRUE]
  /\ UNCHANGED <<trackerVars, roundVars, engine, faults, historyVars>>

EngineStop(m) ==
  /\ engine[m] # "stopped" /\ faults < MaxFaults
  /\ faults' = faults + 1
  /\ engine' = [engine EXCEPT ![m] = "stopped"]
  /\ UNCHANGED <<trackerVars, roundVars, reachable, historyVars>>

(* An engine answers its listing (loading) before it can generate (ready). *)
EngineAdvance(m) ==
  /\ \A n \in ModelNodes[m] : reachable[n]
  /\ engine[m] # "ready"
  /\ engine' = [engine EXCEPT ![m] = IF @ = "stopped" THEN "loading" ELSE "ready"]
  /\ UNCHANGED <<trackerVars, roundVars, reachable, faults, historyVars>>

FleetStep ==
  \/ \E n \in Nodes : NodeDown(n) \/ NodeUp(n)
  \/ \E m \in Models : EngineStop(m) \/ EngineAdvance(m)

-----------------------------------------------------------------------------
Init ==
  /\ st = [m \in Models |-> NewModelState]
  /\ polled = FALSE
  /\ phase = "idle" /\ toRead = {}
  /\ snaps = [n \in Nodes |-> Silent]
  /\ jobs = [m \in Models |-> NoJob]
  /\ reachable = [n \in Nodes |-> TRUE]
  /\ engine \in [Models -> {"loading", "ready"}]
  /\ faults = 0
  /\ voided = {} /\ asked = {}

Next == PollStep \/ Call \/ Tick \/ FleetStep

Spec == Init /\ [][Next]_vars

(* The poll loop runs until shutdown and each of its waits is bounded by a *)
(* timeout; time passes.  Callers and the fleet owe nothing.               *)
FairSpec == Spec /\ WF_vars(PollStep) /\ WF_vars(Tick)

-----------------------------------------------------------------------------
(* Every variable keeps its type; no cooldown is longer than the cap on    *)
(* what an upstream may ask for with Retry-After.                          *)
TypeOK ==
  /\ st \in [Models -> ModelState]
  /\ polled \in BOOLEAN
  /\ phase \in {"idle", "nodes", "probing", "onpoll"}
  /\ toRead \subseteq Nodes
  /\ snaps \in [Nodes -> Snapshot]
  /\ jobs \in [Models -> Job]
  /\ reachable \in [Nodes -> BOOLEAN]
  /\ engine \in [Models -> {"stopped", "loading", "ready"}]
  /\ faults \in 0 .. MaxFaults
  /\ voided \subseteq Models /\ asked \subseteq Models

(* One dropped probe never takes a model out: the poll calls a model       *)
(* unavailable exactly while DownAfter observations in a row have failed,  *)
(* and one good observation brings it back (applyObservation).             *)
PollCoherent(s) == (s.pollState = "unavailable") <=> (s.pollFails = DownAfter)

PollHysteresis == \A m \in Models : PollCoherent(st[m])

(* The breaker is open for a reason and never late: an open breaker has    *)
(* BreakerTrip failures since the last success, or a Retry-After, behind   *)
(* it, a closed one has neither; it stays open no longer than the cooldown *)
(* of that opening; and a trial is on only while the breaker is open with  *)
(* its cooldown over (ReportFailure, ReportSuccess, stateLocked).          *)
BreakerCoherent(m, s, named) ==
  /\ s.breakerOpen <=> (s.breakerFails = BreakerTrip \/ m \in named)
  /\ s.breakerOpen => s.breakerLeft <= CooldownOf(s.breakerCooldown)
  /\ ~s.breakerOpen => s.breakerLeft = 0 /\ s.breakerCooldown = 0
  /\ s.halfOpen => BreakerElapsed(s)

BreakerEarned == \A m \in Models : BreakerCoherent(m, st[m], asked)

(* A seat that has been confirmed carries no probe error, so a probe that  *)
(* fails late, after traffic confirmed the seat, leaves no trace: the next *)
(* 503 still finds the seat confirmed and demotes it (applyProbeLocked).   *)
ConfirmedIsClean == \A m \in Models : st[m].confirmed => m \in Probed /\ ~st[m].probeErr

(* The verdict routing reads is earned: each of the three signals of a     *)
(* record has its cause, through any interleaving of a round's stale       *)
(* observations, late probe answers, reports and listings.                 *)
VerdictsEarned == PollHysteresis /\ BreakerEarned /\ ConfirmedIsClean

(* A probe never confirms a warm-up that began after the probe was         *)
(* launched: if a request demoted the seat while the round's probes were   *)
(* out, applying them does not make it routable (probeSeq).                *)
SupersededProbeDropped ==
  [][ phase = "probing" /\ phase' = "onpoll"
        => \A m \in voided : st'[m].confirmed => st[m].confirmed ]_vars

(* Requests that were already out when the breaker opened cannot keep it   *)
(* open: while it cools down, only an upstream's own Retry-After can set   *)
(* the countdown higher (ReportFailure's early return).                    *)
StragglersDoNotExtend ==
  [][ \A m \in Models :
        BreakerCooling(st[m]) /\ st'[m].breakerLeft > st[m].breakerLeft
          => st'[m].breakerCooldown > 0 ]_vars

(* A cooldown, Retry-After or not, is served in full: it ends only by time *)
(* passing, by a success, or by a newer failure with its own Retry-After.  *)
CooldownServed ==
  [][ \A m \in Models :
        BreakerCooling(st[m]) /\ st'[m].breakerLeft < st[m].breakerLeft
          => \/ st'[m].breakerLeft = st[m].breakerLeft - 1 /\ st'[m].breakerOpen
             \/ ~st'[m].breakerOpen /\ st'[m].breakerFails = 0
             \/ st'[m].breakerCooldown > 0 /\ st'[m].breakerFails > 0 ]_vars

(* A cooldown is kept to the tick: requests that were out when the breaker *)
(* opened neither lengthen it nor cut it short, however they end.          *)
CooldownKept == StragglersDoNotExtend /\ CooldownServed

(* Nothing keeps an open breaker from its trial for ever: the cooldown is  *)
(* at most MaxRetryAfter, whatever the upstream asked for, and it runs out.*)
BreakerAdmitsTrial ==
  \A m \in Models : st[m].breakerOpen ~> (~st[m].breakerOpen \/ st[m].breakerLeft = 0)

(* A seat recovers by itself: once its nodes answer, its engine generates  *)
(* and its name is listed, for good, it becomes routable for good, however *)
(* it was marked down before (Run, PollOnce, the probe's backoff).         *)
Healthy(m) == Generates(m) /\ ~st[m].absent

SeatRecovers ==
  \A m \in Models : <>[]Healthy(m) => <>[]Routable(m)

(* tracker.go:683: "A failure on the half-open trial reopens the breaker   *)
(* for a fresh cooldown rather than leaving it admitting traffic."         *)
FailedTrialReopens ==
  [][ \A m \in Models, f \in Failure :
        st[m].breakerOpen /\ st[m].halfOpen /\ ReportFailure(m, f)
          => BreakerCooling(st'[m]) ]_vars
=============================================================================
