--------------------------- MODULE TrackerProofs ---------------------------
(***************************************************************************)
(* Proofs about Tracker, for any fleet, any thresholds and any number of   *)
(* faults: the type invariant, the three coherence invariants of the       *)
(* per-model bookkeeping, and the action properties of the generation      *)
(* probe and of the breaker's cooldown.                                    *)
(*                                                                         *)
(* Each state change of the tracker is a function of one model's record,   *)
(* so the lemmas say, operation by operation, that it keeps a record       *)
(* well-typed and coherent; the theorems lift them to the actions.         *)
(***************************************************************************)
EXTENDS Tracker, TLAPS

(* What one model's record satisfies between two critical sections.        *)
Coherent(m, s, named) ==
  /\ PollCoherent(s)
  /\ BreakerCoherent(m, s, named)
  /\ s.confirmed => m \in Probed /\ ~s.probeErr
  /\ m \in named => s.known

-----------------------------------------------------------------------------
(* probeBackoff always names a delay.                                      *)
LEMMA BackoffType == ASSUME NEW gap \in Nat PROVE NextBackoff(gap) \in Nat
  BY NumbersAssumption DEF NextBackoff

(* A capped Retry-After is a delay of at most MaxRetryAfter, and it is     *)
(* positive exactly when the upstream named one.                           *)
LEMMA RetryAfterType ==
  ASSUME NEW f \in Failure
  PROVE  /\ RetryAfterOf(f) \in 0 .. MaxRetryAfter
         /\ (RetryAfterOf(f) > 0) <=> (f.after > 0)
<1>1. f.after \in RetryAfters \/ f.after = 0
  BY DEF Failure
<1>2. f.after \in Nat
  BY <1>1, NumbersAssumption
<1> QED
  BY <1>2, NumbersAssumption DEF RetryAfterOf

(* A fresh record is well-typed and coherent.                              *)
LEMMA NewStateGood ==
  ASSUME NEW m \in Models
  PROVE  NewModelState \in ModelState /\ Coherent(m, NewModelState, {})
  BY NumbersAssumption
  DEF NewModelState, ModelState, Coherent, PollCoherent, BreakerCoherent

(* Reading a verdict only ever turns halfOpen on, and only on an elapsed   *)
(* breaker.                                                                *)
LEMMA ConsultedGood ==
  ASSUME NEW m \in Models, NEW s \in ModelState, NEW A, Coherent(m, s, A)
  PROVE  Consulted(s) \in ModelState /\ Coherent(m, Consulted(s), A)
  BY DEF Consulted, ModelState, Coherent, PollCoherent, BreakerCoherent, BreakerElapsed

(* Entering warming touches the probe's fields only.                       *)
LEMMA EnterWarmingGood ==
  ASSUME NEW m \in Models, NEW s \in ModelState, NEW A, Coherent(m, s, A),
         NEW why \in BOOLEAN
  PROVE  EnterWarming(s, why) \in ModelState /\ Coherent(m, EnterWarming(s, why), A)
<1>1. s.probeSeq + 1 \in Nat
  BY DEF ModelState
<1>2. EnterWarming(s, why) \in ModelState
  BY <1>1 DEF EnterWarming, ModelState
<1>3. Coherent(m, EnterWarming(s, why), A)
  BY DEF EnterWarming, ModelState, Coherent, PollCoherent, BreakerCoherent, BreakerElapsed
<1> QED BY <1>2, <1>3

(* An observation keeps the poll's two fields in step.                     *)
LEMMA ObservationGood ==
  ASSUME NEW m \in Models, NEW s \in ModelState, NEW A, Coherent(m, s, A),
         NEW ok
  PROVE  ApplyObservation(m, s, ok) \in ModelState
         /\ Coherent(m, ApplyObservation(m, s, ok), A)
<1>1. CASE ok
  <2> DEFINE t == IF s.pollState # "available" /\ m \in Probed
                    THEN EnterWarming(s, FALSE) ELSE s
  <2>1. t \in ModelState /\ Coherent(m, t, A)
    BY EnterWarmingGood
  <2>2. ApplyObservation(m, s, ok)
          = [t EXCEPT !.known = TRUE, !.pollFails = 0, !.pollState = "available"]
    BY <1>1 DEF ApplyObservation
  <2> HIDE DEF t
  <2> DEFINE r == [t EXCEPT !.known = TRUE, !.pollFails = 0, !.pollState = "available"]
  <2>3. r \in ModelState
    <3>1. 0 \in 0 .. DownAfter
      BY NumbersAssumption
    <3> QED BY <2>1, <3>1 DEF ModelState
  <2>4. PollCoherent(r)
    BY <2>1, NumbersAssumption DEF PollCoherent, ModelState
  <2>5. Coherent(m, r, A)
    BY <2>1, <2>4 DEF Coherent, ModelState, BreakerCoherent, BreakerElapsed
  <2> QED BY <2>2, <2>3, <2>5
<1>2. CASE ~ok
  <2> DEFINE fails == UpTo(s.pollFails, DownAfter)
             r == [s EXCEPT !.known = TRUE, !.pollFails = fails,
                     !.pollState = IF fails >= DownAfter THEN "unavailable" ELSE s.pollState]
  <2>1. fails \in 0 .. DownAfter
    BY NumbersAssumption DEF UpTo, ModelState
  <2>2. s.pollFails = DownAfter => fails = DownAfter
    BY NumbersAssumption DEF UpTo
  <2>3. ApplyObservation(m, s, ok) = r
    BY <1>2 DEF ApplyObservation
  <2> HIDE DEF fails
  <2>4. r \in ModelState
    BY <2>1 DEF ModelState
  <2>5. PollCoherent(r)
    BY <2>1, <2>2, NumbersAssumption DEF PollCoherent, Coherent, ModelState
  <2>6. Coherent(m, r, A)
    BY <2>5 DEF Coherent, ModelState, BreakerCoherent, BreakerElapsed
  <2> QED BY <2>3, <2>4, <2>6
<1> QED BY <1>1, <1>2

(* A probe's answer confirms, backs off or changes nothing.                *)
LEMMA ProbeGood ==
  ASSUME NEW m \in Probed, NEW s \in ModelState, NEW A, Coherent(m, s, A),
         NEW job \in Job
  PROVE  ApplyProbe(s, job) \in ModelState /\ Coherent(m, ApplyProbe(s, job), A)
<1>1. NextBackoff(s.probeGap) \in Nat
  BY BackoffType DEF ModelState
<1> QED
  BY <1>1 DEF ApplyProbe, ModelState, Coherent, PollCoherent, BreakerCoherent, BreakerElapsed

(* A failure that reaches the breaker.                                     *)
LEMMA BreakerFailureGood ==
  ASSUME NEW m \in Models, NEW s \in ModelState, NEW A, Coherent(m, s, A),
         NEW f \in Failure, NEW B, (m \in B) <=> (m \in A \/ f.after > 0)
  PROVE  BreakerFailure(s, f) \in ModelState /\ Coherent(m, BreakerFailure(s, f), B)
<1> DEFINE fails == UpTo(s.breakerFails, BreakerTrip)
           after == RetryAfterOf(f)
           counted == [s EXCEPT !.known = TRUE, !.halfOpen = FALSE, !.breakerFails = fails]
           opened == [counted EXCEPT !.breakerOpen = TRUE, !.breakerCooldown = after,
                                     !.breakerLeft = CooldownOf(after)]
<1>1. /\ fails \in 0 .. BreakerTrip
      /\ s.breakerFails = BreakerTrip => fails = BreakerTrip
  BY NumbersAssumption DEF UpTo, ModelState
<1>2. after \in 0 .. MaxRetryAfter /\ (after > 0 <=> f.after > 0) /\ CooldownOf(after) \in Nat
  BY RetryAfterType, NumbersAssumption DEF CooldownOf
<1>3. CASE ~(s.breakerOpen /\ s.halfOpen) /\ after = 0 /\ (s.breakerOpen \/ fails < BreakerTrip)
  <2>1. BreakerFailure(s, f) = counted
    BY <1>3 DEF BreakerFailure
  <2> HIDE DEF fails, after
  <2>2. counted \in ModelState
    BY <1>1 DEF ModelState
  <2>3. BreakerCoherent(m, counted, B)
    BY <1>1, <1>2, <1>3, NumbersAssumption
    DEF ModelState, Coherent, BreakerCoherent, BreakerElapsed
  <2>4. Coherent(m, counted, B)
    BY <2>3 DEF ModelState, Coherent, PollCoherent
  <2> QED BY <2>1, <2>2, <2>4
<1>4. CASE ~(~(s.breakerOpen /\ s.halfOpen) /\ after = 0 /\ (s.breakerOpen \/ fails < BreakerTrip))
  <2>1. BreakerFailure(s, f) = opened
    BY <1>4 DEF BreakerFailure
  <2>2. CooldownOf(after) > 0
    BY <1>2, NumbersAssumption DEF CooldownOf
  <2> HIDE DEF fails, after
  <2>3. opened \in ModelState
    BY <1>1, <1>2 DEF ModelState
  <2>4. BreakerCoherent(m, opened, B)
    BY <1>1, <1>2, <1>4, <2>2, NumbersAssumption
    DEF ModelState, Coherent, BreakerCoherent, BreakerElapsed
  <2>5. Coherent(m, opened, B)
    BY <2>4 DEF ModelState, Coherent, PollCoherent
  <2> QED BY <2>1, <2>3, <2>5
<1> QED BY <1>3, <1>4

(* A reported failure, demotion or breaker.                                *)
LEMMA FailureGood ==
  ASSUME NEW m \in Models, NEW s \in ModelState, NEW A, Coherent(m, s, A),
         NEW f \in Failure, NEW B,
         (m \in B) <=> (m \in A \/ (f.after > 0 /\ ~(m \in Probed /\ f.warming)))
  PROVE  ApplyFailure(m, s, f) \in ModelState /\ Coherent(m, ApplyFailure(m, s, f), B)
<1>1. CASE Demotes(m, s, f)
  <2> DEFINE w == EnterWarming(s, TRUE)
             r == [w EXCEPT !.known = TRUE,
                     !.probeGap = NextBackoff(0), !.probeLeft = NextBackoff(0)]
  <2>1. w \in ModelState /\ Coherent(m, w, A)
    BY EnterWarmingGood
  <2>2. NextBackoff(0) \in Nat
    BY BackoffType
  <2>3. ApplyFailure(m, s, f) = r /\ (m \in B <=> m \in A)
    BY <1>1 DEF ApplyFailure, Demotes
  <2> HIDE DEF w
  <2>4. r \in ModelState
    BY <2>1, <2>2 DEF ModelState
  <2>5. Coherent(m, r, B)
    BY <2>1, <2>3 DEF ModelState, Coherent, PollCoherent, BreakerCoherent, BreakerElapsed
  <2> QED BY <2>3, <2>4, <2>5
<1>2. CASE m \in Probed /\ f.warming /\ ~Demotes(m, s, f)
  <2>1. ApplyFailure(m, s, f) = [s EXCEPT !.known = TRUE] /\ (m \in B <=> m \in A)
    BY <1>2 DEF ApplyFailure
  <2>2. [s EXCEPT !.known = TRUE] \in ModelState
    BY DEF ModelState
  <2>3. Coherent(m, [s EXCEPT !.known = TRUE], B)
    BY <2>1 DEF ModelState, Coherent, PollCoherent, BreakerCoherent, BreakerElapsed
  <2> QED BY <2>1, <2>2, <2>3
<1>3. CASE ~(m \in Probed /\ f.warming)
  <2>1. ApplyFailure(m, s, f) = BreakerFailure(s, f) /\ ((m \in B) <=> (m \in A \/ f.after > 0))
    BY <1>3 DEF ApplyFailure
  <2> QED BY <2>1, BreakerFailureGood
<1> QED BY <1>1, <1>2, <1>3 DEF Demotes

(* A reported success closes the breaker, so the Retry-After is forgotten. *)
LEMMA SuccessGood ==
  ASSUME NEW m \in Models, NEW s \in ModelState, NEW A, Coherent(m, s, A)
  PROVE  ApplySuccess(m, s) \in ModelState /\ Coherent(m, ApplySuccess(m, s), A \ {m})
<1> DEFINE closed == [s EXCEPT !.breakerFails = 0, !.breakerOpen = FALSE,
                               !.halfOpen = FALSE, !.breakerCooldown = 0,
                               !.breakerLeft = 0]
<1>1. 0 \in 0 .. BreakerTrip /\ 0 \in 0 .. MaxRetryAfter /\ 0 # BreakerTrip
  BY NumbersAssumption
<1>2. closed \in ModelState
  BY <1>1 DEF ModelState
<1>3. Coherent(m, closed, A \ {m})
  BY <1>1 DEF ModelState, Coherent, PollCoherent, BreakerCoherent, BreakerElapsed
<1>4. CASE ~s.known
  BY <1>4 DEF ApplySuccess, Coherent, BreakerCoherent
<1>5. CASE s.known /\ m \in Probed /\ ~s.confirmed
  <2> DEFINE r == [closed EXCEPT !.confirmed = TRUE, !.probeErr = FALSE]
  <2>1. ApplySuccess(m, s) = r
    BY <1>5 DEF ApplySuccess
  <2> HIDE DEF closed
  <2>2. r \in ModelState
    BY <1>2 DEF ModelState
  <2>3. Coherent(m, r, A \ {m})
    BY <1>2, <1>3, <1>5 DEF ModelState, Coherent, PollCoherent, BreakerCoherent, BreakerElapsed
  <2> QED BY <2>1, <2>2, <2>3
<1>6. CASE s.known /\ ~(m \in Probed /\ ~s.confirmed)
  BY <1>2, <1>3, <1>6 DEF ApplySuccess
<1> QED BY <1>4, <1>5, <1>6

(* A listing changes the absent mark only.                                 *)
LEMMA ListingGood ==
  ASSUME NEW m \in Models, NEW s \in ModelState, NEW A, Coherent(m, s, A),
         NEW listed
  PROVE  ApplyListing(m, s, listed) \in ModelState
         /\ Coherent(m, ApplyListing(m, s, listed), A)
  BY DEF ApplyListing, ModelState, Coherent, PollCoherent, BreakerCoherent, BreakerElapsed

(* The passing of time only moves the countdowns.                          *)
LEMMA TickGood ==
  ASSUME NEW m \in Models, NEW s \in ModelState, NEW A, Coherent(m, s, A)
  PROVE  LET r == [s EXCEPT !.breakerLeft = Down(s.breakerLeft), !.probeLeft = Down(s.probeLeft)]
         IN  r \in ModelState /\ Coherent(m, r, A)
<1> DEFINE r == [s EXCEPT !.breakerLeft = Down(s.breakerLeft), !.probeLeft = Down(s.probeLeft)]
<1>1. /\ Down(s.breakerLeft) \in Nat /\ Down(s.probeLeft) \in Nat
      /\ Down(s.breakerLeft) <= s.breakerLeft
      /\ s.breakerLeft = 0 => Down(s.breakerLeft) = 0
  BY DEF Down, ModelState
<1>2. r \in ModelState
  BY <1>1 DEF ModelState
<1>3. CooldownOf(s.breakerCooldown) \in Nat
  BY NumbersAssumption DEF CooldownOf, ModelState
<1>4. Coherent(m, r, A)
  BY <1>1, <1>3 DEF ModelState, Coherent, PollCoherent, BreakerCoherent, BreakerElapsed
<1> QED BY <1>2, <1>4

-----------------------------------------------------------------------------
(* The inductive invariant.  Besides typing and coherence it says where    *)
(* the round's probe jobs stand: a job exists only while probes are out,   *)
(* for a probed seat, was launched no later than the current warm-up, and  *)
(* strictly before it when the seat was demoted since.                     *)
RecordsCoherent == \A m \in Models : Coherent(m, st[m], asked)

JobsCurrent ==
  \A m \in Models :
    jobs[m].result # "none" =>
      /\ m \in Probed
      /\ jobs[m].seq <= st[m].probeSeq
      /\ m \in voided => jobs[m].seq < st[m].probeSeq

IInv == TypeOK /\ RecordsCoherent /\ JobsCurrent

(* Initially nothing is known and no probe is out.                         *)
LEMMA InitInv == Init => IInv
<1> SUFFICES ASSUME Init PROVE IInv
  OBVIOUS
<1>1. RecordsCoherent /\ st \in [Models -> ModelState]
  BY NewStateGood DEF Init, RecordsCoherent
<1>2. JobsCurrent
  BY DEF Init, JobsCurrent, NoJob
<1>3. snaps \in [Nodes -> Snapshot]
  BY DEF Init, Silent, Snapshot
<1>4. jobs \in [Models -> Job]
  BY DEF Init, NoJob, Job
<1>5. faults \in 0 .. MaxFaults
  BY NumbersAssumption DEF Init
<1>6. engine \in [Models -> {"stopped", "loading", "ready"}]
  BY DEF Init
<1>7. TypeOK
  BY <1>1, <1>3, <1>4, <1>5, <1>6 DEF Init, TypeOK
<1> QED BY <1>1, <1>2, <1>7 DEF IInv

(* The steps of the poll goroutine.                                        *)
LEMMA PollStepInv == IInv /\ PollStep => IInv'
<1> SUFFICES ASSUME IInv, PollStep PROVE IInv'
  OBVIOUS
<1> USE DEF IInv
<1>1. CASE BeginRound
  BY <1>1 DEF BeginRound, TypeOK, RecordsCoherent, JobsCurrent, trackerVars, envVars, historyVars
<1>2. ASSUME NEW n \in Nodes, ReadNode(n) PROVE IInv'
  <2>1. snaps' \in [Nodes -> Snapshot]
    <3>1. Says(n) \in Snapshot
      BY SetsAssumption DEF Says, Silent, Snapshot
    <3>2. {Silent, [reachable |-> TRUE, notRunning |-> {}]} \subseteq Snapshot
      BY DEF Silent, Snapshot
    <3>3. PICK heard \in Snapshot : snaps' = [snaps EXCEPT ![n] = heard]
      BY <1>2, <3>1, <3>2 DEF ReadNode
    <3> QED BY <3>3 DEF TypeOK
  <2>2. TypeOK'
    BY <1>2, <2>1, NumbersAssumption DEF ReadNode, TypeOK, trackerVars, historyVars
  <2>3. RecordsCoherent' /\ JobsCurrent'
    BY <1>2 DEF ReadNode, RecordsCoherent, JobsCurrent, trackerVars, envVars, historyVars
  <2> QED BY <2>2, <2>3
<1>3. CASE ObserveModels
  <2> DEFINE new == [m \in Models |-> IF m \in Registered
                       THEN ApplyObservation(m, st[m], ObserveModel(m)) ELSE st[m]]
  <2>1. /\ st' = new
        /\ jobs' = [m \in Models |-> IF DueProbe(m, new[m])
                                       THEN [seq |-> new[m].probeSeq, result |-> "pending"]
                                       ELSE NoJob]
        /\ snaps' = [n \in Nodes |-> Silent] /\ phase' = "probing" /\ voided' = {}
        /\ UNCHANGED <<polled, toRead, envVars, asked>>
    BY <1>3 DEF ObserveModels
  <2>2. \A m \in Models : new[m] \in ModelState /\ Coherent(m, new[m], asked)
    <3> SUFFICES ASSUME NEW m \in Models
                 PROVE  new[m] \in ModelState /\ Coherent(m, new[m], asked)
      OBVIOUS
    <3>1. st[m] \in ModelState /\ Coherent(m, st[m], asked)
      BY DEF TypeOK, RecordsCoherent
    <3> QED BY <3>1, ObservationGood
  <2>3. st' \in [Models -> ModelState] /\ RecordsCoherent'
    BY <2>1, <2>2 DEF RecordsCoherent
  <2> HIDE DEF new
  <2>4. jobs' \in [Models -> Job]
    BY <2>1, <2>2 DEF Job, NoJob, ModelState
  <2>5. snaps' \in [Nodes -> Snapshot]
    BY <2>1 DEF Silent, Snapshot
  <2>6. TypeOK'
    BY <2>1, <2>3, <2>4, <2>5 DEF TypeOK, envVars
  <2>7. JobsCurrent'
    BY <2>1, <2>2 DEF JobsCurrent, DueProbe, NoJob, ModelState
  <2> QED BY <2>3, <2>6, <2>7
<1>4. ASSUME NEW m \in Models, ProbeAnswer(m) PROVE IInv'
  <2>1. PICK r \in {"ok", "rejected", "fail"} : jobs' = [jobs EXCEPT ![m].result = r]
    BY <1>4 DEF ProbeAnswer
  <2>2. jobs' \in [Models -> Job]
    BY <2>1 DEF TypeOK, Job
  <2>3. TypeOK' /\ RecordsCoherent'
    BY <1>4, <2>2 DEF ProbeAnswer, TypeOK, RecordsCoherent, trackerVars, envVars, historyVars
  <2>4. JobsCurrent'
    BY <1>4, <2>1 DEF ProbeAnswer, TypeOK, Job, JobsCurrent, trackerVars, envVars, historyVars
  <2> QED BY <2>3, <2>4
<1>5. CASE ApplyProbes
  <2>1. \A m \in Models : /\ ApplyProbe(st[m], jobs[m]) \in ModelState
                           /\ Coherent(m, ApplyProbe(st[m], jobs[m]), asked)
    <3> SUFFICES ASSUME NEW m \in Models
                 PROVE  /\ ApplyProbe(st[m], jobs[m]) \in ModelState
                        /\ Coherent(m, ApplyProbe(st[m], jobs[m]), asked)
      OBVIOUS
    <3>1. st[m] \in ModelState /\ Coherent(m, st[m], asked) /\ jobs[m] \in Job
      BY DEF TypeOK, RecordsCoherent
    <3>2. CASE jobs[m].result = "none"
      BY <3>1, <3>2 DEF ApplyProbe
    <3>3. CASE jobs[m].result # "none"
      BY <3>1, <3>3, ProbeGood DEF JobsCurrent
    <3> QED BY <3>2, <3>3
  <2>2. st' \in [Models -> ModelState] /\ RecordsCoherent'
    BY <1>5, <2>1 DEF ApplyProbes, RecordsCoherent
  <2>3. jobs' \in [Models -> Job] /\ JobsCurrent'
    BY <1>5 DEF ApplyProbes, Job, NoJob, JobsCurrent
  <2>4. TypeOK'
    BY <1>5, <2>2, <2>3 DEF ApplyProbes, TypeOK, envVars
  <2> QED BY <2>2, <2>3, <2>4
<1>6. CASE OnPoll
  <2>1. \A m \in Models : /\ Consulted(st[m]) \in ModelState
                           /\ Coherent(m, Consulted(st[m]), asked)
                           /\ Consulted(st[m]).probeSeq = st[m].probeSeq
    BY ConsultedGood DEF TypeOK, RecordsCoherent, Consulted, ModelState
  <2>2. TypeOK' /\ RecordsCoherent'
    BY <1>6, <2>1 DEF OnPoll, TypeOK, RecordsCoherent, envVars, historyVars
  <2>3. JobsCurrent'
    BY <1>6, <2>1 DEF OnPoll, JobsCurrent, historyVars
  <2> QED BY <2>2, <2>3
<1> QED BY <1>1, <1>2, <1>3, <1>4, <1>5, <1>6 DEF PollStep

(* The calls of other goroutines.                                          *)
LEMMA CallInv == IInv /\ Call => IInv'
<1> SUFFICES ASSUME IInv, Call PROVE IInv'
  OBVIOUS
<1> USE DEF IInv
<1>0. \A m \in Models : st[m] \in ModelState /\ Coherent(m, st[m], asked)
  BY DEF TypeOK, RecordsCoherent
<1>c. \A m \in Models : /\ Consulted(st[m]) \in ModelState
                         /\ Coherent(m, Consulted(st[m]), asked)
                         /\ Consulted(st[m]).probeSeq = st[m].probeSeq
  BY <1>0, ConsultedGood DEF Consulted, ModelState
<1>1. ASSUME NEW m \in Models, Consult(m) PROVE IInv'
  <2>1. TypeOK' /\ RecordsCoherent'
    BY <1>0, <1>1, <1>c DEF Consult, TypeOK, RecordsCoherent, roundVars, envVars, historyVars
  <2>2. JobsCurrent'
    BY <1>1, <1>c DEF Consult, TypeOK, JobsCurrent, roundVars, historyVars
  <2> QED BY <2>1, <2>2
<1>2. ASSUME NEW m \in Models, ReportSuccess(m) PROVE IInv'
  <2>1. /\ ApplySuccess(m, st[m]) \in ModelState
        /\ Coherent(m, ApplySuccess(m, st[m]), asked \ {m})
    BY <1>0, SuccessGood
  <2>2. ApplySuccess(m, st[m]).probeSeq = st[m].probeSeq
    BY <1>0 DEF ApplySuccess, ModelState
  <2>3. st' = [st EXCEPT ![m] = ApplySuccess(m, st[m])] /\ asked' = asked \ {m}
    BY <1>2 DEF ReportSuccess
  <2>4. TypeOK'
    BY <1>2, <2>1, <2>3 DEF ReportSuccess, TypeOK, roundVars, envVars
  <2>5. RecordsCoherent'
    BY <1>0, <2>1, <2>3 DEF TypeOK, RecordsCoherent, Coherent, BreakerCoherent
  <2>6. JobsCurrent'
    BY <1>2, <2>2, <2>3 DEF ReportSuccess, TypeOK, JobsCurrent, roundVars
  <2> QED BY <2>4, <2>5, <2>6
<1>3. CASE TakeSnapshot
  <2>1. TypeOK' /\ RecordsCoherent'
    BY <1>3, <1>c DEF TakeSnapshot, TypeOK, RecordsCoherent, roundVars, envVars, historyVars
  <2>2. JobsCurrent'
    BY <1>3, <1>c DEF TakeSnapshot, JobsCurrent, roundVars, historyVars
  <2> QED BY <2>1, <2>2
<1>4. ASSUME NEW m \in Models, NEW f \in Failure, ReportFailure(m, f) PROVE IInv'
  <2>1. /\ st' = [st EXCEPT ![m] = ApplyFailure(m, st[m], f)]
        /\ voided' = (IF Demotes(m, st[m], f) THEN voided \cup {m} ELSE voided)
        /\ asked' = IF f.after > 0 /\ ~(m \in Probed /\ f.warming) THEN asked \cup {m} ELSE asked
        /\ UNCHANGED <<polled, roundVars, reachable, engine>>
        /\ faults < MaxFaults /\ faults' = faults + 1
    BY <1>4 DEF ReportFailure
  <2>2. /\ (m \in asked') <=> (m \in asked \/ (f.after > 0 /\ ~(m \in Probed /\ f.warming)))
        /\ \A k \in Models : k # m => (k \in asked' <=> k \in asked)
    BY <2>1
  <2>3. /\ ApplyFailure(m, st[m], f) \in ModelState
        /\ Coherent(m, ApplyFailure(m, st[m], f), asked')
    BY <1>0, <2>2, FailureGood
  <2>4. faults' \in 0 .. MaxFaults
    BY <2>1, NumbersAssumption DEF TypeOK
  <2>5. TypeOK'
    BY <2>1, <2>3, <2>4 DEF TypeOK, roundVars
  <2>6. RecordsCoherent'
    <3> SUFFICES ASSUME NEW k \in Models PROVE Coherent(k, st'[k], asked')
      BY DEF RecordsCoherent
    <3>1. CASE k = m
      BY <2>1, <2>3, <3>1 DEF TypeOK
    <3>2. CASE k # m
      BY <1>0, <2>1, <2>2, <3>2 DEF TypeOK, Coherent, BreakerCoherent
    <3> QED BY <3>1, <3>2
  <2>7. /\ ApplyFailure(m, st[m], f).probeSeq >= st[m].probeSeq
        /\ Demotes(m, st[m], f) => ApplyFailure(m, st[m], f).probeSeq > st[m].probeSeq
    <3>1. st[m] \in ModelState
      BY <1>0
    <3>2. CASE Demotes(m, st[m], f)
      BY <3>1, <3>2 DEF ApplyFailure, Demotes, EnterWarming, ModelState
    <3>3. CASE ~Demotes(m, st[m], f)
      BY <3>1, <3>3 DEF ApplyFailure, BreakerFailure, ModelState
    <3> QED BY <3>2, <3>3
  <2>8. JobsCurrent'
    <3> SUFFICES ASSUME NEW k \in Models, jobs'[k].result # "none"
                 PROVE  /\ k \in Probed
                        /\ jobs'[k].seq <= st'[k].probeSeq
                        /\ k \in voided' => jobs'[k].seq < st'[k].probeSeq
      BY DEF JobsCurrent
    <3>1. /\ jobs' = jobs /\ jobs[k].seq \in Nat
          /\ st[k].probeSeq \in Nat /\ st'[k].probeSeq \in Nat
      BY <2>1, <2>5, <1>0 DEF TypeOK, Job, ModelState, roundVars
    <3>2. /\ k \in Probed /\ jobs[k].seq <= st[k].probeSeq
          /\ k \in voided => jobs[k].seq < st[k].probeSeq
      BY <3>1 DEF JobsCurrent
    <3>3. CASE k = m
      BY <2>1, <2>7, <3>1, <3>2, <3>3 DEF TypeOK
    <3>4. CASE k # m
      BY <2>1, <3>1, <3>2, <3>4 DEF TypeOK
    <3> QED BY <3>3, <3>4
  <2> QED BY <2>5, <2>6, <2>8
<1>5. ASSUME NEW B \in Bases, NEW listed \in SUBSET B, ListingLands(B, listed) PROVE IInv'
  <2>1. /\ st' = [m \in Models |-> IF m \in B THEN ApplyListing(m, st[m], listed) ELSE st[m]]
        /\ UNCHANGED <<polled, roundVars, reachable, engine, historyVars>>
        /\ faults' = faults \/ (faults < MaxFaults /\ faults' = faults + 1)
    BY <1>5 DEF ListingLands
  <2>2. \A m \in Models : /\ st'[m] \in ModelState
                           /\ Coherent(m, st'[m], asked)
                           /\ st'[m].probeSeq = st[m].probeSeq
    <3>1. \A m \in Models : ApplyListing(m, st[m], listed).probeSeq = st[m].probeSeq
      BY <1>0 DEF ApplyListing, ModelState
    <3> QED BY <1>0, <2>1, <3>1, ListingGood
  <2>3. faults' \in 0 .. MaxFaults
    BY <2>1, NumbersAssumption DEF TypeOK
  <2>4. TypeOK'
    BY <2>1, <2>2, <2>3 DEF TypeOK, roundVars, historyVars
  <2>5. RecordsCoherent' /\ JobsCurrent'
    BY <2>1, <2>2 DEF RecordsCoherent, JobsCurrent, roundVars, historyVars
  <2> QED BY <2>4, <2>5
<1> QED BY <1>1, <1>2, <1>3, <1>4, <1>5 DEF Call

(* Time and the fleet.                                                     *)
LEMMA TickInv == IInv /\ Tick => IInv'
<1> SUFFICES ASSUME IInv, Tick PROVE IInv'
  OBVIOUS
<1>1. \A m \in Models : st[m] \in ModelState /\ Coherent(m, st[m], asked)
  BY DEF IInv, TypeOK, RecordsCoherent
<1>2. \A m \in Models : /\ st'[m] \in ModelState
                         /\ Coherent(m, st'[m], asked)
                         /\ st'[m].probeSeq = st[m].probeSeq
  <2> SUFFICES ASSUME NEW m \in Models
               PROVE  /\ st'[m] \in ModelState
                      /\ Coherent(m, st'[m], asked)
                      /\ st'[m].probeSeq = st[m].probeSeq
    OBVIOUS
  <2>1. st'[m] = [st[m] EXCEPT !.breakerLeft = Down(st[m].breakerLeft),
                               !.probeLeft = Down(st[m].probeLeft)]
    BY DEF Tick
  <2>2. st'[m].probeSeq = st[m].probeSeq
    BY <1>1, <2>1 DEF ModelState
  <2> QED BY <1>1, <2>1, <2>2, TickGood
<1>3. TypeOK'
  BY <1>2 DEF IInv, Tick, TypeOK, roundVars, envVars, historyVars
<1>4. RecordsCoherent' /\ JobsCurrent'
  BY <1>2 DEF IInv, Tick, RecordsCoherent, JobsCurrent, roundVars, historyVars
<1> QED BY <1>3, <1>4 DEF IInv

(* What the fleet does leaves the tracker alone.                           *)
LEMMA FleetStepInv == IInv /\ FleetStep => IInv'
<1> SUFFICES ASSUME IInv, FleetStep PROVE IInv'
  OBVIOUS
<1>1. /\ UNCHANGED <<trackerVars, roundVars, historyVars>>
      /\ reachable' \in [Nodes -> BOOLEAN]
      /\ engine' \in [Models -> {"stopped", "loading", "ready"}]
      /\ faults' = faults \/ (faults < MaxFaults /\ faults' = faults + 1)
  BY DEF IInv, TypeOK, FleetStep, NodeDown, NodeUp, EngineStop, EngineAdvance
<1>2. faults' \in 0 .. MaxFaults
  BY <1>1, NumbersAssumption DEF IInv, TypeOK
<1> QED
  BY <1>1, <1>2
  DEF IInv, TypeOK, RecordsCoherent, JobsCurrent, trackerVars, roundVars, historyVars

(* The invariant is inductive.                                             *)
LEMMA NextInv == IInv /\ [Next]_vars => IInv'
<1>1. IInv /\ UNCHANGED vars => IInv'
  BY DEF IInv, TypeOK, RecordsCoherent, JobsCurrent, vars, trackerVars, roundVars, envVars,
         historyVars
<1> QED BY <1>1, PollStepInv, CallInv, TickInv, FleetStepInv DEF Next

(* What one step may do to the breaker of one model: nothing, count a      *)
(* failure, close it, or let time pass.                                    *)
SameBreaker(s, r) ==
  /\ r.breakerFails = s.breakerFails /\ r.breakerOpen = s.breakerOpen
  /\ r.breakerCooldown = s.breakerCooldown /\ r.breakerLeft = s.breakerLeft

BreakerMove(s, r) ==
  \/ SameBreaker(s, r)
  \/ \E f \in Failure : r = BreakerFailure(s, f)
  \/ ~r.breakerOpen /\ r.breakerFails = 0 /\ r.breakerLeft = 0
  \/ /\ r.breakerOpen = s.breakerOpen /\ r.breakerCooldown = s.breakerCooldown
     /\ r.breakerLeft = Down(s.breakerLeft)

(* Every step moves a model's breaker in one of the four ways above.       *)
LEMMA BreakerMoves ==
  ASSUME IInv, [Next]_vars, NEW m \in Models PROVE BreakerMove(st[m], st'[m])
<1>1. st[m] \in ModelState
  BY DEF IInv, TypeOK
<1>2. SameBreaker(st[m], Consulted(st[m]))
  BY <1>1 DEF SameBreaker, Consulted, ModelState
<1>3. CASE PollStep
  <2>1. CASE ObserveModels
    <3>1. st'[m] = st[m] \/ st'[m] = ApplyObservation(m, st[m], ObserveModel(m))
      BY <2>1 DEF ObserveModels
    <3>2. SameBreaker(st[m], ApplyObservation(m, st[m], ObserveModel(m)))
      BY <1>1 DEF SameBreaker, ApplyObservation, EnterWarming, ModelState
    <3> QED BY <3>1, <3>2 DEF BreakerMove, SameBreaker
  <2>2. CASE ApplyProbes
    <3>1. st'[m] = ApplyProbe(st[m], jobs[m])
      BY <2>2 DEF ApplyProbes
    <3>2. SameBreaker(st[m], ApplyProbe(st[m], jobs[m]))
      BY <1>1 DEF SameBreaker, ApplyProbe, ModelState
    <3> QED BY <3>1, <3>2 DEF BreakerMove
  <2>3. CASE OnPoll
    BY <1>2, <2>3 DEF OnPoll, BreakerMove
  <2>4. CASE BeginRound \/ (\E n \in Nodes : ReadNode(n)) \/ (\E k \in Models : ProbeAnswer(k))
    BY <2>4 DEF BeginRound, ReadNode, ProbeAnswer, trackerVars, BreakerMove, SameBreaker
  <2> QED BY <1>3, <2>1, <2>2, <2>3, <2>4 DEF PollStep
<1>4. CASE Call
  <2>1. ASSUME NEW k \in Models, Consult(k) PROVE BreakerMove(st[m], st'[m])
    BY <1>2, <2>1 DEF IInv, TypeOK, Consult, BreakerMove, SameBreaker
  <2>2. ASSUME NEW k \in Models, ReportSuccess(k) PROVE BreakerMove(st[m], st'[m])
    <3>1. st'[m] = st[m] \/ st'[m] = ApplySuccess(m, st[m])
      BY <2>2 DEF IInv, TypeOK, ReportSuccess
    <3>2. BreakerMove(st[m], ApplySuccess(m, st[m]))
      BY <1>1 DEF BreakerMove, SameBreaker, ApplySuccess, ModelState
    <3> QED BY <3>1, <3>2 DEF BreakerMove, SameBreaker
  <2>3. CASE TakeSnapshot
    BY <1>2, <2>3 DEF TakeSnapshot, BreakerMove
  <2>4. ASSUME NEW k \in Models, NEW f \in Failure, ReportFailure(k, f)
        PROVE  BreakerMove(st[m], st'[m])
    <3>1. st'[m] = st[m] \/ st'[m] = ApplyFailure(m, st[m], f)
      BY <2>4 DEF IInv, TypeOK, ReportFailure
    <3>2. CASE m \in Probed /\ f.warming
      <4>1. SameBreaker(st[m], ApplyFailure(m, st[m], f))
        BY <1>1, <3>2 DEF SameBreaker, ApplyFailure, EnterWarming, ModelState
      <4> QED BY <3>1, <4>1 DEF BreakerMove, SameBreaker
    <3>3. CASE ~(m \in Probed /\ f.warming)
      <4>1. ApplyFailure(m, st[m], f) = BreakerFailure(st[m], f)
        BY <3>3 DEF ApplyFailure
      <4> QED BY <3>1, <4>1 DEF BreakerMove, SameBreaker
    <3> QED BY <3>2, <3>3
  <2>5. ASSUME NEW B \in Bases, NEW listed \in SUBSET B, ListingLands(B, listed)
        PROVE  BreakerMove(st[m], st'[m])
    <3>1. st'[m] = st[m] \/ st'[m] = ApplyListing(m, st[m], listed)
      BY <2>5 DEF ListingLands
    <3> QED BY <1>1, <3>1 DEF BreakerMove, SameBreaker, ApplyListing, ModelState
  <2> QED BY <1>4, <2>1, <2>2, <2>3, <2>4, <2>5 DEF Call
<1>5. CASE Tick
  <2>1. st'[m] = [st[m] EXCEPT !.breakerLeft = Down(st[m].breakerLeft),
                               !.probeLeft = Down(st[m].probeLeft)]
    BY <1>5 DEF Tick
  <2> QED BY <1>1, <2>1 DEF BreakerMove, ModelState
<1>6. CASE FleetStep \/ UNCHANGED vars
  <2>1. st' = st
    BY <1>6 DEF FleetStep, NodeDown, NodeUp, EngineStop, EngineAdvance, vars, trackerVars
  <2> QED BY <2>1 DEF BreakerMove, SameBreaker
<1> QED BY <1>3, <1>4, <1>5, <1>6 DEF Next

(* While the breaker cools down a further failure either leaves the        *)
(* countdown alone or restarts it with the Retry-After it carries.         *)
LEMMA FailureWhileCooling ==
  ASSUME NEW m \in Models, NEW s \in ModelState, NEW A, Coherent(m, s, A), BreakerCooling(s),
         NEW f \in Failure
  PROVE  LET r == BreakerFailure(s, f)
         IN  \/ r.breakerLeft = s.breakerLeft
             \/ r.breakerCooldown > 0 /\ r.breakerFails > 0
<1>1. ~s.halfOpen /\ s.breakerOpen
  BY DEF Coherent, BreakerCoherent, BreakerElapsed, BreakerCooling, ModelState
<1>2. RetryAfterOf(f) \in 0 .. MaxRetryAfter
  BY RetryAfterType
<1>3. UpTo(s.breakerFails, BreakerTrip) > 0
  BY NumbersAssumption DEF UpTo, ModelState
<1>4. CASE RetryAfterOf(f) = 0
  BY <1>1, <1>4 DEF BreakerFailure, ModelState
<1>5. CASE RetryAfterOf(f) > 0
  BY <1>1, <1>3, <1>5, NumbersAssumption DEF BreakerFailure, ModelState
<1> QED BY <1>2, <1>4, <1>5, NumbersAssumption

-----------------------------------------------------------------------------
(* The tracker's bookkeeping is always well-formed and coherent, and the   *)
(* probes that are out never run ahead of the warm-up they belong to.      *)
THEOREM Inductive == Spec => []IInv
BY InitInv, NextInv, PTL DEF Spec

(* Every variable keeps its type; probeSeq and the countdowns never go     *)
(* negative, a Retry-After is never kept above its cap.                    *)
THEOREM TypeCorrect == Spec => []TypeOK
BY Inductive, PTL DEF IInv

(* applyObservation's hysteresis, for every DownAfter and every fleet.     *)
THEOREM PollHysteresisHolds == Spec => []PollHysteresis
<1>1. IInv => PollHysteresis
  BY DEF IInv, RecordsCoherent, Coherent, PollHysteresis
<1> QED BY <1>1, Inductive, PTL

(* The breaker is open exactly when BreakerTrip failures in a row, or a    *)
(* Retry-After, say so; for every trip, cooldown and cap.                  *)
THEOREM BreakerEarnedHolds == Spec => []BreakerEarned
<1>1. IInv => BreakerEarned
  BY DEF IInv, RecordsCoherent, Coherent, BreakerEarned
<1> QED BY <1>1, Inductive, PTL

(* A confirmed seat carries no probe error.                                *)
THEOREM ConfirmedIsCleanHolds == Spec => []ConfirmedIsClean
<1>1. IInv => ConfirmedIsClean
  BY DEF IInv, RecordsCoherent, Coherent, ConfirmedIsClean
<1> QED BY <1>1, Inductive, PTL

(* The three signals of the verdict have their causes, in every fleet.     *)
THEOREM VerdictsEarnedHolds == Spec => []VerdictsEarned
BY PollHysteresisHolds, BreakerEarnedHolds, ConfirmedIsCleanHolds, PTL DEF VerdictsEarned

(* A probe result never confirms a warm-up that began after its launch.    *)
THEOREM SupersededProbeDroppedHolds == Spec => SupersededProbeDropped
<1> DEFINE A == phase = "probing" /\ phase' = "onpoll"
                  => \A m \in voided : st'[m].confirmed => st[m].confirmed
<1>1. IInv /\ [Next]_vars => [A]_vars
  <2> SUFFICES ASSUME IInv, [Next]_vars, phase = "probing", phase' = "onpoll",
                      NEW m \in voided, st'[m].confirmed
               PROVE  st[m].confirmed
    OBVIOUS
  <2>1. ApplyProbes
    BY DEF Next, PollStep, BeginRound, ReadNode, ObserveModels, ProbeAnswer, OnPoll, Call,
           Consult, TakeSnapshot, ReportFailure, ReportSuccess, ListingLands, Tick, FleetStep,
           NodeDown, NodeUp, EngineStop, EngineAdvance, roundVars, vars
  <2>2. m \in Models /\ st[m] \in ModelState /\ jobs[m] \in Job
    BY DEF IInv, TypeOK
  <2>3. st'[m] = ApplyProbe(st[m], jobs[m])
    BY <2>1, <2>2 DEF ApplyProbes
  <2>4. jobs[m].result = "none" \/ jobs[m].seq # st[m].probeSeq
    BY <2>2 DEF IInv, JobsCurrent, Job, ModelState
  <2> QED BY <2>3, <2>4 DEF ApplyProbe
<1> QED BY <1>1, Inductive, PTL DEF Spec, SupersededProbeDropped

(* Failures without a Retry-After never lengthen a running cooldown.       *)
THEOREM StragglersDoNotExtendHolds == Spec => StragglersDoNotExtend
<1> DEFINE A == \A m \in Models :
                  BreakerCooling(st[m]) /\ st'[m].breakerLeft > st[m].breakerLeft
                    => st'[m].breakerCooldown > 0
<1>1. IInv /\ [Next]_vars => [A]_vars
  <2> SUFFICES ASSUME IInv, [Next]_vars, NEW m \in Models, BreakerCooling(st[m]),
                      st'[m].breakerLeft > st[m].breakerLeft
               PROVE  st'[m].breakerCooldown > 0
    OBVIOUS
  <2>1. st[m] \in ModelState /\ Coherent(m, st[m], asked)
    BY DEF IInv, TypeOK, RecordsCoherent
  <2>2. BreakerMove(st[m], st'[m])
    BY BreakerMoves
  <2>3. st[m].breakerLeft \in Nat
    BY <2>1 DEF ModelState
  <2>4. PICK f \in Failure : st'[m] = BreakerFailure(st[m], f)
    BY <2>2, <2>3 DEF BreakerMove, SameBreaker, Down
  <2> QED BY <2>1, <2>3, <2>4, FailureWhileCooling
<1> QED BY <1>1, Inductive, PTL DEF Spec, StragglersDoNotExtend

(* A running cooldown ends early only by a success or by a newer           *)
(* Retry-After.                                                            *)
THEOREM CooldownServedHolds == Spec => CooldownServed
<1> DEFINE A == \A m \in Models :
                  BreakerCooling(st[m]) /\ st'[m].breakerLeft < st[m].breakerLeft
                    => \/ st'[m].breakerLeft = st[m].breakerLeft - 1 /\ st'[m].breakerOpen
                       \/ ~st'[m].breakerOpen /\ st'[m].breakerFails = 0
                       \/ st'[m].breakerCooldown > 0 /\ st'[m].breakerFails > 0
<1>1. IInv /\ [Next]_vars => [A]_vars
  <2> SUFFICES ASSUME IInv, [Next]_vars, NEW m \in Models, BreakerCooling(st[m]),
                      st'[m].breakerLeft < st[m].breakerLeft
               PROVE  \/ st'[m].breakerLeft = st[m].breakerLeft - 1 /\ st'[m].breakerOpen
                      \/ ~st'[m].breakerOpen /\ st'[m].breakerFails = 0
                      \/ st'[m].breakerCooldown > 0 /\ st'[m].breakerFails > 0
    OBVIOUS
  <2>1. st[m] \in ModelState /\ Coherent(m, st[m], asked)
    BY DEF IInv, TypeOK, RecordsCoherent
  <2>2. st[m].breakerLeft \in Nat /\ st[m].breakerOpen
    BY <2>1 DEF ModelState, BreakerCooling
  <2>3. CASE \E f \in Failure : st'[m] = BreakerFailure(st[m], f)
    BY <2>1, <2>2, <2>3, FailureWhileCooling
  <2>4. CASE SameBreaker(st[m], st'[m])
    BY <2>2, <2>4 DEF SameBreaker
  <2>5. CASE ~st'[m].breakerOpen /\ st'[m].breakerFails = 0
    BY <2>5
  <2>6. CASE /\ st'[m].breakerOpen = st[m].breakerOpen
             /\ st'[m].breakerLeft = Down(st[m].breakerLeft)
    BY <2>2, <2>6 DEF Down
  <2> QED BY <2>3, <2>4, <2>5, <2>6, BreakerMoves DEF BreakerMove
<1> QED BY <1>1, Inductive, PTL DEF Spec, CooldownServed

(* A cooldown is neither lengthened nor cut short by requests that were    *)
(* out when the breaker opened, for every trip, cooldown and cap.          *)
THEOREM CooldownKeptHolds == Spec => CooldownKept
BY StragglersDoNotExtendHolds, CooldownServedHolds DEF CooldownKept
=============================================================================
