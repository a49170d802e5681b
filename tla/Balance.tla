------------------------------ MODULE Balance ------------------------------
(***************************************************************************)
(* A role with balance: pressure under concurrent requests.  A request     *)
(* reads the pressure of the seats one by one, orders them, walks the      *)
(* order, sends, and settles: the pressure it read is old by the time it   *)
(* is counted itself.  Every attempt ends in the sliding window that the   *)
(* dashboard and "failing since" are read from.                            *)
(*                                                                         *)
(* Privacy, contracts and chains are Proxy's; here every seat is viable    *)
(* while the tracker routes to it.                                         *)
(***************************************************************************)
EXTENDS Integers, Sequences, FiniteSets, SequencesExt

CONSTANTS
  Requests,
  Candidates, Overflow,  \* the role's lists: sequences of seats
  Groups,                \* balance_groups: a set of sets of seats
  Thresholds,            \* gpu_buckets, ascending
  LoadTables,            \* bound: the tables a poll may bring, seat -> [running, waiting, busy]
  WarmWindow,            \* window_s
  WindowMinutes,         \* upstreamWindowMinutes
  MaxFailoverAttempts,
  MaxTime, MaxPolls, MaxFlips  \* bounds

Base == Candidates \o Overflow
Seats == ToSet(Base)
None == "none"

ASSUME BalanceAssumption ==
  /\ IsFiniteSet(Requests) /\ None \notin Requests
  /\ Candidates \in Seq(STRING) /\ Overflow \in Seq(STRING)
  /\ Base # <<>> /\ None \notin Seats /\ IsInjective(Base)
  /\ \A G, H \in Groups : G # H => G \cap H = {}
  /\ \A table \in LoadTables : table \in [Seats -> [running : Nat, waiting : Nat, busy : Int]]
  /\ Thresholds \in Seq(Int)
  /\ WarmWindow \in Nat /\ WindowMinutes \in Nat \ {0} /\ MaxFailoverAttempts \in Nat
  /\ MaxTime \in Nat /\ MaxPolls \in Nat /\ MaxFlips \in Nat

VARIABLES
  inflight, served, loads,  \* pressureTracker; served is -1 for never
  up,                       \* the seats the tracker routes to
  now,                      \* minutes
  req,                      \* per request, the handler's locals
  series,                   \* upstreamTracker: seat -> [buckets, failingSince, lastFailure]
  history,                  \* every attempt recorded: <<[seat, at, class]>>
  polls, flips

pressureVars == <<inflight, served, loads>>
statVars == <<series, history>>
worldVars == <<up, now, polls, flips>>
vars == <<pressureVars, up, now, req, statVars, polls, flips>>

-----------------------------------------------------------------------------
At(s) == CHOOSE i \in DOMAIN Base : Base[i] = s
IsOverflow(s) == At(s) > Len(Candidates)

(* candidateRanks: the declared index, or the earliest of the seat's group.*)
Group(s) == {s} \cup UNION {G \in Groups : s \in G}
Rank(s) ==
  IF IsOverflow(s) THEN Len(Candidates) + At(s)
  ELSE At(CHOOSE t \in Group(s) \cap ToSet(Candidates) :
            \A u \in Group(s) \cap ToSet(Candidates) : At(t) <= At(u))

GPUBucket(pct) == IF pct < 0 THEN 0 ELSE Cardinality({i \in DOMAIN Thresholds : pct >= Thresholds[i]})

Warm(s) == served[s] >= 0 /\ now - served[s] < WarmWindow

(* pressureLocked.                                                         *)
Pressure(s) ==
  LET load == loads[s]
      base == IF load.running > inflight[s] THEN load.running ELSE inflight[s]
  IN base + load.waiting + GPUBucket(load.busy) - (IF Warm(s) THEN 1 ELSE 0)

-----------------------------------------------------------------------------
(* A request's locals.  seen and seenUp are what orderByPressure read;     *)
(* walkUp is what the walk found routable; raced counts the changes of     *)
(* pressure since the first read, polled whether a poll was one of them.   *)
NewRequest ==
  [ pc |-> "new", at |-> 1, seen |-> [s \in Seats |-> 0], seenUp |-> {}, walkUp |-> {},
    rest |-> <<>>, seat |-> None, attempt |-> 0, outcome |-> None, raced |-> 0, polled |-> FALSE ]

(* What a request knew is forgotten once it has been counted; the order is *)
(* kept for the walk.                                                      *)
Forget(q, pc) ==
  [NewRequest EXCEPT !.pc = pc, !.seat = q.seat, !.rest = q.rest, !.attempt = q.attempt]
Ended(q) == [NewRequest EXCEPT !.pc = "done"]

(* Somebody changed a pressure while others were choosing.                 *)
Choosing(q) == q.pc \in {"new", "walk", "attempt"} /\ q.attempt = 0 /\ q.at > 1
Raced(rs, r) ==
  [x \in Requests |-> IF x # r /\ Choosing(rs[x]) THEN [rs[x] EXCEPT !.raced = @ + 1] ELSE rs[x]]

(* One round of orderByPressure's loop.                                    *)
Read(r) ==
  /\ req[r].pc = "new"
  /\ LET q == req[r]  s == Base[q.at] IN
     req' = [req EXCEPT ![r] =
       [q EXCEPT !.seen[s] = Pressure(s), !.seenUp = IF s \in up THEN @ \cup {s} ELSE @,
                 !.at = @ + 1, !.pc = IF q.at = Len(Base) THEN "walk" ELSE "new"]]
  /\ UNCHANGED <<pressureVars, statVars, worldVars>>

(* The stable sort: by rank, then the routable ones by pressure; a seat's  *)
(* place is the number of seats before it.                                 *)
Before(q, s, t) ==
  IF Rank(s) # Rank(t) THEN Rank(s) < Rank(t)
  ELSE IF {s, t} \subseteq q.seenUp /\ q.seen[s] # q.seen[t] THEN q.seen[s] < q.seen[t]
  ELSE IF (s \in q.seenUp) # (t \in q.seenUp) THEN s \in q.seenUp
  ELSE At(s) < At(t)

Earlier(q, s) == {t \in Seats : Before(q, t, s)}
Order(q) ==
  [i \in 1 .. Cardinality(Seats) |-> CHOOSE s \in Seats : Cardinality(Earlier(q, s)) = i - 1]

(* Mutant: any load on the head is enough.                                 *)
PromotableEagerly(q, order) ==
  {i \in 2 .. Len(order) :
     /\ order[1] \in q.seenUp
     /\ IsOverflow(order[i]) = IsOverflow(order[1])
     /\ Rank(order[i]) > Rank(order[1])
     /\ order[i] \in q.seenUp /\ q.seen[order[i]] <= 1}

(* applyRankOverride: the idle seats that may pass a jammed head.          *)
Promotable(q, order) ==
  {i \in 2 .. Len(order) :
     /\ order[1] \in q.seenUp /\ q.seen[order[1]] >= 3
     /\ IsOverflow(order[i]) = IsOverflow(order[1])
     /\ Rank(order[i]) > Rank(order[1])
     /\ order[i] \in q.seenUp /\ q.seen[order[i]] <= 1}

Override(q, order) ==
  LET S == Promotable(q, order)
      i == CHOOSE j \in S : \A k \in S : j <= k
  IN IF S = {} THEN order ELSE <<order[i]>> \o SubSeq(order, 1, i - 1) \o SubSeq(order, i + 1, Len(order))

(* The first seat of an order that is routable now, and the tail.          *)
Walk(q, order, none) ==
  LET S == {i \in DOMAIN order : order[i] \in up}
      i == CHOOSE j \in S : \A k \in S : j <= k
  IN IF S = {} THEN none
     ELSE [q EXCEPT !.seat = order[i], !.rest = SubSeq(order, i + 1, Len(order))]

(* resolveRole, behind the pressure order: nothing routable is a 503.      *)
Resolve(r) ==
  /\ req[r].pc = "walk"
  /\ LET q == [req[r] EXCEPT !.pc = "attempt", !.walkUp = up]
     IN req' = [req EXCEPT ![r] = Walk(q, Override(q, Order(q)), Ended(q))]
  /\ UNCHANGED <<pressureVars, statVars, worldVars>>

Send(r) ==
  /\ req[r].pc = "attempt"
  /\ inflight' = [inflight EXCEPT ![req[r].seat] = @ + 1]
  /\ req' = [Raced(req, r) EXCEPT ![r] = Forget(@, "upstream")]
  /\ UNCHANGED <<served, loads, statVars, worldVars>>

-----------------------------------------------------------------------------
(* What became of an attempt.  An answer passed through: ok, client_error, *)
(* error, or loading for a fleet seat's 503 (the candidates are fleet      *)
(* seats, the overflow is not).  failed: no answer, or a withheld one.     *)
Outcomes == {"ok", "client_error", "error", "loading", "failed"}
IsUpstreamFailure(o) == o \in {"error", "loading", "failed"}

(* Mutant: the count is lowered whoever is still out.                      *)
DoneInflightForgets(s) == [inflight EXCEPT ![s] = 0]

DoneInflight(s) == [inflight EXCEPT ![s] = IF @ > 0 THEN @ - 1 ELSE 0]

Return(r) ==
  /\ req[r].pc = "upstream"
  /\ \E o \in Outcomes :
       /\ o = "loading" => ~IsOverflow(req[r].seat)
       /\ req' = [Raced(req, r) EXCEPT ![r].pc = "settle", ![r].outcome = o]
  /\ inflight' = DoneInflight(req[r].seat)
  /\ UNCHANGED <<served, loads, statVars, worldVars>>

(* upstreamTracker.record: the minute's bucket, emptied first when it      *)
(* still holds an older minute, and the streak of failures.                *)
EmptyBucket(minute) == [minute |-> minute, total |-> 0, failed |-> 0]

(* Mutant: a bucket is not emptied when the window comes round again.      *)
BucketReused(s) == series[s].buckets[now % WindowMinutes]

BucketNow(s) ==
  LET b == series[s].buckets[now % WindowMinutes] IN IF b.minute # now THEN EmptyBucket(now) ELSE b

Streak(s, o) ==
  CASE IsUpstreamFailure(o) -> IF series[s].failingSince = -1 THEN now ELSE series[s].failingSince
    [] o = "ok" -> -1
    [] o = "client_error" -> series[s].failingSince

Record(s, o) ==
  /\ series' = [series EXCEPT ![s] =
       [ buckets |-> [@.buckets EXCEPT ![now % WindowMinutes] =
           [ minute |-> now, total |-> BucketNow(s).total + 1,
             failed |-> BucketNow(s).failed + (IF IsUpstreamFailure(o) THEN 1 ELSE 0) ]],
         failingSince |-> Streak(s, o),
         lastFailure |-> IF IsUpstreamFailure(o) THEN now ELSE @.lastFailure ]]
  /\ history' = Append(history, [seat |-> s, at |-> now, class |-> o])

(* The body breaks off behind its headers: the panic skips doneInflight,   *)
(* and the deferred record counts the status that was sent.                *)
Abort(r) ==
  /\ req[r].pc = "upstream"
  /\ req' = [req EXCEPT ![r] = Ended(@)]
  /\ \E o \in {"ok", "client_error", "error"} : Record(req[r].seat, o)
  /\ UNCHANGED <<pressureVars, worldVars>>

(* An answer that passed through keeps its seat warm and ends the request. *)
Served(r) ==
  /\ req[r].pc = "settle" /\ req[r].outcome \in {"ok", "client_error", "error"}
  /\ served' = [served EXCEPT ![req[r].seat] = now]
  /\ req' = [Raced(req, r) EXCEPT ![r] = Ended(@)]
  /\ Record(req[r].seat, req[r].outcome)
  /\ UNCHANGED <<inflight, loads, worldVars>>

(* A fleet seat's 503 passed through.                                      *)
Loading(r) ==
  /\ req[r].pc = "settle" /\ req[r].outcome = "loading"
  /\ req' = [req EXCEPT ![r] = Ended(@)]
  /\ Record(req[r].seat, "loading")
  /\ UNCHANGED <<pressureVars, worldVars>>

(* The walk moves on, down the order fixed at resolution, or gives up.     *)
FailOver(r) ==
  /\ req[r].pc = "settle" /\ req[r].outcome = "failed"
  /\ LET q == [req[r] EXCEPT !.pc = "attempt", !.attempt = @ + 1, !.outcome = None]
         end == Ended(req[r])
     IN req' = [req EXCEPT ![r] =
          IF req[r].attempt < MaxFailoverAttempts THEN Walk(q, q.rest, end) ELSE end]
  /\ Record(req[r].seat, "failed")
  /\ UNCHANGED <<pressureVars, worldVars>>

-----------------------------------------------------------------------------
(* setLoads, from the poll callback.                                       *)
SetLoads ==
  /\ polls < MaxPolls /\ polls' = polls + 1
  /\ loads' \in LoadTables
  /\ req' = [r \in Requests |-> IF Choosing(req[r]) THEN [req[r] EXCEPT !.polled = TRUE] ELSE req[r]]
  /\ UNCHANGED <<inflight, served, statVars, up, now, flips>>

(* The tracker changes its mind about a seat.                              *)
Flip ==
  /\ flips < MaxFlips /\ flips' = flips + 1
  /\ \E s \in Seats : up' = IF s \in up THEN up \ {s} ELSE up \cup {s}
  /\ UNCHANGED <<pressureVars, statVars, req, now, polls>>

Tick ==
  /\ now < MaxTime /\ now' = now + 1
  /\ req' = Raced(req, None)
  /\ UNCHANGED <<pressureVars, statVars, up, polls, flips>>

Init ==
  /\ inflight = [s \in Seats |-> 0] /\ served = [s \in Seats |-> -1]
  /\ loads = [s \in Seats |-> [running |-> 0, waiting |-> 0, busy |-> -1]]
  /\ up = Seats /\ now = 0
  /\ req = [r \in Requests |-> NewRequest]
  /\ series = [s \in Seats |->
       [ buckets |-> [i \in 0 .. WindowMinutes - 1 |-> EmptyBucket(0)],
         failingSince |-> -1, lastFailure |-> -1 ]]
  /\ history = <<>> /\ polls = 0 /\ flips = 0

Handle(r) ==
  Read(r) \/ Resolve(r) \/ Send(r) \/ Return(r) \/ Abort(r) \/ Served(r) \/ Loading(r) \/ FailOver(r)

Next == (\E r \in Requests : Handle(r)) \/ SetLoads \/ Flip \/ Tick

Spec == Init /\ [][Next]_vars

-----------------------------------------------------------------------------
(* Every variable keeps its type: a count never exceeds the requests there *)
(* are, a walk never its retries, and no seat is offered to it twice.      *)
TypeOK ==
  /\ inflight \in [Seats -> 0 .. Cardinality(Requests)]
  /\ served \in [Seats -> -1 .. MaxTime] /\ loads \in [Seats -> [running : Nat, waiting : Nat, busy : Int]]
  /\ up \subseteq Seats /\ now \in 0 .. MaxTime
  /\ \A r \in Requests : /\ req[r].attempt \in 0 .. MaxFailoverAttempts
                         /\ req[r].seat \in Seats \cup {None}
                         /\ ToSet(req[r].rest) \subseteq Seats \ {req[r].seat}
  /\ \A s \in Seats, i \in 0 .. WindowMinutes - 1 :
       series[s].buckets[i].minute \in 0 .. MaxTime

Upstream(s) == {r \in Requests : req[r].pc = "upstream" /\ req[r].seat = s}

(* The balancer never sees less load than this router is putting on a      *)
(* seat: concurrent attempts, failovers and aborted copies never lose a    *)
(* count that is still owed.                                               *)
InflightCovers == \A s \in Seats : inflight[s] >= Cardinality(Upstream(s))

(* Counts hold: no count still owed is lost and no walk goes on past its   *)
(* retries, however attempts, failovers and aborts interleave.             *)
CountsHold == TypeOK /\ InflightCovers

(* Requests that choose together pile up on one seat by no more than the   *)
(* changes they raced with: a request goes to a seat whose pressure        *)
(* exceeds that of another routable seat of the rank by at most the number *)
(* of counts, answers and ticks between its first read and its send.       *)
Chose(r) == req[r].pc = "attempt" /\ req[r].attempt = 0
PileUpBounded ==
  \A r \in Requests : LET q == req[r] IN
    Chose(r) /\ ~q.polled =>
      \A t \in q.seenUp \cap q.walkUp :
        q.seat \in q.seenUp /\ Rank(t) = Rank(q.seat) => Pressure(q.seat) <= Pressure(t) + q.raced

(* Load beats rank in one case only: a request passes over a better-ranked *)
(* seat that was routable at both looks only when it saw every routable    *)
(* seat of the best rank jammed and its own seat idle, and never across    *)
(* the locality boundary.                                                  *)
RankHolds ==
  \A r \in Requests : LET q == req[r] IN
    Chose(r) =>
      \A t \in q.seenUp \cap q.walkUp :
        Rank(t) < Rank(q.seat) /\ q.seat \in q.seenUp =>
          /\ q.seen[q.seat] <= 1 /\ IsOverflow(t) = IsOverflow(q.seat)
          /\ \A u \in q.seenUp : (\A v \in q.seenUp : Rank(u) <= Rank(v)) => q.seen[u] >= 3

(* A choice is justified by what was read: old by no more than what raced  *)
(* with it, and past a better rank only in the documented case.            *)
ChoiceJustified == PileUpBounded /\ RankHolds

(* The sliding window, read at any minute, counts exactly the attempts     *)
(* made within it, and the failures among them, through every wrap of the  *)
(* ring (stats).                                                           *)
Inside(s, m) == {i \in DOMAIN history : history[i].seat = s /\ m - history[i].at < WindowMinutes}
Fresh(s, m) ==
  {i \in 0 .. WindowMinutes - 1 :
     LET age == m - series[s].buckets[i].minute IN age >= 0 /\ age < WindowMinutes}
SumOver(f, S) == FoldFunctionOnSet(LAMBDA x, y : x + y, 0, f, S)
WindowExact ==
  \A s \in Seats, m \in now .. MaxTime :
    LET b == series[s].buckets IN
    /\ SumOver([i \in DOMAIN b |-> b[i].total], Fresh(s, m)) = Cardinality(Inside(s, m))
    /\ SumOver([i \in DOMAIN b |-> b[i].failed], Fresh(s, m)) =
         Cardinality({i \in Inside(s, m) : IsUpstreamFailure(history[i].class)})

(* "Failing since" is the first failure behind the last success, however   *)
(* concurrent attempts interleave and whatever client errors lie between.  *)
Failures(s) ==
  {i \in DOMAIN history :
     /\ history[i].seat = s /\ IsUpstreamFailure(history[i].class)
     /\ \A j \in i .. Len(history) : history[j].seat = s => history[j].class # "ok"}
FailingSinceExact ==
  \A s \in Seats :
    series[s].failingSince =
      IF Failures(s) = {} THEN -1
      ELSE history[CHOOSE i \in Failures(s) : \A j \in Failures(s) : i <= j].at

(* A seat's statistics are its history, through every wrap and streak.     *)
StatisticsExact == WindowExact /\ FailingSinceExact
=============================================================================
