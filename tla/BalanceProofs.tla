--------------------------- MODULE BalanceProofs ---------------------------
(***************************************************************************)
(* Proofs about Balance for any seats, ranks, loads and any number of      *)
(* requests: counts are neither lost nor left over by anything but an      *)
(* abort, a choice is justified by what was read, and the statistics of a  *)
(* seat are its history.                                                   *)
(***************************************************************************)
EXTENDS Balance, FiniteSetTheorems, SequenceTheorems, WellFoundedInduction, TLAPS

(* The types, in full.                                                     *)
Pcs == {"new", "walk", "attempt", "upstream", "settle", "done"}
Named == Seats \cup {None}
RequestSet ==
  [ pc : Pcs, at : Nat, seen : [Seats -> Int], seenUp : SUBSET Seats, walkUp : SUBSET Seats,
    rest : Seq(Seats), seat : Named, attempt : 0 .. MaxFailoverAttempts,
    outcome : Outcomes \cup {None}, raced : Nat, polled : BOOLEAN ]
LoadSet == [running : Nat, waiting : Nat, busy : Int]
Minutes == 0 .. MaxTime
Ring == 0 .. WindowMinutes - 1
BucketSet == [minute : Minutes, total : Nat, failed : Nat]
SeriesSet == [buckets : [Ring -> BucketSet], failingSince : Int, lastFailure : Int]
EntrySet == [seat : Seats, at : Minutes, class : Outcomes]

Typed ==
  /\ inflight \in [Seats -> Nat] /\ served \in [Seats -> -1 .. now]
  /\ loads \in [Seats -> LoadSet] /\ up \subseteq Seats /\ now \in Minutes
  /\ req \in [Requests -> RequestSet]
  /\ series \in [Seats -> SeriesSet] /\ history \in Seq(EntrySet)

(* A walk: where it stands, and what it has left, each seat once.          *)
Distinct(o) == \A i, j \in 1 .. Len(o) : o[i] = o[j] => i = j
Walking(q) ==
  /\ q.pc \in {"attempt", "upstream", "settle"} => q.seat \in Seats
  /\ q.pc = "settle" => q.outcome \in Outcomes
  /\ Distinct(q.rest) /\ \A i \in 1 .. Len(q.rest) : q.rest[i] # q.seat
  /\ q.pc \in {"new", "walk"} => q.attempt = 0
  /\ q.pc = "new" => q.at \in 1 .. Len(Base)
  /\ q.pc \in {"walk", "attempt"} /\ q.attempt = 0 => q.at = Len(Base) + 1

(* A count is owed by every attempt that is out, and left over by nothing  *)
(* but the requests that ended.                                            *)
Out(rs, s) == {r \in Requests : rs[r].pc = "upstream" /\ rs[r].seat = s}
Gone(rs) == {r \in Requests : rs[r].pc = "done"}
Fits(U, F, n) == Cardinality(U) <= n /\ n <= Cardinality(U \cup F)
Counted == \A s \in Seats : Fits(Out(req, s), Gone(req), inflight[s])

(* How far the pressures P have moved since they were read: by no more     *)
(* than the changes counted, alone and against each other.                 *)
ReadSeats(q) == {Base[i] : i \in 1 .. q.at - 1}
TrackedBy(q, P) ==
  Choosing(q) /\ ~q.polled =>
    \A s, t \in ReadSeats(q) :
      /\ P[s] - q.seen[s] <= q.raced /\ q.seen[s] - P[s] <= q.raced
      /\ (P[s] - q.seen[s]) - (P[t] - q.seen[t]) <= q.raced
Pressures == [s \in Seats |-> Pressure(s)]

(* What a choice is made for, by what was read: the least pressure of its  *)
(* rank, and the best rank, unless the best is jammed and the choice idle. *)
Preferred(q) ==
  \A t \in q.seenUp \cap q.walkUp :
    /\ q.seat \in q.seenUp /\ Rank(t) = Rank(q.seat) => q.seen[q.seat] <= q.seen[t]
    /\ Rank(t) < Rank(q.seat) /\ q.seat \in q.seenUp =>
        /\ q.seen[q.seat] <= 1 /\ IsOverflow(t) = IsOverflow(q.seat)
        /\ \A u \in q.seenUp : (\A v \in q.seenUp : Rank(u) <= Rank(v)) => q.seen[u] >= 3
Best(q) == q.pc = "attempt" /\ q.attempt = 0 => Preferred(q)

(* The inductive invariant of the counts and of the choice.                *)
RequestsGood == \A x \in Requests : Walking(req[x]) /\ Best(req[x]) /\ TrackedBy(req[x], Pressures)
Good == Typed /\ Counted /\ RequestsGood

(* A bucket holds its minute's attempts, or nothing was ever put in it;    *)
(* and the attempts of the window have a bucket.                           *)
AllOf(h, s, m) == {i \in DOMAIN h : h[i].seat = s /\ h[i].at = m}
FailedOf(h, s, m) == {i \in AllOf(h, s, m) : IsUpstreamFailure(h[i].class)}
BucketFits(h, n, s, i, b) ==
  /\ b.minute <= n
  /\ \/ /\ i = b.minute % WindowMinutes
        /\ b.total = Cardinality(AllOf(h, s, b.minute))
        /\ b.failed = Cardinality(FailedOf(h, s, b.minute))
     \/ /\ b.total = 0 /\ b.failed = 0
        /\ \A k \in DOMAIN h : h[k].seat = s => h[k].at % WindowMinutes # i
Kept(h, n, sr) ==
  \A k \in DOMAIN h :
    /\ h[k].at <= n
    /\ n - h[k].at < WindowMinutes =>
         sr[h[k].seat].buckets[h[k].at % WindowMinutes].minute = h[k].at

(* The first failure behind the last success.                              *)
FailuresOf(h, s) ==
  {i \in DOMAIN h :
     /\ h[i].seat = s /\ IsUpstreamFailure(h[i].class)
     /\ \A j \in i .. Len(h) : h[j].seat = s => h[j].class # "ok"}
SinceIs(h, s, since) ==
  since = IF FailuresOf(h, s) = {} THEN -1
          ELSE h[CHOOSE i \in FailuresOf(h, s) : \A j \in FailuresOf(h, s) : i <= j].at

(* The inductive invariant of the statistics.                              *)
StatsGood ==
  /\ \A s \in Seats, i \in Ring : BucketFits(history, now, s, i, series[s].buckets[i])
  /\ Kept(history, now, series)
  /\ \A s \in Seats : SinceIs(history, s, series[s].failingSince)

-----------------------------------------------------------------------------
(* Every non-empty set of naturals has a least element.                    *)
LEMMA SmallestNat ==
  ASSUME NEW S, S \subseteq Nat, S # {}
  PROVE \E n \in S : \A j \in S : n <= j
<1> DEFINE R == {ss \in Nat \X Nat : ss[1] < ss[2]}
<1>1. IsWellFoundedOn(R, Nat)
  BY NatLessThanWellFounded, Zenon DEF OpToRel
<1> HIDE DEF R
<1>2. PICK x \in S : \A y \in S : ~ (<<y, x>> \in R) BY <1>1, WFMin
<1>3. \A y \in S : ~ (y < x)  BY <1>2 DEF R
<1> QED BY <1>2, <1>3

(* The role's list holds each of its seats at one place.                   *)
LEMMA BaseFacts ==
  /\ Len(Base) \in Nat \ {0} /\ Len(Candidates) \in Nat /\ Len(Candidates) <= Len(Base)
  /\ DOMAIN Base = 1 .. Len(Base)
  /\ \A i \in 1 .. Len(Base) : Base[i] \in Seats
  /\ \A s \in Seats : At(s) \in 1 .. Len(Base) /\ Base[At(s)] = s
  /\ \A i \in 1 .. Len(Base) : At(Base[i]) = i
  /\ \A i \in 1 .. Len(Candidates) : Base[i] = Candidates[i] /\ Candidates[i] \in Seats
<1>1. /\ Candidates \in Seq(STRING) /\ Overflow \in Seq(STRING) /\ Base # <<>> /\ IsInjective(Base)
  BY BalanceAssumption
<1>2. /\ Base \in Seq(STRING) /\ Len(Base) = Len(Candidates) + Len(Overflow)
      /\ Len(Candidates) \in Nat /\ Len(Overflow) \in Nat
  BY <1>1, ConcatProperties, LenProperties DEF Base
<1>3. \A i \in 1 .. Len(Candidates) : Base[i] = Candidates[i]
  BY <1>1, ConcatProperties, LenProperties DEF Base
<1>4. Len(Base) # 0 BY <1>1, <1>2, EmptySeq
<1>5. DOMAIN Base = 1 .. Len(Base) BY <1>2, LenProperties
<1> HIDE DEF Base
<1>6. \A i \in 1 .. Len(Base) : Base[i] \in Seats BY <1>5 DEF Seats, ToSet
<1>7. ASSUME NEW s \in Seats PROVE At(s) \in 1 .. Len(Base) /\ Base[At(s)] = s
  <2>1. \E i \in DOMAIN Base : Base[i] = s BY DEF Seats, ToSet
  <2> QED BY <1>5, <2>1 DEF At
<1>8. \A i \in 1 .. Len(Base) : At(Base[i]) = i BY <1>1, <1>5, <1>6, <1>7 DEF IsInjective
<1>9. \A i \in 1 .. Len(Candidates) : i \in 1 .. Len(Base) BY <1>2
<1> QED BY <1>2, <1>3, <1>4, <1>5, <1>6, <1>7, <1>8, <1>9

LEMMA SeatsFinite == IsFiniteSet(Seats)
<1> DEFINE f == [s \in Seats |-> At(s)]
<1>1. f \in [Seats -> 1 .. Len(Base)] BY BaseFacts
<1>2. \A s, t \in Seats : f[s] = f[t] => s = t BY BaseFacts
<1>3. f \in Injection(Seats, 1 .. Len(Base))
  BY <1>1, <1>2 DEF Injection, IsInjective
<1>4. IsFiniteSet(1 .. Len(Base)) BY BaseFacts, FS_Interval
<1> HIDE DEF f
<1> QED BY <1>3, <1>4, FS_Injection

(* Ranks: a candidate's is an index of the candidates, an overflow seat's  *)
(* is behind them.                                                         *)
LEMMA RankBounds ==
  ASSUME NEW s \in Seats
  PROVE  /\ Rank(s) \in Nat
         /\ IsOverflow(s) => Rank(s) > Len(Candidates)
         /\ ~IsOverflow(s) => Rank(s) <= Len(Candidates)
<1>1. At(s) \in Nat \ {0} /\ Len(Candidates) \in Nat BY BaseFacts
<1>2. CASE IsOverflow(s) BY <1>1, <1>2 DEF Rank, IsOverflow
<1>3. CASE ~IsOverflow(s)
  <2> DEFINE G == Group(s) \cap ToSet(Candidates)
             N == {At(t) : t \in G}
  <2>1. At(s) \in 1 .. Len(Candidates) BY <1>1, <1>3 DEF IsOverflow
  <2>2. Candidates[At(s)] = s BY <2>1, BaseFacts
  <2>3. DOMAIN Candidates = 1 .. Len(Candidates) BY BalanceAssumption, LenProperties
  <2>4. s \in G BY <2>1, <2>2, <2>3 DEF ToSet, Group
  <2>5. \A t \in G : t \in Seats /\ At(t) \in Nat
    BY <2>3, BaseFacts DEF ToSet
  <2> HIDE DEF G
  <2>6. N \subseteq Nat /\ N # {} BY <2>4, <2>5
  <2>7. \E n \in N : \A j \in N : n <= j BY <2>6, SmallestNat
  <2>8. \E t \in G : \A u \in G : At(t) <= At(u) BY <2>7
  <2> DEFINE c == CHOOSE t \in G : \A u \in G : At(t) <= At(u)
  <2>9. c \in G /\ At(c) <= At(s) BY <2>4, <2>8
  <2>10. Rank(s) = At(c) BY <1>3 DEF Rank, G
  <2> HIDE DEF c
  <2> QED BY <1>1, <1>3, <2>1, <2>5, <2>9, <2>10
<1> QED BY <1>2, <1>3

(* The order of a reading is a strict total order.                         *)
LEMMA BeforeIsOrder ==
  ASSUME NEW q, q.seen \in [Seats -> Int], NEW s \in Seats, NEW t \in Seats, NEW u \in Seats
  PROVE  /\ ~Before(q, s, s)
         /\ s # t => Before(q, s, t) \/ Before(q, t, s)
         /\ Before(q, s, t) => ~Before(q, t, s)
         /\ Before(q, s, t) /\ Before(q, t, u) => Before(q, s, u)
         /\ Before(q, s, t) => Rank(s) <= Rank(t)
         /\ Before(q, s, t) /\ Rank(s) = Rank(t) /\ s \in q.seenUp /\ t \in q.seenUp =>
              q.seen[s] <= q.seen[t]
<1>1. Rank(s) \in Nat /\ Rank(t) \in Nat /\ Rank(u) \in Nat BY RankBounds
<1>2. At(s) \in Nat /\ At(t) \in Nat /\ At(u) \in Nat BY BaseFacts
<1>3. s # t => At(s) # At(t) BY BaseFacts
<1>4. q.seen[s] \in Int /\ q.seen[t] \in Int /\ q.seen[u] \in Int OBVIOUS
<1> QED BY <1>1, <1>2, <1>3, <1>4 DEF Before

(* A seat that comes before another has fewer before it.                   *)
LEMMA EarlierGrows ==
  ASSUME NEW q, q.seen \in [Seats -> Int], NEW s \in Seats, NEW t \in Seats
  PROVE  /\ Cardinality(Earlier(q, s)) \in 0 .. Cardinality(Seats) - 1
         /\ Cardinality(Seats) \in Nat
         /\ Before(q, s, t) => Cardinality(Earlier(q, s)) < Cardinality(Earlier(q, t))
<1>1. Earlier(q, s) \subseteq Seats /\ Earlier(q, t) \subseteq Seats BY DEF Earlier
<1>2. /\ Cardinality(Seats) \in Nat /\ IsFiniteSet(Earlier(q, s)) /\ IsFiniteSet(Earlier(q, t))
      /\ Cardinality(Earlier(q, s)) \in Nat /\ Cardinality(Earlier(q, t)) \in Nat
      /\ Cardinality(Earlier(q, s)) <= Cardinality(Seats)
      /\ Cardinality(Seats) = Cardinality(Earlier(q, s)) => Seats = Earlier(q, s)
  BY <1>1, SeatsFinite, FS_Subset, FS_CardinalityType
<1>3. s \notin Earlier(q, s) BY BeforeIsOrder DEF Earlier
<1>4. Cardinality(Earlier(q, s)) # Cardinality(Seats) BY <1>2, <1>3
<1>5. ASSUME Before(q, s, t) PROVE Cardinality(Earlier(q, s)) < Cardinality(Earlier(q, t))
  <2>1. s \in Earlier(q, t) BY <1>5 DEF Earlier
  <2>2. Earlier(q, s) \subseteq Earlier(q, t) BY <1>5, BeforeIsOrder DEF Earlier
  <2>3. /\ Cardinality(Earlier(q, s)) <= Cardinality(Earlier(q, t))
        /\ Cardinality(Earlier(q, t)) = Cardinality(Earlier(q, s)) => Earlier(q, t) = Earlier(q, s)
    BY <1>2, <2>2, FS_Subset
  <2> QED BY <1>2, <1>3, <2>1, <2>3
<1> QED BY <1>2, <1>4, <1>5

(* Order puts every seat at one place, sorted.                             *)
Arranged(q, o) ==
  /\ o \in Seq(Seats)
  /\ \A s \in Seats : \E i \in 1 .. Len(o) : o[i] = s
  /\ \A i, j \in 1 .. Len(o) : i < j => Before(q, o[i], o[j])

LEMMA OrderArranged ==
  ASSUME NEW q, q.seen \in [Seats -> Int]
  PROVE  Arranged(q, Order(q))
<1> DEFINE n == Cardinality(Seats)
           o == Order(q)
           D == 0 .. n - 1
           f == [s \in Seats |-> Cardinality(Earlier(q, s))]
<1>1. n \in Nat BY SeatsFinite, FS_CardinalityType
<1>2. f \in [Seats -> D] BY EarlierGrows
<1>3. ASSUME NEW s \in Seats, NEW t \in Seats, f[s] = f[t] PROVE s = t
  <2>1. Cardinality(Earlier(q, s)) = Cardinality(Earlier(q, t)) BY <1>3
  <2>2. Cardinality(Earlier(q, s)) \in Nat BY <1>1, EarlierGrows
  <2>3. ~Before(q, s, t) /\ ~Before(q, t, s)
    BY <2>1, <2>2, EarlierGrows
  <2> QED BY <2>3, BeforeIsOrder
<1>4. f \in Injection(Seats, D) BY <1>2, <1>3 DEF Injection, IsInjective
<1>5. IsFiniteSet(D) /\ Cardinality(D) = n
  <2> HIDE DEF n
  <2>1. 0 \in Int /\ n - 1 \in Int BY <1>1
  <2>2. IsFiniteSet(D) /\ Cardinality(D) = IF 0 > n - 1 THEN 0 ELSE (n - 1) - 0 + 1
    BY <2>1, FS_Interval, Zenon
  <2> QED BY <1>1, <2>2
<1>6. f \in Surjection(Seats, D)
  <2> HIDE DEF f, D
  <2> QED BY <1>4, <1>5, FS_Injection
<1>7. \A i \in D : \E s \in Seats : f[s] = i BY <1>6 DEF Surjection
<1>8. ASSUME NEW i \in 1 .. n
      PROVE  o[i] \in Seats /\ Cardinality(Earlier(q, o[i])) = i - 1
  <2>1. i - 1 \in D BY <1>1
  <2>2. \E s \in Seats : Cardinality(Earlier(q, s)) = i - 1 BY <1>7, <2>1
  <2>3. o[i] = CHOOSE s \in Seats : Cardinality(Earlier(q, s)) = i - 1 BY DEF Order
  <2> QED BY <2>2, <2>3
<1>9. o = [i \in 1 .. n |-> o[i]] BY DEF Order
<1> HIDE DEF o
<1>10. o \in [1 .. n -> Seats] BY <1>8, <1>9
<1>11. o \in Seq(Seats) /\ Len(o) = n
  <2> HIDE DEF n
  <2>1. \A i \in 1 .. n : o[i] \in Seats BY <1>10
  <2>2. /\ [i \in 1 .. n |-> o[i]] \in Seq(Seats)
        /\ Len([i \in 1 .. n |-> o[i]]) = n
    BY <1>1, <2>1
  <2> QED BY <1>9, <2>2, Zenon
<1>12. ASSUME NEW s \in Seats PROVE \E i \in 1 .. n : o[i] = s
  <2> DEFINE k == Cardinality(Earlier(q, s)) + 1
  <2>1. k \in 1 .. n /\ k - 1 = Cardinality(Earlier(q, s)) BY <1>1, EarlierGrows
  <2>2. o[k] \in Seats /\ Cardinality(Earlier(q, o[k])) = k - 1 BY <1>8, <2>1
  <2>3. f[o[k]] = f[s] BY <2>1, <2>2
  <2>4. o[k] = s BY <1>3, <2>2, <2>3
  <2> QED BY <2>1, <2>4
<1>13. ASSUME NEW i \in 1 .. n, NEW j \in 1 .. n, i < j PROVE Before(q, o[i], o[j])
  <2>1. Cardinality(Earlier(q, o[i])) < Cardinality(Earlier(q, o[j])) BY <1>1, <1>8, <1>13
  <2>2. o[i] \in Seats /\ o[j] \in Seats /\ Cardinality(Earlier(q, o[i])) \in Nat
        /\ Cardinality(Earlier(q, o[j])) \in Nat
    BY <1>1, <1>8, EarlierGrows
  <2>3. o[i] # o[j] BY <2>1, <2>2
  <2>4. ~Before(q, o[j], o[i]) BY <2>1, <2>2, EarlierGrows
  <2> QED BY <2>2, <2>3, <2>4, BeforeIsOrder
<1>14. Arranged(q, o) BY <1>11, <1>12, <1>13 DEF Arranged
<1> QED BY <1>14 DEF o

LEMMA ArrangedDistinct ==
  ASSUME NEW q, q.seen \in [Seats -> Int], NEW o, Arranged(q, o)
  PROVE  Distinct(o)
<1>1. Len(o) \in Nat /\ \A i \in 1 .. Len(o) : o[i] \in Seats
  BY LenProperties, ElementOfSeq DEF Arranged
<1> SUFFICES ASSUME NEW i \in 1 .. Len(o), NEW j \in 1 .. Len(o), o[i] = o[j], i < j PROVE FALSE
  BY <1>1 DEF Distinct
<1>2. Before(q, o[i], o[j]) BY DEF Arranged
<1> QED BY <1>1, <1>2, BeforeIsOrder

(* The override moves the first promotable seat to the front and keeps the *)
(* others in their order.                                                  *)
Promoted(q, o, p, m) ==
  /\ m \in Promotable(q, o) /\ \A k \in Promotable(q, o) : m <= k
  /\ p[1] = o[m]
  /\ \A j \in 2 .. m : p[j] = o[j - 1]
  /\ \A j \in m + 1 .. Len(o) : p[j] = o[j]

LEMMA OverrideMoves ==
  ASSUME NEW q, NEW o \in Seq(Seats)
  PROVE  LET p == Override(q, o) IN
         /\ p \in Seq(Seats) /\ Len(p) = Len(o)
         /\ p = o \/ \E m \in 2 .. Len(o) : Promoted(q, o, p, m)
<1> DEFINE S == Promotable(q, o)
           m == CHOOSE j \in S : \A k \in S : j <= k
           p == Override(q, o)
<1>1. Len(o) \in Nat /\ \A i \in 1 .. Len(o) : o[i] \in Seats
  BY LenProperties, ElementOfSeq
<1>2. CASE S = {}
  <2>1. p = o BY <1>2 DEF Override
  <2> QED BY <2>1
<1>3. CASE S # {}
  <2>1. S \subseteq 2 .. Len(o) BY DEF Promotable
  <2>2. S \subseteq Nat BY <2>1
  <2>3. \E n \in S : \A j \in S : n <= j
    <3> HIDE DEF S
    <3> QED BY <1>3, <2>2, SmallestNat
  <2>4. m \in S /\ \A k \in S : m <= k BY <2>3
  <2>5. m \in 2 .. Len(o) BY <2>1, <2>4
  <2> DEFINE a == <<o[m]>>
             b == SubSeq(o, 1, m - 1)
             c == SubSeq(o, m + 1, Len(o))
  <2>6. p = (a \o b) \o c BY <1>3 DEF Override
  <2> HIDE DEF m, S, p
  <2>7. a \in Seq(Seats) /\ Len(a) = 1 /\ a[1] = o[m] BY <1>1, <2>5
  <2>8. /\ b \in Seq(Seats) /\ Len(b) = m - 1
        /\ \A i \in 1 .. m - 1 : b[i] = o[i]
    <3>1. 1 \in Int /\ m - 1 \in Int /\ 1 <= m - 1 BY <1>1, <2>5
    <3>2. \A i \in 1 .. m - 1 : o[i] \in Seats BY <1>1, <2>5
    <3>3. /\ b \in Seq(Seats) /\ Len(b) = (m - 1) - 1 + 1
          /\ \A i \in 1 .. (m - 1) - 1 + 1 : b[i] = o[1 + i - 1]
      BY <3>1, <3>2, SubSeqProperties
    <3>4. (m - 1) - 1 + 1 = m - 1 /\ \A i \in 1 .. m - 1 : 1 + i - 1 = i BY <3>1
    <3> HIDE DEF b
    <3> QED BY <3>3, <3>4
  <2>9. /\ c \in Seq(Seats) /\ Len(c) = Len(o) - m
        /\ \A i \in 1 .. Len(o) - m : c[i] = o[m + i]
    <3>1. m + 1 \in Int /\ Len(o) \in Int /\ m \in Int /\ m <= Len(o) BY <1>1, <2>5
    <3>2. \A i \in m + 1 .. Len(o) : o[i] \in Seats BY <1>1, <2>5
    <3>3. /\ c \in Seq(Seats) /\ Len(c) = IF m + 1 <= Len(o) THEN Len(o) - (m + 1) + 1 ELSE 0
          /\ \A i \in 1 .. Len(o) - (m + 1) + 1 : c[i] = o[(m + 1) + i - 1]
      BY <3>1, <3>2, SubSeqProperties
    <3>4. Len(o) - (m + 1) + 1 = Len(o) - m /\ \A i \in 1 .. Len(o) - m : (m + 1) + i - 1 = m + i
      BY <3>1
    <3>5. ~(m + 1 <= Len(o)) => Len(o) - m = 0 BY <3>1
    <3> HIDE DEF c
    <3> QED BY <3>3, <3>4, <3>5
  <2> HIDE DEF a, b, c
  <2>10. /\ a \o b \in Seq(Seats) /\ Len(a \o b) = m
         /\ \A i \in 1 .. m : (a \o b)[i] = IF i <= 1 THEN a[i] ELSE b[i - 1]
    <3>1. 1 + (m - 1) = m BY <2>5
    <3>2. /\ a \o b \in Seq(Seats) /\ Len(a \o b) = Len(a) + Len(b)
          /\ \A i \in 1 .. Len(a) + Len(b) :
               (a \o b)[i] = IF i <= Len(a) THEN a[i] ELSE b[i - Len(a)]
      BY <2>7, <2>8, ConcatProperties
    <3>3. Len(a) + Len(b) = m /\ Len(a) = 1 BY <2>7, <2>8, <3>1
    <3> QED BY <3>2, <3>3
  <2> DEFINE d == a \o b
  <2> HIDE DEF d
  <2>11. /\ d \o c \in Seq(Seats) /\ Len(d \o c) = Len(o)
         /\ \A i \in 1 .. Len(o) : (d \o c)[i] = IF i <= m THEN d[i] ELSE c[i - m]
    <3>1. m + (Len(o) - m) = Len(o) BY <1>1, <2>5
    <3> QED BY <2>9, <2>10, <3>1, ConcatProperties DEF d
  <2>12. p = d \o c BY <2>6 DEF d
  <2>13. p[1] = o[m] BY <2>5, <2>7, <2>10, <2>11, <2>12 DEF d
  <2>14. ASSUME NEW j \in 2 .. m PROVE p[j] = o[j - 1]
    <3>1. j \in 1 .. Len(o) /\ j \in 1 .. m /\ j <= m /\ ~(j <= 1) /\ j - 1 \in 1 .. m - 1
      BY <1>1, <2>5
    <3> QED BY <2>8, <2>10, <2>11, <2>12, <3>1 DEF d
  <2>15. ASSUME NEW j \in m + 1 .. Len(o) PROVE p[j] = o[j]
    <3>1. j \in 1 .. Len(o) /\ ~(j <= m) /\ j - m \in 1 .. Len(o) - m /\ m + (j - m) = j
      BY <1>1, <2>5
    <3> QED BY <2>9, <2>11, <2>12, <3>1
  <2>16. Promoted(q, o, p, m) BY <2>4, <2>13, <2>14, <2>15 DEF Promoted, S
  <2>17. p \in Seq(Seats) /\ Len(p) = Len(o) BY <2>11, <2>12
  <2> QED BY <2>5, <2>16, <2>17 DEF p
<1> QED BY <1>2, <1>3

LEMMA OverrideDistinct ==
  ASSUME NEW q, NEW o \in Seq(Seats), Distinct(o)
  PROVE  Distinct(Override(q, o))
<1> DEFINE p == Override(q, o)
<1>1. Len(o) \in Nat BY LenProperties
<1>2. Len(p) = Len(o) BY OverrideMoves
<1>3. p = o \/ \E m \in 2 .. Len(o) : Promoted(q, o, p, m) BY OverrideMoves
<1> HIDE DEF p
<1>4. ASSUME NEW m \in 2 .. Len(o), Promoted(q, o, p, m) PROVE Distinct(p)
  <2> DEFINE src(j) == IF j = 1 THEN m ELSE IF j <= m THEN j - 1 ELSE j
  <2>1. ASSUME NEW j \in 1 .. Len(o) PROVE src(j) \in 1 .. Len(o) /\ p[j] = o[src(j)]
    <3>1. CASE j = 1 BY <1>1, <1>4, <3>1 DEF Promoted
    <3>2. CASE j # 1 /\ j <= m
      <4>1. j \in 2 .. m /\ src(j) = j - 1 /\ j - 1 \in 1 .. Len(o) BY <1>1, <3>2
      <4> QED BY <1>4, <4>1 DEF Promoted
    <3>3. CASE ~(j <= m)
      <4>1. j \in m + 1 .. Len(o) /\ src(j) = j BY <1>1, <3>3
      <4> QED BY <1>4, <4>1 DEF Promoted
    <3> QED BY <3>1, <3>2, <3>3
  <2>2. \A i, j \in 1 .. Len(o) : src(i) = src(j) => i = j BY <1>1
  <2> HIDE DEF src
  <2>3. ASSUME NEW i \in 1 .. Len(o), NEW j \in 1 .. Len(o), p[i] = p[j] PROVE i = j
    <3>1. /\ src(i) \in 1 .. Len(o) /\ src(j) \in 1 .. Len(o)
          /\ p[i] = o[src(i)] /\ p[j] = o[src(j)]
      BY <2>1
    <3>2. src(i) = src(j) BY <2>3, <3>1 DEF Distinct
    <3> QED BY <2>2, <3>2
  <2> QED BY <1>2, <2>3 DEF Distinct
<1>5. Distinct(p) BY <1>3, <1>4
<1> QED BY <1>5 DEF p

Bind(q, s, rest) == [q EXCEPT !.seat = s, !.rest = rest]

Found(q, o, w, i) ==
  LET rest == SubSeq(o, i + 1, Len(o)) IN
  /\ o[i] \in up /\ \A j \in 1 .. i - 1 : o[j] \notin up
  /\ w = Bind(q, o[i], rest)
  /\ rest \in Seq(Seats) /\ Distinct(rest) /\ \A k \in 1 .. Len(rest) : rest[k] # o[i]

(* The walk takes the first seat of an order that is routable now; what is *)
(* left is distinct from it.                                               *)
LEMMA WalkFinds ==
  ASSUME NEW q \in RequestSet, NEW o \in Seq(Seats), Distinct(o), NEW none
  PROVE  \/ Walk(q, o, none) = none
         \/ \E i \in 1 .. Len(o) : Found(q, o, Walk(q, o, none), i)
<1> DEFINE S == {i \in DOMAIN o : o[i] \in up}
           m == CHOOSE j \in S : \A k \in S : j <= k
           c == SubSeq(o, m + 1, Len(o))
<1>1. Len(o) \in Nat /\ DOMAIN o = 1 .. Len(o) /\ \A i \in 1 .. Len(o) : o[i] \in Seats
  BY LenProperties, ElementOfSeq
<1>2. CASE S = {} BY <1>2 DEF Walk
<1>3. CASE S # {}
  <2>1. S \subseteq Nat BY <1>1
  <2>2. \E n \in S : \A j \in S : n <= j
    <3> HIDE DEF S
    <3> QED BY <1>3, <2>1, SmallestNat
  <2>3. m \in S /\ \A k \in S : m <= k BY <2>2
  <2>4. Walk(q, o, none) = Bind(q, o[m], c) BY <1>3 DEF Walk, Bind
  <2>5. \A i \in 1 .. Len(o) : o[i] \in up => i \in S BY <1>1
  <2>6. m \in 1 .. Len(o) /\ o[m] \in up BY <1>1, <2>3
  <2> HIDE DEF S, m
  <2>7. \A j \in 1 .. m - 1 : o[j] \notin up
    <3> SUFFICES ASSUME NEW j \in 1 .. m - 1, o[j] \in up PROVE FALSE OBVIOUS
    <3>1. j \in 1 .. Len(o) /\ ~(m <= j) BY <1>1, <2>6
    <3> QED BY <2>3, <2>5, <3>1
  <2>8. /\ c \in Seq(Seats) /\ Len(c) = Len(o) - m
        /\ \A i \in 1 .. Len(o) - m : c[i] = o[m + i]
    <3>1. m + 1 \in Int /\ Len(o) \in Int /\ m \in Int /\ m <= Len(o) BY <1>1, <2>6
    <3>2. \A i \in m + 1 .. Len(o) : o[i] \in Seats BY <1>1, <2>6
    <3>3. /\ c \in Seq(Seats) /\ Len(c) = IF m + 1 <= Len(o) THEN Len(o) - (m + 1) + 1 ELSE 0
          /\ \A i \in 1 .. Len(o) - (m + 1) + 1 : c[i] = o[(m + 1) + i - 1]
      BY <3>1, <3>2, SubSeqProperties
    <3>4. Len(o) - (m + 1) + 1 = Len(o) - m /\ \A i \in 1 .. Len(o) - m : (m + 1) + i - 1 = m + i
      BY <3>1
    <3>5. ~(m + 1 <= Len(o)) => Len(o) - m = 0 BY <3>1
    <3> HIDE DEF c
    <3> QED BY <3>3, <3>4, <3>5
  <2> HIDE DEF c
  <2>9. ASSUME NEW k \in 1 .. Len(c) PROVE c[k] = o[m + k] /\ m + k \in 1 .. Len(o) /\ m + k # m
    BY <1>1, <2>6, <2>8
  <2>10. Distinct(c)
    <3> SUFFICES ASSUME NEW i \in 1 .. Len(c), NEW j \in 1 .. Len(c), c[i] = c[j] PROVE i = j
      BY DEF Distinct
    <3>1. m + i = m + j BY <2>9 DEF Distinct
    <3> QED BY <2>6, <3>1
  <2>11. \A k \in 1 .. Len(c) : c[k] # o[m] BY <2>6, <2>9 DEF Distinct
  <2> QED BY <2>4, <2>6, <2>7, <2>8, <2>10, <2>11 DEF c, Found
<1> QED BY <1>2, <1>3

(* The seat in front of an order is preferred.                             *)
LEMMA FrontPreferred ==
  ASSUME NEW q \in RequestSet, NEW o, Arranged(q, o), NEW k \in 1 .. Len(o), q.seat = o[k],
         \A j \in 1 .. k - 1 : o[j] \notin q.walkUp
  PROVE  Preferred(q)
<1>1. /\ Len(o) \in Nat /\ o \in Seq(Seats) /\ \A i \in 1 .. Len(o) : o[i] \in Seats
  BY LenProperties, ElementOfSeq DEF Arranged
<1>2. q.seen \in [Seats -> Int] /\ q.seenUp \subseteq Seats BY DEF RequestSet
<1> SUFFICES ASSUME NEW t \in q.seenUp \cap q.walkUp
             PROVE  /\ q.seat \in q.seenUp /\ Rank(t) = Rank(q.seat) => q.seen[q.seat] <= q.seen[t]
                    /\ Rank(q.seat) <= Rank(t)
  <2>1. \A t \in Seats : Rank(t) \in Nat BY RankBounds
  <2>2. q.seat \in Seats BY <1>1
  <2> QED BY <1>2, <2>1, <2>2 DEF Preferred
<1>3. PICK j \in 1 .. Len(o) : o[j] = t BY <1>2 DEF Arranged
<1>4. ~(j \in 1 .. k - 1) BY <1>3
<1>5. k = j \/ k < j BY <1>1, <1>4
<1>6. q.seat \in Seats /\ t \in Seats /\ Rank(t) \in Nat /\ q.seen[t] \in Int
  BY <1>1, <1>2, RankBounds
<1>7. CASE k = j BY <1>3, <1>6, <1>7
<1>8. CASE k < j
  <2>1. Before(q, q.seat, t) BY <1>3, <1>8 DEF Arranged
  <2> QED BY <1>2, <1>6, <2>1, BeforeIsOrder
<1> QED BY <1>5, <1>7, <1>8

(* So is the first promotable seat.                                        *)
LEMMA PromotedPreferred ==
  ASSUME NEW q \in RequestSet, NEW o, Arranged(q, o), NEW m \in Promotable(q, o),
         \A k \in Promotable(q, o) : m <= k, q.seat = o[m]
  PROVE  Preferred(q)
<1>1. /\ Len(o) \in Nat /\ o \in Seq(Seats) /\ \A i \in 1 .. Len(o) : o[i] \in Seats
  BY LenProperties, ElementOfSeq DEF Arranged
<1>2. q.seen \in [Seats -> Int] /\ q.seenUp \subseteq Seats BY DEF RequestSet
<1> DEFINE h == o[1]
           s == q.seat
<1>3. /\ m \in 2 .. Len(o) /\ h \in q.seenUp /\ q.seen[h] >= 3 /\ IsOverflow(s) = IsOverflow(h)
      /\ Rank(s) > Rank(h) /\ s \in q.seenUp /\ q.seen[s] <= 1
  BY DEF Promotable
<1>4. 1 \in 1 .. Len(o) /\ m \in 1 .. Len(o) /\ Len(Candidates) \in Nat BY <1>1, <1>3, BaseFacts
<1>5. h \in Seats /\ s \in Seats BY <1>1, <1>4
<1>6. IsOverflow(s) \in BOOLEAN /\ IsOverflow(h) \in BOOLEAN BY DEF IsOverflow
<1>7. ASSUME NEW t \in q.seenUp
      PROVE  /\ t \in Seats /\ Rank(t) \in Nat /\ q.seen[t] \in Int
             /\ Rank(h) <= Rank(t) /\ (Rank(t) = Rank(h) => q.seen[h] <= q.seen[t])
  <2>1. t \in Seats /\ Rank(t) \in Nat /\ q.seen[t] \in Int BY <1>2, RankBounds
  <2>2. PICK j \in 1 .. Len(o) : o[j] = t BY <2>1 DEF Arranged
  <2>3. CASE j = 1 BY <2>1, <2>2, <2>3
  <2>4. CASE j # 1
    <3>1. 1 < j BY <1>1, <2>4
    <3>2. Before(q, h, t) BY <1>4, <2>2, <3>1 DEF Arranged
    <3> QED BY <1>2, <1>3, <1>5, <2>1, <3>2, BeforeIsOrder
  <2> QED BY <2>3, <2>4
<1>8. ASSUME NEW t \in q.seenUp, Rank(t) = Rank(s) PROVE q.seen[s] <= q.seen[t]
  <2>1. t \in Seats /\ q.seen[t] \in Int /\ Rank(t) \in Nat BY <1>7
  <2>2. PICK j \in 1 .. Len(o) : o[j] = t BY <2>1 DEF Arranged
  <2>3. CASE j = m BY <2>1, <2>2, <2>3
  <2>4. CASE m < j
    <3>1. Before(q, s, t) BY <1>4, <2>2, <2>4 DEF Arranged
    <3> QED BY <1>2, <1>3, <1>5, <1>8, <2>1, <3>1, BeforeIsOrder
  <2>5. CASE j < m
    <3>1. Before(q, t, s) BY <1>4, <2>2, <2>5 DEF Arranged
    <3>2. q.seen[t] <= q.seen[s] BY <1>2, <1>3, <1>5, <1>8, <2>1, <3>1, BeforeIsOrder
    <3>3. q.seen[s] \in Int BY <1>2, <1>5
    <3>4. q.seen[t] <= 1 BY <1>3, <2>1, <3>2, <3>3
    <3>5. IsOverflow(t) = IsOverflow(h)
      <4>1. /\ IsOverflow(t) \in BOOLEAN
            /\ IsOverflow(t) => Rank(t) > Len(Candidates)
            /\ ~IsOverflow(t) => Rank(t) <= Len(Candidates)
        BY <2>1, RankBounds DEF IsOverflow
      <4>2. /\ IsOverflow(s) => Rank(s) > Len(Candidates)
            /\ ~IsOverflow(s) => Rank(s) <= Len(Candidates)
        BY <1>5, RankBounds
      <4> QED BY <1>3, <1>4, <1>6, <1>8, <2>1, <4>1, <4>2
    <3>6. Rank(t) > Rank(h) BY <1>3, <1>8
    <3>7. j # 1 BY <2>1, <2>2, <3>6
    <3>8. j \in 2 .. Len(o) BY <1>1, <3>7
    <3>9. j \in Promotable(q, o) BY <1>3, <2>2, <3>4, <3>5, <3>6, <3>8 DEF Promotable
    <3>10. ~(m <= j) BY <1>3, <1>4, <2>5
    <3> QED BY <3>9, <3>10
  <2>6. j = m \/ m < j \/ j < m BY <1>4
  <2> QED BY <2>3, <2>4, <2>5, <2>6
<1>9. ASSUME NEW t \in q.seenUp, Rank(t) < Rank(s)
      PROVE  IsOverflow(t) = IsOverflow(s)
  <2>1. t \in Seats /\ Rank(t) \in Nat /\ Rank(h) <= Rank(t) BY <1>7
  <2>2. /\ IsOverflow(t) \in BOOLEAN
        /\ IsOverflow(t) => Rank(t) > Len(Candidates)
        /\ ~IsOverflow(t) => Rank(t) <= Len(Candidates)
    BY <2>1, RankBounds DEF IsOverflow
  <2>3. /\ Rank(s) \in Nat /\ Rank(h) \in Nat
        /\ IsOverflow(h) => Rank(h) > Len(Candidates)
        /\ ~IsOverflow(s) => Rank(s) <= Len(Candidates)
    BY <1>5, RankBounds
  <2> QED BY <1>3, <1>4, <1>6, <1>9, <2>1, <2>2, <2>3
<1>10. ASSUME NEW u \in q.seenUp, \A v \in q.seenUp : Rank(u) <= Rank(v) PROVE q.seen[u] >= 3
  <2>1. Rank(u) <= Rank(h) BY <1>3, <1>10
  <2>2. Rank(h) \in Nat /\ q.seen[h] \in Int BY <1>2, <1>5, RankBounds
  <2>3. Rank(u) = Rank(h) BY <1>7, <2>1, <2>2
  <2> QED BY <1>3, <1>7, <2>2, <2>3
<1> HIDE DEF h, s
<1>11. q.seat = s BY DEF s
<1> QED BY <1>3, <1>8, <1>9, <1>10, <1>11 DEF Preferred

(* The seat that the walk takes of a read order is preferred.              *)
LEMMA ChoicePreferred ==
  ASSUME NEW q \in RequestSet, NEW o, Arranged(q, o), NEW p, p = Override(q, o),
         NEW i \in 1 .. Len(o), q.seat = p[i], \A j \in 1 .. i - 1 : p[j] \notin q.walkUp
  PROVE  Preferred(q)
<1>1. o \in Seq(Seats) /\ Len(o) \in Nat BY LenProperties DEF Arranged
<1>2. p = o \/ \E m \in 2 .. Len(o) : Promoted(q, o, p, m) BY <1>1, OverrideMoves
<1>3. CASE p = o BY <1>3, FrontPreferred
<1>4. ASSUME NEW m \in 2 .. Len(o), Promoted(q, o, p, m) PROVE Preferred(q)
  <2>1. CASE i = 1
    <3>1. q.seat = o[m] /\ m \in Promotable(q, o) /\ \A k \in Promotable(q, o) : m <= k
      BY <1>4, <2>1 DEF Promoted
    <3> QED BY <3>1, PromotedPreferred
  <2>2. CASE i # 1 /\ i <= m
    <3>1. i \in 2 .. m /\ i - 1 \in 1 .. Len(o) BY <1>1, <2>2
    <3>2. q.seat = o[i - 1] BY <1>4, <3>1 DEF Promoted
    <3>3. ASSUME NEW k \in 1 .. (i - 1) - 1 PROVE o[k] \notin q.walkUp
      <4>1. k + 1 \in 2 .. m /\ k + 1 \in 1 .. i - 1 /\ (k + 1) - 1 = k BY <3>1
      <4>2. p[k + 1] = o[k] BY <1>4, <4>1 DEF Promoted
      <4> QED BY <4>1, <4>2
    <3> QED BY <3>1, <3>2, <3>3, FrontPreferred
  <2>3. CASE ~(i <= m)
    <3>1. i \in m + 1 .. Len(o) BY <1>1, <2>3
    <3>2. q.seat = o[i] BY <1>4, <3>1 DEF Promoted
    <3>3. ASSUME NEW k \in 1 .. i - 1 PROVE o[k] \notin q.walkUp
      <4>1. CASE k < m
        <5>1. k + 1 \in 2 .. m /\ k + 1 \in 1 .. i - 1 /\ (k + 1) - 1 = k BY <3>1, <4>1
        <5>2. p[k + 1] = o[k] BY <1>4, <5>1 DEF Promoted
        <5> QED BY <5>1, <5>2
      <4>2. CASE k = m
        <5>1. p[1] = o[k] /\ 1 \in 1 .. i - 1 BY <1>4, <3>1, <4>2 DEF Promoted
        <5> QED BY <5>1
      <4>3. CASE k > m
        <5>1. k \in m + 1 .. Len(o) BY <1>1, <4>3
        <5>2. p[k] = o[k] BY <1>4, <5>1 DEF Promoted
        <5> QED BY <5>2
      <4>4. k < m \/ k = m \/ k > m BY <3>1
      <4> QED BY <4>1, <4>2, <4>3, <4>4
    <3> QED BY <3>2, <3>3, FrontPreferred
  <2> QED BY <2>1, <2>2, <2>3
<1> QED BY <1>2, <1>3, <1>4

-----------------------------------------------------------------------------
(* How a count follows the requests it is for.                             *)
LEMMA FitsAdd ==
  ASSUME NEW U, U \subseteq Requests, NEW F, F \subseteq Requests, NEW n \in Nat, Fits(U, F, n),
         NEW r \in Requests, r \notin U, r \notin F
  PROVE  Fits(U \cup {r}, F, n + 1)
<1> DEFINE W == U \cup F
<1>1. W \subseteq Requests /\ r \notin W /\ (U \cup {r}) \cup F = W \cup {r} OBVIOUS
<1>2. IsFiniteSet(U) /\ IsFiniteSet(W) BY <1>1, BalanceAssumption, FS_Subset
<1>3. Cardinality(U) \in Nat /\ Cardinality(W) \in Nat BY <1>2, FS_CardinalityType
<1>4. Cardinality(U \cup {r}) = Cardinality(U) + 1 /\ Cardinality(W \cup {r}) = Cardinality(W) + 1
  BY <1>1, <1>2, FS_AddElement
<1>5. Cardinality(U) <= n /\ n <= Cardinality(W) BY DEF Fits
<1> HIDE DEF W
<1>6. Cardinality(U \cup {r}) <= n + 1 /\ n + 1 <= Cardinality(W \cup {r}) BY <1>3, <1>4, <1>5
<1> QED BY <1>1, <1>6 DEF Fits

LEMMA FitsTake ==
  ASSUME NEW U, U \subseteq Requests, NEW F, F \subseteq Requests, NEW n \in Nat, Fits(U, F, n),
         NEW r \in U, r \notin F
  PROVE  n > 0 /\ Fits(U \ {r}, F, n - 1)
<1> DEFINE W == U \cup F
<1>1. W \subseteq Requests /\ r \in W /\ (U \ {r}) \cup F = W \ {r} OBVIOUS
<1>2. IsFiniteSet(U) /\ IsFiniteSet(W) BY <1>1, BalanceAssumption, FS_Subset
<1>3. Cardinality(U) \in Nat /\ Cardinality(W) \in Nat BY <1>2, FS_CardinalityType
<1>4. Cardinality(U \ {r}) = Cardinality(U) - 1 /\ Cardinality(W \ {r}) = Cardinality(W) - 1
  BY <1>1, <1>2, FS_RemoveElement
<1>5. Cardinality(U) <= n /\ n <= Cardinality(W) BY DEF Fits
<1>6. Cardinality(U) # 0 BY <1>2, FS_EmptySet
<1> HIDE DEF W
<1>7. n > 0 /\ Cardinality(U \ {r}) <= n - 1 /\ n - 1 <= Cardinality(W \ {r})
  BY <1>3, <1>4, <1>5, <1>6
<1> QED BY <1>1, <1>7 DEF Fits

LEMMA FitsEnd ==
  ASSUME NEW U, U \subseteq Requests, NEW F, F \subseteq Requests, NEW n \in Nat, Fits(U, F, n),
         NEW r \in Requests
  PROVE  Fits(U \ {r}, F \cup {r}, n)
<1> DEFINE W == U \cup F
           X == (U \ {r}) \cup (F \cup {r})
<1>1. X \subseteq Requests /\ W \subseteq X OBVIOUS
<1>2. IsFiniteSet(U) /\ IsFiniteSet(X) BY <1>1, BalanceAssumption, FS_Subset
<1>3. Cardinality(W) <= Cardinality(X) /\ Cardinality(U \ {r}) <= Cardinality(U)
      /\ IsFiniteSet(W) /\ IsFiniteSet(U \ {r})
  BY <1>1, <1>2, FS_Subset
<1>4. /\ Cardinality(U) \in Nat /\ Cardinality(W) \in Nat /\ Cardinality(X) \in Nat
      /\ Cardinality(U \ {r}) \in Nat
  BY <1>2, <1>3, FS_CardinalityType
<1>5. Cardinality(U) <= n /\ n <= Cardinality(W) BY DEF Fits
<1> HIDE DEF W, X
<1>6. Cardinality(U \ {r}) <= n /\ n <= Cardinality(X) BY <1>3, <1>4, <1>5
<1> QED BY <1>6 DEF Fits, X

(* What a handler's step leaves of the others: all, but that a change of a *)
(* pressure is noticed.                                                    *)
Like(q, w, moved) ==
  /\ w \in RequestSet /\ w.pc = q.pc /\ w.at = q.at /\ w.seen = q.seen /\ w.seenUp = q.seenUp
  /\ w.walkUp = q.walkUp /\ w.rest = q.rest /\ w.seat = q.seat /\ w.attempt = q.attempt
  /\ w.outcome = q.outcome /\ w.polled = q.polled
  /\ w.raced = IF moved /\ Choosing(q) THEN q.raced + 1 ELSE q.raced
Moved(rs, r, w, moved, rs2) ==
  /\ rs2 \in [Requests -> RequestSet] /\ rs2[r] = w
  /\ \A x \in Requests : x # r => Like(rs[x], rs2[x], moved)

Beside(rs, r, w, rs2) ==
  /\ rs2[r] = w
  /\ \A x \in Requests : x # r => rs2[x].pc = rs[x].pc /\ rs2[x].seat = rs[x].seat

LEMMA RacedIs ==
  ASSUME NEW rs \in [Requests -> RequestSet], NEW r, NEW x \in Requests
  PROVE  Raced(rs, r)[x] \in RequestSet /\ (x # r => Like(rs[x], Raced(rs, r)[x], TRUE))
         /\ (x = r => Raced(rs, r)[x] = rs[x])
<1> DEFINE q == rs[x]
           w == [q EXCEPT !.raced = @ + 1]
<1>1. q \in RequestSet OBVIOUS
<1>2. Raced(rs, r)[x] = IF x # r /\ Choosing(q) THEN w ELSE q BY DEF Raced
<1> HIDE DEF q
<1>3. q.raced + 1 \in Nat BY <1>1 DEF RequestSet
<1>4. w \in RequestSet BY <1>1, <1>3 DEF RequestSet
<1>5. Choosing(q) => Like(q, w, TRUE) BY <1>1, <1>4 DEF Like, RequestSet
<1>6. ~Choosing(q) => Like(q, q, TRUE) BY <1>1 DEF Like
<1> HIDE DEF w
<1>7. Choosing(q) \in BOOLEAN BY DEF Choosing
<1>8. CASE x # r /\ Choosing(q) BY <1>2, <1>4, <1>5, <1>8 DEF q
<1>9. CASE ~(x # r /\ Choosing(q)) BY <1>1, <1>2, <1>6, <1>9 DEF q
<1> QED BY <1>8, <1>9

LEMMA MovedRacing ==
  ASSUME NEW rs \in [Requests -> RequestSet], NEW r \in Requests, NEW w \in RequestSet,
         NEW rs2, rs2 = [Raced(rs, r) EXCEPT ![r] = w]
  PROVE  Moved(rs, r, w, TRUE, rs2) /\ Beside(rs, r, w, rs2)
<1>1. DOMAIN Raced(rs, r) = Requests BY DEF Raced
<1>2. Raced(rs, r) \in [Requests -> RequestSet] BY RacedIs DEF Raced
<1>3. rs2 \in [Requests -> RequestSet] /\ rs2[r] = w BY <1>1, <1>2
<1>4. \A x \in Requests : x # r => rs2[x] = Raced(rs, r)[x] BY <1>1, <1>2
<1>5. Moved(rs, r, w, TRUE, rs2) BY <1>3, <1>4, RacedIs DEF Moved
<1>6. \A x \in Requests : x # r => rs2[x].pc = rs[x].pc /\ rs2[x].seat = rs[x].seat
  BY <1>4, RacedIs DEF Like
<1> QED BY <1>3, <1>5, <1>6 DEF Beside

LEMMA MovedAlone ==
  ASSUME NEW rs \in [Requests -> RequestSet], NEW r \in Requests, NEW w \in RequestSet,
         NEW rs2, rs2 = [rs EXCEPT ![r] = w]
  PROVE  Moved(rs, r, w, FALSE, rs2) /\ Beside(rs, r, w, rs2)
<1>1. rs2 \in [Requests -> RequestSet] /\ rs2[r] = w OBVIOUS
<1>2. \A x \in Requests : x # r => rs2[x] = rs[x] OBVIOUS
<1>3. \A x \in Requests : Like(rs[x], rs[x], FALSE) BY DEF Like
<1> QED BY <1>1, <1>2, <1>3 DEF Moved, Beside

(* A request that another's step leaves alone stays good.                  *)
LEMMA LikeKeeps ==
  ASSUME NEW q \in RequestSet, NEW w, NEW moved \in BOOLEAN, Like(q, w, moved), Walking(q), Best(q)
  PROVE  Walking(w) /\ Best(w)
<1>1. Walking(w) BY DEF Like, Walking
<1>2. Best(w) BY DEF Like, Best, Preferred
<1> QED BY <1>1, <1>2

Nudged(P, R) ==
  /\ R \in [Seats -> Int]
  /\ \A s, t \in Seats : /\ R[s] - P[s] <= 1 /\ P[s] - R[s] <= 1
                         /\ (R[s] - P[s]) - (R[t] - P[t]) <= 1

LEMMA LikeTracked ==
  ASSUME NEW q \in RequestSet, NEW w, NEW moved \in BOOLEAN, Like(q, w, moved), Walking(q),
         NEW P \in [Seats -> Int], TrackedBy(q, P), NEW R,
         moved => Nudged(P, R), ~moved => R = P
  PROVE  TrackedBy(w, R)
<1>1. w.polled = q.polled /\ Choosing(w) = Choosing(q) /\ ReadSeats(w) = ReadSeats(q)
  BY DEF Like, Choosing, ReadSeats
<1> SUFFICES ASSUME Choosing(q), ~q.polled, NEW s \in ReadSeats(q), NEW t \in ReadSeats(q)
             PROVE  /\ R[s] - w.seen[s] <= w.raced /\ w.seen[s] - R[s] <= w.raced
                    /\ (R[s] - w.seen[s]) - (R[t] - w.seen[t]) <= w.raced
  BY <1>1 DEF TrackedBy
<1>2. q.at \in 1 .. Len(Base) + 1 BY BaseFacts DEF Choosing, Walking, RequestSet
<1>3. s \in Seats /\ t \in Seats BY <1>2, BaseFacts DEF ReadSeats
<1>4. /\ P[s] - q.seen[s] <= q.raced /\ q.seen[s] - P[s] <= q.raced
      /\ (P[s] - q.seen[s]) - (P[t] - q.seen[t]) <= q.raced
  BY DEF TrackedBy
<1>5. q.seen[s] \in Int /\ q.seen[t] \in Int /\ q.raced \in Nat BY <1>3 DEF RequestSet
<1>6. P[s] \in Int /\ P[t] \in Int BY <1>3
<1>7. w.seen = q.seen /\ w.raced = IF moved THEN q.raced + 1 ELSE q.raced BY DEF Like
<1>8. CASE moved
  <2>1. /\ R[s] \in Int /\ R[t] \in Int /\ R[s] - P[s] <= 1 /\ P[s] - R[s] <= 1
        /\ (R[s] - P[s]) - (R[t] - P[t]) <= 1
    BY <1>3, <1>8 DEF Nudged
  <2>2. w.raced = q.raced + 1 BY <1>7, <1>8
  <2> QED BY <1>4, <1>5, <1>6, <1>7, <2>1, <2>2
<1>9. CASE ~moved BY <1>4, <1>7, <1>9
<1> QED BY <1>8, <1>9

-----------------------------------------------------------------------------
(* The requests that the handler's operators build.                        *)
LEMMA NewIs ==
  /\ NewRequest \in RequestSet
  /\ NewRequest.pc = "new" /\ NewRequest.at = 1 /\ NewRequest.rest = <<>> /\ NewRequest.seat = None
  /\ NewRequest.attempt = 0 /\ NewRequest.raced = 0 /\ NewRequest.polled = FALSE
<1>1. [s \in Seats |-> 0] \in [Seats -> Int] /\ <<>> \in Seq(Seats) /\ 0 \in 0 .. MaxFailoverAttempts
  BY BalanceAssumption
<1> QED BY <1>1 DEF NewRequest, RequestSet, Pcs, Named

LEMMA ForgetIs ==
  ASSUME NEW q \in RequestSet, NEW pc \in Pcs
  PROVE  LET w == Forget(q, pc) IN
         /\ w \in RequestSet /\ w.pc = pc /\ w.seat = q.seat /\ w.rest = q.rest
         /\ w.attempt = q.attempt
<1>1. q.seat \in Named /\ q.rest \in Seq(Seats) /\ q.attempt \in 0 .. MaxFailoverAttempts
  BY DEF RequestSet
<1>2. Forget(q, pc) \in RequestSet BY <1>1, NewIs DEF Forget, RequestSet
<1> QED BY <1>2, NewIs DEF Forget, RequestSet

LEMMA EndedIs ==
  ASSUME NEW q
  PROVE  LET w == Ended(q) IN
         /\ w \in RequestSet /\ w.pc = "done" /\ w.seat = None /\ w.rest = <<>>
         /\ Walking(w) /\ Best(w) /\ \A P : TrackedBy(w, P)
<1> DEFINE w == Ended(q)
<1>1. w \in RequestSet BY NewIs DEF Ended, RequestSet, Pcs
<1>2. w.pc = "done" /\ w.seat = None /\ w.rest = <<>> BY NewIs DEF Ended, RequestSet
<1> HIDE DEF w
<1>3. Walking(w) BY <1>2 DEF Walking, Distinct
<1>4. Best(w) /\ \A P : TrackedBy(w, P) BY <1>2 DEF Best, TrackedBy, Choosing
<1> QED BY <1>1, <1>2, <1>3, <1>4 DEF w

(* Pressures are numbers.                                                  *)
LEMMA BucketIsNat ==
  ASSUME NEW pct
  PROVE  GPUBucket(pct) \in Nat
<1> DEFINE B == {i \in DOMAIN Thresholds : pct >= Thresholds[i]}
<1>1. DOMAIN Thresholds = 1 .. Len(Thresholds) /\ Len(Thresholds) \in Nat
  BY BalanceAssumption, LenProperties
<1>2. IsFiniteSet(DOMAIN Thresholds) BY <1>1, FS_Interval
<1>3. IsFiniteSet(B) BY <1>2, FS_Subset
<1>4. Cardinality(B) \in Nat BY <1>3, FS_CardinalityType
<1> QED BY <1>4 DEF GPUBucket

LEMMA PressuresTyped ==
  ASSUME Typed
  PROVE  Pressures \in [Seats -> Int]
<1> SUFFICES ASSUME NEW s \in Seats PROVE Pressure(s) \in Int BY DEF Pressures
<1>1. loads[s] \in LoadSet /\ inflight[s] \in Nat BY DEF Typed
<1>2. loads[s].running \in Nat /\ loads[s].waiting \in Nat BY <1>1 DEF LoadSet
<1>3. GPUBucket(loads[s].busy) \in Nat BY BucketIsNat
<1> QED BY <1>1, <1>2, <1>3 DEF Pressure

(* One handler's step keeps every request good.                            *)
LEMMA StepKeeps ==
  ASSUME Typed, RequestsGood, NEW r \in Requests, NEW w \in RequestSet, NEW moved \in BOOLEAN,
         Moved(req, r, w, moved, req'), Walking(w), Best(w), TrackedBy(w, Pressures'),
         moved => Nudged(Pressures, Pressures'), ~moved => Pressures' = Pressures
  PROVE  req' \in [Requests -> RequestSet] /\ RequestsGood'
<1>1. req' \in [Requests -> RequestSet] BY DEF Moved
<1>2. ASSUME NEW x \in Requests
      PROVE  Walking(req'[x]) /\ Best(req'[x]) /\ TrackedBy(req'[x], Pressures')
  <2>1. CASE x = r BY <2>1 DEF Moved
  <2>2. CASE x # r
    <3>1. Like(req[x], req'[x], moved) /\ req[x] \in RequestSet BY <2>2 DEF Moved, Typed
    <3>2. Walking(req[x]) /\ Best(req[x]) /\ TrackedBy(req[x], Pressures) BY DEF RequestsGood
    <3>3. Pressures \in [Seats -> Int] BY PressuresTyped
    <3> QED BY <3>1, <3>2, <3>3, LikeKeeps, LikeTracked
  <2> QED BY <2>1, <2>2
<1> QED BY <1>1, <1>2 DEF RequestsGood

(* And moves at most its own place among the counted.                      *)
LEMMA StepCounts ==
  ASSUME NEW rs, NEW r \in Requests, NEW w, NEW rs2, Beside(rs, r, w, rs2)
  PROVE  /\ \A s : Out(rs2, s) = IF w.pc = "upstream" /\ w.seat = s THEN Out(rs, s) \cup {r}
                                 ELSE Out(rs, s) \ {r}
         /\ Gone(rs2) = IF w.pc = "done" THEN Gone(rs) \cup {r} ELSE Gone(rs) \ {r}
BY DEF Beside, Out, Gone

LEMMA CountedParts ==
  ASSUME NEW s
  PROVE  Out(req, s) \subseteq Requests /\ Gone(req) \subseteq Requests
BY DEF Out, Gone

(* A step that leaves the counts alone keeps them right when nobody starts *)
(* or settles; the same when the request ends.                             *)
LEMMA EndCounts ==
  ASSUME Typed, Counted, NEW r \in Requests, NEW w, Beside(req, r, w, req'),
         UNCHANGED inflight, w.pc = "done"
  PROVE  Counted'
<1> SUFFICES ASSUME NEW s \in Seats PROVE Fits(Out(req', s), Gone(req'), inflight'[s])
  BY DEF Counted
<1>1. Out(req', s) = Out(req, s) \ {r} /\ Gone(req') = Gone(req) \cup {r} BY StepCounts
<1>2. Fits(Out(req, s), Gone(req), inflight[s]) /\ inflight[s] \in Nat BY DEF Counted, Typed
<1>3. Fits(Out(req, s) \ {r}, Gone(req) \cup {r}, inflight[s]) BY <1>2, FitsEnd, CountedParts
<1> QED BY <1>1, <1>3

LEMMA IdleCounts ==
  ASSUME Typed, Counted, NEW r \in Requests, NEW w, Beside(req, r, w, req'),
         UNCHANGED inflight, w.pc # "done", w.pc # "upstream", req[r].pc # "done", req[r].pc # "upstream"
  PROVE  Counted'
<1> SUFFICES ASSUME NEW s \in Seats PROVE Fits(Out(req', s), Gone(req'), inflight'[s])
  BY DEF Counted
<1>1. Out(req', s) = Out(req, s) \ {r} /\ Gone(req') = Gone(req) \ {r}
  <2>1. ~(w.pc = "upstream" /\ w.seat = s) OBVIOUS
  <2>2. Out(req', s) = Out(req, s) \ {r} BY <2>1, StepCounts
  <2>3. Gone(req') = Gone(req) \ {r} BY StepCounts
  <2> QED BY <2>2, <2>3
<1>2. r \notin Out(req, s) /\ r \notin Gone(req) BY DEF Out, Gone
<1>3. Out(req', s) = Out(req, s) /\ Gone(req') = Gone(req) BY <1>1, <1>2
<1> QED BY <1>3 DEF Counted

-----------------------------------------------------------------------------
(* The handler's steps, one by one.  pressureVars and now unchanged leave  *)
(* the pressures alone.                                                    *)
LEMMA PressuresSame ==
  ASSUME UNCHANGED <<inflight, served, loads, now>>
  PROVE  Pressures' = Pressures
BY DEF Pressures, Pressure, Warm

LEMMA ReadGood ==
  ASSUME Good, NEW r \in Requests, Read(r)
  PROVE  req' \in [Requests -> RequestSet] /\ RequestsGood' /\ Counted'
<1> DEFINE q == req[r]
           s == Base[q.at]
           pc == IF q.at = Len(Base) THEN "walk" ELSE "new"
           seenUp == IF s \in up THEN q.seenUp \cup {s} ELSE q.seenUp
           w == [q EXCEPT !.seen = [q.seen EXCEPT ![s] = Pressure(s)], !.seenUp = seenUp,
                          !.at = q.at + 1, !.pc = pc]
<1>1. q \in RequestSet /\ Walking(q) /\ Best(q) /\ TrackedBy(q, Pressures) /\ q.pc = "new"
  BY DEF Good, Typed, RequestsGood, Read
<1>2. req \in [Requests -> RequestSet] BY DEF Good, Typed
<1>3. req' = [req EXCEPT ![r] = w] BY DEF Read
<1>4. UNCHANGED <<inflight, served, loads, now>> BY DEF Read, pressureVars, worldVars
<1>5. q.at \in 1 .. Len(Base) /\ q.attempt = 0 BY <1>1 DEF Walking
<1>6. s \in Seats /\ Len(Base) \in Nat BY <1>5, BaseFacts
<1>7. Pressures \in [Seats -> Int] /\ Pressures[s] = Pressure(s) BY <1>6, PressuresTyped DEF Good, Pressures
<1> HIDE DEF q
<1>8. /\ q.seen \in [Seats -> Int] /\ q.seenUp \subseteq Seats /\ q.raced \in Nat /\ q.at \in Nat
  BY <1>1 DEF RequestSet
<1>9. [q.seen EXCEPT ![s] = Pressure(s)] \in [Seats -> Int] BY <1>6, <1>7, <1>8
<1>10. seenUp \subseteq Seats /\ q.at + 1 \in Nat /\ pc \in Pcs BY <1>6, <1>8 DEF Pcs
<1>11. w \in RequestSet BY <1>1, <1>9, <1>10 DEF RequestSet
<1>12. /\ w.pc = pc /\ w.at = q.at + 1 /\ w.attempt = q.attempt /\ w.rest = q.rest /\ w.seat = q.seat
       /\ w.raced = q.raced /\ w.polled = q.polled /\ w.seen = [q.seen EXCEPT ![s] = Pressure(s)]
  BY <1>1 DEF RequestSet
<1>13. pc \in {"new", "walk"} /\ (pc = "new" => q.at # Len(Base)) /\ (pc = "walk" => q.at = Len(Base))
  OBVIOUS
<1> HIDE DEF w, pc
<1>14. Walking(w) BY <1>1, <1>5, <1>6, <1>12, <1>13 DEF Walking
<1>15. Best(w) BY <1>12, <1>13 DEF Best
<1>16. TrackedBy(w, Pressures)
  <2> DEFINE P == Pressures
  <2> SUFFICES ASSUME ~q.polled, NEW x \in ReadSeats(w), NEW y \in ReadSeats(w)
               PROVE  /\ P[x] - w.seen[x] <= w.raced /\ w.seen[x] - P[x] <= w.raced
                      /\ (P[x] - w.seen[x]) - (P[y] - w.seen[y]) <= w.raced
    BY <1>12 DEF TrackedBy
  <2> HIDE DEF s
  <2>1. ASSUME NEW z \in ReadSeats(w) PROVE z \in Seats /\ (z # s => z \in ReadSeats(q) /\ Choosing(q))
    <3>1. PICK i \in 1 .. w.at - 1 : z = Base[i] BY DEF ReadSeats
    <3>2. i \in 1 .. q.at BY <1>8, <1>12
    <3>3. i \in 1 .. Len(Base) BY <1>5, <1>6, <3>2
    <3>4. z # s => i # q.at BY <3>1 DEF s
    <3>5. z # s => i \in 1 .. q.at - 1 /\ q.at > 1 BY <1>8, <3>2, <3>4
    <3> QED BY <1>1, <1>5, <3>1, <3>3, <3>5, BaseFacts DEF ReadSeats, Choosing
  <2>2. ASSUME NEW z \in Seats PROVE P[z] \in Int /\ w.seen[z] = IF z = s THEN P[s] ELSE q.seen[z]
    BY <1>6, <1>7, <1>8, <1>12
  <2>3. \A z \in Seats : q.seen[z] \in Int /\ w.raced = q.raced /\ q.raced \in Nat BY <1>8, <1>12
  <2>4. ASSUME NEW z \in ReadSeats(w), z # s
        PROVE  P[z] - q.seen[z] <= q.raced /\ q.seen[z] - P[z] <= q.raced
    BY <1>1, <2>1, <2>4 DEF TrackedBy
  <2>5. x # s /\ y # s => (P[x] - q.seen[x]) - (P[y] - q.seen[y]) <= q.raced
    BY <1>1, <2>1 DEF TrackedBy
  <2> HIDE DEF P
  <2>6. CASE x = s /\ y = s BY <1>6, <2>2, <2>3, <2>6
  <2>7. CASE x = s /\ y # s
    <3>1. y \in Seats /\ P[y] - q.seen[y] <= q.raced /\ q.seen[y] - P[y] <= q.raced BY <2>1, <2>4, <2>7
    <3>2. P[y] \in Int /\ q.seen[y] \in Int /\ P[s] \in Int /\ w.seen[y] = q.seen[y] /\ w.seen[s] = P[s]
      BY <1>6, <2>2, <2>3, <2>7, <3>1
    <3> QED BY <1>6, <2>3, <2>7, <3>1, <3>2
  <2>8. CASE x # s /\ y = s
    <3>1. x \in Seats /\ P[x] - q.seen[x] <= q.raced /\ q.seen[x] - P[x] <= q.raced BY <2>1, <2>4, <2>8
    <3>2. P[x] \in Int /\ q.seen[x] \in Int /\ P[s] \in Int /\ w.seen[x] = q.seen[x] /\ w.seen[s] = P[s]
      BY <1>6, <2>2, <2>3, <2>8, <3>1
    <3> QED BY <1>6, <2>3, <2>8, <3>1, <3>2
  <2>9. CASE x # s /\ y # s
    <3>1. x \in Seats /\ y \in Seats BY <2>1
    <3>2. w.seen[x] = q.seen[x] /\ w.seen[y] = q.seen[y] /\ w.raced = q.raced BY <2>2, <2>3, <2>9, <3>1
    <3>3. P[x] - q.seen[x] <= q.raced /\ q.seen[x] - P[x] <= q.raced BY <2>4, <2>9
    <3> QED BY <2>5, <2>9, <3>2, <3>3
  <2> QED BY <2>6, <2>7, <2>8, <2>9
<1>17. Pressures' = Pressures BY <1>4, PressuresSame
<1>18. Moved(req, r, w, FALSE, req') /\ Beside(req, r, w, req') BY <1>2, <1>3, <1>11, MovedAlone
<1>19. w.pc # "done" /\ w.pc # "upstream" /\ req[r].pc # "done" /\ req[r].pc # "upstream"
  BY <1>1, <1>12, <1>13 DEF q
<1>20. Counted' BY <1>4, <1>18, <1>19, IdleCounts DEF Good
<1>21. req' \in [Requests -> RequestSet] /\ RequestsGood'
  BY <1>11, <1>14, <1>15, <1>16, <1>17, <1>18, StepKeeps DEF Good
<1> QED BY <1>20, <1>21

(* A walk ends the request or binds it to a seat of the order.             *)
LEMMA BoundIs ==
  ASSUME NEW q \in RequestSet, NEW s \in Seats, NEW rest \in Seq(Seats), Distinct(rest),
         \A k \in 1 .. Len(rest) : rest[k] # s, q.pc = "attempt",
         q.attempt = 0 => q.at = Len(Base) + 1,
         NEW w, w = Bind(q, s, rest)
  PROVE  /\ w \in RequestSet /\ Walking(w) /\ w.pc = "attempt" /\ w.attempt = q.attempt /\ w.at = q.at
         /\ w.seat = s /\ w.seen = q.seen /\ w.seenUp = q.seenUp /\ w.walkUp = q.walkUp
         /\ w.raced = q.raced /\ w.polled = q.polled
<1>1. s \in Named BY DEF Named
<1>2. w \in RequestSet BY <1>1 DEF RequestSet, Bind
<1>3. /\ w.pc = "attempt" /\ w.attempt = q.attempt /\ w.at = q.at /\ w.rest = rest
      /\ w.seat = s /\ w.seen = q.seen /\ w.seenUp = q.seenUp /\ w.walkUp = q.walkUp
      /\ w.raced = q.raced /\ w.polled = q.polled
  BY DEF RequestSet, Bind
<1>4. Walking(w) BY <1>3 DEF Walking
<1> QED BY <1>2, <1>3, <1>4

LEMMA ResolveGood ==
  ASSUME Good, NEW r \in Requests, Resolve(r)
  PROVE  req' \in [Requests -> RequestSet] /\ RequestsGood' /\ Counted'
<1> DEFINE q0 == req[r]
           q == [q0 EXCEPT !.pc = "attempt", !.walkUp = up]
           o == Order(q)
           p == Override(q, o)
           e == Ended(q)
           w == Walk(q, p, e)
<1>1. q0 \in RequestSet /\ Walking(q0) /\ TrackedBy(q0, Pressures) /\ q0.pc = "walk"
  BY DEF Good, Typed, RequestsGood, Resolve
<1>2. req \in [Requests -> RequestSet] /\ up \subseteq Seats BY DEF Good, Typed
<1>3. req' = [req EXCEPT ![r] = w] BY DEF Resolve
<1>4. UNCHANGED <<inflight, served, loads, now>> BY DEF Resolve, pressureVars, worldVars
<1>5. Pressures' = Pressures BY <1>4, PressuresSame
<1>6. q0.attempt = 0 /\ q0.at = Len(Base) + 1 BY <1>1 DEF Walking
<1>7. req[r].pc # "done" /\ req[r].pc # "upstream" BY <1>1
<1> HIDE DEF q0
<1>8. q \in RequestSet BY <1>1, <1>2 DEF RequestSet, Pcs
<1>9. /\ q.pc = "attempt" /\ q.walkUp = up /\ q.attempt = 0 /\ q.at = q0.at /\ q.seen = q0.seen
      /\ q.raced = q0.raced /\ q.polled = q0.polled
  BY <1>1, <1>6 DEF RequestSet
<1> HIDE DEF q
<1>10. q.seen \in [Seats -> Int] BY <1>8 DEF RequestSet
<1>11. Arranged(q, o) BY <1>10, OrderArranged
<1>12. o \in Seq(Seats) /\ Distinct(o) BY <1>10, <1>11, ArrangedDistinct DEF Arranged
<1>13. p \in Seq(Seats) /\ Len(p) = Len(o) /\ Distinct(p) BY <1>12, OverrideMoves, OverrideDistinct
<1>14. /\ e \in RequestSet /\ e.pc = "done" /\ Walking(e) /\ Best(e) /\ TrackedBy(e, Pressures)
  BY EndedIs
<1> HIDE DEF o, e
<1>15. p = Override(q, o) /\ w = Walk(q, p, e) OBVIOUS
<1> HIDE DEF p, w
<1>16. CASE w = e
  <2>1. Moved(req, r, e, FALSE, req') /\ Beside(req, r, e, req') BY <1>2, <1>3, <1>14, <1>16, MovedAlone
  <2>2. Counted' BY <1>4, <1>14, <2>1, EndCounts DEF Good
  <2>3. req' \in [Requests -> RequestSet] /\ RequestsGood'
    BY <1>5, <1>14, <2>1, StepKeeps DEF Good
  <2> QED BY <2>2, <2>3
<1>17. ASSUME NEW i \in 1 .. Len(p), Found(q, p, w, i)
       PROVE  req' \in [Requests -> RequestSet] /\ RequestsGood' /\ Counted'
  <2> DEFINE rest == SubSeq(p, i + 1, Len(p))
  <2>0. /\ p[i] \in up /\ w = Bind(q, p[i], rest)
        /\ \A j \in 1 .. i - 1 : p[j] \notin up
        /\ rest \in Seq(Seats) /\ Distinct(rest) /\ \A k \in 1 .. Len(rest) : rest[k] # p[i]
    BY <1>17 DEF Found
  <2> HIDE DEF rest
  <2>1. p[i] \in Seats BY <1>2, <2>0
  <2>2. /\ w \in RequestSet /\ Walking(w) /\ w.pc = "attempt" /\ w.attempt = q.attempt /\ w.at = q.at
        /\ w.seat = p[i] /\ w.seen = q.seen /\ w.seenUp = q.seenUp /\ w.walkUp = q.walkUp
        /\ w.raced = q.raced /\ w.polled = q.polled
    <3>1. q.pc = "attempt" /\ (q.attempt = 0 => q.at = Len(Base) + 1) BY <1>6, <1>9
    <3> QED BY <1>8, <2>0, <2>1, <3>1, BoundIs
  <2>3. Arranged(w, o) /\ p = Override(w, o)
    <3>1. \A s, t : Before(w, s, t) <=> Before(q, s, t) BY <2>2 DEF Before
    <3>2. Promotable(w, o) = Promotable(q, o) BY <2>2 DEF Promotable
    <3>3. Override(w, o) = Override(q, o) BY <3>2 DEF Override
    <3> QED BY <1>11, <1>15, <3>1, <3>3 DEF Arranged
  <2>4. Preferred(w)
    <3>1. i \in 1 .. Len(o) /\ \A j \in 1 .. i - 1 : p[j] \notin w.walkUp BY <1>9, <1>13, <2>0, <2>2
    <3> QED BY <2>2, <2>3, <3>1, ChoicePreferred
  <2>5. Best(w) BY <2>4 DEF Best
  <2>6. TrackedBy(w, Pressures)
    <3>1. ReadSeats(w) = ReadSeats(q0) BY <1>9, <2>2 DEF ReadSeats
    <3>2. Choosing(w) => Choosing(q0) BY <1>1, <1>6, <1>9, <2>2 DEF Choosing
    <3> QED BY <1>1, <1>9, <2>2, <3>1, <3>2 DEF TrackedBy
  <2>7. Moved(req, r, w, FALSE, req') /\ Beside(req, r, w, req') BY <1>2, <1>3, <2>2, MovedAlone
  <2>8. w.pc # "done" /\ w.pc # "upstream" BY <2>2
  <2>9. Counted' BY <1>4, <1>7, <2>7, <2>8, IdleCounts DEF Good
  <2>10. req' \in [Requests -> RequestSet] /\ RequestsGood'
    BY <1>5, <2>2, <2>5, <2>6, <2>7, StepKeeps DEF Good
  <2> QED BY <2>9, <2>10
<1>18. w = e \/ \E i \in 1 .. Len(p) : Found(q, p, w, i)
  BY <1>8, <1>13, <1>15, WalkFinds
<1> QED BY <1>16, <1>17, <1>18

(* A pressure, taken apart.                                                *)
LEMMA PressureParts ==
  ASSUME Typed, NEW x \in Seats
  PROVE  /\ inflight[x] \in Nat /\ served[x] \in Int /\ now \in Nat /\ WarmWindow \in Nat
         /\ loads[x].running \in Nat /\ loads[x].waiting \in Nat /\ GPUBucket(loads[x].busy) \in Nat
<1>1. loads[x] \in LoadSet /\ inflight[x] \in Nat /\ served[x] \in -1 .. now /\ now \in 0 .. MaxTime
  BY DEF Typed, Minutes
<1>2. loads[x].running \in Nat /\ loads[x].waiting \in Nat BY <1>1 DEF LoadSet
<1>3. GPUBucket(loads[x].busy) \in Nat BY BucketIsNat
<1>4. MaxTime \in Nat /\ WarmWindow \in Nat BY BalanceAssumption
<1> QED BY <1>1, <1>2, <1>3, <1>4

LEMMA CountNudges ==
  ASSUME Typed, NEW s \in Seats, NEW n \in Nat, n - inflight[s] <= 1, inflight[s] - n <= 1,
         inflight' = [inflight EXCEPT ![s] = n], UNCHANGED <<served, loads, now>>
  PROVE  Nudged(Pressures, Pressures')
<1>1. ASSUME NEW x \in Seats
      PROVE  /\ Pressure(x)' \in Int /\ Pressure(x) \in Int
             /\ Pressure(x)' - Pressure(x) <= 1 /\ Pressure(x) - Pressure(x)' <= 1
             /\ x # s => Pressure(x)' = Pressure(x)
  <2>1. /\ inflight[x] \in Nat /\ served[x] \in Int /\ now \in Nat /\ WarmWindow \in Nat
        /\ loads[x].running \in Nat /\ loads[x].waiting \in Nat /\ GPUBucket(loads[x].busy) \in Nat
    BY PressureParts
  <2>2. inflight'[x] \in Nat /\ inflight'[x] - inflight[x] <= 1 /\ inflight[x] - inflight'[x] <= 1
        /\ (x # s => inflight'[x] = inflight[x])
    BY <2>1 DEF Typed
  <2>3. Warm(x)' = Warm(x) BY DEF Warm
  <2> QED BY <2>1, <2>2, <2>3 DEF Pressure
<1>2. \A x \in Seats : Pressures[x] = Pressure(x) /\ Pressures'[x] = Pressure(x)' BY DEF Pressures
<1>3. Pressures' \in [Seats -> Int] BY <1>1 DEF Pressures
<1>4. ASSUME NEW x \in Seats, NEW y \in Seats
      PROVE  (Pressure(x)' - Pressure(x)) - (Pressure(y)' - Pressure(y)) <= 1
  BY <1>1
<1> QED BY <1>1, <1>2, <1>3, <1>4 DEF Nudged

LEMMA WarmNudges ==
  ASSUME Typed, UNCHANGED <<inflight, loads>>,
         NEW b \in {0, 1},
         \A x \in Seats : Warm(x)' = Warm(x) \/ (Warm(x)' <=> b = 1)
  PROVE  Nudged(Pressures, Pressures')
<1>1. ASSUME NEW x \in Seats
      PROVE  /\ Pressure(x)' \in Int /\ Pressure(x) \in Int
             /\ Pressure(x)' - Pressure(x) = 0 \/ Pressure(x)' - Pressure(x) = 1 - 2 * b
  <2>1. /\ inflight[x] \in Nat /\ served[x] \in Int /\ now \in Nat /\ WarmWindow \in Nat
        /\ loads[x].running \in Nat /\ loads[x].waiting \in Nat /\ GPUBucket(loads[x].busy) \in Nat
    BY PressureParts
  <2>2. Warm(x) \in BOOLEAN /\ Warm(x)' \in BOOLEAN BY DEF Warm
  <2> DEFINE c == (IF loads[x].running > inflight[x] THEN loads[x].running ELSE inflight[x])
                  + loads[x].waiting + GPUBucket(loads[x].busy)
  <2>3. c \in Int BY <2>1
  <2>4. Pressure(x) = c - (IF Warm(x) THEN 1 ELSE 0) BY <2>1, <2>2 DEF Pressure
  <2>5. Pressure(x)' = c - (IF Warm(x)' THEN 1 ELSE 0) BY <2>1, <2>2 DEF Pressure
  <2> HIDE DEF c
  <2>6. Warm(x)' = Warm(x) => Pressure(x)' = Pressure(x) BY <2>4, <2>5
  <2>7. ASSUME Warm(x)' # Warm(x) PROVE Pressure(x)' - Pressure(x) = 1 - 2 * b
    <3>1. Warm(x)' <=> b = 1 BY <2>7
    <3>2. CASE Warm(x)'
      <4>1. ~Warm(x) /\ b = 1 BY <2>2, <2>7, <3>1, <3>2
      <4> QED BY <2>3, <2>4, <2>5, <3>2, <4>1
    <3>3. CASE ~Warm(x)'
      <4>1. Warm(x) /\ b = 0 BY <2>2, <2>7, <3>1, <3>3
      <4> QED BY <2>3, <2>4, <2>5, <3>3, <4>1
    <3> QED BY <3>2, <3>3
  <2>8. Pressure(x) \in Int /\ Pressure(x)' \in Int BY <2>3, <2>4, <2>5
  <2> QED BY <2>6, <2>7, <2>8
<1>2. \A x \in Seats : Pressures[x] = Pressure(x) /\ Pressures'[x] = Pressure(x)' BY DEF Pressures
<1>3. Pressures' \in [Seats -> Int] BY <1>1 DEF Pressures
<1>4. ASSUME NEW x \in Seats, NEW y \in Seats
      PROVE  /\ Pressure(x)' - Pressure(x) <= 1 /\ Pressure(x) - Pressure(x)' <= 1
             /\ (Pressure(x)' - Pressure(x)) - (Pressure(y)' - Pressure(y)) <= 1
  <2>1. CASE b = 0 BY <1>1, <2>1
  <2>2. CASE b = 1 BY <1>1, <2>2
  <2> QED BY <2>1, <2>2
<1> QED BY <1>2, <1>3, <1>4 DEF Nudged

LEMMA SendGood ==
  ASSUME Good, NEW r \in Requests, Send(r)
  PROVE  req' \in [Requests -> RequestSet] /\ RequestsGood' /\ Counted' /\ inflight' \in [Seats -> Nat]
<1> DEFINE q == req[r]
           s == q.seat
           w == Forget(q, "upstream")
<1>1. q \in RequestSet /\ Walking(q) /\ q.pc = "attempt" BY DEF Good, Typed, RequestsGood, Send
<1>2. req \in [Requests -> RequestSet] /\ inflight \in [Seats -> Nat] BY DEF Good, Typed
<1>3. s \in Seats BY <1>1 DEF Walking
<1>4. Raced(req, r)[r] = q /\ DOMAIN Raced(req, r) = Requests BY <1>2, RacedIs DEF Raced
<1>5. req' = [Raced(req, r) EXCEPT ![r] = w] BY <1>4 DEF Send
<1>6. inflight' = [inflight EXCEPT ![s] = inflight[s] + 1] BY DEF Send
<1>7. UNCHANGED <<served, loads, now>> BY DEF Send, worldVars
<1>8. w \in RequestSet /\ w.pc = "upstream" /\ w.seat = s /\ w.rest = q.rest /\ w.attempt = q.attempt
  BY <1>1, ForgetIs DEF Pcs
<1>9. \A x \in Seats : r \notin Out(req, x) BY <1>1 DEF Out
<1>10. r \notin Gone(req) BY <1>1 DEF Gone
<1> HIDE DEF q, w
<1>11. Walking(w) BY <1>1, <1>3, <1>8 DEF Walking
<1>12. Best(w) /\ TrackedBy(w, Pressures') BY <1>8 DEF Best, TrackedBy, Choosing
<1>13. Moved(req, r, w, TRUE, req') /\ Beside(req, r, w, req') BY <1>2, <1>5, <1>8, MovedRacing
<1>14. /\ inflight[s] \in Nat /\ inflight[s] + 1 \in Nat
       /\ (inflight[s] + 1) - inflight[s] <= 1 /\ inflight[s] - (inflight[s] + 1) <= 1
  BY <1>2, <1>3
<1>15. Nudged(Pressures, Pressures')
  BY <1>3, <1>6, <1>7, <1>14, CountNudges DEF Good
<1>16. req' \in [Requests -> RequestSet] /\ RequestsGood'
  BY <1>8, <1>11, <1>12, <1>13, <1>15, StepKeeps DEF Good
<1>17. ASSUME NEW x \in Seats PROVE Fits(Out(req', x), Gone(req'), inflight'[x])
  <2>0. w.pc # "done" /\ (w.pc = "upstream" /\ w.seat = x <=> s = x) BY <1>8
  <2>1. /\ Out(req', x) = IF s = x THEN Out(req, x) \cup {r} ELSE Out(req, x) \ {r}
        /\ Gone(req') = Gone(req) \ {r}
    BY <1>13, <2>0, StepCounts
  <2>2. Gone(req') = Gone(req) BY <1>10, <2>1
  <2>3. Fits(Out(req, x), Gone(req), inflight[x]) /\ inflight[x] \in Nat BY <1>2 DEF Good, Counted
  <2>4. CASE x = s
    <3>1. inflight'[x] = inflight[x] + 1 BY <1>2, <1>6, <2>4
    <3>2. Out(req', x) = Out(req, x) \cup {r} BY <2>1, <2>4
    <3> QED BY <1>9, <1>10, <2>2, <2>3, <3>1, <3>2, FitsAdd, CountedParts
  <2>5. CASE x # s
    <3>1. inflight'[x] = inflight[x] BY <1>2, <1>6, <2>5
    <3>2. Out(req', x) = Out(req, x) BY <1>9, <2>1, <2>5
    <3> QED BY <2>2, <2>3, <3>1, <3>2
  <2> QED BY <2>4, <2>5
<1>18. inflight' \in [Seats -> Nat] BY <1>2, <1>6, <1>14
<1> QED BY <1>16, <1>17, <1>18 DEF Counted

LEMMA ReturnGood ==
  ASSUME Good, NEW r \in Requests, Return(r)
  PROVE  req' \in [Requests -> RequestSet] /\ RequestsGood' /\ Counted' /\ inflight' \in [Seats -> Nat]
<1> DEFINE q == req[r]
           s == q.seat
<1>1. q \in RequestSet /\ Walking(q) /\ q.pc = "upstream" BY DEF Good, Typed, RequestsGood, Return
<1>2. req \in [Requests -> RequestSet] /\ inflight \in [Seats -> Nat] BY DEF Good, Typed
<1>3. s \in Seats BY <1>1 DEF Walking
<1>4. Raced(req, r)[r] = q /\ DOMAIN Raced(req, r) = Requests BY <1>2, RacedIs DEF Raced
<1>5. PICK o \in Outcomes : req' = [Raced(req, r) EXCEPT ![r].pc = "settle", ![r].outcome = o]
  BY DEF Return
<1> DEFINE w == [q EXCEPT !.pc = "settle", !.outcome = o]
<1>6. req' = [Raced(req, r) EXCEPT ![r] = w] BY <1>4, <1>5
<1>7. UNCHANGED <<served, loads, now>> BY DEF Return, worldVars
<1>8. w \in RequestSet BY <1>1 DEF RequestSet, Pcs
<1>9. w.pc = "settle" /\ w.outcome = o /\ w.seat = s /\ w.rest = q.rest /\ w.attempt = q.attempt
  BY <1>1 DEF RequestSet
<1>10. r \in Out(req, s) /\ r \notin Gone(req) /\ \A x \in Seats : x # s => r \notin Out(req, x)
  BY <1>1 DEF Out, Gone
<1>11. inflight' = [inflight EXCEPT ![s] = IF inflight[s] > 0 THEN inflight[s] - 1 ELSE 0]
  BY DEF Return, DoneInflight
<1>12. Fits(Out(req, s), Gone(req), inflight[s]) /\ inflight[s] \in Nat
  BY <1>2, <1>3 DEF Good, Counted
<1>13. inflight[s] > 0 /\ Fits(Out(req, s) \ {r}, Gone(req), inflight[s] - 1)
  BY <1>10, <1>12, FitsTake, CountedParts
<1>14. inflight' = [inflight EXCEPT ![s] = inflight[s] - 1] BY <1>11, <1>13
<1>15. /\ inflight[s] - 1 \in Nat
       /\ (inflight[s] - 1) - inflight[s] <= 1 /\ inflight[s] - (inflight[s] - 1) <= 1
  BY <1>12, <1>13
<1>16. Nudged(Pressures, Pressures')
  BY <1>3, <1>7, <1>14, <1>15, CountNudges DEF Good
<1> HIDE DEF w, q
<1>17. Walking(w) BY <1>1, <1>3, <1>9 DEF Walking
<1>18. Best(w) /\ TrackedBy(w, Pressures') BY <1>9 DEF Best, TrackedBy, Choosing
<1>19. Moved(req, r, w, TRUE, req') /\ Beside(req, r, w, req') BY <1>2, <1>6, <1>8, MovedRacing
<1>20. req' \in [Requests -> RequestSet] /\ RequestsGood'
  BY <1>8, <1>16, <1>17, <1>18, <1>19, StepKeeps DEF Good
<1>21. ASSUME NEW x \in Seats PROVE Fits(Out(req', x), Gone(req'), inflight'[x])
  <2>1. w.pc # "done" /\ ~(w.pc = "upstream" /\ w.seat = x) BY <1>9
  <2>2. Out(req', x) = Out(req, x) \ {r} BY <1>19, <2>1, StepCounts
  <2>3. Gone(req') = Gone(req) \ {r} BY <1>19, <2>1, StepCounts
  <2>4. Gone(req') = Gone(req) BY <1>10, <2>3
  <2>5. CASE x = s
    <3>1. inflight'[x] = inflight[x] - 1 BY <1>2, <1>14, <2>5
    <3> QED BY <1>13, <2>2, <2>4, <2>5, <3>1
  <2>6. CASE x # s
    <3>1. inflight'[x] = inflight[x] BY <1>2, <1>14, <2>6
    <3>2. Out(req', x) = Out(req, x) BY <1>10, <2>2, <2>6
    <3> QED BY <2>4, <3>1, <3>2 DEF Good, Counted
  <2> QED BY <2>5, <2>6
<1>22. inflight' \in [Seats -> Nat] BY <1>2, <1>14, <1>15
<1> QED BY <1>20, <1>21, <1>22 DEF Counted

(* A request that ends without moving a pressure.                          *)
LEMMA EndsGood ==
  ASSUME Good, NEW r \in Requests, NEW q, req' = [req EXCEPT ![r] = Ended(q)],
         UNCHANGED <<inflight, served, loads, now>>
  PROVE  req' \in [Requests -> RequestSet] /\ RequestsGood' /\ Counted'
<1> DEFINE w == Ended(q)
<1>1. req \in [Requests -> RequestSet] BY DEF Good, Typed
<1>2. w \in RequestSet /\ w.pc = "done" /\ Walking(w) /\ Best(w) /\ TrackedBy(w, Pressures)
  BY EndedIs
<1>3. req' = [req EXCEPT ![r] = w] OBVIOUS
<1> HIDE DEF w
<1>4. Pressures' = Pressures BY PressuresSame
<1>5. Moved(req, r, w, FALSE, req') /\ Beside(req, r, w, req') BY <1>1, <1>2, <1>3, MovedAlone
<1>6. Counted' BY <1>2, <1>5, EndCounts DEF Good
<1>7. req' \in [Requests -> RequestSet] /\ RequestsGood'
  BY <1>2, <1>4, <1>5, StepKeeps DEF Good
<1> QED BY <1>6, <1>7

LEMMA ServedGood ==
  ASSUME Good, NEW r \in Requests, Served(r)
  PROVE  /\ req' \in [Requests -> RequestSet] /\ RequestsGood' /\ Counted'
         /\ served' \in [Seats -> -1 .. now]
<1> DEFINE q == req[r]
           s == q.seat
           w == Ended(q)
<1>1. q \in RequestSet /\ Walking(q) /\ q.pc = "settle" BY DEF Good, Typed, RequestsGood, Served
<1>2. /\ req \in [Requests -> RequestSet] /\ inflight \in [Seats -> Nat]
      /\ served \in [Seats -> -1 .. now] /\ now \in 0 .. MaxTime
  BY DEF Good, Typed, Minutes
<1>3. s \in Seats BY <1>1 DEF Walking
<1>4. Raced(req, r)[r] = q /\ DOMAIN Raced(req, r) = Requests BY <1>2, RacedIs DEF Raced
<1>5. req' = [Raced(req, r) EXCEPT ![r] = w] BY <1>4 DEF Served
<1>6. served' = [served EXCEPT ![s] = now] BY DEF Served
<1>7. UNCHANGED <<inflight, loads, now>> BY DEF Served, worldVars
<1>8. w \in RequestSet /\ w.pc = "done" /\ Walking(w) /\ Best(w) /\ TrackedBy(w, Pressures')
  BY EndedIs
<1> HIDE DEF w
<1>9. Nudged(Pressures, Pressures')
  <2>1. MaxTime \in Nat /\ WarmWindow \in Nat BY BalanceAssumption
  <2>2. ASSUME NEW x \in Seats PROVE Warm(x)' = Warm(x) \/ (Warm(x)' <=> 1 = 1)
    <3>1. CASE x # s
      <4>1. served'[x] = served[x] BY <1>2, <1>6, <3>1
      <4> QED BY <1>7, <4>1 DEF Warm
    <3>2. CASE x = s
      <4>1. served'[x] = now /\ now \in Nat /\ served[x] \in -1 .. now BY <1>2, <1>3, <1>6, <2>1, <3>2
      <4>2. Warm(x)' <=> 0 < WarmWindow BY <1>7, <2>1, <4>1 DEF Warm
      <4>3. ~(0 < WarmWindow) => ~Warm(x) BY <2>1, <4>1 DEF Warm
      <4>4. Warm(x) \in BOOLEAN /\ Warm(x)' \in BOOLEAN BY DEF Warm
      <4> QED BY <4>2, <4>3, <4>4
    <3> QED BY <3>1, <3>2
  <2> QED BY <1>7, <2>2, WarmNudges DEF Good
<1>10. Moved(req, r, w, TRUE, req') /\ Beside(req, r, w, req') BY <1>2, <1>5, <1>8, MovedRacing
<1>11. Counted' BY <1>7, <1>8, <1>10, EndCounts DEF Good
<1>12. req' \in [Requests -> RequestSet] /\ RequestsGood'
  BY <1>8, <1>9, <1>10, StepKeeps DEF Good
<1>13. served' \in [Seats -> -1 .. now]
  <2>1. now \in -1 .. now BY <1>2, BalanceAssumption
  <2> QED BY <1>2, <1>6, <2>1
<1> QED BY <1>11, <1>12, <1>13

LEMMA FailOverGood ==
  ASSUME Good, NEW r \in Requests, FailOver(r)
  PROVE  req' \in [Requests -> RequestSet] /\ RequestsGood' /\ Counted'
<1> DEFINE q0 == req[r]
           q == [q0 EXCEPT !.pc = "attempt", !.attempt = q0.attempt + 1, !.outcome = None]
           e == Ended(q0)
           w == Walk(q, q.rest, e)
<1>1. q0 \in RequestSet /\ Walking(q0) /\ q0.pc = "settle" BY DEF Good, Typed, RequestsGood, FailOver
<1>2. req \in [Requests -> RequestSet] /\ up \subseteq Seats BY DEF Good, Typed
<1>3. req' = [req EXCEPT ![r] = IF q0.attempt < MaxFailoverAttempts THEN w ELSE e] BY DEF FailOver
<1>4. UNCHANGED <<inflight, served, loads, now>> BY DEF FailOver, pressureVars, worldVars
<1>5. Pressures' = Pressures BY <1>4, PressuresSame
<1>6. req[r].pc # "done" /\ req[r].pc # "upstream" BY <1>1
<1>7. CASE ~(q0.attempt < MaxFailoverAttempts)
  <2>1. req' = [req EXCEPT ![r] = Ended(q0)] BY <1>3, <1>7
  <2> QED BY <1>4, <2>1, EndsGood
<1>8. CASE q0.attempt < MaxFailoverAttempts
  <2>1. req' = [req EXCEPT ![r] = w] BY <1>3, <1>8
  <2> HIDE DEF q0
  <2>2. q0.attempt \in 0 .. MaxFailoverAttempts /\ MaxFailoverAttempts \in Nat
    BY <1>1, BalanceAssumption DEF RequestSet
  <2>3. q0.attempt + 1 \in 0 .. MaxFailoverAttempts /\ q0.attempt + 1 # 0 BY <1>8, <2>2
  <2>4. q \in RequestSet BY <1>1, <2>3 DEF RequestSet, Pcs
  <2>5. q.pc = "attempt" /\ q.attempt # 0 /\ q.rest = q0.rest BY <1>1, <2>3 DEF RequestSet
  <2> HIDE DEF q
  <2>6. q.rest \in Seq(Seats) /\ Distinct(q.rest) BY <1>1, <2>4, <2>5 DEF RequestSet, Walking
  <2>7. w = e \/ \E i \in 1 .. Len(q.rest) : Found(q, q.rest, w, i) BY <2>4, <2>6, WalkFinds
  <2>8. CASE w = e
    <3>1. req' = [req EXCEPT ![r] = Ended(q0)] BY <2>1, <2>8
    <3> QED BY <1>4, <3>1, EndsGood
  <2> HIDE DEF w, e
  <2>9. ASSUME NEW i \in 1 .. Len(q.rest), Found(q, q.rest, w, i)
        PROVE  req' \in [Requests -> RequestSet] /\ RequestsGood' /\ Counted'
    <3> DEFINE p == q.rest
               rest == SubSeq(p, i + 1, Len(p))
    <3>1. /\ p[i] \in up /\ w = Bind(q, p[i], rest)
          /\ rest \in Seq(Seats) /\ Distinct(rest) /\ \A k \in 1 .. Len(rest) : rest[k] # p[i]
      BY <2>9 DEF Found
    <3>2. p[i] \in Seats BY <1>2, <3>1
    <3> HIDE DEF rest, p
    <3>3. /\ w \in RequestSet /\ Walking(w) /\ w.pc = "attempt" /\ w.attempt = q.attempt
      BY <2>4, <2>5, <3>1, <3>2, BoundIs
    <3>4. Best(w) /\ TrackedBy(w, Pressures) BY <2>5, <3>3 DEF Best, TrackedBy, Choosing
    <3>5. Moved(req, r, w, FALSE, req') /\ Beside(req, r, w, req') BY <1>2, <2>1, <3>3, MovedAlone
    <3>6. w.pc # "done" /\ w.pc # "upstream" BY <3>3
    <3>7. Counted' BY <1>4, <1>6, <3>5, <3>6, IdleCounts DEF Good
    <3>8. req' \in [Requests -> RequestSet] /\ RequestsGood'
      BY <1>5, <3>3, <3>4, <3>5, StepKeeps DEF Good
    <3> QED BY <3>7, <3>8
  <2> QED BY <2>7, <2>8, <2>9
<1> QED BY <1>7, <1>8

(* The world's steps.                                                      *)
LEMMA TickGood ==
  ASSUME Good, Tick
  PROVE  /\ req' \in [Requests -> RequestSet] /\ RequestsGood' /\ Counted'
         /\ now' \in Minutes /\ served' \in [Seats -> -1 .. now']
<1>1. /\ req \in [Requests -> RequestSet] /\ served \in [Seats -> -1 .. now] /\ now \in 0 .. MaxTime
      /\ MaxTime \in Nat
  BY BalanceAssumption DEF Good, Typed, Minutes
<1>2. now < MaxTime /\ now' = now + 1 /\ req' = Raced(req, None) /\ UNCHANGED <<inflight, served, loads>>
  BY DEF Tick, pressureVars
<1>3. now' \in Minutes /\ served' \in [Seats -> -1 .. now']
  <2>1. \A n \in -1 .. now : n \in -1 .. now + 1 BY <1>1
  <2>2. \A x \in Seats : served[x] \in -1 .. now + 1 BY <1>1, <2>1
  <2>3. now + 1 \in 0 .. MaxTime BY <1>1, <1>2
  <2> QED BY <1>1, <1>2, <2>2, <2>3 DEF Minutes
<1>4. ASSUME NEW x \in Requests PROVE req'[x] \in RequestSet /\ Like(req[x], req'[x], TRUE)
  <2>1. x # None BY BalanceAssumption
  <2> QED BY <1>1, <1>2, <2>1, RacedIs
<1>5. req' \in [Requests -> RequestSet] BY <1>2, <1>4 DEF Raced
<1>6. Nudged(Pressures, Pressures')
  <2>1. ASSUME NEW x \in Seats PROVE Warm(x)' = Warm(x) \/ (Warm(x)' <=> 0 = 1)
    <3>1. served[x] \in Int /\ now \in Int /\ WarmWindow \in Int BY <1>1, BalanceAssumption
    <3>4. Warm(x)' => Warm(x) BY <1>2, <3>1 DEF Warm
    <3>5. Warm(x) \in BOOLEAN /\ Warm(x)' \in BOOLEAN BY DEF Warm
    <3> QED BY <3>4, <3>5
  <2> QED BY <1>2, <2>1, WarmNudges DEF Good
<1>7. RequestsGood'
  <2> SUFFICES ASSUME NEW x \in Requests
               PROVE  Walking(req'[x]) /\ Best(req'[x]) /\ TrackedBy(req'[x], Pressures')
    BY DEF RequestsGood
  <2>1. req[x] \in RequestSet /\ Walking(req[x]) /\ Best(req[x]) /\ TrackedBy(req[x], Pressures)
    BY <1>1 DEF Good, RequestsGood
  <2>2. Pressures \in [Seats -> Int] BY PressuresTyped DEF Good
  <2> QED BY <1>4, <1>6, <2>1, <2>2, LikeKeeps, LikeTracked
<1>8. Counted'
  <2>1. \A x \in Requests : req'[x].pc = req[x].pc /\ req'[x].seat = req[x].seat BY <1>4 DEF Like
  <2>2. \A s \in Seats : Out(req', s) = Out(req, s) BY <2>1 DEF Out
  <2>3. Gone(req') = Gone(req) BY <2>1 DEF Gone
  <2> QED BY <1>2, <2>2, <2>3 DEF Counted, Good
<1> QED BY <1>3, <1>5, <1>7, <1>8

LEMMA SetLoadsGood ==
  ASSUME Good, SetLoads
  PROVE  req' \in [Requests -> RequestSet] /\ RequestsGood' /\ Counted' /\ loads' \in [Seats -> LoadSet]
<1>1. req \in [Requests -> RequestSet] BY DEF Good, Typed
<1>2. /\ req' = [r \in Requests |-> IF Choosing(req[r]) THEN [req[r] EXCEPT !.polled = TRUE] ELSE req[r]]
      /\ inflight' = inflight /\ loads' \in LoadTables
  BY DEF SetLoads
<1>3. loads' \in [Seats -> LoadSet] BY <1>2, BalanceAssumption DEF LoadSet
<1>4. ASSUME NEW x \in Requests
      PROVE  /\ req'[x] \in RequestSet /\ req'[x].pc = req[x].pc /\ req'[x].seat = req[x].seat
             /\ Walking(req'[x]) /\ Best(req'[x]) /\ TrackedBy(req'[x], Pressures')
  <2> DEFINE q == req[x]
             w == [q EXCEPT !.polled = TRUE]
  <2>1. q \in RequestSet /\ Walking(q) /\ Best(q) BY <1>1 DEF Good, RequestsGood
  <2>2. req'[x] = IF Choosing(q) THEN w ELSE q BY <1>2
  <2> HIDE DEF q
  <2>3. w \in RequestSet BY <2>1 DEF RequestSet
  <2>4. /\ w.pc = q.pc /\ w.at = q.at /\ w.seen = q.seen /\ w.seenUp = q.seenUp
        /\ w.walkUp = q.walkUp /\ w.rest = q.rest /\ w.seat = q.seat /\ w.attempt = q.attempt
        /\ w.outcome = q.outcome /\ w.polled = TRUE
    BY <2>1 DEF RequestSet
  <2> HIDE DEF w
  <2>5. Walking(w) BY <2>1, <2>4 DEF Walking
  <2>6. Best(w) BY <2>1, <2>4 DEF Best, Preferred
  <2>7. TrackedBy(w, Pressures') BY <2>4 DEF TrackedBy
  <2>8. ~Choosing(q) => TrackedBy(q, Pressures') BY DEF TrackedBy
  <2>9. CASE Choosing(q)
    <3>1. req'[x] = w BY <2>2, <2>9
    <3> QED BY <2>3, <2>4, <2>5, <2>6, <2>7, <3>1 DEF q
  <2>10. CASE ~Choosing(q)
    <3>1. req'[x] = q BY <2>2, <2>10
    <3> QED BY <2>1, <2>8, <2>10, <3>1 DEF q
  <2> QED BY <2>9, <2>10
<1>5. req' \in [Requests -> RequestSet] BY <1>2, <1>4
<1>6. RequestsGood' BY <1>4 DEF RequestsGood
<1>7. Counted'
  <2>1. \A s \in Seats : Out(req', s) = Out(req, s) BY <1>4 DEF Out
  <2>2. Gone(req') = Gone(req) BY <1>4 DEF Gone
  <2> QED BY <1>2, <2>1, <2>2 DEF Counted, Good
<1> QED BY <1>3, <1>5, <1>6, <1>7

-----------------------------------------------------------------------------
(* What record does to a seat's statistics.                                *)
Slot == now % WindowMinutes
Failed(o) == IF IsUpstreamFailure(o) THEN 1 ELSE 0

LEMMA SlotInRing ==
  ASSUME NEW n \in Nat
  PROVE  n % WindowMinutes \in Ring
<1>1. WindowMinutes \in Nat \ {0} BY BalanceAssumption
<1> QED BY <1>1 DEF Ring

LEMMA RecordIs ==
  ASSUME Typed, NEW s \in Seats, NEW o \in Outcomes, Record(s, o)
  PROVE  /\ series' \in [Seats -> SeriesSet] /\ history' \in Seq(EntrySet)
         /\ history' = Append(history, [seat |-> s, at |-> now, class |-> o])
         /\ \A x \in Seats : x # s => series'[x] = series[x]
         /\ series'[s].failingSince = Streak(s, o)
         /\ \A i \in Ring : i # Slot => series'[s].buckets[i] = series[s].buckets[i]
         /\ series'[s].buckets[Slot].minute = now
         /\ series'[s].buckets[Slot].total = BucketNow(s).total + 1
         /\ series'[s].buckets[Slot].failed = BucketNow(s).failed + Failed(o)
<1> DEFINE v == series[s]
           k == Slot
           B == BucketNow(s)
           nb == [minute |-> now, total |-> B.total + 1, failed |-> B.failed + Failed(o)]
           bs == [v.buckets EXCEPT ![k] = nb]
           f == Streak(s, o)
           l == IF IsUpstreamFailure(o) THEN now ELSE v.lastFailure
           nv == [buckets |-> bs, failingSince |-> f, lastFailure |-> l]
<1>1. series' = [series EXCEPT ![s] = nv] BY DEF Record, Slot, Failed
<1>2. history' = Append(history, [seat |-> s, at |-> now, class |-> o]) BY DEF Record
<1>3. /\ v \in SeriesSet /\ now \in Minutes /\ now \in Nat /\ series \in [Seats -> SeriesSet]
      /\ history \in Seq(EntrySet)
  BY BalanceAssumption DEF Typed, Minutes
<1>4. k \in Ring BY <1>3, SlotInRing DEF Slot
<1>5. /\ v.buckets \in [Ring -> BucketSet] /\ v.failingSince \in Int /\ v.lastFailure \in Int
  BY <1>3 DEF SeriesSet
<1>6. EmptyBucket(now) \in BucketSet BY <1>3 DEF EmptyBucket, BucketSet
<1>7. B \in BucketSet BY <1>4, <1>5, <1>6 DEF BucketNow, Slot
<1>8. f \in Int BY <1>3, <1>5 DEF Streak, IsUpstreamFailure, Outcomes
<1>9. l \in Int BY <1>3, <1>5
<1> HIDE DEF B, f, l, v, k
<1>10. Failed(o) \in Nat BY DEF Failed
<1>11. B.total \in Nat /\ B.failed \in Nat BY <1>7 DEF BucketSet
<1>12. B.total + 1 \in Nat /\ B.failed + Failed(o) \in Nat BY <1>10, <1>11
<1>13. nb \in BucketSet BY <1>3, <1>12 DEF BucketSet
<1>14. nb.minute = now /\ nb.total = B.total + 1 /\ nb.failed = B.failed + Failed(o) OBVIOUS
<1> HIDE DEF nb
<1>15. bs \in [Ring -> BucketSet] /\ bs[k] = nb /\ \A i \in Ring : i # k => bs[i] = v.buckets[i]
  BY <1>4, <1>5, <1>13
<1> HIDE DEF bs
<1>16. nv \in SeriesSet BY <1>8, <1>9, <1>15 DEF SeriesSet
<1>17. nv.buckets = bs /\ nv.failingSince = f OBVIOUS
<1> HIDE DEF nv
<1>18. series' \in [Seats -> SeriesSet] /\ series'[s] = nv /\ \A x \in Seats : x # s => series'[x] = series[x]
  BY <1>1, <1>3, <1>16
<1>19. [seat |-> s, at |-> now, class |-> o] \in EntrySet BY <1>3 DEF EntrySet
<1>20. history' \in Seq(EntrySet) BY <1>2, <1>3, <1>19
<1> QED BY <1>2, <1>14, <1>15, <1>17, <1>18, <1>20 DEF B, f, k, v

(* The inductive invariant holds at the start and over every step.         *)
LEMMA GoodInit == Init => Good
<1> SUFFICES ASSUME Init PROVE Good OBVIOUS
<1>1. /\ inflight = [s \in Seats |-> 0] /\ served = [s \in Seats |-> -1] /\ up = Seats /\ now = 0
      /\ loads = [s \in Seats |-> [running |-> 0, waiting |-> 0, busy |-> -1]]
      /\ req = [r \in Requests |-> NewRequest] /\ history = <<>>
      /\ series = [s \in Seats |->
           [ buckets |-> [i \in 0 .. WindowMinutes - 1 |-> EmptyBucket(0)],
             failingSince |-> -1, lastFailure |-> -1 ]]
  BY DEF Init
<1>2. MaxTime \in Nat BY BalanceAssumption
<1>3. inflight \in [Seats -> Nat] /\ served \in [Seats -> -1 .. now] /\ up \subseteq Seats /\ now \in Minutes
  BY <1>1, <1>2 DEF Minutes
<1>4. loads \in [Seats -> LoadSet] BY <1>1 DEF LoadSet
<1>5. req \in [Requests -> RequestSet] BY <1>1, NewIs
<1>6. series \in [Seats -> SeriesSet]
  <2>1. EmptyBucket(0) \in BucketSet BY <1>2 DEF EmptyBucket, BucketSet, Minutes
  <2>2. [i \in 0 .. WindowMinutes - 1 |-> EmptyBucket(0)] \in [Ring -> BucketSet] BY <2>1 DEF Ring
  <2> QED BY <1>1, <2>2 DEF SeriesSet
<1>7. history \in Seq(EntrySet) BY <1>1
<1>8. Typed BY <1>3, <1>4, <1>5, <1>6, <1>7 DEF Typed
<1>9. \A r \in Requests : req[r] = NewRequest BY <1>1
<1>10. /\ NewRequest.pc = "new" /\ NewRequest.at = 1 /\ NewRequest.rest = <<>>
       /\ NewRequest.attempt = 0
  BY NewIs
<1>11. Counted
  <2> SUFFICES ASSUME NEW s \in Seats PROVE Fits(Out(req, s), Gone(req), inflight[s]) BY DEF Counted
  <2>1. Out(req, s) = {} /\ Gone(req) = {} BY <1>9, <1>10 DEF Out, Gone
  <2>2. inflight[s] = 0 BY <1>1
  <2>3. {} \cup {} = {} OBVIOUS
  <2>4. Cardinality({}) = 0 BY FS_EmptySet
  <2> QED BY <2>1, <2>2, <2>3, <2>4 DEF Fits
<1>12. Walking(NewRequest) BY <1>10, BaseFacts DEF Walking, Distinct
<1>13. Best(NewRequest) /\ TrackedBy(NewRequest, Pressures) BY <1>10 DEF Best, TrackedBy, Choosing
<1> QED BY <1>8, <1>9, <1>11, <1>12, <1>13 DEF Good, RequestsGood

LEMMA GoodNext == Good /\ [Next]_vars => Good'
<1> SUFFICES ASSUME Good, [Next]_vars PROVE Good' OBVIOUS
<1>1. /\ inflight \in [Seats -> Nat] /\ served \in [Seats -> -1 .. now] /\ loads \in [Seats -> LoadSet]
      /\ up \subseteq Seats /\ now \in Minutes /\ req \in [Requests -> RequestSet]
      /\ series \in [Seats -> SeriesSet] /\ history \in Seq(EntrySet)
  BY DEF Good, Typed
<1>2. ASSUME NEW r \in Requests, Read(r) PROVE Good'
  <2>1. UNCHANGED <<inflight, served, loads, up, now, series, history>>
    BY <1>2 DEF Read, pressureVars, statVars, worldVars
  <2> QED BY <1>1, <1>2, <2>1, ReadGood DEF Good, Typed
<1>3. ASSUME NEW r \in Requests, Resolve(r) PROVE Good'
  <2>1. UNCHANGED <<inflight, served, loads, up, now, series, history>>
    BY <1>3 DEF Resolve, pressureVars, statVars, worldVars
  <2> QED BY <1>1, <1>3, <2>1, ResolveGood DEF Good, Typed
<1>4. ASSUME NEW r \in Requests, Send(r) PROVE Good'
  <2>1. UNCHANGED <<served, loads, up, now, series, history>> BY <1>4 DEF Send, statVars, worldVars
  <2> QED BY <1>1, <1>4, <2>1, SendGood DEF Good, Typed
<1>5. ASSUME NEW r \in Requests, Return(r) PROVE Good'
  <2>1. UNCHANGED <<served, loads, up, now, series, history>> BY <1>5 DEF Return, statVars, worldVars
  <2> QED BY <1>1, <1>5, <2>1, ReturnGood DEF Good, Typed
<1>6. ASSUME NEW r \in Requests, Walking(req[r]), req[r] \in RequestSet
      PROVE  req[r].pc \in {"upstream", "settle"} => req[r].seat \in Seats
  BY <1>6 DEF Walking
<1>7. \A r \in Requests : Walking(req[r]) BY DEF Good, RequestsGood
<1>8. ASSUME NEW r \in Requests, Abort(r) PROVE Good'
  <2>1. UNCHANGED <<inflight, served, loads, up, now>> BY <1>8 DEF Abort, pressureVars, worldVars
  <2>2. PICK o \in {"ok", "client_error", "error"} : Record(req[r].seat, o) BY <1>8 DEF Abort
  <2>3. o \in Outcomes BY DEF Outcomes
  <2>4. req[r].seat \in Seats BY <1>1, <1>6, <1>7, <1>8 DEF Abort
  <2>5. series' \in [Seats -> SeriesSet] /\ history' \in Seq(EntrySet)
    BY <2>2, <2>3, <2>4, RecordIs DEF Good
  <2>6. req' = [req EXCEPT ![r] = Ended(req[r])] BY <1>8 DEF Abort
  <2>7. req' \in [Requests -> RequestSet] /\ RequestsGood' /\ Counted' BY <2>1, <2>6, EndsGood
  <2> QED BY <1>1, <2>1, <2>5, <2>7 DEF Good, Typed
<1>9. ASSUME NEW r \in Requests, Served(r) PROVE Good'
  <2>1. UNCHANGED <<inflight, loads, up, now>> BY <1>9 DEF Served, worldVars
  <2>2. req[r].outcome \in Outcomes /\ Record(req[r].seat, req[r].outcome) BY <1>9 DEF Served, Outcomes
  <2>3. req[r].seat \in Seats BY <1>1, <1>6, <1>7, <1>9 DEF Served
  <2>4. series' \in [Seats -> SeriesSet] /\ history' \in Seq(EntrySet)
    BY <2>2, <2>3, RecordIs DEF Good
  <2> QED BY <1>1, <1>9, <2>1, <2>4, ServedGood DEF Good, Typed
<1>10. ASSUME NEW r \in Requests, Loading(r) PROVE Good'
  <2>1. UNCHANGED <<inflight, served, loads, up, now>> BY <1>10 DEF Loading, pressureVars, worldVars
  <2>2. "loading" \in Outcomes /\ Record(req[r].seat, "loading") BY <1>10 DEF Loading, Outcomes
  <2>3. req[r].seat \in Seats BY <1>1, <1>6, <1>7, <1>10 DEF Loading
  <2>4. series' \in [Seats -> SeriesSet] /\ history' \in Seq(EntrySet)
    BY <2>2, <2>3, RecordIs DEF Good
  <2>5. req' = [req EXCEPT ![r] = Ended(req[r])] BY <1>10 DEF Loading
  <2>6. req' \in [Requests -> RequestSet] /\ RequestsGood' /\ Counted' BY <2>1, <2>5, EndsGood
  <2> QED BY <1>1, <2>1, <2>4, <2>6 DEF Good, Typed
<1>11. ASSUME NEW r \in Requests, FailOver(r) PROVE Good'
  <2>1. UNCHANGED <<inflight, served, loads, up, now>> BY <1>11 DEF FailOver, pressureVars, worldVars
  <2>2. "failed" \in Outcomes /\ Record(req[r].seat, "failed") BY <1>11 DEF FailOver, Outcomes
  <2>3. req[r].seat \in Seats BY <1>1, <1>6, <1>7, <1>11 DEF FailOver
  <2>4. series' \in [Seats -> SeriesSet] /\ history' \in Seq(EntrySet)
    BY <2>2, <2>3, RecordIs DEF Good
  <2> QED BY <1>1, <1>11, <2>1, <2>4, FailOverGood DEF Good, Typed
<1>12. ASSUME SetLoads PROVE Good'
  <2>1. UNCHANGED <<inflight, served, up, now, series, history>> BY <1>12 DEF SetLoads, statVars
  <2> QED BY <1>1, <1>12, <2>1, SetLoadsGood DEF Good, Typed
<1>13. ASSUME Flip PROVE Good'
  <2>1. UNCHANGED <<inflight, served, loads, now, series, history, req>>
    BY <1>13 DEF Flip, pressureVars, statVars
  <2>2. up' \subseteq Seats BY <1>1, <1>13 DEF Flip
  <2>3. Pressures' = Pressures BY <2>1, PressuresSame
  <2>4. RequestsGood' BY <2>1, <2>3 DEF Good, RequestsGood
  <2>5. Counted' BY <2>1 DEF Good, Counted
  <2> QED BY <1>1, <2>1, <2>2, <2>4, <2>5 DEF Good, Typed
<1>14. ASSUME Tick PROVE Good'
  <2>1. UNCHANGED <<inflight, served, loads, up, series, history>> BY <1>14 DEF Tick, pressureVars, statVars
  <2> QED BY <1>1, <1>14, <2>1, TickGood DEF Good, Typed
<1>15. CASE UNCHANGED vars
  <2>1. UNCHANGED <<inflight, served, loads, up, now, series, history, req>>
    BY <1>15 DEF vars, pressureVars, statVars
  <2>2. Pressures' = Pressures BY <2>1, PressuresSame
  <2>3. RequestsGood' BY <2>1, <2>2 DEF Good, RequestsGood
  <2>4. Counted' BY <2>1 DEF Good, Counted
  <2> QED BY <1>1, <2>1, <2>3, <2>4 DEF Good, Typed
<1> QED BY <1>2, <1>3, <1>4, <1>5, <1>8, <1>9, <1>10, <1>11, <1>12, <1>13, <1>14, <1>15
        DEF Next, Handle

(* The inductive invariant of pressure balancing: types, counts between    *)
(* what is owed and what an abort may have left, walks without repetition, *)
(* choices preferred by what was read, and pressures within the drift that *)
(* was counted since (pressure.go, roles.go).                              *)
THEOREM Inductive == Spec => []Good
<1>1. Init => Good BY GoodInit
<1>2. Good /\ [Next]_vars => Good' BY GoodNext
<1> QED BY <1>1, <1>2, PTL DEF Spec

LEMMA GoodCounts == Good => CountsHold
<1> SUFFICES ASSUME Good PROVE CountsHold OBVIOUS
<1>1. /\ inflight \in [Seats -> Nat] /\ served \in [Seats -> -1 .. now] /\ loads \in [Seats -> LoadSet]
      /\ up \subseteq Seats /\ now \in 0 .. MaxTime /\ req \in [Requests -> RequestSet]
      /\ series \in [Seats -> SeriesSet] /\ MaxTime \in Nat
  BY BalanceAssumption DEF Good, Typed, Minutes
<1>2. ASSUME NEW s \in Seats
      PROVE inflight[s] \in 0 .. Cardinality(Requests) /\ inflight[s] >= Cardinality(Upstream(s))
  <2> DEFINE U == Out(req, s)
             W == U \cup Gone(req)
  <2>1. W \subseteq Requests /\ U \subseteq Requests BY DEF Out, Gone
  <2>2. Cardinality(U) <= inflight[s] /\ inflight[s] <= Cardinality(W) BY DEF Good, Counted, Fits
  <2>3. Upstream(s) = U BY DEF Upstream, Out
  <2> HIDE DEF U, W
  <2>4. IsFiniteSet(Requests) BY BalanceAssumption
  <2>5. /\ Cardinality(W) <= Cardinality(Requests) /\ IsFiniteSet(W) /\ IsFiniteSet(U)
    BY <2>1, <2>4, FS_Subset
  <2>6. Cardinality(W) \in Nat /\ Cardinality(U) \in Nat /\ Cardinality(Requests) \in Nat
    BY <2>4, <2>5, FS_CardinalityType
  <2>7. inflight[s] \in Nat BY <1>1
  <2> QED BY <2>2, <2>3, <2>5, <2>6, <2>7
<1>3. inflight \in [Seats -> 0 .. Cardinality(Requests)] BY <1>1, <1>2
<1>4. InflightCovers BY <1>2 DEF InflightCovers
<1>5. served \in [Seats -> -1 .. MaxTime]
  <2>1. \A n \in -1 .. now : n \in -1 .. MaxTime BY <1>1
  <2> QED BY <1>1, <2>1
<1>6. ASSUME NEW r \in Requests
      PROVE  /\ req[r].attempt \in 0 .. MaxFailoverAttempts /\ req[r].seat \in Seats \cup {None}
             /\ ToSet(req[r].rest) \subseteq Seats \ {req[r].seat}
  <2> DEFINE q == req[r]
  <2>1. q \in RequestSet /\ Walking(q) BY <1>1 DEF Good, RequestsGood
  <2> HIDE DEF q
  <2>2. q.attempt \in 0 .. MaxFailoverAttempts /\ q.seat \in Seats \cup {None} /\ q.rest \in Seq(Seats)
    BY <2>1 DEF RequestSet, Named
  <2>3. DOMAIN q.rest = 1 .. Len(q.rest) /\ \A k \in 1 .. Len(q.rest) : q.rest[k] \in Seats
    BY <2>2, LenProperties, ElementOfSeq
  <2>4. \A k \in 1 .. Len(q.rest) : q.rest[k] # q.seat BY <2>1 DEF Walking
  <2>5. ToSet(q.rest) \subseteq Seats \ {q.seat} BY <2>3, <2>4 DEF ToSet
  <2> QED BY <2>2, <2>5 DEF q
<1>7. ASSUME NEW s \in Seats, NEW i \in 0 .. WindowMinutes - 1
      PROVE  series[s].buckets[i].minute \in 0 .. MaxTime
  <2>1. series[s] \in SeriesSet BY <1>1
  <2>2. series[s].buckets \in [Ring -> BucketSet] BY <2>1 DEF SeriesSet
  <2>3. series[s].buckets[i] \in BucketSet BY <2>2 DEF Ring
  <2> QED BY <2>3 DEF BucketSet, Minutes
<1>8. TypeOK BY <1>1, <1>3, <1>5, <1>6, <1>7 DEF TypeOK, LoadSet
<1> QED BY <1>4, <1>8 DEF CountsHold

(* However attempts, failovers and aborts of any number of requests        *)
(* interleave: no count still owed is lost, none exceeds the requests      *)
(* there are, and no walk goes past its retries or offers a seat twice     *)
(* (doneInflight, pressureTracker).                                        *)
THEOREM CountsAreHeld == Spec => []CountsHold
BY Inductive, GoodCounts, PTL

LEMMA GoodChoice == Good => ChoiceJustified
<1> SUFFICES ASSUME Good, NEW r \in Requests, Chose(r)
             PROVE  LET q == req[r] IN
                    /\ ~q.polled => \A t \in q.seenUp \cap q.walkUp :
                         q.seat \in q.seenUp /\ Rank(t) = Rank(q.seat) =>
                           Pressure(q.seat) <= Pressure(t) + q.raced
                    /\ \A t \in q.seenUp \cap q.walkUp :
                         Rank(t) < Rank(q.seat) /\ q.seat \in q.seenUp =>
                           /\ q.seen[q.seat] <= 1 /\ IsOverflow(t) = IsOverflow(q.seat)
                           /\ \A u \in q.seenUp :
                                (\A v \in q.seenUp : Rank(u) <= Rank(v)) => q.seen[u] >= 3
  BY DEF ChoiceJustified, PileUpBounded, RankHolds
<1> DEFINE q == req[r]
<1>1. q \in RequestSet /\ Walking(q) /\ Best(q) /\ TrackedBy(q, Pressures)
  BY DEF Good, Typed, RequestsGood
<1>2. q.pc = "attempt" /\ q.attempt = 0 BY DEF Chose
<1> HIDE DEF q
<1>3. Preferred(q) BY <1>1, <1>2 DEF Best
<1>4. ASSUME ~q.polled, NEW t \in q.seenUp \cap q.walkUp, q.seat \in q.seenUp, Rank(t) = Rank(q.seat)
      PROVE  Pressure(q.seat) <= Pressure(t) + q.raced
  <2>1. q.seen[q.seat] <= q.seen[t] BY <1>3, <1>4 DEF Preferred
  <2>2. q.at = Len(Base) + 1 /\ Len(Base) \in Nat \ {0} BY <1>1, <1>2, BaseFacts DEF Walking
  <2>3. ReadSeats(q) = Seats
    <3>1. q.at - 1 = Len(Base) BY <2>2
    <3>2. \A x \in Seats : \E i \in 1 .. Len(Base) : x = Base[i] BY BaseFacts
    <3> QED BY <3>1, <3>2, BaseFacts DEF ReadSeats
  <2>4. Choosing(q) BY <1>2, <2>2 DEF Choosing
  <2>5. t \in Seats /\ q.seat \in Seats BY <1>1, <1>4 DEF RequestSet
  <2>6. (Pressures[q.seat] - q.seen[q.seat]) - (Pressures[t] - q.seen[t]) <= q.raced
    BY <1>1, <1>4, <2>3, <2>4, <2>5 DEF TrackedBy
  <2>7. /\ Pressures[q.seat] = Pressure(q.seat) /\ Pressures[t] = Pressure(t)
        /\ Pressures[q.seat] \in Int /\ Pressures[t] \in Int
    BY <2>5, PressuresTyped DEF Good, Pressures
  <2>8. q.seen[q.seat] \in Int /\ q.seen[t] \in Int /\ q.raced \in Nat BY <1>1, <2>5 DEF RequestSet
  <2> QED BY <2>1, <2>6, <2>7, <2>8
<1> QED BY <1>3, <1>4 DEF Preferred, q

(* Any number of requests that choose together among any seats pile up on  *)
(* one seat by no more than the changes they raced with, and load beats    *)
(* rank only when the best are jammed and the choice is idle, never across *)
(* the locality boundary (orderByPressure, applyRankOverride).             *)
THEOREM ChoiceIsJustified == Spec => []ChoiceJustified
BY Inductive, GoodChoice, PTL

-----------------------------------------------------------------------------
(* Two minutes of one slot, less than a window apart, are the same one.    *)
LEMMA DivMod == ASSUME NEW w \in Nat \ {0}, NEW a \in Nat PROVE a = w * (a \div w) + (a % w)
OBVIOUS
LEMMA DivModTypes == ASSUME NEW w \in Nat \ {0}, NEW a \in Nat PROVE a \div w \in Int /\ a % w \in 0 .. w - 1
OBVIOUS
LEMMA MultipleBelow == ASSUME NEW w \in Nat \ {0}, NEW q \in Int, NEW p \in Int, NEW r \in Int, NEW d \in Int,
  d = w * q + r - (w * p + r), 0 <= d, d < w PROVE d = 0
<1>1. d = w * (q - p) OBVIOUS
<1>2. q - p \in Int OBVIOUS
<1>3. CASE q - p >= 1
  <2>1. PICK e \in Nat : q - p = e + 1 BY <1>3
  <2>2. w * (e + 1) = w * e + w OBVIOUS
  <2>3. w * e >= 0 OBVIOUS
  <2> QED BY <1>1, <2>1, <2>2, <2>3
<1>4. CASE q - p <= -1
  <2>1. PICK e \in Nat : q - p = -1 - e BY <1>4
  <2>2. w * (-1 - e) = -(w * e) - w OBVIOUS
  <2>3. w * e >= 0 OBVIOUS
  <2> QED BY <1>1, <2>1, <2>2, <2>3
<1>5. CASE q - p = 0
  BY <1>1, <1>5
<1> QED BY <1>2, <1>3, <1>4, <1>5
LEMMA ModDistinct ==
  ASSUME NEW w \in Nat \ {0}, NEW a \in Nat, NEW b \in Nat, a <= b, b - a < w, a % w = b % w
  PROVE  a = b
<1>1. a = w * (a \div w) + (a % w) /\ b = w * (b \div w) + (b % w) BY DivMod
<1>2. a \div w \in Int /\ b \div w \in Int /\ a % w \in 0 .. w - 1 BY DivModTypes
<1> DEFINE d == b - a
<1>3. d = w * (b \div w) + (a % w) - (w * (a \div w) + (a % w)) BY <1>1
<1>4. d \in Int /\ 0 <= d /\ d < w OBVIOUS
<1>5. a % w \in Int BY <1>2
<1>6. d = 0
  <2> HIDE DEF d
  <2> QED BY <1>2, <1>3, <1>4, <1>5, MultipleBelow
<1> QED BY <1>6

(* Induction over the naturals, in the form the provers can use.           *)
LEMMA Induct ==
  ASSUME NEW T, 0 \in T, \A n \in Nat : n \in T => n + 1 \in T
  PROVE  \A n \in Nat : n \in T
<1> SUFFICES ASSUME NEW m \in Nat, m \notin T PROVE FALSE OBVIOUS
<1> DEFINE B == {n \in Nat : n \notin T}
<1>1. B \subseteq Nat /\ B # {} OBVIOUS
<1>2. \A n \in B : n \in Nat /\ n \notin T OBVIOUS
<1>3. \A n \in Nat : n \notin B => n \in T OBVIOUS
<1> HIDE DEF B
<1>4. PICK x \in B : \A j \in B : x <= j BY <1>1, SmallestNat
<1>5. x \in Nat /\ x # 0 BY <1>2, <1>4
<1>6. x - 1 \in Nat /\ ~(x <= x - 1) /\ (x - 1) + 1 = x BY <1>5
<1>7. x - 1 \in T BY <1>3, <1>4, <1>6
<1> QED BY <1>2, <1>4, <1>6, <1>7

(* A sum of the sizes of a finite set's classes is the size of their       *)
(* union: what the fold over the buckets of a window computes.             *)
Pick(s) == CHOOSE x \in s : TRUE
Class(H, a, x) == {k \in H : a[k] = x}
Classes(H, a, s) == {k \in H : a[k] \in s}
Sums(f, S, g) ==
  g = [s \in SUBSET S |-> IF s = {} THEN 0 ELSE f[Pick(s)] + g[s \ {Pick(s)}]]

LEMMA ClassesAdd ==
  ASSUME NEW H, IsFiniteSet(H), NEW a, NEW s, NEW x \in s
  PROVE  /\ Cardinality(Classes(H, a, s)) =
              Cardinality(Class(H, a, x)) + Cardinality(Classes(H, a, s \ {x}))
         /\ Cardinality(Classes(H, a, s)) \in Nat
<1> DEFINE A == Class(H, a, x)
           B == Classes(H, a, s \ {x})
<1>1. A \subseteq H /\ B \subseteq H /\ A \cap B = {} /\ Classes(H, a, s) = A \cup B
      /\ Classes(H, a, s) \subseteq H
  BY DEF Class, Classes
<1>2. IsFiniteSet(A) /\ IsFiniteSet(B) /\ IsFiniteSet(Classes(H, a, s)) BY <1>1, FS_Subset
<1>3. Cardinality(Classes(H, a, s)) \in Nat /\ Cardinality(A) \in Nat /\ Cardinality(B) \in Nat
  BY <1>2, FS_CardinalityType
<1> HIDE DEF A, B
<1>4. Cardinality(A \cup B) = Cardinality(A) + Cardinality(B) - Cardinality(A \cap B)
  BY <1>2, FS_Union
<1>5. Cardinality(A \cap B) = 0 BY <1>1, FS_EmptySet
<1>6. Cardinality(Classes(H, a, s)) = Cardinality(A) + Cardinality(B) BY <1>1, <1>3, <1>4, <1>5
<1> QED BY <1>3, <1>6 DEF A, B

LEMMA ClassesSum ==
  ASSUME NEW H, IsFiniteSet(H), NEW S, NEW a, NEW f,
         \A i \in S : f[i] = Cardinality(Class(H, a, i))
  PROVE  Sums(f, S, [s \in SUBSET S |-> Cardinality(Classes(H, a, s))])
<1> DEFINE g == [s \in SUBSET S |-> Cardinality(Classes(H, a, s))]
           h == [s \in SUBSET S |-> IF s = {} THEN 0 ELSE f[Pick(s)] + g[s \ {Pick(s)}]]
<1>1. ASSUME NEW s \in SUBSET S
      PROVE  g[s] = IF s = {} THEN 0 ELSE f[Pick(s)] + g[s \ {Pick(s)}]
  <2>1. CASE s = {}
    <3>1. Classes(H, a, s) = {} BY <2>1 DEF Classes
    <3> QED BY <2>1, <3>1, FS_EmptySet
  <2>2. CASE s # {}
    <3>1. Pick(s) \in s BY <2>2 DEF Pick
    <3>2. s \ {Pick(s)} \in SUBSET S OBVIOUS
    <3>3. f[Pick(s)] = Cardinality(Class(H, a, Pick(s))) BY <3>1
    <3>4. Cardinality(Classes(H, a, s)) =
            Cardinality(Class(H, a, Pick(s))) + Cardinality(Classes(H, a, s \ {Pick(s)}))
      BY <3>1, ClassesAdd
    <3> QED BY <2>2, <3>2, <3>3, <3>4
  <2> QED BY <2>1, <2>2
<1>2. g = h BY <1>1
<1> QED BY <1>2 DEF Sums

(* The recursion has one solution on a finite set.                         *)
LEMMA SumsUnique ==
  ASSUME NEW f, NEW S, IsFiniteSet(S), NEW g, Sums(f, S, g), NEW h, Sums(f, S, h)
  PROVE  g[S] = h[S]
<1> DEFINE T == {n \in Nat : \A s \in SUBSET S : Cardinality(s) = n => g[s] = h[s]}
<1>1. ASSUME NEW s \in SUBSET S
      PROVE  /\ IsFiniteSet(s) /\ Cardinality(s) \in Nat
             /\ g[s] = IF s = {} THEN 0 ELSE f[Pick(s)] + g[s \ {Pick(s)}]
             /\ h[s] = IF s = {} THEN 0 ELSE f[Pick(s)] + h[s \ {Pick(s)}]
  <2>1. IsFiniteSet(s) BY FS_Subset
  <2>2. Cardinality(s) \in Nat BY <2>1, FS_CardinalityType
  <2> QED BY <2>1, <2>2 DEF Sums
<1>2. 0 \in T
  <2> SUFFICES ASSUME NEW s \in SUBSET S, Cardinality(s) = 0 PROVE g[s] = h[s] OBVIOUS
  <2>1. s = {} BY <1>1, FS_EmptySet
  <2> QED BY <1>1, <2>1
<1>3. ASSUME NEW n \in Nat, n \in T PROVE n + 1 \in T
  <2> SUFFICES ASSUME NEW s \in SUBSET S, Cardinality(s) = n + 1 PROVE g[s] = h[s] OBVIOUS
  <2>1. s # {} BY <1>1, FS_EmptySet
  <2>2. Pick(s) \in s BY <2>1 DEF Pick
  <2> DEFINE t == s \ {Pick(s)}
  <2>3. t \in SUBSET S OBVIOUS
  <2>4. Cardinality(t) = Cardinality(s) - 1 BY <1>1, <2>2, FS_RemoveElement
  <2>5. Cardinality(t) = n BY <2>4
  <2> HIDE DEF t
  <2>6. g[t] = h[t] BY <1>3, <2>3, <2>5
  <2> QED BY <1>1, <2>1, <2>6 DEF t
<1>4. \A n \in Nat : n \in T
  <2> HIDE DEF T
  <2> QED BY <1>2, <1>3, Induct
<1>5. S \in SUBSET S /\ Cardinality(S) \in Nat BY FS_CardinalityType
<1> QED BY <1>4, <1>5

LEMMA SumIsCount ==
  ASSUME NEW H, IsFiniteSet(H), NEW S, IsFiniteSet(S), NEW a, NEW f,
         \A i \in S : f[i] = Cardinality(Class(H, a, i))
  PROVE  SumOver(f, S) = Cardinality(Classes(H, a, S))
<1> DEFINE iter == CHOOSE g : g = [s \in SUBSET S |->
             IF s = {} THEN 0 ELSE f[CHOOSE x \in s : TRUE] + g[s \ {CHOOSE x \in s : TRUE}]]
           c == [s \in SUBSET S |-> Cardinality(Classes(H, a, s))]
<1>1. SumOver(f, S) = iter[S]
  BY DEF SumOver, FoldFunctionOnSet, MapThenFoldSet
<1>2. Sums(f, S, c) BY ClassesSum
<1>3. \E g : Sums(f, S, g)
  <2> HIDE DEF c
  <2> QED BY <1>2
<1>4. iter = CHOOSE g : Sums(f, S, g) BY DEF Sums, Pick
<1> HIDE DEF iter
<1>5. Sums(f, S, iter) BY <1>3, <1>4
<1>6. c[S] = Cardinality(Classes(H, a, S)) OBVIOUS
<1> HIDE DEF c
<1>7. iter[S] = c[S] BY <1>2, <1>5, SumsUnique
<1> QED BY <1>1, <1>6, <1>7

(* How an attempt more shows in the history of a seat.                     *)
Grown(h, g, e) ==
  /\ Len(h) \in Nat /\ Len(g) = Len(h) + 1 /\ DOMAIN h = 1 .. Len(h) /\ DOMAIN g = 1 .. Len(h) + 1
  /\ (\A k \in 1 .. Len(h) : g[k] = h[k]) /\ g[Len(h) + 1] = e

LEMMA AppendGrows ==
  ASSUME NEW S, NEW h \in Seq(S), NEW e \in S
  PROVE  Grown(h, Append(h, e), e)
BY AppendProperties, LenProperties DEF Grown

LEMMA HistoryFinite ==
  ASSUME NEW h \in Seq(EntrySet), NEW s, NEW m
  PROVE  /\ IsFiniteSet(AllOf(h, s, m)) /\ IsFiniteSet(FailedOf(h, s, m)) /\ IsFiniteSet(DOMAIN h)
         /\ Cardinality(AllOf(h, s, m)) \in Nat /\ Cardinality(FailedOf(h, s, m)) \in Nat
<1>1. Len(h) \in Nat /\ DOMAIN h = 1 .. Len(h) BY LenProperties
<1>2. IsFiniteSet(1 .. Len(h)) BY <1>1, FS_Interval
<1>3. AllOf(h, s, m) \subseteq 1 .. Len(h) /\ FailedOf(h, s, m) \subseteq 1 .. Len(h)
  BY <1>1 DEF AllOf, FailedOf
<1>4. IsFiniteSet(AllOf(h, s, m)) /\ IsFiniteSet(FailedOf(h, s, m)) BY <1>2, <1>3, FS_Subset
<1> QED BY <1>1, <1>2, <1>4, FS_CardinalityType

LEMMA GrownElsewhere ==
  ASSUME NEW h, NEW g, NEW e, Grown(h, g, e), NEW s, NEW m, e.seat # s \/ e.at # m
  PROVE  AllOf(g, s, m) = AllOf(h, s, m) /\ FailedOf(g, s, m) = FailedOf(h, s, m)
<1>1. \A k \in DOMAIN g : k \in DOMAIN h \/ k = Len(h) + 1 BY DEF Grown
<1>2. \A k \in DOMAIN h : k \in DOMAIN g /\ g[k] = h[k] BY DEF Grown
<1>3. g[Len(h) + 1] = e BY DEF Grown
<1>4. AllOf(g, s, m) = AllOf(h, s, m) BY <1>1, <1>2, <1>3 DEF AllOf
<1>5. \A k \in AllOf(h, s, m) : g[k] = h[k] BY <1>2 DEF AllOf
<1> QED BY <1>4, <1>5 DEF FailedOf

LEMMA GrownHere ==
  ASSUME NEW h \in Seq(EntrySet), NEW g, NEW e, Grown(h, g, e)
  PROVE  /\ Cardinality(AllOf(g, e.seat, e.at)) = Cardinality(AllOf(h, e.seat, e.at)) + 1
         /\ Cardinality(FailedOf(g, e.seat, e.at)) =
              Cardinality(FailedOf(h, e.seat, e.at)) + Failed(e.class)
<1> DEFINE n == Len(h) + 1
           A == AllOf(h, e.seat, e.at)
           B == AllOf(g, e.seat, e.at)
           C == FailedOf(h, e.seat, e.at)
           D == FailedOf(g, e.seat, e.at)
<1>1. /\ n \notin DOMAIN h /\ n \in DOMAIN g /\ g[n] = e
      /\ \A k \in DOMAIN g : k \in DOMAIN h \/ k = n
      /\ \A k \in DOMAIN h : k \in DOMAIN g /\ g[k] = h[k]
  BY DEF Grown
<1>2. IsFiniteSet(A) /\ IsFiniteSet(C) /\ Cardinality(A) \in Nat /\ Cardinality(C) \in Nat
  BY HistoryFinite
<1> HIDE DEF n
<1>3. n \notin A /\ n \notin C BY <1>1 DEF AllOf, FailedOf
<1>4. B = A \cup {n} BY <1>1 DEF AllOf
<1>5. Cardinality(B) = Cardinality(A) + 1 BY <1>2, <1>3, <1>4, FS_AddElement
<1>6. \A k \in A : g[k] = h[k] BY <1>1 DEF AllOf
<1>7. CASE IsUpstreamFailure(e.class)
  <2>1. D = C \cup {n} BY <1>1, <1>4, <1>6, <1>7 DEF FailedOf
  <2>2. Cardinality(D) = Cardinality(C) + 1 BY <1>2, <1>3, <2>1, FS_AddElement
  <2> QED BY <1>5, <1>7, <2>2 DEF Failed
<1>8. CASE ~IsUpstreamFailure(e.class)
  <2>1. D = C BY <1>1, <1>4, <1>6, <1>8 DEF FailedOf
  <2>2. Cardinality(C) = Cardinality(C) + 0 BY <1>2
  <2> QED BY <1>5, <1>8, <2>1, <2>2 DEF Failed
<1> QED BY <1>7, <1>8

(* The streak of a seat grows with its own failures, ends with its own     *)
(* success, and nothing else touches it.                                   *)
StreakMoves(h, g, e, s) ==
  /\ FailuresOf(h, s) \subseteq 1 .. Len(h)
  /\ \A k \in FailuresOf(h, s) : g[k] = h[k]
  /\ e.seat # s \/ ~(IsUpstreamFailure(e.class) \/ e.class = "ok") =>
       FailuresOf(g, s) = FailuresOf(h, s)
  /\ e.seat = s /\ e.class = "ok" => FailuresOf(g, s) = {}
  /\ e.seat = s /\ IsUpstreamFailure(e.class) =>
       FailuresOf(g, s) = FailuresOf(h, s) \cup {Len(h) + 1}
LEMMA FailuresGrow ==
  ASSUME NEW h, NEW g, NEW e, Grown(h, g, e), NEW s
  PROVE  StreakMoves(h, g, e, s)
<1> DEFINE n == Len(h) + 1
           Late(f, i) == \A j \in i .. Len(f) : f[j].seat = s => f[j].class # "ok"
<1>1. /\ Len(h) \in Nat /\ Len(g) = n /\ DOMAIN h = 1 .. Len(h) /\ DOMAIN g = 1 .. n
      /\ (\A k \in 1 .. Len(h) : g[k] = h[k]) /\ g[n] = e
  BY DEF Grown
<1>2. \A f : FailuresOf(f, s) = {i \in DOMAIN f : f[i].seat = s /\ IsUpstreamFailure(f[i].class) /\ Late(f, i)}
  BY DEF FailuresOf
<1>3. ASSUME NEW i \in 1 .. Len(h)
      PROVE  Late(g, i) <=> (Late(h, i) /\ (e.seat = s => e.class # "ok"))
  <2>1. \A j : j \in i .. n <=> j \in i .. Len(h) \/ j = n BY <1>1
  <2>2. \A j \in i .. Len(h) : g[j] = h[j] BY <1>1
  <2> QED BY <1>1, <2>1, <2>2
<1>4. Late(g, n) <=> (e.seat = s => e.class # "ok")
  <2>1. \A j : j \in n .. n <=> j = n BY <1>1
  <2> QED BY <1>1, <2>1
<1>5. IsUpstreamFailure(e.class) => e.class # "ok" BY DEF IsUpstreamFailure
<1> HIDE DEF Late
<1>6. \A i : i \in DOMAIN g <=> i \in DOMAIN h \/ i = n BY <1>1
<1>7. \A i \in DOMAIN h : g[i] = h[i] /\ (Late(g, i) <=> (Late(h, i) /\ (e.seat = s => e.class # "ok")))
  BY <1>1, <1>3
<1>8. FailuresOf(h, s) \subseteq 1 .. Len(h) BY <1>1, <1>2
<1>9. FailuresOf(g, s) = {i \in DOMAIN g : g[i].seat = s /\ IsUpstreamFailure(g[i].class) /\ Late(g, i)}
  BY <1>2
<1>10. FailuresOf(h, s) = {i \in DOMAIN h : h[i].seat = s /\ IsUpstreamFailure(h[i].class) /\ Late(h, i)}
  BY <1>2
<1>11. g[n] = e BY <1>1
<1> HIDE DEF n
<1>12. e.seat # s \/ ~(IsUpstreamFailure(e.class) \/ e.class = "ok") => FailuresOf(g, s) = FailuresOf(h, s)
  BY <1>6, <1>7, <1>9, <1>10, <1>11
<1>13. e.seat = s /\ e.class = "ok" => FailuresOf(g, s) = {}
  BY <1>4, <1>6, <1>7, <1>9, <1>11
<1>14. e.seat = s /\ IsUpstreamFailure(e.class) => FailuresOf(g, s) = FailuresOf(h, s) \cup {n}
  BY <1>4, <1>5, <1>6, <1>7, <1>9, <1>10, <1>11
<1> QED BY <1>1, <1>8, <1>12, <1>13, <1>14 DEF n, StreakMoves

(* The first failure of a streak.                                          *)
First(F) == CHOOSE i \in F : \A j \in F : i <= j
LEMMA FirstIs ==
  ASSUME NEW F, F \subseteq Nat, NEW i \in F, \A j \in F : i <= j
  PROVE  First(F) = i
<1>1. First(F) \in F /\ \A j \in F : First(F) <= j BY DEF First
<1> HIDE DEF First
<1>2. First(F) \in Nat /\ i \in Nat /\ First(F) <= i /\ i <= First(F) BY <1>1
<1> QED BY <1>2

LEMMA SinceGrows ==
  ASSUME NEW h \in Seq(EntrySet), NEW g, NEW e \in EntrySet, Grown(h, g, e),
         NEW s, NEW since, SinceIs(h, s, since), NEW then,
         e.seat # s => then = since,
         e.seat = s /\ IsUpstreamFailure(e.class) => then = IF since = -1 THEN e.at ELSE since,
         e.seat = s /\ e.class = "ok" => then = -1,
         e.seat = s /\ e.class = "client_error" => then = since
  PROVE  SinceIs(g, s, then)
<1> DEFINE F == FailuresOf(h, s)
           G == FailuresOf(g, s)
           n == Len(h) + 1
<1>1. /\ F \subseteq 1 .. Len(h) /\ \A k \in F : g[k] = h[k]
      /\ e.seat # s \/ ~(IsUpstreamFailure(e.class) \/ e.class = "ok") => G = F
      /\ e.seat = s /\ e.class = "ok" => G = {}
      /\ e.seat = s /\ IsUpstreamFailure(e.class) => G = F \cup {n}
  <2>1. StreakMoves(h, g, e, s) BY FailuresGrow
  <2> QED BY <2>1 DEF StreakMoves
<1>2. since = IF F = {} THEN -1 ELSE h[First(F)].at BY DEF SinceIs, First
<1>3. SinceIs(g, s, then) <=> then = IF G = {} THEN -1 ELSE g[First(G)].at BY DEF SinceIs, First
<1>4. Len(h) \in Nat /\ g[n] = e /\ DOMAIN h = 1 .. Len(h) BY DEF Grown
<1>5. F \subseteq Nat /\ F \subseteq DOMAIN h /\ n \in Nat /\ \A k \in F : k <= n BY <1>1, <1>4
<1>6. e.class \in Outcomes BY DEF EntrySet
<1>7. e.class = "ok" \/ e.class = "client_error" \/ IsUpstreamFailure(e.class)
  BY <1>6 DEF Outcomes, IsUpstreamFailure
<1> HIDE DEF F, G, n
<1>8. F # {} => First(F) \in F /\ \A j \in F : First(F) <= j
  <2> SUFFICES ASSUME F # {} PROVE First(F) \in F /\ \A j \in F : First(F) <= j OBVIOUS
  <2>1. \E i \in F : \A j \in F : i <= j BY <1>5, SmallestNat
  <2> QED BY <2>1 DEF First
<1>9. CASE G = F
  <2>1. then = since
    <3>1. e.seat = s /\ IsUpstreamFailure(e.class) => n \in F BY <1>1, <1>9
    <3>2. n \notin F BY <1>1, <1>4, <1>5 DEF n
    <3>3. e.seat = s /\ e.class = "ok" => since = -1 BY <1>1, <1>2, <1>9
    <3> QED BY <1>7, <3>1, <3>2, <3>3
  <2>2. F # {} => g[First(F)] = h[First(F)] BY <1>1, <1>8
  <2> QED BY <1>2, <1>3, <1>9, <2>1, <2>2
<1>10. CASE e.seat = s /\ e.class = "ok" BY <1>1, <1>3, <1>10
<1>11. CASE e.seat = s /\ IsUpstreamFailure(e.class)
  <2>1. G = F \cup {n} BY <1>1, <1>11
  <2>2. CASE F = {}
    <3>1. G = {n} BY <2>1, <2>2
    <3>2. First(G) = n BY <1>5, <3>1, FirstIs
    <3> QED BY <1>2, <1>3, <1>4, <1>11, <2>2, <3>1, <3>2
  <2>3. CASE F # {}
    <3>1. /\ First(F) \in G /\ G \subseteq Nat /\ \A j \in G : First(F) <= j
      BY <1>5, <1>8, <2>1, <2>3
    <3>2. First(G) = First(F) BY <3>1, FirstIs
    <3>3. h[First(F)] \in EntrySet BY <1>5, <1>8, <2>3, ElementOfSeq, LenProperties
    <3>4. h[First(F)].at # -1 BY <3>3, BalanceAssumption DEF EntrySet, Minutes
    <3>5. then = since BY <1>2, <1>11, <2>3, <3>4
    <3>6. g[First(F)] = h[First(F)] BY <1>1, <1>8, <2>3
    <3> QED BY <1>2, <1>3, <2>1, <2>3, <3>2, <3>5, <3>6
  <2> QED BY <2>2, <2>3
<1> QED BY <1>1, <1>7, <1>9, <1>10, <1>11

(* Recording an attempt keeps a seat's statistics its history.             *)
LEMMA RecordKeeps ==
  ASSUME Typed, StatsGood, NEW s \in Seats, NEW o \in Outcomes, Record(s, o), now' = now
  PROVE  StatsGood'
<1> DEFINE h == history
           g == history'
           e == [seat |-> s, at |-> now, class |-> o]
           W == WindowMinutes
<1>1. /\ series' \in [Seats -> SeriesSet] /\ history' = Append(history, e)
      /\ \A x \in Seats : x # s => series'[x] = series[x]
      /\ series'[s].failingSince = Streak(s, o)
      /\ \A i \in Ring : i # Slot => series'[s].buckets[i] = series[s].buckets[i]
      /\ series'[s].buckets[Slot].minute = now
      /\ series'[s].buckets[Slot].total = BucketNow(s).total + 1
      /\ series'[s].buckets[Slot].failed = BucketNow(s).failed + Failed(o)
  BY RecordIs
<1>2. now \in Minutes /\ now \in Nat /\ h \in Seq(EntrySet) /\ W \in Nat \ {0} /\ MaxTime \in Nat
  BY BalanceAssumption DEF Typed, Minutes
<1>3. e \in EntrySet BY <1>2 DEF EntrySet
<1>4. e.seat = s /\ e.at = now /\ e.class = o OBVIOUS
<1>5. Grown(h, g, e)
  <2> HIDE DEF e
  <2> QED BY <1>1, <1>2, <1>3, AppendGrows
<1>6. /\ \A x \in Seats, i \in Ring : BucketFits(h, now, x, i, series[x].buckets[i])
      /\ Kept(h, now, series)
      /\ \A x \in Seats : SinceIs(h, x, series[x].failingSince)
  BY DEF StatsGood
<1>7. Slot \in Ring BY <1>2, SlotInRing DEF Slot
<1> HIDE DEF e, g, h
<1>8. ASSUME NEW k \in DOMAIN h
      PROVE  /\ h[k].seat \in Seats /\ h[k].at \in Nat /\ h[k].at <= now
             /\ now - h[k].at < W =>
                  series[h[k].seat].buckets[h[k].at % W].minute = h[k].at
  <2>1. h[k] \in EntrySet BY <1>2, ElementOfSeq, LenProperties
  <2>2. h[k].seat \in Seats /\ h[k].at \in Nat BY <1>2, <2>1 DEF EntrySet, Minutes
  <2> QED BY <1>6, <2>2 DEF Kept
<1>9. \A k \in DOMAIN g : (k \in DOMAIN h /\ g[k] = h[k]) \/ g[k] = e BY <1>5 DEF Grown
<1>10. ASSUME NEW x \in Seats, NEW i \in Ring
       PROVE  BucketFits(g, now, x, i, series'[x].buckets[i])
  <2> DEFINE b == series[x].buckets[i]
  <2>1. BucketFits(h, now, x, i, b) BY <1>6
  <2>2. ASSUME series'[x].buckets[i] = b, x # s \/ i # Slot PROVE BucketFits(g, now, x, i, b)
    <3> HIDE DEF b
    <3>1. b.minute <= now BY <2>1 DEF BucketFits
    <3>2. CASE /\ i = b.minute % W
               /\ b.total = Cardinality(AllOf(h, x, b.minute))
               /\ b.failed = Cardinality(FailedOf(h, x, b.minute))
      <4>1. e.seat # x \/ e.at # b.minute BY <1>4, <2>2, <3>2 DEF Slot
      <4>2. AllOf(g, x, b.minute) = AllOf(h, x, b.minute) /\ FailedOf(g, x, b.minute) = FailedOf(h, x, b.minute)
        BY <1>5, <4>1, GrownElsewhere
      <4> QED BY <3>1, <3>2, <4>2 DEF BucketFits
    <3>3. CASE /\ b.total = 0 /\ b.failed = 0
               /\ \A k \in DOMAIN h : h[k].seat = x => h[k].at % W # i
      <4>1. e.seat = x => e.at % W # i BY <1>4, <2>2 DEF Slot
      <4>2. \A k \in DOMAIN g : g[k].seat = x => g[k].at % W # i BY <1>9, <3>3, <4>1
      <4> QED BY <3>1, <3>3, <4>2 DEF BucketFits
    <3> QED BY <2>1, <3>2, <3>3 DEF BucketFits
  <2>3. CASE x # s BY <1>1, <2>2, <2>3
  <2>4. CASE x = s /\ i # Slot BY <1>1, <2>2, <2>4
  <2>5. CASE x = s /\ i = Slot
    <3> DEFINE B == BucketNow(s)
    <3>1. B.total = Cardinality(AllOf(h, s, now)) /\ B.failed = Cardinality(FailedOf(h, s, now))
      <4>1. AllOf(h, s, now) = {} =>
              Cardinality(AllOf(h, s, now)) = 0 /\ Cardinality(FailedOf(h, s, now)) = 0
        <5>1. FailedOf(h, s, now) \subseteq AllOf(h, s, now) BY DEF FailedOf
        <5> QED BY <5>1, FS_EmptySet
      <4>2. CASE b.minute # now
        <5>1. B = EmptyBucket(now) BY <2>5, <4>2 DEF BucketNow, Slot
        <5>2. B.total = 0 /\ B.failed = 0 BY <5>1 DEF EmptyBucket
        <5>3. ASSUME NEW k \in AllOf(h, s, now) PROVE FALSE
          <6>1. k \in DOMAIN h /\ h[k].seat = s /\ h[k].at = now BY DEF AllOf
          <6>2. now - now < W BY <1>2
          <6>3. series[s].buckets[now % W].minute = now BY <1>8, <6>1, <6>2
          <6> QED BY <2>5, <4>2, <6>3 DEF Slot
        <5> HIDE DEF B
        <5> QED BY <4>1, <5>2, <5>3
      <4>3. CASE b.minute = now
        <5>1. B = b BY <2>5, <4>3 DEF BucketNow, Slot
        <5> HIDE DEF B, b
        <5>2. CASE /\ b.total = 0 /\ b.failed = 0
                   /\ \A k \in DOMAIN h : h[k].seat = x => h[k].at % W # i
          <6>1. AllOf(h, s, now) = {} BY <2>5, <5>2 DEF AllOf, Slot
          <6> QED BY <4>1, <5>1, <5>2, <6>1
        <5>3. CASE /\ b.total = Cardinality(AllOf(h, x, b.minute))
                   /\ b.failed = Cardinality(FailedOf(h, x, b.minute))
          BY <2>5, <4>3, <5>1, <5>3
        <5> QED BY <2>1, <5>2, <5>3 DEF BucketFits
      <4> QED BY <4>2, <4>3
    <3> HIDE DEF B
    <3> DEFINE nb == series'[s].buckets[Slot]
    <3>2. /\ Cardinality(AllOf(g, s, now)) = Cardinality(AllOf(h, s, now)) + 1
          /\ Cardinality(FailedOf(g, s, now)) = Cardinality(FailedOf(h, s, now)) + Failed(o)
      BY <1>2, <1>4, <1>5, GrownHere
    <3>3. nb.minute = now /\ nb.total = B.total + 1 /\ nb.failed = B.failed + Failed(o)
      BY <1>1 DEF B
    <3>4. series'[x].buckets[i] = nb BY <2>5
    <3> HIDE DEF nb
    <3>5. now <= now /\ Slot = now % W BY <1>2 DEF Slot
    <3>6. nb.total = Cardinality(AllOf(g, s, now)) /\ nb.failed = Cardinality(FailedOf(g, s, now))
      BY <3>1, <3>2, <3>3
    <3>7. BucketFits(g, now, s, Slot, nb) BY <3>3, <3>5, <3>6 DEF BucketFits
    <3> QED BY <2>5, <3>4, <3>7
  <2> QED BY <2>3, <2>4, <2>5
<1>11. Kept(g, now, series')
  <2> SUFFICES ASSUME NEW k \in DOMAIN g
               PROVE  /\ g[k].at <= now
                      /\ now - g[k].at < W =>
                           series'[g[k].seat].buckets[g[k].at % W].minute = g[k].at
    BY DEF Kept
  <2>1. CASE g[k] = e
    <3>1. now <= now BY <1>2
    <3> QED BY <1>1, <1>4, <2>1, <3>1 DEF Slot
  <2>2. CASE k \in DOMAIN h /\ g[k] = h[k]
    <3> DEFINE a == h[k].at
               x == h[k].seat
    <3>1. x \in Seats /\ a \in Nat /\ a <= now BY <1>8, <2>2
    <3>2. ASSUME now - a < W PROVE series'[x].buckets[a % W].minute = a
      <4>1. series[x].buckets[a % W].minute = a BY <1>8, <2>2, <3>2
      <4>2. a % W \in Ring BY <3>1, SlotInRing
      <4> HIDE DEF a, x
      <4>3. CASE x # s BY <1>1, <3>1, <4>1, <4>3
      <4>4. CASE x = s /\ a % W # Slot BY <1>1, <4>1, <4>2, <4>4
      <4>5. CASE x = s /\ a % W = Slot
        <5>1. a % W = now % W BY <4>5 DEF Slot
        <5>2. a = now BY <1>2, <3>1, <3>2, <5>1, ModDistinct
        <5> QED BY <1>1, <4>5, <5>2
      <4> QED BY <4>3, <4>4, <4>5
    <3> QED BY <2>2, <3>1, <3>2
  <2> QED BY <1>9, <2>1, <2>2
<1>12. ASSUME NEW x \in Seats PROVE SinceIs(g, x, series'[x].failingSince)
  <2> DEFINE since == series[x].failingSince
             then == series'[x].failingSince
  <2>1. SinceIs(h, x, since) BY <1>6
  <2>2. /\ e.seat # x => then = since
        /\ e.seat = x /\ IsUpstreamFailure(e.class) => then = IF since = -1 THEN e.at ELSE since
        /\ e.seat = x /\ e.class = "ok" => then = -1
        /\ e.seat = x /\ e.class = "client_error" => then = since
    BY <1>1, <1>4 DEF Streak, IsUpstreamFailure
  <2> HIDE DEF since, then
  <2>3. SinceIs(g, x, then) BY <1>2, <1>3, <1>5, <2>1, <2>2, SinceGrows
  <2> QED BY <2>3 DEF then
<1> QED BY <1>10, <1>11, <1>12 DEF StatsGood, g

-----------------------------------------------------------------------------
(* The statistics change by recording an attempt of a seat, or age.        *)
LEMMA StatSteps ==
  ASSUME Good, [Next]_vars
  PROVE  \/ UNCHANGED <<series, history, now>>
         \/ UNCHANGED <<series, history>> /\ now' = now + 1
         \/ now' = now /\ \E s \in Seats, o \in Outcomes : Record(s, o)
<1>1. ASSUME NEW r \in Requests, req[r].pc \in {"upstream", "settle"} PROVE req[r].seat \in Seats
  BY <1>1 DEF Good, RequestsGood, Walking
<1>2. ASSUME NEW r \in Requests, Abort(r) PROVE now' = now /\ \E s \in Seats, o \in Outcomes : Record(s, o)
  <2>1. PICK o \in {"ok", "client_error", "error"} : Record(req[r].seat, o) BY <1>2 DEF Abort
  <2>2. o \in Outcomes /\ req[r].seat \in Seats BY <1>1, <1>2 DEF Abort, Outcomes
  <2> QED BY <1>2, <2>1, <2>2 DEF Abort, worldVars
<1>3. ASSUME NEW r \in Requests, Served(r) PROVE now' = now /\ \E s \in Seats, o \in Outcomes : Record(s, o)
  BY <1>1, <1>3 DEF Served, worldVars, Outcomes
<1>4. ASSUME NEW r \in Requests, Loading(r) PROVE now' = now /\ \E s \in Seats, o \in Outcomes : Record(s, o)
  BY <1>1, <1>4 DEF Loading, worldVars, Outcomes
<1>5. ASSUME NEW r \in Requests, FailOver(r) PROVE now' = now /\ \E s \in Seats, o \in Outcomes : Record(s, o)
  BY <1>1, <1>5 DEF FailOver, worldVars, Outcomes
<1>6. ASSUME NEW r \in Requests, Read(r) \/ Resolve(r) \/ Send(r) \/ Return(r)
      PROVE  UNCHANGED <<series, history, now>>
  BY <1>6 DEF Read, Resolve, Send, Return, statVars, worldVars
<1>7. SetLoads \/ Flip \/ UNCHANGED vars => UNCHANGED <<series, history, now>>
  BY DEF SetLoads, Flip, vars, statVars
<1>8. Tick => UNCHANGED <<series, history>> /\ now' = now + 1 BY DEF Tick, statVars
<1> QED BY <1>2, <1>3, <1>4, <1>5, <1>6, <1>7, <1>8 DEF Next, Handle

LEMMA StatsInit == Init => StatsGood
<1> SUFFICES ASSUME Init PROVE StatsGood OBVIOUS
<1>1. history = <<>> /\ now = 0 /\ DOMAIN history = {} BY DEF Init
<1>2. ASSUME NEW s \in Seats
      PROVE  /\ series[s].failingSince = -1
             /\ \A i \in Ring : series[s].buckets[i] = EmptyBucket(0)
  BY DEF Init, Ring
<1>3. EmptyBucket(0).minute = 0 /\ EmptyBucket(0).total = 0 /\ EmptyBucket(0).failed = 0
  BY DEF EmptyBucket
<1>4. \A s \in Seats, i \in Ring : BucketFits(history, now, s, i, series[s].buckets[i])
  BY <1>1, <1>2, <1>3 DEF BucketFits
<1>5. Kept(history, now, series) BY <1>1 DEF Kept
<1>6. \A s \in Seats : SinceIs(history, s, series[s].failingSince)
  BY <1>1, <1>2 DEF SinceIs, FailuresOf
<1> QED BY <1>4, <1>5, <1>6 DEF StatsGood

LEMMA StatsNext == Good /\ StatsGood /\ [Next]_vars => StatsGood'
<1> SUFFICES ASSUME Good, StatsGood, [Next]_vars PROVE StatsGood' OBVIOUS
<1>1. CASE UNCHANGED <<series, history, now>> BY <1>1 DEF StatsGood
<1>2. CASE UNCHANGED <<series, history>> /\ now' = now + 1
  <2>1. now \in Nat /\ WindowMinutes \in Nat /\ series \in [Seats -> SeriesSet] /\ history \in Seq(EntrySet)
    BY BalanceAssumption DEF Good, Typed, Minutes
  <2>2. ASSUME NEW s \in Seats, NEW i \in Ring
        PROVE  BucketFits(history, now + 1, s, i, series[s].buckets[i])
    <3> DEFINE b == series[s].buckets[i]
    <3>1. BucketFits(history, now, s, i, b) BY DEF StatsGood
    <3>2. b.minute \in Nat BY <2>1, BalanceAssumption DEF SeriesSet, BucketSet, Minutes
    <3> HIDE DEF b
    <3>3. b.minute <= now => b.minute <= now + 1 BY <2>1, <3>2
    <3>4. BucketFits(history, now + 1, s, i, b) BY <3>1, <3>3 DEF BucketFits
    <3> QED BY <3>4 DEF b
  <2>3. Kept(history, now + 1, series)
    <3> DEFINE n == now + 1
    <3>1. n \in Nat /\ n = now + 1 BY <2>1
    <3> HIDE DEF n
    <3>2. ASSUME NEW k \in DOMAIN history
          PROVE  /\ history[k].at <= n
                 /\ n - history[k].at < WindowMinutes =>
                      series[history[k].seat].buckets[history[k].at % WindowMinutes].minute =
                        history[k].at
      <4> DEFINE at == history[k].at
      <4>1. history[k] \in EntrySet BY <2>1, ElementOfSeq, LenProperties
      <4>2. at \in Nat BY <4>1, BalanceAssumption DEF EntrySet, Minutes
      <4>3. at <= now /\ (now - at < WindowMinutes =>
               series[history[k].seat].buckets[at % WindowMinutes].minute = at)
        BY DEF StatsGood, Kept
      <4> HIDE DEF at
      <4>4. at <= n /\ (n - at < WindowMinutes => now - at < WindowMinutes) BY <2>1, <3>1, <4>2, <4>3
      <4> QED BY <4>3, <4>4 DEF at
    <3>3. Kept(history, n, series) BY <3>2 DEF Kept
    <3> QED BY <3>1, <3>3
  <2>4. \A s \in Seats : SinceIs(history, s, series[s].failingSince) BY DEF StatsGood
  <2> QED BY <1>2, <2>2, <2>3, <2>4 DEF StatsGood
<1>3. CASE now' = now /\ \E s \in Seats, o \in Outcomes : Record(s, o)
  BY <1>3, RecordKeeps DEF Good
<1> QED BY <1>1, <1>2, <1>3, StatSteps

(* A fresh bucket holds the window's attempts of one class, and every      *)
(* attempt of the window is in a fresh bucket.                             *)
LEMMA BucketClass ==
  ASSUME Typed, StatsGood, NEW s \in Seats, NEW m \in now .. MaxTime, NEW i \in Fresh(s, m)
  PROVE  LET C == {k \in Inside(s, m) : history[k].at % WindowMinutes = i}
             D == {k \in C : IsUpstreamFailure(history[k].class)} IN
         /\ i \in Ring
         /\ series[s].buckets[i].total = Cardinality(C)
         /\ series[s].buckets[i].failed = Cardinality(D)
<1> DEFINE b == series[s].buckets[i]
           W == WindowMinutes
           C == {k \in Inside(s, m) : history[k].at % W = i}
           D == {k \in C : IsUpstreamFailure(history[k].class)}
<1>1. i \in Ring BY DEF Fresh, Ring
<1>2. /\ now \in Nat /\ W \in Nat \ {0} /\ m \in Nat /\ now <= m
      /\ series \in [Seats -> SeriesSet] /\ history \in Seq(EntrySet)
  BY BalanceAssumption DEF Typed, Minutes
<1>3. b.minute \in Nat BY <1>1, <1>2, BalanceAssumption DEF SeriesSet, BucketSet, Minutes
<1>4. b.minute <= m /\ m - b.minute < W BY <1>2, <1>3 DEF Fresh
<1>5. ASSUME NEW k \in DOMAIN history PROVE history[k].at \in Nat /\ history[k].at <= m
  <2>1. history[k] \in EntrySet BY <1>2, ElementOfSeq, LenProperties
  <2>2. history[k].at \in Nat BY <2>1, BalanceAssumption DEF EntrySet, Minutes
  <2>3. history[k].at <= now BY DEF StatsGood, Kept
  <2> QED BY <1>2, <2>2, <2>3
<1>6. BucketFits(history, now, s, i, b) BY <1>1 DEF StatsGood
<1> HIDE DEF b
<1>7. CASE /\ i = b.minute % W
           /\ b.total = Cardinality(AllOf(history, s, b.minute))
           /\ b.failed = Cardinality(FailedOf(history, s, b.minute))
  <2>1. ASSUME NEW k \in C PROVE history[k].at = b.minute
    <3> DEFINE at == history[k].at
    <3>1. k \in DOMAIN history /\ m - at < W /\ at % W = b.minute % W BY <1>7 DEF Inside
    <3>2. at \in Nat /\ at <= m BY <1>5, <3>1
    <3> HIDE DEF at
    <3>3. CASE at <= b.minute
      <4>1. b.minute - at < W BY <1>2, <1>3, <1>4, <3>1, <3>2
      <4> QED BY <1>2, <1>3, <3>1, <3>2, <3>3, <4>1, ModDistinct DEF at
    <3>4. CASE b.minute <= at
      <4>1. at - b.minute < W BY <1>2, <1>3, <1>4, <3>1, <3>2
      <4> QED BY <1>2, <1>3, <3>1, <3>2, <3>4, <4>1, ModDistinct DEF at
    <3> QED BY <1>3, <3>2, <3>3, <3>4
  <2>2. C = AllOf(history, s, b.minute) BY <1>4, <1>7, <2>1 DEF Inside, AllOf
  <2>3. D = FailedOf(history, s, b.minute) BY <2>2 DEF FailedOf
  <2> QED BY <1>1, <1>7, <2>2, <2>3 DEF b
<1>8. CASE /\ b.total = 0 /\ b.failed = 0
           /\ \A k \in DOMAIN history : history[k].seat = s => history[k].at % W # i
  <2>1. C = {} BY <1>8 DEF Inside
  <2>2. D = {} BY <2>1
  <2> QED BY <1>1, <1>8, <2>1, <2>2, FS_EmptySet DEF b
<1> QED BY <1>6, <1>7, <1>8 DEF BucketFits

LEMMA StatsWindow ==
  ASSUME Typed, StatsGood, NEW s \in Seats, NEW m \in now .. MaxTime
  PROVE  LET b == series[s].buckets IN
         /\ SumOver([i \in DOMAIN b |-> b[i].total], Fresh(s, m)) = Cardinality(Inside(s, m))
         /\ SumOver([i \in DOMAIN b |-> b[i].failed], Fresh(s, m)) =
              Cardinality({i \in Inside(s, m) : IsUpstreamFailure(history[i].class)})
<1> DEFINE b == series[s].buckets
           W == WindowMinutes
           S == Fresh(s, m)
           H == Inside(s, m)
           G == {k \in H : IsUpstreamFailure(history[k].class)}
           a == [k \in H |-> history[k].at % W]
           f == [i \in DOMAIN b |-> b[i].total]
           g == [i \in DOMAIN b |-> b[i].failed]
<1>1. /\ now \in Nat /\ W \in Nat \ {0} /\ m \in Nat /\ now <= m
      /\ series \in [Seats -> SeriesSet] /\ history \in Seq(EntrySet)
  BY BalanceAssumption DEF Typed, Minutes
<1>2. DOMAIN b = Ring BY <1>1 DEF SeriesSet
<1>3. IsFiniteSet(H) /\ IsFiniteSet(G)
  <2>1. IsFiniteSet(DOMAIN history) BY <1>1, HistoryFinite
  <2>2. H \subseteq DOMAIN history /\ G \subseteq DOMAIN history BY DEF Inside
  <2> QED BY <2>1, <2>2, FS_Subset
<1>4. S \subseteq Ring BY DEF Fresh, Ring
<1>5. IsFiniteSet(S)
  <2>1. IsFiniteSet(Ring) BY <1>1, FS_Interval DEF Ring
  <2> QED BY <1>4, <2>1, FS_Subset
<1>6. \A k \in H : a[k] = history[k].at % W OBVIOUS
<1>7. ASSUME NEW i \in S
      PROVE  /\ f[i] = Cardinality(Class(H, a, i))
             /\ g[i] = Cardinality(Class(G, a, i))
  <2> DEFINE C == {k \in H : history[k].at % W = i}
             D == {k \in C : IsUpstreamFailure(history[k].class)}
  <2>1. b[i].total = Cardinality(C) /\ b[i].failed = Cardinality(D) BY BucketClass
  <2>2. C = Class(H, a, i) BY <1>6 DEF Class
  <2>3. D = Class(G, a, i) BY <1>6 DEF Class
  <2>4. f[i] = b[i].total /\ g[i] = b[i].failed BY <1>2, <1>4
  <2> QED BY <2>1, <2>2, <2>3, <2>4
<1>8. ASSUME NEW k \in H PROVE a[k] \in S
  <2> DEFINE at == history[k].at
  <2>1. k \in DOMAIN history /\ history[k].seat = s /\ m - at < W BY DEF Inside
  <2>2. history[k] \in EntrySet BY <1>1, <2>1, ElementOfSeq, LenProperties
  <2>3. at \in Nat BY <2>2, BalanceAssumption DEF EntrySet, Minutes
  <2>4. at <= now /\ (now - at < W => b[at % W].minute = at) BY <2>1 DEF StatsGood, Kept
  <2>5. a[k] = at % W /\ at % W \in Ring BY <2>3, SlotInRing
  <2> HIDE DEF at
  <2>6. now - at < W /\ m - at >= 0 BY <1>1, <2>1, <2>3, <2>4
  <2> QED BY <2>1, <2>4, <2>5, <2>6 DEF Fresh, Ring
<1>9. Classes(H, a, S) = H /\ Classes(G, a, S) = G BY <1>8 DEF Classes
<1> HIDE DEF a, f, g, H, S, G
<1>10. SumOver(f, S) = Cardinality(Classes(H, a, S)) BY <1>3, <1>5, <1>7, SumIsCount
<1>11. SumOver(g, S) = Cardinality(Classes(G, a, S)) BY <1>3, <1>5, <1>7, SumIsCount
<1>12. SumOver(f, S) = Cardinality(H) /\ SumOver(g, S) = Cardinality(G) BY <1>9, <1>10, <1>11
<1> QED BY <1>12 DEF f, g, H, S, G

LEMMA StatsExact == Good /\ StatsGood => StatisticsExact
<1> SUFFICES ASSUME Good, StatsGood PROVE StatisticsExact OBVIOUS
<1>1. WindowExact BY StatsWindow DEF WindowExact, Good
<1>2. \A s \in Seats : FailuresOf(history, s) = Failures(s) BY DEF FailuresOf, Failures
<1>3. FailingSinceExact BY <1>2 DEF FailingSinceExact, StatsGood, SinceIs
<1> QED BY <1>1, <1>3 DEF StatisticsExact

(* For any window and any history: what stats reads at any minute is the   *)
(* number of attempts made within the window, and of failures, through     *)
(* every wrap of the ring, and "failing since" is the first failure behind *)
(* the last success (upstreamTracker.record and stats).                    *)
THEOREM StatisticsAreExact == Spec => []StatisticsExact
<1>1. Init => StatsGood BY StatsInit
<1>2. Good /\ StatsGood /\ [Next]_vars => StatsGood' BY StatsNext
<1>3. Good /\ StatsGood => StatisticsExact BY StatsExact
<1> QED BY <1>1, <1>2, <1>3, Inductive, PTL DEF Spec
=============================================================================
