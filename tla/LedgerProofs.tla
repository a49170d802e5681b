---------------------------- MODULE LedgerProofs ----------------------------
(***************************************************************************)
(* Proofs about Ledger for every set of requests, every capacity of the    *)
(* channel and every list of migrations: records are stored once, in the   *)
(* order they were accepted, and the ones that are not stored are          *)
(* accounted for; an old or half migrated table never costs the log.  And  *)
(* what the dashboard reads agrees with the rows: charts add up, listings  *)
(* show the newest, and nobody sees another's.                             *)
(***************************************************************************)
EXTENDS Ledger, SequenceTheorems, FiniteSetTheorems, WellFoundedInduction, TLAPS

Opening == {"schema", "migrate", "index", "prepare"}
Working == {"serving", "draining", "closing"}

(* L[a] = x comes before L[b] = y.                                         *)
Before(L, x, y) == \E a, b \in DOMAIN L : a < b /\ L[a] = x /\ L[b] = y

Distinct(L) == \A a, b \in DOMAIN L : L[a] = L[b] => a = b

Ordered(L, s) == \A i, j \in DOMAIN s : i < j => Before(L, s[i], s[j])

(* The rows s, the record c being inserted and the channel h follow each   *)
(* other in the order of the log L, in which no record is twice.           *)
InOrder(L, s, c, h) ==
  /\ Distinct(L)
  /\ ToSet(s) \subseteq ToSet(L) /\ ToSet(h) \subseteq ToSet(L)
  /\ Ordered(L, s) /\ Ordered(L, h)
  /\ \A x \in ToSet(s), y \in ToSet(h) : Before(L, x, y)
  /\ c # None =>
       /\ c \in ToSet(L)
       /\ \A x \in ToSet(s) : Before(L, x, c)
       /\ \A y \in ToSet(h) : Before(L, c, y)

(* What is so of a request r whose handler is in phase pc, with fate f.    *)
Kept(r, pc, f, L, s, c, h) ==
  /\ r \in ToSet(L) => pc = "done"
  /\ pc # "done" => f = ""
  /\ r \in ToSet(h) \/ r = c => f = ""
  /\ r \in ToSet(s) => f \in {"", "failed", "crash"}
  /\ f # "abandoned"
  /\ pc = "done" => r \in ToSet(s) \/ r \in ToSet(h) \/ r = c \/ f # ""

AllKept == \A r \in Requests : Kept(r, req[r].pc, fate[r], logged, stored, cur, ch)

(* Where the process is, and what that says of the channel and the table.  *)
EmptyHanded ==
  /\ proc = "off" \/ proc \in Opening \/ sink = "nop" \/ ended => ch = <<>> /\ cur = None
  /\ ended => closed
  /\ proc \in Opening => sink = "table"

Migrated ==
  /\ proc = "migrate" => cols \subseteq Columns
  /\ proc \in {"index", "prepare"} => cols = Columns
  /\ proc \in Working /\ sink = "table" => cols = Columns
  /\ sink = "nop" => outage \/ backend = "off"

(* Handlers run only in a process that serves or is being stopped.         *)
Attended == \A r \in Requests : req[r].pc = "running" => proc \in Working

IInv ==
  /\ TypeOK
  /\ Attended
  /\ InOrder(logged, stored, cur, ch)
  /\ AllKept
  /\ EmptyHanded
  /\ Migrated

-----------------------------------------------------------------------------
(* Sequences.                                                              *)

(* Every set of numbers that has a member has a smallest one.              *)
LEMMA NatMin ==
  ASSUME NEW T, T \subseteq Nat, T # {}
  PROVE  \E x \in T : \A y \in T : x <= y
<1>. DEFINE R == OpToRel(<, Nat)
<1>1. IsWellFoundedOn(R, Nat)
  BY NatLessThanWellFounded
<1>2. ASSUME NEW x \in Nat, NEW y \in Nat, y < x
      PROVE  <<y, x>> \in R
  BY <1>2 DEF OpToRel
<1>. HIDE DEF R
<1>3. \E x \in T : \A y \in T : ~(<<y, x>> \in R)
  BY <1>1, WFMin
<1>4. PICK x \in T : \A y \in T : ~(<<y, x>> \in R)
  BY <1>3
<1>5. ASSUME NEW y \in T PROVE x <= y
  <2>1. x \in Nat /\ y \in Nat /\ ~(<<y, x>> \in R)
    BY <1>4
  <2>2. ~(y < x)
    BY <2>1, <1>2, Zenon
  <2>. QED BY <2>1, <2>2
<1>. QED BY <1>4, <1>5

LEMMA SetOfEmpty == ToSet(<<>>) = {}
  BY DEF ToSet

LEMMA SetOfSeq ==
  ASSUME NEW S, NEW s \in Seq(S)
  PROVE  ToSet(s) \subseteq S
  BY DEF ToSet

LEMMA SetOfAppend ==
  ASSUME NEW S, NEW s \in Seq(S), NEW x \in S
  PROVE  ToSet(Append(s, x)) = ToSet(s) \cup {x}
<1>. DEFINE t == Append(s, x)
<1>1. DOMAIN s = 1 .. Len(s) /\ Len(s) \in Nat /\ DOMAIN t = 1 .. Len(s) + 1
  OBVIOUS
<1>2. \A i \in 1 .. Len(s) : t[i] = s[i]
  OBVIOUS
<1>3. t[Len(s) + 1] = x
  OBVIOUS
<1>. HIDE DEF t
<1>4. ASSUME NEW y \in ToSet(t) PROVE y \in ToSet(s) \cup {x}
  <2>1. PICK i \in 1 .. Len(s) + 1 : y = t[i]
    BY <1>1 DEF ToSet
  <2>2. i \in 1 .. Len(s) \/ i = Len(s) + 1
    BY <1>1
  <2>. QED BY <2>1, <2>2, <1>1, <1>2, <1>3 DEF ToSet
<1>5. ASSUME NEW y \in ToSet(s) PROVE y \in ToSet(t)
  <2>1. PICK i \in 1 .. Len(s) : y = s[i]
    BY <1>1 DEF ToSet
  <2>2. i \in DOMAIN t /\ t[i] = y
    BY <2>1, <1>1, <1>2
  <2>. QED BY <2>2 DEF ToSet
<1>6. x \in ToSet(t)
  <2>1. Len(s) + 1 \in DOMAIN t
    BY <1>1
  <2>. QED BY <2>1, <1>3 DEF ToSet
<1>7. ToSet(t) = ToSet(s) \cup {x}
  BY <1>4, <1>5, <1>6
<1>. QED BY <1>7 DEF t

LEMMA SetOfHeadTail ==
  ASSUME NEW S, NEW s \in Seq(S), s # <<>>
  PROVE  /\ Head(s) \in ToSet(s)
         /\ ToSet(Tail(s)) \subseteq ToSet(s)
         /\ \A y \in ToSet(s) : y = Head(s) \/ y \in ToSet(Tail(s))
<1>. DEFINE t == Tail(s)
<1>1. Len(s) \in Nat /\ Len(s) >= 1 /\ DOMAIN s = 1 .. Len(s) /\ DOMAIN t = 1 .. Len(s) - 1
  OBVIOUS
<1>2. \A i \in 1 .. Len(s) - 1 : t[i] = s[i + 1]
  OBVIOUS
<1>3. Head(s) = s[1]
  OBVIOUS
<1>. HIDE DEF t
<1>4. 1 \in DOMAIN s
  BY <1>1
<1>5. Head(s) \in ToSet(s)
  BY <1>3, <1>4 DEF ToSet
<1>6. ASSUME NEW y \in ToSet(t) PROVE y \in ToSet(s)
  <2>1. PICK i \in 1 .. Len(s) - 1 : y = t[i]
    BY <1>1 DEF ToSet
  <2>2. i + 1 \in DOMAIN s /\ y = s[i + 1]
    BY <2>1, <1>1, <1>2
  <2>. QED BY <2>2 DEF ToSet
<1>7. ASSUME NEW y \in ToSet(s) PROVE y = Head(s) \/ y \in ToSet(t)
  <2>1. PICK i \in 1 .. Len(s) : y = s[i]
    BY <1>1 DEF ToSet
  <2>2. i = 1 \/ (i - 1 \in 1 .. Len(s) - 1 /\ (i - 1) + 1 = i)
    BY <1>1
  <2>3. CASE i = 1
    BY <2>1, <2>3, <1>3
  <2>4. CASE i - 1 \in 1 .. Len(s) - 1 /\ (i - 1) + 1 = i
    <3>1. i - 1 \in DOMAIN t /\ t[i - 1] = y
      BY <2>1, <2>4, <1>1, <1>2
    <3>. QED BY <3>1 DEF ToSet
  <2>. QED BY <2>2, <2>3, <2>4
<1>. QED BY <1>5, <1>6, <1>7 DEF t

(* In a log without repetitions nothing comes before itself.               *)
LEMMA BeforeIrreflexive ==
  ASSUME NEW S, NEW L \in Seq(S), Distinct(L), NEW x
  PROVE  ~Before(L, x, x)
  BY DEF Distinct, Before

(* A longer log keeps the order of what it held, and its new end comes     *)
(* after all of it.                                                        *)
LEMMA LogGrows ==
  ASSUME NEW S, NEW L \in Seq(S), NEW r \in S
  PROVE  /\ \A x, y : Before(L, x, y) => Before(Append(L, r), x, y)
         /\ \A x \in ToSet(L) : Before(Append(L, r), x, r)
         /\ Distinct(L) /\ r \notin ToSet(L) => Distinct(Append(L, r))
<1>. DEFINE M == Append(L, r)
<1>1. DOMAIN L = 1 .. Len(L) /\ Len(L) \in Nat /\ DOMAIN M = 1 .. Len(L) + 1
  OBVIOUS
<1>2. \A i \in 1 .. Len(L) : M[i] = L[i]
  OBVIOUS
<1>3. M[Len(L) + 1] = r
  OBVIOUS
<1>. HIDE DEF M
<1>4. ASSUME NEW x, NEW y, Before(L, x, y) PROVE Before(M, x, y)
  <2>1. PICK a \in DOMAIN L, b \in DOMAIN L : a < b /\ L[a] = x /\ L[b] = y
    BY <1>4 DEF Before
  <2>2. a \in DOMAIN M /\ b \in DOMAIN M /\ M[a] = x /\ M[b] = y
    BY <2>1, <1>1, <1>2
  <2>. QED BY <2>1, <2>2 DEF Before
<1>5. ASSUME NEW x \in ToSet(L) PROVE Before(M, x, r)
  <2>1. PICK a \in 1 .. Len(L) : x = L[a]
    BY <1>1 DEF ToSet
  <2>2. a \in DOMAIN M /\ M[a] = x /\ Len(L) + 1 \in DOMAIN M /\ a < Len(L) + 1
    BY <2>1, <1>1, <1>2
  <2>. QED BY <2>2, <1>3 DEF Before
<1>6. ASSUME Distinct(L), r \notin ToSet(L), NEW a \in DOMAIN M, NEW b \in DOMAIN M, M[a] = M[b]
      PROVE  a = b
  <2>1. \A i \in 1 .. Len(L) : M[i] # r
    BY <1>6, <1>1, <1>2 DEF ToSet
  <2>2. (a \in 1 .. Len(L) \/ a = Len(L) + 1) /\ (b \in 1 .. Len(L) \/ b = Len(L) + 1)
    BY <1>1
  <2>3. CASE a \in 1 .. Len(L) /\ b \in 1 .. Len(L)
    BY <2>3, <1>6, <1>1, <1>2 DEF Distinct
  <2>. QED BY <2>1, <2>2, <2>3, <1>3, <1>6
<1>. QED BY <1>4, <1>5, <1>6 DEF M, Distinct

-----------------------------------------------------------------------------
(* The line of records.                                                    *)

LEMMA OrderedAppend ==
  ASSUME NEW S, NEW L, NEW s \in Seq(S), NEW x \in S,
         Ordered(L, s), \A y \in ToSet(s) : Before(L, y, x)
  PROVE  Ordered(L, Append(s, x))
<1>. DEFINE t == Append(s, x)
<1>1. DOMAIN s = 1 .. Len(s) /\ Len(s) \in Nat /\ DOMAIN t = 1 .. Len(s) + 1
  OBVIOUS
<1>2. \A i \in 1 .. Len(s) : t[i] = s[i]
  OBVIOUS
<1>3. t[Len(s) + 1] = x
  OBVIOUS
<1>. HIDE DEF t
<1>4. ASSUME NEW i \in DOMAIN t, NEW j \in DOMAIN t, i < j PROVE Before(L, t[i], t[j])
  <2>1. i \in 1 .. Len(s) /\ (j \in 1 .. Len(s) \/ j = Len(s) + 1)
    BY <1>1, <1>4
  <2>2. CASE j \in 1 .. Len(s)
    BY <2>1, <2>2, <1>1, <1>2, <1>4 DEF Ordered
  <2>3. CASE j = Len(s) + 1
    <3>1. s[i] \in ToSet(s)
      BY <2>1, <1>1 DEF ToSet
    <3>. QED BY <3>1, <2>1, <2>3, <1>2, <1>3
  <2>. QED BY <2>1, <2>2, <2>3
<1>. QED BY <1>4 DEF t, Ordered

LEMMA OrderedTail ==
  ASSUME NEW S, NEW L, NEW s \in Seq(S), s # <<>>, Ordered(L, s)
  PROVE  /\ Ordered(L, Tail(s))
         /\ \A y \in ToSet(Tail(s)) : Before(L, Head(s), y)
<1>. DEFINE t == Tail(s)
<1>1. Len(s) \in Nat /\ Len(s) >= 1 /\ DOMAIN s = 1 .. Len(s) /\ DOMAIN t = 1 .. Len(s) - 1
  OBVIOUS
<1>2. \A i \in 1 .. Len(s) - 1 : t[i] = s[i + 1]
  OBVIOUS
<1>3. Head(s) = s[1]
  OBVIOUS
<1>. HIDE DEF t
<1>4. ASSUME NEW i \in DOMAIN t, NEW j \in DOMAIN t, i < j PROVE Before(L, t[i], t[j])
  <2>1. i + 1 \in DOMAIN s /\ j + 1 \in DOMAIN s /\ i + 1 < j + 1
    BY <1>1, <1>4
  <2>. QED BY <2>1, <1>1, <1>2 DEF Ordered
<1>5. ASSUME NEW y \in ToSet(t) PROVE Before(L, Head(s), y)
  <2>1. PICK i \in DOMAIN t : y = t[i]
    BY DEF ToSet
  <2>2. 1 \in DOMAIN s /\ i + 1 \in DOMAIN s /\ 1 < i + 1 /\ y = s[i + 1]
    BY <2>1, <1>1, <1>2
  <2>. QED BY <2>2, <1>3 DEF Ordered
<1>. QED BY <1>4, <1>5 DEF t, Ordered

(* A record is accepted at the end of the channel.                         *)
LEMMA OrderLogs ==
  ASSUME NEW S, NEW L \in Seq(S), NEW s \in Seq(S), NEW c, NEW h \in Seq(S), NEW r \in S,
         InOrder(L, s, c, h), r \notin ToSet(L)
  PROVE  InOrder(Append(L, r), s, c, Append(h, r))
<1>. DEFINE M == Append(L, r)
            k == Append(h, r)
<1>1. /\ \A x, y : Before(L, x, y) => Before(M, x, y)
      /\ \A x \in ToSet(L) : Before(M, x, r)
      /\ Distinct(M)
  BY LogGrows DEF InOrder
<1>2. ToSet(M) = ToSet(L) \cup {r} /\ ToSet(k) = ToSet(h) \cup {r}
  BY SetOfAppend
<1>3. Ordered(M, s) /\ Ordered(M, h)
  BY <1>1 DEF InOrder, Ordered
<1>4. Ordered(M, k)
  <2>. HIDE DEF M
  <2>1. \A y \in ToSet(h) : Before(M, y, r)
    BY <1>1 DEF InOrder
  <2>. QED BY <2>1, <1>3, OrderedAppend
<1>. HIDE DEF M, k
<1>5. InOrder(M, s, c, k)
  BY <1>1, <1>2, <1>3, <1>4 DEF InOrder
<1>. QED BY <1>5 DEF M, k

(* The writer takes the oldest record of the channel.                      *)
LEMMA OrderTakes ==
  ASSUME NEW S, NEW L \in Seq(S), NEW s \in Seq(S), NEW h \in Seq(S), h # <<>>,
         InOrder(L, s, None, h)
  PROVE  InOrder(L, s, Head(h), Tail(h))
<1>1. Head(h) \in ToSet(h) /\ ToSet(Tail(h)) \subseteq ToSet(h)
  BY SetOfHeadTail
<1>2. Ordered(L, Tail(h)) /\ \A y \in ToSet(Tail(h)) : Before(L, Head(h), y)
  BY OrderedTail DEF InOrder
<1>. QED BY <1>1, <1>2 DEF InOrder

(* The writer inserts the record it holds, or loses it.                    *)
LEMMA OrderInserts ==
  ASSUME NEW S, NEW L \in Seq(S), NEW s \in Seq(S), NEW c \in S, NEW h \in Seq(S), c # None,
         InOrder(L, s, c, h)
  PROVE  InOrder(L, Append(s, c), None, h) /\ InOrder(L, s, None, h)
<1>. DEFINE t == Append(s, c)
<1>1. ToSet(t) = ToSet(s) \cup {c}
  BY SetOfAppend
<1>2. Ordered(L, t)
  BY OrderedAppend DEF InOrder
<1>. HIDE DEF t
<1>3. InOrder(L, t, None, h)
  BY <1>1, <1>2 DEF InOrder
<1>. QED BY <1>3 DEF t, InOrder

(* The process is gone and its channel with it.                            *)
LEMMA OrderDrops ==
  ASSUME NEW L, NEW s, NEW c, NEW h, InOrder(L, s, c, h)
  PROVE  InOrder(L, s, None, <<>>)
<1>1. Ordered(L, <<>>)
  BY DEF Ordered
<1>. QED BY <1>1, SetOfEmpty DEF InOrder

(* The three parts, end to end, as one line.                               *)
LEMMA LineOrdered ==
  ASSUME NEW S, NEW L \in Seq(S), NEW s \in Seq(S), NEW m \in Seq(S), NEW h \in Seq(S),
         Ordered(L, s), Ordered(L, m), Ordered(L, h),
         \A x \in ToSet(s), y \in ToSet(h) : Before(L, x, y),
         \A x \in ToSet(s), y \in ToSet(m) : Before(L, x, y),
         \A x \in ToSet(m), y \in ToSet(h) : Before(L, x, y)
  PROVE  s \o m \o h \in Seq(S) /\ Ordered(L, s \o m \o h)
<1>. DEFINE line == (s \o m) \o h
<1>1. /\ Len(s) \in Nat /\ Len(m) \in Nat /\ Len(h) \in Nat
      /\ DOMAIN s = 1 .. Len(s) /\ DOMAIN m = 1 .. Len(m) /\ DOMAIN h = 1 .. Len(h)
  OBVIOUS
<1>2. line \in Seq(S) /\ DOMAIN line = 1 .. Len(s) + Len(m) + Len(h)
  OBVIOUS
<1>3. \A i \in 1 .. Len(s) : line[i] = s[i]
  OBVIOUS
<1>4. \A i \in 1 .. Len(m) : line[Len(s) + i] = m[i]
  OBVIOUS
<1>5. \A i \in 1 .. Len(h) : line[Len(s) + Len(m) + i] = h[i]
  OBVIOUS
<1>. HIDE DEF line
<1>6. ASSUME NEW i \in DOMAIN line
      PROVE  \/ i \in DOMAIN s /\ line[i] = s[i]
             \/ i - Len(s) \in DOMAIN m /\ line[i] = m[i - Len(s)]
             \/ i - Len(s) - Len(m) \in DOMAIN h /\ line[i] = h[i - Len(s) - Len(m)]
  <2>1. \/ i \in 1 .. Len(s)
        \/ i - Len(s) \in 1 .. Len(m) /\ i = Len(s) + (i - Len(s))
        \/ i - Len(s) - Len(m) \in 1 .. Len(h) /\ i = Len(s) + Len(m) + (i - Len(s) - Len(m))
    BY <1>1, <1>2, SMTT(60)
  <2>. QED BY <2>1, <1>1, <1>3, <1>4, <1>5
<1>7. ASSUME NEW i \in DOMAIN line, NEW j \in DOMAIN line, i < j
      PROVE  Before(L, line[i], line[j])
  <2>. DEFINE i2 == i - Len(s)
              j2 == j - Len(s)
              i3 == i - Len(s) - Len(m)
              j3 == j - Len(s) - Len(m)
  <2>1. i2 < j2 /\ i3 < j3
    BY <1>1, <1>2, <1>7
  <2>2. /\ i \in DOMAIN s => s[i] \in ToSet(s)
        /\ j \in DOMAIN s => s[j] \in ToSet(s)
        /\ i2 \in DOMAIN m => m[i2] \in ToSet(m)
        /\ j2 \in DOMAIN m => m[j2] \in ToSet(m)
        /\ i3 \in DOMAIN h => h[i3] \in ToSet(h)
        /\ j3 \in DOMAIN h => h[j3] \in ToSet(h)
    BY DEF ToSet
  <2>3. /\ j \in DOMAIN s => i \in DOMAIN s
        /\ j2 \in DOMAIN m => i3 \notin DOMAIN h
    BY <1>1, <1>2, <1>7
  <2>4. CASE i \in DOMAIN s /\ line[i] = s[i]
    BY <2>1, <2>2, <2>3, <2>4, <1>6, <1>7 DEF Ordered
  <2>5. CASE i2 \in DOMAIN m /\ line[i] = m[i2]
    <3>1. j \notin DOMAIN s
      BY <2>5, <1>1, <1>2, <1>7
    <3>. QED BY <2>1, <2>2, <3>1, <2>5, <1>6, <1>7 DEF Ordered
  <2>6. CASE i3 \in DOMAIN h /\ line[i] = h[i3]
    <3>1. j \notin DOMAIN s /\ j2 \notin DOMAIN m
      BY <2>6, <1>1, <1>2, <1>7
    <3>. QED BY <2>1, <2>2, <3>1, <2>6, <1>6, <1>7 DEF Ordered
  <2>. QED BY <2>4, <2>5, <2>6, <1>6
<1>. QED BY <1>2, <1>7 DEF line, Ordered

(* Where a record of a log without repetitions is found: what SelectInSeq  *)
(* comes down to.                                                          *)
At(L, v) == LET I == {i \in 1 .. Len(L) : L[i] = v} IN IF I # {} THEN Min(I) ELSE 0

LEMMA FoundAt ==
  ASSUME NEW S, NEW L \in Seq(S), Distinct(L), NEW a \in DOMAIN L
  PROVE  At(L, L[a]) = a
<1>. DEFINE I == {i \in 1 .. Len(L) : L[i] = L[a]}
<1>1. I = {a}
  BY DEF Distinct
<1>2. Min(I) = a
  BY <1>1 DEF Min
<1>. QED BY <1>1, <1>2 DEF At

-----------------------------------------------------------------------------
(* The inductive invariant.                                                *)
Pcs == {"idle", "running", "done", "killed"}
Fates == {"", "off", "panic", "dropped", "failed", "crash", "abandoned"}
Stamps == 0 .. MaxTime
ReqSet == [pc : Pcs, ts : Stamps]

LEMMA Constants ==
  /\ Cap \in Nat /\ Cap >= 1 /\ Span \in Nat /\ MaxTime \in Nat /\ Origin \in Span .. MaxTime
  /\ MaxFaults \in Nat /\ Conns \in Nat /\ Conns >= 1
  /\ IndexedCols \subseteq Columns /\ None \notin Requests
  BY LedgerAssumption

LEMMA MigrationsKnown == Migrations \in Seq(STRING)
  BY LedgerAssumption

LEMMA InitInv == Init => IInv
<1>. SUFFICES ASSUME Init PROVE IInv
  OBVIOUS
<1>0. /\ now = Origin /\ proc = "off" /\ sink = "table" /\ faults = 0
      /\ outage = FALSE /\ closed = FALSE /\ ended = FALSE
      /\ ch = <<>> /\ cur = None /\ held = 0 /\ stored = <<>> /\ logged = <<>>
      /\ req = [r \in Requests |-> Idle]
  BY DEF Init
<1>1. TypeOK
  <2>1. 0 \in Stamps
    BY Constants DEF Stamps
  <2>2. Idle \in ReqSet
    BY <2>1 DEF Idle, ReqSet, Pcs
  <2>3. req \in [Requests -> ReqSet]
    BY <1>0, <2>2
  <2>4. now \in Span .. MaxTime /\ faults \in 0 .. MaxFaults /\ Len(ch) <= Cap /\ held \in 0 .. PoolSize
    BY <1>0, Constants DEF PoolSize
  <2>5. /\ ch \in Seq(Requests) /\ stored \in Seq(Requests) /\ logged \in Seq(Requests)
        /\ cur \in Requests \cup {None}
    BY <1>0
  <2>6. /\ backend \in {"postgres", "sqlite", "off"} /\ (cols = NoTable \/ cols \subseteq Columns)
        /\ fate \in [Requests -> Fates]
    BY DEF Init, Fates
  <2>7. {outage, closed, ended} \subseteq BOOLEAN
    BY <1>0
  <2>. QED BY <1>0, <2>3, <2>4, <2>5, <2>6, <2>7 DEF TypeOK, ReqSet, Pcs, Stamps, Fates
<1>2. InOrder(logged, stored, cur, ch)
  <2>1. Distinct(<<>>) /\ Ordered(<<>>, <<>>)
    BY DEF Distinct, Ordered
  <2>. QED BY <1>0, <2>1, SetOfEmpty DEF InOrder
<1>3. AllKept
  <2>1. ASSUME NEW r \in Requests PROVE Kept(r, req[r].pc, fate[r], logged, stored, cur, ch)
    <3>1. req[r].pc = "idle" /\ r # None
      BY <1>0, Constants DEF Idle
    <3>2. fate[r] = ""
      BY DEF Init
    <3>. QED BY <1>0, <3>1, <3>2, SetOfEmpty DEF Kept
  <2>. QED BY <2>1 DEF AllKept
<1>4. EmptyHanded
  BY <1>0 DEF EmptyHanded, Opening
<1>5. Migrated
  BY <1>0 DEF Migrated, Working
<1>6. Attended
  BY <1>0 DEF Attended, Idle
<1>. QED BY <1>1, <1>2, <1>3, <1>4, <1>5, <1>6 DEF IInv

(* The first column that is missing is one of the migrations.              *)
LEMMA MissingOne ==
  ASSUME Missing # {}
  PROVE  Migrations[CHOOSE i \in Missing : \A j \in Missing : i <= j] \in Columns
<1>1. DOMAIN Migrations \subseteq Nat
  BY MigrationsKnown
<1>2. Missing \subseteq Nat /\ Missing \subseteq DOMAIN Migrations
  BY <1>1 DEF Missing
<1>3. \E i \in Missing : \A j \in Missing : i <= j
  BY <1>2, NatMin
<1>4. (CHOOSE i \in Missing : \A j \in Missing : i <= j) \in Missing
  BY <1>3
<1>. HIDE DEF Missing
<1>. QED BY <1>2, <1>4 DEF Columns

(* Nothing the line of records and its accounts depend on has changed.     *)
LEMMA LineUnchanged ==
  ASSUME IInv, UNCHANGED <<ch, cur, stored, logged>>,
         \A r \in Requests : (req'[r].pc # "done" /\ req[r].pc # "done") \/ req'[r].pc = req[r].pc,
         fate' = fate
  PROVE  InOrder(logged, stored, cur, ch)' /\ AllKept'
<1>1. InOrder(logged, stored, cur, ch)'
  BY DEF IInv
<1>2. ASSUME NEW r \in Requests
      PROVE  Kept(r, req'[r].pc, fate'[r], logged', stored', cur', ch')
  <2>1. Kept(r, req[r].pc, fate[r], logged, stored, cur, ch)
    BY DEF IInv, AllKept
  <2>. QED BY <2>1 DEF Kept
<1>. QED BY <1>1, <1>2 DEF AllKept

(* Opening and closing: the columns grow, the line of records is not       *)
(* touched.                                                                *)
LEMMA BootInv ==
  ASSUME IInv, Boot PROVE IInv'
<1>. USE DEF IInv, Boot
<1>1. TypeOK'
  BY DEF TypeOK, PoolSize, GiveUp
<1>2. InOrder(logged, stored, cur, ch)' /\ AllKept'
  BY LineUnchanged
<1>3. EmptyHanded'
  BY DEF EmptyHanded, GiveUp, Opening
<1>4. Migrated'
  BY DEF Migrated, GiveUp, Working
<1>5. Attended'
  BY DEF Attended, Working
<1>. QED BY <1>1, <1>2, <1>3, <1>4, <1>5

LEMMA OpenInv ==
  ASSUME IInv, Open PROVE IInv'
<1>. USE DEF IInv, Open
<1>1. /\ proc \in Opening /\ sink = "table" /\ ch = <<>> /\ cur = None
      /\ UNCHANGED <<now, backend, outage, closed, ended, ch, cur, held, stored, req, fate, logged, faults>>
  BY DEF Bootstrap, Migrate, MakeIndexes, Prepare, EmptyHanded, Opening
<1>2. InOrder(logged, stored, cur, ch)' /\ AllKept' /\ Attended'
  <2>1. Attended'
    BY <1>1 DEF Attended, Working, Opening
  <2>. QED BY <1>1, <2>1, LineUnchanged
<1>3. CASE Bootstrap
  <2>1. cols' \subseteq Columns /\ (backend = "postgres" => cols' = Columns)
    BY <1>3 DEF Bootstrap, TypeOK
  <2>2. sink' = "table" /\ proc' = IF backend = "postgres" THEN "serving" ELSE "migrate"
    BY <1>1, <1>3 DEF Bootstrap, Reach
  <2>3. TypeOK'
    BY <1>1, <2>1, <2>2 DEF TypeOK, PoolSize
  <2>4. EmptyHanded' /\ Migrated'
    BY <1>1, <2>1, <2>2 DEF EmptyHanded, Migrated, Opening, Working
  <2>. QED BY <1>2, <2>3, <2>4
<1>4. CASE Migrate /\ Missing = {}
  <2>1. sink' = "table" /\ proc' = "index" /\ cols' = cols /\ cols \subseteq Columns
    BY <1>1, <1>4 DEF Migrate, Reach, Migrated
  <2>2. Columns \subseteq cols
    BY <1>4 DEF Missing, Columns
  <2>3. TypeOK'
    BY <1>1, <2>1 DEF TypeOK, PoolSize
  <2>4. EmptyHanded' /\ Migrated'
    <3>1. EmptyHanded'
      BY <1>1, <2>1 DEF EmptyHanded, Opening
    <3>2. cols' = Columns
      BY <2>1, <2>2
    <3>. QED BY <1>1, <2>1, <3>1, <3>2 DEF Migrated, Working
  <2>. QED BY <1>2, <2>3, <2>4
<1>5. CASE Migrate /\ Missing # {}
  <2>1. /\ sink' = "table" /\ proc' = "migrate" /\ cols \subseteq Columns
        /\ cols' = cols \cup {Migrations[CHOOSE i \in Missing : \A j \in Missing : i <= j]}
    BY <1>1, <1>5 DEF Migrate, Reach, Migrated
  <2>2. cols' \subseteq Columns
    BY <2>1, <1>5, MissingOne
  <2>3. TypeOK'
    BY <1>1, <2>1, <2>2 DEF TypeOK, PoolSize
  <2>4. EmptyHanded' /\ Migrated'
    BY <1>1, <2>1, <2>2 DEF EmptyHanded, Migrated, Opening, Working
  <2>. QED BY <1>2, <2>3, <2>4
<1>6. CASE MakeIndexes \/ Prepare
  <2>1. cols = Columns /\ cols' = cols
    BY <1>6 DEF MakeIndexes, Prepare, Migrated
  <2>2. sink' = "table" /\ proc' \in {"prepare", "serving"}
    BY <1>1, <1>6, <2>1, Constants DEF MakeIndexes, Prepare, Reach
  <2>3. TypeOK'
    BY <1>1, <2>1, <2>2 DEF TypeOK, PoolSize
  <2>4. EmptyHanded' /\ Migrated'
    BY <1>1, <2>1, <2>2 DEF EmptyHanded, Migrated, Opening, Working
  <2>. QED BY <1>2, <2>3, <2>4
<1>. QED BY <1>3, <1>4, <1>5, <1>6

LEMMA OpenFailsInv ==
  ASSUME IInv, OpenFails PROVE IInv'
<1>. USE DEF IInv, OpenFails
<1>1. faults' \in 0 .. MaxFaults
  <2>1. faults \in 0 .. MaxFaults /\ faults < MaxFaults /\ faults' = faults + 1
    BY DEF Fault, TypeOK
  <2>. QED BY <2>1, Constants
<1>2. TypeOK'
  BY <1>1 DEF TypeOK, PoolSize, GiveUp
<1>3. InOrder(logged, stored, cur, ch)' /\ AllKept'
  BY LineUnchanged
<1>4. EmptyHanded'
  BY DEF EmptyHanded, GiveUp, Opening
<1>5. Migrated'
  BY DEF Migrated, GiveUp, Working
<1>6. Attended'
  BY DEF Attended, Working, GiveUp
<1>. QED BY <1>2, <1>3, <1>4, <1>5, <1>6

(* Requests come and go.                                                   *)
LEMMA BeginInv ==
  ASSUME IInv, NEW r \in Requests, Begin(r) PROVE IInv'
<1>. USE DEF IInv, Begin
<1>1. now \in Stamps
  <2>1. now \in Span .. MaxTime
    BY DEF TypeOK
  <2>. QED BY <2>1, Constants DEF Stamps
<1>2. req \in [Requests -> ReqSet]
  BY DEF TypeOK, ReqSet, Pcs, Stamps
<1>3. [pc |-> "running", ts |-> now] \in ReqSet
  BY <1>1 DEF ReqSet, Pcs
<1>4. req' \in [Requests -> ReqSet]
  BY <1>2, <1>3
<1>5. TypeOK'
  BY <1>4 DEF TypeOK, PoolSize, ReqSet, Pcs, Stamps, procVars
<1>6. InOrder(logged, stored, cur, ch)' /\ AllKept'
  <2>1. \A x \in Requests : (req'[x].pc # "done" /\ req[x].pc # "done") \/ req'[x].pc = req[x].pc
    BY <1>2
  <2>. QED BY <2>1, LineUnchanged
<1>7. EmptyHanded'
  BY DEF EmptyHanded, procVars
<1>8. Migrated'
  BY DEF Migrated, procVars
<1>9. Attended'
  BY <1>2 DEF Attended, Working, procVars
<1>. QED BY <1>5, <1>6, <1>7, <1>8, <1>9

LEMMA FinishInv ==
  ASSUME IInv, NEW r \in Requests, Finish(r) PROVE IInv'
<1>. USE DEF IInv, Finish
<1>1. req \in [Requests -> ReqSet] /\ fate \in [Requests -> Fates]
  BY DEF TypeOK, ReqSet, Pcs, Stamps, Fates
<1>2. /\ ch \in Seq(Requests) /\ logged \in Seq(Requests) /\ stored \in Seq(Requests)
      /\ Len(ch) <= Cap
  BY DEF TypeOK
<1>3. req[r].pc = "running" /\ req' \in [Requests -> ReqSet] /\ req'[r].pc = "done"
  BY <1>1 DEF Running, ReqSet, Pcs
<1>4. \A x \in Requests \ {r} : req'[x] = req[x]
  BY <1>1
<1>5. \A x \in Requests : Kept(x, req[x].pc, fate[x], logged, stored, cur, ch)
  BY DEF AllKept
<1>6. /\ r \notin ToSet(logged) /\ r \notin ToSet(stored) /\ r \notin ToSet(ch)
      /\ fate[r] = ""
  <2>1. Kept(r, "running", fate[r], logged, stored, cur, ch)
    BY <1>3, <1>5
  <2>. QED BY <2>1 DEF Kept, InOrder
<1>7. UNCHANGED <<now, backend, cols, proc, sink, outage, closed, ended, cur, held, stored, faults>>
  BY DEF procVars
<1>a. Attended'
  BY <1>3, <1>4, <1>7 DEF Attended
<1>8. ASSUME sink # "nop", ~closed, Len(ch) < Cap, ch' = Append(ch, r),
             logged' = Append(logged, r), fate' = fate
      PROVE  IInv'
  <2>1. ch' \in Seq(Requests) /\ logged' \in Seq(Requests) /\ Len(ch') <= Cap
    BY <1>2, <1>8, Constants
  <2>2. TypeOK'
    BY <1>3, <1>7, <1>8, <2>1 DEF TypeOK, PoolSize, ReqSet, Pcs, Stamps
  <2>3. InOrder(logged, stored, cur, ch)'
    <3>1. InOrder(Append(logged, r), stored, cur, Append(ch, r))
      BY <1>2, <1>6, OrderLogs
    <3>. QED BY <3>1, <1>7, <1>8
  <2>4. ToSet(ch') = ToSet(ch) \cup {r} /\ ToSet(logged') = ToSet(logged) \cup {r}
    BY <1>2, <1>8, SetOfAppend
  <2>5. ASSUME NEW x \in Requests
        PROVE  Kept(x, req'[x].pc, fate'[x], logged', stored', cur', ch')
    <3>1. CASE x = r
      BY <3>1, <1>3, <1>6, <1>7, <1>8, <2>4 DEF Kept
    <3>2. CASE x # r
      <4>1. req'[x].pc = req[x].pc /\ fate'[x] = fate[x]
        BY <3>2, <1>4, <1>8
      <4>. QED BY <4>1, <3>2, <1>5, <1>7, <2>4 DEF Kept
    <3>. QED BY <3>1, <3>2
  <2>6. AllKept'
    BY <2>5 DEF AllKept
  <2>7. EmptyHanded'
    <3>1. proc # "off" /\ proc \notin Opening
      BY <1>3 DEF Attended, Working, Opening
    <3>2. ~ended
      BY <1>8 DEF EmptyHanded
    <3>. QED BY <3>1, <3>2, <1>7, <1>8 DEF EmptyHanded
  <2>8. Migrated'
    BY <1>7 DEF Migrated
  <2>. QED BY <1>a, <2>2, <2>3, <2>6, <2>7, <2>8
<1>9. ASSUME NEW why \in {"off", "panic", "dropped"}, fate' = [fate EXCEPT ![r] = why],
             UNCHANGED <<ch, logged>>
      PROVE  IInv'
  <2>1. fate' \in [Requests -> Fates]
    BY <1>1, <1>9 DEF Fates
  <2>2. TypeOK'
    BY <1>3, <1>7, <1>9, <2>1 DEF TypeOK, PoolSize, ReqSet, Pcs, Stamps, Fates
  <2>3. InOrder(logged, stored, cur, ch)'
    BY <1>7, <1>9
  <2>4. cur # r
    <3>1. cur = r => r # None /\ r \in ToSet(logged)
      BY Constants DEF InOrder
    <3>. QED BY <3>1, <1>6
  <2>5. ASSUME NEW x \in Requests
        PROVE  Kept(x, req'[x].pc, fate'[x], logged', stored', cur', ch')
    <3>1. CASE x = r
      <4>1. fate'[r] = why
        BY <1>1, <1>9
      <4>. QED BY <3>1, <4>1, <1>3, <1>6, <1>7, <1>9, <2>4 DEF Kept
    <3>2. CASE x # r
      <4>1. req'[x].pc = req[x].pc /\ fate'[x] = fate[x]
        BY <3>2, <1>1, <1>4, <1>9
      <4>. QED BY <4>1, <3>2, <1>5, <1>7, <1>9 DEF Kept
    <3>. QED BY <3>1, <3>2
  <2>6. AllKept'
    BY <2>5 DEF AllKept
  <2>7. EmptyHanded'
    BY <1>7, <1>9 DEF EmptyHanded
  <2>8. Migrated'
    BY <1>7 DEF Migrated
  <2>. QED BY <1>a, <2>2, <2>3, <2>6, <2>7, <2>8
<1>. QED BY <1>8, <1>9 DEF Log

-----------------------------------------------------------------------------
(* The writer.                                                             *)
LEMMA TakeInv ==
  ASSUME IInv, Take PROVE IInv'
<1>. USE DEF IInv, Take
<1>1. /\ ch \in Seq(Requests) /\ logged \in Seq(Requests) /\ stored \in Seq(Requests)
      /\ Len(ch) <= Cap /\ ch # <<>> /\ cur = None
  BY DEF TypeOK
<1>2. UNCHANGED <<now, backend, cols, proc, sink, outage, closed, ended, held, stored, req, fate, logged,
                  faults>>
  BY DEF procVars
<1>3. cur' \in Requests /\ ch' \in Seq(Requests) /\ Len(ch') <= Cap
  BY <1>1, Constants
<1>4. TypeOK'
  BY <1>2, <1>3 DEF TypeOK, PoolSize
<1>5. InOrder(logged, stored, cur, ch)'
  <2>1. InOrder(logged, stored, Head(ch), Tail(ch))
    BY <1>1, OrderTakes
  <2>. QED BY <2>1, <1>2
<1>6. /\ cur' \in ToSet(ch) /\ ToSet(ch') \subseteq ToSet(ch)
      /\ \A y \in ToSet(ch) : y = cur' \/ y \in ToSet(ch')
  BY <1>1, SetOfHeadTail
<1>7. ASSUME NEW x \in Requests
      PROVE  Kept(x, req'[x].pc, fate'[x], logged', stored', cur', ch')
  <2>1. Kept(x, req[x].pc, fate[x], logged, stored, None, ch) /\ x # None
    BY <1>1, Constants DEF AllKept
  <2>. QED BY <2>1, <1>2, <1>6 DEF Kept
<1>8. AllKept'
  BY <1>7 DEF AllKept
<1>9. EmptyHanded'
  <2>1. proc \in Working /\ sink = "table" /\ ~ended
    BY DEF Writes, Working
  <2>. QED BY <2>1, <1>2 DEF EmptyHanded, Working, Opening
<1>10. Migrated' /\ Attended'
  BY <1>2 DEF Migrated, Attended
<1>. QED BY <1>4, <1>5, <1>8, <1>9, <1>10

LEMMA InsertInv ==
  ASSUME IInv, Insert PROVE IInv'
<1>. USE DEF IInv
<1>1. /\ ch \in Seq(Requests) /\ logged \in Seq(Requests) /\ stored \in Seq(Requests)
      /\ cur \in Requests /\ cur # None /\ cur' = None /\ ch' = ch /\ logged' = logged
  BY DEF Insert, TypeOK
<1>2. UNCHANGED <<now, backend, cols, proc, sink, outage, closed, ended, held, req>>
  BY DEF Insert, procVars
<1>3. fate \in [Requests -> Fates] /\ faults \in 0 .. MaxFaults
  BY DEF TypeOK, Fates
<1>4. stored' = stored \/ stored' = Append(stored, cur)
  BY DEF Insert
<1>a. Append(stored, cur) \in Seq(Requests) /\ ToSet(Append(stored, cur)) = ToSet(stored) \cup {cur}
  BY <1>1, SetOfAppend
<1>5. stored' \in Seq(Requests)
  BY <1>1, <1>4, <1>a
<1>6. ToSet(stored') = ToSet(stored) \/ ToSet(stored') = ToSet(stored) \cup {cur}
  BY <1>4, <1>a
<1>7. fate' = [fate EXCEPT ![cur] = "failed"] \/ (fate' = fate /\ stored' = Append(stored, cur))
  BY DEF Insert
<1>8. fate' \in [Requests -> Fates]
  BY <1>3, <1>7 DEF Fates
<1>9. faults' \in 0 .. MaxFaults
  <2>1. faults' = faults \/ (faults < MaxFaults /\ faults' = faults + 1)
    BY DEF Insert, Fault
  <2>. QED BY <2>1, <1>3, Constants
<1>10. TypeOK'
  BY <1>1, <1>2, <1>5, <1>8, <1>9 DEF TypeOK, PoolSize, Fates
<1>11. InOrder(logged, stored, cur, ch)'
  <2>1. InOrder(logged, Append(stored, cur), None, ch) /\ InOrder(logged, stored, None, ch)
    BY <1>1, OrderInserts
  <2>. QED BY <2>1, <1>1, <1>4
<1>12. cur \notin ToSet(ch)
  <2>1. ~Before(logged, cur, cur)
    BY <1>1, BeforeIrreflexive DEF InOrder
  <2>. QED BY <2>1, <1>1 DEF InOrder
<1>13. ASSUME NEW x \in Requests
       PROVE  Kept(x, req'[x].pc, fate'[x], logged', stored', cur', ch')
  <2>1. Kept(x, req[x].pc, fate[x], logged, stored, cur, ch) /\ x # None
    BY Constants DEF AllKept
  <2>2. CASE x # cur
    <3>1. fate'[x] = fate[x]
      BY <2>2, <1>3, <1>7
    <3>2. x \in ToSet(stored') <=> x \in ToSet(stored)
      BY <2>2, <1>6
    <3>. QED BY <2>1, <2>2, <3>1, <3>2, <1>1, <1>2 DEF Kept
  <2>3. CASE x = cur
    <3>1. x \in ToSet(logged) /\ req[x].pc = "done" /\ fate[x] = ""
      BY <2>1, <2>3, <1>1 DEF Kept, InOrder
    <3>2. fate'[x] = "failed" \/ (fate'[x] = "" /\ x \in ToSet(stored'))
      <4>1. CASE fate' = [fate EXCEPT ![cur] = "failed"]
        BY <4>1, <2>3, <1>1, <1>3
      <4>2. CASE fate' = fate /\ stored' = Append(stored, cur)
        BY <4>2, <2>3, <3>1, <1>a
      <4>. QED BY <4>1, <4>2, <1>7
    <3>. QED BY <2>1, <2>3, <3>1, <3>2, <1>1, <1>2, <1>12 DEF Kept
  <2>. QED BY <2>2, <2>3
<1>14. AllKept'
  BY <1>13 DEF AllKept
<1>15. EmptyHanded'
  BY <1>1, <1>2 DEF EmptyHanded
<1>16. Migrated' /\ Attended'
  BY <1>2 DEF Migrated, Attended
<1>. QED BY <1>10, <1>11, <1>14, <1>15, <1>16

LEMMA WriterEndsInv ==
  ASSUME IInv, WriterEnds PROVE IInv'
<1>. USE DEF IInv, WriterEnds
<1>1. TypeOK'
  BY DEF TypeOK, PoolSize
<1>2. InOrder(logged, stored, cur, ch)' /\ AllKept'
  BY LineUnchanged
<1>3. EmptyHanded' /\ Migrated' /\ Attended'
  BY DEF EmptyHanded, Migrated, Attended
<1>. QED BY <1>1, <1>2, <1>3

-----------------------------------------------------------------------------
(* The dashboard's queries come and go.                                    *)
LEMMA QueryInv ==
  ASSUME IInv, QueryStarts \/ QueryEnds PROVE IInv'
<1>. USE DEF IInv
<1>1. UNCHANGED <<now, backend, cols, proc, sink, outage, closed, ended, ch, cur, stored, req, fate,
                  logged, faults>>
  BY DEF QueryStarts, QueryEnds, procVars
<1>2. held' \in 0 .. PoolSize'
  <2>1. PoolSize' = PoolSize /\ PoolSize \in Nat /\ held \in 0 .. PoolSize
    BY <1>1, Constants DEF PoolSize, TypeOK
  <2>2. (held < PoolSize /\ held' = held + 1) \/ (held > 0 /\ held' = held - 1)
    BY DEF QueryStarts, QueryEnds
  <2>. QED BY <2>1, <2>2
<1>3. TypeOK'
  BY <1>1, <1>2 DEF TypeOK
<1>4. InOrder(logged, stored, cur, ch)' /\ AllKept'
  BY <1>1, LineUnchanged
<1>5. EmptyHanded' /\ Migrated' /\ Attended'
  BY <1>1 DEF EmptyHanded, Migrated, Attended
<1>. QED BY <1>3, <1>4, <1>5

-----------------------------------------------------------------------------
(* Stopping, and the end of the process.                                   *)
LEMMA StopInv ==
  ASSUME IInv, Stop \/ ShutdownReturns PROVE IInv'
<1>. USE DEF IInv, Stop, ShutdownReturns
<1>1. TypeOK'
  BY DEF TypeOK, PoolSize
<1>2. InOrder(logged, stored, cur, ch)' /\ AllKept'
  BY LineUnchanged
<1>3. EmptyHanded'
  BY DEF EmptyHanded, Opening
<1>4. Migrated' /\ Attended'
  BY DEF Migrated, Attended, Working
<1>. QED BY <1>1, <1>2, <1>3, <1>4

(* What Gone does to the accounts, for a reason that is not "abandoned"    *)
(* unless there was nothing left to abandon.                               *)
LEMMA GoneInv ==
  ASSUME IInv, NEW why \in {"crash", "abandoned"}, Gone(why),
         why = "abandoned" => ch = <<>> /\ cur = None,
         stored' = stored \/ (why = "crash" /\ cur # None /\ stored' = Append(stored, cur)),
         faults' \in 0 .. MaxFaults,
         UNCHANGED <<now, backend, cols, sink, outage, closed, ended, logged>>
  PROVE  IInv'
<1>. USE DEF IInv
<1>1. /\ ch \in Seq(Requests) /\ logged \in Seq(Requests) /\ stored \in Seq(Requests)
      /\ cur \in Requests \cup {None}
  BY DEF TypeOK
<1>2. proc' = "off" /\ ch' = <<>> /\ cur' = None /\ held' = 0
  BY DEF Gone
<1>3. req \in [Requests -> ReqSet] /\ fate \in [Requests -> Fates]
  BY DEF TypeOK, ReqSet, Pcs, Stamps, Fates
<1>4. fate' \in [Requests -> Fates]
  BY <1>3 DEF Gone, Fates
<1>5. \A x \in Requests : req'[x] = IF x \in Running THEN [req[x] EXCEPT !.pc = "killed"] ELSE req[x]
  BY DEF Gone
<1>6. req' \in [Requests -> ReqSet]
  <2>1. \A x \in Requests : [req[x] EXCEPT !.pc = "killed"] \in ReqSet
    BY <1>3 DEF ReqSet, Pcs
  <2>. QED BY <1>3, <2>1 DEF Gone
<1>7. \A x \in Requests : req'[x].pc # "running" /\ (req'[x].pc = "done" <=> req[x].pc = "done")
  BY <1>3, <1>5 DEF Running, ReqSet, Pcs
<1>8. stored' \in Seq(Requests)
  BY <1>1
<1>9. TypeOK'
  <2>1. Len(ch') <= Cap /\ ch' \in Seq(Requests)
    BY <1>2, Constants
  <2>2. held' \in 0 .. PoolSize'
    BY <1>2, Constants DEF PoolSize
  <2>. QED BY <1>1, <1>2, <1>4, <1>6, <1>8, <2>1, <2>2 DEF TypeOK, ReqSet, Pcs, Stamps, Fates
<1>10. InOrder(logged, stored, cur, ch)'
  <2>1. InOrder(logged, stored, None, <<>>)
    BY OrderDrops
  <2>2. ASSUME cur # None PROVE InOrder(logged, Append(stored, cur), None, <<>>)
    <3>1. cur \in Requests
      BY <1>1, <2>2
    <3>2. InOrder(logged, Append(stored, cur), None, ch)
      BY <1>1, <2>2, <3>1, OrderInserts
    <3>. QED BY <3>2, OrderDrops
  <2>. QED BY <1>2, <2>1, <2>2
<1>11. ASSUME NEW x \in Requests
       PROVE  Kept(x, req'[x].pc, fate'[x], logged', stored', cur', ch')
  <2>1. Kept(x, req[x].pc, fate[x], logged, stored, cur, ch) /\ x # None
    BY Constants DEF AllKept
  <2>2. fate'[x] = IF x = cur \/ x \in ToSet(ch) THEN why ELSE fate[x]
    BY DEF Gone
  <2>3. ToSet(ch') = {}
    BY <1>2, SetOfEmpty
  <2>4. CASE x = cur \/ x \in ToSet(ch)
    <3>1. x \in ToSet(logged)
      BY <2>1, <2>4 DEF InOrder
    <3>2. req'[x].pc = "done"
      BY <2>1, <3>1, <1>7 DEF Kept
    <3>3. why = "crash"
      BY <2>1, <2>4, SetOfEmpty
    <3>4. fate'[x] = "crash"
      BY <2>2, <2>4, <3>3
    <3>. QED BY <1>2, <2>1, <2>3, <3>2, <3>4 DEF Kept
  <2>5. CASE ~(x = cur \/ x \in ToSet(ch))
    <3>1. fate'[x] = fate[x]
      BY <2>2, <2>5
    <3>2. x \in ToSet(stored') <=> x \in ToSet(stored)
      <4>1. cur # None => ToSet(Append(stored, cur)) = ToSet(stored) \cup {cur}
        BY <1>1, SetOfAppend
      <4>. QED BY <4>1, <2>5
    <3>3. req'[x].pc = "done" <=> req[x].pc = "done"
      BY <1>7
    <3>. QED BY <1>2, <2>1, <2>3, <2>5, <3>1, <3>2, <3>3 DEF Kept
  <2>. QED BY <2>4, <2>5
<1>12. AllKept'
  BY <1>11 DEF AllKept
<1>13. EmptyHanded'
  BY <1>2 DEF EmptyHanded, Opening
<1>14. Migrated'
  BY <1>2 DEF Migrated, Working
<1>15. Attended'
  BY <1>7 DEF Attended
<1>. QED BY <1>9, <1>10, <1>12, <1>13, <1>14, <1>15

LEMMA ExitInv ==
  ASSUME IInv, Exit PROVE IInv'
<1>1. ch = <<>> /\ cur = None
  BY DEF Exit, IInv, EmptyHanded, TypeOK
<1>2. /\ Gone("abandoned") /\ stored' = stored /\ faults' = faults
      /\ UNCHANGED <<now, backend, cols, sink, outage, closed, ended, logged>>
  BY DEF Exit
<1>3. faults' \in 0 .. MaxFaults
  BY <1>2 DEF IInv, TypeOK
<1>. QED BY <1>1, <1>2, <1>3, GoneInv

LEMMA CrashInv ==
  ASSUME IInv, Crash PROVE IInv'
<1>1. /\ Gone("crash")
      /\ stored' = stored \/ (cur # None /\ stored' = Append(stored, cur))
      /\ UNCHANGED <<now, backend, cols, sink, outage, closed, ended, logged>>
  BY DEF Crash
<1>2. faults' \in 0 .. MaxFaults
  <2>1. faults \in 0 .. MaxFaults /\ faults < MaxFaults /\ faults' = faults + 1
    BY DEF Crash, Fault, IInv, TypeOK
  <2>. QED BY <2>1, Constants
<1>. QED BY <1>1, <1>2, GoneInv

LEMMA TickInv ==
  ASSUME IInv, Tick PROVE IInv'
<1>. USE DEF IInv
<1>1. now' \in Span .. MaxTime
  <2>1. now \in Span .. MaxTime /\ now < MaxTime /\ now' = now + 1
    BY DEF Tick, TypeOK
  <2>. QED BY <2>1, Constants
<1>2. UNCHANGED <<backend, cols, proc, sink, outage, closed, ended, ch, cur, held, stored, req, fate, logged,
                  faults>>
  BY DEF Tick, procVars
<1>3. TypeOK'
  BY <1>1, <1>2 DEF TypeOK, PoolSize
<1>4. InOrder(logged, stored, cur, ch)' /\ AllKept'
  BY <1>2, LineUnchanged
<1>5. EmptyHanded' /\ Migrated' /\ Attended'
  BY <1>2 DEF EmptyHanded, Migrated, Attended
<1>. QED BY <1>3, <1>4, <1>5

LEMMA StutterInv ==
  ASSUME IInv, UNCHANGED vars PROVE IInv'
<1>. USE DEF IInv
<1>1. UNCHANGED <<now, backend, cols, proc, sink, outage, closed, ended, ch, cur, held, stored, req, fate,
                  logged, faults>>
  BY DEF vars, procVars
<1>2. TypeOK'
  BY <1>1 DEF TypeOK, PoolSize
<1>3. InOrder(logged, stored, cur, ch)' /\ AllKept'
  BY <1>1, LineUnchanged
<1>4. EmptyHanded' /\ Migrated' /\ Attended'
  BY <1>1 DEF EmptyHanded, Migrated, Attended
<1>. QED BY <1>2, <1>3, <1>4

LEMMA NextInv == IInv /\ [Next]_vars => IInv'
<1>. SUFFICES ASSUME IInv, [Next]_vars PROVE IInv'
  OBVIOUS
<1>1. CASE Boot \/ Open \/ OpenFails
  BY <1>1, BootInv, OpenInv, OpenFailsInv
<1>2. CASE \E r \in Requests : Begin(r) \/ Finish(r)
  BY <1>2, BeginInv, FinishInv
<1>3. CASE Writer
  BY <1>3, TakeInv, InsertInv, WriterEndsInv DEF Writer
<1>4. CASE QueryStarts \/ QueryEnds
  BY <1>4, QueryInv
<1>7. CASE Stop \/ ShutdownReturns \/ Exit \/ Crash
  BY <1>7, StopInv, ExitInv, CrashInv
<1>5. CASE Tick
  BY <1>5, TickInv
<1>6. CASE UNCHANGED vars
  BY <1>6, StutterInv
<1>. QED BY <1>1, <1>2, <1>3, <1>4, <1>5, <1>6, <1>7 DEF Next

-----------------------------------------------------------------------------
(* What the invariant says.                                                *)
LEMMA LineInOrder == IInv => RowsInLogOrder
<1>. SUFFICES ASSUME IInv PROVE RowsInLogOrder
  OBVIOUS
<1>. DEFINE m == IF cur = None THEN <<>> ELSE <<cur>>
            line == stored \o m \o ch
<1>1. /\ ch \in Seq(Requests) /\ logged \in Seq(Requests) /\ stored \in Seq(Requests)
      /\ cur \in Requests \cup {None} /\ InOrder(logged, stored, cur, ch)
  BY DEF IInv, TypeOK
<1>2. m \in Seq(Requests) /\ Ordered(logged, m)
  BY <1>1 DEF Ordered
<1>3. ToSet(m) = IF cur = None THEN {} ELSE {cur}
  BY DEF ToSet
<1>4. Ordered(logged, line)
  <2>. HIDE DEF m
  <2>1. /\ \A x \in ToSet(stored), y \in ToSet(m) : Before(logged, x, y)
        /\ \A x \in ToSet(m), y \in ToSet(ch) : Before(logged, x, y)
    BY <1>1, <1>3 DEF InOrder
  <2>. QED BY <1>1, <1>2, <2>1, LineOrdered DEF InOrder
<1>. HIDE DEF line
<1>5. ASSUME NEW i \in DOMAIN line, NEW j \in DOMAIN line, i < j
      PROVE  At(logged, line[i]) < At(logged, line[j])
  <2>1. PICK a \in DOMAIN logged, b \in DOMAIN logged :
               a < b /\ logged[a] = line[i] /\ logged[b] = line[j]
    BY <1>4, <1>5 DEF Ordered, Before
  <2>2. At(logged, logged[a]) = a
    BY <1>1, FoundAt DEF InOrder
  <2>3. At(logged, logged[b]) = b
    BY <1>1, FoundAt DEF InOrder
  <2>. QED BY <2>1, <2>2, <2>3
<1>. QED BY <1>5 DEF RowsInLogOrder, line, At, SelectInSeq

LEMMA AtMostOne ==
  ASSUME NEW S, \A x, y \in S : x = y
  PROVE  Cardinality(S) <= 1
<1>1. CASE S = {}
  BY <1>1, FS_EmptySet
<1>2. CASE S # {}
  <2>1. PICK x : x \in S
    BY <1>2
  <2>2. S = {x}
    BY <2>1
  <2>. QED BY <2>2, FS_Singleton
<1>. QED BY <1>1, <1>2

LEMMA EachAccounted == IInv => RecordAccounted
<1>. SUFFICES ASSUME IInv, NEW r \in Requests
     PROVE  LET places == {p \in {"table", "channel", "writer", "fate"} :
                            \/ p = "table" /\ r \in ToSet(stored)
                            \/ p = "channel" /\ r \in ToSet(ch)
                            \/ p = "writer" /\ r = cur
                            \/ p = "fate" /\ fate[r] \notin {"", "failed", "crash"}}
            IN /\ Cardinality(places) <= 1
               /\ req[r].pc = "done" => places # {} \/ fate[r] \in {"failed", "crash"}
  BY DEF RecordAccounted
<1>. DEFINE places == {p \in {"table", "channel", "writer", "fate"} :
                         \/ p = "table" /\ r \in ToSet(stored)
                         \/ p = "channel" /\ r \in ToSet(ch)
                         \/ p = "writer" /\ r = cur
                         \/ p = "fate" /\ fate[r] \notin {"", "failed", "crash"}}
<1>1. logged \in Seq(Requests) /\ InOrder(logged, stored, cur, ch) /\ r # None
  BY Constants DEF IInv, TypeOK
<1>2. ~Before(logged, r, r)
  BY <1>1, BeforeIrreflexive DEF InOrder
<1>3. /\ ~(r \in ToSet(stored) /\ r \in ToSet(ch))
      /\ ~(r \in ToSet(stored) /\ r = cur)
      /\ ~(r \in ToSet(ch) /\ r = cur)
  BY <1>1, <1>2 DEF InOrder
<1>4. Kept(r, req[r].pc, fate[r], logged, stored, cur, ch)
  BY DEF IInv, AllKept
<1>5. \A p, q \in places : p = q
  BY <1>3, <1>4 DEF Kept
<1>6. req[r].pc = "done" => places # {} \/ fate[r] \in {"failed", "crash"}
  <2>1. fate[r] \in {"", "failed", "crash"} \/ "fate" \in places
    OBVIOUS
  <2>2. /\ r \in ToSet(stored) => "table" \in places
        /\ r \in ToSet(ch) => "channel" \in places
        /\ r = cur => "writer" \in places
    OBVIOUS
  <2>. QED BY <1>4, <2>1, <2>2 DEF Kept
<1>. HIDE DEF places
<1>7. Cardinality(places) <= 1
  BY <1>5, AtMostOne
<1>. QED BY <1>6, <1>7 DEF places

(* Records are kept, for every set of requests, capacity and schedule of   *)
(* handlers, writer, failed inserts, stops, crashes and restarts: stored   *)
(* at most once and in the order of the log, in one place at a time, and   *)
(* an orderly stop abandons none.                                          *)
THEOREM RecordsAreKept == Spec => []RecordsKept
<1>1. IInv => RecordsKept
  <2>1. IInv => TypeOK /\ StopDrains
    BY DEF IInv, AllKept, Kept, StopDrains
  <2>. QED BY <2>1, LineInOrder, EachAccounted DEF RecordsKept
<1>. QED BY <1>1, InitInv, NextInv, PTL DEF Spec

(* Whatever table the process finds, of whatever age or half migrated, the *)
(* log is lost only to a store that failed while it was being opened; and  *)
(* no record is inserted into a table that lacks a column.                 *)
THEOREM NopIsAnOutage == Spec => []NopMeansOutage
<1>1. IInv => NopMeansOutage
  <2>. SUFFICES ASSUME IInv PROVE NopMeansOutage
    OBVIOUS
  <2>1. sink = "nop" => outage \/ backend = "off"
    BY DEF IInv, Migrated
  <2>2. cur # None => proc \in Working /\ sink = "table"
    BY DEF IInv, EmptyHanded, TypeOK, Opening, Working
  <2>3. cur # None => Columns \subseteq cols
    BY <2>2 DEF IInv, Migrated
  <2>. QED BY <2>1, <2>3 DEF NopMeansOutage
<1>. QED BY <1>1, InitInv, NextInv, PTL DEF Spec

-----------------------------------------------------------------------------
(* Induction over a set of numbers.                                        *)
LEMMA Induct ==
  ASSUME NEW T, 0 \in T, \A n \in Nat : n \in T => n + 1 \in T
  PROVE  \A n \in Nat : n \in T
<1> SUFFICES ASSUME NEW m \in Nat, m \notin T PROVE FALSE OBVIOUS
<1> DEFINE B == {n \in Nat : n \notin T}
<1>1. B \subseteq Nat /\ B # {} OBVIOUS
<1>2. \A n \in B : n \in Nat /\ n \notin T OBVIOUS
<1>3. \A n \in Nat : n \notin B => n \in T OBVIOUS
<1> HIDE DEF B
<1>4. PICK x \in B : \A j \in B : x <= j BY <1>1, NatMin
<1>5. x \in Nat /\ x # 0 BY <1>2, <1>4
<1>6. x - 1 \in Nat /\ ~(x <= x - 1) /\ (x - 1) + 1 = x BY <1>5
<1>7. x - 1 \in T BY <1>3, <1>4, <1>6
<1> QED BY <1>2, <1>4, <1>6, <1>7

(* A sum of the sizes of a finite set's parts is the size of their       *)
(* union: what a sum over a chart computes.                              *)
Pick(s) == CHOOSE x \in s : TRUE
Part(H, a, x) == {k \in H : a[k] = x}
Parts(H, a, s) == {k \in H : a[k] \in s}
Sums(f, S, g) ==
  g = [s \in SUBSET S |-> IF s = {} THEN 0 ELSE f[Pick(s)] + g[s \ {Pick(s)}]]

LEMMA PartsAdd ==
  ASSUME NEW H, IsFiniteSet(H), NEW a, NEW s, NEW x \in s
  PROVE  /\ Cardinality(Parts(H, a, s)) =
              Cardinality(Part(H, a, x)) + Cardinality(Parts(H, a, s \ {x}))
         /\ Cardinality(Parts(H, a, s)) \in Nat
<1> DEFINE A == Part(H, a, x)
           B == Parts(H, a, s \ {x})
<1>1. A \subseteq H /\ B \subseteq H /\ A \cap B = {} /\ Parts(H, a, s) = A \cup B
      /\ Parts(H, a, s) \subseteq H
  BY DEF Part, Parts
<1>2. IsFiniteSet(A) /\ IsFiniteSet(B) /\ IsFiniteSet(Parts(H, a, s)) BY <1>1, FS_Subset
<1>3. Cardinality(Parts(H, a, s)) \in Nat /\ Cardinality(A) \in Nat /\ Cardinality(B) \in Nat
  BY <1>2, FS_CardinalityType
<1> HIDE DEF A, B
<1>4. Cardinality(A \cup B) = Cardinality(A) + Cardinality(B) - Cardinality(A \cap B)
  BY <1>2, FS_Union
<1>5. Cardinality(A \cap B) = 0 BY <1>1, FS_EmptySet
<1>6. Cardinality(Parts(H, a, s)) = Cardinality(A) + Cardinality(B) BY <1>1, <1>3, <1>4, <1>5
<1> QED BY <1>3, <1>6 DEF A, B

LEMMA PartsSum ==
  ASSUME NEW H, IsFiniteSet(H), NEW S, NEW a, NEW f,
         \A i \in S : f[i] = Cardinality(Part(H, a, i))
  PROVE  Sums(f, S, [s \in SUBSET S |-> Cardinality(Parts(H, a, s))])
<1> DEFINE g == [s \in SUBSET S |-> Cardinality(Parts(H, a, s))]
           h == [s \in SUBSET S |-> IF s = {} THEN 0 ELSE f[Pick(s)] + g[s \ {Pick(s)}]]
<1>1. ASSUME NEW s \in SUBSET S
      PROVE  g[s] = IF s = {} THEN 0 ELSE f[Pick(s)] + g[s \ {Pick(s)}]
  <2>1. CASE s = {}
    <3>1. Parts(H, a, s) = {} BY <2>1 DEF Parts
    <3> QED BY <2>1, <3>1, FS_EmptySet
  <2>2. CASE s # {}
    <3>1. Pick(s) \in s BY <2>2 DEF Pick
    <3>2. s \ {Pick(s)} \in SUBSET S OBVIOUS
    <3>3. f[Pick(s)] = Cardinality(Part(H, a, Pick(s))) BY <3>1
    <3>4. Cardinality(Parts(H, a, s)) =
            Cardinality(Part(H, a, Pick(s))) + Cardinality(Parts(H, a, s \ {Pick(s)}))
      BY <3>1, PartsAdd
    <3> QED BY <2>2, <3>2, <3>3, <3>4
  <2> QED BY <2>1, <2>2
<1>2. g = h BY <1>1
<1> QED BY <1>2 DEF Sums

(* The recursion has one solution on a finite set.                         *)
LEMMA SumsUnique ==
  ASSUME NEW f, NEW S, IsFiniteSet(S), NEW g, Sums(f, S, g), NEW h, Sums(f, S, h)
  PROVE  g[S] = h[S]
<1> DEFINE T == {n \in Nat : \A s \in SUBSET S : Cardinality(s) = n => g[s] = h[s]}
<1>1. ASSUME NEW s \in SUBSET S
      PROVE  /\ IsFiniteSet(s) /\ Cardinality(s) \in Nat
             /\ g[s] = IF s = {} THEN 0 ELSE f[Pick(s)] + g[s \ {Pick(s)}]
             /\ h[s] = IF s = {} THEN 0 ELSE f[Pick(s)] + h[s \ {Pick(s)}]
  <2>1. IsFiniteSet(s) BY FS_Subset
  <2>2. Cardinality(s) \in Nat BY <2>1, FS_CardinalityType
  <2> QED BY <2>1, <2>2 DEF Sums
<1>2. 0 \in T
  <2> SUFFICES ASSUME NEW s \in SUBSET S, Cardinality(s) = 0 PROVE g[s] = h[s] OBVIOUS
  <2>1. s = {} BY <1>1, FS_EmptySet
  <2> QED BY <1>1, <2>1
<1>3. ASSUME NEW n \in Nat, n \in T PROVE n + 1 \in T
  <2> SUFFICES ASSUME NEW s \in SUBSET S, Cardinality(s) = n + 1 PROVE g[s] = h[s] OBVIOUS
  <2>1. s # {} BY <1>1, FS_EmptySet
  <2>2. Pick(s) \in s BY <2>1 DEF Pick
  <2> DEFINE t == s \ {Pick(s)}
  <2>3. t \in SUBSET S OBVIOUS
  <2>4. Cardinality(t) = Cardinality(s) - 1 BY <1>1, <2>2, FS_RemoveElement
  <2>5. Cardinality(t) = n BY <2>4
  <2> HIDE DEF t
  <2>6. g[t] = h[t] BY <1>3, <2>3, <2>5
  <2> QED BY <1>1, <2>1, <2>6 DEF t
<1>4. \A n \in Nat : n \in T
  <2> HIDE DEF T
  <2> QED BY <1>2, <1>3, Induct
<1>5. S \in SUBSET S /\ Cardinality(S) \in Nat BY FS_CardinalityType
<1> QED BY <1>4, <1>5

LEMMA SumIsCount ==
  ASSUME NEW H, IsFiniteSet(H), NEW S, IsFiniteSet(S), NEW a, NEW f, DOMAIN f = S,
         \A i \in S : f[i] = Cardinality(Part(H, a, i))
  PROVE  SumFunction(f) = Cardinality(Parts(H, a, S))
<1> DEFINE iter == CHOOSE g : g = [s \in SUBSET S |->
             IF s = {} THEN 0 ELSE f[CHOOSE x \in s : TRUE] + g[s \ {CHOOSE x \in s : TRUE}]]
           c == [s \in SUBSET S |-> Cardinality(Parts(H, a, s))]
<1>1. SumFunction(f) = iter[S]
  BY DEF SumFunction, SumFunctionOnSet, FoldFunctionOnSet, MapThenFoldSet
<1>2. Sums(f, S, c) BY PartsSum
<1>3. \E g : Sums(f, S, g)
  <2> HIDE DEF c
  <2> QED BY <1>2
<1>4. iter = CHOOSE g : Sums(f, S, g) BY DEF Sums, Pick
<1> HIDE DEF iter
<1>5. Sums(f, S, iter) BY <1>3, <1>4
<1>6. c[S] = Cardinality(Parts(H, a, S)) OBVIOUS
<1> HIDE DEF c
<1>7. iter[S] = c[S] BY <1>2, <1>5, SumsUnique
<1> QED BY <1>1, <1>6, <1>7

(* A finite set with a strict total order, given by what is in front of    *)
(* whom, and its arrangement.                                              *)
Fronts(S, front) ==
  /\ IsFiniteSet(S)
  /\ \A x \in S : front[x] \subseteq S /\ x \notin front[x]
  /\ \A x, y \in S : x \in front[y] => front[x] \subseteq front[y]
  /\ \A x, y \in S : x # y => x \in front[y] \/ y \in front[x]

Arranged(S, front, o) ==
  /\ o \in Seq(S) /\ Len(o) = Cardinality(S) /\ DOMAIN o = 1 .. Cardinality(S)
  /\ \A x \in S : \E i \in DOMAIN o : o[i] = x
  /\ \A i, j \in DOMAIN o : i < j => o[i] \in front[o[j]]

LEMMA FrontGrows ==
  ASSUME NEW S, NEW front, Fronts(S, front), NEW x \in S, NEW y \in S
  PROVE  /\ Cardinality(front[x]) \in 0 .. Cardinality(S) - 1
         /\ Cardinality(S) \in Nat
         /\ x \in front[y] => Cardinality(front[x]) < Cardinality(front[y])
<1>1. /\ IsFiniteSet(S) /\ front[x] \in SUBSET S /\ front[y] \in SUBSET S
      /\ x \notin front[x] /\ (x \in front[y] => front[x] \subseteq front[y])
  BY DEF Fronts
<1>2. /\ Cardinality(S) \in Nat /\ IsFiniteSet(front[x]) /\ IsFiniteSet(front[y])
      /\ Cardinality(front[x]) <= Cardinality(S)
      /\ (Cardinality(S) = Cardinality(front[x]) => S = front[x])
  BY <1>1, FS_CardinalityType, FS_Subset
<1>3. Cardinality(front[x]) \in Nat /\ Cardinality(front[y]) \in Nat BY <1>2, FS_CardinalityType
<1>4. Cardinality(front[x]) # Cardinality(S) BY <1>1, <1>2
<1>5. ASSUME x \in front[y] PROVE Cardinality(front[x]) < Cardinality(front[y])
  <2>1. /\ Cardinality(front[x]) <= Cardinality(front[y])
        /\ (Cardinality(front[y]) = Cardinality(front[x]) => front[y] = front[x])
    BY <1>1, <1>2, <1>5, FS_Subset
  <2> QED BY <1>1, <1>3, <1>5, <2>1
<1> QED BY <1>2, <1>3, <1>4, <1>5

LEMMA RankedIs ==
  ASSUME NEW S, NEW front, Fronts(S, front)
  PROVE  Arranged(S, front, Ranked(S, front))
<1> DEFINE n == Cardinality(S)
           o == Ranked(S, front)
           D == 0 .. n - 1
           f == [x \in S |-> Cardinality(front[x])]
<1>0. IsFiniteSet(S) /\ (\A x, y \in S : x # y => x \in front[y] \/ y \in front[x]) BY DEF Fronts
<1>1. n \in Nat BY <1>0, FS_CardinalityType
<1>2. f \in [S -> D] BY FrontGrows
<1>3. ASSUME NEW x \in S, NEW y \in S, f[x] = f[y] PROVE x = y
  <2>1. Cardinality(front[x]) = Cardinality(front[y]) BY <1>3
  <2>2. Cardinality(front[x]) \in Nat BY <1>1, FrontGrows
  <2>3. x \notin front[y] /\ y \notin front[x] BY <2>1, <2>2, FrontGrows
  <2> QED BY <1>0, <2>3
<1>4. f \in Injection(S, D) BY <1>2, <1>3 DEF Injection, IsInjective
<1>5. IsFiniteSet(D) /\ Cardinality(D) = n
  <2> HIDE DEF n
  <2>1. 0 \in Int /\ n - 1 \in Int BY <1>1
  <2>2. IsFiniteSet(D) /\ Cardinality(D) = IF 0 > n - 1 THEN 0 ELSE (n - 1) - 0 + 1
    BY <2>1, FS_Interval, Zenon
  <2> QED BY <1>1, <2>2
<1>6. f \in Surjection(S, D)
  <2> HIDE DEF f, D
  <2> QED BY <1>4, <1>5, FS_Injection
<1>7. \A i \in D : \E x \in S : f[x] = i BY <1>6 DEF Surjection
<1>8. ASSUME NEW i \in 1 .. n
      PROVE  o[i] \in S /\ Cardinality(front[o[i]]) = i - 1
  <2>1. i - 1 \in D BY <1>1
  <2>2. \E x \in S : Cardinality(front[x]) = i - 1 BY <1>7, <2>1
  <2>3. o[i] = CHOOSE x \in S : Cardinality(front[x]) = i - 1 BY DEF Ranked
  <2> QED BY <2>2, <2>3
<1>9. o = [i \in 1 .. n |-> o[i]] BY DEF Ranked
<1> HIDE DEF o
<1>10. o \in [1 .. n -> S] BY <1>8, <1>9
<1>11. o \in Seq(S) /\ Len(o) = n /\ DOMAIN o = 1 .. n
  <2> HIDE DEF n
  <2>1. \A i \in 1 .. n : o[i] \in S BY <1>10
  <2>2. /\ [i \in 1 .. n |-> o[i]] \in Seq(S)
        /\ Len([i \in 1 .. n |-> o[i]]) = n
    BY <1>1, <2>1
  <2> QED BY <1>9, <1>10, <2>2, Zenon
<1>12. ASSUME NEW x \in S PROVE \E i \in 1 .. n : o[i] = x
  <2> DEFINE k == Cardinality(front[x]) + 1
  <2>1. k \in 1 .. n /\ k - 1 = Cardinality(front[x]) BY <1>1, FrontGrows
  <2>2. o[k] \in S /\ Cardinality(front[o[k]]) = k - 1 BY <1>8, <2>1
  <2>3. f[o[k]] = f[x] BY <2>1, <2>2
  <2>4. o[k] = x BY <1>3, <2>2, <2>3
  <2> QED BY <2>1, <2>4
<1>13. ASSUME NEW i \in 1 .. n, NEW j \in 1 .. n, i < j PROVE o[i] \in front[o[j]]
  <2>1. /\ o[i] \in S /\ o[j] \in S
        /\ Cardinality(front[o[i]]) = i - 1 /\ Cardinality(front[o[j]]) = j - 1
    BY <1>8
  <2>2. o[i] # o[j] BY <1>1, <1>13, <2>1
  <2>3. ~(o[j] \in front[o[i]])
    <3>1. i - 1 < j - 1 /\ ~(j - 1 < i - 1) BY <1>1, <1>13
    <3> QED BY <2>1, <3>1, FrontGrows
  <2> QED BY <1>0, <2>1, <2>2, <2>3
<1> HIDE DEF f, D
<1>14. \A i, j \in DOMAIN o : i < j => o[i] \in front[o[j]] BY <1>11, <1>13
<1>15. \A x \in S : \E i \in DOMAIN o : o[i] = x BY <1>11, <1>12
<1>16. o \in Seq(S) /\ Len(o) = Cardinality(S) /\ DOMAIN o = 1 .. Cardinality(S) BY <1>11
<1>17. Arranged(S, front, o) BY <1>14, <1>15, <1>16, Zenon DEF Arranged
<1> QED BY <1>17 DEF o

(* No member has two places.                                               *)
LEMMA ArrangedOnce ==
  ASSUME NEW S, NEW front, Fronts(S, front), NEW o, Arranged(S, front, o),
         NEW i \in DOMAIN o, NEW j \in DOMAIN o, o[i] = o[j]
  PROVE  i = j
<1>1. Cardinality(S) \in Nat /\ IsFiniteSet(S) BY FS_CardinalityType DEF Fronts
<1>2. i \in Nat /\ j \in Nat /\ o[i] \in S /\ o[j] \in S BY <1>1 DEF Arranged
<1>3. ~(i < j) /\ ~(j < i) BY <1>2 DEF Arranged, Fronts
<1> QED BY <1>2, <1>3

-----------------------------------------------------------------------------
(* No handler began in the future.                                         *)
Timely == \A r \in Requests : req[r].ts \in Nat /\ req[r].ts <= now

LEMMA TimelyInit == Init => Timely
<1> SUFFICES ASSUME Init PROVE Timely OBVIOUS
<1>1. now = Origin /\ \A r \in Requests : req[r] = Idle BY DEF Init
<1>2. Origin \in Nat BY LedgerAssumption
<1> QED BY <1>1, <1>2 DEF Timely, Idle

LEMMA TimelyNext == IInv /\ Timely /\ [Next]_vars => Timely'
<1> SUFFICES ASSUME IInv, Timely, [Next]_vars PROVE Timely' OBVIOUS
<1>1. now \in Nat /\ req \in [Requests -> ReqSet]
  <2>1. now \in Span .. MaxTime /\ req \in [Requests -> ReqSet]
    BY DEF IInv, TypeOK, ReqSet, Pcs, Stamps
  <2> QED BY <2>1, Constants
<1>2. ASSUME \A r \in Requests : req'[r].ts = req[r].ts, now' = now \/ now' = now + 1 PROVE Timely'
  BY <1>1, <1>2 DEF Timely
<1>3. ASSUME \/ Boot \/ Open \/ OpenFails \/ Writer \/ QueryStarts \/ QueryEnds \/ Stop \/ ShutdownReturns
             \/ UNCHANGED vars
      PROVE  req' = req /\ now' = now
  BY <1>3 DEF Boot, Open, OpenFails, Writer, Take, Insert, WriterEnds, QueryStarts, QueryEnds, Stop,
              ShutdownReturns, vars
<1>4. ASSUME NEW r \in Requests, Begin(r) PROVE Timely'
  BY <1>1, <1>4 DEF Begin, Timely, ReqSet
<1>5. ASSUME NEW r \in Requests, Finish(r) PROVE now' = now /\ \A q \in Requests : req'[q].ts = req[q].ts
  BY <1>1, <1>5 DEF Finish, ReqSet
<1>6. ASSUME Exit \/ Crash PROVE now' = now /\ \A q \in Requests : req'[q].ts = req[q].ts
  <2>1. now' = now BY <1>6 DEF Exit, Crash
  <2>2. \E why \in Fates : Gone(why) BY <1>6 DEF Exit, Crash, Fates
  <2> QED BY <1>1, <2>1, <2>2 DEF Gone, ReqSet
<1>7. ASSUME Tick PROVE req' = req /\ now' = now + 1 BY <1>7 DEF Tick
<1> QED BY <1>2, <1>3, <1>4, <1>5, <1>6, <1>7 DEF Next

(* A request of the window falls in a bucket of the grid.                  *)
LEMMA Quotient ==
  ASSUME NEW w \in Nat \ {0}, NEW a \in Nat
  PROVE  /\ a = w * (a \div w) + (a % w) /\ a \div w \in Nat /\ a % w \in 0 .. w - 1
         /\ a - (a % w) = w * (a \div w)
OBVIOUS

LEMMA QuotientOf ==
  ASSUME NEW w \in Nat \ {0}, NEW k \in Int
  PROVE  (w * k) \div w = k
OBVIOUS

LEMMA QuotientLeast ==
  ASSUME NEW w \in Nat \ {0}, NEW a \in Nat, NEW k \in Nat, w * k <= a
  PROVE  k <= a \div w
<1> DEFINE d == a \div w
           m == a % w
<1>1. a = w * d + m /\ d \in Nat /\ m \in 0 .. w - 1 BY Quotient
<1> HIDE DEF d, m
<1>2. CASE k > d
  <2>1. PICK e \in Nat : k = d + 1 + e
    <3>1. k - d - 1 \in Nat /\ k = d + 1 + (k - d - 1) BY <1>1, <1>2
    <3> QED BY <3>1
  <2>2. w * (d + 1 + e) = w * d + w + w * e /\ w * e >= 0 BY <1>1
  <2> QED BY <1>1, <2>1, <2>2
<1>3. CASE ~(k > d) BY <1>1, <1>3 DEF d
<1> QED BY <1>2, <1>3

LEMMA QuotientGrows ==
  ASSUME NEW w \in Nat \ {0}, NEW a \in Nat, NEW b \in Nat, a <= b
  PROVE  a \div w <= b \div w
<1>1. a = w * (a \div w) + (a % w) /\ a \div w \in Nat /\ a % w \in 0 .. w - 1 BY Quotient
<1>2. w * (a \div w) <= b BY <1>1
<1> QED BY <1>1, <1>2, QuotientLeast

LEMMA NextMultiple ==
  ASSUME NEW w \in Nat \ {0}, NEW a \in Nat, NEW b \in Nat, a + 1 <= b
  PROVE  w * a \in Nat /\ w * b \in Nat /\ w * a + w <= w * b
<1>1. b - (a + 1) \in Nat OBVIOUS
<1>2. w * (b - (a + 1)) \in Nat BY <1>1
<1>3. w * (b - (a + 1)) = w * b - (w * a + w) OBVIOUS
<1>4. w * a \in Nat /\ w * b \in Nat OBVIOUS
<1> QED BY <1>2, <1>3, <1>4

(* As text, a time is its second and some place within it.                 *)
LEMMA AsText ==
  ASSUME backend = "sqlite", NEW t \in Nat
  PROVE  \E f \in 0 .. Sec - 1 : StoreTime(t) = Sec * (t \div Sec) + f
<1>1. Sec \in Nat \ {0} /\ FracRank \in [0 .. Sec - 1 -> 0 .. Sec - 1] BY LedgerAssumption
<1>2. t % Sec \in 0 .. Sec - 1 BY <1>1, Quotient
<1>3. FracRank[t % Sec] \in 0 .. Sec - 1 BY <1>1, <1>2
<1>4. StoreTime(t) = Sec * (t \div Sec) + FracRank[t % Sec] BY DEF StoreTime
<1> QED BY <1>3, <1>4

(* What the store takes for later is not in an earlier bucket: the text    *)
(* order of SQLite keeps the order of the seconds, and buckets are whole   *)
(* seconds.                                                                *)
LEMMA LaterSecond ==
  ASSUME NEW t \in Nat, NEW u \in Nat
  PROVE  /\ StoreTime(t) \in Nat
         /\ StoreTime(t) > StoreTime(u) => t \div Sec >= u \div Sec
         /\ backend # "sqlite" => StoreTime(t) = t
<1>1. Sec \in Nat \ {0} BY LedgerAssumption
<1> DEFINE a == t \div Sec
           b == u \div Sec
           x == StoreTime(t)
           y == StoreTime(u)
<1>2. a \in Nat /\ b \in Nat BY <1>1, Quotient
<1>3. CASE backend = "sqlite"
  <2>1. PICK f \in 0 .. Sec - 1 : x = Sec * a + f BY <1>3, AsText
  <2>2. PICK g \in 0 .. Sec - 1 : y = Sec * b + g BY <1>3, AsText
  <2> HIDE DEF a, b, x, y
  <2>3. Sec * a \in Nat BY <1>1, <1>2
  <2>4. CASE a + 1 <= b
    <3>1. Sec * b \in Nat /\ Sec * a + Sec <= Sec * b BY <1>1, <1>2, <2>4, NextMultiple
    <3>2. ~(x > y) BY <1>1, <2>1, <2>2, <2>3, <3>1
    <3> QED BY <1>1, <1>3, <2>1, <2>3, <3>2 DEF a, b, x, y
  <2>5. CASE ~(a + 1 <= b)
    <3>1. a >= b BY <1>2, <2>5
    <3>2. x \in Nat BY <1>1, <2>1, <2>3
    <3> QED BY <1>3, <3>1, <3>2 DEF a, b, x, y
  <2> QED BY <2>4, <2>5
<1>4. CASE backend # "sqlite"
  <2>1. x = t /\ y = u BY <1>4 DEF StoreTime
  <2>2. ASSUME u <= t PROVE b <= a BY <1>1, <2>2, QuotientGrows
  <2> HIDE DEF a, b, x, y
  <2>3. x > y => a >= b BY <1>2, <2>1, <2>2
  <2> QED BY <1>4, <2>1, <2>3 DEF a, b, x, y
<1> QED BY <1>3, <1>4

(* Times that are one text are of one second.                              *)
LEMMA SameSecond ==
  ASSUME backend = "sqlite", NEW t \in Nat, NEW u \in Nat, StoreTime(t) = StoreTime(u)
  PROVE  t \div Sec = u \div Sec
<1>1. Sec \in Nat \ {0} BY LedgerAssumption
<1> DEFINE a == t \div Sec
           b == u \div Sec
<1>2. a \in Nat /\ b \in Nat BY <1>1, Quotient
<1>3. PICK f \in 0 .. Sec - 1 : StoreTime(t) = Sec * a + f BY AsText
<1>4. PICK g \in 0 .. Sec - 1 : StoreTime(u) = Sec * b + g BY AsText
<1> HIDE DEF a, b
<1>5. Sec * a + f = Sec * b + g BY <1>3, <1>4
<1>6. ASSUME a + 1 <= b PROVE FALSE
  <2>1. Sec * a \in Nat /\ Sec * b \in Nat /\ Sec * a + Sec <= Sec * b BY <1>1, <1>2, <1>6, NextMultiple
  <2> QED BY <1>1, <1>5, <2>1
<1>7. ASSUME b + 1 <= a PROVE FALSE
  <2>1. Sec * a \in Nat /\ Sec * b \in Nat /\ Sec * b + Sec <= Sec * a BY <1>1, <1>2, <1>7, NextMultiple
  <2> QED BY <1>1, <1>5, <2>1
<1>8. a + 1 <= b \/ b + 1 <= a \/ a = b BY <1>2
<1>9. a = b BY <1>6, <1>7, <1>8
<1> QED BY <1>9 DEF a, b

(* Nor is it before the start of a longer unit.                            *)
LEMMA LaterUnit ==
  ASSUME NEW w \in Nat \ {0}, w % Sec = 0, NEW t \in Nat, NEW u \in Nat,
         StoreTime(t) > StoreTime(u)
  PROVE  t >= w * (u \div w) /\ u \div w <= t \div w
<1> DEFINE d == u \div w
           m == w \div Sec
           x == t \div Sec
           y == u \div Sec
<1>1. Sec \in Nat \ {0} BY LedgerAssumption
<1>2. m \in Nat /\ w = Sec * m
  <2>1. m \in Nat /\ w = Sec * m + (w % Sec) BY <1>1, Quotient
  <2>2. Sec * m \in Nat BY <1>1, <2>1
  <2> QED BY <2>1, <2>2
<1>3. x >= y /\ x \in Nat /\ y \in Nat BY <1>1, LaterSecond, Quotient
<1>4. d \in Nat /\ w * d <= u
  <2>1. d \in Nat /\ u = w * d + (u % w) /\ u % w \in 0 .. w - 1 BY Quotient
  <2> HIDE DEF d
  <2>2. w * d \in Nat BY <2>1
  <2> QED BY <2>1, <2>2
<1>5. t = Sec * x + (t % Sec) /\ t % Sec \in 0 .. Sec - 1 BY <1>1, Quotient
<1> HIDE DEF d, m, x
<1>6. m * d \in Nat /\ w * d = Sec * (m * d) BY <1>1, <1>2, <1>4
<1>7. m * d <= y
  <2>1. Sec * (m * d) <= u BY <1>4, <1>6
  <2>2. m * d <= u \div Sec BY <1>1, <1>6, <2>1, QuotientLeast
  <2> QED BY <2>2
<1> HIDE DEF y
<1>8. Sec * (m * d) <= Sec * x
  <2>1. x - m * d \in Nat BY <1>3, <1>6, <1>7
  <2>2. Sec * (x - m * d) \in Nat BY <1>1, <2>1
  <2>3. Sec * (x - m * d) = Sec * x - Sec * (m * d) BY <1>1, <1>3, <1>6
  <2>4. Sec * x \in Nat /\ Sec * (m * d) \in Nat BY <1>1, <1>3, <1>6
  <2> QED BY <2>2, <2>3, <2>4
<1>9. w * d <= t
  <2>1. Sec * x \in Nat BY <1>1, <1>3
  <2> QED BY <1>1, <1>4, <1>5, <1>6, <1>8, <2>1
<1>10. d <= t \div w BY <1>4, <1>9, QuotientLeast
<1> QED BY <1>9, <1>10 DEF d

LEMMA InGrid ==
  ASSUME Timely, now \in Nat, NEW from \in Nat, NEW r \in Requests,
         StoreTime(req[r].ts) > StoreTime(from)
  PROVE  BucketOf(r, from) \in Grid(from)
<1> DEFINE t == req[r].ts
           d == from \div Width
           k == t \div Width
<1>1. Width \in Nat \ {0} BY LedgerAssumption
<1>2. t \in Nat /\ t <= now BY DEF Timely
<1>3. /\ d \in Nat /\ from - (from % Width) = Width * d /\ k \in Nat /\ t - (t % Width) = Width * k
      /\ t % Width \in Nat
  <2>1. d \in Nat /\ from - (from % Width) = Width * d BY <1>1, Quotient
  <2>2. k \in Nat /\ t - (t % Width) = Width * k /\ t % Width \in 0 .. Width - 1
    <3> HIDE DEF t
    <3> QED BY <1>1, <1>2, Quotient
  <2> HIDE DEF t, d, k
  <2> QED BY <1>1, <2>1, <2>2
<1>4. d <= k
  <2>1. Width % Sec = 0 BY LedgerAssumption
  <2>2. StoreTime(t) > StoreTime(from) OBVIOUS
  <2> HIDE DEF t
  <2> QED BY <1>1, <1>2, <2>1, <2>2, LaterUnit
<1>5. Start(from) = Width * d /\ BucketOf(r, from) = (Width * k - Width * d) \div Width
  BY <1>3 DEF Start, BucketOf
<1> HIDE DEF t, d, k
<1>6. k - d \in Nat /\ Width * k - Width * d = Width * (k - d) BY <1>1, <1>3, <1>4
<1>7. BucketOf(r, from) = k - d BY <1>1, <1>5, <1>6, QuotientOf
<1>8. now - Start(from) \in Nat /\ Width * (k - d) <= now - Start(from)
  <2>1. Width * k <= t BY <1>2, <1>3 DEF t
  <2>2. Width * k \in Nat /\ Width * d \in Nat /\ Width * d <= Width * k
    <3>1. Width * (k - d) \in Nat BY <1>1, <1>6
    <3>2. Width * k \in Nat /\ Width * d \in Nat BY <1>1, <1>3
    <3> QED BY <1>6, <3>1, <3>2
  <2> QED BY <1>2, <1>5, <1>6, <2>1, <2>2
<1>9. k - d <= (now - Start(from)) \div Width BY <1>1, <1>6, <1>8, QuotientLeast
<1>10. (now - Start(from)) \div Width \in Nat BY <1>1, <1>8, Quotient
<1> QED BY <1>6, <1>7, <1>9, <1>10 DEF Grid

-----------------------------------------------------------------------------
(* Charts.                                                                 *)
FailedOf(R) == {r \in R : IsFailure(r)}
Charted(R, from) == IsFiniteSet(R) /\ IsFiniteSet(Grid(from)) /\ \A r \in R : BucketOf(r, from) \in Grid(from)

(* One row's buckets hold every request of the row once.                   *)
LEMMA RowSums ==
  ASSUME NEW R, NEW from, Charted(R, from), NEW key
  PROVE  /\ RowRequests(SeriesRow(key, R, from)) = Cardinality(R)
         /\ RowErrors(SeriesRow(key, R, from)) = Cardinality(FailedOf(R))
<1> DEFINE row == SeriesRow(key, R, from)
           a == [r \in R |-> BucketOf(r, from)]
           G == Grid(from)
           f == [b \in DOMAIN row.buckets |-> row.buckets[b].requests]
           g == [b \in DOMAIN row.buckets |-> row.buckets[b].errors]
           F == FailedOf(R)
<1>1. IsFiniteSet(R) /\ IsFiniteSet(G) /\ \A r \in R : BucketOf(r, from) \in G BY DEF Charted
<1>2. F \subseteq R /\ IsFiniteSet(F)
  <2>1. F \subseteq R BY DEF FailedOf
  <2> QED BY <1>1, <2>1, FS_Subset
<1>3. row.buckets = [i \in G |->
         [requests |-> Cardinality({r \in R : BucketOf(r, from) = i}),
          errors |-> Cardinality({r \in {q \in R : BucketOf(q, from) = i} : IsFailure(r)})]]
  BY DEF SeriesRow
<1>4. DOMAIN f = G /\ DOMAIN g = G BY <1>3
<1>5. ASSUME NEW i \in G
      PROVE  f[i] = Cardinality(Part(R, a, i)) /\ g[i] = Cardinality(Part(F, a, i))
  <2>1. f[i] = row.buckets[i].requests /\ g[i] = row.buckets[i].errors BY <1>3
  <2>2. {r \in R : BucketOf(r, from) = i} = Part(R, a, i) BY DEF Part
  <2>3. {r \in {q \in R : BucketOf(q, from) = i} : IsFailure(r)} = Part(F, a, i) BY DEF Part, FailedOf
  <2>4. /\ row.buckets[i].requests = Cardinality({r \in R : BucketOf(r, from) = i})
        /\ row.buckets[i].errors = Cardinality({r \in {q \in R : BucketOf(q, from) = i} : IsFailure(r)})
    BY <1>3
  <2> QED BY <2>1, <2>2, <2>3, <2>4
<1>6. Parts(R, a, G) = R /\ Parts(F, a, G) = F BY <1>1, <1>2 DEF Parts
<1>7. RowRequests(row) = SumFunction(f) /\ RowErrors(row) = SumFunction(g) BY DEF RowRequests, RowErrors
<1> HIDE DEF row, a, G, f, g, F
<1>8. SumFunction(f) = Cardinality(Parts(R, a, G)) BY <1>1, <1>4, <1>5, SumIsCount
<1>9. SumFunction(g) = Cardinality(Parts(F, a, G)) BY <1>1, <1>2, <1>4, <1>5, SumIsCount
<1>10. RowRequests(row) = Cardinality(R) /\ RowErrors(row) = Cardinality(F)
  BY <1>6, <1>7, <1>8, <1>9
<1> QED BY <1>10 DEF row, F

(* The rows of a chart part R: a says which row a request is in.           *)
Parted(rows, R, a, from) ==
  /\ IsFiniteSet(DOMAIN rows)
  /\ \A i \in DOMAIN rows : \E key : rows[i] = SeriesRow(key, Part(R, a, i), from)

RequestsBy(rows) == [i \in DOMAIN rows |-> RowRequests(rows[i])]
ErrorsBy(rows) == [i \in DOMAIN rows |-> RowErrors(rows[i])]
RequestsIn(rows, b) == [i \in DOMAIN rows |-> rows[i].buckets[b].requests]

LEMMA ChartSums ==
  ASSUME NEW R, NEW from, Charted(R, from), NEW rows, NEW a, Parted(rows, R, a, from)
  PROVE  /\ SumFunction(RequestsBy(rows)) = Cardinality(Parts(R, a, DOMAIN rows))
         /\ SumFunction(ErrorsBy(rows)) = Cardinality(Parts(FailedOf(R), a, DOMAIN rows))
         /\ \A b \in Grid(from) : SumFunction(RequestsIn(rows, b))
              = Cardinality({r \in Parts(R, a, DOMAIN rows) : BucketOf(r, from) = b})
<1> DEFINE S == DOMAIN rows
           F == FailedOf(R)
<1>1. /\ IsFiniteSet(R) /\ IsFiniteSet(Grid(from)) /\ IsFiniteSet(S)
      /\ \A r \in R : BucketOf(r, from) \in Grid(from)
  BY DEF Charted, Parted
<1>2. F \subseteq R /\ IsFiniteSet(F)
  <2>1. F \subseteq R BY DEF FailedOf
  <2> QED BY <1>1, <2>1, FS_Subset
<1>3. ASSUME NEW i \in S
      PROVE  /\ RowRequests(rows[i]) = Cardinality(Part(R, a, i))
             /\ RowErrors(rows[i]) = Cardinality(Part(F, a, i))
  <2>1. PICK key : rows[i] = SeriesRow(key, Part(R, a, i), from) BY DEF Parted
  <2>2. Part(R, a, i) \subseteq R BY DEF Part
  <2>3. IsFiniteSet(Part(R, a, i)) BY <1>1, <2>2, FS_Subset
  <2>4. Charted(Part(R, a, i), from) BY <1>1, <2>2, <2>3 DEF Charted
  <2>5. FailedOf(Part(R, a, i)) = Part(F, a, i) BY DEF FailedOf, Part
  <2> QED BY <2>1, <2>4, <2>5, RowSums
<1>4. SumFunction(RequestsBy(rows)) = Cardinality(Parts(R, a, S))
  <2> DEFINE f == RequestsBy(rows)
  <2>1. DOMAIN f = S /\ \A i \in S : f[i] = Cardinality(Part(R, a, i)) BY <1>3 DEF RequestsBy
  <2> HIDE DEF f, S
  <2>2. SumFunction(f) = Cardinality(Parts(R, a, S)) BY <1>1, <2>1, SumIsCount
  <2> QED BY <2>2 DEF f
<1>5. SumFunction(ErrorsBy(rows)) = Cardinality(Parts(F, a, S))
  <2> DEFINE f == ErrorsBy(rows)
  <2>1. DOMAIN f = S /\ \A i \in S : f[i] = Cardinality(Part(F, a, i)) BY <1>3 DEF ErrorsBy
  <2> HIDE DEF f, S, F
  <2>2. SumFunction(f) = Cardinality(Parts(F, a, S)) BY <1>1, <1>2, <2>1, SumIsCount
  <2> QED BY <2>2 DEF f
<1>6. ASSUME NEW b \in Grid(from)
      PROVE  SumFunction(RequestsIn(rows, b))
               = Cardinality({r \in Parts(R, a, S) : BucketOf(r, from) = b})
  <2> DEFINE f == RequestsIn(rows, b)
             H == {r \in R : BucketOf(r, from) = b}
  <2>1. ASSUME NEW i \in S PROVE f[i] = Cardinality(Part(H, a, i))
    <3>1. PICK key : rows[i] = SeriesRow(key, Part(R, a, i), from) BY DEF Parted
    <3>2. rows[i].buckets[b].requests = Cardinality({r \in Part(R, a, i) : BucketOf(r, from) = b})
      BY <3>1 DEF SeriesRow
    <3>3. {r \in Part(R, a, i) : BucketOf(r, from) = b} = Part(H, a, i) BY DEF Part
    <3>4. f[i] = rows[i].buckets[b].requests BY DEF RequestsIn
    <3> QED BY <3>2, <3>3, <3>4
  <2>2. H \subseteq R /\ DOMAIN f = S BY DEF RequestsIn
  <2>3. IsFiniteSet(H) BY <1>1, <2>2, FS_Subset
  <2>4. Parts(H, a, S) = {r \in Parts(R, a, S) : BucketOf(r, from) = b} BY DEF Parts
  <2> HIDE DEF f, H, S
  <2>5. SumFunction(f) = Cardinality(Parts(H, a, S)) BY <1>1, <2>1, <2>2, <2>3, SumIsCount
  <2> QED BY <2>4, <2>5 DEF f
<1> QED BY <1>4, <1>5, <1>6

(* The image of a finite set.                                              *)
LEMMA ImageFinite ==
  ASSUME NEW R, IsFiniteSet(R), NEW f, DOMAIN f = R
  PROVE  IsFiniteSet({f[r] : r \in R})
<1> DEFINE T == {f[r] : r \in R}
           g == [r \in R |-> f[r]]
<1>1. g \in [R -> T] OBVIOUS
<1>2. \A t \in T : \E r \in R : g[r] = t OBVIOUS
<1> HIDE DEF T, g
<1>3. g \in Surjection(R, T) BY <1>1, <1>2 DEF Surjection
<1>4. IsFiniteSet(T) BY <1>3, FS_Surjection
<1> QED BY <1>4 DEF T

(* The keys of a set of requests are sorted by traffic, then by name.      *)
KeysOf(R, by) == {KeyOf(r, by) : r \in R}
BusierThan(R, by) == [k \in KeysOf(R, by) |-> {j \in KeysOf(R, by) : Busier(R, by, j, k)}]

LEMMA KeyRanked ==
  ASSUME NEW R, R \subseteq Requests, NEW by, NEW k \in KeysOf(R, by)
  PROVE  KeyRank(k) \in Nat /\ Keys[KeyRank(k)] = k
<1>1. PICK r \in R : k = KeyOf(r, by) BY DEF KeysOf
<1>2. k \in {KindOf[r].who, KindOf[r].via} BY <1>1 DEF KeyOf
<1>3. k \in ToSet(Keys) /\ Keys \in Seq(STRING) BY <1>2, RecordAssumption
<1>4. PICK i \in DOMAIN Keys : Keys[i] = k BY <1>3 DEF ToSet
<1>5. KeyRank(k) \in DOMAIN Keys /\ Keys[KeyRank(k)] = k BY <1>4 DEF KeyRank
<1>6. DOMAIN Keys \subseteq Nat BY <1>3
<1> QED BY <1>5, <1>6

LEMMA BusierIs ==
  ASSUME NEW R, NEW by, NEW j, NEW k
  PROVE  Busier(R, by, j, k) <=>
           \/ Cardinality(OfKey(R, by, j)) > Cardinality(OfKey(R, by, k))
           \/ /\ Cardinality(OfKey(R, by, j)) = Cardinality(OfKey(R, by, k))
              /\ KeyRank(j) < KeyRank(k)
BY DEF Busier

LEMMA BusierOrders ==
  ASSUME NEW R, R \subseteq Requests, IsFiniteSet(R), NEW by
  PROVE  Fronts(KeysOf(R, by), BusierThan(R, by))
<1> DEFINE K == KeysOf(R, by)
           B == BusierThan(R, by)
           n == [k \in K |-> Cardinality(OfKey(R, by, k))]
           p == [k \in K |-> KeyRank(k)]
<1>1. IsFiniteSet(K)
  <2> DEFINE f == [r \in R |-> KeyOf(r, by)]
  <2>1. DOMAIN f = R /\ K = {f[r] : r \in R} BY DEF KeysOf
  <2> HIDE DEF f
  <2> QED BY <2>1, ImageFinite
<1>2. ASSUME NEW k \in K PROVE n[k] \in Nat /\ p[k] \in Nat /\ Keys[p[k]] = k
  <2>1. OfKey(R, by, k) \subseteq R BY DEF OfKey
  <2>2. Cardinality(OfKey(R, by, k)) \in Nat BY <2>1, FS_Subset, FS_CardinalityType
  <2> QED BY <2>2, KeyRanked
<1>3. \A j, k \in K : j \in B[k] <=> n[j] > n[k] \/ (n[j] = n[k] /\ p[j] < p[k])
  BY BusierIs DEF BusierThan
<1>4. \A k \in K : B[k] \subseteq K BY DEF BusierThan
<1> HIDE DEF K, B, n, p
<1>5. \A k \in K : k \notin B[k] BY <1>2, <1>3
<1>6. ASSUME NEW j \in K, NEW k \in K, j \in B[k] PROVE B[j] \subseteq B[k]
  <2> SUFFICES ASSUME NEW i \in B[j] PROVE i \in B[k] OBVIOUS
  <2>1. i \in K BY <1>4
  <2> QED BY <1>2, <1>3, <1>6, <2>1
<1>7. \A j, k \in K : j # k => j \in B[k] \/ k \in B[j] BY <1>2, <1>3
<1>8. Fronts(K, B) BY <1>1, <1>4, <1>5, <1>6, <1>7 DEF Fronts
<1> QED BY <1>8 DEF K, B

(* The places of a sequence with one more at its end.                      *)
LEMMA OneMore ==
  ASSUME NEW n \in Nat, NEW g, NEW x
  PROVE  LET s == [i \in 1 .. n |-> g[i]] \o <<x>> IN
         /\ DOMAIN s = 1 .. n + 1 /\ Len(s) = n + 1
         /\ \A i \in 1 .. n : s[i] = g[i]
         /\ s[n + 1] = x
<1> DEFINE h == [i \in 1 .. n |-> g[i]]
           X == {g[i] : i \in 1 .. n} \cup {x}
<1>1. h \in Seq(X) /\ Len(h) = n /\ <<x>> \in Seq(X) /\ Len(<<x>>) = 1 /\ <<x>>[1] = x
  <2>1. \A i \in 1 .. n : h[i] \in X OBVIOUS
  <2>2. x \in X OBVIOUS
  <2> HIDE DEF X
  <2> QED BY <2>1, <2>2
<1>2. \A i \in 1 .. n : h[i] = g[i] OBVIOUS
<1> HIDE DEF h, X
<1>3. /\ h \o <<x>> \in Seq(X) /\ Len(h \o <<x>>) = n + 1 /\ DOMAIN (h \o <<x>>) = 1 .. n + 1
      /\ \A i \in 1 .. n : (h \o <<x>>)[i] = h[i]
      /\ (h \o <<x>>)[n + 1] = x
  BY <1>1
<1> QED BY <1>2, <1>3 DEF h

LEMMA BusiestIs ==
  ASSUME NEW R, R \subseteq Requests, IsFiniteSet(R), NEW by
  PROVE  Arranged(KeysOf(R, by), BusierThan(R, by), Busiest(R, by))
<1>1. Busiest(R, by) = Ranked(KeysOf(R, by), BusierThan(R, by)) BY DEF Busiest, KeysOf, BusierThan
<1> QED BY <1>1, BusierOrders, RankedIs

(* Where a key is among the sorted ones.                                   *)
PlaceIn(keys, k) == CHOOSE i \in DOMAIN keys : keys[i] = k

LEMMA PlaceIs ==
  ASSUME NEW R, R \subseteq Requests, IsFiniteSet(R), NEW by, NEW r \in R
  PROVE  LET keys == Busiest(R, by) IN
         /\ PlaceIn(keys, KeyOf(r, by)) \in DOMAIN keys
         /\ keys[PlaceIn(keys, KeyOf(r, by))] = KeyOf(r, by)
         /\ \A i \in DOMAIN keys : KeyOf(r, by) = keys[i] <=> PlaceIn(keys, KeyOf(r, by)) = i
<1> DEFINE keys == Busiest(R, by)
           k == KeyOf(r, by)
           p == PlaceIn(keys, k)
<1>1. Arranged(KeysOf(R, by), BusierThan(R, by), keys) BY BusiestIs
<1>2. Fronts(KeysOf(R, by), BusierThan(R, by)) BY BusierOrders
<1>3. k \in KeysOf(R, by) BY DEF KeysOf
<1> HIDE DEF keys, k
<1>4. \E i \in DOMAIN keys : keys[i] = k BY <1>1, <1>3 DEF Arranged
<1>5. p \in DOMAIN keys /\ keys[p] = k BY <1>4 DEF PlaceIn
<1>6. \A i \in DOMAIN keys : keys[i] = k => p = i BY <1>1, <1>2, <1>5, ArrangedOnce
<1>7. \A i \in DOMAIN keys : k = keys[i] <=> p = i BY <1>5, <1>6
<1> QED BY <1>5, <1>7 DEF keys, k

(* The series puts every request in one row, folded or not.                *)
Rowed(rows, R, a, from) ==
  /\ Parted(rows, R, a, from)
  /\ \A r \in R : a[r] \in DOMAIN rows
  /\ Len(rows) \in Nat /\ DOMAIN rows = 1 .. Len(rows) /\ Len(rows) <= RowLimit + 1

LEMMA SeriesRowed ==
  ASSUME NEW R, R \subseteq Requests, IsFiniteSet(R), NEW by, NEW from
  PROVE  \E a : Rowed(Series(R, from, by), R, a, from)
<1> DEFINE keys == Busiest(R, by)
           n == Len(keys)
           p == [r \in R |-> PlaceIn(keys, KeyOf(r, by))]
           rows == Series(R, from, by)
<1>1. n \in Nat /\ DOMAIN keys = 1 .. n
  <2>1. Arranged(KeysOf(R, by), BusierThan(R, by), keys) BY BusiestIs
  <2>2. Fronts(KeysOf(R, by), BusierThan(R, by)) BY BusierOrders
  <2>3. Cardinality(KeysOf(R, by)) \in Nat BY <2>2, FS_CardinalityType DEF Fronts
  <2> QED BY <2>1, <2>3 DEF Arranged
<1>2. \A r \in R : p[r] \in DOMAIN keys /\ \A i \in DOMAIN keys : KeyOf(r, by) = keys[i] <=> p[r] = i
  BY PlaceIs
<1>3. RowLimit \in Nat BY LedgerAssumption
<1>4. CASE ~(n > RowLimit)
  <2>1. rows = [i \in DOMAIN keys |-> SeriesRow(keys[i], OfKey(R, by, keys[i]), from)]
    BY <1>4 DEF Series
  <2>2. ASSUME NEW i \in DOMAIN keys PROVE OfKey(R, by, keys[i]) = Part(R, p, i)
    BY <1>2 DEF OfKey, Part
  <2>3. \A i \in DOMAIN keys : rows[i] = SeriesRow(keys[i], Part(R, p, i), from) BY <2>1, <2>2
  <2>4. DOMAIN rows = 1 .. n BY <1>1, <2>1
  <2>5. Len(rows) = n BY <1>1, <2>4
  <2>6. IsFiniteSet(1 .. n) BY <1>1, FS_Interval
  <2> HIDE DEF rows, p, keys, n
  <2>7. Parted(rows, R, p, from) BY <1>1, <2>3, <2>4, <2>6 DEF Parted
  <2>8. Rowed(rows, R, p, from) BY <1>1, <1>2, <1>3, <1>4, <2>4, <2>5, <2>7 DEF Rowed
  <2> QED BY <2>8 DEF rows
<1>5. CASE n > RowLimit
  <2> DEFINE m == RowLimit
             g == [i \in 1 .. m |-> SeriesRow(keys[i], {r \in R : KeyOf(r, by) = keys[i]}, from)]
             x == SeriesRow("other", {r \in R : \E i \in m + 1 .. n : KeyOf(r, by) = keys[i]}, from)
             a == [r \in R |-> IF p[r] <= m THEN p[r] ELSE m + 1]
  <2>1. rows = [i \in 1 .. m |-> g[i]] \o <<x>>
    <3>1. rows = Folded(keys, RowLimit, from, R, by) BY <1>5 DEF Series
    <3>2. g = [i \in 1 .. m |-> g[i]] OBVIOUS
    <3> QED BY <3>1, <3>2 DEF Folded
  <2>2. ASSUME NEW i \in 1 .. m PROVE {r \in R : KeyOf(r, by) = keys[i]} = Part(R, a, i)
    <3>1. i \in DOMAIN keys /\ i <= m /\ i # m + 1 BY <1>1, <1>3, <1>5
    <3>2. \A r \in R : a[r] = i <=> p[r] = i BY <3>1
    <3> HIDE DEF a, p, keys
    <3> QED BY <1>2, <3>1, <3>2 DEF Part
  <2>3. {r \in R : \E i \in m + 1 .. n : KeyOf(r, by) = keys[i]} = Part(R, a, m + 1)
    <3>1. ASSUME NEW r \in R PROVE a[r] = m + 1 <=> p[r] \in m + 1 .. n
      <4>1. p[r] \in 1 .. n BY <1>1, <1>2
      <4>2. a[r] = IF p[r] <= m THEN p[r] ELSE m + 1 OBVIOUS
      <4>3. m \in Nat BY <1>3
      <4> HIDE DEF p, a, n, m
      <4> QED BY <1>1, <4>1, <4>2, <4>3
    <3>2. m + 1 .. n \subseteq DOMAIN keys
      <4> HIDE DEF n, keys
      <4> QED BY <1>1, <1>3
    <3> HIDE DEF a, p, keys, n, m
    <3>3. ASSUME NEW r \in R PROVE (\E i \in m + 1 .. n : KeyOf(r, by) = keys[i]) <=> p[r] \in m + 1 .. n
      BY <1>2, <3>2
    <3> QED BY <3>1, <3>3 DEF Part
  <2>4. /\ \A i \in 1 .. m : g[i] = SeriesRow(keys[i], Part(R, a, i), from)
        /\ x = SeriesRow("other", Part(R, a, m + 1), from)
    BY <2>2, <2>3
  <2>5. \A r \in R : a[r] \in 1 .. m + 1
    <3>1. \A r \in R : p[r] \in 1 .. n BY <1>1, <1>2
    <3>2. \A r \in R : a[r] = IF p[r] <= m THEN p[r] ELSE m + 1 OBVIOUS
    <3> HIDE DEF p, a, n
    <3> QED BY <1>1, <1>3, <3>1, <3>2
  <2>6. m \in Nat /\ IsFiniteSet(1 .. m + 1) BY <1>3, FS_Interval
  <2> HIDE DEF rows, g, x, a, m
  <2>7. /\ DOMAIN rows = 1 .. m + 1 /\ Len(rows) = m + 1
        /\ \A i \in 1 .. m : rows[i] = g[i]
        /\ rows[m + 1] = x
    BY <2>1, <2>6, OneMore
  <2>8. \A i \in 1 .. m + 1 : i \in 1 .. m \/ i = m + 1 BY <2>6
  <2>9. Parted(rows, R, a, from) BY <2>4, <2>6, <2>7, <2>8 DEF Parted
  <2>10. Len(rows) \in Nat /\ Len(rows) <= RowLimit + 1 BY <2>6, <2>7 DEF m
  <2>11. Rowed(rows, R, a, from) BY <2>5, <2>7, <2>9, <2>10 DEF Rowed
  <2> QED BY <2>11 DEF rows
<1> QED BY <1>4, <1>5

(* Its own row, for who is not an owner.                                   *)
MineOf(rows, who) == {i \in DOMAIN rows : rows[i].key = who}
LowerIn(mine) == [i \in mine |-> {j \in mine : j < i}]
Shown(rows, who) == Ranked(MineOf(rows, who), LowerIn(MineOf(rows, who)))

LEMMA ShownIs ==
  ASSUME NEW rows, Len(rows) \in Nat, DOMAIN rows = 1 .. Len(rows), NEW who
  PROVE  /\ Fronts(MineOf(rows, who), LowerIn(MineOf(rows, who)))
         /\ Arranged(MineOf(rows, who), LowerIn(MineOf(rows, who)), Shown(rows, who))
         /\ IsFiniteSet(DOMAIN Shown(rows, who)) /\ 0 \notin DOMAIN Shown(rows, who)
         /\ \A k \in DOMAIN Shown(rows, who) :
              Shown(rows, who)[k] \in DOMAIN rows /\ rows[Shown(rows, who)[k]].key = who
<1> DEFINE S == MineOf(rows, who)
           B == LowerIn(S)
           at == Shown(rows, who)
<1>1. S \subseteq 1 .. Len(rows) BY DEF MineOf
<1>2. IsFiniteSet(S)
  <2>1. IsFiniteSet(1 .. Len(rows)) BY FS_Interval
  <2> HIDE DEF S
  <2> QED BY <1>1, <2>1, FS_Subset
<1>3. \A i, j \in S : i \in Int /\ (i \in B[j] <=> i < j) BY <1>1 DEF LowerIn
<1>4. \A j \in S : B[j] \subseteq S BY DEF LowerIn
<1>5. at = Ranked(S, B) BY DEF Shown
<1>6. \A i \in S : i \in DOMAIN rows /\ rows[i].key = who BY DEF MineOf
<1> HIDE DEF S, B, at
<1>7. ASSUME NEW x \in S, NEW y \in S, x \in B[y] PROVE B[x] \subseteq B[y]
  <2> SUFFICES ASSUME NEW z \in B[x] PROVE z \in B[y] OBVIOUS
  <2>1. z \in S BY <1>4
  <2> QED BY <1>3, <1>7, <2>1
<1>8. \A x \in S : x \notin B[x] BY <1>3
<1>9. \A x, y \in S : x # y => x \in B[y] \/ y \in B[x] BY <1>3
<1>10. Fronts(S, B) BY <1>2, <1>4, <1>7, <1>8, <1>9 DEF Fronts
<1>11. Arranged(S, B, at) BY <1>5, <1>10, RankedIs
<1>12. Cardinality(S) \in Nat BY <1>2, FS_CardinalityType
<1>13. DOMAIN at = 1 .. Cardinality(S) /\ at \in Seq(S) /\ Len(at) = Cardinality(S) BY <1>11 DEF Arranged
<1>14. IsFiniteSet(DOMAIN at) /\ 0 \notin DOMAIN at BY <1>12, <1>13, FS_Interval
<1>15. \A k \in DOMAIN at : at[k] \in S BY <1>12, <1>13
<1> QED BY <1>6, <1>10, <1>11, <1>14, <1>15 DEF S, B, at

LEMMA OwnIs ==
  ASSUME NEW rows, NEW id, NEW by
  PROVE  Own(rows, id, by) =
           IF ~id.owner /\ by = "principal"
           THEN [k \in DOMAIN Shown(rows, id.who) |-> rows[Shown(rows, id.who)[k]]]
           ELSE rows
BY DEF Own, Shown, MineOf, LowerIn

LEMMA OwnParted ==
  ASSUME NEW R, NEW from, NEW rows, NEW a, Rowed(rows, R, a, from), NEW id, NEW by
  PROVE  \E b : Parted(Own(rows, id, by), R, b, from)
<1>1. Parted(rows, R, a, from) /\ Len(rows) \in Nat /\ DOMAIN rows = 1 .. Len(rows) BY DEF Rowed
<1>2. CASE ~(~id.owner /\ by = "principal")
  <2>1. Own(rows, id, by) = rows BY <1>2, OwnIs
  <2> QED BY <1>1, <2>1
<1>3. CASE ~id.owner /\ by = "principal"
  <2> DEFINE at == Shown(rows, id.who)
             own == [k \in DOMAIN at |-> rows[at[k]]]
             S == MineOf(rows, id.who)
             b == [r \in R |-> IF \E k \in DOMAIN at : at[k] = a[r]
                                 THEN CHOOSE k \in DOMAIN at : at[k] = a[r] ELSE 0]
  <2>1. Own(rows, id, by) = own BY <1>3, OwnIs
  <2>2. /\ Fronts(S, LowerIn(S)) /\ Arranged(S, LowerIn(S), at)
        /\ IsFiniteSet(DOMAIN at) /\ 0 \notin DOMAIN at
        /\ \A k \in DOMAIN at : at[k] \in DOMAIN rows
    BY <1>1, ShownIs
  <2>3. DOMAIN own = DOMAIN at /\ \A k \in DOMAIN at : own[k] = rows[at[k]] OBVIOUS
  <2>4. ASSUME NEW k \in DOMAIN at PROVE Part(R, b, k) = Part(R, a, at[k])
    <3>1. ASSUME NEW r \in R PROVE b[r] = k <=> a[r] = at[k]
      <4>1. CASE \E i \in DOMAIN at : at[i] = a[r]
        <5>1. b[r] \in DOMAIN at /\ at[b[r]] = a[r] BY <4>1
        <5> HIDE DEF at, b
        <5>2. at[k] = a[r] => b[r] = k BY <2>2, <5>1, ArrangedOnce
        <5> QED BY <5>1, <5>2
      <4>2. CASE ~(\E i \in DOMAIN at : at[i] = a[r])
        <5>1. b[r] = 0 BY <4>2
        <5> QED BY <2>2, <4>2, <5>1
      <4> QED BY <4>1, <4>2
    <3> QED BY <3>1 DEF Part
  <2>5. ASSUME NEW k \in DOMAIN own PROVE \E key : own[k] = SeriesRow(key, Part(R, b, k), from)
    <3>1. k \in DOMAIN at /\ own[k] = rows[at[k]] /\ at[k] \in DOMAIN rows BY <2>2, <2>3
    <3>2. PICK key : rows[at[k]] = SeriesRow(key, Part(R, a, at[k]), from) BY <1>1, <3>1 DEF Parted
    <3> HIDE DEF own, at, b
    <3> QED BY <2>4, <3>1, <3>2
  <2>6. IsFiniteSet(DOMAIN own) BY <2>2, <2>3
  <2> HIDE DEF own, b
  <2>7. Parted(own, R, b, from) BY <2>5, <2>6 DEF Parted
  <2> QED BY <2>1, <2>7
<1> QED BY <1>2, <1>3

KeyedBy(rows, R, by, from, who) ==
  \A i \in DOMAIN rows : rows[i].key = who =>
    /\ rows[i] = SeriesRow(who, OfKey(R, by, who), from)
    /\ \A j \in DOMAIN rows : rows[j].key = who => i = j

(* Whose key is not taken by the folded row has one row at most, and in it *)
(* all the requests of that key.                                           *)
LEMMA SeriesKeyed ==
  ASSUME NEW R, R \subseteq Requests, IsFiniteSet(R), NEW by, NEW from, NEW who, who # "other"
  PROVE  KeyedBy(Series(R, from, by), R, by, from, who)
<1> DEFINE keys == Busiest(R, by)
           n == Len(keys)
           rows == Series(R, from, by)
<1>1. Arranged(KeysOf(R, by), BusierThan(R, by), keys) BY BusiestIs
<1>2. Fronts(KeysOf(R, by), BusierThan(R, by)) BY BusierOrders
<1>3. n \in Nat /\ DOMAIN keys = 1 .. n
  <2>1. Cardinality(KeysOf(R, by)) \in Nat BY <1>2, FS_CardinalityType DEF Fronts
  <2> QED BY <1>1, <2>1 DEF Arranged
<1>4. RowLimit \in Nat BY LedgerAssumption
<1>5. ASSUME NEW i \in DOMAIN rows, rows[i].key = who
      PROVE  i \in DOMAIN keys /\ keys[i] = who /\ rows[i] = SeriesRow(who, OfKey(R, by, who), from)
  <2>1. \A key, Q : SeriesRow(key, Q, from).key = key BY DEF SeriesRow
  <2>2. CASE ~(n > RowLimit)
    <3>1. rows = [j \in DOMAIN keys |-> SeriesRow(keys[j], OfKey(R, by, keys[j]), from)]
      BY <2>2 DEF Series
    <3>2. i \in DOMAIN keys /\ rows[i] = SeriesRow(keys[i], OfKey(R, by, keys[i]), from)
      BY <3>1
    <3> QED BY <1>5, <2>1, <3>2
  <2>3. CASE n > RowLimit
    <3> DEFINE m == RowLimit
               g == [j \in 1 .. m |-> SeriesRow(keys[j], {r \in R : KeyOf(r, by) = keys[j]}, from)]
               x == SeriesRow("other", {r \in R : \E j \in m + 1 .. n : KeyOf(r, by) = keys[j]}, from)
    <3>1. rows = [j \in 1 .. m |-> g[j]] \o <<x>>
      <4>1. rows = Folded(keys, RowLimit, from, R, by) BY <2>3 DEF Series
      <4>2. g = [j \in 1 .. m |-> g[j]] OBVIOUS
      <4> QED BY <4>1, <4>2 DEF Folded
    <3>2. \A j \in 1 .. m : g[j] = SeriesRow(keys[j], OfKey(R, by, keys[j]), from) BY DEF OfKey
    <3>3. x.key = "other" BY <2>1
    <3>4. m \in Nat /\ m < n BY <1>3, <1>4, <2>3
    <3> HIDE DEF g, x, m, rows, keys, n
    <3>5. /\ DOMAIN rows = 1 .. m + 1
          /\ \A j \in 1 .. m : rows[j] = g[j]
          /\ rows[m + 1] = x
      BY <3>1, <3>4, OneMore
    <3>6. i \in 1 .. m /\ i \in DOMAIN keys
      <4>1. i # m + 1 BY <1>5, <3>3, <3>5
      <4> QED BY <1>3, <3>4, <3>5, <4>1
    <3>7. rows[i] = SeriesRow(keys[i], OfKey(R, by, keys[i]), from) BY <3>2, <3>5, <3>6
    <3> QED BY <1>5, <2>1, <3>6, <3>7
  <2> QED BY <2>2, <2>3
<1> HIDE DEF rows, keys
<1>6. ASSUME NEW i \in DOMAIN rows, rows[i].key = who, NEW j \in DOMAIN rows, rows[j].key = who
      PROVE  i = j
  <2>1. i \in DOMAIN keys /\ j \in DOMAIN keys /\ keys[i] = keys[j] BY <1>5, <1>6
  <2> QED BY <1>1, <1>2, <2>1, ArrangedOnce
<1> QED BY <1>5, <1>6 DEF rows, KeyedBy

(* What such a viewer is shown of the chart counts exactly their requests, *)
(* or nothing.                                                             *)
LEMMA OwnCounts ==
  ASSUME NEW R, R \subseteq Requests, NEW from, Charted(R, from), NEW by, by = "principal",
         NEW id, ~id.owner, id.who # "other"
  PROVE  SumFunction(RequestsBy(Own(Series(R, from, by), id, by)))
           \in {0, Cardinality(OfKey(R, by, id.who))}
<1> DEFINE s == Series(R, from, by)
           who == id.who
           at == Shown(s, who)
           own == Own(s, id, by)
           Q == OfKey(R, by, who)
<1>1. IsFiniteSet(R) BY DEF Charted
<1>2. PICK a : Rowed(s, R, a, from) BY <1>1, SeriesRowed
<1>3. PICK b : Parted(own, R, b, from) BY <1>2, OwnParted
<1>4. Len(s) \in Nat /\ DOMAIN s = 1 .. Len(s) BY <1>2 DEF Rowed
<1>5. own = [k \in DOMAIN at |-> s[at[k]]] BY OwnIs
<1>6. /\ Fronts(MineOf(s, who), LowerIn(MineOf(s, who)))
      /\ Arranged(MineOf(s, who), LowerIn(MineOf(s, who)), at)
      /\ \A k \in DOMAIN at : at[k] \in DOMAIN s /\ s[at[k]].key = who
  BY <1>4, ShownIs
<1>7. \A i \in DOMAIN s : s[i].key = who =>
        s[i] = SeriesRow(who, Q, from) /\ \A j \in DOMAIN s : s[j].key = who => i = j
  <2>1. who # "other" OBVIOUS
  <2> HIDE DEF who
  <2>2. KeyedBy(Series(R, from, by), R, by, from, who) BY <1>1, <2>1, SeriesKeyed
  <2> QED BY <2>2 DEF KeyedBy
<1> HIDE DEF s, at, own, Q
<1>8. \A k, l \in DOMAIN at : k = l
  <2> SUFFICES ASSUME NEW k \in DOMAIN at, NEW l \in DOMAIN at PROVE k = l OBVIOUS
  <2>1. at[k] = at[l] BY <1>6, <1>7
  <2> QED BY <1>6, <2>1, ArrangedOnce
<1>9. SumFunction(RequestsBy(own)) = Cardinality(Parts(R, b, DOMAIN own)) BY <1>3, ChartSums
<1>10. DOMAIN own = DOMAIN at BY <1>5
<1>11. CASE DOMAIN at = {}
  <2>1. Parts(R, b, DOMAIN own) = {} BY <1>10, <1>11 DEF Parts
  <2> QED BY <1>9, <2>1, FS_EmptySet DEF own, s
<1>12. CASE DOMAIN at # {}
  <2>1. PICK k : k \in DOMAIN at BY <1>12
  <2>2. DOMAIN own = {k} BY <1>8, <1>10, <2>1
  <2>3. Parts(R, b, DOMAIN own) = Part(R, b, k) BY <2>2 DEF Parts, Part
  <2>4. own[k] = SeriesRow(who, Q, from) BY <1>5, <1>6, <1>7, <2>1
  <2>5. PICK key : own[k] = SeriesRow(key, Part(R, b, k), from) BY <1>3, <2>2 DEF Parted
  <2>6. ASSUME NEW P, P \subseteq R PROVE Charted(P, from)
    <3>1. IsFiniteSet(P) BY <1>1, <2>6, FS_Subset
    <3> QED BY <2>6, <3>1 DEF Charted
  <2>7. Charted(Q, from) /\ Charted(Part(R, b, k), from)
    <3>1. Q \subseteq R BY DEF Q, OfKey
    <3>2. Part(R, b, k) \subseteq R BY DEF Part
    <3> QED BY <2>6, <3>1, <3>2
  <2>8. RowRequests(own[k]) = Cardinality(Q) BY <2>4, <2>7, RowSums
  <2>9. RowRequests(own[k]) = Cardinality(Part(R, b, k)) BY <2>5, <2>7, RowSums
  <2>10. SumFunction(RequestsBy(own)) = Cardinality(Q) BY <1>9, <2>3, <2>8, <2>9
  <2> QED BY <2>10 DEF own, s, Q
<1> QED BY <1>11, <1>12

-----------------------------------------------------------------------------
(* The window's rows.                                                      *)
LEMMA RowsAre ==
  ASSUME IInv, Timely, NEW table \in Seq(Requests), NEW from \in Nat
  PROVE  /\ RowsOf(table, from) \subseteq Requests
         /\ Charted(RowsOf(table, from), from)
<1> DEFINE R == RowsOf(table, from)
<1>1. now \in Nat
  <2>1. now \in Span .. MaxTime BY DEF IInv, TypeOK
  <2> QED BY <2>1, Constants
<1>2. ToSet(table) \subseteq Requests BY SetOfSeq
<1>3. R \subseteq ToSet(table) /\ \A r \in R : StoreTime(req[r].ts) > StoreTime(from) BY DEF RowsOf
<1>4. IsFiniteSet(ToSet(table))
  <2>1. Len(table) \in Nat /\ DOMAIN table = 1 .. Len(table) BY LenProperties
  <2>2. IsFiniteSet(DOMAIN table) BY <2>1, FS_Interval
  <2>3. IsFiniteSet({table[i] : i \in DOMAIN table}) BY <2>2, ImageFinite
  <2> QED BY <2>3 DEF ToSet
<1>5. IsFiniteSet(R) BY <1>3, <1>4, FS_Subset
<1>6. \A r \in R : BucketOf(r, from) \in Grid(from)
  <2> HIDE DEF R
  <2> QED BY <1>1, <1>2, <1>3, InGrid
<1>7. IsFiniteSet(Grid(from))
  <2>1. Width \in Nat \ {0} BY LedgerAssumption
  <2>2. from % Width \in Nat BY <2>1, Quotient
  <2>3. now - Start(from) \in Int BY <1>1, <2>2 DEF Start
  <2>4. (now - Start(from)) \div Width \in Int BY <2>1, <2>3
  <2> QED BY <2>4, FS_Interval DEF Grid
<1> QED BY <1>2, <1>3, <1>5, <1>6, <1>7 DEF Charted

LEMMA WindowIs == ASSUME IInv PROVE now \in Nat /\ now - Span \in Nat /\ stored \in Seq(Requests)
<1>1. now \in Span .. MaxTime /\ stored \in Seq(Requests) BY DEF IInv, TypeOK
<1> QED BY <1>1, Constants

(* The usage panel counts every request of its window in its person's row. *)
LEMMA UsageIs ==
  ASSUME IInv, NEW from \in Nat, IsFiniteSet(UsageRows(from))
  PROVE  SumFunction([u \in UsageByPrincipal(from) |-> u.requests]) = Cardinality(UsageRows(from))
<1> DEFINE R == UsageRows(from)
           U == UsageByPrincipal(from)
           a == [r \in R |-> UsageRow(KindOf[r].who, R)]
           f == [u \in U |-> u.requests]
<1>1. U = {a[r] : r \in R} BY DEF UsageByPrincipal
<1>2. DOMAIN a = R /\ DOMAIN f = U OBVIOUS
<1>3. ASSUME NEW u \in U PROVE f[u] = Cardinality(Part(R, a, u))
  <2>1. PICK q \in R : u = UsageRow(KindOf[q].who, R) BY <1>1
  <2>2. u.requests = Cardinality({r \in R : KindOf[r].who = KindOf[q].who}) /\ u.who = KindOf[q].who
    BY <2>1 DEF UsageRow
  <2>3. ASSUME NEW r \in R PROVE a[r] = u <=> KindOf[r].who = KindOf[q].who
    <3>1. a[r].who = KindOf[r].who BY DEF UsageRow
    <3>2. a[r] = UsageRow(KindOf[r].who, R) OBVIOUS
    <3> HIDE DEF a, R, U
    <3> QED BY <2>1, <2>2, <3>1, <3>2
  <2>4. Part(R, a, u) = {r \in R : KindOf[r].who = KindOf[q].who} BY <2>3 DEF Part
  <2>5. f[u] = u.requests OBVIOUS
  <2> QED BY <2>2, <2>4, <2>5
<1>4. Parts(R, a, U) = R BY <1>1 DEF Parts
<1> HIDE DEF R, U, a, f
<1>5. IsFiniteSet(R) BY DEF R
<1>6. IsFiniteSet(U) BY <1>1, <1>2, <1>5, ImageFinite
<1>7. SumFunction(f) = Cardinality(R) BY <1>2, <1>3, <1>4, <1>5, <1>6, SumIsCount
<1> QED BY <1>7 DEF f, R, U

LEMMA UsageCovers ==
  ASSUME IInv, Timely, NEW from \in Nat
  PROVE  SumFunction([u \in UsageByPrincipal(from) |-> u.requests]) >= Cardinality(Rows(from))
<1> DEFINE R == UsageRows(from)
<1>2. stored \in Seq(Requests) BY WindowIs
<1>3. \A r \in Requests : req[r].ts \in Nat BY DEF Timely
<1>4. ToSet(stored) \subseteq Requests BY <1>2, SetOfSeq
<1>5. Rows(from) \subseteq R
  <2> SUFFICES ASSUME NEW r \in Rows(from) PROVE r \in R OBVIOUS
  <2>1. r \in ToSet(stored) /\ r \in Requests /\ StoreTime(req[r].ts) > StoreTime(from)
    BY <1>4 DEF Rows, RowsOf
  <2>2. Day \in Nat \ {0} /\ Day % Sec = 0 BY LedgerAssumption
  <2>3. CASE backend = "sqlite"
    <3>1. req[r].ts >= Day * (from \div Day) BY <1>3, <2>1, <2>2, LaterUnit
    <3>2. from = Day * (from \div Day) + (from % Day) /\ from \div Day \in Nat /\ from % Day \in Nat
      <4>1. /\ from = Day * (from \div Day) + (from % Day) /\ from \div Day \in Nat
            /\ from % Day \in 0 .. Day - 1
        BY <2>2, Quotient
      <4> HIDE DEF R
      <4>2. \A x \in 0 .. Day - 1 : x \in Nat BY <2>2
      <4> QED BY <4>1, <4>2
    <3>3. req[r].ts > from - (from % Day) - 1
      <4> DEFINE q == from \div Day
                 p == from % Day
      <4>1. Day * q \in Nat BY <2>2, <3>2
      <4> HIDE DEF q, p
      <4>2. from = Day * q + p /\ p \in Nat /\ req[r].ts >= Day * q BY <3>1, <3>2 DEF q, p
      <4>3. req[r].ts > from - p - 1 BY <4>1, <4>2, <1>3, <2>1
      <4> QED BY <4>3 DEF p
    <3> QED BY <2>1, <2>3, <3>3 DEF UsageRows
  <2>4. CASE backend # "sqlite"
    <3>1. req[r].ts > from BY <1>3, <2>1, <2>4, LaterSecond
    <3> QED BY <2>1, <2>4, <3>1 DEF UsageRows
  <2> QED BY <2>3, <2>4
<1>6. IsFiniteSet(R)
  <2>1. IsFiniteSet(ToSet(stored))
    <3>1. Len(stored) \in Nat /\ DOMAIN stored = 1 .. Len(stored) BY <1>2, LenProperties
    <3>2. IsFiniteSet(DOMAIN stored) BY <3>1, FS_Interval
    <3>3. IsFiniteSet({stored[i] : i \in DOMAIN stored}) BY <3>2, ImageFinite
    <3> QED BY <3>3 DEF ToSet
  <2>2. R \subseteq ToSet(stored) BY DEF UsageRows
  <2> QED BY <2>1, <2>2, FS_Subset
<1>7. SumFunction([u \in UsageByPrincipal(from) |-> u.requests]) = Cardinality(R) BY <1>6, UsageIs
<1> HIDE DEF R
<1>8. Cardinality(Rows(from)) <= Cardinality(R) /\ Cardinality(R) \in Nat
      /\ Cardinality(Rows(from)) \in Nat
  BY <1>5, <1>6, FS_Subset, FS_CardinalityType
<1> QED BY <1>7, <1>8

LEMMA SeriesAddUp == IInv /\ Timely => SeriesConserves
<1> SUFFICES ASSUME IInv, Timely, NEW by \in {"model", "principal"}
             PROVE  LET from == now - Span
                        s == Series(Rows(from), from, by)
                    IN /\ Len(s) <= RowLimit + 1
                       /\ \A b \in Grid(from) :
                            SumFunction([i \in DOMAIN s |-> s[i].buckets[b].requests])
                              = Cardinality({r \in Rows(from) : BucketOf(r, from) = b})
                       /\ SumFunction([i \in DOMAIN s |-> RowRequests(s[i])]) = Cardinality(Rows(from))
                       /\ SumFunction([u \in UsageByPrincipal(from) |-> u.requests])
                            >= Cardinality(Rows(from))
  BY DEF SeriesConserves
<1> DEFINE from == now - Span
           R == Rows(from)
           s == Series(R, from, by)
<1>1. from \in Nat /\ stored \in Seq(Requests) BY WindowIs
<1>2. R = RowsOf(stored, from) BY DEF Rows
<1> HIDE DEF from, R
<1>3. R \subseteq Requests /\ Charted(R, from) BY <1>1, <1>2, RowsAre
<1>4. IsFiniteSet(R) BY <1>3 DEF Charted
<1>5. PICK a : Rowed(s, R, a, from) BY <1>3, <1>4, SeriesRowed
<1> HIDE DEF s
<1>6. Parts(R, a, DOMAIN s) = R BY <1>5 DEF Parts, Rowed
<1>7. Parted(s, R, a, from) /\ Len(s) <= RowLimit + 1 BY <1>5 DEF Rowed
<1>8. /\ SumFunction(RequestsBy(s)) = Cardinality(R)
      /\ \A b \in Grid(from) : SumFunction(RequestsIn(s, b)) = Cardinality({r \in R : BucketOf(r, from) = b})
  BY <1>3, <1>6, <1>7, ChartSums
<1>9. SumFunction([u \in UsageByPrincipal(from) |-> u.requests]) >= Cardinality(Rows(from))
  BY <1>1, UsageCovers
<1> QED BY <1>7, <1>8, <1>9 DEF from, R, s, RequestsBy, RequestsIn

(* What a chart made of the first n rows shows as errors.                  *)
LEMMA ChartedErrors ==
  ASSUME IInv, Timely, NEW n \in 0 .. Len(stored), NEW by \in {"model", "principal"}, NEW id
  PROVE  LET from == now - Span
             rows == Own(TrafficSeries(n, by, from), id, by)
         IN /\ SumFunction(ErrorsBy(rows)) <= Cardinality(TrafficFailures(from))
            /\ n = Len(stored) /\ (id.owner \/ by = "model") =>
                 SumFunction(ErrorsBy(rows)) = Cardinality(TrafficFailures(from))
<1> DEFINE from == now - Span
           table == SubSeq(stored, 1, n)
           R == RowsOf(table, from)
           s == Series(R, from, by)
           rows == Own(TrafficSeries(n, by, from), id, by)
<1>1. from \in Nat /\ stored \in Seq(Requests) BY WindowIs
<1>2. table \in Seq(Requests) /\ ToSet(table) \subseteq ToSet(stored)
  <2>1. Len(stored) \in Nat /\ DOMAIN stored = 1 .. Len(stored) BY <1>1, LenProperties
  <2>2. \A i \in 1 .. n : i \in 1 .. Len(stored) BY <2>1
  <2>3. \A i \in 1 .. n : stored[i] \in Requests BY <1>1, <2>1, <2>2
  <2>4. /\ table \in Seq(Requests) /\ DOMAIN table = 1 .. n
        /\ \A i \in 1 .. n : table[i] = stored[i]
    BY <1>1, <2>1, <2>3
  <2> HIDE DEF table
  <2> QED BY <2>1, <2>2, <2>4 DEF ToSet
<1>3. rows = Own(s, id, by) BY DEF TrafficSeries
<1>4. R \subseteq Rows(from) BY <1>2 DEF RowsOf, Rows
<1>a. n = Len(stored) => R = Rows(from)
  <2>1. n = Len(stored) => table = stored BY <1>1
  <2> HIDE DEF table
  <2> QED BY <2>1 DEF Rows
<1>b. id.owner \/ by = "model" => rows = s BY <1>3, OwnIs
<1> HIDE DEF from, table, rows
<1>5. R \subseteq Requests /\ Charted(R, from) BY <1>1, <1>2, RowsAre
<1>6. Rows(from) \subseteq Requests /\ Charted(Rows(from), from) BY <1>1, RowsAre DEF Rows
<1> HIDE DEF R
<1>7. IsFiniteSet(R) /\ IsFiniteSet(Rows(from)) BY <1>5, <1>6 DEF Charted
<1>8. PICK a : Rowed(s, R, a, from) BY <1>5, <1>7, SeriesRowed
<1> HIDE DEF s
<1>9. PICK b : Parted(rows, R, b, from) BY <1>3, <1>8, OwnParted
<1>10. SumFunction(ErrorsBy(rows)) = Cardinality(Parts(FailedOf(R), b, DOMAIN rows))
  BY <1>5, <1>9, ChartSums
<1>11. Parts(FailedOf(R), b, DOMAIN rows) \subseteq TrafficFailures(from)
  BY <1>4 DEF Parts, FailedOf, TrafficFailures
<1>12. IsFiniteSet(TrafficFailures(from))
  <2>1. TrafficFailures(from) \subseteq Rows(from) BY DEF TrafficFailures
  <2> QED BY <1>7, <2>1, FS_Subset
<1>13. Cardinality(Parts(FailedOf(R), b, DOMAIN rows)) <= Cardinality(TrafficFailures(from))
  BY <1>11, <1>12, FS_Subset
<1>14. ASSUME n = Len(stored), id.owner \/ by = "model"
       PROVE  SumFunction(ErrorsBy(rows)) = Cardinality(TrafficFailures(from))
  <2>1. R = Rows(from) /\ rows = s BY <1>a, <1>b, <1>14
  <2>2. Parted(s, R, a, from) BY <1>8 DEF Rowed
  <2>3. SumFunction(ErrorsBy(s)) = Cardinality(Parts(FailedOf(R), a, DOMAIN s)) BY <1>5, <2>2, ChartSums
  <2>4. Parts(FailedOf(R), a, DOMAIN s) = TrafficFailures(from)
    <3>1. \A r \in R : a[r] \in DOMAIN s BY <1>8 DEF Rowed
    <3> QED BY <2>1, <3>1 DEF Parts, FailedOf, TrafficFailures
  <2> QED BY <2>1, <2>3, <2>4
<1> QED BY <1>10, <1>13, <1>14 DEF from, rows

LEMMA ErrorsAreExplained == IInv /\ Timely => ErrorsExplained
<1> SUFFICES ASSUME IInv, Timely, NEW n \in 0 .. Len(stored), NEW by \in {"model", "principal"},
                    NEW id \in Viewers, NEW answered \in SUBSET {"series", "failures"},
                    "failures" \in answered
             PROVE  LET page == DashTraffic(TrafficSeries(n, by, now - Span), id, by, now - Span, answered)
                        errors == SumFunction([i \in DOMAIN page.rows |-> RowErrors(page.rows[i])])
                    IN /\ errors <= Cardinality(page.failures)
                       /\ n = Len(stored) /\ (id.owner \/ by = "model") =>
                            errors = Cardinality(page.failures)
  BY DEF ErrorsExplained
<1> DEFINE from == now - Span
           series == TrafficSeries(n, by, from)
           rows == Own(series, id, by)
           page == DashTraffic(series, id, by, from, answered)
<1>1. CASE "series" \in answered
  <2>1. page.rows = rows /\ page.failures = TrafficFailures(from) BY <1>1 DEF DashTraffic
  <2>2. /\ SumFunction(ErrorsBy(rows)) <= Cardinality(TrafficFailures(from))
        /\ n = Len(stored) /\ (id.owner \/ by = "model") =>
             SumFunction(ErrorsBy(rows)) = Cardinality(TrafficFailures(from))
    BY ChartedErrors
  <2> HIDE DEF page, rows, from
  <2>3. [i \in DOMAIN page.rows |-> RowErrors(page.rows[i])] = ErrorsBy(rows) BY <2>1 DEF ErrorsBy
  <2> QED BY <2>1, <2>2, <2>3 DEF page, from
<1>2. CASE "series" \notin answered
  <2>1. page.rows = <<>> /\ page.failures = {} BY <1>2 DEF DashTraffic
  <2> DEFINE f == [i \in DOMAIN page.rows |-> RowErrors(page.rows[i])]
             H == {}
             c == [h \in H |-> h]
  <2>2. DOMAIN f = {} BY <2>1
  <2>3. Parts(H, c, DOMAIN f) = {} BY DEF Parts
  <2>4. IsFiniteSet({}) /\ Cardinality({}) = 0 BY FS_EmptySet
  <2> HIDE DEF f, c
  <2>5. SumFunction(f) = Cardinality(Parts(H, c, DOMAIN f)) BY <2>2, <2>4, SumIsCount
  <2>6. SumFunction(f) = 0 BY <2>3, <2>4, <2>5
  <2> HIDE DEF page
  <2>7. /\ SumFunction(f) <= Cardinality(page.failures)
        /\ n = Len(stored) /\ (id.owner \/ by = "model") => SumFunction(f) = Cardinality(page.failures)
    BY <2>1, <2>4, <2>6
  <2> QED BY <2>7 DEF f, page, series, from
<1> QED BY <1>1, <1>2

(* For any rows, window, grid and limit, with any number of keys folded:   *)
(* the traffic page charts every request of its window once, shows no      *)
(* error that is not in its list of failures when the store gave that list *)
(* (assembleSeries, Failures), and agrees with it when both queries saw    *)
(* the same rows.                                                          *)
THEOREM ChartsAlwaysAddUp == Spec => []ChartsAddUp
<1>1. IInv /\ Timely => ChartsAddUp BY SeriesAddUp, ErrorsAreExplained DEF ChartsAddUp
<1> QED BY <1>1, InitInv, NextInv, TimelyInit, TimelyNext, PTL DEF Spec

-----------------------------------------------------------------------------
(* Listings.                                                               *)
NewerIn(R) == [r \in R |-> {t \in R : Newer(t, r)}]

LEMMA StoredDistinct == IInv => Distinct(stored)
<1> SUFFICES ASSUME IInv PROVE Distinct(stored) OBVIOUS
<1>1. Distinct(logged) /\ Ordered(logged, stored) BY DEF IInv, InOrder
<1>2. stored \in Seq(Requests) /\ logged \in Seq(Requests) BY DEF IInv, TypeOK
<1>3. DOMAIN stored \subseteq Int BY <1>2
<1> SUFFICES ASSUME NEW i \in DOMAIN stored, NEW j \in DOMAIN stored, stored[i] = stored[j] PROVE i = j
  BY DEF Distinct
<1>4. ~(i < j) /\ ~(j < i)
  <2>1. ~Before(logged, stored[i], stored[i]) BY <1>1, <1>2, BeforeIrreflexive
  <2> QED BY <1>1, <2>1 DEF Ordered
<1> QED BY <1>3, <1>4

(* A stored request has a row, and no two have the same.                   *)
LEMMA RowIdIs ==
  ASSUME IInv, NEW r \in ToSet(stored)
  PROVE  RowId(r) \in DOMAIN stored /\ stored[RowId(r)] = r /\ RowId(r) \in Int
<1>1. stored \in Seq(Requests) /\ Distinct(stored) BY StoredDistinct DEF IInv, TypeOK
<1>2. PICK i \in DOMAIN stored : stored[i] = r BY DEF ToSet
<1>3. RowId(r) = At(stored, r) BY DEF RowId, SelectInSeq, At
<1>4. At(stored, stored[i]) = i BY <1>1, FoundAt
<1>5. DOMAIN stored \subseteq Int BY <1>1
<1> QED BY <1>2, <1>3, <1>4, <1>5

LEMMA NewerOrders ==
  ASSUME IInv, Timely, NEW R, R \subseteq ToSet(stored)
  PROVE  Fronts(R, NewerIn(R)) /\ Arranged(R, NewerIn(R), Newest(R))
<1> DEFINE B == NewerIn(R)
<1>1. stored \in Seq(Requests) BY DEF IInv, TypeOK
<1>2. ToSet(stored) \subseteq Requests BY <1>1, SetOfSeq
<1>3. IsFiniteSet(R)
  <2>1. Len(stored) \in Nat /\ DOMAIN stored = 1 .. Len(stored) BY <1>1, LenProperties
  <2>2. IsFiniteSet(DOMAIN stored) BY <2>1, FS_Interval
  <2>3. IsFiniteSet({stored[i] : i \in DOMAIN stored}) BY <2>2, ImageFinite
  <2>4. IsFiniteSet(ToSet(stored)) BY <2>3 DEF ToSet
  <2> QED BY <2>4, FS_Subset
<1> DEFINE T(r) == StoreTime(req[r].ts)
<1>4. \A r \in R : T(r) \in Nat /\ RowId(r) \in Int /\ stored[RowId(r)] = r
  BY <1>2, RowIdIs, LaterSecond DEF Timely
<1>5. \A t, r \in R : t \in B[r] <=> T(t) > T(r) \/ (T(t) = T(r) /\ RowId(t) < RowId(r))
  BY DEF NewerIn, Newer
<1> HIDE DEF T
<1>6. \A r \in R : B[r] \subseteq R BY DEF NewerIn
<1> HIDE DEF B
<1>7. \A r \in R : r \notin B[r] BY <1>4, <1>5
<1>8. ASSUME NEW x \in R, NEW y \in R, x \in B[y] PROVE B[x] \subseteq B[y]
  <2> SUFFICES ASSUME NEW z \in B[x] PROVE z \in B[y] OBVIOUS
  <2>1. z \in R BY <1>6
  <2> QED BY <1>4, <1>5, <1>8, <2>1
<1>9. \A x, y \in R : x # y => x \in B[y] \/ y \in B[x] BY <1>4, <1>5
<1>10. Fronts(R, B) BY <1>3, <1>6, <1>7, <1>8, <1>9 DEF Fronts
<1>11. Newest(R) = Ranked(R, B) BY DEF Newest, NewerIn, B
<1> QED BY <1>10, <1>11, RankedIs DEF B

(* A page of a listing is the head of it.                                  *)
LEMMA PageIs ==
  ASSUME IInv, Timely, NEW R, R \subseteq ToSet(stored)
  PROVE  LET s == FirstRows(R)
             m == Cardinality(R)
             n == IF m < ListLimit THEN m ELSE ListLimit IN
         /\ m \in Nat /\ Len(s) = n /\ DOMAIN s = 1 .. n
         /\ DOMAIN Newest(R) = 1 .. m
         /\ \A i \in 1 .. n : s[i] = Newest(R)[i] /\ s[i] \in R
<1> DEFINE t == Newest(R)
           m == Cardinality(R)
           n == IF m < ListLimit THEN m ELSE ListLimit
           s == FirstRows(R)
<1>1. Arranged(R, NewerIn(R), t) /\ IsFiniteSet(R) BY NewerOrders DEF Fronts
<1>2. m \in Nat /\ ListLimit \in Nat BY <1>1, FS_CardinalityType, LedgerAssumption
<1>3. t \in Seq(R) /\ Len(t) = m /\ DOMAIN t = 1 .. m BY <1>1 DEF Arranged
<1>4. s = SubSeq(t, 1, n) BY <1>3 DEF FirstRows
<1>5. n \in Nat /\ n <= m BY <1>2
<1> HIDE DEF s, t, m, n
<1>6. \A i \in 1 .. n : i \in 1 .. m /\ t[i] \in R BY <1>2, <1>3, <1>5
<1>7. s \in Seq(R) /\ Len(s) = n /\ DOMAIN s = 1 .. n /\ \A i \in 1 .. n : s[i] = t[i]
  BY <1>2, <1>3, <1>4, <1>5, <1>6
<1> QED BY <1>2, <1>3, <1>6, <1>7 DEF s, t, m, n

LEMMA PageWithin ==
  ASSUME IInv, Timely, NEW R, R \subseteq ToSet(stored)
  PROVE  ToSet(FirstRows(R)) \subseteq R
BY PageIs DEF ToSet

LEMMA OnlyOwnRows == IInv /\ Timely => OwnRowsOnly
<1> SUFFICES ASSUME IInv, Timely, NEW id \in Viewers, ~id.owner
             PROVE  /\ \A u \in DashUsage(id, now - Span) : u.who = id.who
                    /\ \A r \in Requests :
                         r \in ToSet(DashRequests(id, KindOf[r].sess)) => KindOf[r].who = id.who
                    /\ LET series == TrafficSeries(Len(stored), "principal", now - Span)
                           rows == DashTraffic(series, id, "principal", now - Span, {"series"}).rows
                       IN id.who # "other" =>
                            SumFunction([i \in DOMAIN rows |-> RowRequests(rows[i])])
                              \in {0, Cardinality(OfKey(Rows(now - Span), "principal", id.who))}
  BY DEF OwnRowsOnly
<1>1. \A u \in DashUsage(id, now - Span) : u.who = id.who BY DEF DashUsage
<1>2. ASSUME NEW r \in Requests, r \in ToSet(DashRequests(id, KindOf[r].sess))
      PROVE  KindOf[r].who = id.who
  <2> DEFINE R == {q \in ToSet(stored) : KindOf[q].sess = KindOf[r].sess
                                           /\ (id.who # "" => KindOf[q].who = id.who)}
  <2>1. CASE id.who = ""
    <3>1. DashRequests(id, KindOf[r].sess) = <<>> BY <2>1 DEF DashRequests
    <3> QED BY <1>2, <3>1, SetOfEmpty
  <2>2. CASE id.who # ""
    <3>1. DashRequests(id, KindOf[r].sess) = FirstRows(R) BY <2>2 DEF DashRequests, RequestsBySession
    <3>2. ToSet(FirstRows(R)) \subseteq R BY PageWithin
    <3>3. r \in R BY <1>2, <3>1, <3>2
    <3> QED BY <2>2, <3>3
  <2> QED BY <2>1, <2>2
<1>3. ASSUME id.who # "other"
      PROVE  LET series == TrafficSeries(Len(stored), "principal", now - Span)
                 rows == DashTraffic(series, id, "principal", now - Span, {"series"}).rows
             IN SumFunction([i \in DOMAIN rows |-> RowRequests(rows[i])])
                  \in {0, Cardinality(OfKey(Rows(now - Span), "principal", id.who))}
  <2> DEFINE from == now - Span
             by == "principal"
             series == TrafficSeries(Len(stored), by, from)
             rows == DashTraffic(series, id, by, from, {"series"}).rows
             R == Rows(from)
  <2>1. from \in Nat /\ stored \in Seq(Requests) BY WindowIs
  <2>2. SubSeq(stored, 1, Len(stored)) = stored BY <2>1
  <2>3. R = RowsOf(stored, from) BY DEF Rows
  <2>4. R \subseteq Requests /\ Charted(R, from) BY <2>1, <2>3, RowsAre
  <2>5. series = Series(R, from, by) BY <2>2, <2>3 DEF TrafficSeries
  <2>6. rows = Own(series, id, by) BY DEF DashTraffic
  <2> HIDE DEF from, R, rows, series, by
  <2>7. by = "principal" BY DEF by
  <2>8. SumFunction(RequestsBy(rows)) \in {0, Cardinality(OfKey(R, by, id.who))}
    BY <1>3, <2>4, <2>5, <2>6, <2>7, OwnCounts
  <2> QED BY <2>8 DEF RequestsBy, rows, series, R, from, by
<1> QED BY <1>1, <1>2, <1>3

LEMMA NewestAreFirst == IInv /\ Timely => NewestFirst
<1> SUFFICES ASSUME IInv, Timely, NEW sess \in {KindOf[r].sess : r \in Requests}
             PROVE  LET shown == DashRequests(Unrestricted, sess) IN
                    /\ \A i, j \in DOMAIN shown : i < j => Instant(shown[i]) >= Instant(shown[j])
                    /\ \A r \in ToSet(stored) \ ToSet(shown) : KindOf[r].sess = sess =>
                         Len(shown) = ListLimit /\ Instant(r) <= Instant(shown[Len(shown)])
  BY DEF NewestFirst
<1> DEFINE R == {r \in ToSet(stored) : KindOf[r].sess = sess}
           shown == DashRequests(Unrestricted, sess)
           t == Newest(R)
           m == Cardinality(R)
           n == IF m < ListLimit THEN m ELSE ListLimit
<1>1. shown = FirstRows(R)
  <2>1. Unrestricted.owner = TRUE BY DEF Unrestricted
  <2>2. R = {r \in ToSet(stored) : KindOf[r].sess = sess /\ ("" # "" => KindOf[r].who = "")} OBVIOUS
  <2> HIDE DEF R
  <2> QED BY <2>1, <2>2 DEF DashRequests, RequestsBySession
<1>2. R \subseteq ToSet(stored) OBVIOUS
<1>3. \A r \in ToSet(stored) : KindOf[r].sess = sess => r \in R OBVIOUS
<1> HIDE DEF R
<1>4. /\ m \in Nat /\ Len(shown) = n /\ DOMAIN shown = 1 .. n /\ DOMAIN t = 1 .. m
      /\ \A i \in 1 .. n : shown[i] = t[i] /\ shown[i] \in R
  BY <1>1, <1>2, PageIs
<1>5. Arranged(R, NewerIn(R), t) BY <1>2, NewerOrders
<1> HIDE DEF shown, t
<1>6. n \in Nat /\ n <= m /\ ListLimit \in Nat \ {0} BY <1>4, LedgerAssumption
<1>7. ASSUME NEW i \in 1 .. m, NEW j \in 1 .. m, i < j PROVE Instant(t[i]) >= Instant(t[j])
  <2>1. t[i] \in NewerIn(R)[t[j]] /\ t[j] \in R /\ t[i] \in R
    <3>1. t \in Seq(R) /\ Len(t) = m BY <1>5 DEF Arranged
    <3>2. t[i] \in R /\ t[j] \in R BY <1>4, <3>1
    <3> QED BY <1>4, <1>5, <1>7, <3>2 DEF Arranged
  <2>2. Newer(t[i], t[j]) BY <2>1 DEF NewerIn
  <2>3. stored \in Seq(Requests) BY DEF IInv, TypeOK
  <2>4. R \subseteq Requests BY <1>2, <2>3, SetOfSeq
  <2>5. req[t[i]].ts \in Nat /\ req[t[j]].ts \in Nat BY <2>1, <2>4 DEF Timely
  <2>6. CASE backend = "sqlite"
    <3>1. ASSUME NEW x \in Nat, NEW y \in Nat, StoreTime(x) >= StoreTime(y)
          PROVE  x \div Sec >= y \div Sec
      <4>1. CASE StoreTime(x) > StoreTime(y) BY <4>1, LaterSecond
      <4> DEFINE a == x \div Sec
                 b == y \div Sec
      <4>2. CASE StoreTime(x) = StoreTime(y)
        <5>1. Sec \in Nat \ {0} BY LedgerAssumption
        <5>2. a \in Nat /\ b \in Nat BY <5>1, Quotient
        <5>3. a = b BY <2>6, <4>2, SameSecond
        <5> HIDE DEF a, b
        <5>4. a >= b BY <5>2, <5>3
        <5> QED BY <5>4 DEF a, b
      <4>3. StoreTime(x) \in Nat /\ StoreTime(y) \in Nat BY LaterSecond
      <4> QED BY <3>1, <4>1, <4>2, <4>3
    <3>2. StoreTime(req[t[i]].ts) \in Nat /\ StoreTime(req[t[j]].ts) \in Nat BY <2>5, LaterSecond
    <3>3. StoreTime(req[t[i]].ts) >= StoreTime(req[t[j]].ts) BY <2>2, <3>2 DEF Newer
    <3> QED BY <2>5, <2>6, <3>1, <3>3 DEF Instant
  <2>7. CASE backend # "sqlite"
    <3>1. StoreTime(req[t[i]].ts) = req[t[i]].ts /\ StoreTime(req[t[j]].ts) = req[t[j]].ts
      BY <2>7 DEF StoreTime
    <3>2. req[t[i]].ts >= req[t[j]].ts BY <2>2, <2>5, <3>1 DEF Newer
    <3> QED BY <2>7, <3>2 DEF Instant
  <2> QED BY <2>6, <2>7
<1>8. ASSUME NEW i \in DOMAIN shown, NEW j \in DOMAIN shown, i < j
      PROVE  Instant(shown[i]) >= Instant(shown[j])
  <2>1. i \in 1 .. m /\ j \in 1 .. m /\ shown[i] = t[i] /\ shown[j] = t[j] BY <1>4, <1>6
  <2> QED BY <1>7, <1>8, <2>1
<1>9. ASSUME NEW r \in ToSet(stored) \ ToSet(shown), KindOf[r].sess = sess
      PROVE  Len(shown) = ListLimit /\ Instant(r) <= Instant(shown[Len(shown)])
  <2>1. r \in R BY <1>3, <1>9
  <2>2. PICK k \in 1 .. m : t[k] = r BY <1>4, <1>5, <2>1 DEF Arranged
  <2>3. ~(k \in 1 .. n)
    <3>1. ASSUME k \in 1 .. n PROVE FALSE
      <4>1. k \in DOMAIN shown /\ shown[k] = r BY <1>4, <2>2, <3>1
      <4> QED BY <4>1 DEF ToSet
    <3> QED BY <3>1
  <2>4. n < k /\ n = ListLimit /\ n \in 1 .. m /\ n \in 1 .. n BY <1>4, <1>6, <2>3
  <2>5. Instant(t[n]) >= Instant(t[k]) BY <1>7, <2>4
  <2>6. shown[n] = t[n] BY <1>4, <2>4
  <2>7. Instant(t[n]) \in Nat /\ Instant(t[k]) \in Nat
    <3>1. stored \in Seq(Requests) BY DEF IInv, TypeOK
    <3>2. R \subseteq Requests BY <1>2, <3>1, SetOfSeq
    <3>3. t[n] \in R /\ t[k] \in R BY <1>4, <2>1, <2>2, <2>4
    <3>4. req[t[n]].ts \in Nat /\ req[t[k]].ts \in Nat BY <3>2, <3>3 DEF Timely
    <3>5. Sec \in Nat \ {0} BY LedgerAssumption
    <3>6. req[t[n]].ts \div Sec \in Nat /\ req[t[k]].ts \div Sec \in Nat BY <3>4, <3>5, Quotient
    <3> QED BY <3>4, <3>6 DEF Instant
  <2> HIDE DEF n
  <2> QED BY <1>4, <2>2, <2>4, <2>5, <2>6, <2>7
<1> QED BY <1>8, <1>9 DEF shown

(* For any viewers, sessions and limits: a listing shows the newest rows,  *)
(* newest first (on SQLite to the second, whatever the order of the        *)
(* fractions), and no one but an owner sees another's rows, on the usage   *)
(* panel, in a session or, but for a person named "other", counted in the  *)
(* traffic (handleDashUsage, handleDashRequests, handleDashTraffic).       *)
THEOREM ListingsAreRight == Spec => []ListingsRight
<1>1. IInv /\ Timely => ListingsRight BY OnlyOwnRows, NewestAreFirst DEF ListingsRight
<1> QED BY <1>1, InitInv, NextInv, TimelyInit, TimelyNext, PTL DEF Spec
=============================================================================
