----------------------------- MODULE FeedProofs -----------------------------
(***************************************************************************)
(* Proofs about Feed for every ring, channel and set of requests: that a   *)
(* broker replays the newest of what was published, and that subscribing   *)
(* before the two-part snapshot is taken leaves a mirror that has caught   *)
(* up with its peer neither a wrong dot nor a hole.                        *)
(***************************************************************************)
EXTENDS Feed, SequenceTheorems, WellFoundedInduction, TLAPS

(* The types, in full.                                                     *)
Flights == {f \in UNION {[D -> Event] : D \in SUBSET Ids} : \A id \in DOMAIN f : f[id].id = id}
BrokerSet == [ring : [0 .. Cap - 1 -> Event \cup {NoEvent}], head : 0 .. Cap - 1,
              full : BOOLEAN, inflight : Flights]
ServerSet == [pc : {"none", "subscribed", "snapshot", "streaming"}, chan : Seq(Event),
              inflight : Flights, dropped : BOOLEAN]
FrameSet == [kind : {"snapshot", "request"}, evs : Seq(Event), inflight : Flights]
FeedSet == [pc : {"dial", "connecting", "reading", "ended", "clearing", "backoff", "parked"},
            first : BOOLEAN, connected : BOOLEAN]

WireGood(w) ==
  w \in Seq(FrameSet) /\ \A i \in 1 .. Len(w) : w[i].kind = "request" => Len(w[i].evs) = 1

Typed ==
  /\ origin \in BrokerSet /\ mirror \in BrokerSet
  /\ srv \in ServerSet /\ Len(srv.chan) <= Buf
  /\ WireGood(wire) /\ feed \in FeedSet
  /\ stalled \in BOOLEAN /\ self \in BOOLEAN /\ faults \in 0 .. MaxFaults

(* The log of one life of the peer.                                        *)
LogGood(L) ==
  L \in Seq(Event) /\ Len(L) <= MaxEvents /\ \A i \in 1 .. Len(L) : L[i].seq = i

(* A broker's ring after the events of L were put in it: the newest Cap of *)
(* them lie where their positions, modulo Cap, say.                        *)
Holds(b, L) ==
  /\ b.head = Len(L) % Cap /\ (b.full <=> Len(L) >= Cap)
  /\ \A j \in 1 .. Len(L) : Len(L) - j < Cap => b.ring[(j - 1) % Cap] = L[j]

(* An in-flight set after event e; and after a log, by the last event of   *)
(* each request.                                                           *)
Shows(f, e) == IF e.type = "started" THEN e.id \in DOMAIN f /\ f[e.id] = e ELSE e.id \notin DOMAIN f
LatestShown(f, L) ==
  \A n \in 1 .. Len(L) : (\A m \in n + 1 .. Len(L) : L[m].id # L[n].id) => Shows(f, L[n])

OriginGood == LogGood(log) /\ Holds(origin, log) /\ LatestShown(origin.inflight, log)

(* The subscription: what was sent and not yet read, then what waits.      *)
Open == srv.pc # "none"
FramesOf(first, w) == IF first /\ w # <<>> THEN Tail(w) ELSE w
SentOf(fr) == [i \in 1 .. Len(fr) |-> fr[i].evs[1]]
QueueOf(fr, c) == SentOf(fr) \o c
Frames == FramesOf(feed.first, wire)
Queue == QueueOf(Frames, srv.chan)

(* The snapshot comes first, and only it.                                  *)
Framed ==
  Open =>
    /\ feed.pc \in {"connecting", "reading"}
    /\ srv.pc \in {"subscribed", "snapshot"} => wire = <<>> /\ feed.first
    /\ srv.pc = "streaming" /\ feed.first => wire # <<>> /\ Head(wire).kind = "snapshot"
    /\ srv.pc = "streaming" => \A i \in 1 .. Len(Frames) : Frames[i].kind = "request"

(* Nothing dropped, the queue is the end of the log.                       *)
EndOf(q, L) == Len(q) <= Len(L) /\ \A i \in 1 .. Len(q) : q[i] = L[Len(L) - Len(q) + i]

(* The in-flight set under the queue.                                      *)
Base ==
  CASE srv.pc = "subscribed" -> origin.inflight
    [] srv.pc = "snapshot" -> srv.inflight
    [] srv.pc = "streaming" -> IF feed.first THEN Head(wire).inflight ELSE mirror.inflight
    [] OTHER -> <<>>

(* For a request the queue does not mention it is the peer's already.      *)
Mentions(q, id) == \E i \in 1 .. Len(q) : q[i].id = id
Same(f, g, id) == (id \in DOMAIN f <=> id \in DOMAIN g) /\ (id \in DOMAIN f => f[id] = g[id])
Agrees(f, g, q) == \A id \in Ids : ~Mentions(q, id) => Same(f, g, id)

(* The newest of the first n events of the log.                            *)
Room(n) == IF n <= Cap THEN n ELSE Cap
NewestOf(s, L, n) == Len(s) = Room(n) /\ \A i \in 1 .. Len(s) : s[i] = L[n - Len(s) + i]

(* What the mirror's ring was given since the snapshot: the newest of the  *)
(* first n events, then a run up to the k-th that leaves no hole behind    *)
(* the n-th.                                                               *)
TwoRuns(M, L, k, n) ==
  LET p == Room(n) IN
  /\ p <= Len(M) /\ Len(M) - p <= k /\ k - (Len(M) - p) <= n
  /\ \A i \in 1 .. p : M[i] = L[n - p + i]
  /\ \A i \in p + 1 .. Len(M) : M[i] = L[k - Len(M) + i]
Runs(M, L, k) == \E n \in 0 .. Len(L) : TwoRuns(M, L, k, n)

SnapshotGood(evs, L, k) == \E n \in 0 .. Len(L) : NewestOf(evs, L, n) /\ k <= n

Flow(q, base, inflight, L) == EndOf(q, L) /\ Agrees(base, inflight, q)
Mirrors(b, L, k) == \E M \in Seq(Event) : Holds(b, M) /\ Runs(M, L, k)
Unread == Len(log) - Len(Queue)

StreamGood ==
  Open /\ ~srv.dropped =>
    /\ Flow(Queue, Base, origin.inflight, log)
    /\ srv.pc = "streaming" =>
         IF feed.first THEN SnapshotGood(Head(wire).evs, log, Unread) ELSE Mirrors(mirror, log, Unread)

(* The inductive invariant.                                                *)
IInv == Typed /\ OriginGood /\ Framed /\ StreamGood /\ DownShowsNothing

LEMMA SmallestNat ==
  ASSUME NEW S, S \subseteq Nat, S # {}
  PROVE \E n \in S : \A j \in S : n <= j
<1> DEFINE R == {ss \in Nat \X Nat : ss[1] < ss[2]}
<1>1. IsWellFoundedOn(R, Nat)
  BY NatLessThanWellFounded, Zenon DEF OpToRel
<1> HIDE DEF R
<1>2. PICK x \in S : \A y \in S : ~ (<<y, x>> \in R) BY <1>1, WFMin
<1>3. \A y \in S : ~ (y < x)  BY <1>2 DEF R
<1> QED BY <1>2, <1>3

LEMMA Induct ==
  ASSUME NEW T, 0 \in T, \A n \in Nat : n \in T => n + 1 \in T
  PROVE  \A n \in Nat : n \in T
<1> SUFFICES ASSUME NEW m \in Nat, m \notin T PROVE FALSE OBVIOUS
<1> DEFINE B == {n \in Nat : n \notin T}
<1>1. B \subseteq Nat /\ B # {} OBVIOUS
<1>2. \A n \in B : n \in Nat /\ n \notin T OBVIOUS
<1>3. \A n \in Nat : n \notin B => n \in T OBVIOUS
<1> HIDE DEF B
<1>4. PICK x \in B : \A j \in B : x <= j BY <1>1, SmallestNat
<1>5. x \in Nat /\ x # 0 BY <1>2, <1>4
<1>6. x - 1 \in Nat /\ ~(x <= x - 1) /\ (x - 1) + 1 = x BY <1>5
<1>7. x - 1 \in T BY <1>3, <1>4, <1>6
<1> QED BY <1>2, <1>4, <1>6, <1>7

-----------------------------------------------------------------------------
(* Positions modulo the ring's size.                                       *)
LEMMA DivMod ==
  ASSUME NEW w \in Nat \ {0}, NEW a \in Nat
  PROVE  a = w * (a \div w) + (a % w) /\ a \div w \in Nat /\ a % w \in 0 .. w - 1
OBVIOUS

LEMMA SmallMultiple ==
  ASSUME NEW w \in Nat \ {0}, NEW x \in Int, -w < w * x, w * x < w
  PROVE  x = 0
<1>1. CASE x >= 1
  <2>1. PICK e \in Nat : x = e + 1 BY <1>1
  <2>2. w * (e + 1) = w * e + w /\ w * e >= 0 OBVIOUS
  <2> QED BY <2>1, <2>2
<1>2. CASE x <= -1
  <2>1. PICK e \in Nat : x = -1 - e BY <1>2
  <2>2. w * (-1 - e) = -(w * e) - w /\ w * e >= 0 OBVIOUS
  <2> QED BY <2>1, <2>2
<1> QED BY <1>1, <1>2

(* A quotient and a remainder are the quotient and the remainder.          *)
LEMMA ModIs ==
  ASSUME NEW w \in Nat \ {0}, NEW a \in Nat, NEW q \in Int, NEW r \in 0 .. w - 1, a = w * q + r
  PROVE  a % w = r
<1> DEFINE d == a \div w
           m == a % w
<1>1. a = w * d + m /\ d \in Nat /\ m \in 0 .. w - 1 BY DivMod
<1> HIDE DEF d, m
<1>2. w * (d - q) = w * d - w * q BY <1>1
<1>3. w * (d - q) = r - m BY <1>1, <1>2
<1>4. d - q \in Int /\ -w < w * (d - q) /\ w * (d - q) < w BY <1>1, <1>3
<1>5. d - q = 0 BY <1>4, SmallMultiple
<1>6. r - m = 0
  <2>1. w * 0 = 0 OBVIOUS
  <2> QED BY <1>3, <1>5, <2>1
<1>7. m = r BY <1>1, <1>6
<1> QED BY <1>7 DEF m

LEMMA ModSmall == ASSUME NEW w \in Nat \ {0}, NEW a \in 0 .. w - 1 PROVE a % w = a
<1>1. a = w * 0 + a OBVIOUS
<1> QED BY <1>1, ModIs

LEMMA ModNext ==
  ASSUME NEW w \in Nat \ {0}, NEW a \in Nat
  PROVE  ((a % w) + 1) % w = (a + 1) % w
<1> DEFINE d == a \div w
           m == a % w
<1>1. a = w * d + m /\ d \in Nat /\ m \in 0 .. w - 1 BY DivMod
<1> HIDE DEF d, m
<1>2. CASE m + 1 < w
  <2>1. m + 1 \in 0 .. w - 1 /\ a + 1 = w * d + (m + 1) BY <1>1, <1>2
  <2>2. (a + 1) % w = m + 1 BY <1>1, <2>1, ModIs
  <2>3. (m + 1) % w = m + 1 BY <2>1, ModSmall
  <2> QED BY <2>2, <2>3 DEF m
<1>3. CASE m + 1 = w
  <2>1. w * (d + 1) = w * d + w BY <1>1
  <2>2. a + 1 = w * (d + 1) + 0 /\ d + 1 \in Int /\ 0 \in 0 .. w - 1 BY <1>1, <1>3, <2>1
  <2>3. (a + 1) % w = 0
    <3>1. a + 1 \in Nat OBVIOUS
    <3> QED BY <2>2, <3>1, ModIs
  <2>4. w = w * 1 + 0 OBVIOUS
  <2>5. w % w = 0 BY <2>2, <2>4, ModIs
  <2> QED BY <1>3, <2>3, <2>5 DEF m
<1> QED BY <1>1, <1>2, <1>3

(* Two positions less than the size apart lie in different places.         *)
LEMMA ModDistinct ==
  ASSUME NEW w \in Nat \ {0}, NEW a \in Nat, NEW b \in Nat, a <= b, b - a < w, a % w = b % w
  PROVE  a = b
<1> DEFINE d == a \div w
           f == b \div w
           m == a % w
           n == b % w
<1>1. a = w * d + m /\ d \in Nat /\ m \in 0 .. w - 1 BY DivMod
<1>2. b = w * f + n /\ f \in Nat /\ n \in 0 .. w - 1 BY DivMod
<1>3. m = n OBVIOUS
<1> HIDE DEF d, f, m, n
<1>4. w * (f - d) = w * f - w * d BY <1>1, <1>2
<1>5. w * (f - d) = b - a BY <1>1, <1>2, <1>3, <1>4
<1>6. f - d = 0 BY <1>1, <1>2, <1>5, SmallMultiple
<1>7. f = d BY <1>1, <1>2, <1>6
<1> QED BY <1>1, <1>2, <1>3, <1>7

LEMMA CapIs == Cap \in Nat \ {0} /\ Buf \in Nat \ {0} /\ MaxEvents \in Nat /\ MaxFaults \in Nat
BY FeedAssumption

-----------------------------------------------------------------------------
(* One event more in a ring.                                               *)
LEMMA RingPutIs ==
  ASSUME NEW b \in BrokerSet, NEW e \in Event
  PROVE  LET c == RingPut(b, e) IN
         /\ c \in BrokerSet /\ c.inflight = b.inflight
         /\ c.head = (b.head + 1) % Cap
         /\ (c.full <=> b.full \/ (b.head + 1) % Cap = 0)
         /\ c.ring[b.head] = e
         /\ \A j \in 0 .. Cap - 1 : j # b.head => c.ring[j] = b.ring[j]
<1>1. b.head \in Nat /\ b.head + 1 \in Nat /\ b.head \in 0 .. Cap - 1 /\ b.full \in BOOLEAN
  BY CapIs DEF BrokerSet
<1>2. (b.head + 1) % Cap \in 0 .. Cap - 1 BY <1>1, CapIs, DivMod
<1> DEFINE f == (b.full \/ (b.head + 1) % Cap = 0)
           h == (b.head + 1) % Cap
           g == [b.ring EXCEPT ![b.head] = e]
<1>3. f \in BOOLEAN OBVIOUS
<1>4. /\ g \in [0 .. Cap - 1 -> Event \cup {NoEvent}] /\ g[b.head] = e
      /\ \A j \in 0 .. Cap - 1 : j # b.head => g[j] = b.ring[j]
  BY <1>1 DEF BrokerSet
<1>5. RingPut(b, e) = [b EXCEPT !.ring = g, !.head = h, !.full = f]
  BY DEF RingPut
<1> HIDE DEF f, g, h
<1>6. RingPut(b, e) = [ring |-> g, head |-> h, full |-> f, inflight |-> b.inflight]
  BY <1>5 DEF BrokerSet
<1>7. h \in 0 .. Cap - 1 BY <1>2 DEF h
<1>8. RingPut(b, e) \in BrokerSet BY <1>3, <1>4, <1>6, <1>7 DEF BrokerSet
<1>9. /\ RingPut(b, e).ring = g /\ RingPut(b, e).head = h
      /\ RingPut(b, e).full = f /\ RingPut(b, e).inflight = b.inflight
  BY <1>6
<1>10. RingPut(b, e).full <=> f BY <1>9
<1> QED BY <1>4, <1>8, <1>9, <1>10 DEF f, h

LEMMA RingHolds ==
  ASSUME NEW b \in BrokerSet, NEW e \in Event, NEW L \in Seq(Event), Holds(b, L)
  PROVE  Holds(RingPut(b, e), Append(L, e))
<1> DEFINE c == RingPut(b, e)
           n == Len(L)
           K == Append(L, e)
<1>1. n \in Nat /\ Len(K) = n + 1 /\ K[n + 1] = e /\ \A j \in 1 .. n : K[j] = L[j]
  BY LenProperties, AppendProperties
<1>2. /\ c.head = (b.head + 1) % Cap /\ (c.full <=> b.full \/ (b.head + 1) % Cap = 0)
      /\ c.ring[b.head] = e
      /\ \A j \in 0 .. Cap - 1 : j # b.head => c.ring[j] = b.ring[j]
  BY RingPutIs
<1>3. /\ b.head = n % Cap /\ (b.full <=> n >= Cap)
      /\ \A j \in 1 .. n : n - j < Cap => b.ring[(j - 1) % Cap] = L[j]
  BY DEF Holds
<1> HIDE DEF c, n, K
<1>4. ((n % Cap) + 1) % Cap = (n + 1) % Cap BY <1>1, CapIs, ModNext
<1>5. c.full <=> n >= Cap \/ (n + 1) % Cap = 0
  <2>1. c.full <=> b.full \/ (n + 1) % Cap = 0 BY <1>2, <1>3, <1>4
  <2> QED BY <2>1, <1>3
<1>8. n >= Cap \/ (n + 1) % Cap = 0 <=> n + 1 >= Cap
  <2>1. CASE n >= Cap BY <2>1, <1>1, CapIs
  <2>2. CASE n + 1 = Cap
    <3>1. Cap = Cap * 1 + 0 /\ 0 \in 0 .. Cap - 1 /\ Cap \in Nat BY CapIs
    <3>2. Cap % Cap = 0 BY <3>1, CapIs, ModIs
    <3>3. (n + 1) % Cap = 0 BY <2>2, <3>2
    <3> QED BY <2>2, <3>3, <3>1
  <2>3. CASE n + 1 < Cap
    <3>1. n + 1 \in 0 .. Cap - 1 /\ n + 1 # 0 /\ ~(n >= Cap) /\ ~(n + 1 >= Cap)
      BY <2>3, <1>1, CapIs
    <3>2. (n + 1) % Cap = n + 1 BY <3>1, CapIs, ModSmall
    <3> QED BY <3>1, <3>2
  <2> QED BY <2>1, <2>2, <2>3, <1>1, CapIs
<1>6. ASSUME NEW j \in 1 .. n + 1, n + 1 - j < Cap
      PROVE  c.ring[(j - 1) % Cap] = K[j]
  <2>1. CASE j = n + 1 BY <2>1, <1>1, <1>2, <1>3
  <2>2. CASE j # n + 1
    <3>1. j \in 1 .. n /\ n - j < Cap /\ j - 1 \in Nat /\ j - 1 <= n /\ n - (j - 1) < Cap /\ j - 1 # n
      BY <2>2, <1>1, <1>6, CapIs
    <3>2. (j - 1) % Cap # n % Cap BY <3>1, <1>1, CapIs, ModDistinct
    <3>3. (j - 1) % Cap \in 0 .. Cap - 1 BY <3>1, CapIs, DivMod
    <3> QED BY <3>1, <3>2, <3>3, <1>1, <1>2, <1>3
  <2> QED BY <2>1, <2>2
<1>7. Holds(c, K) BY <1>1, <1>2, <1>3, <1>4, <1>5, <1>6, <1>8 DEF Holds
<1> QED BY <1>7 DEF c, K

(* What a broker replays is the newest of what was put.                    *)
LEMMA ReplayNewest ==
  ASSUME NEW b \in BrokerSet, NEW L \in Seq(Event), Holds(b, L)
  PROVE  Replay(b) \in Seq(Event) /\ NewestOf(Replay(b), L, Len(L))
<1> DEFINE n == Len(L)
           h == b.head
           older == [i \in 1 .. Cap - h |-> b.ring[h + i - 1]]
           newer == [i \in 1 .. h |-> b.ring[i - 1]]
<1>1. n \in Nat /\ h \in Nat /\ h < Cap /\ b.full \in BOOLEAN
  BY LenProperties, CapIs DEF BrokerSet
<1>2. /\ h = n % Cap /\ (b.full <=> n >= Cap)
      /\ \A j \in 1 .. n : n - j < Cap => b.ring[(j - 1) % Cap] = L[j]
  BY DEF Holds
<1>3. Replay(b) = IF b.full THEN older \o newer ELSE newer BY DEF Replay
<1>4. \A i \in 1 .. h : newer[i] = b.ring[i - 1] OBVIOUS
<1>5. \A i \in 1 .. Cap - h : older[i] = b.ring[h + i - 1] OBVIOUS
<1>6. \A j \in 1 .. n : L[j] \in Event BY <1>1, ElementOfSeq
<1>7. newer = [i \in 1 .. h |-> b.ring[i - 1]] /\ older = [i \in 1 .. Cap - h |-> b.ring[h + i - 1]]
  OBVIOUS
<1> HIDE DEF n, h, older, newer
<1> DEFINE q == n \div Cap
<1>8. n = Cap * q + h /\ q \in Nat BY <1>1, <1>2, CapIs, DivMod
<1> HIDE DEF q
<1>9. ASSUME NEW i \in 1 .. h PROVE newer[i] = L[n - h + i] /\ newer[i] \in Event
  <2>1. Cap * q >= 0 BY <1>8, CapIs
  <2>2. /\ n - h + i \in 1 .. n /\ n - (n - h + i) < Cap /\ n - h + i - 1 \in Nat
        /\ n - h + i - 1 = Cap * q + (i - 1) /\ i - 1 \in 0 .. Cap - 1
    BY <1>1, <1>8, <2>1, CapIs
  <2> DEFINE j == n - h + i
             m == j - 1
  <2>10. m = n - h + i - 1 BY <1>1
  <2>3. m \in Nat /\ m = Cap * q + (i - 1) BY <2>2, <2>10, Zenon
  <2>4. j \in 1 .. n /\ n - j < Cap /\ m = j - 1 BY <2>2
  <2> HIDE DEF m
  <2>8. q \in Int BY <1>8
  <2>9. i - 1 \in 0 .. Cap - 1 BY <2>2
  <2>5. m % Cap = i - 1 BY <2>3, <2>8, <2>9, CapIs, ModIs, Zenon
  <2> HIDE DEF j
  <2>6. b.ring[(j - 1) % Cap] = L[j] /\ L[j] \in Event BY <1>2, <1>6, <2>4
  <2>7. b.ring[i - 1] = L[j] BY <2>4, <2>5, <2>6
  <2> QED BY <1>4, <2>6, <2>7 DEF j
<1>10. newer \in Seq(Event) /\ Len(newer) = h
  <2>1. newer \in [1 .. h -> Event] BY <1>7, <1>9
  <2> QED BY <2>1, <1>1, SeqDef, LenProperties
<1>11. CASE ~b.full
  <2>1. n < Cap /\ h = n BY <1>1, <1>2, <1>11, CapIs, ModSmall
  <2>2. Replay(b) = newer BY <1>3, <1>11
  <2>3. Room(n) = n BY <1>1, <2>1, CapIs DEF Room
  <2> QED BY <1>9, <1>10, <2>1, <2>2, <2>3 DEF NewestOf, n
<1>12. CASE b.full
  <2>1. n >= Cap BY <1>2, <1>12
  <2>2. ASSUME NEW i \in 1 .. Cap - h PROVE older[i] = L[n - Cap + i] /\ older[i] \in Event
    <3>1. Cap * (q - 1) = Cap * q - Cap BY <1>8, CapIs
    <3>2. /\ n - Cap + i \in 1 .. n /\ n - (n - Cap + i) < Cap /\ n - Cap + i - 1 \in Nat
          /\ n - Cap + i - 1 = Cap * (q - 1) + (h + i - 1) /\ h + i - 1 \in 0 .. Cap - 1
          /\ q - 1 \in Int
      BY <1>1, <1>8, <2>1, <3>1, CapIs
    <3> DEFINE j == n - Cap + i
               m == j - 1
    <3>7. m = n - Cap + i - 1 BY <1>1, CapIs
    <3>3. m \in Nat /\ m = Cap * (q - 1) + (h + i - 1) BY <3>2, <3>7, Zenon
    <3>4. j \in 1 .. n /\ n - j < Cap /\ m = j - 1 BY <3>2
    <3> HIDE DEF m
    <3>5. m % Cap = h + i - 1 BY <3>2, <3>3, CapIs, ModIs, Zenon
    <3> HIDE DEF j
    <3>6. b.ring[h + i - 1] = L[j] /\ L[j] \in Event BY <1>2, <1>6, <3>4, <3>5
    <3> QED BY <1>5, <3>6 DEF j
  <2>3. older \in Seq(Event) /\ Len(older) = Cap - h
    <3>1. older \in [1 .. Cap - h -> Event] BY <1>7, <2>2
    <3>2. Cap - h \in Nat BY <1>1, CapIs
    <3> QED BY <3>1, <3>2, SeqDef, LenProperties
  <2>4. Replay(b) = older \o newer BY <1>3, <1>12
  <2>5. /\ older \o newer \in Seq(Event) /\ Len(older \o newer) = Cap - h + h
        /\ \A i \in 1 .. Cap - h + h : (older \o newer)[i] =
             IF i <= Cap - h THEN older[i] ELSE newer[i - (Cap - h)]
    <3>1. /\ older \o newer \in Seq(Event) /\ Len(older \o newer) = Len(older) + Len(newer)
          /\ \A i \in 1 .. Len(older) + Len(newer) : (older \o newer)[i] =
               IF i <= Len(older) THEN older[i] ELSE newer[i - Len(older)]
      BY <1>10, <2>3, ConcatProperties
    <3> QED BY <3>1, <1>10, <2>3
  <2>6. Cap - h + h = Cap BY <1>1, CapIs
  <2>7. ASSUME NEW i \in 1 .. Cap PROVE (older \o newer)[i] = L[n - Cap + i]
    <3>1. CASE i <= Cap - h
      <4>1. i \in 1 .. Cap - h BY <3>1, <1>1, CapIs
      <4> QED BY <4>1, <3>1, <2>2, <2>5, <2>6
    <3>2. CASE ~(i <= Cap - h)
      <4>1. i - (Cap - h) \in 1 .. h /\ n - h + (i - (Cap - h)) = n - Cap + i
        BY <3>2, <1>1, CapIs
      <4> QED BY <4>1, <3>2, <1>9, <2>5, <2>6
    <3> QED BY <3>1, <3>2
  <2>8. Room(n) = Cap BY <1>1, <2>1, CapIs DEF Room
  <2> QED BY <2>4, <2>5, <2>6, <2>7, <2>8 DEF NewestOf, n
<1> QED BY <1>1, <1>11, <1>12

(* The empty broker.                                                       *)
LEMMA NoFlights == <<>> \in Flights /\ DOMAIN <<>> = {}
<1>1. <<>> \in [{} -> Event] /\ DOMAIN <<>> = {} OBVIOUS
<1>2. {} \in SUBSET Ids OBVIOUS
<1>3. <<>> \in UNION {[D -> Event] : D \in SUBSET Ids} BY <1>1, <1>2
<1> QED BY <1>1, <1>3 DEF Flights

LEMMA EmptyBroker == NoBroker \in BrokerSet /\ Holds(NoBroker, <<>>) /\ NoBroker.inflight = <<>>
<1>1. 0 \in 0 .. Cap - 1 /\ 0 % Cap = 0 BY CapIs, ModSmall
<1>2. [i \in 0 .. Cap - 1 |-> NoEvent] \in [0 .. Cap - 1 -> Event \cup {NoEvent}] OBVIOUS
<1>3. NoBroker \in BrokerSet BY <1>1, <1>2, NoFlights DEF NoBroker, BrokerSet
<1>4. NoBroker.head = 0 /\ NoBroker.full = FALSE /\ NoBroker.inflight = <<>> BY DEF NoBroker
<1>5. Len(<<>>) = 0 /\ ~(0 >= Cap) BY CapIs
<1>6. \A j \in 1 .. 0 : FALSE OBVIOUS
<1> QED BY <1>1, <1>3, <1>4, <1>5, <1>6 DEF Holds

(* Reset puts the kept events one after the other.                         *)
Puts(s, n, f) == f = [i \in 0 .. n |-> IF i = 0 THEN NoBroker ELSE RingPut(f[i - 1], s[i])]

LEMMA PutsExist ==
  ASSUME NEW s
  PROVE  \A n \in Nat : \E f : Puts(s, n, f)
<1> DEFINE T == {n \in Nat : \E f : Puts(s, n, f)}
<1>1. 0 \in T
  <2> DEFINE f == [i \in 0 .. 0 |-> NoBroker]
             g == [i \in 0 .. 0 |-> IF i = 0 THEN NoBroker ELSE RingPut(f[i - 1], s[i])]
  <2>1. \A i \in 0 .. 0 : i = 0 OBVIOUS
  <2>2. f = g BY <2>1
  <2>3. Puts(s, 0, f) BY <2>2 DEF Puts
  <2> HIDE DEF f
  <2> QED BY <2>3
<1>2. ASSUME NEW n \in Nat, n \in T PROVE n + 1 \in T
  <2>1. PICK f : Puts(s, n, f) BY <1>2
  <2>2. \A i \in 0 .. n : f[i] = IF i = 0 THEN NoBroker ELSE RingPut(f[i - 1], s[i])
    BY <2>1 DEF Puts
  <2> DEFINE g == [i \in 0 .. n + 1 |-> IF i = n + 1 THEN RingPut(f[n], s[n + 1]) ELSE f[i]]
             h == [i \in 0 .. n + 1 |-> IF i = 0 THEN NoBroker ELSE RingPut(g[i - 1], s[i])]
  <2>3. ASSUME NEW i \in 0 .. n + 1
        PROVE  g[i] = IF i = 0 THEN NoBroker ELSE RingPut(g[i - 1], s[i])
    <3>1. CASE i = n + 1
      <4>1. i - 1 \in 0 .. n + 1 /\ i - 1 # n + 1 /\ i # 0 /\ i - 1 = n BY <3>1
      <4>2. g[i - 1] = f[n] BY <4>1
      <4> QED BY <3>1, <4>1, <4>2
    <3>2. CASE i # n + 1
      <4>1. i \in 0 .. n BY <3>2
      <4>2. g[i] = IF i = 0 THEN NoBroker ELSE RingPut(f[i - 1], s[i]) BY <2>2, <3>2, <4>1
      <4>3. i # 0 => i - 1 \in 0 .. n + 1 /\ i - 1 # n + 1 BY <4>1
      <4>4. i # 0 => g[i - 1] = f[i - 1] BY <4>3
      <4> QED BY <4>2, <4>4
    <3> QED BY <3>1, <3>2
  <2>4. g = h BY <2>3
  <2>5. Puts(s, n + 1, g) BY <2>4 DEF Puts
  <2> HIDE DEF g
  <2> QED BY <2>5
<1>3. \A n \in Nat : n \in T
  <2> HIDE DEF T
  <2> QED BY <1>1, <1>2, Induct
<1> QED BY <1>3

LEMMA ResetIs ==
  ASSUME NEW b, NEW s, NEW f, Len(Newest(s)) \in Nat
  PROVE  \E p : /\ Puts(Newest(s), Len(Newest(s)), p)
                /\ Reset(b, s, f) = [p[Len(Newest(s))] EXCEPT !.inflight = f]
<1> DEFINE t == Newest(s)
           put == CHOOSE p : p = [i \in 0 .. Len(t) |-> IF i = 0 THEN NoBroker ELSE RingPut(p[i - 1], t[i])]
<1>1. \E p : p = [i \in 0 .. Len(t) |-> IF i = 0 THEN NoBroker ELSE RingPut(p[i - 1], t[i])]
  <2>1. \E p : Puts(t, Len(t), p) BY PutsExist
  <2> QED BY <2>1 DEF Puts
<1>2. put = [i \in 0 .. Len(t) |-> IF i = 0 THEN NoBroker ELSE RingPut(put[i - 1], t[i])]
  BY <1>1
<1>3. Reset(b, s, f) = [put[Len(t)] EXCEPT !.inflight = f] BY DEF Reset
<1>4. Puts(t, Len(t), put) BY <1>2 DEF Puts
<1> HIDE DEF put
<1> QED BY <1>3, <1>4

(* The first n events put make the ring of those n events.                 *)
LEMMA PutsHold ==
  ASSUME NEW s \in Seq(Event), NEW p, Puts(s, Len(s), p)
  PROVE  p[Len(s)] \in BrokerSet /\ Holds(p[Len(s)], s)
<1> DEFINE Good(n) == p[n] \in BrokerSet /\ Holds(p[n], SubSeq(s, 1, n))
           T == {n \in Nat : n <= Len(s) => Good(n)}
<1>1. Len(s) \in Nat /\ \A i \in 1 .. Len(s) : s[i] \in Event BY LenProperties, ElementOfSeq
<1>2. \A i \in 0 .. Len(s) : p[i] = IF i = 0 THEN NoBroker ELSE RingPut(p[i - 1], s[i])
  BY DEF Puts
<1>3. 0 \in T
  <2>1. SubSeq(s, 1, 0) = <<>> BY SubSeqEmpty
  <2>2. p[0] = NoBroker BY <1>1, <1>2
  <2> QED BY <2>1, <2>2, EmptyBroker
<1>4. ASSUME NEW n \in Nat, n \in T PROVE n + 1 \in T
  <2> SUFFICES ASSUME n + 1 <= Len(s) PROVE Good(n + 1) OBVIOUS
  <2>1. Good(n) BY <1>1, <1>4
  <2>2. n + 1 \in 0 .. Len(s) /\ n + 1 # 0 /\ (n + 1) - 1 = n /\ n + 1 \in 1 .. Len(s) BY <1>1
  <2>3. p[n + 1] = RingPut(p[n], s[n + 1]) BY <1>2, <2>2
  <2>4. s[n + 1] \in Event BY <1>1, <2>2
  <2>5. \A i \in 1 .. n : s[i] \in Event BY <1>1, <2>2
  <2>6. SubSeq(s, 1, n) \in Seq(Event) BY <2>5, SubSeqProperties
  <2>7. SubSeq(s, 1, n + 1) = Append(SubSeq(s, 1, n), s[n + 1])
    <3>1. SubSeq(s, 1, n + 1) = SubSeq(s, 1, (n + 1) - 1) \o <<s[n + 1]>>
      <4>1. n + 1 \in 1 .. Len(s) /\ 1 \in 1 .. Len(s) BY <2>2, <1>1
      <4> QED BY <4>1, SubSeqRecursiveSecond
    <3>2. Append(SubSeq(s, 1, n), s[n + 1]) = SubSeq(s, 1, n) \o <<s[n + 1]>>
      BY <2>4, <2>6, AppendIsConcat
    <3> QED BY <2>2, <3>1, <3>2
  <2>8. p[n + 1] \in BrokerSet BY <2>1, <2>3, <2>4, RingPutIs
  <2>9. Holds(p[n + 1], SubSeq(s, 1, n + 1)) BY <2>1, <2>3, <2>4, <2>6, <2>7, RingHolds
  <2> QED BY <2>8, <2>9
<1>5. \A n \in Nat : n \in T
  <2> HIDE DEF T
  <2> QED BY <1>3, <1>4, Induct
<1>6. Good(Len(s))
  <2>1. Len(s) \in T /\ Len(s) <= Len(s) BY <1>1, <1>5
  <2> QED BY <2>1
<1> QED BY <1>6, SubSeqFull

(* A snapshot of at most Cap events is the ring it becomes.                *)
LEMMA ResetHolds ==
  ASSUME NEW b, NEW s \in Seq(Event), Len(s) <= Cap, NEW f \in Flights
  PROVE  /\ Reset(b, s, f) \in BrokerSet /\ Holds(Reset(b, s, f), s)
         /\ Reset(b, s, f).inflight = f
<1>1. Newest(s) = s /\ Len(s) \in Nat BY LenProperties, CapIs DEF Newest
<1>2. PICK p : Puts(s, Len(s), p) /\ Reset(b, s, f) = [p[Len(s)] EXCEPT !.inflight = f]
  BY <1>1, ResetIs
<1> DEFINE c == p[Len(s)]
<1>3. c \in BrokerSet /\ Holds(c, s) BY <1>2, PutsHold
<1> HIDE DEF c
<1>4. Reset(b, s, f) = [c EXCEPT !.inflight = f] BY <1>2 DEF c
<1>5. /\ Reset(b, s, f) \in BrokerSet /\ Reset(b, s, f).inflight = f
      /\ Reset(b, s, f).head = c.head /\ Reset(b, s, f).ring = c.ring
      /\ (Reset(b, s, f).full <=> c.full)
  BY <1>3, <1>4 DEF BrokerSet
<1> QED BY <1>3, <1>5 DEF Holds

(* Whatever a snapshot holds, the ring it becomes is a ring.               *)
LEMMA ResetTyped ==
  ASSUME NEW b, NEW s \in Seq(Event), NEW f \in Flights
  PROVE  Reset(b, s, f) \in BrokerSet /\ Reset(b, s, f).inflight = f
<1>1. Len(s) \in Nat /\ \A i \in 1 .. Len(s) : s[i] \in Event BY LenProperties, ElementOfSeq
<1>2. Newest(s) \in Seq(Event)
  <2>1. CASE Len(s) > Cap
    <3>1. Len(s) - Cap + 1 \in Int /\ \A i \in Len(s) - Cap + 1 .. Len(s) : i \in 1 .. Len(s)
      BY <1>1, <2>1, CapIs
    <3>2. SubSeq(s, Len(s) - Cap + 1, Len(s)) \in Seq(Event) BY <1>1, <3>1, SubSeqProperties
    <3> QED BY <2>1, <3>2 DEF Newest
  <2>2. CASE ~(Len(s) > Cap) BY <2>2 DEF Newest
  <2> QED BY <2>1, <2>2
<1>3. Len(Newest(s)) \in Nat BY <1>2, LenProperties
<1>4. PICK p : /\ Puts(Newest(s), Len(Newest(s)), p)
               /\ Reset(b, s, f) = [p[Len(Newest(s))] EXCEPT !.inflight = f]
  BY <1>3, ResetIs
<1> DEFINE c == p[Len(Newest(s))]
<1>5. c \in BrokerSet BY <1>2, <1>4, PutsHold
<1> HIDE DEF c
<1>6. Reset(b, s, f) = [c EXCEPT !.inflight = f] BY <1>4 DEF c
<1> QED BY <1>5, <1>6 DEF BrokerSet

-----------------------------------------------------------------------------
(* What an event does to the requests in flight.                           *)
After(f, e) ==
  IF e.type = "started"
    THEN [i \in DOMAIN f \cup {e.id} |-> IF i = e.id THEN e ELSE f[i]]
    ELSE Without(f, e.id)

LEMMA FlightsAre ==
  ASSUME NEW f \in Flights
  PROVE  /\ DOMAIN f \subseteq Ids /\ f = [i \in DOMAIN f |-> f[i]]
         /\ \A id \in DOMAIN f : f[id] \in Event /\ f[id].id = id
<1>1. PICK D \in SUBSET Ids : f \in [D -> Event] BY DEF Flights
<1>2. \A id \in DOMAIN f : f[id].id = id BY DEF Flights
<1> QED BY <1>1, <1>2

LEMMA FlightsMake ==
  ASSUME NEW D \in SUBSET Ids, NEW f \in [D -> Event], \A id \in D : f[id].id = id
  PROVE  f \in Flights
BY DEF Flights

LEMMA AfterIs ==
  ASSUME NEW f \in Flights, NEW e \in Event
  PROVE  /\ After(f, e) \in Flights /\ Shows(After(f, e), e)
         /\ \A id \in Ids : id # e.id => Same(After(f, e), f, id)
<1>1. e.id \in Ids BY DEF Event
<1>2. /\ DOMAIN f \subseteq Ids /\ f = [i \in DOMAIN f |-> f[i]]
      /\ \A id \in DOMAIN f : f[id] \in Event /\ f[id].id = id
  BY FlightsAre
<1>3. CASE e.type = "started"
  <2> DEFINE D == DOMAIN f \cup {e.id}
             g == [i \in D |-> IF i = e.id THEN e ELSE f[i]]
  <2>1. After(f, e) = g BY <1>3 DEF After
  <2>2. g \in [D -> Event] /\ D \in SUBSET Ids /\ \A id \in D : g[id].id = id BY <1>1, <1>2
  <2>3. DOMAIN g = D /\ g[e.id] = e /\ \A id \in D : id # e.id => g[id] = f[id] OBVIOUS
  <2>4. g \in Flights
    <3> HIDE DEF g, D
    <3> QED BY <2>2, FlightsMake
  <2> HIDE DEF g
  <2> QED BY <1>3, <2>1, <2>3, <2>4 DEF Shows, Same
<1>4. CASE e.type # "started"
  <2> DEFINE D == DOMAIN f \ {e.id}
             g == [i \in D |-> f[i]]
  <2>1. After(f, e) = g BY <1>4 DEF After, Without
  <2>2. g \in [D -> Event] /\ D \in SUBSET Ids /\ \A id \in D : g[id].id = id BY <1>1, <1>2
  <2>3. DOMAIN g = D /\ \A id \in D : g[id] = f[id] OBVIOUS
  <2>4. g \in Flights
    <3> HIDE DEF g, D
    <3> QED BY <2>2, FlightsMake
  <2> HIDE DEF g
  <2> QED BY <1>4, <2>1, <2>3, <2>4 DEF Shows, Same
<1> QED BY <1>3, <1>4

(* Publishing puts the event in the ring and in the in-flight set.         *)
LEMMA PublishIs ==
  ASSUME NEW b \in BrokerSet, NEW e \in Event
  PROVE  /\ Publish(b, e) \in BrokerSet /\ Publish(b, e).inflight = After(b.inflight, e)
         /\ \A L \in Seq(Event) : Holds(b, L) => Holds(Publish(b, e), Append(L, e))
<1> DEFINE c == RingPut(b, e)
           f == After(b.inflight, e)
<1>1. c \in BrokerSet /\ c.inflight = b.inflight BY RingPutIs
<1>2. b.inflight \in Flights BY DEF BrokerSet
<1>3. f \in Flights BY <1>2, AfterIs
<1>4. Publish(b, e) = [c EXCEPT !.inflight = f] BY DEF Publish, After
<1>5. \A L \in Seq(Event) : Holds(b, L) => Holds(c, Append(L, e)) BY RingHolds
<1> HIDE DEF c, f
<1> DEFINE p == Publish(b, e)
<1>6. p = [ring |-> c.ring, head |-> c.head, full |-> c.full, inflight |-> f]
  BY <1>1, <1>4 DEF BrokerSet
<1>7. p.ring = c.ring /\ p.head = c.head /\ (p.full <=> c.full) /\ p.inflight = f /\ p \in BrokerSet
  BY <1>1, <1>3, <1>6 DEF BrokerSet
<1> HIDE DEF p
<1>8. \A L \in Seq(Event) : Holds(c, Append(L, e)) => Holds(p, Append(L, e)) BY <1>7 DEF Holds
<1> QED BY <1>5, <1>7, <1>8 DEF p, f

LEMMA SameSelf == \A f, id : Same(f, f, id)
BY DEF Same

LEMMA SameTrans ==
  ASSUME NEW f, NEW g, NEW h, NEW id, Same(f, g, id), Same(g, h, id)
  PROVE  Same(f, h, id)
BY DEF Same

LEMMA SameBack == ASSUME NEW f, NEW g, NEW id, Same(f, g, id) PROVE Same(g, f, id)
BY DEF Same

LEMMA ShowsSame ==
  ASSUME NEW f, NEW g, NEW e, Shows(g, e), Same(f, g, e.id)
  PROVE  Shows(f, e)
BY DEF Shows, Same

LEMMA ShowsBoth ==
  ASSUME NEW f, NEW g, NEW e, Shows(f, e), Shows(g, e)
  PROVE  Same(f, g, e.id)
BY DEF Shows, Same

(* The log shows what is in flight, one event on.                          *)
LEMMA LatestAfter ==
  ASSUME NEW f \in Flights, NEW L \in Seq(Event), NEW e \in Event, LatestShown(f, L)
  PROVE  LatestShown(After(f, e), Append(L, e))
<1> DEFINE N == Len(L)
           K == Append(L, e)
           g == After(f, e)
<1>1. N \in Nat /\ Len(K) = N + 1 /\ K[N + 1] = e /\ \A j \in 1 .. N : K[j] = L[j] /\ L[j] \in Event
  BY LenProperties, AppendProperties, ElementOfSeq
<1>2. Shows(g, e) /\ \A id \in Ids : id # e.id => Same(g, f, id) BY AfterIs
<1>3. \A n \in 1 .. N : (\A m \in n + 1 .. N : L[m].id # L[n].id) => Shows(f, L[n])
  BY DEF LatestShown
<1> HIDE DEF N, K, g
<1>4. ASSUME NEW n \in 1 .. N + 1, \A m \in n + 1 .. N + 1 : K[m].id # K[n].id
      PROVE  Shows(g, K[n])
  <2>1. CASE n = N + 1 BY <2>1, <1>1, <1>2
  <2>2. CASE n # N + 1
    <3>1. n \in 1 .. N /\ N + 1 \in n + 1 .. N + 1 BY <2>2, <1>1
    <3>2. L[n].id # e.id /\ L[n].id \in Ids BY <3>1, <1>1, <1>4 DEF Event
    <3>3. \A m \in n + 1 .. N : m \in n + 1 .. N + 1 /\ m \in 1 .. N BY <3>1, <1>1
    <3>4. \A m \in n + 1 .. N : L[m].id # L[n].id BY <3>1, <3>3, <1>1, <1>4
    <3>5. Shows(f, L[n]) BY <3>1, <3>4, <1>3
    <3>6. Same(g, f, L[n].id) BY <3>2, <1>2
    <3>7. Shows(g, L[n]) BY <3>5, <3>6, ShowsSame
    <3> QED BY <3>1, <3>7, <1>1
  <2> QED BY <2>1, <2>2
<1>5. LatestShown(g, K) BY <1>1, <1>4 DEF LatestShown
<1> QED BY <1>5 DEF g, K

-----------------------------------------------------------------------------
(* The queue, by its parts.                                                *)
LEMMA SeqParts ==
  ASSUME NEW S, NEW s \in Seq(S)
  PROVE  /\ Len(s) \in Nat /\ DOMAIN s = 1 .. Len(s) /\ \A i \in 1 .. Len(s) : s[i] \in S
         /\ (s = <<>> <=> Len(s) = 0)
<1>1. Len(s) \in Nat /\ DOMAIN s = 1 .. Len(s) BY LenProperties
<1>2. s # <<>> => Len(s) # 0 BY EmptySeq
<1>3. s = <<>> => Len(s) = 0 BY EmptySeq
<1> QED BY <1>1, <1>2, <1>3, ElementOfSeq

LEMMA TailParts ==
  ASSUME NEW S, NEW s \in Seq(S), s # <<>>
  PROVE  /\ Head(s) = s[1] /\ Head(s) \in S /\ Tail(s) \in Seq(S) /\ Len(Tail(s)) = Len(s) - 1
         /\ Len(s) \in Nat /\ Len(s) >= 1 /\ \A i \in 1 .. Len(s) - 1 : Tail(s)[i] = s[i + 1]
<1>1. Head(s) = s[1] OBVIOUS
<1>2. /\ Head(s) \in S /\ Tail(s) \in Seq(S) /\ Len(Tail(s)) = Len(s) - 1
      /\ \A i \in 1 .. Len(Tail(s)) : Tail(s)[i] = s[i + 1]
  BY HeadTailProperties
<1>3. Len(s) \in Nat /\ Len(s) # 0 BY SeqParts
<1> QED BY <1>1, <1>2, <1>3

LEMMA AppendParts ==
  ASSUME NEW S, NEW s \in Seq(S), NEW e \in S
  PROVE  /\ Append(s, e) \in Seq(S) /\ Len(Append(s, e)) = Len(s) + 1 /\ Len(s) \in Nat
         /\ Append(s, e)[Len(s) + 1] = e /\ \A i \in 1 .. Len(s) : Append(s, e)[i] = s[i]
BY AppendProperties, LenProperties

Requested(fr) ==
  fr \in Seq(FrameSet) /\ \A i \in 1 .. Len(fr) : fr[i].kind = "request" /\ Len(fr[i].evs) = 1

LEMMA SentIs ==
  ASSUME NEW fr, Requested(fr)
  PROVE  /\ SentOf(fr) \in Seq(Event) /\ Len(SentOf(fr)) = Len(fr)
         /\ \A i \in 1 .. Len(fr) : SentOf(fr)[i] = fr[i].evs[1]
<1>1. fr \in Seq(FrameSet) /\ Len(fr) \in Nat BY SeqParts DEF Requested
<1>2. \A i \in 1 .. Len(fr) : fr[i] \in FrameSet BY <1>1, SeqParts
<1>3. \A i \in 1 .. Len(fr) : fr[i].evs \in Seq(Event) /\ Len(fr[i].evs) = 1
  BY <1>2 DEF Requested, FrameSet
<1>4. ASSUME NEW i \in 1 .. Len(fr) PROVE fr[i].evs[1] \in Event
  <2> DEFINE v == fr[i].evs
  <2>1. v \in Seq(Event) /\ Len(v) = 1 BY <1>3
  <2> HIDE DEF v
  <2>2. 1 \in 1 .. Len(v) BY <2>1
  <2>3. v[1] \in Event BY <2>1, <2>2, ElementOfSeq
  <2> QED BY <2>3 DEF v
<1>5. SentOf(fr) \in [1 .. Len(fr) -> Event] BY <1>4 DEF SentOf
<1>6. SentOf(fr) \in Seq(Event) BY <1>1, <1>5, SeqDef
<1>7. DOMAIN SentOf(fr) = 1 .. Len(fr) BY DEF SentOf
<1>8. Len(SentOf(fr)) = Len(fr) BY <1>1, <1>6, <1>7, LenProperties
<1> QED BY <1>6, <1>8 DEF SentOf

LEMMA QueueIs ==
  ASSUME NEW fr, NEW c \in Seq(Event), Requested(fr)
  PROVE  QueueOf(fr, c) \in Seq(Event) /\ Len(QueueOf(fr, c)) = Len(fr) + Len(c)
<1> DEFINE s == SentOf(fr)
<1>1. s \in Seq(Event) /\ Len(s) = Len(fr) BY SentIs
<1> HIDE DEF s
<1>2. s \o c \in Seq(Event) /\ Len(s \o c) = Len(s) + Len(c) BY <1>1, ConcatProperties
<1> QED BY <1>1, <1>2 DEF QueueOf, s

LEMMA QueueAppend ==
  ASSUME NEW fr, NEW c \in Seq(Event), NEW e \in Event, Requested(fr)
  PROVE  QueueOf(fr, Append(c, e)) = Append(QueueOf(fr, c), e)
<1> DEFINE s == SentOf(fr)
<1>1. s \in Seq(Event) BY SentIs
<1> HIDE DEF s
<1>2. <<e>> \in Seq(Event) BY SMT
<1>3. Append(c, e) = c \o <<e>> BY AppendIsConcat
<1>4. s \o c \in Seq(Event) BY <1>1, ConcatProperties
<1>5. Append(s \o c, e) = (s \o c) \o <<e>> BY <1>4, AppendIsConcat
<1>6. (s \o c) \o <<e>> = s \o (c \o <<e>>) BY <1>1, <1>2, ConcatAssociative
<1> QED BY <1>3, <1>5, <1>6 DEF QueueOf, s

(* Forwarding moves an event from the channel to the wire.                 *)
LEMMA ForwardFrame ==
  ASSUME NEW fr, NEW e \in Event, Requested(fr), NEW x, x = Frame("request", <<e>>, <<>>)
  PROVE  /\ x \in FrameSet /\ x.kind = "request" /\ Len(x.evs) = 1
         /\ Requested(Append(fr, x)) /\ SentOf(Append(fr, x)) = Append(SentOf(fr), e)
<1>1. <<e>> \in Seq(Event) /\ Len(<<e>>) = 1 /\ <<e>>[1] = e BY SMT
<1>2. x = [kind |-> "request", evs |-> <<e>>, inflight |-> <<>>] BY DEF Frame
<1>3. x \in FrameSet /\ x.kind = "request" /\ Len(x.evs) = 1 /\ x.evs[1] = e
  BY <1>1, <1>2, NoFlights DEF FrameSet
<1> DEFINE fx == Append(fr, x)
           n == Len(fr)
<1>4. fr \in Seq(FrameSet) BY DEF Requested
<1>5. /\ fx \in Seq(FrameSet) /\ Len(fx) = n + 1 /\ n \in Nat /\ fx[n + 1] = x
      /\ \A i \in 1 .. n : fx[i] = fr[i]
  BY <1>3, <1>4, AppendParts
<1>6. \A i \in 1 .. n : fr[i].kind = "request" /\ Len(fr[i].evs) = 1 BY DEF Requested
<1>7. SentOf(fr) \in Seq(Event) /\ Len(SentOf(fr)) = n /\ \A i \in 1 .. n : SentOf(fr)[i] = fr[i].evs[1]
  BY SentIs
<1> HIDE DEF fx, n
<1>8. \A i \in 1 .. n + 1 : i \in 1 .. n \/ i = n + 1 BY <1>5
<1>9. Requested(fx) BY <1>3, <1>5, <1>6, <1>8 DEF Requested
<1>10. SentOf(fx) \in Seq(Event) /\ Len(SentOf(fx)) = n + 1 /\ \A i \in 1 .. n + 1 : SentOf(fx)[i] = fx[i].evs[1]
  BY <1>5, <1>9, SentIs
<1> DEFINE a == Append(SentOf(fr), e)
<1>11. a \in Seq(Event) /\ Len(a) = n + 1 /\ a[n + 1] = e /\ \A i \in 1 .. n : a[i] = SentOf(fr)[i]
  BY <1>7, AppendParts
<1> HIDE DEF a
<1>12. \A i \in 1 .. n + 1 : SentOf(fx)[i] = a[i] BY <1>3, <1>5, <1>7, <1>8, <1>10, <1>11
<1>13. SentOf(fx) = a BY <1>10, <1>11, <1>12, SeqEqual
<1> QED BY <1>3, <1>9, <1>13 DEF fx, a

LEMMA QueueForward ==
  ASSUME NEW fr, NEW c \in Seq(Event), c # <<>>, Requested(fr), NEW x, x = Frame("request", <<Head(c)>>, <<>>)
  PROVE  QueueOf(Append(fr, x), Tail(c)) = QueueOf(fr, c)
<1> DEFINE s == SentOf(fr)
           e == Head(c)
<1>1. s \in Seq(Event) BY SentIs
<1>2. e \in Event /\ Tail(c) \in Seq(Event) BY TailParts
<1>3. SentOf(Append(fr, x)) = Append(s, e) BY <1>2, ForwardFrame
<1>4. c = <<e>> \o Tail(c)
  <2> DEFINE d == <<e>> \o Tail(c)
             t == Tail(c)
  <2>1. <<e>> \in Seq(Event) /\ Len(<<e>>) = 1 /\ <<e>>[1] = e BY <1>2, SMT
  <2>2. /\ e = c[1] /\ Len(t) = Len(c) - 1 /\ Len(c) \in Nat /\ Len(c) >= 1
        /\ \A i \in 1 .. Len(c) - 1 : t[i] = c[i + 1]
    BY TailParts
  <2>3. /\ d \in Seq(Event) /\ Len(d) = Len(<<e>>) + Len(t)
        /\ \A i \in 1 .. Len(<<e>>) + Len(t) : d[i] = IF i <= Len(<<e>>) THEN <<e>>[i] ELSE t[i - Len(<<e>>)]
    BY <1>2, <2>1, ConcatProperties
  <2>4. Len(d) = Len(c) BY <2>1, <2>2, <2>3
  <2>5. ASSUME NEW i \in 1 .. Len(c) PROVE c[i] = d[i]
    <3>1. i \in 1 .. Len(<<e>>) + Len(t) BY <2>1, <2>2
    <3>2. CASE i = 1 BY <3>1, <3>2, <2>1, <2>2, <2>3
    <3>3. CASE i # 1
      <4>1. i - 1 \in 1 .. Len(c) - 1 /\ (i - 1) + 1 = i /\ ~(i <= 1) BY <3>3, <2>2
      <4>2. d[i] = t[i - 1] BY <4>1, <3>1, <2>1, <2>3
      <4>3. t[i - 1] = c[(i - 1) + 1] BY <4>1, <2>2
      <4> QED BY <4>1, <4>2, <4>3
    <3> QED BY <3>2, <3>3
  <2> HIDE DEF d
  <2>6. c = d BY <2>3, <2>4, <2>5, SeqEqual
  <2> QED BY <2>6 DEF d
<1>5. <<e>> \in Seq(Event) BY <1>2, SMT
<1>6. Append(s, e) = s \o <<e>> BY <1>1, <1>2, AppendIsConcat
<1>7. (s \o <<e>>) \o Tail(c) = s \o (<<e>> \o Tail(c)) BY <1>1, <1>2, <1>5, ConcatAssociative
<1> HIDE DEF s, e
<1>8. QueueOf(Append(fr, x), Tail(c)) = Append(s, e) \o Tail(c) BY <1>3 DEF QueueOf
<1>9. QueueOf(fr, c) = s \o c BY DEF QueueOf, s
<1> QED BY <1>4, <1>6, <1>7, <1>8, <1>9

(* Reading takes the head of the wire.                                     *)
LEMMA QueueRead ==
  ASSUME NEW fr, NEW c \in Seq(Event), Requested(fr), fr # <<>>
  PROVE  /\ Requested(Tail(fr)) /\ QueueOf(fr, c) # <<>>
         /\ QueueOf(Tail(fr), c) = Tail(QueueOf(fr, c)) /\ Head(QueueOf(fr, c)) = Head(fr).evs[1]
<1> DEFINE n == Len(fr)
           s == SentOf(fr)
           ft == Tail(fr)
           t == SentOf(ft)
           m == Len(c)
<1>1. fr \in Seq(FrameSet) BY DEF Requested
<1>2. /\ Head(fr) = fr[1] /\ ft \in Seq(FrameSet) /\ Len(ft) = n - 1 /\ n \in Nat /\ n >= 1
      /\ \A i \in 1 .. n - 1 : ft[i] = fr[i + 1]
  BY <1>1, TailParts
<1>3. \A i \in 1 .. n : fr[i].kind = "request" /\ Len(fr[i].evs) = 1 BY DEF Requested
<1>4. s \in Seq(Event) /\ Len(s) = n /\ \A i \in 1 .. n : s[i] = fr[i].evs[1] BY SentIs
<1>5. m \in Nat BY SeqParts
<1> HIDE DEF n, s, ft, t, m
<1>6. \A i \in 1 .. n - 1 : i + 1 \in 1 .. n BY <1>2
<1>7. Requested(ft) BY <1>2, <1>3, <1>6 DEF Requested
<1>8. t \in Seq(Event) /\ Len(t) = n - 1 /\ \A i \in 1 .. n - 1 : t[i] = ft[i].evs[1]
  BY <1>2, <1>7, SentIs DEF t
<1>9. \A i \in 1 .. n - 1 : t[i] = s[i + 1] BY <1>2, <1>4, <1>6, <1>8
<1> DEFINE q == s \o c
           r == t \o c
<1>10. q \in Seq(Event) /\ Len(q) = n + m /\ \A i \in 1 .. n + m : q[i] = IF i <= n THEN s[i] ELSE c[i - n]
  <2>1. /\ q \in Seq(Event) /\ Len(q) = Len(s) + Len(c)
        /\ \A i \in 1 .. Len(s) + Len(c) : q[i] = IF i <= Len(s) THEN s[i] ELSE c[i - Len(s)]
    BY <1>4, ConcatProperties
  <2> QED BY <2>1, <1>4 DEF m
<1>11. r \in Seq(Event) /\ Len(r) = n - 1 + m /\ \A i \in 1 .. n - 1 + m : r[i] = IF i <= n - 1 THEN t[i] ELSE c[i - (n - 1)]
  <2>1. /\ r \in Seq(Event) /\ Len(r) = Len(t) + Len(c)
        /\ \A i \in 1 .. Len(t) + Len(c) : r[i] = IF i <= Len(t) THEN t[i] ELSE c[i - Len(t)]
    BY <1>8, ConcatProperties
  <2> QED BY <2>1, <1>8 DEF m
<1> HIDE DEF q, r
<1>12. q # <<>> BY <1>2, <1>5, <1>10, SeqParts
<1>13. /\ Head(q) = q[1] /\ Tail(q) \in Seq(Event) /\ Len(Tail(q)) = n + m - 1
       /\ \A i \in 1 .. n + m - 1 : Tail(q)[i] = q[i + 1]
  <2>1. /\ Head(q) = q[1] /\ Tail(q) \in Seq(Event) /\ Len(Tail(q)) = Len(q) - 1
        /\ \A i \in 1 .. Len(q) - 1 : Tail(q)[i] = q[i + 1]
    BY <1>10, <1>12, TailParts
  <2> QED BY <2>1, <1>2, <1>5, <1>10
<1>14. 1 \in 1 .. n /\ 1 \in 1 .. n + m /\ 1 <= n /\ n - 1 + m = n + m - 1 BY <1>2, <1>5
<1>15. Head(q) = fr[1].evs[1] BY <1>4, <1>10, <1>13, <1>14
<1>16. ASSUME NEW i \in 1 .. n - 1 + m PROVE r[i] = Tail(q)[i]
  <2>1. i + 1 \in 1 .. n + m /\ i \in 1 .. n + m - 1 BY <1>2, <1>5
  <2>2. Tail(q)[i] = q[i + 1] BY <2>1, <1>13
  <2>3. CASE i <= n - 1
    <3>1. i \in 1 .. n - 1 /\ i + 1 <= n BY <2>3, <1>2, <1>5
    <3> QED BY <2>1, <2>2, <2>3, <3>1, <1>9, <1>10, <1>11
  <2>4. CASE ~(i <= n - 1)
    <3>1. ~(i + 1 <= n) /\ (i + 1) - n = i - (n - 1) BY <2>4, <1>2, <1>5
    <3> QED BY <2>1, <2>2, <2>4, <3>1, <1>10, <1>11
  <2> QED BY <2>3, <2>4
<1>17. r = Tail(q) BY <1>11, <1>13, <1>14, <1>16, SeqEqual
<1>18. QueueOf(fr, c) = q /\ QueueOf(ft, c) = r BY DEF QueueOf, q, r, s, t
<1> QED BY <1>2, <1>7, <1>12, <1>15, <1>17, <1>18 DEF ft

-----------------------------------------------------------------------------
(* The queue as the end of the log.                                        *)
LEMMA EndGrows ==
  ASSUME NEW q \in Seq(Event), NEW L \in Seq(Event), NEW e \in Event, EndOf(q, L)
  PROVE  EndOf(Append(q, e), Append(L, e))
<1> DEFINE m == Len(q)
           n == Len(L)
           r == Append(q, e)
           K == Append(L, e)
<1>1. m \in Nat /\ Len(r) = m + 1 /\ r[m + 1] = e /\ \A i \in 1 .. m : r[i] = q[i] BY AppendParts
<1>2. n \in Nat /\ Len(K) = n + 1 /\ K[n + 1] = e /\ \A i \in 1 .. n : K[i] = L[i] BY AppendParts
<1>3. m <= n /\ \A i \in 1 .. m : q[i] = L[n - m + i] BY DEF EndOf
<1> HIDE DEF m, n, r, K
<1>4. ASSUME NEW i \in 1 .. m + 1 PROVE r[i] = K[n + 1 - (m + 1) + i]
  <2>1. n + 1 - (m + 1) + i = n - m + i BY <1>1, <1>2
  <2>2. CASE i = m + 1
    <3>1. n - m + i = n + 1 BY <2>2, <1>1, <1>2
    <3> QED BY <2>1, <2>2, <3>1, <1>1, <1>2
  <2>3. CASE i # m + 1
    <3>1. i \in 1 .. m /\ n - m + i \in 1 .. n BY <2>3, <1>1, <1>2, <1>3
    <3> QED BY <2>1, <3>1, <1>1, <1>2, <1>3
  <2> QED BY <2>2, <2>3
<1>5. EndOf(r, K) BY <1>1, <1>2, <1>3, <1>4 DEF EndOf
<1> QED BY <1>5 DEF r, K

LEMMA EndRead ==
  ASSUME NEW q \in Seq(Event), NEW L \in Seq(Event), q # <<>>, EndOf(q, L)
  PROVE  /\ EndOf(Tail(q), L) /\ Len(L) - Len(q) + 1 \in 1 .. Len(L)
         /\ Head(q) = L[Len(L) - Len(q) + 1]
<1> DEFINE m == Len(q)
           n == Len(L)
           r == Tail(q)
<1>1. /\ Head(q) = q[1] /\ m \in Nat /\ m >= 1 /\ Len(r) = m - 1 /\ \A i \in 1 .. m - 1 : r[i] = q[i + 1]
  BY TailParts
<1>2. n \in Nat BY SeqParts
<1>3. m <= n /\ \A i \in 1 .. m : q[i] = L[n - m + i] BY DEF EndOf
<1> HIDE DEF m, n, r
<1>4. 1 \in 1 .. m /\ n - m + 1 \in 1 .. n /\ m - 1 <= n BY <1>1, <1>2, <1>3
<1>5. ASSUME NEW i \in 1 .. m - 1 PROVE r[i] = L[n - (m - 1) + i]
  <2>1. i + 1 \in 1 .. m /\ n - m + (i + 1) = n - (m - 1) + i BY <1>1, <1>2
  <2>2. q[i + 1] = L[n - m + (i + 1)] BY <2>1, <1>3
  <2> QED BY <2>1, <2>2, <1>1
<1>6. EndOf(r, L) BY <1>1, <1>4, <1>5 DEF EndOf, n
<1>7. q[1] = L[n - m + 1] BY <1>3, <1>4
<1> QED BY <1>1, <1>4, <1>6, <1>7 DEF m, n, r

(* A request the longer queue does not mention is not in the shorter.      *)
LEMMA MentionsAppend ==
  ASSUME NEW q \in Seq(Event), NEW e \in Event, NEW id, ~Mentions(Append(q, e), id)
  PROVE  ~Mentions(q, id) /\ id # e.id
<1>1. /\ Len(q) \in Nat /\ Len(Append(q, e)) = Len(q) + 1 /\ Append(q, e)[Len(q) + 1] = e
      /\ \A i \in 1 .. Len(q) : Append(q, e)[i] = q[i]
  BY AppendParts
<1>2. \A i \in 1 .. Len(q) + 1 : Append(q, e)[i].id # id BY <1>1 DEF Mentions
<1>3. Len(q) + 1 \in 1 .. Len(q) + 1 /\ \A i \in 1 .. Len(q) : i \in 1 .. Len(q) + 1 BY <1>1
<1>4. e.id # id BY <1>1, <1>2, <1>3
<1>5. \A i \in 1 .. Len(q) : q[i].id # id BY <1>1, <1>2, <1>3
<1> QED BY <1>4, <1>5 DEF Mentions

LEMMA MentionsTail ==
  ASSUME NEW q \in Seq(Event), q # <<>>, NEW id, ~Mentions(Tail(q), id), id # Head(q).id
  PROVE  ~Mentions(q, id)
<1>1. /\ Head(q) = q[1] /\ Len(q) \in Nat /\ Len(q) >= 1 /\ Len(Tail(q)) = Len(q) - 1
      /\ \A i \in 1 .. Len(q) - 1 : Tail(q)[i] = q[i + 1]
  BY TailParts
<1>2. \A i \in 1 .. Len(q) - 1 : q[i + 1].id # id BY <1>1 DEF Mentions
<1>3. ASSUME NEW i \in 1 .. Len(q) PROVE q[i].id # id
  <2>1. CASE i = 1 BY <2>1, <1>1
  <2>2. CASE i # 1
    <3>1. i - 1 \in 1 .. Len(q) - 1 /\ (i - 1) + 1 = i BY <2>2, <1>1
    <3>2. q[(i - 1) + 1].id # id BY <3>1, <1>2
    <3> QED BY <3>1, <3>2
  <2> QED BY <2>1, <2>2
<1> QED BY <1>3 DEF Mentions

(* The peer serves a request: the event waits, and the base may be stale   *)
(* for it.                                                                 *)
LEMMA FlowGrows ==
  ASSUME NEW q \in Seq(Event), NEW L \in Seq(Event), NEW e \in Event, NEW f, NEW g \in Flights, Flow(q, f, g, L)
  PROVE  Flow(Append(q, e), f, After(g, e), Append(L, e))
<1>1. ASSUME NEW id \in Ids, ~Mentions(Append(q, e), id) PROVE Same(f, After(g, e), id)
  <2>1. ~Mentions(q, id) /\ id # e.id BY <1>1, MentionsAppend
  <2>2. Same(f, g, id) BY <2>1 DEF Flow, Agrees
  <2>3. Same(After(g, e), g, id) BY <2>1, AfterIs
  <2> QED BY <2>2, <2>3, SameBack, SameTrans
<1>2. EndOf(Append(q, e), Append(L, e)) BY EndGrows DEF Flow
<1> QED BY <1>1, <1>2 DEF Flow, Agrees

(* An event is applied to the base: it is the log's last word on its       *)
(* request, unless a later one still waits.                                *)
LEMMA FlowRead ==
  ASSUME NEW q \in Seq(Event), q # <<>>, NEW L \in Seq(Event), NEW f \in Flights, NEW g,
         LatestShown(g, L), Flow(q, f, g, L)
  PROVE  Flow(Tail(q), After(f, Head(q)), g, L)
<1> DEFINE e == Head(q)
           m == Len(q)
           n == Len(L)
           k == n - m + 1
<1>1. e \in Event BY TailParts
<1>2. /\ EndOf(Tail(q), L) /\ n - m + 1 \in 1 .. n /\ e = L[n - m + 1]
  BY EndRead DEF Flow
<1>3. m \in Nat /\ n \in Nat BY SeqParts
<1>4. \A i \in 1 .. m : q[i] = L[n - m + i] BY DEF Flow, EndOf
<1>5. /\ m >= 1 /\ Len(Tail(q)) = m - 1 /\ \A i \in 1 .. m - 1 : Tail(q)[i] = q[i + 1]
  BY TailParts
<1>6. Shows(After(f, e), e) /\ \A id \in Ids : id # e.id => Same(After(f, e), f, id)
  BY <1>1, AfterIs
<1> HIDE DEF e, m, n
<1>7. ASSUME NEW id \in Ids, ~Mentions(Tail(q), id) PROVE Same(After(f, e), g, id)
  <2>1. CASE id # e.id
    <3>1. ~Mentions(q, id) BY <1>7, <2>1, MentionsTail DEF e
    <3>2. Same(f, g, id) BY <3>1 DEF Flow, Agrees
    <3> QED BY <3>2, <2>1, <1>6, SameTrans
  <2>2. CASE id = e.id
    <3>1. k \in 1 .. n /\ L[k] = e BY <1>2
    <3>2. ASSUME NEW j \in k + 1 .. n PROVE L[j].id # id
      <4> DEFINE i == j - k
      <4>1. i \in 1 .. m - 1 /\ i + 1 \in 1 .. m /\ n - m + (i + 1) = j BY <1>2, <1>3
      <4> HIDE DEF i
      <4>2. Tail(q)[i].id # id BY <4>1, <1>5, <1>7 DEF Mentions
      <4>3. Tail(q)[i] = q[i + 1] BY <4>1, <1>5
      <4>4. q[i + 1] = L[n - m + (i + 1)] BY <4>1, <1>4
      <4> QED BY <4>1, <4>2, <4>3, <4>4
    <3> HIDE DEF k
    <3>3. Shows(g, L[k]) BY <3>1, <3>2, <2>2 DEF LatestShown, n
    <3> QED BY <3>1, <3>3, <2>2, <1>6, ShowsBoth
  <2> QED BY <2>1, <2>2
<1> QED BY <1>2, <1>7 DEF Flow, Agrees, e

(* With nothing waiting, the base is what the peer has in flight.          *)
LEMMA FlowDry ==
  ASSUME NEW f \in Flights, NEW g \in Flights, NEW L, Flow(<<>>, f, g, L)
  PROVE  f = g
<1>1. \A id \in Ids : ~Mentions(<<>>, id)
  <2>1. Len(<<>>) = 0 /\ 1 .. 0 = {} BY EmptySeq
  <2> QED BY <2>1 DEF Mentions
<1>2. \A id \in Ids : Same(f, g, id) BY <1>1 DEF Flow, Agrees
<1>3. DOMAIN f \subseteq Ids /\ f = [i \in DOMAIN f |-> f[i]] BY FlightsAre
<1>4. DOMAIN g \subseteq Ids /\ g = [i \in DOMAIN g |-> g[i]] BY FlightsAre
<1>5. DOMAIN f = DOMAIN g /\ \A i \in DOMAIN f : f[i] = g[i] BY <1>2, <1>3, <1>4 DEF Same
<1> QED BY <1>3, <1>4, <1>5

-----------------------------------------------------------------------------
(* What the mirror's ring was given.                                       *)
LEMMA RoomIs == \A n \in Nat : Room(n) \in Nat /\ Room(n) <= n /\ Room(n) <= Cap
BY CapIs DEF Room

LEMMA RunsGrow ==
  ASSUME NEW M \in Seq(Event), NEW L \in Seq(Event), NEW e \in Event, NEW k \in 0 .. Len(L), Runs(M, L, k)
  PROVE  Runs(M, Append(L, e), k)
<1> DEFINE N == Len(L)
           K == Append(L, e)
           m == Len(M)
<1>1. N \in Nat /\ Len(K) = N + 1 /\ \A j \in 1 .. N : K[j] = L[j] BY AppendParts
<1>2. PICK n \in 0 .. N : TwoRuns(M, L, k, n) BY DEF Runs
<1> DEFINE p == Room(n)
<1>3. /\ p <= m /\ m - p <= k /\ k - (m - p) <= n
      /\ \A i \in 1 .. p : M[i] = L[n - p + i]
      /\ \A i \in p + 1 .. m : M[i] = L[k - m + i]
  BY <1>2 DEF TwoRuns
<1>4. p \in Nat /\ p <= n /\ n \in Nat BY RoomIs, <1>1
<1>5. m \in Nat /\ k \in 0 .. N BY SeqParts
<1> HIDE DEF N, K, m, p
<1>6. \A i \in 1 .. p : n - p + i \in 1 .. N BY <1>1, <1>4, <1>2
<1>7. \A i \in p + 1 .. m : k - m + i \in 1 .. N BY <1>1, <1>3, <1>4, <1>5
<1>8. n \in 0 .. N + 1 BY <1>1, <1>2
<1>9. TwoRuns(M, K, k, n) BY <1>1, <1>3, <1>6, <1>7 DEF TwoRuns, p, m
<1> QED BY <1>1, <1>8, <1>9 DEF Runs, K

LEMMA RunsRead ==
  ASSUME NEW M \in Seq(Event), NEW L \in Seq(Event), NEW k \in 0 .. Len(L), k + 1 <= Len(L), Runs(M, L, k)
  PROVE  Runs(Append(M, L[k + 1]), L, k + 1)
<1> DEFINE N == Len(L)
           e == L[k + 1]
           W == Append(M, e)
           m == Len(M)
<1>0. N \in Nat /\ k + 1 \in 1 .. N BY SeqParts
<1>1. e \in Event BY <1>0, SeqParts
<1>2. m \in Nat /\ Len(W) = m + 1 /\ W[m + 1] = e /\ \A j \in 1 .. m : W[j] = M[j] BY <1>1, AppendParts
<1>3. PICK n \in 0 .. N : TwoRuns(M, L, k, n) BY DEF Runs
<1> DEFINE p == Room(n)
<1>4. /\ p <= m /\ m - p <= k /\ k - (m - p) <= n
      /\ \A i \in 1 .. p : M[i] = L[n - p + i]
      /\ \A i \in p + 1 .. m : M[i] = L[k - m + i]
  BY <1>3 DEF TwoRuns
<1>5. p \in Nat /\ p <= n /\ n \in Nat BY RoomIs, <1>0
<1>9. e = L[k + 1] OBVIOUS
<1> HIDE DEF N, e, W, m, p
<1>6. p <= m + 1 /\ m + 1 - p <= k + 1 /\ (k + 1) - (m + 1 - p) <= n BY <1>0, <1>2, <1>4, <1>5
<1>7. \A i \in 1 .. p : W[i] = L[n - p + i]
  <2>1. \A i \in 1 .. p : i \in 1 .. m BY <1>2, <1>4, <1>5
  <2> QED BY <2>1, <1>2, <1>4
<1>8. ASSUME NEW i \in p + 1 .. m + 1 PROVE W[i] = L[(k + 1) - (m + 1) + i]
  <2>1. (k + 1) - (m + 1) + i = k - m + i BY <1>0, <1>2, <1>5
  <2>2. CASE i = m + 1
    <3>1. k - m + i = k + 1 BY <2>2, <1>0, <1>2
    <3> QED BY <2>1, <2>2, <3>1, <1>2, <1>9
  <2>3. CASE i # m + 1
    <3>1. i \in p + 1 .. m /\ i \in 1 .. m BY <2>3, <1>2, <1>5
    <3> QED BY <2>1, <3>1, <1>2, <1>4
  <2> QED BY <2>2, <2>3
<1>11. Len(W) = m + 1 BY <1>2
<1>12. p <= Len(W) /\ Len(W) - p <= k + 1 /\ (k + 1) - (Len(W) - p) <= n
  BY <1>0, <1>2, <1>4, <1>5, <1>11
<1>13. \A i \in p + 1 .. Len(W) : W[i] = L[(k + 1) - Len(W) + i] BY <1>8, <1>11
<1>10. TwoRuns(W, L, k + 1, n) BY <1>7, <1>12, <1>13, Zenon DEF TwoRuns, p
<1> QED BY <1>3, <1>10 DEF Runs, N, W, e

(* A snapshot that was just applied.                                       *)
LEMMA RunsSnapshot ==
  ASSUME NEW s \in Seq(Event), NEW L \in Seq(Event), NEW k \in 0 .. Len(L), SnapshotGood(s, L, k)
  PROVE  Runs(s, L, k) /\ Len(s) <= Cap
<1>1. PICK n \in 0 .. Len(L) : NewestOf(s, L, n) /\ k <= n BY DEF SnapshotGood
<1> DEFINE p == Room(n)
<1>2. Len(s) = p /\ \A i \in 1 .. Len(s) : s[i] = L[n - Len(s) + i] BY <1>1 DEF NewestOf
<1>3. Len(L) \in Nat BY SeqParts
<1>4. n \in Nat /\ p \in Nat /\ p <= n /\ p <= Cap /\ k \in Nat BY <1>3, RoomIs
<1> HIDE DEF p
<1>5. p <= p /\ p - p <= k /\ k - (p - p) <= n BY <1>1, <1>4
<1>6. \A i \in p + 1 .. p : FALSE BY <1>4
<1>7. TwoRuns(s, L, k, n) BY <1>2, <1>5, <1>6 DEF TwoRuns, p
<1> QED BY <1>2, <1>4, <1>7 DEF Runs

LEMMA SnapshotGrows ==
  ASSUME NEW s \in Seq(Event), NEW L \in Seq(Event), NEW e \in Event, NEW k \in 0 .. Len(L), SnapshotGood(s, L, k)
  PROVE  SnapshotGood(s, Append(L, e), k)
<1>1. PICK n \in 0 .. Len(L) : NewestOf(s, L, n) /\ k <= n BY DEF SnapshotGood
<1> DEFINE p == Room(n)
           K == Append(L, e)
<1>2. Len(s) = p /\ \A i \in 1 .. Len(s) : s[i] = L[n - Len(s) + i] BY <1>1 DEF NewestOf
<1>3. Len(L) \in Nat /\ Len(K) = Len(L) + 1 /\ \A j \in 1 .. Len(L) : K[j] = L[j] BY AppendParts
<1>4. n \in Nat /\ p \in Nat /\ p <= n BY <1>3, RoomIs
<1> HIDE DEF p, K
<1>5. \A i \in 1 .. p : n - p + i \in 1 .. Len(L) BY <1>3, <1>4
<1>6. \A i \in 1 .. Len(s) : s[i] = K[n - Len(s) + i] BY <1>2, <1>3, <1>5
<1>7. NewestOf(s, K, n) /\ n \in 0 .. Len(K) BY <1>2, <1>3, <1>6 DEF NewestOf, p
<1> QED BY <1>1, <1>7 DEF SnapshotGood, K

(* Caught up, what a mirror replays runs to the end of the log.            *)
NoHole(R, L) ==
  LET shown == ToSet(R) IN
  /\ \A e \in shown : e.seq \in 1 .. Len(L) /\ L[e.seq] = e
  /\ L # <<>> => Last(L) \in shown
  /\ \A e \in shown : \A n \in e.seq .. Len(L) : L[n] \in shown

LEMMA RunsHaveNoHole ==
  ASSUME NEW M \in Seq(Event), NEW L, LogGood(L), Runs(M, L, Len(L)),
         NEW R \in Seq(Event), NewestOf(R, M, Len(M))
  PROVE  NoHole(R, L)
<1> DEFINE N == Len(L)
           m == Len(M)
           c == Room(m)
           b == m - c
<1>1. L \in Seq(Event) /\ \A i \in 1 .. N : L[i].seq = i BY DEF LogGood
<1>2. N \in Nat /\ m \in Nat BY <1>1, SeqParts
<1>3. PICK n \in 0 .. N : TwoRuns(M, L, N, n) BY DEF Runs
<1> DEFINE p == Room(n)
<1>4. /\ p <= m /\ m - p <= N /\ N - (m - p) <= n
      /\ \A i \in 1 .. p : M[i] = L[n - p + i]
      /\ \A i \in p + 1 .. m : M[i] = L[N - m + i]
  BY <1>3 DEF TwoRuns
<1>5. n \in Nat /\ p \in Nat /\ p <= n /\ (p = 0 => n = 0) BY <1>2, CapIs DEF Room
<1>6. c \in Nat /\ c <= m /\ (c = 0 => m = 0) BY <1>2, CapIs DEF Room
<1>7. Len(R) = c /\ \A i \in 1 .. Len(R) : R[i] = M[m - Len(R) + i] BY DEF NewestOf
<1>8. ToSet(R) = {M[i] : i \in b + 1 .. m}
  <2>1. ToSet(R) = {R[i] : i \in 1 .. c} BY <1>7, SeqParts DEF ToSet
  <2> HIDE DEF c
  <2>2. \A i \in 1 .. c : m - c + i \in b + 1 .. m /\ R[i] = M[m - c + i] BY <1>2, <1>6, <1>7
  <2>3. \A j \in b + 1 .. m : j - b \in 1 .. c /\ m - c + (j - b) = j BY <1>2, <1>6
  <2>4. \A j \in b + 1 .. m : R[j - b] = M[j] BY <2>2, <2>3
  <2>5. {R[i] : i \in 1 .. c} \subseteq {M[i] : i \in b + 1 .. m} BY <2>2
  <2>6. {M[i] : i \in b + 1 .. m} \subseteq {R[i] : i \in 1 .. c} BY <2>3, <2>4
  <2> QED BY <2>1, <2>5, <2>6
<1>9. b \in Nat /\ b <= m /\ (b = m => m = 0) BY <1>2, <1>6
<1> HIDE DEF N, m, c, b, p
<1> DEFINE S == {M[i] : i \in b + 1 .. m}
<1>10. \A j \in b + 1 .. m : M[j] \in S OBVIOUS
<1>11. ASSUME NEW i \in b + 1 .. m
       PROVE  /\ M[i].seq \in 1 .. N /\ L[M[i].seq] = M[i]
              /\ \A x \in M[i].seq .. N : L[x] \in S
  <2>1. i \in Nat /\ i >= 1 BY <1>9
  <2>2. CASE i <= p
    <3> DEFINE q == n - p + i
    <3>1. q \in 1 .. N BY <1>2, <1>5, <2>1, <2>2, <1>3
    <3>2. M[i] = L[q] BY <1>4, <2>1, <2>2, <1>5
    <3>3. M[i].seq = q BY <1>1, <3>1, <3>2
    <3>4. ASSUME NEW x \in q .. N PROVE L[x] \in S
      <4>1. CASE x <= n
        <5> DEFINE j == x - (n - p)
        <5>1. j \in 1 .. p /\ j \in b + 1 .. m /\ n - p + j = x
          BY <4>1, <2>1, <2>2, <1>2, <1>4, <1>5, <1>9
        <5> HIDE DEF j
        <5>2. M[j] = L[x] BY <5>1, <1>4
        <5> QED BY <5>1, <5>2, <1>10
      <4>2. CASE x > n
        <5> DEFINE j == x - (N - m)
        <5>1. j \in p + 1 .. m /\ j \in b + 1 .. m /\ N - m + j = x
          BY <4>2, <2>1, <2>2, <1>2, <1>4, <1>5, <1>9
        <5> HIDE DEF j
        <5>2. M[j] = L[x] BY <5>1, <1>4
        <5> QED BY <5>1, <5>2, <1>10
      <4>3. x <= n \/ x > n BY <1>2, <1>5, <3>1
      <4> QED BY <4>1, <4>2, <4>3
    <3> HIDE DEF q
    <3> QED BY <3>1, <3>2, <3>3, <3>4
  <2>3. CASE ~(i <= p)
    <3> DEFINE q == N - m + i
    <3>1. i \in p + 1 .. m BY <2>1, <2>3, <1>5, <1>9
    <3>2. q \in 1 .. N BY <3>1, <1>2, <1>4, <1>5
    <3>3. M[i] = L[q] BY <3>1, <1>4
    <3>4. M[i].seq = q BY <1>1, <3>2, <3>3
    <3>5. ASSUME NEW x \in q .. N PROVE L[x] \in S
      <4> DEFINE j == x - (N - m)
      <4>1. j \in p + 1 .. m /\ j \in b + 1 .. m /\ N - m + j = x
        BY <3>1, <2>1, <1>2, <1>4, <1>5, <1>9
      <4> HIDE DEF j
      <4>2. M[j] = L[x] BY <4>1, <1>4
      <4> QED BY <4>1, <4>2, <1>10
    <3> HIDE DEF q
    <3> QED BY <3>2, <3>3, <3>4, <3>5
  <2> QED BY <2>2, <2>3
<1>12. L # <<>> => Last(L) \in S
  <2> SUFFICES ASSUME L # <<>> PROVE L[N] \in S BY DEF Last, N
  <2>1. N >= 1 BY <1>1, <1>2, SeqParts DEF N
  <2>2. m \in b + 1 .. m BY <1>2, <1>4, <1>5, <1>9, <2>1
  <2>3. M[m] = L[N]
    <3>1. CASE m = p
      <4>1. n = N /\ p \in 1 .. p /\ n - p + p = N BY <3>1, <2>1, <1>2, <1>3, <1>4, <1>5
      <4>2. M[p] = L[n - p + p] BY <4>1, <1>4
      <4> QED BY <3>1, <4>1, <4>2
    <3>2. CASE m # p
      <4>1. m \in p + 1 .. m /\ N - m + m = N BY <3>2, <1>2, <1>4, <1>5
      <4>2. M[m] = L[N - m + m] BY <4>1, <1>4
      <4> QED BY <4>1, <4>2
    <3> QED BY <3>1, <3>2
  <2> QED BY <2>2, <2>3, <1>10
<1>13. \A e \in S : \E i \in b + 1 .. m : e = M[i] OBVIOUS
<1> HIDE DEF S
<1>14. \A e \in S : /\ e.seq \in 1 .. N /\ L[e.seq] = e
                    /\ \A x \in e.seq .. N : L[x] \in S
  BY <1>11, <1>13
<1>15. ToSet(R) = S BY <1>8 DEF S
<1> QED BY <1>12, <1>14, <1>15 DEF NoHole, N

-----------------------------------------------------------------------------
(* The parts of the invariant, where they are needed.                      *)
LEMMA FieldFacts ==
  ASSUME IInv
  PROVE  /\ origin \in BrokerSet /\ mirror \in BrokerSet /\ WireGood(wire)
         /\ origin.inflight \in Flights /\ mirror.inflight \in Flights
         /\ srv \in ServerSet /\ srv.chan \in Seq(Event) /\ srv.inflight \in Flights
         /\ srv.dropped \in BOOLEAN /\ Len(srv.chan) \in Nat /\ Len(srv.chan) <= Buf
         /\ feed \in FeedSet /\ feed.first \in BOOLEAN
         /\ log \in Seq(Event) /\ Len(log) \in Nat
<1>1. srv.chan \in Seq(Event) /\ log \in Seq(Event) BY DEF IInv, Typed, ServerSet, OriginGood, LogGood
<1>2. Len(srv.chan) \in Nat /\ Len(log) \in Nat BY <1>1, SeqParts
<1> QED BY <1>1, <1>2 DEF IInv, Typed, BrokerSet, ServerSet, FeedSet

LEMMA FramesRequested ==
  ASSUME NEW w, WireGood(w), NEW first \in BOOLEAN,
         \A i \in 1 .. Len(FramesOf(first, w)) : FramesOf(first, w)[i].kind = "request"
  PROVE  Requested(FramesOf(first, w))
<1> DEFINE fr == FramesOf(first, w)
<1>1. w \in Seq(FrameSet) /\ \A i \in 1 .. Len(w) : w[i].kind = "request" => Len(w[i].evs) = 1
  BY DEF WireGood
<1>2. CASE first /\ w # <<>>
  <2>1. fr = Tail(w) BY <1>2 DEF FramesOf
  <2>2. /\ Tail(w) \in Seq(FrameSet) /\ Len(Tail(w)) = Len(w) - 1 /\ Len(w) \in Nat
        /\ \A i \in 1 .. Len(w) - 1 : Tail(w)[i] = w[i + 1]
    BY <1>1, <1>2, TailParts
  <2>3. \A i \in 1 .. Len(w) - 1 : i + 1 \in 1 .. Len(w) BY <2>2
  <2>4. ASSUME NEW i \in 1 .. Len(fr) PROVE fr[i].kind = "request" /\ Len(fr[i].evs) = 1
    <3>1. i \in 1 .. Len(w) - 1 /\ i + 1 \in 1 .. Len(w) BY <2>1, <2>2, <2>3
    <3>2. fr[i] = w[i + 1] BY <2>1, <2>2, <3>1
    <3> QED BY <1>1, <3>1, <3>2
  <2> QED BY <2>1, <2>2, <2>4 DEF Requested
<1>3. CASE ~(first /\ w # <<>>)
  <2>1. fr = w BY <1>3 DEF FramesOf
  <2> QED BY <2>1, <1>1 DEF Requested
<1> QED BY <1>2, <1>3

(* An open subscription's queue is a sequence of events.                   *)
LEMMA QueueFacts ==
  ASSUME IInv, Open
  PROVE  /\ Requested(Frames) /\ Queue \in Seq(Event) /\ Len(Queue) \in Nat
         /\ feed.pc \in {"connecting", "reading"} /\ Base \in Flights
         /\ srv.pc \in {"subscribed", "snapshot", "streaming"}
         /\ srv.pc # "streaming" => wire = <<>> /\ feed.first
<1>1. /\ WireGood(wire) /\ feed.first \in BOOLEAN /\ srv.chan \in Seq(Event) /\ srv.inflight \in Flights
      /\ origin.inflight \in Flights /\ mirror.inflight \in Flights
  BY FieldFacts
<1>2. srv.pc \in {"subscribed", "snapshot", "streaming"} BY DEF IInv, Typed, ServerSet, Open
<1>3. /\ feed.pc \in {"connecting", "reading"}
      /\ srv.pc \in {"subscribed", "snapshot"} => wire = <<>> /\ feed.first
      /\ srv.pc = "streaming" /\ feed.first => wire # <<>> /\ Head(wire).kind = "snapshot"
      /\ srv.pc = "streaming" => \A i \in 1 .. Len(Frames) : Frames[i].kind = "request"
  BY DEF IInv, Framed
<1>4. \A i \in 1 .. Len(Frames) : Frames[i].kind = "request"
  <2>1. CASE srv.pc = "streaming" BY <2>1, <1>3
  <2>2. CASE srv.pc # "streaming"
    <3>1. Frames = <<>> BY <2>2, <1>2, <1>3 DEF Frames, FramesOf
    <3>2. Len(<<>>) = 0 /\ 1 .. 0 = {} BY EmptySeq
    <3> QED BY <3>1, <3>2
  <2> QED BY <2>1, <2>2
<1>5. Requested(Frames) BY <1>1, <1>4, FramesRequested DEF Frames
<1>6. Queue \in Seq(Event) BY <1>1, <1>5, QueueIs DEF Queue
<1>7. Len(Queue) \in Nat BY <1>6, SeqParts
<1>8. Base \in Flights
  <2>1. CASE srv.pc = "streaming" /\ feed.first
    <3>1. wire \in Seq(FrameSet) /\ wire # <<>> BY <2>1, <1>1, <1>3 DEF WireGood
    <3>2. Head(wire) \in FrameSet BY <3>1, TailParts
    <3>3. Base = Head(wire).inflight BY <2>1 DEF Base
    <3> QED BY <3>2, <3>3 DEF FrameSet
  <2>2. CASE srv.pc = "streaming" /\ ~feed.first BY <2>2, <1>1 DEF Base
  <2>3. CASE srv.pc = "snapshot" BY <2>3, <1>1 DEF Base
  <2>4. CASE srv.pc = "subscribed" BY <2>4, <1>1 DEF Base
  <2> QED BY <2>1, <2>2, <2>3, <2>4, <1>2
<1> QED BY <1>2, <1>3, <1>5, <1>6, <1>7, <1>8

(* What an open subscription has dropped nothing promises.                 *)
LEMMA StreamFacts ==
  ASSUME IInv, Open, ~srv.dropped
  PROVE  /\ Flow(Queue, Base, origin.inflight, log)
         /\ Unread \in 0 .. Len(log) /\ Unread + Len(Queue) = Len(log)
         /\ srv.pc = "streaming" /\ feed.first => SnapshotGood(Head(wire).evs, log, Unread)
         /\ srv.pc = "streaming" /\ ~feed.first => Mirrors(mirror, log, Unread)
<1>1. /\ Flow(Queue, Base, origin.inflight, log)
      /\ srv.pc = "streaming" =>
           IF feed.first THEN SnapshotGood(Head(wire).evs, log, Unread) ELSE Mirrors(mirror, log, Unread)
  BY DEF IInv, StreamGood
<1>2. Len(Queue) <= Len(log) BY <1>1 DEF Flow, EndOf
<1>3. Len(Queue) \in Nat /\ Len(log) \in Nat BY QueueFacts, FieldFacts
<1>4. Unread \in 0 .. Len(log) /\ Unread + Len(Queue) = Len(log) BY <1>2, <1>3 DEF Unread
<1> QED BY <1>1, <1>4

(* Without a subscription there is nothing to promise.                     *)
LEMMA ClosedGood ==
  ASSUME srv'.pc = "none"
  PROVE  Framed' /\ StreamGood'
BY DEF Framed, StreamGood, Open

LEMMA NotReading ==
  ASSUME IInv, feed.pc \notin {"connecting", "reading"}
  PROVE  srv.pc = "none"
BY DEF IInv, Framed, Open

-----------------------------------------------------------------------------
(* Initially.                                                              *)
LEMMA EmptyServer == NoServer \in ServerSet /\ NoServer.pc = "none" /\ NoServer.chan = <<>> /\ Len(NoServer.chan) = 0
                     /\ NoServer.dropped = FALSE
<1>1. <<>> \in Seq(Event) /\ Len(<<>>) = 0 BY EmptySeq
<1>2. NoServer.chan = <<>> /\ NoServer.pc = "none" /\ NoServer.dropped = FALSE BY DEF NoServer
<1> QED BY <1>1, <1>2, NoFlights DEF NoServer, ServerSet

LEMMA EmptyWire == WireGood(<<>>)
<1>1. <<>> \in Seq(FrameSet) /\ Len(<<>>) = 0 /\ 1 .. 0 = {} BY EmptySeq
<1> QED BY <1>1 DEF WireGood

LEMMA EmptyOrigin == LogGood(<<>>) /\ Holds(NoBroker, <<>>) /\ LatestShown(NoBroker.inflight, <<>>)
<1>1. <<>> \in Seq(Event) /\ Len(<<>>) = 0 /\ 1 .. 0 = {} BY EmptySeq
<1> QED BY <1>1, CapIs, EmptyBroker DEF LogGood, LatestShown

LEMMA InitInv == Init => IInv
<1> SUFFICES ASSUME Init PROVE IInv OBVIOUS
<1>1. /\ origin = NoBroker /\ log = <<>> /\ srv = NoServer /\ wire = <<>> /\ stalled = FALSE
      /\ feed = [pc |-> "dial", first |-> TRUE, connected |-> FALSE] /\ mirror = NoBroker
      /\ self \in BOOLEAN /\ faults = 0
  BY DEF Init
<1>2. feed \in FeedSet BY <1>1 DEF FeedSet
<1>3. 0 \in 0 .. MaxFaults /\ 0 <= Buf BY CapIs
<1>4. Typed BY <1>1, <1>2, <1>3, EmptyBroker, EmptyServer, EmptyWire DEF Typed
<1>5. OriginGood BY <1>1, EmptyOrigin DEF OriginGood
<1>6. Framed /\ StreamGood BY <1>1, EmptyServer DEF Framed, StreamGood, Open
<1>7. DownShowsNothing BY <1>1, EmptyBroker DEF DownShowsNothing
<1> QED BY <1>4, <1>5, <1>6, <1>7 DEF IInv

-----------------------------------------------------------------------------
(* The peer serves a request.                                              *)
LEMMA RequestInv ==
  ASSUME IInv, NEW id \in Ids, NEW type \in {"started", "finished"}, RequestEvent(id, type)
  PROVE  IInv'
<1> DEFINE e == [seq |-> Len(log) + 1, type |-> type, id |-> id]
<1>1. /\ Len(log) < MaxEvents /\ origin' = Publish(origin, e) /\ log' = Append(log, e)
      /\ srv' = Deliver(srv, e)
      /\ wire' = wire /\ stalled' = stalled /\ feed' = feed /\ mirror' = mirror /\ self' = self
      /\ faults' = faults
  BY DEF RequestEvent
<1>2. /\ log \in Seq(Event) /\ Len(log) \in Nat /\ origin \in BrokerSet /\ origin.inflight \in Flights
      /\ srv \in ServerSet /\ srv.chan \in Seq(Event) /\ Len(srv.chan) \in Nat /\ Len(srv.chan) <= Buf
      /\ srv.dropped \in BOOLEAN
  BY FieldFacts
<1>3. e \in Event /\ e.seq = Len(log) + 1 BY <1>1, <1>2, CapIs DEF Event
<1> HIDE DEF e
<1>4. /\ Publish(origin, e) \in BrokerSet /\ Publish(origin, e).inflight = After(origin.inflight, e)
      /\ Holds(Publish(origin, e), Append(log, e))
  BY <1>2, <1>3, PublishIs DEF IInv, OriginGood
<1>5. LogGood(log')
  <2>1. /\ Append(log, e) \in Seq(Event) /\ Len(Append(log, e)) = Len(log) + 1
        /\ Append(log, e)[Len(log) + 1] = e /\ \A i \in 1 .. Len(log) : Append(log, e)[i] = log[i]
    BY <1>2, <1>3, AppendParts
  <2>2. \A i \in 1 .. Len(log) : log[i].seq = i BY DEF IInv, OriginGood, LogGood
  <2>3. \A i \in 1 .. Len(log) + 1 : i \in 1 .. Len(log) \/ i = Len(log) + 1 BY <1>2
  <2>4. \A i \in 1 .. Len(log) + 1 : Append(log, e)[i].seq = i BY <1>3, <2>1, <2>2, <2>3
  <2>5. Len(log) + 1 <= MaxEvents BY <1>1, <1>2, CapIs
  <2> QED BY <1>1, <2>1, <2>4, <2>5 DEF LogGood
<1>6. OriginGood'
  <2>1. LatestShown(After(origin.inflight, e), Append(log, e))
    BY <1>2, <1>3, LatestAfter DEF IInv, OriginGood
  <2> QED BY <1>1, <1>4, <1>5, <2>1 DEF OriginGood
<1>7. /\ srv' \in ServerSet /\ Len(srv'.chan) <= Buf /\ srv'.pc = srv.pc /\ srv'.inflight = srv.inflight
      /\ ~srv'.dropped /\ srv.pc # "none" => srv'.chan = Append(srv.chan, e) /\ ~srv.dropped
  <2>1. CASE srv.pc = "none" BY <2>1, <1>1, <1>2 DEF Deliver
  <2>2. CASE srv.pc # "none" /\ Len(srv.chan) < Buf
    <3>1. srv' = [srv EXCEPT !.chan = Append(srv.chan, e)] BY <2>2, <1>1 DEF Deliver
    <3>2. Append(srv.chan, e) \in Seq(Event) /\ Len(Append(srv.chan, e)) = Len(srv.chan) + 1
      BY <1>2, <1>3, AppendParts
    <3>3. Len(srv.chan) + 1 <= Buf BY <2>2, <1>2, CapIs
    <3> QED BY <3>1, <3>2, <3>3, <1>2 DEF ServerSet
  <2>3. CASE srv.pc # "none" /\ ~(Len(srv.chan) < Buf)
    <3>1. srv' = [srv EXCEPT !.dropped = TRUE] BY <2>3, <1>1 DEF Deliver
    <3> QED BY <3>1, <1>2 DEF ServerSet
  <2> QED BY <2>1, <2>2, <2>3
<1>8. Typed' BY <1>1, <1>4, <1>7 DEF IInv, Typed
<1>9. Framed' BY <1>1, <1>7 DEF IInv, Framed, Open, Frames
<1>10. DownShowsNothing' BY <1>1 DEF IInv, DownShowsNothing
<1>11. StreamGood'
  <2> SUFFICES ASSUME Open', ~srv'.dropped
               PROVE  /\ Flow(Queue', Base', origin'.inflight, log')
                      /\ srv'.pc = "streaming" =>
                           IF feed'.first THEN SnapshotGood(Head(wire').evs, log', Unread')
                           ELSE Mirrors(mirror', log', Unread')
    BY DEF StreamGood
  <2>1. Open /\ ~srv.dropped /\ srv'.chan = Append(srv.chan, e) BY <1>7 DEF Open
  <2>2. /\ Requested(Frames) /\ Queue \in Seq(Event) /\ Len(Queue) \in Nat /\ Base \in Flights
        /\ srv.pc \in {"subscribed", "snapshot", "streaming"}
    BY <2>1, QueueFacts
  <2>3. /\ Flow(Queue, Base, origin.inflight, log) /\ Unread \in 0 .. Len(log)
        /\ srv.pc = "streaming" /\ feed.first => SnapshotGood(Head(wire).evs, log, Unread)
        /\ srv.pc = "streaming" /\ ~feed.first => Mirrors(mirror, log, Unread)
    BY <2>1, StreamFacts
  <2>4. Queue' = Append(Queue, e)
    <3>1. Frames' = Frames BY <1>1 DEF Frames
    <3> QED BY <2>1, <2>2, <3>1, <1>2, <1>3, QueueAppend DEF Queue
  <2>5. Unread' = Unread
    <3>1. Len(Append(Queue, e)) = Len(Queue) + 1 /\ Len(Append(log, e)) = Len(log) + 1
      BY <1>2, <1>3, <2>2, AppendParts
    <3> QED BY <1>1, <1>2, <2>2, <2>4, <3>1 DEF Unread
  <2>6. Flow(Queue', Base', origin'.inflight, log')
    <3>1. CASE srv.pc = "subscribed"
      <4>1. Base' = origin'.inflight BY <3>1, <1>7 DEF Base
      <4>2. EndOf(Queue', log') BY <1>1, <1>2, <1>3, <2>2, <2>3, <2>4, EndGrows DEF Flow
      <4> QED BY <4>1, <4>2, SameSelf DEF Flow, Agrees
    <3>2. CASE srv.pc # "subscribed"
      <4>1. Base' = Base BY <3>2, <1>1, <1>7 DEF Base
      <4>2. Flow(Append(Queue, e), Base, After(origin.inflight, e), Append(log, e))
        BY <1>2, <1>3, <2>2, <2>3, FlowGrows
      <4> QED BY <4>1, <4>2, <1>1, <1>4, <2>4
    <3> QED BY <3>1, <3>2
  <2>7. CASE srv.pc = "streaming" /\ feed.first
    <3>1. SnapshotGood(Head(wire).evs, Append(log, e), Unread)
      <4>1. wire \in Seq(FrameSet) /\ wire # <<>>
        BY <2>7, <2>1, FieldFacts DEF IInv, Framed, WireGood
      <4>3. Head(wire) \in FrameSet BY <4>1, TailParts
      <4>2. Head(wire).evs \in Seq(Event) BY <4>3 DEF FrameSet
      <4> QED BY <4>2, <2>3, <2>7, <1>2, <1>3, SnapshotGrows
    <3> QED BY <3>1, <2>5, <2>6, <2>7, <1>1
  <2>8. CASE srv.pc = "streaming" /\ ~feed.first
    <3>1. PICK M \in Seq(Event) : Holds(mirror, M) /\ Runs(M, log, Unread) BY <2>3, <2>8 DEF Mirrors
    <3>2. Runs(M, Append(log, e), Unread) BY <3>1, <2>3, <1>2, <1>3, RunsGrow
    <3>3. Mirrors(mirror, Append(log, e), Unread) BY <3>1, <3>2 DEF Mirrors
    <3> QED BY <3>3, <2>5, <2>6, <2>8, <1>1
  <2>9. CASE srv.pc # "streaming" BY <2>9, <2>6, <1>7
  <2> QED BY <2>7, <2>8, <2>9
<1> QED BY <1>6, <1>8, <1>9, <1>10, <1>11 DEF IInv

-----------------------------------------------------------------------------
(* The handler's steps.                                                    *)
LEMMA SnapshotFrame ==
  ASSUME NEW s \in Seq(Event), NEW f \in Flights, NEW x, x = Frame("snapshot", s, f)
  PROVE  /\ x.kind = "snapshot" /\ x.evs = s /\ x.inflight = f
         /\ WireGood(Append(<<>>, x)) /\ Append(<<>>, x) # <<>> /\ Head(Append(<<>>, x)) = x
         /\ Tail(Append(<<>>, x)) = <<>>
<1>1. x = [kind |-> "snapshot", evs |-> s, inflight |-> f] BY DEF Frame
<1>2. x \in FrameSet /\ x.kind = "snapshot" /\ x.evs = s /\ x.inflight = f BY <1>1 DEF FrameSet
<1>3. <<>> \in Seq(FrameSet) /\ Len(<<>>) = 0 BY EmptySeq
<1> DEFINE w == Append(<<>>, x)
<1>4. w \in Seq(FrameSet) /\ Len(w) = 0 + 1 /\ w[0 + 1] = x BY <1>2, <1>3, AppendParts
<1>5. w # <<>> BY <1>2, <1>3, AppendProperties
<1>6. Head(w) = x /\ Tail(w) = <<>> BY <1>3, HeadTailAppend
<1> HIDE DEF w
<1>7. \A i \in 1 .. Len(w) : i = 1 BY <1>4
<1>8. WireGood(w) BY <1>2, <1>4, <1>7 DEF WireGood
<1> QED BY <1>2, <1>5, <1>6, <1>8 DEF w

LEMMA TakeInFlightInv == IInv /\ TakeInFlight => IInv'
<1> SUFFICES ASSUME IInv, TakeInFlight PROVE IInv' OBVIOUS
<1>1. /\ srv.pc = "subscribed"
      /\ srv' = [srv EXCEPT !.pc = "snapshot", !.inflight = origin.inflight]
      /\ origin' = origin /\ log' = log /\ wire' = wire /\ stalled' = stalled /\ feed' = feed
      /\ mirror' = mirror /\ self' = self /\ faults' = faults
  BY DEF TakeInFlight
<1>2. srv \in ServerSet /\ origin.inflight \in Flights BY FieldFacts
<1>3. /\ srv' \in ServerSet /\ srv'.pc = "snapshot" /\ srv'.inflight = origin.inflight
      /\ srv'.chan = srv.chan /\ srv'.dropped = srv.dropped
  BY <1>1, <1>2 DEF ServerSet
<1>4. Open BY <1>1 DEF Open
<1>5. Typed' /\ OriginGood' /\ DownShowsNothing'
  BY <1>1, <1>3 DEF IInv, Typed, OriginGood, DownShowsNothing
<1>6. Framed' BY <1>1, <1>3, <1>4 DEF IInv, Framed, Open
<1>7. StreamGood'
  <2> SUFFICES ASSUME ~srv'.dropped PROVE Flow(Queue', Base', origin'.inflight, log')
    BY <1>3 DEF StreamGood
  <2>1. Flow(Queue, Base, origin.inflight, log) BY <1>3, <1>4, StreamFacts
  <2>2. Queue' = Queue BY <1>1, <1>3 DEF Queue, Frames
  <2>3. Base' = origin.inflight /\ Base = origin.inflight BY <1>1, <1>3 DEF Base
  <2> QED BY <1>1, <2>1, <2>2, <2>3
<1> QED BY <1>5, <1>6, <1>7 DEF IInv

LEMMA SendSnapshotInv == IInv /\ SendSnapshot => IInv'
<1> SUFFICES ASSUME IInv, SendSnapshot PROVE IInv' OBVIOUS
<1> DEFINE x == Frame("snapshot", Replay(origin), srv.inflight)
<1>1. /\ srv.pc = "snapshot" /\ wire' = Append(wire, x)
      /\ srv' = [srv EXCEPT !.pc = "streaming", !.inflight = <<>>]
      /\ origin' = origin /\ log' = log /\ stalled' = stalled /\ feed' = feed
      /\ mirror' = mirror /\ self' = self /\ faults' = faults
  BY DEF SendSnapshot
<1>2. /\ srv \in ServerSet /\ srv.inflight \in Flights /\ origin \in BrokerSet /\ log \in Seq(Event)
      /\ Len(log) \in Nat
  BY FieldFacts
<1>3. /\ srv' \in ServerSet /\ srv'.pc = "streaming" /\ srv'.chan = srv.chan
      /\ srv'.dropped = srv.dropped
  BY <1>1, <1>2, NoFlights DEF ServerSet
<1>4. Open BY <1>1 DEF Open
<1>5. wire = <<>> /\ feed.first = TRUE /\ feed.pc \in {"connecting", "reading"}
  BY <1>1, <1>4, QueueFacts, FieldFacts
<1>6. Replay(origin) \in Seq(Event) /\ NewestOf(Replay(origin), log, Len(log))
  BY <1>2, ReplayNewest DEF IInv, OriginGood
<1>7. /\ x.kind = "snapshot" /\ x.evs = Replay(origin) /\ x.inflight = srv.inflight
      /\ WireGood(wire') /\ wire' # <<>> /\ Head(wire') = x /\ Tail(wire') = <<>>
  BY <1>1, <1>2, <1>5, <1>6, SnapshotFrame
<1> HIDE DEF x
<1>8. Typed' /\ OriginGood' /\ DownShowsNothing'
  BY <1>1, <1>3, <1>7 DEF IInv, Typed, OriginGood, DownShowsNothing
<1>9. Frames = <<>> /\ Frames' = <<>>
  BY <1>1, <1>5, <1>7 DEF Frames, FramesOf
<1>10. Framed'
  <2>1. \A i \in 1 .. Len(<<>>) : FALSE
    <3>1. Len(<<>>) = 0 /\ 1 .. 0 = {} BY EmptySeq
    <3> QED BY <3>1
  <2> QED BY <1>1, <1>3, <1>5, <1>7, <1>9, <2>1 DEF Framed
<1>11. StreamGood'
  <2> SUFFICES ASSUME ~srv'.dropped
               PROVE  /\ Flow(Queue', Base', origin'.inflight, log')
                      /\ SnapshotGood(Head(wire').evs, log', Unread')
    BY <1>1, <1>3, <1>5 DEF StreamGood
  <2>1. /\ Flow(Queue, Base, origin.inflight, log) /\ Unread \in 0 .. Len(log)
    BY <1>3, <1>4, StreamFacts
  <2>2. Queue' = Queue BY <1>3, <1>9 DEF Queue
  <2>3. Base' = srv.inflight BY <1>1, <1>3, <1>5, <1>7 DEF Base
  <2>4. Base = srv.inflight BY <1>1 DEF Base
  <2>5. Unread' = Unread BY <1>1, <2>2 DEF Unread
  <2>6. Len(log) \in 0 .. Len(log) /\ Unread <= Len(log) BY <1>2, <2>1
  <2>7. SnapshotGood(Replay(origin), log, Unread) BY <1>6, <2>6 DEF SnapshotGood
  <2> QED BY <1>1, <1>7, <2>1, <2>2, <2>3, <2>4, <2>5, <2>7
<1> QED BY <1>8, <1>10, <1>11 DEF IInv

LEMMA WireAppend ==
  ASSUME NEW w, WireGood(w), NEW x \in FrameSet, Len(x.evs) = 1
  PROVE  WireGood(Append(w, x))
<1> DEFINE n == Len(w)
           v == Append(w, x)
<1>1. w \in Seq(FrameSet) BY DEF WireGood
<1>2. v \in Seq(FrameSet) /\ n \in Nat /\ Len(v) = n + 1 /\ v[n + 1] = x /\ \A i \in 1 .. n : v[i] = w[i]
  BY <1>1, AppendParts
<1>3. \A i \in 1 .. n : w[i].kind = "request" => Len(w[i].evs) = 1 BY DEF WireGood
<1> HIDE DEF n, v
<1>4. \A i \in 1 .. n + 1 : i \in 1 .. n \/ i = n + 1 BY <1>2
<1>5. WireGood(v) BY <1>2, <1>3, <1>4 DEF WireGood
<1> QED BY <1>5 DEF v

LEMMA WireTail ==
  ASSUME NEW w, WireGood(w), w # <<>>
  PROVE  WireGood(Tail(w))
<1> DEFINE n == Len(w)
           v == Tail(w)
<1>1. w \in Seq(FrameSet) BY DEF WireGood
<1>2. v \in Seq(FrameSet) /\ n \in Nat /\ Len(v) = n - 1 /\ \A i \in 1 .. n - 1 : v[i] = w[i + 1]
  BY <1>1, TailParts
<1>3. \A i \in 1 .. n : w[i].kind = "request" => Len(w[i].evs) = 1 BY DEF WireGood
<1> HIDE DEF n, v
<1>4. \A i \in 1 .. n - 1 : i + 1 \in 1 .. n BY <1>2
<1>5. WireGood(v) BY <1>2, <1>3, <1>4 DEF WireGood
<1> QED BY <1>5 DEF v

LEMMA ForwardInv == IInv /\ Forward => IInv'
<1> SUFFICES ASSUME IInv, Forward PROVE IInv' OBVIOUS
<1> DEFINE x == Frame("request", <<Head(srv.chan)>>, <<>>)
<1>1. /\ srv.pc = "streaming" /\ srv.chan # <<>> /\ wire' = Append(wire, x)
      /\ srv' = [srv EXCEPT !.chan = Tail(srv.chan)]
      /\ origin' = origin /\ log' = log /\ stalled' = stalled /\ feed' = feed
      /\ mirror' = mirror /\ self' = self /\ faults' = faults
  BY DEF Forward
<1>2. /\ srv \in ServerSet /\ srv.chan \in Seq(Event) /\ WireGood(wire) /\ feed.first \in BOOLEAN
      /\ Len(srv.chan) \in Nat /\ Len(srv.chan) <= Buf
  BY FieldFacts
<1>3. /\ Head(srv.chan) \in Event /\ Tail(srv.chan) \in Seq(Event)
      /\ Len(Tail(srv.chan)) = Len(srv.chan) - 1
  BY <1>1, <1>2, TailParts
<1>4. Len(Tail(srv.chan)) <= Buf BY <1>2, <1>3, CapIs
<1>5. /\ srv' \in ServerSet /\ srv'.pc = "streaming" /\ srv'.chan = Tail(srv.chan)
      /\ srv'.dropped = srv.dropped
  BY <1>1, <1>2, <1>3 DEF ServerSet
<1>6. Open BY <1>1 DEF Open
<1>7. Requested(Frames) /\ feed.pc \in {"connecting", "reading"} BY <1>6, QueueFacts
<1>8. /\ x \in FrameSet /\ x.kind = "request" /\ Len(x.evs) = 1
      /\ Requested(Append(Frames, x))
  BY <1>3, <1>7, ForwardFrame
<1>9. QueueOf(Append(Frames, x), Tail(srv.chan)) = Queue
  BY <1>1, <1>2, <1>7, QueueForward DEF Queue
<1> HIDE DEF x
<1>10. wire \in Seq(FrameSet) BY <1>2 DEF WireGood
<1>11. feed.first => wire # <<>> /\ Head(wire).kind = "snapshot" BY <1>1, <1>6 DEF IInv, Framed
<1>12. /\ wire' # <<>> /\ feed.first => Head(wire') = Head(wire) /\ Tail(wire') = Append(Tail(wire), x)
  BY <1>1, <1>8, <1>10, <1>11, HeadTailAppend
<1>13. wire' # <<>> BY <1>1, <1>8, <1>10, AppendProperties
<1>14. Frames' = Append(Frames, x)
  <2>1. CASE feed.first BY <2>1, <1>1, <1>11, <1>12, <1>13 DEF Frames, FramesOf
  <2>2. CASE ~feed.first BY <2>2, <1>1 DEF Frames, FramesOf
  <2> QED BY <2>1, <2>2
<1>15. WireGood(wire') BY <1>1, <1>2, <1>8, WireAppend
<1>16. Typed' /\ OriginGood' /\ DownShowsNothing'
  BY <1>1, <1>4, <1>5, <1>15 DEF IInv, Typed, OriginGood, DownShowsNothing
<1>17. Framed'
  <2>1. \A i \in 1 .. Len(Frames') : Frames'[i].kind = "request" BY <1>8, <1>14 DEF Requested
  <2> QED BY <1>1, <1>5, <1>7, <1>11, <1>12, <1>13, <2>1 DEF Framed
<1>18. StreamGood'
  <2>1. Queue' = Queue BY <1>5, <1>9, <1>14 DEF Queue
  <2>2. Base' = Base BY <1>1, <1>5, <1>11, <1>12, <1>13 DEF Base
  <2>3. Unread' = Unread BY <1>1, <2>1 DEF Unread
  <2>4. feed.first => Head(wire') = Head(wire) BY <1>11, <1>12, <1>13
  <2> QED BY <1>1, <1>5, <1>6, <2>1, <2>2, <2>3, <2>4 DEF IInv, StreamGood
<1> QED BY <1>16, <1>17, <1>18 DEF IInv

-----------------------------------------------------------------------------
(* The feed's steps.                                                       *)
LEMMA ParkInv == IInv /\ Park => IInv'
<1> SUFFICES ASSUME IInv, Park PROVE IInv' OBVIOUS
<1>1. /\ feed.pc = "dial" /\ feed' = [feed EXCEPT !.pc = "parked"]
      /\ origin' = origin /\ log' = log /\ srv' = srv /\ wire' = wire /\ stalled' = stalled
      /\ mirror' = mirror /\ self' = self /\ faults' = faults
  BY DEF Park
<1>2. feed' \in FeedSet /\ feed'.pc = "parked" BY <1>1, FieldFacts DEF FeedSet
<1>3. srv'.pc = "none" BY <1>1, NotReading
<1>4. Typed' /\ OriginGood' BY <1>1, <1>2 DEF IInv, Typed, OriginGood
<1>5. DownShowsNothing' BY <1>1 DEF IInv, DownShowsNothing
<1> QED BY <1>3, <1>4, <1>5, ClosedGood DEF IInv

LEMMA ConnectInv == IInv /\ Connect => IInv'
<1> SUFFICES ASSUME IInv, Connect PROVE IInv' OBVIOUS
<1>1. /\ feed.pc = "dial" /\ feed' = [feed EXCEPT !.pc = "connecting", !.first = TRUE]
      /\ srv' = [NoServer EXCEPT !.pc = "subscribed"] /\ wire' = <<>> /\ stalled' = FALSE
      /\ origin' = origin /\ log' = log /\ mirror' = mirror /\ self' = self /\ faults' = faults
  BY DEF Connect
<1>2. feed' \in FeedSet /\ feed'.pc = "connecting" /\ feed'.first = TRUE
  BY <1>1, FieldFacts DEF FeedSet
<1>3. /\ srv' \in ServerSet /\ srv'.pc = "subscribed" /\ srv'.chan = <<>>
  BY <1>1, EmptyServer DEF ServerSet
<1>4. Len(srv'.chan) <= Buf BY <1>3, EmptySeq, CapIs
<1>5. Typed' /\ OriginGood'
  BY <1>1, <1>2, <1>3, <1>4, EmptyWire DEF IInv, Typed, OriginGood
<1>6. DownShowsNothing' BY <1>1 DEF IInv, DownShowsNothing
<1>7. Framed' BY <1>1, <1>2, <1>3 DEF Framed
<1>8. StreamGood'
  <2> SUFFICES Flow(Queue', Base', origin'.inflight, log') BY <1>3 DEF StreamGood
  <2>1. Frames' = <<>> BY <1>1 DEF Frames, FramesOf
  <2>2. Queue' \in Seq(Event) /\ Len(Queue') = 0
    <3>1. <<>> \in Seq(FrameSet) /\ <<>> \in Seq(Event) /\ Len(<<>>) = 0 /\ 1 .. 0 = {} BY EmptySeq
    <3>2. Requested(<<>>) BY <3>1 DEF Requested
    <3>3. QueueOf(<<>>, <<>>) \in Seq(Event) /\ Len(QueueOf(<<>>, <<>>)) = Len(<<>>) + Len(<<>>)
      BY <3>1, <3>2, QueueIs
    <3> QED BY <1>3, <2>1, <3>1, <3>3 DEF Queue
  <2>3. Base' = origin'.inflight BY <1>3 DEF Base
  <2>4. EndOf(Queue', log')
    <3>1. 0 <= Len(log') BY <1>1, FieldFacts
    <3>2. 1 .. 0 = {} OBVIOUS
    <3> QED BY <2>2, <3>1, <3>2 DEF EndOf
  <2> QED BY <2>3, <2>4, SameSelf DEF Flow, Agrees
<1> QED BY <1>5, <1>6, <1>7, <1>8 DEF IInv

LEMMA OpenedInv == IInv /\ Opened => IInv'
<1> SUFFICES ASSUME IInv, Opened PROVE IInv' OBVIOUS
<1>1. /\ feed.pc = "connecting" /\ feed' = [feed EXCEPT !.pc = "reading"]
      /\ origin' = origin /\ log' = log /\ srv' = srv /\ wire' = wire /\ stalled' = stalled
      /\ mirror' = mirror /\ self' = self /\ faults' = faults
  BY DEF Opened
<1>2. feed' \in FeedSet /\ feed'.pc = "reading" /\ feed'.first = feed.first
  BY <1>1, FieldFacts DEF FeedSet
<1>3. Typed' /\ OriginGood' BY <1>1, <1>2 DEF IInv, Typed, OriginGood
<1>4. DownShowsNothing' BY <1>1 DEF IInv, DownShowsNothing
<1>5. Frames' = Frames BY <1>1, <1>2 DEF Frames
<1>6. Framed' BY <1>1, <1>2, <1>5 DEF IInv, Framed, Open
<1>7. Queue' = Queue BY <1>1, <1>5 DEF Queue
<1>8. StreamGood' BY <1>1, <1>2, <1>7 DEF IInv, StreamGood, Open, Base, Unread
<1> QED BY <1>3, <1>4, <1>6, <1>8 DEF IInv

(* What is read is a frame, and folding it in keeps the mirror a broker.   *)
LEMMA FrameRead ==
  ASSUME IInv, wire # <<>>, NEW f, f = Head(wire)
  PROVE  /\ f \in FrameSet /\ f.evs \in Seq(Event) /\ f.inflight \in Flights
         /\ f.kind = "request" => f.evs[1] \in Event
         /\ WireGood(Tail(wire))
<1>1. WireGood(wire) BY FieldFacts
<1>2. wire \in Seq(FrameSet) BY <1>1 DEF WireGood
<1>3. f = wire[1] /\ f \in FrameSet /\ Len(wire) \in Nat /\ Len(wire) >= 1 BY <1>2, TailParts
<1>4. f.evs \in Seq(Event) /\ f.inflight \in Flights BY <1>3 DEF FrameSet
<1>5. 1 \in 1 .. Len(wire) BY <1>3
<1>6. f.kind = "request" => Len(f.evs) = 1 BY <1>1, <1>3, <1>5 DEF WireGood
<1> DEFINE v == f.evs
<1>7. v \in Seq(Event) /\ (f.kind = "request" => Len(v) = 1) BY <1>4, <1>6
<1> HIDE DEF v
<1>8. f.kind = "request" => v[1] \in Event
  <2>1. f.kind = "request" => 1 \in 1 .. Len(v) BY <1>7
  <2> QED BY <1>7, <2>1, SeqParts
<1>9. WireGood(Tail(wire)) BY <1>1, WireTail
<1> QED BY <1>3, <1>4, <1>8, <1>9 DEF v

LEMMA ReadInv == IInv /\ Read => IInv'
<1> SUFFICES ASSUME IInv, Read PROVE IInv' OBVIOUS
<1> DEFINE f == Head(wire)
<1>1. /\ feed.pc = "reading" /\ wire # <<>> /\ wire' = Tail(wire)
      /\ mirror' = IF f.kind = "snapshot" THEN Reset(mirror, f.evs, f.inflight)
                                          ELSE Publish(mirror, f.evs[1])
      /\ feed' = [feed EXCEPT !.first = FALSE, !.connected = TRUE]
      /\ origin' = origin /\ log' = log /\ srv' = srv /\ stalled' = stalled
      /\ self' = self /\ faults' = faults
  BY DEF Read
<1>2. f = Head(wire) OBVIOUS
<1> HIDE DEF f
<1>3. /\ f \in FrameSet /\ f.evs \in Seq(Event) /\ f.inflight \in Flights
      /\ f.kind = "request" => f.evs[1] \in Event
      /\ WireGood(Tail(wire))
  BY <1>1, <1>2, FrameRead
<1>4. f.kind \in {"snapshot", "request"} BY <1>3 DEF FrameSet
<1>5. /\ mirror \in BrokerSet /\ mirror.inflight \in Flights /\ feed \in FeedSet /\ feed.first \in BOOLEAN
      /\ log \in Seq(Event) /\ Len(log) \in Nat /\ srv.chan \in Seq(Event)
  BY FieldFacts
<1>6. mirror' \in BrokerSet
  <2>1. CASE f.kind = "snapshot" BY <2>1, <1>1, <1>3, ResetTyped
  <2>2. CASE f.kind = "request" BY <2>2, <1>1, <1>3, <1>5, PublishIs
  <2> QED BY <2>1, <2>2, <1>4
<1>7. feed' \in FeedSet /\ feed'.pc = "reading" /\ feed'.first = FALSE BY <1>1, <1>5 DEF FeedSet
<1>8. Typed' /\ OriginGood' /\ DownShowsNothing'
  BY <1>1, <1>3, <1>6, <1>7 DEF IInv, Typed, OriginGood, DownShowsNothing
<1>9. CASE srv.pc = "none" BY <1>1, <1>8, <1>9, ClosedGood DEF IInv
<1>10. CASE Open
  <2>1. /\ Requested(Frames) /\ Queue \in Seq(Event) /\ Len(Queue) \in Nat
        /\ srv.pc = "streaming"
    BY <1>1, <1>10, QueueFacts
  <2>2. CASE feed.first
    <3>1. f.kind = "snapshot" BY <1>2, <1>10, <2>1, <2>2 DEF IInv, Framed
    <3>2. Frames = Tail(wire) /\ Frames' = Tail(wire)
      BY <1>1, <1>7, <2>2 DEF Frames, FramesOf
    <3>3. Framed' BY <1>1, <1>7, <2>1, <3>2 DEF Framed, Requested
    <3>4. StreamGood'
      <4> SUFFICES ASSUME ~srv.dropped
                   PROVE  /\ Flow(Queue', Base', origin'.inflight, log')
                          /\ Mirrors(mirror', log', Unread')
        BY <1>1, <1>7 DEF StreamGood
      <4>1. Queue' = Queue BY <1>1, <3>2 DEF Queue
      <4>2. Unread' = Unread BY <1>1, <4>1 DEF Unread
      <4>3. /\ Flow(Queue, Base, origin.inflight, log) /\ Unread \in 0 .. Len(log)
            /\ SnapshotGood(f.evs, log, Unread)
        BY <1>2, <1>10, <2>1, <2>2, StreamFacts
      <4>4. Runs(f.evs, log, Unread) /\ Len(f.evs) <= Cap BY <1>3, <1>5, <4>3, RunsSnapshot
      <4>5. mirror'.inflight = f.inflight /\ Holds(mirror', f.evs)
        BY <1>1, <1>3, <3>1, <4>4, ResetHolds
      <4>6. Base' = Base BY <1>1, <1>2, <1>7, <2>1, <2>2, <4>5 DEF Base
      <4>7. Mirrors(mirror', log, Unread) BY <1>3, <4>4, <4>5 DEF Mirrors
      <4> QED BY <1>1, <4>1, <4>2, <4>3, <4>6, <4>7
    <3> QED BY <1>8, <3>3, <3>4 DEF IInv
  <2>3. CASE ~feed.first
    <3>1. Frames = wire /\ Frames' = Tail(wire) BY <1>1, <1>7, <2>3 DEF Frames, FramesOf
    <3>2. /\ Requested(Tail(wire)) /\ Queue # <<>>
          /\ QueueOf(Tail(wire), srv.chan) = Tail(Queue) /\ Head(Queue) = f.evs[1]
      BY <1>1, <1>2, <1>5, <2>1, <3>1, QueueRead DEF Queue
    <3>3. f.kind = "request"
      <4>1. wire \in Seq(FrameSet) /\ \A i \in 1 .. Len(wire) : wire[i].kind = "request"
        BY <2>1, <3>1 DEF Requested
      <4>2. f = wire[1] /\ Len(wire) \in Nat /\ Len(wire) >= 1 BY <1>1, <1>2, <4>1, TailParts
      <4>3. 1 \in 1 .. Len(wire) BY <4>2
      <4> QED BY <4>1, <4>2, <4>3
    <3>4. Framed' BY <1>1, <1>7, <2>1, <3>1, <3>2 DEF Framed, Requested
    <3>5. StreamGood'
      <4> SUFFICES ASSUME ~srv.dropped
                   PROVE  /\ Flow(Queue', Base', origin'.inflight, log')
                          /\ Mirrors(mirror', log', Unread')
        BY <1>1, <1>7 DEF StreamGood
      <4> DEFINE e == f.evs[1]
      <4>1. Queue' = Tail(Queue) BY <1>1, <3>1, <3>2 DEF Queue
      <4>2. /\ Flow(Queue, Base, origin.inflight, log) /\ Unread \in 0 .. Len(log)
            /\ Unread + Len(Queue) = Len(log) /\ Mirrors(mirror, log, Unread)
        BY <1>10, <2>1, <2>3, StreamFacts
      <4>3. e \in Event /\ Head(Queue) = e /\ mirror' = Publish(mirror, e) BY <1>1, <1>3, <3>2, <3>3
      <4> HIDE DEF e
      <4>4. /\ mirror'.inflight = After(mirror.inflight, e)
            /\ \A M \in Seq(Event) : Holds(mirror, M) => Holds(mirror', Append(M, e))
        BY <1>5, <4>3, PublishIs
      <4>5. Base = mirror.inflight /\ Base' = mirror'.inflight
        BY <1>1, <1>7, <2>1, <2>3 DEF Base
      <4>6. Flow(Tail(Queue), After(mirror.inflight, e), origin.inflight, log)
        <5>1. LatestShown(origin.inflight, log) BY DEF IInv, OriginGood
        <5> QED BY <5>1, <1>5, <2>1, <3>2, <4>2, <4>3, <4>5, FlowRead
      <4>7. Len(log) - Len(Queue) + 1 \in 1 .. Len(log) /\ e = log[Len(log) - Len(Queue) + 1]
        BY <1>5, <2>1, <3>2, <4>2, <4>3, EndRead DEF Flow
      <4>8. Unread + 1 \in 1 .. Len(log) /\ e = log[Unread + 1] BY <4>7 DEF Unread
      <4>9. Unread' = Unread + 1
        <5>1. Len(Tail(Queue)) = Len(Queue) - 1 BY <2>1, <3>2, TailParts
        <5>2. Len(Queue) \in Nat /\ Len(log) \in Nat BY <1>5, <2>1, SeqParts
        <5>3. Unread' = Len(log') - Len(Queue') /\ Unread = Len(log) - Len(Queue) BY DEF Unread
        <5>4. Unread' = Len(log) - (Len(Queue) - 1) BY <1>1, <4>1, <5>1, <5>3, Zenon
        <5> QED BY <5>2, <5>3, <5>4
      <4>10. PICK M \in Seq(Event) : Holds(mirror, M) /\ Runs(M, log, Unread) BY <4>2 DEF Mirrors
      <4>11. Unread + 1 <= Len(log) BY <1>5, <4>8
      <4>12. Runs(Append(M, e), log, Unread + 1)
        <5> DEFINE k == Unread
        <5>1. k \in 0 .. Len(log) /\ k + 1 <= Len(log) /\ Runs(M, log, k) /\ e = log[k + 1]
          BY <4>2, <4>8, <4>10, <4>11
        <5> HIDE DEF k
        <5>2. Runs(Append(M, log[k + 1]), log, k + 1) BY <1>5, <5>1, RunsRead
        <5> QED BY <5>1, <5>2 DEF k
      <4>13. Append(M, e) \in Seq(Event) BY <4>3, AppendParts
      <4>14. Mirrors(mirror', log, Unread + 1) BY <4>4, <4>10, <4>12, <4>13 DEF Mirrors
      <4> QED BY <1>1, <4>1, <4>4, <4>5, <4>6, <4>9, <4>14
    <3> QED BY <1>8, <3>4, <3>5 DEF IInv
  <2> QED BY <2>2, <2>3
<1> QED BY <1>9, <1>10 DEF Open

LEMMA EndedInv == IInv /\ Ended => IInv'
<1> SUFFICES ASSUME IInv, Ended PROVE IInv' OBVIOUS
<1>1. /\ srv.pc = "none" /\ feed' = [feed EXCEPT !.pc = "ended"] /\ wire' = <<>>
      /\ origin' = origin /\ log' = log /\ srv' = srv /\ stalled' = stalled
      /\ mirror' = mirror /\ self' = self /\ faults' = faults
  BY DEF Ended
<1>2. feed' \in FeedSet /\ feed'.pc = "ended" BY <1>1, FieldFacts DEF FeedSet
<1>3. Typed' /\ OriginGood' BY <1>1, <1>2, EmptyWire DEF IInv, Typed, OriginGood
<1>4. DownShowsNothing' BY <1>2 DEF DownShowsNothing
<1> QED BY <1>1, <1>3, <1>4, ClosedGood DEF IInv

LEMMA WatchdogInv == IInv /\ Watchdog => IInv'
<1> SUFFICES ASSUME IInv, Watchdog PROVE IInv' OBVIOUS
<1>1. /\ srv' = NoServer /\ feed' = [feed EXCEPT !.pc = "ended"] /\ wire' = <<>>
      /\ origin' = origin /\ log' = log /\ stalled' = stalled
      /\ mirror' = mirror /\ self' = self /\ faults' = faults
  BY DEF Watchdog
<1>2. feed' \in FeedSet /\ feed'.pc = "ended" BY <1>1, FieldFacts DEF FeedSet
<1>3. 0 <= Buf BY CapIs
<1>4. Typed' /\ OriginGood' BY <1>1, <1>2, <1>3, EmptyWire, EmptyServer DEF IInv, Typed, OriginGood
<1>5. DownShowsNothing' BY <1>2 DEF DownShowsNothing
<1> QED BY <1>1, <1>4, <1>5, EmptyServer, ClosedGood DEF IInv

LEMMA DialFailsInv == IInv /\ DialFails => IInv'
<1> SUFFICES ASSUME IInv, DialFails PROVE IInv' OBVIOUS
<1>1. /\ feed.pc = "dial" /\ faults < MaxFaults /\ faults' = faults + 1
      /\ feed' = [feed EXCEPT !.pc = "ended"]
      /\ origin' = origin /\ log' = log /\ srv' = srv /\ wire' = wire /\ stalled' = stalled
      /\ mirror' = mirror /\ self' = self
  BY DEF DialFails
<1>2. feed' \in FeedSet /\ feed'.pc = "ended" BY <1>1, FieldFacts DEF FeedSet
<1>3. srv'.pc = "none" BY <1>1, NotReading
<1>4. faults' \in 0 .. MaxFaults BY <1>1, CapIs DEF IInv, Typed
<1>5. Typed' /\ OriginGood' BY <1>1, <1>2, <1>4 DEF IInv, Typed, OriginGood
<1>6. DownShowsNothing' BY <1>2 DEF DownShowsNothing
<1> QED BY <1>3, <1>5, <1>6, ClosedGood DEF IInv

LEMMA MarkDownInv == IInv /\ MarkDown => IInv'
<1> SUFFICES ASSUME IInv, MarkDown PROVE IInv' OBVIOUS
<1>1. /\ feed.pc = "ended" /\ feed' = [feed EXCEPT !.pc = "clearing", !.connected = FALSE]
      /\ origin' = origin /\ log' = log /\ srv' = srv /\ wire' = wire /\ stalled' = stalled
      /\ mirror' = mirror /\ self' = self /\ faults' = faults
  BY DEF MarkDown
<1>2. feed' \in FeedSet /\ feed'.pc = "clearing" BY <1>1, FieldFacts DEF FeedSet
<1>3. srv'.pc = "none" BY <1>1, NotReading
<1>4. Typed' /\ OriginGood' BY <1>1, <1>2 DEF IInv, Typed, OriginGood
<1>5. DownShowsNothing' BY <1>2 DEF DownShowsNothing
<1> QED BY <1>3, <1>4, <1>5, ClosedGood DEF IInv

LEMMA ClearDownInv == IInv /\ ClearDown => IInv'
<1> SUFFICES ASSUME IInv, ClearDown PROVE IInv' OBVIOUS
<1>1. /\ feed.pc = "clearing" /\ feed' = [feed EXCEPT !.pc = "backoff"]
      /\ mirror' = [mirror EXCEPT !.inflight = <<>>]
      /\ origin' = origin /\ log' = log /\ srv' = srv /\ wire' = wire /\ stalled' = stalled
      /\ self' = self /\ faults' = faults
  BY DEF ClearDown, ClearInFlight
<1>2. feed' \in FeedSet /\ feed'.pc = "backoff" BY <1>1, FieldFacts DEF FeedSet
<1>3. srv'.pc = "none" BY <1>1, NotReading
<1>4. mirror' \in BrokerSet /\ mirror'.inflight = <<>> BY <1>1, FieldFacts, NoFlights DEF BrokerSet
<1>5. Typed' /\ OriginGood' BY <1>1, <1>2, <1>4 DEF IInv, Typed, OriginGood
<1>6. DownShowsNothing' BY <1>4 DEF DownShowsNothing
<1> QED BY <1>3, <1>5, <1>6, ClosedGood DEF IInv

LEMMA RedialInv == IInv /\ Redial => IInv'
<1> SUFFICES ASSUME IInv, Redial PROVE IInv' OBVIOUS
<1>1. /\ feed.pc = "backoff" /\ feed' = [feed EXCEPT !.pc = "dial"]
      /\ origin' = origin /\ log' = log /\ srv' = srv /\ wire' = wire /\ stalled' = stalled
      /\ mirror' = mirror /\ self' = self /\ faults' = faults
  BY DEF Redial
<1>2. feed' \in FeedSet /\ feed'.pc = "dial" BY <1>1, FieldFacts DEF FeedSet
<1>3. srv'.pc = "none" BY <1>1, NotReading
<1>4. Typed' /\ OriginGood' BY <1>1, <1>2 DEF IInv, Typed, OriginGood
<1>5. DownShowsNothing' BY <1>1 DEF IInv, DownShowsNothing
<1> QED BY <1>3, <1>4, <1>5, ClosedGood DEF IInv

-----------------------------------------------------------------------------
(* Faults.                                                                 *)
LEMMA HangupInv == IInv /\ Hangup => IInv'
<1> SUFFICES ASSUME IInv, Hangup PROVE IInv' OBVIOUS
<1>1. /\ faults < MaxFaults /\ faults' = faults + 1 /\ srv' = NoServer
      /\ origin' = origin /\ log' = log /\ wire' = wire /\ stalled' = stalled /\ feed' = feed
      /\ mirror' = mirror /\ self' = self
  BY DEF Hangup
<1>2. faults' \in 0 .. MaxFaults /\ 0 <= Buf BY <1>1, CapIs DEF IInv, Typed
<1>3. Typed' /\ OriginGood' BY <1>1, <1>2, EmptyServer DEF IInv, Typed, OriginGood
<1>4. DownShowsNothing' BY <1>1 DEF IInv, DownShowsNothing
<1> QED BY <1>1, <1>3, <1>4, EmptyServer, ClosedGood DEF IInv

LEMMA RestartInv == IInv /\ Restart => IInv'
<1> SUFFICES ASSUME IInv, Restart PROVE IInv' OBVIOUS
<1>1. /\ faults < MaxFaults /\ faults' = faults + 1 /\ srv' = NoServer
      /\ origin' = NoBroker /\ log' = <<>> /\ wire' = wire /\ stalled' = stalled /\ feed' = feed
      /\ mirror' = mirror /\ self' = self
  BY DEF Restart
<1>2. faults' \in 0 .. MaxFaults /\ 0 <= Buf BY <1>1, CapIs DEF IInv, Typed
<1>3. Typed' BY <1>1, <1>2, EmptyServer, EmptyBroker DEF IInv, Typed
<1>4. OriginGood' BY <1>1, EmptyOrigin DEF OriginGood
<1>5. DownShowsNothing' BY <1>1 DEF IInv, DownShowsNothing
<1> QED BY <1>1, <1>3, <1>4, <1>5, EmptyServer, ClosedGood DEF IInv

(* Steps that change nothing the invariant speaks of.                      *)
LEMMA SameInv ==
  ASSUME IInv, origin' = origin, log' = log, srv' = srv, wire' = wire, feed' = feed,
         mirror' = mirror, self' = self, stalled' \in BOOLEAN, faults' \in 0 .. MaxFaults
  PROVE  IInv'
<1>1. Typed' BY DEF IInv, Typed
<1>2. OriginGood' /\ DownShowsNothing' BY DEF IInv, OriginGood, DownShowsNothing
<1>3. Frames' = Frames BY DEF Frames
<1>4. Queue' = Queue /\ Base' = Base BY <1>3 DEF Queue, Base
<1>5. Unread' = Unread BY <1>4 DEF Unread
<1>6. Framed' BY <1>3 DEF IInv, Framed, Open
<1>7. StreamGood' BY <1>4, <1>5 DEF IInv, StreamGood, Open
<1> QED BY <1>1, <1>2, <1>6, <1>7 DEF IInv

LEMMA StallInv == IInv /\ Stall => IInv'
<1> SUFFICES ASSUME IInv, Stall PROVE IInv' OBVIOUS
<1>1. /\ faults < MaxFaults /\ faults' = faults + 1 /\ stalled' = TRUE
      /\ origin' = origin /\ log' = log /\ srv' = srv /\ wire' = wire /\ feed' = feed
      /\ mirror' = mirror /\ self' = self
  BY DEF Stall
<1>2. faults' \in 0 .. MaxFaults BY <1>1, CapIs DEF IInv, Typed
<1> QED BY <1>1, <1>2, SameInv

LEMMA StutterInv == IInv /\ UNCHANGED vars => IInv'
<1> SUFFICES ASSUME IInv, UNCHANGED vars PROVE IInv' OBVIOUS
<1>1. /\ origin' = origin /\ log' = log /\ srv' = srv /\ wire' = wire /\ feed' = feed
      /\ mirror' = mirror /\ self' = self /\ stalled' = stalled /\ faults' = faults
  BY DEF vars
<1>2. stalled \in BOOLEAN /\ faults \in 0 .. MaxFaults BY DEF IInv, Typed
<1> QED BY <1>1, <1>2, SameInv

LEMMA NextInv == IInv /\ [Next]_vars => IInv'
<1> SUFFICES ASSUME IInv, [Next]_vars PROVE IInv' OBVIOUS
<1>1. CASE \E id \in Ids, type \in {"started", "finished"} : RequestEvent(id, type)
  BY <1>1, RequestInv
<1>2. CASE ServerStep
  BY <1>2, TakeInFlightInv, SendSnapshotInv, ForwardInv DEF ServerStep
<1>3. CASE FeedStep
  BY <1>3, ParkInv, ConnectInv, OpenedInv, ReadInv, EndedInv, WatchdogInv, MarkDownInv, ClearDownInv, RedialInv
     DEF FeedStep
<1>4. CASE Ended \/ DialFails \/ Hangup \/ Stall \/ Restart
  BY <1>4, EndedInv, DialFailsInv, HangupInv, StallInv, RestartInv
<1>5. CASE UNCHANGED vars BY <1>5, StutterInv
<1> QED BY <1>1, <1>2, <1>3, <1>4, <1>5 DEF Next

(* The invariant holds in every reachable state.                           *)
THEOREM Inductive == Spec => []IInv
BY InitInv, NextInv, PTL DEF Spec

-----------------------------------------------------------------------------
(* How many of n entries the ring keeps, and where the kept ones begin.     *)
LEMMA RoomCut ==
  ASSUME NEW n \in Nat
  PROVE  /\ Room(n) \in Nat /\ Room(n) <= n
         /\ (IF n > Cap THEN n - Cap ELSE 0) + 1 = n - Room(n) + 1
<1>1. CASE n <= Cap BY <1>1, CapIs DEF Room
<1>2. CASE ~(n <= Cap) BY <1>2, CapIs DEF Room
<1> QED BY <1>1, <1>2

(* A sequence that ends another is its suffix.                             *)
LEMMA SuffixIs ==
  ASSUME NEW s \in Seq(Event), NEW L \in Seq(Event), NewestOf(s, L, Len(L))
  PROVE  s = SubSeq(L, (IF Len(L) > Cap THEN Len(L) - Cap ELSE 0) + 1, Len(L))
<1> DEFINE n == Len(L)
           p == Room(n)
           m == (IF n > Cap THEN n - Cap ELSE 0) + 1
           t == SubSeq(L, m, n)
<1>1. n \in Nat /\ \A i \in 1 .. n : L[i] \in Event BY SeqParts
<1>2. Len(s) = p /\ \A i \in 1 .. Len(s) : s[i] = L[n - Len(s) + i] BY DEF NewestOf
<1>3. p \in Nat /\ p <= n /\ m = n - p + 1
  <2> HIDE DEF n
  <2> QED BY <1>1, RoomCut
<1> HIDE DEF n, p, m
<1>4. m \in Int /\ n \in Int /\ \A i \in m .. n : i \in 1 .. n BY <1>1, <1>3
<1>5. /\ t \in Seq(Event) /\ Len(t) = (IF m <= n THEN n - m + 1 ELSE 0)
      /\ \A i \in 1 .. n - m + 1 : t[i] = L[m + i - 1]
  BY <1>1, <1>4, SubSeqProperties
<1>6. Len(t) = p BY <1>1, <1>3, <1>5
<1>7. \A i \in 1 .. p : i \in 1 .. n - m + 1 /\ m + i - 1 = n - p + i BY <1>1, <1>3
<1>8. \A i \in 1 .. p : s[i] = t[i] BY <1>2, <1>5, <1>7
<1> HIDE DEF t
<1>9. s = t BY <1>2, <1>5, <1>6, <1>8, SeqEqual
<1> QED BY <1>9 DEF t, m, n

LEMMA ReplayRight == IInv => ReplayIsSuffix
<1> SUFFICES ASSUME IInv PROVE ReplayIsSuffix OBVIOUS
<1>1. origin \in BrokerSet /\ log \in Seq(Event) BY FieldFacts
<1>2. Replay(origin) \in Seq(Event) /\ NewestOf(Replay(origin), log, Len(log))
  BY <1>1, ReplayNewest DEF IInv, OriginGood
<1> QED BY <1>1, <1>2, SuffixIs DEF ReplayIsSuffix

LEMMA BrokersTyped ==
  ASSUME NEW b \in BrokerSet
  PROVE  BrokerOK(b)
<1>1. b.inflight \in Flights BY DEF BrokerSet
<1> QED BY <1>1, FlightsAre DEF BrokerSet, BrokerOK

LEMMA MirrorRight == IInv => MirrorFaithful
<1> SUFFICES ASSUME IInv PROVE MirrorFaithful OBVIOUS
<1>1. TypeOK
  <2>1. BrokerOK(origin) /\ BrokerOK(mirror) BY FieldFacts, BrokersTyped
  <2>2. log \in Seq(Event) BY FieldFacts
  <2> QED BY <2>1, <2>2 DEF IInv, Typed, TypeOK, ServerSet, FeedSet
<1>2. ASSUME CaughtUp
      PROVE  /\ Queue = <<>> /\ Open /\ ~srv.dropped /\ Base = mirror.inflight
             /\ Mirrors(mirror, log, Len(log))
  <2>1. /\ feed.pc = "reading" /\ ~feed.first /\ srv.pc = "streaming" /\ srv.chan = <<>>
        /\ wire = <<>> /\ ~srv.dropped
    BY <1>2 DEF CaughtUp
  <2>2. Open BY <2>1 DEF Open
  <2>3. Frames = <<>> BY <2>1 DEF Frames, FramesOf
  <2>4. Requested(Frames) /\ Queue \in Seq(Event) BY <2>2, QueueFacts
  <2>5. Len(Queue) = 0
    <3>1. <<>> \in Seq(Event) /\ Len(<<>>) = 0 BY EmptySeq
    <3>2. Len(QueueOf(<<>>, <<>>)) = Len(<<>>) + Len(<<>>) BY <2>3, <2>4, <3>1, QueueIs
    <3> QED BY <2>1, <2>3, <3>1, <3>2 DEF Queue
  <2>6. Queue = <<>> BY <2>4, <2>5, SeqParts
  <2>7. Unread = Len(log) BY <2>5, FieldFacts DEF Unread
  <2>8. Mirrors(mirror, log, Unread) BY <2>1, <2>2, StreamFacts
  <2> QED BY <2>1, <2>2, <2>6, <2>7, <2>8 DEF Base
<1>3. MirrorAgrees
  <2> SUFFICES ASSUME CaughtUp PROVE mirror.inflight = origin.inflight BY DEF MirrorAgrees
  <2>1. Flow(<<>>, mirror.inflight, origin.inflight, log) BY <1>2, StreamFacts
  <2> QED BY <2>1, FieldFacts, FlowDry
<1>4. MirrorHasNoHole
  <2> SUFFICES ASSUME CaughtUp PROVE NoHole(Replay(mirror), log) BY DEF MirrorHasNoHole, NoHole
  <2>1. PICK M \in Seq(Event) : Holds(mirror, M) /\ Runs(M, log, Len(log)) BY <1>2 DEF Mirrors
  <2>2. Replay(mirror) \in Seq(Event) /\ NewestOf(Replay(mirror), M, Len(M))
    BY <2>1, FieldFacts, ReplayNewest
  <2>3. LogGood(log) BY DEF IInv, OriginGood
  <2> QED BY <2>1, <2>2, <2>3, RunsHaveNoHole
<1> QED BY <1>1, <1>3, <1>4 DEF IInv, MirrorFaithful

-----------------------------------------------------------------------------
(* For any ring, depth and requests: a page that connects late is shown    *)
(* the newest of what was published, as much of it as the ring holds, in   *)
(* order (Publish's head and full, Replay's two halves).                   *)
THEOREM ReplayIsTheSuffix == Spec => []ReplayIsSuffix
BY Inductive, ReplayRight, PTL

(* For any ring, depth and requests: subscribing before the snapshot's two *)
(* critical sections leaves no gap.  Caught up, the mirror shows in flight *)
(* what the peer has in flight and replays the peer's events without a     *)
(* hole up to the latest; and a lost peer shows nothing.                   *)
THEOREM MirrorIsFaithful == Spec => []MirrorFaithful
BY Inductive, MirrorRight, PTL
=============================================================================
