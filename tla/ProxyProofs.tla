---------------------------- MODULE ProxyProofs ----------------------------
(***************************************************************************)
(* Proofs about Proxy for every fleet, role, chain and retry bound: the    *)
(* types, that neither the privacy tier nor the role's contract is ever    *)
(* lost along a failover walk, that the walk is in order and accounted     *)
(* for, that what the client is told of it is so, and that a handler       *)
(* implements Service: the initial states map to initial states, and every *)
(* step of a handler maps to a step of its job or leaves it alone.         *)
(***************************************************************************)
EXTENDS ProxyService, SequenceTheorems, WellFoundedInduction, TLAPS

(* What a handler keeps true of its own request at every step.             *)
TierBound(q) == q.tier = EffectiveTier(q.kind, q.caller)

TargetGood(q) ==
  q.pc \in {"resolved", "attempt", "upstream"} =>
    /\ q.target \in Entries
    /\ q.kind = "role" => q.target.id \notin LacksCapability \cup q.tooSmall

SentPrivate(q, e) ==
  \/ e.id \in Local
  \/ /\ q.caller # "local"
     /\ q.caller = "zdr" \/ (q.kind = "role" /\ RoleNeedsZDR) =>
          e.id \in ZDREnforceable /\ e.zdr

SentGood(q) ==
  \A i \in 1 .. Len(q.sent) :
    /\ SentPrivate(q, q.sent[i])
    /\ q.kind = "role" => q.sent[i].id \notin LacksCapability \cup q.tooSmall

SentLater(q) == q.pc = "new" => q.sent = <<>>

GoodRequest(q) ==
  q \in RequestType /\ TierBound(q) /\ TargetGood(q) /\ SentGood(q) /\ SentLater(q)

(* The inductive invariant.                                                *)
IInv ==
  /\ DOMAIN req = Requests /\ req = [r \in Requests |-> req[r]]
  /\ \A r \in Requests : GoodRequest(req[r])
  /\ inflight \in [Models -> Nat]

(* Handing a status to the client keeps a request good.                    *)
LEMMA FinishGood ==
  ASSUME NEW q, GoodRequest(q), NEW s \in Statuses
  PROVE GoodRequest(Finish(q, s))
<1>1. Finish(q, s) \in RequestType BY DEF GoodRequest, RequestType, Finish
<1>2. TierBound(Finish(q, s)) BY DEF GoodRequest, RequestType, TierBound, Finish
<1>3. TargetGood(Finish(q, s)) BY DEF GoodRequest, RequestType, TargetGood, Finish
<1>4. SentGood(Finish(q, s))
  BY DEF GoodRequest, RequestType, SentGood, SentPrivate, Finish
<1>5. SentLater(Finish(q, s)) BY DEF GoodRequest, RequestType, SentLater, Finish
<1> QED BY <1>1, <1>2, <1>3, <1>4, <1>5 DEF GoodRequest

(* Binding to a viable entry of a typed order gives a typed request whose  *)
(* target meets the role's contract.                                       *)
LEMMA BindToGood ==
  ASSUME NEW q, q \in RequestType, TierBound(q), SentGood(q),
         NEW order, order \in Seq(Entries), NEW i \in 1 .. Len(order),
         NEW p \in {"resolved", "attempt"}, NEW n \in 0 .. MaxFailoverAttempts,
         q.kind = "role" => order[i].id \notin LacksCapability \cup q.tooSmall
  PROVE GoodRequest([BindTo(q, order, i) EXCEPT !.pc = p, !.attempt = n])
<1> DEFINE t == [BindTo(q, order, i) EXCEPT !.pc = p, !.attempt = n]
<1>1. order[i] \in Entries OBVIOUS
<1>2. SubSeq(order, i + 1, Len(order)) \in Seq(Entries) OBVIOUS
<1>3. t \in RequestType BY <1>1, <1>2 DEF RequestType, BindTo
<1>4. t.kind = q.kind /\ t.caller = q.caller /\ t.tier = q.tier /\ t.sent = q.sent
      /\ t.tooSmall = q.tooSmall /\ t.target = order[i] /\ t.pc = p
  BY DEF RequestType, BindTo
<1> HIDE DEF t
<1>5. TierBound(t) BY <1>4 DEF TierBound
<1>6. TargetGood(t) BY <1>1, <1>4 DEF TargetGood
<1>7. SentGood(t) BY <1>4 DEF SentGood, SentPrivate
<1>8. GoodRequest(t) BY <1>3, <1>4, <1>5, <1>6, <1>7 DEF GoodRequest, SentLater
<1> QED BY <1>8 DEF t

(* Every non-empty set of naturals has a least element.                    *)
LEMMA SmallestNat ==
  ASSUME NEW S, S \subseteq Nat, S # {}
  PROVE \E n \in S : \A j \in S : n <= j
<1> DEFINE R == {ss \in Nat \X Nat : ss[1] < ss[2]}
<1>1. IsWellFoundedOn(R, Nat)
  BY NatLessThanWellFounded, Zenon DEF OpToRel
<1> HIDE DEF R
<1>2. PICK x \in S : \A y \in S : ~ (<<y, x>> \in R) BY <1>1, WFMin
<1>3. \A y \in S : ~ (y < x)  BY <1>2 DEF R
<1> QED BY <1>2, <1>3

(* The first of a set of positions is one of them.                         *)
LEMMA FirstIn ==
  ASSUME NEW S, S \subseteq Nat, S # {}
  PROVE First(S) \in S
<1>1. PICK n \in S : \A j \in S : n <= j
  <2>1. PICK k : k \in S OBVIOUS
  <2> QED BY <2>1, SmallestNat
<1> QED BY <1>1 DEF First

(* A function on an initial segment of the naturals is a sequence.         *)
LEMMA FcnIsSeq ==
  ASSUME NEW S, NEW n \in Nat, NEW f \in [1 .. n -> S]
  PROVE f \in Seq(S) /\ Len(f) = n
OBVIOUS

(* Induction over the naturals, in the form the provers can use: a set     *)
(* that holds 1 and with every number the next one holds them all.         *)
LEMMA Induct ==
  ASSUME NEW T, 1 \in T, \A n \in Nat \ {0} : n \in T => n + 1 \in T
  PROVE \A n \in Nat \ {0} : n \in T
<1> SUFFICES ASSUME NEW m \in Nat \ {0}, m \notin T PROVE FALSE OBVIOUS
<1> DEFINE B == {n \in Nat \ {0} : n \notin T}
<1>1. B \subseteq Nat /\ B # {} OBVIOUS
<1>2. \A n \in B : n \in Nat /\ n # 0 /\ n \notin T OBVIOUS
<1>3. \A n \in Nat \ {0} : n \notin B => n \in T OBVIOUS
<1> HIDE DEF B
<1>4. PICK x \in B : \A j \in B : x <= j BY <1>1, SmallestNat
<1>5. x \in Nat /\ x # 0 /\ x # 1 BY <1>2, <1>4
<1>6. x - 1 \in Nat \ {0} /\ ~(x <= x - 1) /\ (x - 1) + 1 = x BY <1>5
<1>7. x - 1 \in T BY <1>3, <1>4, <1>6
<1> QED BY <1>2, <1>4, <1>6, <1>7

(* FlattenSeq is the last of its own partial results.                      *)
Partial(s, n, f) == f = [i \in 1 .. n |-> IF i = 1 THEN s[i] ELSE f[i - 1] \o s[i]]

LEMMA PartialExists ==
  ASSUME NEW s
  PROVE \A n \in Nat \ {0} : \E f : Partial(s, n, f)
<1> DEFINE T == {n \in Nat : \E f : Partial(s, n, f)}
<1>1. 1 \in T
  <2> DEFINE f == [i \in 1 .. 1 |-> s[i]]
  <2>1. \A i \in 1 .. 1 : i = 1 OBVIOUS
  <2>2. Partial(s, 1, f) BY <2>1 DEF Partial
  <2> HIDE DEF f
  <2> QED BY <2>2
<1>2. ASSUME NEW n \in Nat \ {0}, n \in T PROVE n + 1 \in T
  <2>1. PICK f : Partial(s, n, f) BY <1>2
  <2>2. f = [i \in 1 .. n |-> IF i = 1 THEN s[i] ELSE f[i - 1] \o s[i]] BY <2>1 DEF Partial
  <2> DEFINE g == [i \in 1 .. n + 1 |-> IF i = n + 1 THEN f[n] \o s[n + 1] ELSE f[i]]
             h == [i \in 1 .. n + 1 |-> IF i = 1 THEN s[i] ELSE g[i - 1] \o s[i]]
  <2>3. ASSUME NEW i \in 1 .. n + 1 PROVE g[i] = IF i = 1 THEN s[i] ELSE g[i - 1] \o s[i]
    <3>1. CASE i = n + 1
      <4>1. i - 1 \in 1 .. n + 1 /\ i - 1 # n + 1 /\ i # 1 /\ i - 1 = n BY <3>1
      <4>2. g[i - 1] = f[n] BY <4>1
      <4> QED BY <3>1, <4>1, <4>2
    <3>2. CASE i # n + 1
      <4>1. i \in 1 .. n BY <3>2
      <4>2. g[i] = IF i = 1 THEN s[i] ELSE f[i - 1] \o s[i] BY <2>2, <3>2, <4>1
      <4>3. i # 1 => i - 1 \in 1 .. n + 1 /\ i - 1 # n + 1 BY <4>1
      <4>4. i # 1 => g[i - 1] = f[i - 1] BY <4>3
      <4> QED BY <4>2, <4>4
    <3> QED BY <3>1, <3>2
  <2>4. g = h BY <2>3
  <2>5. Partial(s, n + 1, g) BY <2>4 DEF Partial
  <2> HIDE DEF g
  <2> QED BY <2>5
<1>3. \A n \in Nat \ {0} : n \in T
  <2> HIDE DEF T
  <2> QED BY <1>1, <1>2, Induct
<1> QED BY <1>3

LEMMA FlattenIs ==
  ASSUME NEW s, Len(s) \in Nat \ {0}
  PROVE \E f : Partial(s, Len(s), f) /\ FlattenSeq(s) = f[Len(s)]
<1> DEFINE flatten == CHOOSE f : f = [i \in 1 .. Len(s) |-> IF i = 1 THEN s[i] ELSE f[i - 1] \o s[i]]
<1>1. \E f : f = [i \in 1 .. Len(s) |-> IF i = 1 THEN s[i] ELSE f[i - 1] \o s[i]]
  BY PartialExists DEF Partial
<1>2. flatten = [i \in 1 .. Len(s) |-> IF i = 1 THEN s[i] ELSE flatten[i - 1] \o s[i]]
  BY <1>1
<1>3. FlattenSeq(s) = flatten[Len(s)]
  BY DEF FlattenSeq
<1>4. Partial(s, Len(s), flatten)
  BY <1>2 DEF Partial
<1> HIDE DEF flatten
<1> QED BY <1>3, <1>4

(* The overflow entries of an order stand behind the others.               *)
OverflowLast(o) ==
  \A i, j \in 1 .. Len(o) : i < j /\ o[i].overflow => o[j].overflow

AllOverflow(o) == \A i \in 1 .. Len(o) : o[i].overflow

LEMMA JoinedOrders ==
  ASSUME NEW S, NEW a \in Seq(S), NEW b \in Seq(S), NEW p \in BOOLEAN, NEW c \in BOOLEAN,
         OverflowLast(a), \A i \in 1 .. Len(a) : a[i].overflow => p,
         \A i \in 1 .. Len(b) : b[i].overflow = c, p => c
  PROVE  /\ a \o b \in Seq(S) /\ OverflowLast(a \o b)
         /\ \A i \in 1 .. Len(a \o b) : (a \o b)[i].overflow => c
<1> DEFINE o == a \o b
<1>1. o \in Seq(S) /\ Len(o) = Len(a) + Len(b) /\ Len(a) \in Nat /\ Len(b) \in Nat
  BY ConcatProperties, LenProperties
<1>2. ASSUME NEW i \in 1 .. Len(o)
      PROVE  \/ i \in 1 .. Len(a) /\ o[i] = a[i]
             \/ i - Len(a) \in 1 .. Len(b) /\ o[i] = b[i - Len(a)] /\ i > Len(a)
  BY <1>1, ConcatProperties
<1> HIDE DEF o
<1>3. \A i \in 1 .. Len(o) : o[i].overflow => c BY <1>2
<1>4. ASSUME NEW i \in 1 .. Len(o), NEW j \in 1 .. Len(o), i < j, o[i].overflow
      PROVE  o[j].overflow
  <2>1. CASE j \in 1 .. Len(a) /\ o[j] = a[j]
    <3>1. i \in 1 .. Len(a) BY <1>1, <1>4, <2>1
    <3>2. ~(i > Len(a)) BY <1>1, <3>1
    <3>3. o[i] = a[i] BY <1>2, <3>2
    <3> QED BY <1>4, <2>1, <3>1, <3>3 DEF OverflowLast
  <2>2. CASE j - Len(a) \in 1 .. Len(b) /\ o[j] = b[j - Len(a)]
    BY <1>3, <1>4, <2>2
  <2> QED BY <1>2, <2>1, <2>2
<1>5. OverflowLast(o) BY <1>4 DEF OverflowLast
<1> QED BY <1>1, <1>3, <1>5 DEF o

LEMMA FlattenedOrder ==
  ASSUME NEW S, NEW s, Len(s) \in Nat \ {0}, NEW flag \in [1 .. Len(s) -> BOOLEAN],
         \A i \in 1 .. Len(s) : s[i] \in Seq(S),
         \A i \in 1 .. Len(s) : \A j \in 1 .. Len(s[i]) : s[i][j].overflow = flag[i],
         \A i, j \in 1 .. Len(s) : i < j /\ flag[i] => flag[j]
  PROVE  FlattenSeq(s) \in Seq(S) /\ OverflowLast(FlattenSeq(s))
<1> DEFINE n0 == Len(s)
<1>1. PICK f : Partial(s, n0, f) /\ FlattenSeq(s) = f[n0] BY FlattenIs
<1> DEFINE Ok(n) == /\ f[n] \in Seq(S) /\ OverflowLast(f[n])
                    /\ \A j \in 1 .. Len(f[n]) : f[n][j].overflow => flag[n]
           T == {n \in Nat : n <= n0 => Ok(n)}
<1>2. \A i \in 1 .. n0 : f[i] = IF i = 1 THEN s[i] ELSE f[i - 1] \o s[i]
  BY <1>1 DEF Partial
<1>3. n0 \in Nat \ {0} OBVIOUS
<1>4. 1 \in T
  <2>1. 1 \in 1 .. n0 BY <1>3
  <2>2. f[1] = s[1] BY <1>2, <2>1
  <2>3. Ok(1) BY <2>1, <2>2 DEF OverflowLast
  <2> QED BY <2>3
<1>5. ASSUME NEW n \in Nat \ {0}, n \in T PROVE n + 1 \in T
  <2>1. SUFFICES ASSUME n + 1 <= n0 PROVE Ok(n + 1) OBVIOUS
  <2>2. n + 1 \in 1 .. n0 /\ n + 1 # 1 /\ n <= n0 /\ n \in 1 .. n0 /\ n < n + 1 /\ (n + 1) - 1 = n
    BY <1>3, <2>1
  <2>3. f[n + 1] = f[n] \o s[n + 1] BY <1>2, <2>2
  <2>4. Ok(n) BY <1>5, <2>2
  <2>5. flag[n] => flag[n + 1] BY <2>2
  <2>6. s[n + 1] \in Seq(S) /\ \A j \in 1 .. Len(s[n + 1]) : s[n + 1][j].overflow = flag[n + 1]
    BY <2>2
  <2> DEFINE a == f[n]
             b == s[n + 1]
             p == flag[n]
             c == flag[n + 1]
  <2>9. p \in BOOLEAN /\ c \in BOOLEAN BY <2>2
  <2>7. /\ a \in Seq(S) /\ b \in Seq(S) /\ OverflowLast(a) /\ (p => c)
        /\ \A i \in 1 .. Len(a) : a[i].overflow => p
        /\ \A i \in 1 .. Len(b) : b[i].overflow = c
    BY <2>4, <2>5, <2>6
  <2> HIDE DEF a, b, p, c
  <2>8. /\ a \o b \in Seq(S) /\ OverflowLast(a \o b)
        /\ \A i \in 1 .. Len(a \o b) : (a \o b)[i].overflow => c
    BY <2>7, <2>9, JoinedOrders
  <2> QED BY <2>3, <2>8 DEF a, b, c
<1>6. \A n \in Nat \ {0} : n \in T
  <2> HIDE DEF T
  <2> QED BY <1>4, <1>5, Induct
<1>7. Ok(n0) BY <1>3, <1>6
<1> QED BY <1>1, <1>7

(* An entry of the role's lists, before its chains are expanded.           *)
Listings == [id : Names, overflow : BOOLEAN, chain : {""}]

LEMMA PlainOrder ==
  ASSUME NEW ids \in Seq(Names), NEW b \in BOOLEAN
  PROVE  Plain(ids, b) \in Seq(Listings) /\ \A i \in 1 .. Len(Plain(ids, b)) : Plain(ids, b)[i].overflow = b
<1>1. Len(ids) \in Nat /\ \A i \in 1 .. Len(ids) : ids[i] \in Names OBVIOUS
<1> DEFINE p == [i \in 1 .. Len(ids) |-> [id |-> ids[i], overflow |-> b, chain |-> ""]]
<1>2. p \in [1 .. Len(ids) -> Listings] BY <1>1 DEF Listings
<1>3. \A i \in 1 .. Len(ids) : p[i].overflow = b OBVIOUS
<1>4. Plain(ids, b) = p BY DEF Plain
<1> HIDE DEF p
<1>5. p \in Seq(Listings) /\ Len(p) = Len(ids) BY <1>1, <1>2
<1> QED BY <1>3, <1>4, <1>5

LEMMA RoleOrderType == RoleOrder \in Seq(Listings) /\ OverflowLast(RoleOrder)
<1> DEFINE a == Plain(Candidates, FALSE)
           b == IF OverflowOnEmpty THEN Plain(Overflow, TRUE) ELSE <<>>
<1>1. Candidates \in Seq(Names) /\ Overflow \in Seq(Names) BY ProxyAssumption
<1>2. a \in Seq(Listings) /\ \A i \in 1 .. Len(a) : a[i].overflow = FALSE BY <1>1, PlainOrder
<1>3. b \in Seq(Listings) /\ \A i \in 1 .. Len(b) : b[i].overflow = TRUE
  <2>1. Plain(Overflow, TRUE) \in Seq(Listings)
        /\ \A i \in 1 .. Len(Plain(Overflow, TRUE)) : Plain(Overflow, TRUE)[i].overflow = TRUE
    BY <1>1, PlainOrder
  <2>2. <<>> \in Seq(Listings) /\ 1 .. Len(<<>>) = {} OBVIOUS
  <2> QED BY <2>1, <2>2
<1>4. RoleOrder = a \o b BY DEF RoleOrder
<1> HIDE DEF a, b
<1>5. OverflowLast(a) BY <1>2 DEF OverflowLast
<1>6. \A i \in 1 .. Len(a) : a[i].overflow => FALSE BY <1>2
<1> QED BY <1>2, <1>3, <1>4, <1>5, <1>6, JoinedOrders

(* What a chain's name stands for.                                         *)
LEMMA ChainOrder ==
  ASSUME NEW c \in Chains, NEW b \in BOOLEAN
  PROVE  /\ ChainEntries(c, b) \in Seq(Entries)
         /\ \A i \in 1 .. Len(ChainEntries(c, b)) : ChainEntries(c, b)[i].overflow = b
<1> DEFINE p == (IF c \in Models THEN <<c>> ELSE <<>>) \o Fallbacks[c]
<1>1. Fallbacks[c] \in Seq(Models \ (Chains \cup Discovered)) BY ProxyAssumption
<1>2. Fallbacks[c] \in Seq(Models) BY <1>1, SeqMonotonic
<1>3. (IF c \in Models THEN <<c>> ELSE <<>>) \in Seq(Models) OBVIOUS
<1>4. p \in Seq(Models) BY <1>2, <1>3, ConcatProperties
<1> HIDE DEF p
<1> DEFINE o == [i \in 1 .. Len(p) |-> [id |-> p[i], overflow |-> b, chain |-> c]]
<1>5. Len(p) \in Nat /\ \A i \in 1 .. Len(p) : p[i] \in Models BY <1>4
<1>6. o \in [1 .. Len(p) -> Entries] BY <1>5 DEF Entries
<1>7. \A i \in 1 .. Len(p) : o[i].overflow = b OBVIOUS
<1>8. ChainEntries(c, b) = o BY DEF ChainEntries, p
<1> HIDE DEF o
<1>9. o \in Seq(Entries) /\ Len(o) = Len(p) BY <1>5, <1>6
<1> QED BY <1>7, <1>8, <1>9

LEMMA RoleSeats ==
  ExpandChains(RoleOrder) \in Seq(Entries) /\ OverflowLast(ExpandChains(RoleOrder))
<1> DEFINE order == RoleOrder
           s == [i \in 1 .. Len(order) |->
                   IF order[i].id \in Chains THEN ChainEntries(order[i].id, order[i].overflow)
                   ELSE <<order[i]>>]
           flag == [i \in 1 .. Len(order) |-> order[i].overflow]
<1>1. order \in Seq(Listings) /\ OverflowLast(order) BY RoleOrderType
<1>2. ExpandChains(RoleOrder) = FlattenSeq(s) BY DEF ExpandChains
<1> HIDE DEF order
<1>3. Len(order) \in Nat /\ \A i \in 1 .. Len(order) : order[i] \in Listings BY <1>1
<1>4. ASSUME NEW i \in 1 .. Len(order)
      PROVE  s[i] \in Seq(Entries) /\ \A j \in 1 .. Len(s[i]) : s[i][j].overflow = flag[i]
  <2>1. order[i] \in Listings /\ flag[i] = order[i].overflow BY <1>3
  <2>2. order[i].id \in Names /\ order[i].overflow \in BOOLEAN BY <2>1 DEF Listings
  <2>3. CASE order[i].id \in Chains
    <3>1. s[i] = ChainEntries(order[i].id, order[i].overflow) BY <2>3
    <3> QED BY <2>1, <2>2, <2>3, <3>1, ChainOrder
  <2>4. CASE order[i].id \notin Chains
    <3>1. s[i] = <<order[i]>> BY <2>4
    <3>2. order[i] \in Entries BY <2>1, <2>2, <2>4 DEF Listings, Entries, Names
    <3>5. \A e \in Entries : Len(<<e>>) = 1 /\ <<e>>[1] = e /\ <<e>> \in Seq(Entries) OBVIOUS
    <3>3. Len(s[i]) = 1 /\ s[i][1] = order[i] /\ s[i] \in Seq(Entries) BY <3>1, <3>2, <3>5, Zenon
    <3>4. \A j \in 1 .. 1 : j = 1 OBVIOUS
    <3> QED BY <2>1, <3>3, <3>4
  <2> QED BY <2>3, <2>4
<1>10. flag \in [1 .. Len(order) -> BOOLEAN] BY <1>3 DEF Listings
<1>5. \A i, j \in 1 .. Len(order) : i < j /\ flag[i] => flag[j] BY <1>1 DEF OverflowLast
<1>6. s \in [1 .. Len(order) -> Seq(Entries)] BY <1>4
<1> HIDE DEF s, flag
<1>7. s \in Seq(Seq(Entries)) /\ Len(s) = Len(order) BY <1>3, <1>6
<1>8. CASE Len(order) = 0
  <2>1. FlattenSeq(s) = s BY <1>7, <1>8 DEF FlattenSeq
  <2>2. s = <<>> /\ 1 .. Len(s) = {} BY <1>7, <1>8
  <2> QED BY <1>2, <2>1, <2>2 DEF OverflowLast
<1>9. CASE Len(order) # 0
  BY <1>2, <1>3, <1>4, <1>5, <1>7, <1>9, <1>10, FlattenedOrder
<1> QED BY <1>8, <1>9

(* Every order a name stands for is a sequence of entries, the overflow    *)
(* ones last.                                                              *)
LEMMA OrderOfType ==
  ASSUME NEW name \in Names \cup {"role"}
  PROVE OrderOf(name) \in Seq(Entries) /\ OverflowLast(OrderOf(name))
<1>1. CASE KindOf(name) = "role"
  BY <1>1, RoleSeats DEF OrderOf
<1>2. CASE KindOf(name) = "chain"
  <2>1. name \in Chains BY <1>2 DEF KindOf
  <2>2. /\ ChainEntries(name, FALSE) \in Seq(Entries)
        /\ \A i \in 1 .. Len(ChainEntries(name, FALSE)) : ChainEntries(name, FALSE)[i].overflow = FALSE
    BY <2>1, ChainOrder
  <2>3. OrderOf(name) = ChainEntries(name, FALSE) BY <1>2 DEF OrderOf
  <2> QED BY <2>2, <2>3 DEF OverflowLast
<1>3. CASE KindOf(name) = "named"
  <2>1. name \in Models BY <1>3 DEF KindOf, Names
  <2>2. OrderOf(name) = Plain(<<name>>, FALSE) BY <1>3 DEF OrderOf
  <2>3. Plain(<<name>>, FALSE) \in [1 .. 1 -> Entries] BY <2>1 DEF Plain, Entries
  <2>4. \A i \in 1 .. 1 : Plain(<<name>>, FALSE)[i].overflow = FALSE BY DEF Plain
  <2>5. Plain(<<name>>, FALSE) \in Seq(Entries) /\ Len(Plain(<<name>>, FALSE)) = 1
    BY <2>3, FcnIsSeq, Zenon
  <2> QED BY <2>2, <2>3, <2>4, <2>5 DEF OverflowLast
<1> QED BY <1>1, <1>2, <1>3 DEF KindOf

(* Every viable entry of a walk is an entry that meets the contract.       *)
LEMMA ViableAtGood ==
  ASSUME NEW q, NEW order \in Seq(Entries), NEW routable, NEW known,
         NEW i \in ViableAt(q, order, routable, known)
  PROVE /\ i \in 1 .. Len(order) /\ i \in Nat
        /\ q.kind = "role" => order[i].id \notin LacksCapability \cup q.tooSmall
BY DEF ViableAt, Viable

(* Resolution gives a good request: bound to an entry of its order, or     *)
(* finished with a status.                                                 *)
LEMMA ResolveToGood ==
  ASSUME NEW q, GoodRequest(q), NEW name \in Names \cup {"role"}, q.kind = KindOf(name),
         NEW routable, NEW known
  PROVE GoodRequest(ResolveTo(q, name, routable, known))
<1> DEFINE order == OrderOf(name)
           viable == IF q.kind = "named" THEN {i \in {1} : name \in known}
                     ELSE ViableAt(q, order, routable, known)
           refusal == Refusal(q, order, known)
<1>1. ResolveTo(q, name, routable, known) =
        IF viable = {} THEN Finish(q, refusal)
        ELSE [BindTo(q, order, First(viable)) EXCEPT !.pc = "resolved"]
  BY DEF ResolveTo
<1>0. order \in Seq(Entries) BY OrderOfType
<1>6. refusal \in Statuses BY DEF Refusal, Statuses
<1>2. viable \subseteq 1 .. Len(order)
      /\ \A i \in viable : q.kind = "role" => order[i].id \notin LacksCapability \cup q.tooSmall
  <2>1. CASE q.kind = "named"
    <3>1. Len(order) = 1 BY <2>1 DEF OrderOf, Plain
    <3> QED BY <2>1, <3>1
  <2>2. CASE q.kind # "named"
    BY <2>2, <1>0, ViableAtGood
  <2> QED BY <2>1, <2>2
<1>3. viable \subseteq Nat BY <1>0, <1>2
<1> HIDE DEF order, viable, refusal
<1>4. CASE viable # {}
  <2> DEFINE f == First(viable)
  <2>1. f \in viable BY <1>3, <1>4, FirstIn
  <2> HIDE DEF f
  <2>2. q.attempt \in 0 .. MaxFailoverAttempts BY DEF GoodRequest, RequestType
  <2>3. GoodRequest([BindTo(q, order, f) EXCEPT !.pc = "resolved", !.attempt = q.attempt])
    BY <1>0, <1>2, <2>1, <2>2, BindToGood DEF GoodRequest
  <2>4. [BindTo(q, order, f) EXCEPT !.pc = "resolved", !.attempt = q.attempt]
          = [BindTo(q, order, f) EXCEPT !.pc = "resolved"]
    BY DEF GoodRequest, RequestType, BindTo
  <2>5. ResolveTo(q, name, routable, known) = [BindTo(q, order, f) EXCEPT !.pc = "resolved"]
    BY <1>1, <1>4 DEF f
  <2> QED BY <2>3, <2>4, <2>5
<1>5. CASE viable = {}
  BY <1>1, <1>5, <1>6, FinishGood
<1> QED BY <1>4, <1>5

(* Reporting an attempt keeps a request good.                              *)
LEMMA ReportGood ==
  ASSUME NEW q, GoodRequest(q), q.pc = "upstream", NEW o \in Answers \cup Silences
  PROVE GoodRequest(Report(q, o))
<1>1. UpstreamStatus(o) \in Statuses
  BY DEF UpstreamStatus, Statuses, Answers, Silences
<1>2. q.target.id \in Models /\ q.failed \in Seq(Models)
  BY DEF GoodRequest, RequestType, TargetGood, Entries
<1> DEFINE t == Report(q, o)
           f == IF Charged(q, o) THEN Append(q.failed, q.target.id) ELSE q.failed
<1>3. f \in Seq(Models) BY <1>2
<1>4. (q.spurious \/ o = "cancelled") \in BOOLEAN OBVIOUS
<1>5. t = [q EXCEPT !.failed = f, !.spurious = q.spurious \/ o = "cancelled",
                    !.answered = UpstreamStatus(o)]
  BY DEF GoodRequest, RequestType, Report
<1> HIDE DEF f, t
<1>6. t \in RequestType BY <1>1, <1>3, <1>4, <1>5 DEF GoodRequest, RequestType
<1>7. t.kind = q.kind /\ t.caller = q.caller /\ t.tier = q.tier /\ t.sent = q.sent
      /\ t.tooSmall = q.tooSmall /\ t.target = q.target /\ t.pc = q.pc
  BY <1>5 DEF GoodRequest, RequestType
<1>8. TierBound(t) /\ TargetGood(t) /\ SentGood(t) /\ SentLater(t)
  BY <1>7 DEF GoodRequest, TierBound, TargetGood, SentGood, SentPrivate, SentLater
<1>9. GoodRequest(t) BY <1>6, <1>8 DEF GoodRequest
<1> QED BY <1>9 DEF t

(* A new handler's request is good.                                        *)
LEMMA NewRequestGood == GoodRequest(NewRequest)
<1>0. MaxFailoverAttempts \in Nat BY ProxyAssumption, Zenon
<1>1. 0 \in 0 .. MaxFailoverAttempts BY <1>0
<1>2. NewRequest \in RequestType
  BY <1>1 DEF NewRequest, RequestType, Tiers, Statuses, Entries
<1>3. NewRequest.sent = <<>> /\ NewRequest.pc = "new" /\ NewRequest.kind = "named"
      /\ NewRequest.caller = "none" /\ NewRequest.tier = "none"
  BY DEF NewRequest
<1>4. TierBound(NewRequest) BY <1>3 DEF TierBound, EffectiveTier
<1>5. TargetGood(NewRequest) BY <1>3 DEF TargetGood
<1>6. SentGood(NewRequest)
  <2>1. 1 .. Len(NewRequest.sent) = {} BY <1>3
  <2> QED BY <2>1 DEF SentGood
<1> QED BY <1>2, <1>3, <1>4, <1>5, <1>6 DEF GoodRequest, SentLater

(* The inductive invariant holds at the start.                             *)
LEMMA InitInv == Init => IInv
BY NewRequestGood DEF Init, IInv

(* A step that gives one request a good successor and keeps the in-flight  *)
(* table a table of naturals keeps the invariant.                          *)
LEMMA OneRequestMoves ==
  ASSUME IInv, NEW r \in Requests, NEW t, GoodRequest(t),
         req' = [req EXCEPT ![r] = t], inflight' \in [Models -> Nat]
  PROVE IInv'
<1>1. req' = [x \in Requests |-> IF x = r THEN t ELSE req[x]] BY DEF IInv
<1>2. \A x \in Requests : GoodRequest(req'[x]) BY <1>1 DEF IInv
<1>3. (DOMAIN req)' = Requests /\ req' = [x \in Requests |-> req'[x]] BY <1>1
<1> QED BY <1>2, <1>3 DEF IInv, GoodRequest, RequestType, TierBound, EffectiveTier,
    TargetGood, SentGood, SentPrivate, SentLater

(* Both ways a handler moves the in-flight table.                          *)
LEMMA InflightType ==
  ASSUME inflight \in [Models -> Nat], NEW m \in Models
  PROVE AddInflight(m) \in [Models -> Nat] /\ DoneInflight(m) \in [Models -> Nat]
BY DEF AddInflight, DoneInflight

(* A request with a target has a model for it.                             *)
LEMMA TargetModel ==
  ASSUME NEW q, GoodRequest(q), q.pc \in {"resolved", "attempt", "upstream"}
  PROVE q.target.id \in Models
BY DEF GoodRequest, TargetGood, Entries

(* The steps before forwarding.                                            *)
LEMMA EarlySteps ==
  ASSUME IInv, NEW r \in Requests, Reject(r) \/ Resolve(r) \/ ClassMismatch(r) \/ Begin(r)
  PROVE IInv'
<1>0. GoodRequest(req[r]) /\ inflight \in [Models -> Nat] BY DEF IInv
<1>1. CASE Reject(r)
  <2>1. PICK s \in {"400", "403"} : req' = [req EXCEPT ![r] = Finish(req[r], s)]
    BY <1>1 DEF Reject, IInv
  <2>2. s \in Statuses BY DEF Statuses
  <2>3. GoodRequest(Finish(req[r], s)) BY <1>0, <2>2, FinishGood
  <2> QED BY <1>0, <1>1, <2>1, <2>3, OneRequestMoves DEF Reject
<1>2. CASE Resolve(r)
  <2>1. PICK name \in Names \cup {"role"}, caller \in Tiers, attachable \in BOOLEAN,
             tooSmall \in SUBSET Windowed, routable \in SUBSET Models, known \in Catalogues :
          req' = [req EXCEPT ![r] = ResolveTo(
            [req[r] EXCEPT !.kind = KindOf(name), !.caller = caller, !.attachable = attachable,
                           !.tier = EffectiveTier(KindOf(name), caller),
                           !.tooSmall = IF KindOf(name) = "role" THEN tooSmall ELSE {}],
            name, routable, known)]
    BY <1>2 DEF Resolve
  <2> DEFINE small == IF KindOf(name) = "role" THEN tooSmall ELSE {}
             q == [req[r] EXCEPT !.kind = KindOf(name), !.caller = caller,
                     !.attachable = attachable, !.tier = EffectiveTier(KindOf(name), caller),
                     !.tooSmall = small]
  <2>2. KindOf(name) \in {"role", "chain", "named"} BY DEF KindOf
  <2>3. EffectiveTier(KindOf(name), caller) \in Tiers BY DEF EffectiveTier, Tiers
  <2>4. small \in SUBSET Windowed OBVIOUS
  <2>5. req[r].pc = "new" BY <1>2 DEF Resolve
  <2> HIDE DEF small
  <2>6. q \in RequestType BY <1>0, <2>2, <2>3, <2>4 DEF GoodRequest, RequestType
  <2>7. q.kind = KindOf(name) /\ q.caller = caller /\ q.pc = "new" /\ q.sent = req[r].sent
        /\ q.tier = EffectiveTier(KindOf(name), caller)
    BY <1>0, <2>5 DEF GoodRequest, RequestType
  <2>8. q.sent = <<>> BY <1>0, <2>5, <2>7 DEF GoodRequest, SentLater
  <2> HIDE DEF q
  <2>9. 1 .. Len(q.sent) = {} BY <2>8
  <2>10. GoodRequest(q)
    BY <2>6, <2>7, <2>8, <2>9 DEF GoodRequest, TierBound, TargetGood, SentGood, SentLater
  <2>11. GoodRequest(ResolveTo(q, name, routable, known))
    BY <2>7, <2>10, ResolveToGood
  <2>12. req' = [req EXCEPT ![r] = ResolveTo(q, name, routable, known)] BY <2>1 DEF q, small
  <2> QED BY <1>0, <1>2, <2>11, <2>12, OneRequestMoves DEF Resolve
<1>3. CASE ClassMismatch(r)
  <2>1. "400" \in Statuses BY DEF Statuses
  <2>2. GoodRequest(Finish(req[r], "400")) BY <1>0, <2>1, FinishGood
  <2>3. req' = [req EXCEPT ![r] = Finish(req[r], "400")] BY <1>3 DEF ClassMismatch, IInv
  <2> QED BY <1>0, <1>3, <2>2, <2>3, OneRequestMoves DEF ClassMismatch
<1>4. CASE Begin(r)
  <2> DEFINE t == [req[r] EXCEPT !.pc = "attempt"]
  <2>1. t \in RequestType BY <1>0 DEF GoodRequest, RequestType
  <2>2. t.kind = req[r].kind /\ t.caller = req[r].caller /\ t.tier = req[r].tier
        /\ t.sent = req[r].sent /\ t.tooSmall = req[r].tooSmall /\ t.target = req[r].target
    BY <1>0 DEF GoodRequest, RequestType
  <2>3. req[r].pc = "resolved" BY <1>4 DEF Begin
  <2>6. t.pc = "attempt" BY <1>0 DEF GoodRequest, RequestType
  <2> HIDE DEF t
  <2>4. GoodRequest(t)
    BY <1>0, <2>1, <2>2, <2>3, <2>6
    DEF GoodRequest, TierBound, TargetGood, SentGood, SentPrivate, SentLater
  <2>5. req' = [req EXCEPT ![r] = t] BY <1>4 DEF Begin, IInv, t
  <2> QED BY <1>0, <1>4, <2>4, <2>5, OneRequestMoves DEF Begin
<1> QED BY <1>1, <1>2, <1>3, <1>4

(* applyPrivacy lets a target through only to a seat the demands allow,    *)
(* and marks it when it is external.                                       *)
LEMMA AppliedIsPrivate ==
  ASSUME NEW q, GoodRequest(q), NEW known, PrivacyApplies(q, known)
  PROVE SentPrivate(q, [id |-> q.target.id, zdr |-> Directive(q)])
BY DEF GoodRequest, RequestType, TierBound, EffectiveTier, PrivacyApplies, PrivacyGate,
       SentPrivate, Directive, Tiers

(* The headers stay typed.                                                 *)
LEMMA SetHeadersType ==
  ASSUME NEW q, GoodRequest(q), q.pc = "attempt"
  PROVE SetHeaders(q) \in [resolved : Models \cup {""}, chain : Chains \cup {""}, overflow : BOOLEAN]
<1>1. q.hdr \in [resolved : Models \cup {""}, chain : Chains \cup {""}, overflow : BOOLEAN]
  BY DEF GoodRequest, RequestType
<1>2. q.target \in Entries BY DEF GoodRequest, TargetGood
<1> QED BY <1>1, <1>2 DEF SetHeaders, Entries

(* Sending keeps every request good: the entry added to the history is     *)
(* one the demands and the contract allow.                                 *)
LEMMA SendStep ==
  ASSUME IInv, NEW r \in Requests, Send(r)
  PROVE IInv'
<1>0. GoodRequest(req[r]) /\ inflight \in [Models -> Nat] /\ req[r].pc = "attempt"
  BY DEF IInv, Send
<1> DEFINE q == req[r]
           e == [id |-> q.target.id, zdr |-> Directive(q)]
           s == Append(q.sent, e)
<1>1. PICK known \in Catalogues : PrivacyApplies(q, known) BY DEF Send
<1>2. PICK b \in BOOLEAN :
        req' = [req EXCEPT ![r] = [q EXCEPT !.pc = "upstream", !.hdr = SetHeaders(q),
                                            !.suppress = b, !.sent = s]]
  <2>1. PICK routable \in SUBSET Models, k \in Catalogues :
          req' = [req EXCEPT ![r] = [q EXCEPT !.pc = "upstream", !.hdr = SetHeaders(q),
                    !.suppress = NextRoleCandidate(q, routable, k) # {}, !.sent = s]]
    BY Zenon DEF Send
  <2>2. (NextRoleCandidate(q, routable, k) # {}) \in BOOLEAN OBVIOUS
  <2> QED BY <2>1, <2>2
<1> DEFINE t == [q EXCEPT !.pc = "upstream", !.hdr = SetHeaders(q), !.suppress = b, !.sent = s]
<1>3. q.target.id \in Models BY <1>0, TargetModel
<1>4. Directive(q) \in BOOLEAN BY DEF Directive
<1>5. e \in [id : Models, zdr : BOOLEAN] BY <1>3, <1>4
<1>6. q.sent \in Seq([id : Models, zdr : BOOLEAN]) BY <1>0 DEF GoodRequest, RequestType
<1>7. SentPrivate(q, e) BY <1>0, <1>1, AppliedIsPrivate
<1>8. q.kind = "role" => e.id \notin LacksCapability \cup q.tooSmall
  BY <1>0 DEF GoodRequest, TargetGood
<1>9. SetHeaders(q) \in [resolved : Models \cup {""}, chain : Chains \cup {""}, overflow : BOOLEAN]
  BY <1>0, SetHeadersType
<1> HIDE DEF e
<1>10. s \in Seq([id : Models, zdr : BOOLEAN]) BY <1>5, <1>6
<1>11. \A i \in 1 .. Len(s) : (i \in 1 .. Len(q.sent) /\ s[i] = q.sent[i]) \/ s[i] = e
  BY <1>5, <1>6
<1> HIDE DEF s
<1>12. t \in RequestType BY <1>0, <1>9, <1>10 DEF GoodRequest, RequestType
<1>13. t.kind = q.kind /\ t.caller = q.caller /\ t.tier = q.tier /\ t.sent = s
      /\ t.tooSmall = q.tooSmall /\ t.target = q.target /\ t.pc = "upstream"
  BY <1>0 DEF GoodRequest, RequestType
<1> HIDE DEF t
<1>14. TierBound(t) /\ TargetGood(t) /\ SentLater(t)
  BY <1>0, <1>13 DEF GoodRequest, TierBound, TargetGood, SentLater
<1>15. SentGood(t)
  BY <1>0, <1>7, <1>8, <1>11, <1>13 DEF GoodRequest, SentGood, SentPrivate
<1>16. GoodRequest(t) BY <1>12, <1>14, <1>15 DEF GoodRequest
<1>17. inflight' \in [Models -> Nat] BY <1>0, <1>3, InflightType DEF Send
<1>18. req' = [req EXCEPT ![r] = t] BY <1>2 DEF t
<1> QED BY <1>16, <1>17, <1>18, OneRequestMoves

(* Fields no conjunct of GoodRequest depends on may be rewritten.          *)
LEMMA GoneGood ==
  ASSUME NEW q, GoodRequest(q), NEW g \in {"no", "midway", "before"}
  PROVE GoodRequest([q EXCEPT !.gone = g])
<1> DEFINE t == [q EXCEPT !.gone = g]
<1>1. t \in RequestType BY DEF GoodRequest, RequestType
<1>2. t.kind = q.kind /\ t.caller = q.caller /\ t.tier = q.tier /\ t.sent = q.sent
      /\ t.tooSmall = q.tooSmall /\ t.target = q.target /\ t.pc = q.pc
  BY DEF GoodRequest, RequestType
<1> HIDE DEF t
<1>3. GoodRequest(t)
  BY <1>1, <1>2 DEF GoodRequest, TierBound, TargetGood, SentGood, SentPrivate, SentLater
<1> QED BY <1>3 DEF t

(* The same for the upstream's answer.                                     *)
LEMMA AnsweredGood ==
  ASSUME NEW q, GoodRequest(q), NEW a \in Statuses
  PROVE GoodRequest([q EXCEPT !.answered = a])
<1> DEFINE t == [q EXCEPT !.answered = a]
<1>1. t \in RequestType BY DEF GoodRequest, RequestType
<1>2. t.kind = q.kind /\ t.caller = q.caller /\ t.tier = q.tier /\ t.sent = q.sent
      /\ t.tooSmall = q.tooSmall /\ t.target = q.target /\ t.pc = q.pc
  BY DEF GoodRequest, RequestType
<1> HIDE DEF t
<1>3. GoodRequest(t)
  BY <1>1, <1>2 DEF GoodRequest, TierBound, TargetGood, SentGood, SentPrivate, SentLater
<1> QED BY <1>3 DEF t

(* A refusal at the top of the loop, and a client hanging up.              *)
LEMMA RefuseOrDisconnect ==
  ASSUME IInv, NEW r \in Requests, Refuse(r) \/ Disconnect(r)
  PROVE IInv'
<1>0. GoodRequest(req[r]) /\ inflight \in [Models -> Nat] BY DEF IInv
<1>1. CASE Refuse(r)
  <2>1. "403" \in Statuses BY DEF Statuses
  <2>2. GoodRequest(Finish(req[r], "403")) BY <1>0, <2>1, FinishGood
  <2>3. req' = [req EXCEPT ![r] = Finish(req[r], "403")] BY <1>1 DEF Refuse, IInv
  <2> QED BY <1>0, <1>1, <2>2, <2>3, OneRequestMoves DEF Refuse
<1>2. CASE Disconnect(r)
  <2> DEFINE g == IF req[r].pc = "attempt" THEN "before" ELSE "midway"
             t == [req[r] EXCEPT !.gone = g]
  <2>1. g \in {"no", "midway", "before"} OBVIOUS
  <2>2. req' = [req EXCEPT ![r] = t] BY <1>2 DEF Disconnect, IInv
  <2> HIDE DEF g
  <2>3. GoodRequest(t) BY <1>0, <2>1, GoneGood
  <2> QED BY <1>0, <1>2, <2>2, <2>3, OneRequestMoves DEF Disconnect
<1> QED BY <1>1, <1>2

(* An answer passed on, whole or broken off.                               *)
LEMMA PassOrAbort ==
  ASSUME IInv, NEW r \in Requests, NEW o \in Answers, PassThrough(r, o) \/ Abort(r, o)
  PROVE IInv'
<1>0. GoodRequest(req[r]) /\ inflight \in [Models -> Nat] /\ req[r].pc = "upstream"
  BY DEF IInv, PassThrough, Abort
<1>1. UpstreamStatus(o) \in Statuses BY DEF UpstreamStatus, Statuses, Answers, Silences
<1>2. CASE PassThrough(r, o)
  <2>1. GoodRequest(Report(req[r], o)) BY <1>0, ReportGood
  <2>2. GoodRequest(Finish(Report(req[r], o), UpstreamStatus(o))) BY <1>1, <2>1, FinishGood
  <2>3. req' = [req EXCEPT ![r] = Finish(Report(req[r], o), UpstreamStatus(o))]
    BY <1>2 DEF PassThrough, IInv
  <2>4. inflight' \in [Models -> Nat]
    BY <1>0, <1>2, TargetModel, InflightType DEF PassThrough
  <2> QED BY <2>2, <2>3, <2>4, OneRequestMoves
<1>3. CASE Abort(r, o)
  <2> DEFINE a == [req[r] EXCEPT !.answered = UpstreamStatus(o)]
  <2>1. GoodRequest(a) BY <1>0, <1>1, AnsweredGood
  <2>2. req' = [req EXCEPT ![r] = Finish(a, UpstreamStatus(o))] BY <1>3 DEF Abort, IInv
  <2> HIDE DEF a
  <2>3. GoodRequest(Finish(a, UpstreamStatus(o))) BY <1>1, <2>1, FinishGood
  <2> QED BY <1>0, <1>3, <2>2, <2>3, OneRequestMoves DEF Abort
<1> QED BY <1>2, <1>3

(* A failed attempt: the walk binds to a viable entry of the untried tail, *)
(* or the request is answered with a 502.                                  *)
LEMMA FailStep ==
  ASSUME IInv, NEW r \in Requests, NEW o \in Answers \cup Silences, Fail(r, o)
  PROVE IInv'
<1>0. GoodRequest(req[r]) /\ inflight \in [Models -> Nat] /\ req[r].pc = "upstream"
  BY DEF IInv, Fail
<1> DEFINE p == Report(req[r], o)
           g == IF p.gone = "midway" THEN "before" ELSE p.gone
           q == [p EXCEPT !.gone = g]
<1>1. PICK routable \in SUBSET Models, known \in Catalogues :
        LET next == NextRoleCandidate(q, routable, known) IN
        req' = [req EXCEPT ![r] =
          IF next = {} THEN Finish(q, "502")
          ELSE [BindTo(q, q.rest, First(next)) EXCEPT !.pc = "attempt", !.attempt = @ + 1]]
  BY DEF Fail
<1>2. GoodRequest(p) BY <1>0, ReportGood
<1> HIDE DEF p
<1>3. g \in {"no", "midway", "before"} BY <1>2 DEF GoodRequest, RequestType
<1> HIDE DEF g
<1>4. GoodRequest(q) BY <1>2, <1>3, GoneGood
<1> HIDE DEF q
<1> DEFINE next == NextRoleCandidate(q, routable, known)
           i == First(next)
           t == [BindTo(q, q.rest, i) EXCEPT !.pc = "attempt", !.attempt = q.attempt + 1]
<1>5. inflight' \in [Models -> Nat] BY <1>0, TargetModel, InflightType DEF Fail
<1>6. CASE next = {}
  <2>1. "502" \in Statuses BY DEF Statuses
  <2>2. GoodRequest(Finish(q, "502")) BY <1>4, <2>1, FinishGood
  <2>3. req' = [req EXCEPT ![r] = Finish(q, "502")] BY <1>1, <1>6
  <2> QED BY <1>5, <2>2, <2>3, OneRequestMoves
<1>7. CASE next # {}
  <2>1. q.rest \in Seq(Entries) /\ q.attempt \in 0 .. MaxFailoverAttempts
    BY <1>4 DEF GoodRequest, RequestType
  <2>2. q.attempt < MaxFailoverAttempts /\ next = ViableAt(q, q.rest, routable, known)
    BY <1>7 DEF NextRoleCandidate
  <2>3. next \subseteq Nat BY <2>1, <2>2, ViableAtGood
  <2>4. i \in next BY <1>7, <2>3, FirstIn
  <2>5. req' = [req EXCEPT ![r] = t]
    <3>1. BindTo(q, q.rest, i).attempt = q.attempt
      BY <1>4 DEF BindTo, GoodRequest, RequestType
    <3> QED BY <1>1, <1>7, <3>1
  <2> HIDE DEF i, next
  <2>6. MaxFailoverAttempts \in Nat BY ProxyAssumption, Zenon
  <2>7. q.attempt + 1 \in 0 .. MaxFailoverAttempts BY <2>1, <2>2, <2>6
  <2>8. i \in 1 .. Len(q.rest) /\ (q.kind = "role" => q.rest[i].id \notin LacksCapability \cup q.tooSmall)
    BY <2>1, <2>2, <2>4, ViableAtGood
  <2>9. GoodRequest(t) BY <1>4, <2>1, <2>7, <2>8, BindToGood DEF GoodRequest
  <2> QED BY <1>5, <2>5, <2>9, OneRequestMoves
<1> QED BY <1>6, <1>7

(* The invariant is inductive.                                             *)
THEOREM Inductive == Spec => []IInv
<1>1. IInv /\ [Next]_vars => IInv'
  <2> SUFFICES ASSUME IInv, [Next]_vars PROVE IInv' OBVIOUS
  <2>1. CASE UNCHANGED vars
    <3>1. req' = req /\ inflight' = inflight BY <2>1 DEF vars
    <3>2. \A r \in Requests : GoodRequest(req'[r]) BY <3>1 DEF IInv
    <3>3. (DOMAIN req)' = Requests /\ req' = [x \in Requests |-> req'[x]]
      BY <3>1 DEF IInv
    <3>4. inflight' \in [Models -> Nat] BY <3>1 DEF IInv
    <3> QED BY <3>2, <3>3, <3>4 DEF IInv, GoodRequest, RequestType, TierBound,
       EffectiveTier, TargetGood, SentGood, SentPrivate, SentLater
  <2>2. ASSUME NEW r \in Requests, HandlerStep(r) PROVE IInv'
    <3>1. CASE Reject(r) \/ Resolve(r) \/ ClassMismatch(r) \/ Begin(r) BY <3>1, EarlySteps
    <3>2. CASE Refuse(r) \/ Send(r) BY <3>2, RefuseOrDisconnect, SendStep
    <3>3. ASSUME NEW o \in Answers, PassThrough(r, o) \/ Abort(r, o) PROVE IInv'
      BY <3>3, PassOrAbort
    <3>4. ASSUME NEW o \in Answers \cup Silences, Fail(r, o) PROVE IInv' BY <3>4, FailStep
    <3> QED BY <2>2, <3>1, <3>2, <3>3, <3>4, Zenon DEF HandlerStep
  <2>3. ASSUME NEW r \in Requests, Disconnect(r) PROVE IInv'
    BY <2>3, RefuseOrDisconnect
  <2> QED BY <2>1, <2>2, <2>3 DEF Next, Finished
<1> QED BY <1>1, InitInv, PTL DEF Spec

(* Every handler and the in-flight table keep to their types, and no       *)
(* request retries more than maxFailoverAttempts times, for every fleet.   *)
THEOREM TypeCorrect == Spec => []TypeOK
<1>1. IInv => TypeOK BY DEF IInv, TypeOK, GoodRequest
<1> QED BY <1>1, Inductive, PTL

(* The caller's tier and the role's promise hold on every attempt, for     *)
(* every preference order, chain, catalogue and behaviour of the tracker.  *)
THEOREM PrivacyHeldHolds == Spec => []PrivacyHeld
<1>1. IInv => PrivacyHeld BY DEF IInv, PrivacyHeld, GoodRequest, SentGood, SentPrivate
<1> QED BY <1>1, Inductive, PTL

(* The role's capability contract and context envelope hold on every       *)
(* attempt.                                                                *)
THEOREM RoleContractHeldHolds == Spec => []RoleContractHeld
<1>1. IInv => RoleContractHeld BY DEF IInv, RoleContractHeld, GoodRequest, SentGood
<1> QED BY <1>1, Inductive, PTL

-----------------------------------------------------------------------------
(* The walk.  What a request keeps true of its place in the role's order,  *)
(* of the failures it reported and of the headers it set.                  *)
Seats == ExpandChains(RoleOrder)
Ready == {"resolved", "attempt"}
Active == Ready \cup {"upstream"}
Outcomes == {"none", "up2xx", "up4xx", "up5xx", "up503"}

IdsOf(sent) == [i \in 1 .. Len(sent) |-> sent[i].id]

(* What was sent is, in order, among the first k seats.                    *)
Traced(sent, k) ==
  \E at \in [1 .. Len(sent) -> 1 .. k] :
    /\ \A i \in DOMAIN at : Seats[at[i]].id = sent[i].id
    /\ \A i, j \in DOMAIN at : i < j => at[i] < at[j]

Blank(q) ==
  /\ q.sent = <<>> /\ q.failed = <<>> /\ q.attempt = 0 /\ q.status = "none"
  /\ q.target = NoCandidate /\ q.rest = <<>> /\ q.answered = "none"
  /\ q.hdr.overflow = FALSE /\ q.suppress = FALSE

Open(q) ==
  /\ q.pc = "new" => Blank(q) /\ q.kind = "named"
  /\ q.pc # "done" => q.status = "none"
  /\ q.answered \in Outcomes

(* A role's request stands at seat p: the tail is behind it, what was sent *)
(* is in front of it or, once the seat itself is tried, ends with it.      *)
StandsAt(q, p) ==
  /\ q.rest = SubSeq(Seats, p + 1, Len(Seats)) /\ q.target = Seats[p]
  /\ Traced(q.sent, IF q.pc \in Ready THEN p - 1 ELSE p)

Placed(q) ==
  q.kind = "role" => \/ q.sent = <<>> /\ q.pc \notin Active
                     \/ \E p \in 1 .. Len(Seats) : StandsAt(q, p)

(* failed holds the seats left behind, with the last one when it failed.   *)
Tallied(q) ==
  /\ q.pc = "resolved" => q.sent = <<>> /\ q.failed = <<>> /\ q.attempt = 0
  /\ q.pc = "attempt" => q.failed = IdsOf(q.sent) /\ Len(q.sent) = q.attempt
  /\ q.pc = "upstream" => /\ Len(q.sent) = q.attempt + 1 /\ Len(q.sent) >= 1
                          /\ Last(q.sent).id = q.target.id
                          /\ q.failed = SubSeq(IdsOf(q.sent), 1, Len(q.sent) - 1)
  /\ q.pc = "done" => Len(q.failed) <= Len(q.sent)
  /\ q.pc = "done" /\ q.status \in {"up2xx", "up4xx", "up5xx"} =>
       q.failed = SubSeq(IdsOf(q.sent), 1, Len(q.sent) - 1)
  /\ q.pc = "done" /\ q.status = "502" => q.failed = IdsOf(q.sent)

(* Headers are never taken back, so they stay true only because every      *)
(* entry behind an overflow one is an overflow one.                        *)
Marked(q) ==
  q.kind # "named" =>
    /\ OverflowLast(q.rest)
    /\ q.pc \in Active /\ q.target.overflow => AllOverflow(q.rest)
    /\ q.pc \in Active /\ q.hdr.overflow => q.target.overflow
    /\ q.pc = "upstream" => q.hdr.overflow = q.target.overflow /\ q.hdr.resolved = q.target.id
    /\ q.pc = "done" /\ q.answered # "none" /\ q.status = q.answered =>
         q.hdr.resolved = Last(q.sent).id /\ q.hdr.overflow = q.target.overflow

(* An answer is withheld for a retry only.                                 *)
Withheld(q) ==
  /\ q.pc = "upstream" /\ q.suppress => q.rest # <<>> /\ q.attempt < MaxFailoverAttempts
  /\ q.status = "502" /\ q.answered # "none" => q.rest # <<>> /\ q.attempt < MaxFailoverAttempts

Hopeless(tier) == \A i \in 1 .. Len(Seats) : ~PrivacyGate(Seats[i].id, tier)
Refused(q) ==
  q.pc = "done" /\ q.status = "403" /\ q.kind = "role" /\ q.target = NoCandidate => Hopeless(q.tier)

Walked(q) == Open(q) /\ Placed(q) /\ Tallied(q) /\ Marked(q) /\ Withheld(q) /\ Refused(q)

WInv == \A r \in Requests : Walked(req[r])

(* Sequences: tails of tails, and what was sent among the first seats.     *)
LEMMA TailOf ==
  ASSUME NEW S, NEW o \in Seq(S), NEW i \in 1 .. Len(o), NEW t, t = SubSeq(o, i + 1, Len(o))
  PROVE  /\ t \in Seq(S) /\ Len(t) = Len(o) - i
         /\ \A j \in 1 .. Len(o) - i : t[j] = o[i + j]
<1>1. Len(o) \in Nat /\ i \in Nat /\ i <= Len(o) OBVIOUS
<1>2. \A j \in i + 1 .. Len(o) : o[j] \in S BY <1>1
<1>3. /\ t \in Seq(S) /\ Len(t) = IF i + 1 <= Len(o) THEN Len(o) - (i + 1) + 1 ELSE 0
      /\ \A j \in 1 .. Len(o) - (i + 1) + 1 : t[j] = o[(i + 1) + j - 1]
  BY <1>1, <1>2, SubSeqProperties
<1>4. Len(t) = Len(o) - i BY <1>1, <1>3
<1>5. \A j \in 1 .. Len(o) - i : j \in 1 .. Len(o) - (i + 1) + 1 /\ (i + 1) + j - 1 = i + j
  BY <1>1
<1> QED BY <1>3, <1>4, <1>5

LEMMA TailOfTail ==
  ASSUME NEW S, NEW o \in Seq(S), NEW p \in 1 .. Len(o), NEW t, t = SubSeq(o, p + 1, Len(o)),
         NEW i \in 1 .. Len(t)
  PROVE  /\ p + i \in 1 .. Len(o) /\ t[i] = o[p + i] /\ p <= (p + i) - 1
         /\ SubSeq(t, i + 1, Len(t)) = SubSeq(o, (p + i) + 1, Len(o))
<1>1. Len(o) \in Nat /\ p \in Nat /\ p <= Len(o) /\ i \in Nat /\ i >= 1 OBVIOUS
<1>2. t \in Seq(S) /\ Len(t) = Len(o) - p /\ \A j \in 1 .. Len(o) - p : t[j] = o[p + j] BY TailOf
<1>3. p + i \in 1 .. Len(o) /\ p <= (p + i) - 1 BY <1>1, <1>2
<1>4. t[i] = o[p + i] BY <1>2
<1> DEFINE u == SubSeq(t, i + 1, Len(t))
           v == SubSeq(o, (p + i) + 1, Len(o))
<1>10. u = SubSeq(t, i + 1, Len(t)) /\ v = SubSeq(o, (p + i) + 1, Len(o)) OBVIOUS
<1> HIDE DEF u, v
<1>5. u \in Seq(S) /\ Len(u) = Len(t) - i /\ \A j \in 1 .. Len(t) - i : u[j] = t[i + j]
  BY <1>2, <1>10, TailOf
<1>6. v \in Seq(S) /\ Len(v) = Len(o) - (p + i) /\ \A j \in 1 .. Len(o) - (p + i) : v[j] = o[(p + i) + j]
  BY <1>3, <1>10, TailOf
<1>7. Len(u) = Len(v) /\ Len(t) - i = Len(u) /\ Len(o) - (p + i) = Len(u) BY <1>1, <1>2, <1>5, <1>6
<1>8. ASSUME NEW j \in 1 .. Len(u) PROVE u[j] = v[j]
  <2>1. u[j] = t[i + j] /\ v[j] = o[(p + i) + j] BY <1>5, <1>6, <1>7
  <2>2. i + j \in 1 .. Len(o) - p /\ p + (i + j) = (p + i) + j BY <1>1, <1>2, <1>7
  <2> QED BY <1>2, <2>1, <2>2
<1>9. u = v BY <1>5, <1>6, <1>7, <1>8, SeqEqual
<1> QED BY <1>3, <1>4, <1>9 DEF u, v

LEMMA OverflowTail ==
  ASSUME NEW S, NEW o \in Seq(S), OverflowLast(o), NEW i \in 1 .. Len(o),
         NEW t, t = SubSeq(o, i + 1, Len(o))
  PROVE  OverflowLast(t) /\ (o[i].overflow => AllOverflow(t))
<1>6. Len(o) \in Nat /\ i \in Nat BY LenProperties
<1>1. Len(o) \in Nat /\ i \in Nat /\ Len(t) = Len(o) - i /\ \A j \in 1 .. Len(o) - i : t[j] = o[i + j]
  BY <1>6, TailOf, ZenonT(60)
<1>2. \A j \in 1 .. Len(t) : i + j \in 1 .. Len(o) /\ i < i + j BY <1>1
<1>3. o[i].overflow => AllOverflow(t) BY <1>1, <1>2 DEF OverflowLast, AllOverflow
<1>4. \A j, k \in 1 .. Len(t) : j < k => i + j < i + k BY <1>1
<1>5. OverflowLast(t) BY <1>1, <1>2, <1>4 DEF OverflowLast
<1> QED BY <1>3, <1>5

LEMMA TracedNothing ==
  ASSUME NEW k
  PROVE  Traced(<<>>, k)
<1>1. 1 .. Len(<<>>) = {} OBVIOUS
<1>2. <<>> \in [1 .. Len(<<>>) -> 1 .. k] /\ DOMAIN <<>> = {} BY <1>1
<1> QED BY <1>2 DEF Traced

LEMMA TracedFurther ==
  ASSUME NEW s, NEW k \in Int, NEW m \in Int, k <= m, Traced(s, k)
  PROVE  Traced(s, m)
<1>1. 1 .. k \subseteq 1 .. m OBVIOUS
<1>2. PICK at \in [1 .. Len(s) -> 1 .. k] :
        /\ \A i \in DOMAIN at : Seats[at[i]].id = s[i].id
        /\ \A i, j \in DOMAIN at : i < j => at[i] < at[j]
  BY DEF Traced
<1>3. at \in [1 .. Len(s) -> 1 .. m] BY <1>1, <1>2
<1> QED BY <1>2, <1>3 DEF Traced

LEMMA TracedAppend ==
  ASSUME NEW S, NEW s \in Seq(S), NEW e \in S, NEW p \in Nat \ {0},
         Traced(s, p - 1), Seats[p].id = e.id
  PROVE  Traced(Append(s, e), p)
<1> DEFINE n == Len(s)
           w == Append(s, e)
<1>1. n \in Nat /\ Len(w) = n + 1 /\ w[n + 1] = e /\ \A i \in 1 .. n : w[i] = s[i]
  BY LenProperties, AppendProperties
<1>2. PICK at \in [1 .. n -> 1 .. p - 1] :
        /\ \A i \in DOMAIN at : Seats[at[i]].id = s[i].id
        /\ \A i, j \in DOMAIN at : i < j => at[i] < at[j]
  BY DEF Traced
<1> DEFINE b == [i \in 1 .. n + 1 |-> IF i = n + 1 THEN p ELSE at[i]]
<1>3. \A i \in 1 .. n + 1 : i = n + 1 \/ (i \in 1 .. n /\ i # n + 1) BY <1>1
<1>4. 1 .. p - 1 \subseteq 1 .. p /\ p \in 1 .. p /\ \A x \in 1 .. p - 1 : x < p OBVIOUS
<1>5. \A i \in 1 .. n : at[i] \in 1 .. p - 1 OBVIOUS
<1>6. b \in [1 .. n + 1 -> 1 .. p] BY <1>3, <1>4, <1>5
<1>7. b[n + 1] = p /\ \A i \in 1 .. n : b[i] = at[i] BY <1>1
<1>8. DOMAIN b = 1 .. n + 1 /\ DOMAIN at = 1 .. n OBVIOUS
<1> HIDE DEF b, w
<1>9. \A i \in 1 .. n + 1 : Seats[b[i]].id = w[i].id BY <1>1, <1>2, <1>3, <1>7, <1>8
<1>10. ASSUME NEW i \in 1 .. n + 1, NEW j \in 1 .. n + 1, i < j PROVE b[i] < b[j]
  <2>1. i \in 1 .. n BY <1>1, <1>10
  <2>2. CASE j = n + 1 BY <1>4, <1>5, <1>7, <2>1, <2>2
  <2>3. CASE j \in 1 .. n BY <1>2, <1>7, <1>8, <1>10, <2>1, <2>3
  <2> QED BY <1>3, <2>2, <2>3
<1>11. Traced(w, p) BY <1>1, <1>6, <1>8, <1>9, <1>10 DEF Traced
<1> QED BY <1>11 DEF w

(* The seats sent to, with one more, and without the last one.             *)
LEMMA IdsType ==
  ASSUME NEW s \in Seq([id : Models, zdr : BOOLEAN])
  PROVE  IdsOf(s) \in Seq(Models) /\ Len(IdsOf(s)) = Len(s)
<1>3. Len(s) \in Nat /\ \A i \in 1 .. Len(s) : s[i] \in [id : Models, zdr : BOOLEAN]
  BY ElementOfSeq, LenProperties, Zenon
<1>4. \A e \in [id : Models, zdr : BOOLEAN] : e.id \in Models OBVIOUS
<1>1. Len(s) \in Nat /\ \A i \in 1 .. Len(s) : s[i].id \in Models BY <1>3, <1>4
<1>2. IdsOf(s) \in [1 .. Len(s) -> Models] BY <1>1 DEF IdsOf
<1> QED BY <1>1, <1>2, FcnIsSeq

LEMMA IdsAppend ==
  ASSUME NEW s \in Seq([id : Models, zdr : BOOLEAN]), NEW e \in [id : Models, zdr : BOOLEAN],
         NEW w, w = Append(s, e)
  PROVE  /\ Len(w) = Len(s) + 1 /\ Last(w) = e
         /\ SubSeq(IdsOf(w), 1, Len(w) - 1) = IdsOf(s)
<1>1. /\ Len(s) \in Nat /\ Len(w) = Len(s) + 1 /\ w[Len(s) + 1] = e
      /\ \A i \in 1 .. Len(s) : w[i] = s[i]
      /\ w \in Seq([id : Models, zdr : BOOLEAN])
  BY LenProperties, AppendProperties
<1>2. Last(w) = e BY <1>1 DEF Last
<1> DEFINE a == IdsOf(s)
           b == IdsOf(w)
           c == SubSeq(b, 1, Len(w) - 1)
<1>3. a \in Seq(Models) /\ Len(a) = Len(s) /\ b \in Seq(Models) /\ Len(b) = Len(w) BY <1>1, IdsType
<1>4. \A i \in 1 .. Len(s) : a[i] = s[i].id BY DEF IdsOf
<1>5. \A i \in 1 .. Len(w) : b[i] = w[i].id BY DEF IdsOf
<1>6. Len(w) - 1 = Len(s) /\ 1 \in Int /\ Len(s) \in Int /\ 1 .. Len(s) \subseteq 1 .. Len(w) BY <1>1
<1> HIDE DEF a, b
<1>7. \A i \in 1 .. Len(s) : b[i] \in Models BY <1>3, <1>6
<1>8. /\ c \in Seq(Models) /\ Len(c) = IF 1 <= Len(s) THEN Len(s) - 1 + 1 ELSE 0
      /\ \A i \in 1 .. Len(s) - 1 + 1 : c[i] = b[1 + i - 1]
  BY <1>6, <1>7, SubSeqProperties
<1> HIDE DEF c
<1>9. Len(c) = Len(s) /\ \A i \in 1 .. Len(s) : c[i] = b[i] BY <1>1, <1>8
<1>10. \A i \in 1 .. Len(s) : c[i] = a[i] BY <1>1, <1>4, <1>5, <1>6, <1>9
<1>11. c = a BY <1>3, <1>8, <1>9, <1>10, SeqEqual
<1> QED BY <1>1, <1>2, <1>11 DEF a, b, c

LEMMA IdsCharged ==
  ASSUME NEW s \in Seq([id : Models, zdr : BOOLEAN]), Len(s) >= 1,
         NEW f, f = SubSeq(IdsOf(s), 1, Len(s) - 1)
  PROVE  f \in Seq(Models) /\ Len(f) = Len(s) - 1 /\ Append(f, Last(s).id) = IdsOf(s)
<1> DEFINE a == IdsOf(s)
           n == Len(s)
<1>1. a \in Seq(Models) /\ Len(a) = n /\ n \in Nat BY IdsType, LenProperties
<1>2. \A i \in 1 .. n : a[i] = s[i].id BY DEF IdsOf
<1>3. f = SubSeq(a, 1, n - 1) OBVIOUS
<1> HIDE DEF a
<1>4. n >= 1 OBVIOUS
<1> HIDE DEF n
<1>5. n - 1 \in Int /\ 1 \in Int /\ n \in 1 .. n /\ \A i \in 1 .. n - 1 : i \in 1 .. n BY <1>1, <1>4
<1>6. \A i \in 1 .. n - 1 : a[i] \in Models BY <1>1, <1>5
<1>7. /\ f \in Seq(Models) /\ Len(f) = IF 1 <= n - 1 THEN (n - 1) - 1 + 1 ELSE 0
      /\ \A i \in 1 .. (n - 1) - 1 + 1 : f[i] = a[1 + i - 1]
  BY <1>3, <1>5, <1>6, SubSeqProperties
<1>8. Len(f) = n - 1 /\ \A i \in 1 .. n - 1 : f[i] = a[i] BY <1>1, <1>4, <1>7
<1>9. a[n] \in Models /\ a[n] = Last(s).id BY <1>1, <1>2, <1>5 DEF Last, n
<1> DEFINE w == Append(f, a[n])
<1>10. w \in Seq(Models) /\ Len(w) = Len(f) + 1 /\ w[Len(f) + 1] = a[n] /\ \A i \in 1 .. Len(f) : w[i] = f[i]
  BY <1>7, <1>9, AppendProperties
<1> HIDE DEF w
<1>11. Len(w) = n /\ Len(f) + 1 = n BY <1>1, <1>8, <1>10
<1>12. \A i \in 1 .. n : w[i] = a[i]
  <2>1. \A i \in 1 .. n : i = n \/ i \in 1 .. n - 1 BY <1>1
  <2> QED BY <1>8, <1>10, <1>11, <2>1
<1>13. w = a BY <1>1, <1>10, <1>11, <1>12, SeqEqual
<1> QED BY <1>7, <1>8, <1>9, <1>13 DEF w, n, a

(* An entry of an order is a candidate.                                    *)
LEMMA EntryIsCandidate == NoCandidate \notin Entries
<1>1. "" \notin Models BY ProxyAssumption, Zenon DEF Names
<1>2. NoCandidate.id = "" BY Zenon DEF NoCandidate
<1>3. \A e \in Entries : e.id \in Models BY DEF Entries
<1> QED BY <1>1, <1>2, <1>3, Zenon

SentType == Seq([id : Models, zdr : BOOLEAN])

LEMMA SentFacts ==
  ASSUME NEW q, GoodRequest(q)
  PROVE  /\ q.sent \in SentType /\ q.failed \in Seq(Models) /\ q.rest \in Seq(Entries)
         /\ Len(q.sent) \in Nat /\ Len(q.failed) \in Nat /\ q.attempt \in Nat
         /\ q.hdr.overflow \in BOOLEAN
<1>1. /\ q.sent \in SentType /\ q.failed \in Seq(Models) /\ q.rest \in Seq(Entries)
      /\ q.attempt \in 0 .. MaxFailoverAttempts
      /\ q.hdr \in [resolved : Models \cup {""}, chain : Chains \cup {""}, overflow : BOOLEAN]
  BY DEF GoodRequest, RequestType, SentType
<1>2. q.hdr.overflow \in BOOLEAN BY <1>1
<1>3. Len(q.sent) \in Nat BY <1>1, LenProperties, Zenon DEF SentType
<1>5. Len(q.failed) \in Nat BY <1>1, LenProperties, Zenon
<1>6. \A n \in 0 .. MaxFailoverAttempts : n \in Nat OBVIOUS
<1>4. Len(q.failed) \in Nat /\ q.attempt \in Nat BY <1>1, <1>5, <1>6
<1> QED BY <1>1, <1>2, <1>3, <1>4

(* Answered by the router itself, before anything of this attempt is sent. *)
LEMMA FinishWalked ==
  ASSUME NEW q, GoodRequest(q), Walked(q), q.pc \in Ready, NEW s \in {"400", "403"}
  PROVE  Walked(Finish(q, s))
<1> DEFINE t == Finish(q, s)
<1>1. /\ t.pc = "done" /\ t.status = s /\ t.kind = q.kind /\ t.sent = q.sent /\ t.failed = q.failed
      /\ t.rest = q.rest /\ t.target = q.target /\ t.attempt = q.attempt /\ t.hdr = q.hdr
      /\ t.answered = q.answered /\ t.tier = q.tier /\ t.suppress = q.suppress
  BY DEF GoodRequest, RequestType, Finish
<1> HIDE DEF t
<1>2. Open(t) BY <1>1 DEF Walked, Open
<1>3. Placed(t)
  <2>1. SUFFICES ASSUME q.kind = "role" PROVE \E p \in 1 .. Len(Seats) : StandsAt(t, p)
    BY <1>1 DEF Placed
  <2>2. PICK p \in 1 .. Len(Seats) : StandsAt(q, p)
    BY <2>1 DEF Walked, Placed, Active
  <2>3. Traced(q.sent, p - 1) BY <2>2 DEF StandsAt
  <2>4. p - 1 \in Int /\ p \in Int /\ p - 1 <= p OBVIOUS
  <2>5. Traced(q.sent, p) BY <2>3, <2>4, TracedFurther
  <2>6. StandsAt(t, p) BY <1>1, <2>2, <2>5 DEF StandsAt, Ready
  <2> QED BY <2>6
<1>4. Tallied(t)
  <2>1. Len(q.failed) <= Len(q.sent)
    <3>1. CASE q.pc = "resolved"
      <4>1. q.failed = q.sent BY <3>1 DEF Walked, Tallied
      <4> QED BY <4>1, SentFacts
    <3>2. CASE q.pc = "attempt"
      <4>1. q.failed = IdsOf(q.sent) BY <3>2 DEF Walked, Tallied
      <4>2. Len(q.failed) = Len(q.sent) BY <4>1, SentFacts, IdsType DEF SentType
      <4> QED BY <4>2, SentFacts
    <3> QED BY <3>1, <3>2 DEF Ready
  <2> QED BY <1>1, <2>1 DEF Tallied
<1>5. Marked(t) BY <1>1, <1>2 DEF Walked, Open, Marked, Outcomes, Active, Ready
<1>6. Withheld(t) BY <1>1 DEF Withheld
<1>7. Refused(t)
  <2>1. q.target \in Entries BY DEF GoodRequest, TargetGood, Ready
  <2> QED BY <1>1, <2>1, EntryIsCandidate DEF Refused
<1>8. Walked(t) BY <1>2, <1>3, <1>4, <1>5, <1>6, <1>7 DEF Walked
<1> QED BY <1>8 DEF t

(* A request that was never bound is answered.                             *)
LEMMA RefusalWalked ==
  ASSUME NEW q, q \in RequestType, Blank(q), NEW s \in {"400", "403", "404", "503"},
         s = "403" /\ q.kind = "role" => Hopeless(q.tier)
  PROVE  Walked(Finish(q, s))
<1> DEFINE t == Finish(q, s)
<1>1. /\ t.pc = "done" /\ t.status = s /\ t.kind = q.kind /\ t.sent = q.sent /\ t.failed = q.failed
      /\ t.rest = q.rest /\ t.target = q.target /\ t.attempt = q.attempt /\ t.hdr = q.hdr
      /\ t.answered = q.answered /\ t.tier = q.tier /\ t.suppress = q.suppress
  BY DEF RequestType, Finish
<1> HIDE DEF t
<1>2. Open(t) BY <1>1 DEF Open, Blank, Outcomes
<1>3. Placed(t) BY <1>1 DEF Placed, Blank, Active, Ready
<1>4. Tallied(t)
  <2>1. Len(<<>>) <= Len(<<>>) OBVIOUS
  <2> QED BY <1>1, <2>1 DEF Tallied, Blank
<1>5. Marked(t)
  <2>1. 1 .. Len(<<>>) = {} OBVIOUS
  <2>2. OverflowLast(<<>>) BY <2>1 DEF OverflowLast
  <2> QED BY <1>1, <2>2 DEF Marked, Blank, Active, Ready
<1>6. Withheld(t) /\ Refused(t) BY <1>1 DEF Withheld, Refused
<1>7. Walked(t) BY <1>2, <1>3, <1>4, <1>5, <1>6 DEF Walked
<1> QED BY <1>7 DEF t

(* A request is bound to an entry of its order.                            *)
LEMMA BoundWalked ==
  ASSUME NEW q, q \in RequestType, Blank(q), NEW order \in Seq(Entries), OverflowLast(order),
         q.kind = "role" => order = Seats, NEW i \in 1 .. Len(order)
  PROVE  Walked([BindTo(q, order, i) EXCEPT !.pc = "resolved"])
<1> DEFINE t == [BindTo(q, order, i) EXCEPT !.pc = "resolved"]
           tail == SubSeq(order, i + 1, Len(order))
<1>1. /\ t.pc = "resolved" /\ t.status = q.status /\ t.kind = q.kind /\ t.sent = q.sent
      /\ t.failed = q.failed /\ t.rest = tail /\ t.target = order[i] /\ t.attempt = q.attempt
      /\ t.hdr = q.hdr /\ t.answered = q.answered /\ t.tier = q.tier
  BY DEF RequestType, BindTo
<1>9. tail = SubSeq(order, i + 1, Len(order)) OBVIOUS
<1> HIDE DEF t, tail
<1>2. OverflowLast(tail) /\ (order[i].overflow => AllOverflow(tail))
  BY <1>9, OverflowTail
<1>3. Open(t) BY <1>1 DEF Open, Blank, Outcomes
<1>4. Placed(t)
  <2>1. SUFFICES ASSUME q.kind = "role" PROVE \E p \in 1 .. Len(Seats) : StandsAt(t, p)
    BY <1>1 DEF Placed
  <2>2. Traced(t.sent, i - 1) BY <1>1, TracedNothing DEF Blank
  <2>3. StandsAt(t, i) BY <1>1, <1>9, <2>1, <2>2 DEF StandsAt, Ready
  <2> QED BY <2>1, <2>3
<1>5. Tallied(t) BY <1>1 DEF Tallied, Blank
<1>6. Marked(t) BY <1>1, <1>2 DEF Marked, Blank, Active, Ready
<1>7. Withheld(t) /\ Refused(t) BY <1>1 DEF Withheld, Refused, Blank
<1>8. Walked(t) BY <1>3, <1>4, <1>5, <1>6, <1>7 DEF Walked
<1> QED BY <1>8 DEF t

LEMMA ResolveToWalked ==
  ASSUME NEW q, q \in RequestType, Blank(q), NEW name \in Names \cup {"role"}, q.kind = KindOf(name),
         NEW routable, NEW known
  PROVE  Walked(ResolveTo(q, name, routable, known))
<1> DEFINE order == OrderOf(name)
           viable == IF q.kind = "named" THEN {i \in {1} : name \in known}
                     ELSE ViableAt(q, order, routable, known)
           refusal == Refusal(q, order, known)
<1>1. ResolveTo(q, name, routable, known) =
        IF viable = {} THEN Finish(q, refusal)
        ELSE [BindTo(q, order, First(viable)) EXCEPT !.pc = "resolved"]
  BY DEF ResolveTo
<1>2. order \in Seq(Entries) /\ OverflowLast(order) BY OrderOfType
<1>3. q.kind = "role" => order = Seats BY DEF OrderOf, Seats
<1>4. viable \subseteq 1 .. Len(order)
  <2>1. CASE q.kind = "named"
    <3>1. Len(order) = 1 BY <2>1 DEF OrderOf, Plain
    <3> QED BY <2>1, <3>1
  <2>2. CASE q.kind # "named"
    BY <1>2, <2>2, ViableAtGood
  <2> QED BY <2>1, <2>2
<1>5. refusal \in {"403", "404", "503"} BY DEF Refusal
<1>6. refusal = "403" /\ q.kind = "role" => Hopeless(q.tier)
  <2>1. SUFFICES ASSUME refusal = "403", q.kind = "role" PROVE Hopeless(q.tier) OBVIOUS
  <2>2. Excluded(q, order, known) = 1 .. Len(order) BY <2>1 DEF Refusal
  <2>3. \A i \in 1 .. Len(order) : ~PrivacyGate(order[i].id, q.tier) BY <2>2 DEF Excluded
  <2> QED BY <1>3, <2>1, <2>3 DEF Hopeless
<1>7. viable \subseteq Nat BY <1>2, <1>4
<1> HIDE DEF order, viable, refusal
<1>8. CASE viable # {}
  <2>1. First(viable) \in viable BY <1>7, <1>8, FirstIn
  <2>2. First(viable) \in 1 .. Len(order) BY <1>4, <2>1
  <2> QED BY <1>1, <1>2, <1>3, <1>8, <2>2, BoundWalked
<1>9. CASE viable = {}
  BY <1>1, <1>5, <1>6, <1>9, RefusalWalked
<1> QED BY <1>8, <1>9

(* Forwarding begins; the client hangs up.                                 *)
LEMMA BeginWalked ==
  ASSUME NEW q, GoodRequest(q), Walked(q), q.pc = "resolved"
  PROVE  Walked([q EXCEPT !.pc = "attempt"])
<1> DEFINE t == [q EXCEPT !.pc = "attempt"]
<1>1. /\ t.pc = "attempt" /\ t.status = q.status /\ t.kind = q.kind /\ t.sent = q.sent
      /\ t.failed = q.failed /\ t.rest = q.rest /\ t.target = q.target /\ t.attempt = q.attempt
      /\ t.hdr = q.hdr /\ t.answered = q.answered /\ t.tier = q.tier
  BY DEF GoodRequest, RequestType
<1> HIDE DEF t
<1>2. Open(t) BY <1>1 DEF Walked, Open
<1>3. Placed(t) BY <1>1 DEF Walked, Placed, StandsAt, Ready, Active
<1>4. Tallied(t)
  <2>1. IdsOf(<<>>) = <<>> /\ Len(<<>>) = 0 BY DEF IdsOf
  <2> QED BY <1>1, <2>1 DEF Walked, Tallied
<1>5. Marked(t) BY <1>1 DEF Walked, Marked, Active, Ready
<1>6. Withheld(t) /\ Refused(t) BY <1>1 DEF Walked, Withheld, Refused, Open
<1>7. Walked(t) BY <1>2, <1>3, <1>4, <1>5, <1>6 DEF Walked
<1> QED BY <1>7 DEF t

LEMMA GoneWalked ==
  ASSUME NEW q, GoodRequest(q), Walked(q), NEW g
  PROVE  Walked([q EXCEPT !.gone = g])
<1> DEFINE t == [q EXCEPT !.gone = g]
<1>1. /\ t.pc = q.pc /\ t.status = q.status /\ t.kind = q.kind /\ t.sent = q.sent
      /\ t.failed = q.failed /\ t.rest = q.rest /\ t.target = q.target /\ t.attempt = q.attempt
      /\ t.hdr = q.hdr /\ t.answered = q.answered /\ t.tier = q.tier /\ t.suppress = q.suppress
  BY DEF GoodRequest, RequestType
<1> HIDE DEF t
<1>2. Open(t) BY <1>1 DEF Walked, Open, Blank
<1>3. Placed(t) BY <1>1 DEF Walked, Placed, StandsAt
<1>4. Tallied(t) BY <1>1 DEF Walked, Tallied
<1>5. Marked(t) BY <1>1 DEF Walked, Marked
<1>6. Withheld(t) /\ Refused(t) BY <1>1 DEF Walked, Withheld, Refused
<1>7. Walked(t) BY <1>2, <1>3, <1>4, <1>5, <1>6 DEF Walked
<1> QED BY <1>7 DEF t

(* An attempt goes upstream: the seat joins what was sent, and the headers *)
(* name it.                                                                *)
LEMMA SendWalked ==
  ASSUME NEW q, GoodRequest(q), Walked(q), q.pc = "attempt", NEW b \in BOOLEAN,
         NEW e \in [id : Models, zdr : BOOLEAN], e.id = q.target.id,
         b => q.rest # <<>> /\ q.attempt < MaxFailoverAttempts
  PROVE  Walked([q EXCEPT !.pc = "upstream", !.hdr = SetHeaders(q), !.suppress = b,
                          !.sent = Append(q.sent, e)])
<1> DEFINE h == SetHeaders(q)
           s == Append(q.sent, e)
           t == [q EXCEPT !.pc = "upstream", !.hdr = h, !.suppress = b, !.sent = s]
<1>0. q.kind # "named" => h.resolved = q.target.id /\ h.overflow = (q.hdr.overflow \/ q.target.overflow)
  BY DEF SetHeaders
<1>s. s = Append(q.sent, e) OBVIOUS
<1> HIDE DEF h, s
<1>1. /\ t.pc = "upstream" /\ t.status = q.status /\ t.kind = q.kind /\ t.sent = s
      /\ t.failed = q.failed /\ t.rest = q.rest /\ t.target = q.target /\ t.attempt = q.attempt
      /\ t.hdr = h /\ t.answered = q.answered /\ t.tier = q.tier /\ t.suppress = b
  BY DEF GoodRequest, RequestType
<1> HIDE DEF t
<1>2. q.sent \in SentType /\ q.sent \in Seq([id : Models, zdr : BOOLEAN]) /\ Len(q.sent) \in Nat
  BY SentFacts DEF SentType
<1>3. Open(t) BY <1>1 DEF Walked, Open
<1>4. Placed(t)
  <2>1. SUFFICES ASSUME q.kind = "role" PROVE \E p \in 1 .. Len(Seats) : StandsAt(t, p)
    BY <1>1 DEF Placed
  <2>2. PICK p \in 1 .. Len(Seats) : StandsAt(q, p)
    BY <2>1 DEF Walked, Placed, Active, Ready
  <2>3. Traced(q.sent, p - 1) /\ Seats[p].id = e.id BY <2>2 DEF StandsAt, Ready
  <2>4. p \in Nat \ {0} OBVIOUS
  <2>5. Traced(s, p) BY <1>2, <1>s, <2>3, <2>4, TracedAppend
  <2>6. StandsAt(t, p) BY <1>1, <2>2, <2>5 DEF StandsAt, Ready
  <2> QED BY <2>6
<1>5. Tallied(t)
  <2>1. Len(s) = Len(q.sent) + 1 /\ Last(s) = e /\ SubSeq(IdsOf(s), 1, Len(s) - 1) = IdsOf(q.sent)
    BY <1>2, <1>s, IdsAppend
  <2>2. Len(s) >= 1 BY <1>2, <2>1
  <2>3. q.failed = IdsOf(q.sent) /\ Len(q.sent) = q.attempt BY DEF Walked, Tallied
  <2> QED BY <1>1, <2>1, <2>2, <2>3 DEF Tallied
<1>6. Marked(t)
  <2>1. SUFFICES ASSUME q.kind # "named" PROVE Marked(t) BY <1>1 DEF Marked
  <2>2. q.target.overflow \in BOOLEAN BY DEF GoodRequest, TargetGood, Entries
  <2>3. q.hdr.overflow => q.target.overflow BY <2>1 DEF Walked, Marked, Active, Ready
  <2>4. h.overflow = q.target.overflow /\ h.resolved = q.target.id
    BY <1>0, <2>1, <2>2, <2>3, SentFacts
  <2> QED BY <1>1, <2>1, <2>4 DEF Walked, Marked, Active, Ready
<1>7. Withheld(t) /\ Refused(t) BY <1>1 DEF Walked, Withheld, Refused, Open
<1>8. Walked(t) BY <1>3, <1>4, <1>5, <1>6, <1>7 DEF Walked
<1> QED BY <1>8 DEF t, h, s

(* The upstream's answer is the client's: charged or not, broken off or    *)
(* not.  f is what the request has then reported.                          *)
LEMMA AnswerWalked ==
  ASSUME NEW q, GoodRequest(q), Walked(q), q.pc = "upstream", NEW a \in Outcomes \ {"none"},
         NEW t, t.pc = "done", t.status = a, t.answered = a,
         t.kind = q.kind, t.sent = q.sent, t.rest = q.rest, t.target = q.target,
         t.hdr = q.hdr, t.tier = q.tier,
         t.failed = q.failed \/ (a = "up503" /\ t.failed = Append(q.failed, q.target.id))
  PROVE  Walked(t)
<1>1. Open(t) BY DEF Open
<1>2. Placed(t)
  <2>1. SUFFICES ASSUME q.kind = "role" PROVE \E p \in 1 .. Len(Seats) : StandsAt(t, p)
    BY DEF Placed
  <2>2. PICK p \in 1 .. Len(Seats) : StandsAt(q, p)
    BY <2>1 DEF Walked, Placed, Active
  <2>3. StandsAt(t, p) BY <2>2 DEF StandsAt, Ready
  <2> QED BY <2>3
<1>3. Tallied(t)
  <2>1. /\ q.failed = SubSeq(IdsOf(q.sent), 1, Len(q.sent) - 1) /\ Last(q.sent).id = q.target.id
        /\ Len(q.sent) >= 1
    BY DEF Walked, Tallied
  <2>2. q.sent \in Seq([id : Models, zdr : BOOLEAN]) /\ Len(q.sent) \in Nat BY SentFacts DEF SentType
  <2>3. Len(q.failed) = Len(q.sent) - 1 /\ Append(q.failed, q.target.id) = IdsOf(q.sent)
    BY <2>1, <2>2, IdsCharged
  <2>4. Len(IdsOf(q.sent)) = Len(q.sent) BY <2>2, IdsType
  <2>5. Len(q.failed) <= Len(q.sent) /\ Len(q.sent) <= Len(q.sent) BY <2>2, <2>3
  <2>6. Len(t.failed) <= Len(t.sent) BY <2>3, <2>4, <2>5
  <2> QED BY <2>1, <2>6 DEF Tallied, Outcomes
<1>4. Marked(t)
  <2>1. Last(q.sent).id = q.target.id BY DEF Walked, Tallied
  <2> QED BY <2>1 DEF Walked, Marked, Active, Ready
<1>5. Withheld(t) /\ Refused(t) BY DEF Withheld, Refused, Outcomes
<1> QED BY <1>1, <1>2, <1>3, <1>4, <1>5 DEF Walked

(* The attempt failed and the request with it.                             *)
LEMMA GiveUpWalked ==
  ASSUME NEW q, GoodRequest(q), Walked(q), q.pc = "upstream",
         NEW t, t.pc = "done", t.status = "502", t.answered \in Outcomes,
         t.answered # "none" => q.suppress,
         t.kind = q.kind, t.sent = q.sent, t.rest = q.rest, t.target = q.target,
         t.hdr = q.hdr, t.tier = q.tier, t.attempt = q.attempt,
         t.failed = Append(q.failed, q.target.id)
  PROVE  Walked(t)
<1>1. Open(t) BY DEF Open
<1>2. Placed(t)
  <2>1. SUFFICES ASSUME q.kind = "role" PROVE \E p \in 1 .. Len(Seats) : StandsAt(t, p)
    BY DEF Placed
  <2>2. PICK p \in 1 .. Len(Seats) : StandsAt(q, p)
    BY <2>1 DEF Walked, Placed, Active
  <2>3. StandsAt(t, p) BY <2>2 DEF StandsAt, Ready
  <2> QED BY <2>3
<1>3. Tallied(t)
  <2>1. /\ q.failed = SubSeq(IdsOf(q.sent), 1, Len(q.sent) - 1) /\ Last(q.sent).id = q.target.id
        /\ Len(q.sent) >= 1
    BY DEF Walked, Tallied
  <2>2. q.sent \in Seq([id : Models, zdr : BOOLEAN]) /\ Len(q.sent) \in Nat BY SentFacts DEF SentType
  <2>3. t.failed = IdsOf(t.sent) BY <2>1, <2>2, IdsCharged
  <2>4. Len(IdsOf(t.sent)) = Len(t.sent) BY <2>2, IdsType
  <2>5. Len(t.sent) <= Len(t.sent) BY <2>2
  <2>6. Len(t.failed) <= Len(t.sent) BY <2>3, <2>4, <2>5
  <2> QED BY <2>3, <2>6 DEF Tallied
<1>4. Marked(t) BY DEF Walked, Marked, Active, Ready, Outcomes
<1>5. Withheld(t) /\ Refused(t) BY DEF Walked, Withheld, Refused
<1> QED BY <1>1, <1>2, <1>3, <1>4, <1>5 DEF Walked

(* The attempt failed and the walk goes on, with entry i of the tail.      *)
LEMMA RetryWalked ==
  ASSUME NEW q, GoodRequest(q), Walked(q), q.pc = "upstream", NEW i \in 1 .. Len(q.rest),
         NEW t, t.pc = "attempt", t.status = q.status, t.answered \in Outcomes,
         t.kind = q.kind, q.kind # "named", t.sent = q.sent, t.target = q.rest[i],
         t.rest = SubSeq(q.rest, i + 1, Len(q.rest)),
         t.hdr = q.hdr, t.tier = q.tier, t.attempt = q.attempt + 1,
         t.failed = Append(q.failed, q.target.id)
  PROVE  Walked(t)
<1>1. Open(t) BY DEF Walked, Open
<1>2. q.rest \in Seq(Entries) BY SentFacts
<1>3. Placed(t)
  <2>1. SUFFICES ASSUME q.kind = "role" PROVE \E p \in 1 .. Len(Seats) : StandsAt(t, p)
    BY DEF Placed
  <2>2. PICK p \in 1 .. Len(Seats) : StandsAt(q, p)
    BY <2>1 DEF Walked, Placed, Active
  <2>3. q.rest = SubSeq(Seats, p + 1, Len(Seats)) /\ Traced(q.sent, p) BY <2>2 DEF StandsAt, Ready
  <2>4. Seats \in Seq(Entries) BY RoleSeats DEF Seats
  <2> HIDE DEF Seats
  <2>5. /\ p + i \in 1 .. Len(Seats) /\ q.rest[i] = Seats[p + i] /\ p <= (p + i) - 1
        /\ t.rest = SubSeq(Seats, (p + i) + 1, Len(Seats))
    BY <2>3, <2>4, TailOfTail
  <2>6. p \in Int /\ (p + i) - 1 \in Int OBVIOUS
  <2>7. Traced(t.sent, (p + i) - 1) BY <2>3, <2>5, <2>6, TracedFurther
  <2>8. StandsAt(t, p + i) BY <2>5, <2>7 DEF StandsAt, Ready
  <2> QED BY <2>5, <2>8
<1>4. Tallied(t)
  <2>1. /\ q.failed = SubSeq(IdsOf(q.sent), 1, Len(q.sent) - 1) /\ Last(q.sent).id = q.target.id
        /\ Len(q.sent) >= 1 /\ Len(q.sent) = q.attempt + 1
    BY DEF Walked, Tallied
  <2>2. q.sent \in Seq([id : Models, zdr : BOOLEAN]) BY SentFacts DEF SentType
  <2>3. t.failed = IdsOf(t.sent) BY <2>1, <2>2, IdsCharged
  <2> QED BY <2>1, <2>3 DEF Tallied
<1>5. Marked(t)
  <2>1. OverflowLast(q.rest) /\ (q.target.overflow => AllOverflow(q.rest))
        /\ q.hdr.overflow = q.target.overflow
    BY DEF Walked, Marked, Active
  <2>2. OverflowLast(t.rest) /\ (q.rest[i].overflow => AllOverflow(t.rest))
    BY <1>2, <2>1, OverflowTail
  <2>3. q.hdr.overflow => q.rest[i].overflow BY <2>1 DEF AllOverflow
  <2> QED BY <2>2, <2>3 DEF Marked, Active, Ready
<1>6. Withheld(t) /\ Refused(t) BY DEF Walked, Withheld, Refused, Open
<1> QED BY <1>1, <1>3, <1>4, <1>5, <1>6 DEF Walked

LEMMA NewWalked == Walked(NewRequest)
<1>1. /\ NewRequest.pc = "new" /\ NewRequest.kind = "named" /\ Blank(NewRequest)
  BY DEF NewRequest, Blank
<1>2. Open(NewRequest) BY <1>1 DEF Open, Blank, Outcomes
<1>3. Placed(NewRequest) /\ Tallied(NewRequest) /\ Marked(NewRequest)
  BY <1>1 DEF Placed, Tallied, Marked
<1>4. Withheld(NewRequest) /\ Refused(NewRequest) BY <1>1 DEF Withheld, Refused, Blank
<1> QED BY <1>2, <1>3, <1>4 DEF Walked

(* A step moves one request, and leaves the others where they are.         *)
LEMMA OneWalks ==
  ASSUME IInv, WInv, NEW r \in Requests, NEW t, Walked(t), req' = [req EXCEPT ![r] = t]
  PROVE  WInv'
<1>1. req' = [x \in Requests |-> IF x = r THEN t ELSE req[x]] BY DEF IInv
<1>2. \A x \in Requests : req'[x] = IF x = r THEN t ELSE req[x] BY <1>1
<1> QED BY <1>2 DEF WInv

LEMMA EarlyWalks ==
  ASSUME IInv, WInv, NEW r \in Requests, Reject(r) \/ Resolve(r) \/ ClassMismatch(r) \/ Begin(r)
  PROVE  WInv'
<1> DEFINE q == req[r]
<1>0. GoodRequest(q) /\ q \in RequestType /\ Walked(q) /\ DOMAIN req = Requests
  BY DEF IInv, WInv, GoodRequest
<1>1. q.pc = "new" => Blank(q) /\ q.kind = "named" BY <1>0 DEF Walked, Open
<1>2. CASE Reject(r)
  <2>1. q.pc = "new" BY <1>2 DEF Reject
  <2>2. PICK s \in {"400", "403"} : req' = [req EXCEPT ![r] = Finish(q, s)] BY <1>0, <1>2 DEF Reject
  <2> HIDE DEF q
  <2>3. Walked(Finish(q, s)) BY <1>0, <1>1, <2>1, RefusalWalked
  <2> QED BY <2>2, <2>3, OneWalks
<1>3. CASE Resolve(r)
  <2>1. q.pc = "new" BY <1>3 DEF Resolve
  <2>2. PICK name \in Names \cup {"role"}, caller \in Tiers, attachable \in BOOLEAN,
             tooSmall \in SUBSET Windowed, routable \in SUBSET Models, known \in Catalogues :
          req' = [req EXCEPT ![r] = ResolveTo(
            [q EXCEPT !.kind = KindOf(name), !.caller = caller, !.attachable = attachable,
                      !.tier = EffectiveTier(KindOf(name), caller),
                      !.tooSmall = IF KindOf(name) = "role" THEN tooSmall ELSE {}],
            name, routable, known)]
    BY <1>3 DEF Resolve
  <2> DEFINE small == IF KindOf(name) = "role" THEN tooSmall ELSE {}
             t == [q EXCEPT !.kind = KindOf(name), !.caller = caller, !.attachable = attachable,
                            !.tier = EffectiveTier(KindOf(name), caller), !.tooSmall = small]
  <2>3. /\ KindOf(name) \in {"role", "chain", "named"} /\ small \in SUBSET Windowed
        /\ EffectiveTier(KindOf(name), caller) \in Tiers
    BY DEF KindOf, EffectiveTier, Tiers
  <2>4. req' = [req EXCEPT ![r] = ResolveTo(t, name, routable, known)] BY <2>2
  <2> HIDE DEF q, small
  <2>5. t \in RequestType BY <1>0, <2>3 DEF RequestType
  <2>6. /\ t.sent = q.sent /\ t.failed = q.failed /\ t.attempt = q.attempt /\ t.status = q.status
        /\ t.target = q.target /\ t.rest = q.rest /\ t.answered = q.answered /\ t.hdr = q.hdr
        /\ t.suppress = q.suppress /\ t.kind = KindOf(name)
    BY <1>0 DEF RequestType
  <2> HIDE DEF t
  <2>7. Blank(t) BY <1>1, <2>1, <2>6 DEF Blank
  <2>8. Walked(ResolveTo(t, name, routable, known)) BY <2>5, <2>6, <2>7, ResolveToWalked
  <2> QED BY <2>4, <2>8, OneWalks
<1>4. CASE ClassMismatch(r)
  <2>1. q.pc \in Ready /\ req' = [req EXCEPT ![r] = Finish(q, "400")]
    BY <1>0, <1>4 DEF ClassMismatch, Ready
  <2> HIDE DEF q
  <2>2. Walked(Finish(q, "400")) BY <1>0, <2>1, FinishWalked
  <2> QED BY <2>1, <2>2, OneWalks
<1>5. CASE Begin(r)
  <2>1. q.pc = "resolved" /\ req' = [req EXCEPT ![r] = [q EXCEPT !.pc = "attempt"]]
    BY <1>0, <1>5 DEF Begin
  <2> HIDE DEF q
  <2>2. Walked([q EXCEPT !.pc = "attempt"]) BY <1>0, <2>1, BeginWalked
  <2> QED BY <2>1, <2>2, OneWalks
<1> QED BY <1>2, <1>3, <1>4, <1>5

LEMMA SendWalks ==
  ASSUME IInv, WInv, NEW r \in Requests, Send(r)
  PROVE  WInv'
<1> DEFINE q == req[r]
           e == [id |-> q.target.id, zdr |-> Directive(q)]
<1>0. GoodRequest(q) /\ Walked(q) /\ q.pc = "attempt" BY DEF IInv, WInv, Send
<1>1. PICK routable \in SUBSET Models, known \in Catalogues :
        req' = [req EXCEPT ![r] = [q EXCEPT !.pc = "upstream", !.hdr = SetHeaders(q),
                  !.suppress = NextRoleCandidate(q, routable, known) # {}, !.sent = Append(q.sent, e)]]
  BY Zenon DEF Send
<1> DEFINE b == NextRoleCandidate(q, routable, known) # {}
<1>2. b \in BOOLEAN OBVIOUS
<1>3. b => q.rest # <<>> /\ q.attempt < MaxFailoverAttempts
  <2>1. SUFFICES ASSUME b PROVE q.rest # <<>> /\ q.attempt < MaxFailoverAttempts OBVIOUS
  <2>2. q.attempt < MaxFailoverAttempts /\ ViableAt(q, q.rest, routable, known) # {}
    BY <2>1 DEF NextRoleCandidate
  <2>3. 1 .. Len(<<>>) = {} OBVIOUS
  <2> QED BY <2>2, <2>3 DEF ViableAt
<1>4. e.id = q.target.id /\ e \in [id : Models, zdr : BOOLEAN]
  BY <1>0, TargetModel DEF Directive
<1>5. req' = [req EXCEPT ![r] = [q EXCEPT !.pc = "upstream", !.hdr = SetHeaders(q),
                                          !.suppress = b, !.sent = Append(q.sent, e)]]
  BY <1>1
<1> HIDE DEF q, e, b
<1>6. Walked([q EXCEPT !.pc = "upstream", !.hdr = SetHeaders(q), !.suppress = b,
                       !.sent = Append(q.sent, e)])
  BY <1>0, <1>2, <1>3, <1>4, SendWalked
<1> QED BY <1>5, <1>6, OneWalks

(* What is reported of an attempt.                                         *)
LEMMA ReportFields ==
  ASSUME NEW q, q \in RequestType, NEW o \in Answers \cup Silences, NEW t, t = Report(q, o)
  PROVE  /\ t.pc = q.pc /\ t.status = q.status /\ t.kind = q.kind /\ t.sent = q.sent
         /\ t.rest = q.rest /\ t.target = q.target /\ t.attempt = q.attempt /\ t.hdr = q.hdr
         /\ t.tier = q.tier /\ t.suppress = q.suppress /\ t.gone = q.gone
         /\ t.answered = UpstreamStatus(o)
         /\ t.failed = IF Charged(q, o) THEN Append(q.failed, q.target.id) ELSE q.failed
  BY DEF RequestType, Report

LEMMA StatusFacts ==
  /\ \A o \in Answers : UpstreamStatus(o) \in Outcomes \ {"none"}
  /\ \A o \in Silences : UpstreamStatus(o) = "none"
  /\ UpstreamStatus("loading") = "up503"
  BY DEF Answers, Silences, UpstreamStatus, Outcomes

LEMMA AnswerWalks ==
  ASSUME IInv, WInv, NEW r \in Requests, NEW o \in Answers, PassThrough(r, o) \/ Abort(r, o)
  PROVE  WInv'
<1> DEFINE q == req[r]
           a == UpstreamStatus(o)
<1>0. /\ GoodRequest(q) /\ q \in RequestType /\ Walked(q) /\ q.pc = "upstream" /\ ~FailsWith(q, o)
      /\ DOMAIN req = Requests
  BY DEF IInv, WInv, GoodRequest, PassThrough, Abort
<1>1. a \in Outcomes \ {"none"} BY StatusFacts
<1>2. CASE PassThrough(r, o)
  <2> DEFINE p == Report(q, o)
             t == Finish(p, a)
  <2>1. req' = [req EXCEPT ![r] = t] BY <1>0, <1>2 DEF PassThrough
  <2>2. Charged(q, o) => a = "up503" BY <1>0, StatusFacts DEF Charged
  <2>3. GoodRequest(p) BY <1>0, ReportGood
  <2>4. p = Report(q, o) /\ o \in Answers \cup Silences OBVIOUS
  <2> HIDE DEF q, a, p
  <2>5. /\ p.kind = q.kind /\ p.sent = q.sent /\ p.rest = q.rest /\ p.target = q.target
        /\ p.hdr = q.hdr /\ p.tier = q.tier /\ p.answered = UpstreamStatus(o)
        /\ p.failed = IF Charged(q, o) THEN Append(q.failed, q.target.id) ELSE q.failed
    BY <1>0, <2>4, ReportFields
  <2>6. /\ t.pc = "done" /\ t.status = a /\ t.answered = p.answered /\ t.kind = p.kind
        /\ t.sent = p.sent /\ t.rest = p.rest /\ t.target = p.target /\ t.hdr = p.hdr
        /\ t.tier = p.tier /\ t.failed = p.failed
    BY <2>3 DEF GoodRequest, RequestType, Finish
  <2> HIDE DEF t
  <2>8. t.answered = a BY <2>5, <2>6 DEF a
  <2>9. t.failed = q.failed \/ (a = "up503" /\ t.failed = Append(q.failed, q.target.id))
    BY <2>2, <2>5, <2>6
  <2>7. Walked(t) BY <1>0, <1>1, <2>5, <2>6, <2>8, <2>9, AnswerWalked
  <2> QED BY <2>1, <2>7, OneWalks DEF q
<1>3. CASE Abort(r, o)
  <2> DEFINE t == Finish([q EXCEPT !.answered = a], a)
  <2>1. req' = [req EXCEPT ![r] = t] BY <1>0, <1>3 DEF Abort
  <2> HIDE DEF q, a
  <2>2. /\ t.pc = "done" /\ t.status = a /\ t.answered = a /\ t.kind = q.kind
        /\ t.sent = q.sent /\ t.rest = q.rest /\ t.target = q.target /\ t.hdr = q.hdr
        /\ t.tier = q.tier /\ t.failed = q.failed
    BY <1>0 DEF RequestType, Finish
  <2> HIDE DEF t
  <2>3. Walked(t) BY <1>0, <1>1, <2>2, AnswerWalked
  <2> QED BY <2>1, <2>3, OneWalks DEF q
<1> QED BY <1>2, <1>3

LEMMA FailWalks ==
  ASSUME IInv, WInv, NEW r \in Requests, NEW o \in Answers \cup Silences, Fail(r, o)
  PROVE  WInv'
<1> DEFINE w == req[r]
           p == Report(w, o)
           g == IF p.gone = "midway" THEN "before" ELSE p.gone
           q == [p EXCEPT !.gone = g]
<1>0. GoodRequest(w) /\ w \in RequestType /\ Walked(w) /\ w.pc = "upstream" /\ FailsWith(w, o)
  BY DEF IInv, WInv, GoodRequest, Fail
<1>1. PICK routable \in SUBSET Models, known \in Catalogues :
        LET next == NextRoleCandidate(q, routable, known) IN
        req' = [req EXCEPT ![r] =
          IF next = {} THEN Finish(q, "502")
          ELSE [BindTo(q, q.rest, First(next)) EXCEPT !.pc = "attempt", !.attempt = @ + 1]]
  BY DEF Fail
<1>2. GoodRequest(p) /\ p = Report(w, o) BY <1>0, ReportGood
<1>3. UpstreamStatus(o) \in Outcomes /\ (UpstreamStatus(o) # "none" => w.suppress)
  <2>1. CASE o \in Silences BY <2>1, StatusFacts DEF Outcomes
  <2>2. CASE o \notin Silences BY <1>0, <2>2, StatusFacts DEF FailsWith
  <2> QED BY <2>1, <2>2
<1>4. Charged(w, o) BY <1>0 DEF Charged
<1>w. w = req[r] OBVIOUS
<1> HIDE DEF w, p
<1>5. /\ p.kind = w.kind /\ p.sent = w.sent /\ p.rest = w.rest /\ p.target = w.target
      /\ p.hdr = w.hdr /\ p.tier = w.tier /\ p.answered = UpstreamStatus(o) /\ p.pc = w.pc
      /\ p.status = w.status /\ p.attempt = w.attempt
      /\ p.failed = Append(w.failed, w.target.id)
  BY <1>0, <1>2, <1>4, ReportFields
<1>6. g \in {"no", "midway", "before"} BY <1>2 DEF GoodRequest, RequestType
<1> HIDE DEF g
<1>7. GoodRequest(q) BY <1>2, <1>6, GoneGood
<1>8. /\ q.kind = w.kind /\ q.sent = w.sent /\ q.rest = w.rest /\ q.target = w.target
      /\ q.hdr = w.hdr /\ q.tier = w.tier /\ q.answered = UpstreamStatus(o)
      /\ q.status = w.status /\ q.attempt = w.attempt
      /\ q.failed = Append(w.failed, w.target.id)
  BY <1>2, <1>5 DEF GoodRequest, RequestType
<1> HIDE DEF q
<1> DEFINE next == NextRoleCandidate(q, routable, known)
           i == First(next)
<1>9. CASE next = {}
  <2> DEFINE t == Finish(q, "502")
  <2>1. req' = [req EXCEPT ![r] = t] BY <1>1, <1>9
  <2>2. /\ t.pc = "done" /\ t.status = "502" /\ t.answered = q.answered /\ t.kind = q.kind
        /\ t.sent = q.sent /\ t.rest = q.rest /\ t.target = q.target /\ t.hdr = q.hdr
        /\ t.tier = q.tier /\ t.failed = q.failed /\ t.attempt = q.attempt
    BY <1>7 DEF GoodRequest, RequestType, Finish
  <2> HIDE DEF t, next
  <2>3. Walked(t) BY <1>0, <1>3, <1>8, <2>2, GiveUpWalked
  <2> QED BY <2>1, <2>3, OneWalks
<1>10. CASE next # {}
  <2>1. q.rest \in Seq(Entries) BY <1>7, SentFacts
  <2>2. q.kind # "named" /\ next = ViableAt(q, q.rest, routable, known)
    BY <1>10 DEF NextRoleCandidate
  <2>3. next \subseteq Nat BY <2>1, <2>2, ViableAtGood
  <2>4. i \in next BY <1>10, <2>3, FirstIn
  <2> DEFINE t == [BindTo(q, q.rest, i) EXCEPT !.pc = "attempt", !.attempt = q.attempt + 1]
  <2>5. req' = [req EXCEPT ![r] = t]
    <3>1. BindTo(q, q.rest, i).attempt = q.attempt
      BY <1>7 DEF BindTo, GoodRequest, RequestType
    <3> QED BY <1>1, <1>10, <3>1
  <2> HIDE DEF i, next
  <2>6. i \in 1 .. Len(q.rest) BY <2>1, <2>2, <2>4, ViableAtGood
  <2>7. /\ t.pc = "attempt" /\ t.status = q.status /\ t.answered = q.answered /\ t.kind = q.kind
        /\ t.sent = q.sent /\ t.rest = SubSeq(q.rest, i + 1, Len(q.rest)) /\ t.target = q.rest[i]
        /\ t.hdr = q.hdr /\ t.tier = q.tier /\ t.failed = q.failed /\ t.attempt = q.attempt + 1
    BY <1>7 DEF GoodRequest, RequestType, BindTo
  <2> HIDE DEF t
  <2>8. Walked(t) BY <1>0, <1>3, <1>8, <2>2, <2>6, <2>7, RetryWalked
  <2> QED BY <2>5, <2>8, OneWalks
<1> QED BY <1>9, <1>10

LEMMA OtherWalks ==
  ASSUME IInv, WInv, NEW r \in Requests, Refuse(r) \/ Disconnect(r)
  PROVE  WInv'
<1> DEFINE q == req[r]
<1>0. GoodRequest(q) /\ Walked(q) /\ DOMAIN req = Requests BY DEF IInv, WInv
<1>1. CASE Refuse(r)
  <2>1. q.pc \in Ready /\ req' = [req EXCEPT ![r] = Finish(q, "403")]
    BY <1>0, <1>1 DEF Refuse, Ready
  <2> HIDE DEF q
  <2>2. Walked(Finish(q, "403")) BY <1>0, <2>1, FinishWalked
  <2> QED BY <2>1, <2>2, OneWalks
<1>2. CASE Disconnect(r)
  <2> DEFINE g == IF q.pc = "attempt" THEN "before" ELSE "midway"
  <2>1. req' = [req EXCEPT ![r] = [q EXCEPT !.gone = g]] BY <1>0, <1>2 DEF Disconnect
  <2> HIDE DEF q, g
  <2>2. Walked([q EXCEPT !.gone = g]) BY <1>0, GoneWalked
  <2> QED BY <2>1, <2>2, OneWalks
<1> QED BY <1>1, <1>2

LEMMA AlwaysWalked == Spec => []WInv
<1>1. Init => WInv BY NewWalked DEF Init, WInv
<1>2. IInv /\ WInv /\ [Next]_vars => WInv'
  <2> SUFFICES ASSUME IInv, WInv, [Next]_vars PROVE WInv' OBVIOUS
  <2>1. CASE UNCHANGED vars
    <3>1. req' = req BY <2>1 DEF vars
    <3> QED BY <3>1 DEF WInv
  <2>2. ASSUME NEW r \in Requests, HandlerStep(r) PROVE WInv'
    <3>1. CASE Reject(r) \/ Resolve(r) \/ ClassMismatch(r) \/ Begin(r) BY <3>1, EarlyWalks
    <3>2. CASE Refuse(r) \/ Send(r) BY <3>2, OtherWalks, SendWalks
    <3>3. ASSUME NEW o \in Answers, PassThrough(r, o) \/ Abort(r, o) PROVE WInv'
      BY <3>3, AnswerWalks
    <3>4. ASSUME NEW o \in Answers \cup Silences, Fail(r, o) PROVE WInv' BY <3>4, FailWalks
    <3> QED BY <2>2, <3>1, <3>2, <3>3, <3>4, Zenon DEF HandlerStep
  <2>3. ASSUME NEW r \in Requests, Disconnect(r) PROVE WInv' BY <2>3, OtherWalks
  <2> QED BY <2>1, <2>2, <2>3 DEF Next, Finished
<1> QED BY <1>1, <1>2, Inductive, PTL DEF Spec

(* A role's walk, as the property states it: with the length of the tail   *)
(* in place of the seat.                                                   *)
LEMMA StandsForward ==
  ASSUME NEW q, GoodRequest(q), Walked(q), q.kind = "role", q.sent # <<>>
  PROVE  /\ q.rest = SubSeq(Seats, Len(Seats) - Len(q.rest) + 1, Len(Seats))
         /\ Traced(q.sent, Len(Seats) - Len(q.rest))
<1>1. PICK p \in 1 .. Len(Seats) : StandsAt(q, p) BY DEF Walked, Placed
<1>2. q.rest = SubSeq(Seats, p + 1, Len(Seats)) BY <1>1 DEF StandsAt
<1>3. Seats \in Seq(Entries) BY RoleSeats DEF Seats
<1>4. Len(Seats) \in Nat /\ p \in Nat BY <1>3
<1>5. Len(q.rest) = Len(Seats) - p BY <1>2, <1>3, TailOf
<1>6. Len(Seats) - Len(q.rest) = p BY <1>4, <1>5
<1>7. Traced(q.sent, p)
  <2>1. CASE q.pc \in Ready
    <3>1. Traced(q.sent, p - 1) BY <1>1, <2>1 DEF StandsAt
    <3>2. p - 1 \in Int /\ p \in Int /\ p - 1 <= p BY <1>4
    <3> QED BY <3>1, <3>2, TracedFurther
  <2>2. CASE q.pc \notin Ready BY <1>1, <2>2 DEF StandsAt
  <2> QED BY <2>1, <2>2
<1> QED BY <1>2, <1>6, <1>7

LEMMA ForwardHolds == IInv /\ WInv => WalksForward
<1> SUFFICES ASSUME IInv, WInv, NEW r \in Requests, req[r].kind = "role", req[r].sent # <<>>
             PROVE  LET q == req[r] order == ExpandChains(RoleOrder) IN
                    /\ q.rest = SubSeq(order, Len(order) - Len(q.rest) + 1, Len(order))
                    /\ \E at \in [1 .. Len(q.sent) -> 1 .. Len(order) - Len(q.rest)] :
                         /\ \A i \in DOMAIN at : order[at[i]].id = q.sent[i].id
                         /\ \A i, j \in DOMAIN at : i < j => at[i] < at[j]
  BY DEF WalksForward
<1>1. GoodRequest(req[r]) /\ Walked(req[r]) BY DEF IInv, WInv
<1>2. /\ req[r].rest = SubSeq(Seats, Len(Seats) - Len(req[r].rest) + 1, Len(Seats))
      /\ Traced(req[r].sent, Len(Seats) - Len(req[r].rest))
  BY <1>1, StandsForward
<1> QED BY <1>2 DEF Traced, Seats

LEMMA ChargesHold == IInv /\ WInv => ChargesMatchAttempts
<1> SUFFICES ASSUME IInv, WInv, NEW r \in Requests
             PROVE  LET q == req[r]
                        ids == [i \in 1 .. Len(q.sent) |-> q.sent[i].id]
                        n == Len(ids)
                    IN CASE q.pc = "upstream" -> q.failed = SubSeq(ids, 1, n - 1)
                         [] q.pc = "attempt" -> q.failed = ids /\ n = q.attempt
                         [] q.pc = "done" /\ q.status \in {"up2xx", "up4xx", "up5xx"} ->
                              q.failed = SubSeq(ids, 1, n - 1)
                         [] q.pc = "done" /\ q.status = "502" -> q.failed = ids
                         [] OTHER -> Len(q.failed) <= n
  BY DEF ChargesMatchAttempts
<1> DEFINE q == req[r]
           ids == IdsOf(q.sent)
<1>1. GoodRequest(q) /\ Tallied(q) /\ Open(q) BY DEF IInv, WInv, Walked
<1>2. ids = [i \in 1 .. Len(q.sent) |-> q.sent[i].id] BY DEF IdsOf
<1>3. q.sent \in Seq([id : Models, zdr : BOOLEAN]) BY <1>1, SentFacts DEF SentType
<1> HIDE DEF q
<1>4. Len(ids) = Len(q.sent) BY <1>3, IdsType
<1>5. q.pc \in {"new", "resolved", "attempt", "upstream", "done"} BY <1>1 DEF GoodRequest, RequestType
<1>6. Len(q.failed) <= Len(q.sent) \/ q.pc \in {"upstream", "attempt"}
  <2>1. CASE q.pc \in {"new", "resolved"}
    <3>1. q.failed = <<>> /\ q.sent = <<>> BY <1>1, <2>1 DEF Tallied, Open, Blank
    <3> QED BY <3>1
  <2>2. CASE q.pc = "done" BY <1>1, <2>2 DEF Tallied
  <2> QED BY <1>5, <2>1, <2>2
<1> HIDE DEF ids
<1>7. CASE q.pc = "upstream" BY <1>1, <1>2, <1>4, <1>7 DEF Tallied, q, ids
<1>8. CASE q.pc = "attempt" BY <1>1, <1>2, <1>4, <1>8 DEF Tallied, q, ids
<1>9. CASE q.pc = "done" /\ q.status \in {"up2xx", "up4xx", "up5xx"}
  BY <1>1, <1>2, <1>4, <1>9 DEF Tallied, q, ids
<1>10. CASE q.pc = "done" /\ q.status = "502" BY <1>1, <1>2, <1>4, <1>10 DEF Tallied, q, ids
<1>11. CASE /\ q.pc \notin {"upstream", "attempt"}
            /\ ~(q.pc = "done" /\ q.status \in {"up2xx", "up4xx", "up5xx", "502"})
  BY <1>2, <1>4, <1>6, <1>11 DEF q, ids
<1> QED BY <1>7, <1>8, <1>9, <1>10, <1>11

(* For every role, chain and retry bound, whatever the tracker and the     *)
(* catalogue answer and however many requests walk at once: a walk visits  *)
(* the seats of the role in order, none twice, and the tracker has heard   *)
(* of every failed attempt once (handleProxy, nextRoleCandidate).          *)
THEOREM WalkIsAccounted == Spec => []WalkAccounted
<1>1. IInv /\ WInv => WalkAccounted BY ForwardHolds, ChargesHold DEF WalkAccounted
<1> QED BY <1>1, Inductive, AlwaysWalked, PTL

(* For every role, chain and retry bound: the headers of an answer name    *)
(* the seat that gave it and the boundary it crossed, a role's 403 before  *)
(* anything was sent means that its tier excludes every seat, and a 502    *)
(* replaces no answer that no retry could follow (setRoleHeaders,          *)
(* resolveRole, suppressRetryable of reverseProxyTo).                      *)
THEOREM ClientIsToldRight == Spec => []ClientToldRight
<1>1. IInv /\ WInv => HeadersNameServer
  <2> SUFFICES ASSUME IInv, WInv, NEW r \in Requests,
                      req[r].pc = "done", req[r].kind # "named", req[r].answered # "none",
                      req[r].status = req[r].answered
               PROVE  /\ req[r].hdr.resolved = req[r].sent[Len(req[r].sent)].id
                      /\ req[r].hdr.overflow = req[r].target.overflow
    BY DEF HeadersNameServer
  <2>1. Marked(req[r]) BY DEF WInv, Walked
  <2> QED BY <2>1 DEF Marked, Last
<1>2. WInv => RefusedMeansHopeless
  BY DEF WInv, Walked, Refused, Hopeless, Seats, RefusedMeansHopeless
<1>3. WInv => LastErrorPasses BY DEF WInv, Walked, Withheld, LastErrorPasses
<1> QED BY <1>1, <1>2, <1>3, Inductive, AlwaysWalked, PTL DEF ClientToldRight

-----------------------------------------------------------------------------
(* What the mapping needs beyond IInv: the response is untouched until the *)
(* request is done, and the retries are counted by attempt.                *)
Untouched(q) == q.pc # "done" => q.status = "none"

Counted(q) ==
  /\ q.pc \in {"new", "resolved", "attempt"} => Len(q.sent) <= q.attempt
  /\ q.pc = "upstream" => Len(q.sent) <= q.attempt + 1

Tidy(q) == Untouched(q) /\ Counted(q)

TidyInv == \A r \in Requests : Tidy(req[r])

Jobs == [r \in Requests |-> JobOf(req[r])]

(* What is owed is always a demand of Service.                             *)
LEMMA OwedIsDemand ==
  ASSUME NEW q, q.caller \in Tiers
  PROVE Owed(q) \in Promise!Demands
BY ProxyAssumption DEF Owed, Tiers, Promise!Demands

(* What is owed depends on the request's kind and tier alone.              *)
LEMMA OwedSame ==
  ASSUME NEW q, NEW t, t.caller = q.caller, t.kind = q.kind
  PROVE Owed(t) = Owed(q)
BY DEF Owed

(* The seats SentPrivate allows are those Service permits.                 *)
LEMMA PrivateIsPermitted ==
  ASSUME NEW q, q.caller \in Tiers, NEW e, SentPrivate(q, e)
  PROVE Promise!Permits(Owed(q), e)
BY ProxyAssumption DEF Owed, SentPrivate, Tiers, Promise!Permits

(* A step that moves one request moves that request's job, and no other.   *)
LEMMA OneJobMoves ==
  ASSUME IInv, NEW r \in Requests, NEW t, req' = [req EXCEPT ![r] = t]
  PROVE Jobs' = [Jobs EXCEPT ![r] = JobOf(t)]
<1>1. req' = [x \in Requests |-> IF x = r THEN t ELSE req[x]] BY DEF IInv
<1> QED BY <1>1 DEF Jobs, JobOf, Phase, Result, Owed

(* A job written out.                                                      *)
Job(p, d, tried, x) == [phase |-> p, demand |-> d, tried |-> tried, result |-> x]

(* The job of a request, written out.                                      *)
LEMMA JobsAt ==
  ASSUME NEW r \in Requests
  PROVE Jobs[r] = Job(Phase(req[r]), Owed(req[r]), req[r].sent, Result(req[r]))
BY DEF Jobs, JobOf, Job

(* The five moves of a job, told from the job before and after.  Accepted: *)
(* something is owed from now on.                                          *)
LEMMA MoveAccept ==
  ASSUME NEW r \in Requests, NEW d \in Promise!Demands, NEW d0, NEW x, NEW tried, Jobs[r] = Job("arrived", d0, tried, x),
         Jobs' = [Jobs EXCEPT ![r] = Job("open", d, tried, x)]
  PROVE Promise!Accept(r)
<1> DEFINE e == [Job("arrived", d0, tried, x) EXCEPT !.phase = "open", !.demand = d]
           P == {"arrived", "open"}
           D == {d0, d}
           T == {tried, tried}
           X == {x, x}
<1>1. "arrived" \in P /\ "open" \in P /\ d0 \in D /\ d \in D
      /\ tried \in T /\ tried \in T /\ x \in X /\ x \in X
  OBVIOUS
<1> HIDE DEF P, D, T, X
<1>2. e \in [phase : P, demand : D, tried : T, result : X] BY <1>1 DEF Job
<1>3. e.phase = "open" /\ e.demand = d /\ e.tried = tried /\ e.result = x
  BY DEF Job
<1>4. Jobs[r].phase = "arrived" /\ Jobs[r].demand = d0 /\ Jobs[r].tried = tried BY DEF Job
<1> HIDE DEF e
<1>5. e = Job("open", d, tried, x) BY <1>2, <1>3 DEF Job
<1>6. Jobs' = [Jobs EXCEPT ![r] = [Jobs[r] EXCEPT !.phase = "open", !.demand = d]] BY <1>5 DEF e
<1> QED BY <1>4, <1>6 DEF Promise!Accept, Jobs

(* Refused: no seat has the request.                                       *)
LEMMA MoveTurnAway ==
  ASSUME NEW r \in Requests, NEW p, NEW d \in Promise!Demands, NEW d0, NEW x, NEW tried, Jobs[r] = Job(p, d0, tried, x),
         p = "arrived" \/ (p = "open" /\ d = d0),
         Jobs' = [Jobs EXCEPT ![r] = Job("done", d, tried, "refused")]
  PROVE Promise!TurnAway(r)
<1> DEFINE e == [Job(p, d0, tried, x) EXCEPT !.phase = "done", !.demand = d, !.result = "refused"]
           P == {p, "done"}
           D == {d0, d}
           T == {tried, tried}
           X == {x, "refused"}
<1>1. p \in P /\ "done" \in P /\ d0 \in D /\ d \in D
      /\ tried \in T /\ tried \in T /\ x \in X /\ "refused" \in X
  OBVIOUS
<1> HIDE DEF P, D, T, X
<1>2. e \in [phase : P, demand : D, tried : T, result : X] BY <1>1 DEF Job
<1>3. e.phase = "done" /\ e.demand = d /\ e.tried = tried /\ e.result = "refused"
  BY DEF Job
<1>4. Jobs[r].phase = p /\ Jobs[r].demand = d0 /\ Jobs[r].tried = tried BY DEF Job
<1> HIDE DEF e
<1>5. e = Job("done", d, tried, "refused") BY <1>2, <1>3 DEF Job
<1>6. Jobs' = [Jobs EXCEPT ![r] = [Jobs[r] EXCEPT !.phase = "done", !.demand = d, !.result = "refused"]] BY <1>5 DEF e
<1> QED BY <1>4, <1>6, ZenonT(60) DEF Promise!TurnAway, Jobs

(* Tried on one more seat.                                                 *)
LEMMA MoveTry ==
  ASSUME NEW r \in Requests, NEW d, NEW try \in [id : Models, zdr : BOOLEAN], NEW x, NEW tried, Jobs[r] = Job("open", d, tried, x),
         Len(tried) <= MaxFailoverAttempts, Promise!Permits(d, try),
         Jobs' = [Jobs EXCEPT ![r] = Job("working", d, Append(tried, try), x)]
  PROVE Promise!Try(r)
<1> DEFINE e == [Job("open", d, tried, x) EXCEPT !.phase = "working", !.tried = Append(tried, try)]
           P == {"open", "working"}
           D == {d, d}
           T == {tried, Append(tried, try)}
           X == {x, x}
<1>1. "open" \in P /\ "working" \in P /\ d \in D /\ d \in D
      /\ tried \in T /\ Append(tried, try) \in T /\ x \in X /\ x \in X
  OBVIOUS
<1> HIDE DEF P, D, T, X
<1>2. e \in [phase : P, demand : D, tried : T, result : X] BY <1>1 DEF Job
<1>3. e.phase = "working" /\ e.demand = d /\ e.tried = Append(tried, try) /\ e.result = x
  BY DEF Job
<1>4. Jobs[r].phase = "open" /\ Jobs[r].demand = d /\ Jobs[r].tried = tried BY DEF Job
<1> HIDE DEF e
<1>5. e = Job("working", d, Append(tried, try), x) BY <1>2, <1>3 DEF Job
<1>6. Jobs' = [Jobs EXCEPT ![r] =
        [Jobs[r] EXCEPT !.phase = "working", !.tried = Append(Jobs[r].tried, try)]]
  BY <1>4, <1>5 DEF e
<1> QED BY <1>4, <1>6, ZenonT(60) DEF Promise!Try, Jobs

(* Taken back from a seat that failed.                                     *)
LEMMA MoveLose ==
  ASSUME NEW r \in Requests, NEW d, NEW x, NEW tried, Jobs[r] = Job("working", d, tried, x),
         Jobs' = [Jobs EXCEPT ![r] = Job("open", d, tried, x)]
  PROVE Promise!Lose(r)
<1> DEFINE e == [Job("working", d, tried, x) EXCEPT !.phase = "open"]
           P == {"working", "open"}
           D == {d, d}
           T == {tried, tried}
           X == {x, x}
<1>1. "working" \in P /\ "open" \in P /\ d \in D /\ d \in D
      /\ tried \in T /\ tried \in T /\ x \in X /\ x \in X
  OBVIOUS
<1> HIDE DEF P, D, T, X
<1>2. e \in [phase : P, demand : D, tried : T, result : X] BY <1>1 DEF Job
<1>3. e.phase = "open" /\ e.demand = d /\ e.tried = tried /\ e.result = x
  BY DEF Job
<1>4. Jobs[r].phase = "working" /\ Jobs[r].demand = d /\ Jobs[r].tried = tried BY DEF Job
<1> HIDE DEF e
<1>5. e = Job("open", d, tried, x) BY <1>2, <1>3 DEF Job
<1>6. Jobs' = [Jobs EXCEPT ![r] = [Jobs[r] EXCEPT !.phase = "open"]] BY <1>5 DEF e
<1> QED BY <1>4, <1>6 DEF Promise!Lose, Jobs

(* Ended while a seat had it.                                              *)
LEMMA MoveFinish ==
  ASSUME NEW r \in Requests, NEW d, NEW x, NEW y \in {"answered", "failed"}, NEW tried, Jobs[r] = Job("working", d, tried, x),
         Jobs' = [Jobs EXCEPT ![r] = Job("done", d, tried, y)]
  PROVE Promise!Finish(r)
<1> DEFINE e == [Job("working", d, tried, x) EXCEPT !.phase = "done", !.result = y]
           P == {"working", "done"}
           D == {d, d}
           T == {tried, tried}
           X == {x, y}
<1>1. "working" \in P /\ "done" \in P /\ d \in D /\ d \in D
      /\ tried \in T /\ tried \in T /\ x \in X /\ y \in X
  OBVIOUS
<1> HIDE DEF P, D, T, X
<1>2. e \in [phase : P, demand : D, tried : T, result : X] BY <1>1 DEF Job
<1>3. e.phase = "done" /\ e.demand = d /\ e.tried = tried /\ e.result = y
  BY DEF Job
<1>4. Jobs[r].phase = "working" /\ Jobs[r].demand = d /\ Jobs[r].tried = tried BY DEF Job
<1> HIDE DEF e
<1>5. e = Job("done", d, tried, y) BY <1>2, <1>3 DEF Job
<1>6. Jobs' = [Jobs EXCEPT ![r] = [Jobs[r] EXCEPT !.phase = "done", !.result = y]] BY <1>5 DEF e
<1>7. \E result \in {"answered", "failed"} :
        Jobs' = [Jobs EXCEPT ![r].phase = "done", ![r].result = result]
  BY <1>6
<1> QED BY <1>4, <1>7, Zenon DEF Promise!Finish, Jobs

(* One tidy successor keeps every request tidy.                            *)
LEMMA OneTidyMoves ==
  ASSUME IInv, TidyInv, NEW r \in Requests, NEW t, Tidy(t), req' = [req EXCEPT ![r] = t]
  PROVE TidyInv'
<1>1. req' = [x \in Requests |-> IF x = r THEN t ELSE req[x]] BY DEF IInv
<1> QED BY <1>1 DEF TidyInv, Tidy, Untouched, Counted

(* The statuses of the router's own refusals.                              *)
Refusals == {"400", "403", "404", "503"}

(* A finished request is tidy, its job is done, and nothing else changes.  *)
LEMMA FinishJob ==
  ASSUME NEW q \in RequestType, NEW s \in Statuses, NEW x, Result([status |-> s]) = x
  PROVE Tidy(Finish(q, s)) /\ JobOf(Finish(q, s)) = Job("done", Owed(q), q.sent, x)
<1> DEFINE t == Finish(q, s)
<1>1. t.pc = "done" /\ t.status = s /\ t.sent = q.sent /\ t.caller = q.caller /\ t.kind = q.kind
  BY DEF Finish, RequestType
<1> HIDE DEF t
<1>2. Owed(t) = Owed(q) BY <1>1, OwedSame
<1>3. Phase(t) = "done" BY <1>1 DEF Phase
<1>4. Result(t) = x BY <1>1 DEF Result
<1>5. Tidy(t) BY <1>1 DEF Tidy, Untouched, Counted
<1>6. JobOf(t) = Job("done", Owed(q), q.sent, x) BY <1>1, <1>2, <1>3, <1>4 DEF JobOf, Job
<1> QED BY <1>5, <1>6 DEF t

(* What one step of a handler has to show.                                 *)
Maps(r) == TidyInv' /\ (Promise!Step(r) \/ Jobs' = Jobs)

(* A request that no seat has is refused, whatever its caller demanded.    *)
LEMMA RefusalMaps ==
  ASSUME IInv, TidyInv, NEW r \in Requests, NEW q \in RequestType, NEW s \in Refusals,
         req[r].pc = "new" \/ (req[r].pc \in {"resolved", "attempt"} /\ q = req[r]),
         q.sent = req[r].sent, req' = [req EXCEPT ![r] = Finish(q, s)]
  PROVE Maps(r)
<1>1. s \in Statuses BY DEF Refusals, Statuses
<1>2. Result([status |-> s]) = "refused" BY DEF Result, Refusals
<1>3. Tidy(Finish(q, s)) /\ JobOf(Finish(q, s)) = Job("done", Owed(q), q.sent, "refused")
  BY <1>1, <1>2, FinishJob
<1>4. TidyInv' BY <1>3, OneTidyMoves
<1>5. Jobs' = [Jobs EXCEPT ![r] = Job("done", Owed(q), req[r].sent, "refused")]
  BY <1>3, OneJobMoves
<1>6. Owed(q) \in Promise!Demands BY OwedIsDemand DEF RequestType
<1>7. Phase(req[r]) = "arrived" \/ (Phase(req[r]) = "open" /\ Owed(q) = Owed(req[r]))
  BY DEF Phase
<1>8. Promise!TurnAway(r) BY <1>5, <1>6, <1>7, JobsAt, MoveTurnAway
<1> QED BY <1>4, <1>8 DEF Maps, Promise!Step

(* A step that leaves a request's demand, phase, tries and status alone is *)
(* a stutter of its job.                                                   *)
LEMMA StutterMaps ==
  ASSUME IInv, TidyInv, NEW r \in Requests, NEW t, req' = [req EXCEPT ![r] = t], Tidy(t),
         t.caller = req[r].caller, t.kind = req[r].kind, t.sent = req[r].sent,
         t.status = req[r].status, Phase(t) = Phase(req[r])
  PROVE Maps(r)
<1>1. Owed(t) = Owed(req[r]) BY OwedSame
<1>2. Result(t) = Result(req[r]) BY DEF Result
<1>3. JobOf(t) = JobOf(req[r]) BY <1>1, <1>2 DEF JobOf
<1>4. Jobs' = [Jobs EXCEPT ![r] = JobOf(t)] BY OneJobMoves
<1>5. Jobs' = Jobs
  <2>1. Jobs[r] = JobOf(t) /\ Jobs = [x \in Requests |-> Jobs[x]] BY <1>3 DEF Jobs
  <2> HIDE DEF Jobs
  <2> QED BY <1>4, <2>1
<1>6. TidyInv' BY OneTidyMoves
<1> QED BY <1>5, <1>6 DEF Maps

(* The steps before forwarding: refused, or accepted with a demand.        *)
LEMMA EarlyMaps ==
  ASSUME IInv, TidyInv, NEW r \in Requests, Reject(r) \/ Resolve(r) \/ ClassMismatch(r) \/ Begin(r)
  PROVE Maps(r)
<1>0. req[r] \in RequestType /\ Tidy(req[r]) /\ SentLater(req[r])
  BY DEF IInv, GoodRequest, TidyInv
<1>1. CASE Reject(r)
  <2>1. PICK s \in {"400", "403"} : req' = [req EXCEPT ![r] = Finish(req[r], s)]
    BY <1>1 DEF Reject, IInv
  <2>2. s \in Refusals BY DEF Refusals
  <2> QED BY <1>0, <1>1, <2>1, <2>2, RefusalMaps DEF Reject
<1>2. CASE ClassMismatch(r)
  <2>1. "400" \in Refusals BY DEF Refusals
  <2>2. req' = [req EXCEPT ![r] = Finish(req[r], "400")] BY <1>2 DEF ClassMismatch, IInv
  <2> QED BY <1>0, <1>2, <2>1, <2>2, RefusalMaps DEF ClassMismatch
<1>3. CASE Begin(r)
  <2> DEFINE t == [req[r] EXCEPT !.pc = "attempt"]
  <2>1. req' = [req EXCEPT ![r] = t] BY <1>3 DEF Begin, IInv
  <2>2. t.caller = req[r].caller /\ t.kind = req[r].kind /\ t.sent = req[r].sent
        /\ t.status = req[r].status /\ t.attempt = req[r].attempt /\ t.pc = "attempt"
    BY <1>0 DEF RequestType
  <2>3. req[r].pc = "resolved" BY <1>3 DEF Begin
  <2> HIDE DEF t
  <2>4. Tidy(t) BY <1>0, <2>2, <2>3 DEF Tidy, Untouched, Counted
  <2>5. Phase(t) = Phase(req[r]) BY <2>2, <2>3 DEF Phase
  <2> QED BY <2>1, <2>2, <2>4, <2>5, StutterMaps
<1>4. CASE Resolve(r)
  <2>1. PICK name \in Names \cup {"role"}, caller \in Tiers, attachable \in BOOLEAN,
             tooSmall \in SUBSET Windowed, routable \in SUBSET Models, known \in Catalogues :
          req' = [req EXCEPT ![r] = ResolveTo(
            [req[r] EXCEPT !.kind = KindOf(name), !.caller = caller, !.attachable = attachable,
                           !.tier = EffectiveTier(KindOf(name), caller),
                           !.tooSmall = IF KindOf(name) = "role" THEN tooSmall ELSE {}],
            name, routable, known)]
    BY <1>4 DEF Resolve
  <2> DEFINE small == IF KindOf(name) = "role" THEN tooSmall ELSE {}
             q == [req[r] EXCEPT !.kind = KindOf(name), !.caller = caller,
                     !.attachable = attachable, !.tier = EffectiveTier(KindOf(name), caller),
                     !.tooSmall = small]
             order == OrderOf(name)
             viable == IF q.kind = "named" THEN {i \in {1} : name \in known}
                       ELSE ViableAt(q, order, routable, known)
             i == First(viable)
             t == [BindTo(q, order, i) EXCEPT !.pc = "resolved"]
  <2>2. KindOf(name) \in {"role", "chain", "named"} BY DEF KindOf
  <2>3. EffectiveTier(KindOf(name), caller) \in Tiers BY DEF EffectiveTier, Tiers
  <2>4. small \in SUBSET Windowed OBVIOUS
  <2>5. req[r].pc = "new" BY <1>4 DEF Resolve
  <2>6. q \in RequestType
    <3> HIDE DEF small
    <3> QED BY <1>0, <2>2, <2>3, <2>4 DEF RequestType
  <2>7. q.pc = "new" /\ q.sent = req[r].sent /\ q.status = req[r].status
        /\ q.attempt = req[r].attempt
    BY <1>0, <2>5 DEF RequestType
  <2>8. req' = [req EXCEPT ![r] = IF viable = {} THEN Finish(q, Refusal(q, order, known)) ELSE t]
    BY <2>1 DEF ResolveTo
  <2> HIDE DEF small, q, order, viable, i
  <2>9. CASE viable = {}
    <3>1. Refusal(q, order, known) \in Refusals BY DEF Refusal, Refusals
    <3> QED BY <2>5, <2>6, <2>7, <2>8, <2>9, <3>1, RefusalMaps
  <2>10. CASE viable # {}
    <3>1. t.caller = q.caller /\ t.kind = q.kind /\ t.sent = q.sent /\ t.status = q.status
          /\ t.attempt = q.attempt /\ t.pc = "resolved"
      BY <2>6 DEF BindTo, RequestType
    <3>2. req' = [req EXCEPT ![r] = t] BY <2>8, <2>10
    <3> HIDE DEF t
    <3>3. Tidy(t) BY <1>0, <2>5, <2>7, <3>1 DEF Tidy, Untouched, Counted
    <3>4. Owed(t) \in Promise!Demands BY <2>6, <3>1, OwedIsDemand DEF RequestType
    <3>5. Phase(t) = "open" /\ Phase(req[r]) = "arrived" BY <2>5, <3>1 DEF Phase
    <3>6. Result(t) = Result(req[r]) BY <2>7, <3>1 DEF Result
    <3>7. JobOf(t) = Job("open", Owed(t), req[r].sent, Result(req[r]))
      BY <2>7, <3>1, <3>5, <3>6 DEF JobOf, Job
    <3>8. Jobs' = [Jobs EXCEPT ![r] = Job("open", Owed(t), req[r].sent, Result(req[r]))]
      BY <3>2, <3>7, OneJobMoves
    <3>9. Promise!Accept(r) BY <3>4, <3>5, <3>8, JobsAt, MoveAccept
    <3>10. TidyInv' BY <3>2, <3>3, OneTidyMoves
    <3> QED BY <3>9, <3>10 DEF Maps, Promise!Step
  <2> QED BY <2>9, <2>10
<1> QED BY <1>1, <1>2, <1>3, <1>4

(* A refusal at the top of the loop, and a client hanging up.              *)
LEMMA RefuseOrDisconnectMaps ==
  ASSUME IInv, TidyInv, NEW r \in Requests, Refuse(r) \/ Disconnect(r)
  PROVE Maps(r)
<1>0. req[r] \in RequestType /\ Tidy(req[r]) BY DEF IInv, GoodRequest, TidyInv
<1>1. CASE Refuse(r)
  <2>1. "403" \in Refusals BY DEF Refusals
  <2>2. req' = [req EXCEPT ![r] = Finish(req[r], "403")] BY <1>1 DEF Refuse, IInv
  <2> QED BY <1>0, <1>1, <2>1, <2>2, RefusalMaps DEF Refuse
<1>2. CASE Disconnect(r)
  <2> DEFINE g == IF req[r].pc = "attempt" THEN "before" ELSE "midway"
             t == [req[r] EXCEPT !.gone = g]
  <2>1. req' = [req EXCEPT ![r] = t] BY <1>2 DEF Disconnect, IInv
  <2> HIDE DEF g
  <2>2. t.caller = req[r].caller /\ t.kind = req[r].kind /\ t.sent = req[r].sent
        /\ t.status = req[r].status /\ t.attempt = req[r].attempt /\ t.pc = req[r].pc
    BY <1>0 DEF RequestType
  <2> HIDE DEF t
  <2>3. Tidy(t) BY <1>0, <2>2 DEF Tidy, Untouched, Counted
  <2>4. Phase(t) = Phase(req[r]) BY <2>2 DEF Phase
  <2> QED BY <2>1, <2>2, <2>3, <2>4, StutterMaps
<1> QED BY <1>1, <1>2

(* An attempt sent is a try the demand permits, within the retry bound.    *)
LEMMA SendMaps ==
  ASSUME IInv, TidyInv, NEW r \in Requests, Send(r)
  PROVE Maps(r)
<1> DEFINE q == req[r]
           e == [id |-> q.target.id, zdr |-> Directive(q)]
<1>0. GoodRequest(q) /\ q \in RequestType /\ Tidy(q) /\ q.pc = "attempt"
  BY DEF IInv, GoodRequest, TidyInv, Send
<1>1. PICK known \in Catalogues : PrivacyApplies(q, known) BY DEF Send
<1>2. PICK routable \in SUBSET Models, k \in Catalogues :
        req' = [req EXCEPT ![r] = [q EXCEPT !.pc = "upstream", !.hdr = SetHeaders(q),
                  !.suppress = NextRoleCandidate(q, routable, k) # {}, !.sent = Append(q.sent, e)]]
  BY Zenon DEF Send
<1> DEFINE b == NextRoleCandidate(q, routable, k) # {}
           t == [q EXCEPT !.pc = "upstream", !.hdr = SetHeaders(q), !.suppress = b,
                          !.sent = Append(q.sent, e)]
<1>3. q.target.id \in Models BY <1>0, TargetModel
<1>4. Directive(q) \in BOOLEAN BY DEF Directive
<1>5. e \in [id : Models, zdr : BOOLEAN] BY <1>3, <1>4
<1>6. SentPrivate(q, e) BY <1>0, <1>1, AppliedIsPrivate
<1>7. Promise!Permits(Owed(q), e) BY <1>0, <1>6, PrivateIsPermitted DEF RequestType
<1> HIDE DEF e, b
<1>8. t.caller = q.caller /\ t.kind = q.kind /\ t.sent = Append(q.sent, e)
      /\ t.status = q.status /\ t.attempt = q.attempt /\ t.pc = "upstream"
  BY <1>0 DEF RequestType
<1>9. req' = [req EXCEPT ![r] = t] BY <1>2 DEF b
<1> HIDE DEF t
<1>10. q.sent \in Seq([id : Models, zdr : BOOLEAN]) /\ q.attempt \in 0 .. MaxFailoverAttempts
  BY <1>0 DEF RequestType
<1>11. Len(q.sent) <= q.attempt BY <1>0 DEF Tidy, Counted
<1>12. Len(Append(q.sent, e)) = Len(q.sent) + 1 /\ Len(q.sent) \in Nat BY <1>5, <1>10
<1>13. MaxFailoverAttempts \in Nat BY ProxyAssumption, Zenon
<1>14. Len(q.sent) <= MaxFailoverAttempts BY <1>10, <1>11, <1>12, <1>13
<1>15. Len(t.sent) <= t.attempt + 1 BY <1>8, <1>10, <1>11, <1>12, <1>13
<1>16. Tidy(t) BY <1>0, <1>8, <1>15 DEF Tidy, Untouched, Counted
<1>17. Owed(t) = Owed(q) BY <1>8, OwedSame
<1>18. Phase(t) = "working" /\ Phase(q) = "open" BY <1>0, <1>8 DEF Phase
<1>19. Result(t) = Result(q) BY <1>8 DEF Result
<1>20. JobOf(t) = Job("working", Owed(q), Append(q.sent, e), Result(q))
  BY <1>8, <1>17, <1>18, <1>19 DEF JobOf, Job
<1>21. Jobs' = [Jobs EXCEPT ![r] = Job("working", Owed(q), Append(q.sent, e), Result(q))]
  BY <1>9, <1>20, OneJobMoves
<1>22. Promise!Try(r) BY <1>5, <1>7, <1>14, <1>18, <1>21, JobsAt, MoveTry
<1>23. TidyInv' BY <1>9, <1>16, OneTidyMoves
<1> QED BY <1>22, <1>23 DEF Maps, Promise!Step

(* A request that ends while a seat has it.                                *)
LEMMA EndMaps ==
  ASSUME IInv, TidyInv, NEW r \in Requests, req[r].pc = "upstream", NEW q \in RequestType,
         q.caller = req[r].caller, q.kind = req[r].kind, q.sent = req[r].sent,
         NEW s \in Statuses, NEW x \in {"answered", "failed"}, Result([status |-> s]) = x,
         req' = [req EXCEPT ![r] = Finish(q, s)]
  PROVE Maps(r)
<1>1. Tidy(Finish(q, s)) /\ JobOf(Finish(q, s)) = Job("done", Owed(q), q.sent, x) BY FinishJob
<1>2. Owed(q) = Owed(req[r]) BY OwedSame
<1>3. Phase(req[r]) = "working" BY DEF Phase
<1>4. Jobs' = [Jobs EXCEPT ![r] = Job("done", Owed(req[r]), req[r].sent, x)]
  <2>1. Jobs' = [Jobs EXCEPT ![r] = JobOf(Finish(q, s))] BY OneJobMoves
  <2>2. JobOf(Finish(q, s)) = Job("done", Owed(req[r]), req[r].sent, x) BY <1>1, <1>2
  <2> QED BY <2>1, <2>2
<1>5. Promise!Finish(r) BY <1>3, <1>4, JobsAt, MoveFinish
<1>6. TidyInv' BY <1>1, OneTidyMoves
<1> QED BY <1>5, <1>6 DEF Maps, Promise!Step

(* Reporting an attempt changes nothing the mapping reads.                 *)
LEMMA ReportSame ==
  ASSUME NEW q \in RequestType, NEW o
  PROVE LET t == Report(q, o) IN
        /\ t.caller = q.caller /\ t.kind = q.kind /\ t.sent = q.sent
        /\ t.status = q.status /\ t.attempt = q.attempt
BY DEF Report, RequestType

(* An answer passed on, whole or broken off, is the seat's answer.         *)
LEMMA PassOrAbortMaps ==
  ASSUME IInv, TidyInv, NEW r \in Requests, NEW o \in Answers, PassThrough(r, o) \/ Abort(r, o)
  PROVE Maps(r)
<1>0. GoodRequest(req[r]) /\ req[r] \in RequestType /\ req[r].pc = "upstream"
  BY DEF IInv, GoodRequest, PassThrough, Abort
<1>1. UpstreamStatus(o) \in Statuses /\ UpstreamStatus(o) \in {"up2xx", "up4xx", "up5xx", "up503"}
  BY DEF UpstreamStatus, Statuses, Answers, Silences
<1>2. Result([status |-> UpstreamStatus(o)]) = "answered" BY <1>1 DEF Result
<1>3. CASE PassThrough(r, o)
  <2> DEFINE p == Report(req[r], o)
  <2>1. p \in RequestType BY <1>0, ReportGood DEF GoodRequest
  <2>2. p.caller = req[r].caller /\ p.kind = req[r].kind /\ p.sent = req[r].sent
    BY <1>0, ReportSame
  <2>3. req' = [req EXCEPT ![r] = Finish(p, UpstreamStatus(o))] BY <1>3 DEF PassThrough, IInv
  <2> HIDE DEF p
  <2> QED BY <1>0, <1>1, <1>2, <2>1, <2>2, <2>3, EndMaps
<1>4. CASE Abort(r, o)
  <2> DEFINE p == [req[r] EXCEPT !.answered = UpstreamStatus(o)]
  <2>1. p \in RequestType BY <1>0, <1>1, AnsweredGood DEF GoodRequest
  <2>2. p.caller = req[r].caller /\ p.kind = req[r].kind /\ p.sent = req[r].sent
    BY <1>0 DEF RequestType
  <2>3. req' = [req EXCEPT ![r] = Finish(p, UpstreamStatus(o))] BY <1>4 DEF Abort, IInv
  <2> HIDE DEF p
  <2> QED BY <1>0, <1>1, <1>2, <2>1, <2>2, <2>3, EndMaps
<1> QED BY <1>3, <1>4

(* A failed attempt gives the job back to be tried again, or ends it.      *)
LEMMA FailMaps ==
  ASSUME IInv, TidyInv, NEW r \in Requests, NEW o \in Answers \cup Silences, Fail(r, o)
  PROVE Maps(r)
<1>0. GoodRequest(req[r]) /\ req[r] \in RequestType /\ Tidy(req[r]) /\ req[r].pc = "upstream"
  BY DEF IInv, GoodRequest, TidyInv, Fail
<1> DEFINE p == Report(req[r], o)
           g == IF p.gone = "midway" THEN "before" ELSE p.gone
           q == [p EXCEPT !.gone = g]
<1>1. PICK routable \in SUBSET Models, known \in Catalogues :
        LET next == NextRoleCandidate(q, routable, known) IN
        req' = [req EXCEPT ![r] =
          IF next = {} THEN Finish(q, "502")
          ELSE [BindTo(q, q.rest, First(next)) EXCEPT !.pc = "attempt", !.attempt = @ + 1]]
  BY DEF Fail
<1>2. GoodRequest(p) BY <1>0, ReportGood
<1>3. p.caller = req[r].caller /\ p.kind = req[r].kind /\ p.sent = req[r].sent
      /\ p.status = req[r].status /\ p.attempt = req[r].attempt
  BY <1>0, ReportSame
<1> HIDE DEF p
<1>4. g \in {"no", "midway", "before"} BY <1>2 DEF GoodRequest, RequestType
<1> HIDE DEF g
<1>5. q \in RequestType BY <1>2, <1>4, GoneGood DEF GoodRequest
<1>6. q.caller = req[r].caller /\ q.kind = req[r].kind /\ q.sent = req[r].sent
      /\ q.status = req[r].status /\ q.attempt = req[r].attempt
  BY <1>2, <1>3 DEF GoodRequest, RequestType
<1> HIDE DEF q
<1> DEFINE next == NextRoleCandidate(q, routable, known)
           i == First(next)
           t == [BindTo(q, q.rest, i) EXCEPT !.pc = "attempt", !.attempt = @ + 1]
<1>7. CASE next = {}
  <2>1. "502" \in Statuses BY DEF Statuses
  <2>2. Result([status |-> "502"]) = "failed" BY DEF Result
  <2>3. req' = [req EXCEPT ![r] = Finish(q, "502")] BY <1>1, <1>7
  <2> QED BY <1>0, <1>5, <1>6, <2>1, <2>2, <2>3, EndMaps
<1>8. CASE next # {}
  <2>1. req' = [req EXCEPT ![r] = t] BY <1>1, <1>8
  <2> HIDE DEF i
  <2>2. t.caller = q.caller /\ t.kind = q.kind /\ t.sent = q.sent /\ t.status = q.status
        /\ t.attempt = q.attempt + 1 /\ t.pc = "attempt"
    BY <1>5 DEF BindTo, RequestType
  <2> HIDE DEF t
  <2>3. Tidy(t) BY <1>0, <1>6, <2>2 DEF Tidy, Untouched, Counted
  <2>4. Owed(t) = Owed(req[r]) BY <1>6, <2>2, OwedSame
  <2>5. Phase(t) = "open" /\ Phase(req[r]) = "working" BY <1>0, <2>2 DEF Phase
  <2>6. Result(t) = Result(req[r]) BY <1>6, <2>2 DEF Result
  <2>7. JobOf(t) = Job("open", Owed(req[r]), req[r].sent, Result(req[r]))
    BY <1>6, <2>2, <2>4, <2>5, <2>6 DEF JobOf, Job
  <2>8. Jobs' = [Jobs EXCEPT ![r] = Job("open", Owed(req[r]), req[r].sent, Result(req[r]))]
    BY <2>1, <2>7, OneJobMoves
  <2>9. Promise!Lose(r) BY <2>5, <2>8, JobsAt, MoveLose
  <2>10. TidyInv' BY <2>1, <2>3, OneTidyMoves
  <2> QED BY <2>9, <2>10 DEF Maps, Promise!Step
<1> QED BY <1>7, <1>8

(* The initial states map to initial states, and are tidy.                 *)
LEMMA InitMaps == Init => TidyInv /\ Promise!Init
<1> SUFFICES ASSUME Init PROVE TidyInv /\ Promise!Init OBVIOUS
<1>1. \A r \in Requests : req[r] = NewRequest BY DEF Init
<1>2. NewRequest.pc = "new" /\ NewRequest.status = "none" /\ NewRequest.sent = <<>>
      /\ NewRequest.attempt = 0 /\ NewRequest.caller = "none" /\ NewRequest.kind = "named"
  BY DEF NewRequest
<1>3. Tidy(NewRequest) BY <1>2 DEF Tidy, Untouched, Counted
<1>4. Phase(NewRequest) = "arrived" BY <1>2 DEF Phase
<1>5. Owed(NewRequest) = "none" BY <1>2 DEF Owed
<1>6. Result(NewRequest) = "none" BY <1>2 DEF Result
<1>7. JobOf(NewRequest) = Promise!Arrived BY <1>2, <1>4, <1>5, <1>6 DEF JobOf, Promise!Arrived
<1>8. [r \in Requests |-> JobOf(req[r])] = [r \in Requests |-> Promise!Arrived]
  BY <1>1, <1>7
<1>9. TidyInv BY <1>1, <1>3 DEF TidyInv
<1> QED BY <1>8, <1>9 DEF Promise!Init

(* Every step of Proxy keeps the invariant and is a step of some job, or   *)
(* of none.                                                                *)
LEMMA NextMaps ==
  ASSUME IInv, TidyInv, [Next]_vars
  PROVE TidyInv' /\ (Promise!Next \/ Jobs' = Jobs)
<1>1. CASE UNCHANGED vars
  <2>1. req' = req BY <1>1 DEF vars
  <2>2. TidyInv' BY <2>1 DEF TidyInv, Tidy, Untouched, Counted
  <2>3. Jobs' = Jobs BY <2>1 DEF Jobs, JobOf, Phase, Owed, Result
  <2> QED BY <2>2, <2>3
<1>2. ASSUME NEW r \in Requests, HandlerStep(r) PROVE Maps(r)
  <2>1. CASE Reject(r) \/ Resolve(r) \/ ClassMismatch(r) \/ Begin(r) BY <2>1, EarlyMaps
  <2>2. CASE Refuse(r) BY <2>2, RefuseOrDisconnectMaps
  <2>3. CASE Send(r) BY <2>3, SendMaps
  <2>4. ASSUME NEW o \in Answers, PassThrough(r, o) \/ Abort(r, o) PROVE Maps(r)
    BY <2>4, PassOrAbortMaps
  <2>5. ASSUME NEW o \in Answers \cup Silences, Fail(r, o) PROVE Maps(r) BY <2>5, FailMaps
  <2> QED BY <1>2, <2>1, <2>2, <2>3, <2>4, <2>5, Zenon DEF HandlerStep
<1>3. ASSUME NEW r \in Requests, Disconnect(r) PROVE Maps(r) BY <1>3, RefuseOrDisconnectMaps
<1>4. ASSUME NEW r \in Requests, Maps(r) PROVE TidyInv' /\ (Promise!Next \/ Jobs' = Jobs)
  BY <1>4 DEF Maps, Promise!Next
<1> QED BY <1>1, <1>2, <1>3, <1>4 DEF Next, Finished

(* Proxy implements Service, for every fleet, role, chain and retry bound: *)
(* handleProxy tries at most maxFailoverAttempts + 1 seats, each of them   *)
(* permitted by what the caller and the role demand, and ends a request    *)
(* once, answered only by the seat it tried last.                          *)
THEOREM Refinement == Spec => ImplementsService
<1>1. IInv /\ TidyInv /\ [Next]_vars => TidyInv' /\ [Promise!Next]_Jobs BY NextMaps
<1>2. Spec => []TidyInv
  BY <1>1, InitMaps, Inductive, PTL DEF Spec
<1> QED BY <1>1, <1>2, InitMaps, Inductive, PTL DEF Spec, ImplementsService, Promise!Spec, Jobs
=============================================================================
