-------------------------- MODULE InventoryProofs --------------------------
(***************************************************************************)
(* Proofs about Inventory for any bases, sources, ids and registry: absent *)
(* marks follow the last good listing, an entry is retired only by         *)
(* listings in a row that left it out, and no listing is put over a newer  *)
(* one.                                                                    *)
(***************************************************************************)
EXTENDS Inventory, SequenceTheorems, FiniteSetTheorems, WellFoundedInduction, TLAPS

(* The types, in full.                                                     *)
Misses == 0 .. RetireAfter - 1
Entries == [source : Sources, def : Sources, misses : Misses]
Counts == 0 .. RetireAfter
Waits == 0 .. Interval
BaseSet == [known : BOOLEAN, listing : SUBSET Ids, stale : BOOLEAN, wait : Waits, inflight : BOOLEAN]
JobSet == [result : {"asked", "ok", "error"}, listing : SUBSET Ids, at : 0 .. MaxChanges]
Catalogues == [Names -> Entries \cup {NoEntry}]

Typed ==
  /\ base \in [Bases -> BaseSet] /\ discovered \in Catalogues /\ absent \subseteq Members
  /\ jobs \in [Bases -> Seq(JobSet)] /\ offers \in [Bases -> SUBSET Ids]
  /\ changes \in 0 .. MaxChanges /\ failures \in 0 .. MaxFailures
  /\ version \in [Bases -> 0 .. MaxChanges] /\ omitted \in [Names -> Counts]

(* A base has a fetch in flight or none, and what it answered is newer     *)
(* than the listing in use (v is its version, c the changes so far).       *)
Fetching(b, js, v, c) ==
  /\ Len(js) <= 1 /\ (Len(js) = 1 <=> b.inflight)
  /\ v <= c
  /\ \A k \in 1 .. Len(js) : js[k].at <= c /\ (js[k].result = "ok" => v <= js[k].at)
OneFetch == \A b \in Bases : Fetching(base[b], jobs[b], version[b], changes)

(* An entry of name n was adopted by its source, and has no more misses    *)
(* than listings left it out.                                              *)
Claims(s, n) == n \notin Reserved /\ \E i \in Adopted[s] \ Served[RootOf(s)] : Name[s][i] = n
Earned(n, e, left) == e # NoEntry => Claims(e.source, n) /\ e.misses <= left
Catalogued == \A n \in Names : Earned(n, discovered[n], omitted[n])

IInv == Typed /\ AbsentMatchesListing /\ OneFetch /\ Catalogued

-----------------------------------------------------------------------------
(* Every non-empty set of naturals has a least element, and so induction   *)
(* over a set of them.                                                     *)
LEMMA SmallestNat ==
  ASSUME NEW S, S \subseteq Nat, S # {}
  PROVE \E n \in S : \A j \in S : n <= j
<1> DEFINE R == {ss \in Nat \X Nat : ss[1] < ss[2]}
<1>1. IsWellFoundedOn(R, Nat)
  BY NatLessThanWellFounded, Zenon DEF OpToRel
<1> HIDE DEF R
<1>2. PICK x \in S : \A y \in S : ~ (<<y, x>> \in R) BY <1>1, WFMin
<1>3. \A y \in S : ~ (y < x)  BY <1>2 DEF R
<1> QED BY <1>2, <1>3

LEMMA Induct ==
  ASSUME NEW T, 0 \in T, \A n \in Nat : n \in T => n + 1 \in T
  PROVE  \A n \in Nat : n \in T
<1> SUFFICES ASSUME NEW m \in Nat, m \notin T PROVE FALSE OBVIOUS
<1> DEFINE B == {n \in Nat : n \notin T}
<1>1. B \subseteq Nat /\ B # {} OBVIOUS
<1>2. \A n \in B : n \in Nat /\ n \notin T OBVIOUS
<1>3. \A n \in Nat : n \notin B => n \in T OBVIOUS
<1> HIDE DEF B
<1>4. PICK x \in B : \A j \in B : x <= j BY <1>1, SmallestNat
<1>5. x \in Nat /\ x # 0 BY <1>2, <1>4
<1>6. x - 1 \in Nat /\ ~(x <= x - 1) /\ (x - 1) + 1 = x BY <1>5
<1>7. x - 1 \in T BY <1>3, <1>4, <1>6
<1> QED BY <1>2, <1>4, <1>6, <1>7

(* The sources of a base are applied one after the other: the k-th result  *)
(* of the recursion is what the first k make of the catalogue d.           *)
Results(d, ss, listing, n, f) ==
  f = [k \in 0 .. n |-> IF k = 0 THEN d ELSE ApplySource(f[k - 1], ss[k], listing)]

LEMMA ResultsExist ==
  ASSUME NEW d, NEW ss, NEW listing
  PROVE  \A n \in Nat : \E f : Results(d, ss, listing, n, f)
<1> DEFINE T == {n \in Nat : \E f : Results(d, ss, listing, n, f)}
<1>1. 0 \in T
  <2> DEFINE f == [k \in 0 .. 0 |-> d]
             g == [k \in 0 .. 0 |-> IF k = 0 THEN d ELSE ApplySource(f[k - 1], ss[k], listing)]
  <2>1. \A k \in 0 .. 0 : k = 0 OBVIOUS
  <2>2. f = g BY <2>1
  <2>3. Results(d, ss, listing, 0, f) BY <2>2 DEF Results
  <2> HIDE DEF f
  <2> QED BY <2>3
<1>2. ASSUME NEW n \in Nat, n \in T PROVE n + 1 \in T
  <2>1. PICK f : Results(d, ss, listing, n, f) BY <1>2
  <2>2. \A k \in 0 .. n : f[k] = IF k = 0 THEN d ELSE ApplySource(f[k - 1], ss[k], listing)
    BY <2>1 DEF Results
  <2> DEFINE g == [k \in 0 .. n + 1 |-> IF k = n + 1 THEN ApplySource(f[n], ss[n + 1], listing) ELSE f[k]]
             h == [k \in 0 .. n + 1 |-> IF k = 0 THEN d ELSE ApplySource(g[k - 1], ss[k], listing)]
  <2>3. ASSUME NEW k \in 0 .. n + 1
        PROVE  g[k] = IF k = 0 THEN d ELSE ApplySource(g[k - 1], ss[k], listing)
    <3>1. CASE k = n + 1
      <4>1. k - 1 \in 0 .. n + 1 /\ k - 1 # n + 1 /\ k # 0 /\ k - 1 = n BY <3>1
      <4>2. g[k - 1] = f[n] BY <4>1
      <4> QED BY <3>1, <4>1, <4>2
    <3>2. CASE k # n + 1
      <4>1. k \in 0 .. n BY <3>2
      <4>2. g[k] = IF k = 0 THEN d ELSE ApplySource(f[k - 1], ss[k], listing) BY <2>2, <3>2, <4>1
      <4>3. k # 0 => k - 1 \in 0 .. n + 1 /\ k - 1 # n + 1 BY <4>1
      <4>4. k # 0 => g[k - 1] = f[k - 1] BY <4>3
      <4> QED BY <4>2, <4>4
    <3> QED BY <3>1, <3>2
  <2>4. g = h BY <2>3
  <2>5. Results(d, ss, listing, n + 1, g) BY <2>4 DEF Results
  <2> HIDE DEF g
  <2> QED BY <2>5
<1>3. \A n \in Nat : n \in T
  <2> HIDE DEF T
  <2> QED BY <1>1, <1>2, Induct
<1> QED BY <1>3

LEMMA ApplyIs ==
  ASSUME NEW b, NEW listing, Len(SourcesOf[b]) \in Nat
  PROVE  \E f : /\ Results(discovered, SourcesOf[b], listing, Len(SourcesOf[b]), f)
                /\ ApplySources(b, listing) = f[Len(SourcesOf[b])]
<1> DEFINE ss == SourcesOf[b]
           after == CHOOSE f : f = [k \in 0 .. Len(ss) |->
                      IF k = 0 THEN discovered ELSE ApplySource(f[k - 1], ss[k], listing)]
<1>1. \E f : f = [k \in 0 .. Len(ss) |->
                IF k = 0 THEN discovered ELSE ApplySource(f[k - 1], ss[k], listing)]
  <2>1. \E f : Results(discovered, ss, listing, Len(ss), f) BY ResultsExist
  <2> QED BY <2>1 DEF Results
<1>2. after = [k \in 0 .. Len(ss) |->
                IF k = 0 THEN discovered ELSE ApplySource(after[k - 1], ss[k], listing)]
  BY <1>1
<1>3. ApplySources(b, listing) = after[Len(ss)] BY DEF ApplySources
<1>4. Results(discovered, ss, listing, Len(ss), after) BY <1>2 DEF Results
<1> HIDE DEF after
<1> QED BY <1>3, <1>4

-----------------------------------------------------------------------------
(* A source belongs to one base, and stands in its list once.              *)
LEMMA SourceFacts ==
  ASSUME NEW b \in Bases
  PROVE  /\ SourcesOf[b] \in Seq(Sources) /\ Len(SourcesOf[b]) \in Nat
         /\ \A k \in 1 .. Len(SourcesOf[b]) :
              /\ SourcesOf[b][k] \in Sources /\ RootOf(SourcesOf[b][k]) = b
              /\ SourcesOf[b][k] \in ToSet(SourcesOf[b])
         /\ \A s \in ToSet(SourcesOf[b]) : \E k \in 1 .. Len(SourcesOf[b]) : s = SourcesOf[b][k]
         /\ \A j, k \in 1 .. Len(SourcesOf[b]) : SourcesOf[b][j] = SourcesOf[b][k] => j = k
<1>1. SourcesOf[b] \in Seq(Sources) /\ IsInjective(SourcesOf[b]) BY InventoryAssumption
<1>2. Len(SourcesOf[b]) \in Nat /\ DOMAIN SourcesOf[b] = 1 .. Len(SourcesOf[b]) BY <1>1, LenProperties
<1>3. ToSet(SourcesOf[b]) = {SourcesOf[b][k] : k \in 1 .. Len(SourcesOf[b])} BY <1>2 DEF ToSet
<1>4. \A j, k \in 1 .. Len(SourcesOf[b]) : SourcesOf[b][j] = SourcesOf[b][k] => j = k
  BY <1>1, <1>2 DEF IsInjective
<1>5. ASSUME NEW s \in ToSet(SourcesOf[b]) PROVE s \in Sources /\ RootOf(s) = b
  <2>1. s \in Sources BY DEF Sources
  <2>2. \A c \in Bases : s \in ToSet(SourcesOf[c]) => c = b BY InventoryAssumption
  <2>3. RootOf(s) = CHOOSE c \in Bases : s \in ToSet(SourcesOf[c]) BY DEF RootOf
  <2> QED BY <2>1, <2>2, <2>3
<1> QED BY <1>1, <1>2, <1>3, <1>4, <1>5

(* What a source does to one entry: a name it adopts is refreshed, one of  *)
(* its own that it no longer holds is missed, the rest is left alone.      *)
Adopts(s, listing, n) == \E i \in Adoptable(s, listing) : n = Name[s][i]
StepEntry(e, s, listing, n) ==
  IF Adopts(s, listing, n)
    THEN IF n \in Reserved THEN e ELSE Refreshed(e, s)
  ELSE IF e.source = s THEN Missed(e) ELSE e

LEMMA ApplySourceIs ==
  ASSUME NEW d, NEW s, NEW listing
  PROVE  /\ ApplySource(d, s, listing) \in [Names -> {ApplySource(d, s, listing)[n] : n \in Names}]
         /\ \A n \in Names : ApplySource(d, s, listing)[n] = StepEntry(d[n], s, listing, n)
<1> DEFINE ids == Adoptable(s, listing)
           held == {Name[s][i] : i \in ids}
           adopts == held \ Reserved
           after == [n \in Names |-> IF n \in adopts THEN Refreshed(d[n], s) ELSE d[n]]
           result == [n \in Names |-> IF after[n].source = s /\ n \notin held THEN Missed(after[n])
                                      ELSE after[n]]
<1>1. ApplySource(d, s, listing) = result BY DEF ApplySource
<1>2. ASSUME NEW n \in Names PROVE result[n] = StepEntry(d[n], s, listing, n)
  <2>1. n \in held <=> Adopts(s, listing, n) BY DEF Adopts
  <2>2. after[n] = IF n \in adopts THEN Refreshed(d[n], s) ELSE d[n] OBVIOUS
  <2>3. result[n] = IF after[n].source = s /\ n \notin held THEN Missed(after[n]) ELSE after[n]
    OBVIOUS
  <2>4. n \in adopts <=> n \in held /\ n \notin Reserved OBVIOUS
  <2> HIDE DEF held, adopts, after, result
  <2> QED BY <2>1, <2>2, <2>3, <2>4 DEF StepEntry
<1> HIDE DEF result
<1>3. result \in [Names -> {result[n] : n \in Names}] BY DEF result
<1> QED BY <1>1, <1>2, <1>3

-----------------------------------------------------------------------------
(* The catalogue half way through a listing, the sources in D applied.  n  *)
(* has entry e, and had entry e0; old and new are how many listings in a   *)
(* row had left out e0 before this listing and with it.                    *)
Maybe == Entries \cup {NoEntry}
Between(n, e, e0, old, new, D) ==
  /\ e = NoEntry => e0 = NoEntry \/ new >= RetireAfter
  /\ e # NoEntry => /\ Claims(e.source, n)
                    /\ e.source \in D => e.misses <= new
                    /\ e.source \notin D => e0 # NoEntry /\ e0.source = e.source /\ e.misses <= old
Counted(old, listed) == IF listed THEN 0 ELSE IF old < RetireAfter THEN old + 1 ELSE old
Lists(s, listing, n) == \E i \in listing : Name[s][i] = n

LEMMA EntryFacts ==
  /\ RetireAfter \in Nat \ {0} /\ NoEntry \notin Entries /\ NoEntry.source \notin Sources
  /\ \A e \in Entries : /\ e.source \in Sources /\ e.def \in Sources /\ e.misses \in Misses
                        /\ e.misses \in Nat /\ e.misses < RetireAfter
<1>1. NoEntry.source = "none" /\ "none" \notin Sources /\ RetireAfter \in Nat \ {0}
  BY InventoryAssumption DEF NoEntry
<1>2. \A e \in Entries : e.source \in Sources /\ e.def \in Sources /\ e.misses \in Misses
  BY DEF Entries
<1> QED BY <1>1, <1>2 DEF Misses

LEMMA RefreshedIs ==
  ASSUME NEW e \in Maybe, NEW s \in Sources
  PROVE  /\ Refreshed(e, s) \in Entries /\ Refreshed(e, s).misses = 0
         /\ Refreshed(e, s).source = IF e = NoEntry THEN s ELSE e.source
<1>1. 0 \in Misses BY EntryFacts DEF Misses
<1>2. CASE e = NoEntry
  <2>1. Refreshed(e, s) = [source |-> s, def |-> s, misses |-> 0] BY <1>2 DEF Refreshed
  <2> QED BY <1>1, <1>2, <2>1 DEF Entries
<1>3. CASE e # NoEntry
  <2>1. Refreshed(e, s) = [e EXCEPT !.def = s, !.misses = 0] BY <1>3 DEF Refreshed
  <2>2. e \in Entries BY <1>3 DEF Maybe
  <2> QED BY <1>1, <1>3, <2>1, <2>2 DEF Entries
<1> QED BY <1>2, <1>3

LEMMA MissedIs ==
  ASSUME NEW e \in Entries
  PROVE  \/ Missed(e) = NoEntry /\ e.misses + 1 >= RetireAfter
         \/ Missed(e) \in Entries /\ Missed(e).misses = e.misses + 1 /\ Missed(e).source = e.source
            /\ ~(e.misses + 1 >= RetireAfter)
<1>1. CASE e.misses + 1 >= RetireAfter BY <1>1 DEF Missed
<1>2. CASE ~(e.misses + 1 >= RetireAfter)
  <2>1. Missed(e) = [e EXCEPT !.misses = e.misses + 1] BY <1>2 DEF Missed
  <2>2. e.misses + 1 \in Misses BY <1>2, EntryFacts DEF Misses
  <2> QED BY <1>2, <2>1, <2>2 DEF Entries
<1> QED BY <1>1, <1>2

LEMMA StepBetween ==
  ASSUME NEW s \in Sources, NEW listing \in SUBSET Ids, NEW n \in Names, NEW e \in Maybe, NEW e0,
         NEW old \in Counts, NEW new \in Counts, NEW D, s \notin D, Between(n, e, e0, old, new, D),
         e0 # NoEntry /\ e0.source = s => new = Counted(old, Lists(s, listing, n))
  PROVE  /\ StepEntry(e, s, listing, n) \in Maybe
         /\ Between(n, StepEntry(e, s, listing, n), e0, old, new, D \cup {s})
<1> DEFINE r == StepEntry(e, s, listing, n)
<1>1. old \in Nat /\ new \in Nat /\ RetireAfter \in Nat BY EntryFacts DEF Counts
<1>2. CASE Adopts(s, listing, n) /\ n \in Reserved
  <2>1. r = e BY <1>2 DEF StepEntry
  <2>2. e = NoEntry BY <1>2 DEF Between, Claims
  <2> QED BY <2>1, <2>2 DEF Between
<1>3. CASE Adopts(s, listing, n) /\ n \notin Reserved
  <2>1. r = Refreshed(e, s) BY <1>3 DEF StepEntry
  <2>2. r \in Entries /\ r.misses = 0 /\ r.source = IF e = NoEntry THEN s ELSE e.source
    BY <2>1, RefreshedIs
  <2> HIDE DEF r
  <2>3. r # NoEntry BY <2>2, EntryFacts
  <2>4. 0 <= new /\ 0 <= old BY <1>1
  <2>5. Claims(s, n) BY <1>3 DEF Adopts, Adoptable, Claims
  <2>6. Between(n, r, e0, old, new, D \cup {s}) BY <2>2, <2>3, <2>4, <2>5 DEF Between
  <2> QED BY <2>2, <2>6 DEF r, Maybe
<1>4. CASE ~Adopts(s, listing, n) /\ e.source = s
  <2>1. r = Missed(e) BY <1>4 DEF StepEntry
  <2>2. e # NoEntry /\ e \in Entries BY <1>4, EntryFacts DEF Maybe
  <2>3. e.misses <= old /\ e0 # NoEntry /\ e0.source = s /\ Claims(s, n)
    BY <1>4, <2>2 DEF Between
  <2>4. ~Lists(s, listing, n)
    <3> SUFFICES ASSUME NEW i \in listing, Name[s][i] = n PROVE FALSE BY DEF Lists
    <3>1. PICK j \in Adopted[s] \ Served[RootOf(s)] : Name[s][j] = n BY <2>3 DEF Claims
    <3>2. Name[s] \in [Ids -> Names] /\ IsInjective(Name[s]) /\ Adopted[s] \subseteq Ids
      BY InventoryAssumption
    <3>3. i \in Ids /\ j \in Ids BY <3>1, <3>2
    <3>4. i = j BY <3>1, <3>2, <3>3 DEF IsInjective
    <3> QED BY <1>4, <3>1, <3>4 DEF Adopts, Adoptable
  <2>5. new = IF old < RetireAfter THEN old + 1 ELSE old BY <2>3, <2>4 DEF Counted
  <2>6. e.misses \in Nat BY <2>2, EntryFacts
  <2>7. CASE r = NoEntry /\ e.misses + 1 >= RetireAfter
    <3>1. new >= RetireAfter BY <1>1, <2>3, <2>5, <2>6, <2>7
    <3> QED BY <2>7, <3>1 DEF Between, Maybe
  <2>8. CASE r \in Entries /\ r.misses = e.misses + 1 /\ r.source = e.source
             /\ ~(e.misses + 1 >= RetireAfter)
    <3> HIDE DEF r
    <3>1. r.misses <= new BY <1>1, <2>3, <2>5, <2>6, <2>8
    <3>2. r # NoEntry BY <2>8, EntryFacts
    <3>3. Between(n, r, e0, old, new, D \cup {s}) BY <1>4, <2>3, <2>8, <3>1, <3>2 DEF Between
    <3> QED BY <2>8, <3>3 DEF r, Maybe
  <2> QED BY <2>1, <2>2, <2>7, <2>8, MissedIs
<1>5. CASE ~Adopts(s, listing, n) /\ e.source # s
  <2>1. r = e BY <1>5 DEF StepEntry
  <2> HIDE DEF r
  <2> QED BY <1>5, <2>1 DEF Between, r
<1> QED BY <1>2, <1>3, <1>4, <1>5

(* The whole listing: types, and what becomes of each name.                *)
LEMMA ListingApplied ==
  ASSUME Typed, Catalogued, NEW b \in Bases, NEW listing \in SUBSET Ids
  PROVE  /\ ApplySources(b, listing) \in Catalogues /\ OmittedAfter(b, listing) \in [Names -> Counts]
         /\ \A n \in Names :
              /\ Earned(n, ApplySources(b, listing)[n], OmittedAfter(b, listing)[n])
              /\ discovered[n] # NoEntry /\ ApplySources(b, listing)[n] = NoEntry =>
                   OmittedAfter(b, listing)[n] >= RetireAfter
<1> DEFINE ss == SourcesOf[b]
           L == Len(ss)
           om == OmittedAfter(b, listing)
           Done(k) == {ss[j] : j \in 1 .. k}
<1>1. /\ ss \in Seq(Sources) /\ L \in Nat
      /\ \A k \in 1 .. L : ss[k] \in Sources /\ ss[k] \in ToSet(ss)
      /\ \A s \in ToSet(ss) : \E k \in 1 .. L : s = ss[k]
      /\ \A j, k \in 1 .. L : ss[j] = ss[k] => j = k
  BY SourceFacts
<1>2. PICK f : Results(discovered, ss, listing, L, f) /\ ApplySources(b, listing) = f[L]
  BY <1>1, ApplyIs
<1>3. \A k \in 0 .. L : f[k] = IF k = 0 THEN discovered ELSE ApplySource(f[k - 1], ss[k], listing)
  BY <1>2 DEF Results
<1>4. /\ discovered \in Catalogues /\ omitted \in [Names -> Counts] /\ RetireAfter \in Nat \ {0}
      /\ \A n \in Names : discovered[n] \in Maybe /\ omitted[n] \in Counts /\ omitted[n] \in Nat
  BY EntryFacts DEF Typed, Catalogues, Maybe, Counts
<1>5. ASSUME NEW n \in Names
      PROVE  /\ om[n] \in Counts
             /\ discovered[n] # NoEntry /\ discovered[n].source \in ToSet(ss) =>
                  om[n] = Counted(omitted[n], Lists(discovered[n].source, listing, n))
             /\ discovered[n] # NoEntry /\ discovered[n].source \notin ToSet(ss) => om[n] = omitted[n]
  <2>1. om[n] = IF \E s \in ToSet(ss) : discovered[n].source = s
                  THEN Counted(omitted[n], Lists(discovered[n].source, listing, n))
                  ELSE IF discovered[n] = NoEntry THEN 0 ELSE omitted[n]
    BY DEF OmittedAfter, Counted, Lists
  <2>2. 0 \in Counts /\ \A p \in BOOLEAN : Counted(omitted[n], p) \in Counts
    BY <1>4 DEF Counts, Counted
  <2>3. Lists(discovered[n].source, listing, n) \in BOOLEAN BY DEF Lists
  <2> HIDE DEF om
  <2> QED BY <1>4, <2>1, <2>2, <2>3
<1>6. om \in [Names -> Counts]
  <2>1. om \in [Names -> {om[n] : n \in Names}] BY DEF OmittedAfter
  <2> HIDE DEF om
  <2> QED BY <1>5, <2>1
<1> HIDE DEF om, L
<1> DEFINE Ok(k) == /\ f[k] \in Catalogues
                    /\ \A n \in Names : Between(n, f[k][n], discovered[n], omitted[n], om[n], Done(k))
           T == {k \in Nat : k <= L => Ok(k)}
<1>7. Ok(0)
  <2>1. f[0] = discovered /\ Done(0) = {}
    <3>1. 0 \in 0 .. L BY <1>1
    <3>2. f[0] = discovered BY <1>3, <3>1
    <3>3. \A j : j \notin 1 .. 0 OBVIOUS
    <3> QED BY <3>2, <3>3
  <2>2. \A n \in Names : Earned(n, discovered[n], omitted[n]) BY DEF Catalogued
  <2>3. \A n \in Names : Between(n, discovered[n], discovered[n], omitted[n], om[n], {})
    BY <2>2 DEF Between, Earned
  <2> QED BY <1>4, <2>1, <2>3
<1>8. ASSUME NEW k \in Nat, k <= L => Ok(k), k + 1 <= L PROVE Ok(k + 1)
  <2> DEFINE s == ss[k + 1]
  <2>1. k + 1 \in 1 .. L /\ k \in 0 .. L /\ k + 1 \in 0 .. L /\ k + 1 # 0 /\ (k + 1) - 1 = k /\ k <= L
    BY <1>1, <1>8
  <2>2. f[k + 1] = ApplySource(f[k], s, listing) BY <1>3, <2>1
  <2>3. s \in Sources /\ s \in ToSet(ss) BY <1>1, <2>1
  <2>4. s \notin Done(k)
    <3> SUFFICES ASSUME NEW j \in 1 .. k, ss[j] = s PROVE FALSE OBVIOUS
    <3>1. j \in 1 .. L /\ j # k + 1 BY <1>1, <2>1
    <3> QED BY <1>1, <2>1, <3>1
  <2>5. Done(k + 1) = Done(k) \cup {s}
    <3>1. \A j : j \in 1 .. k + 1 <=> j \in 1 .. k \/ j = k + 1 OBVIOUS
    <3> QED BY <3>1
  <2>6. Ok(k) BY <1>8, <2>1
  <2> HIDE DEF Done, s
  <2>7. ASSUME NEW n \in Names
        PROVE  /\ f[k + 1][n] \in Maybe
               /\ Between(n, f[k + 1][n], discovered[n], omitted[n], om[n], Done(k) \cup {s})
    <3>1. f[k + 1][n] = StepEntry(f[k][n], s, listing, n) BY <2>2, ApplySourceIs
    <3>2. f[k][n] \in Maybe BY <2>6 DEF Catalogues, Maybe
    <3>3. Between(n, f[k][n], discovered[n], omitted[n], om[n], Done(k)) BY <2>6
    <3>4. discovered[n] # NoEntry /\ discovered[n].source = s =>
            om[n] = Counted(omitted[n], Lists(s, listing, n))
      BY <1>5, <2>3
    <3>5. om[n] \in Counts /\ omitted[n] \in Counts BY <1>4, <1>5
    <3> QED BY <2>3, <2>4, <3>1, <3>2, <3>3, <3>4, <3>5, StepBetween
  <2>8. f[k + 1] \in [Names -> {f[k + 1][n] : n \in Names}] BY <2>2, ApplySourceIs
  <2>9. f[k + 1] \in Catalogues BY <2>7, <2>8 DEF Catalogues, Maybe
  <2> QED BY <2>5, <2>7, <2>9
<1> HIDE DEF Ok
<1>9. \A k \in Nat : k \in T
  <2>1. 0 \in T BY <1>7
  <2>2. ASSUME NEW k \in Nat, k \in T PROVE k + 1 \in T
    <3>1. k <= L => Ok(k) BY <2>2
    <3>2. k + 1 <= L => Ok(k + 1) BY <1>8, <3>1
    <3> QED BY <3>2
  <2> HIDE DEF T
  <2> QED BY <2>1, <2>2, Induct
<1>10. Ok(L)
  <2>1. L \in T /\ L <= L BY <1>1, <1>9
  <2> QED BY <2>1
<1>11. Done(L) = ToSet(ss) BY <1>1
<1> HIDE DEF Done
<1>12. ASSUME NEW n \in Names
       PROVE  /\ Earned(n, f[L][n], om[n])
              /\ discovered[n] # NoEntry /\ f[L][n] = NoEntry => om[n] >= RetireAfter
  BY <1>5, <1>10, <1>11 DEF Between, Earned, Ok
<1> QED BY <1>2, <1>6, <1>10, <1>12 DEF om, Ok

-----------------------------------------------------------------------------
(* The marks depend on the listings only.                                  *)
LEMMA SameListings ==
  ASSUME Typed, AbsentMatchesListing, absent' = absent,
         \A b \in Bases : base'[b].known = base[b].known /\ base'[b].listing = base[b].listing
  PROVE  AbsentMatchesListing'
<1>1. \A m \in Members : BaseOf[m] \in Bases BY InventoryAssumption
<1> QED BY <1>1 DEF AbsentMatchesListing

(* A fetch starts only where none is in flight.                            *)
LEMMA Starting ==
  ASSUME Typed, OneFetch, NEW b \in Bases, ~base[b].inflight
  PROVE  /\ Started(b) \in BaseSet /\ Started(b).known = base[b].known
         /\ Started(b).listing = base[b].listing
         /\ Append(jobs[b], NewJob) \in Seq(JobSet)
         /\ Fetching(Started(b), Append(jobs[b], NewJob), version[b], changes)
<1> DEFINE js == jobs[b]
           o == base[b]
<1>1. /\ js \in Seq(JobSet) /\ o \in BaseSet /\ changes \in Nat /\ Interval \in Waits
      /\ MaxChanges \in Nat /\ Fetching(o, js, version[b], changes)
  BY InventoryAssumption DEF Typed, OneFetch, Waits
<1>2. /\ Started(b) \in BaseSet /\ Started(b).known = o.known /\ Started(b).listing = o.listing
      /\ Started(b).inflight = TRUE
  BY <1>1 DEF Started, BaseSet
<1>3. NewJob \in JobSet /\ NewJob.at = 0 /\ NewJob.result = "asked" BY <1>1 DEF NewJob, JobSet
<1> HIDE DEF js
<1>4. Len(js) \in Nat BY <1>1, LenProperties
<1>5. Len(js) = 0
  <2>1. Len(js) <= 1 /\ (Len(js) = 1 <=> o.inflight) BY <1>1 DEF Fetching
  <2>2. Len(js) # 1
    <3> SUFFICES ASSUME Len(js) = 1 PROVE FALSE OBVIOUS
    <3>1. o.inflight BY <2>1
    <3> QED BY <3>1
  <2>3. Len(js) <= 1 BY <2>1
  <2> DEFINE n == Len(js)
  <2>4. n \in Nat /\ n <= 1 /\ n # 1 BY <1>4, <2>2, <2>3
  <2>5. n = 0
    <3> HIDE DEF n
    <3> QED BY <2>4
  <2> QED BY <2>5
<1> DEFINE a == Append(js, NewJob)
<1>6. a \in Seq(JobSet) /\ Len(a) = 1 /\ a[1] = NewJob BY <1>1, <1>3, <1>5
<1> HIDE DEF a
<1>7. \A k \in 1 .. Len(a) : a[k] = NewJob BY <1>6
<1>8. Fetching(Started(b), a, version[b], changes) BY <1>1, <1>2, <1>3, <1>6, <1>7 DEF Fetching
<1> QED BY <1>2, <1>6, <1>8 DEF a, js

LEMMA StartsKeep ==
  ASSUME IInv, NEW P, \A b \in Bases \cap P : ~base[b].inflight,
         base' = [b \in Bases |-> IF b \in P THEN Started(b) ELSE base[b]],
         jobs' = [b \in Bases |-> IF b \in P THEN Append(jobs[b], NewJob) ELSE jobs[b]],
         UNCHANGED <<discovered, absent, envVars, version, omitted>>
  PROVE  IInv'
<1>1. UNCHANGED <<discovered, absent, offers, changes, failures, version, omitted>> BY DEF envVars
<1>2. ASSUME NEW b \in Bases
      PROVE  /\ base'[b] \in BaseSet /\ base'[b].known = base[b].known
             /\ base'[b].listing = base[b].listing /\ jobs'[b] \in Seq(JobSet)
             /\ Fetching(base'[b], jobs'[b], version[b], changes)
  <2>1. CASE b \in P
    <3>1. base'[b] = Started(b) /\ jobs'[b] = Append(jobs[b], NewJob) BY <2>1
    <3>2. Typed /\ OneFetch /\ ~base[b].inflight BY <2>1 DEF IInv
    <3> QED BY <3>1, <3>2, Starting
  <2>2. CASE b \notin P
    <3>1. base'[b] = base[b] /\ jobs'[b] = jobs[b] BY <2>2
    <3> QED BY <3>1 DEF IInv, Typed, OneFetch
  <2> QED BY <2>1, <2>2
<1>3. base' \in [Bases -> BaseSet] /\ jobs' \in [Bases -> Seq(JobSet)]
  <2>1. base' \in [Bases -> {base'[b] : b \in Bases}] /\ jobs' \in [Bases -> {jobs'[b] : b \in Bases}]
    OBVIOUS
  <2> QED BY <1>2, <2>1
<1>4. Typed' BY <1>1, <1>3 DEF IInv, Typed
<1>5. AbsentMatchesListing' BY <1>1, <1>2, SameListings DEF IInv
<1>6. OneFetch' BY <1>1, <1>2 DEF OneFetch
<1>7. Catalogued' BY <1>1 DEF IInv, Catalogued
<1> QED BY <1>4, <1>5, <1>6, <1>7 DEF IInv

(* A step of one base's fetches, the catalogue left alone.                 *)
LEMMA FetchKeeps ==
  ASSUME IInv, NEW b \in Bases, NEW nb \in BaseSet, NEW js \in Seq(JobSet),
         nb.known = base[b].known, nb.listing = base[b].listing,
         Fetching(nb, js, version[b], changes),
         base' = [base EXCEPT ![b] = nb], jobs' = [jobs EXCEPT ![b] = js],
         UNCHANGED <<discovered, absent, offers, changes, version, omitted>>,
         failures' \in 0 .. MaxFailures
  PROVE  IInv'
<1>1. base \in [Bases -> BaseSet] /\ jobs \in [Bases -> Seq(JobSet)] BY DEF IInv, Typed
<1>2. /\ base'[b] = nb /\ jobs'[b] = js
      /\ \A c \in Bases : c # b => base'[c] = base[c] /\ jobs'[c] = jobs[c]
  BY <1>1
<1>3. base' \in [Bases -> BaseSet] /\ jobs' \in [Bases -> Seq(JobSet)] BY <1>1
<1>4. Typed' BY <1>3 DEF IInv, Typed
<1>5. \A c \in Bases : base'[c].known = base[c].known /\ base'[c].listing = base[c].listing
  BY <1>2
<1>6. AbsentMatchesListing' BY <1>5, SameListings DEF IInv
<1>7. OneFetch' BY <1>2 DEF IInv, OneFetch
<1>8. Catalogued' BY DEF IInv, Catalogued
<1> QED BY <1>4, <1>6, <1>7, <1>8 DEF IInv

(* A fetch's record replaced, or taken out: there was only the one.        *)
LEMMA JobReplaced ==
  ASSUME NEW js \in Seq(JobSet), NEW k \in 1 .. Len(js), NEW j \in JobSet
  PROVE  LET g == [js EXCEPT ![k] = j] IN
         /\ g \in Seq(JobSet) /\ Len(g) = Len(js) /\ g[k] = j
         /\ \A i \in 1 .. Len(js) : i # k => g[i] = js[i]
OBVIOUS

LEMMA JobRemoved ==
  ASSUME NEW js \in Seq(JobSet), NEW k \in 1 .. Len(js), Len(js) <= 1
  PROVE  RemoveAt(js, k) = <<>>
<1> DEFINE n == Len(js)
<1>1. n \in Nat /\ n <= 1 /\ k \in 1 .. n BY LenProperties
<1>2. n = 1 /\ k = 1
  <2> HIDE DEF n
  <2> QED BY <1>1
<1>3. SubSeq(js, 1, 0) = <<>> /\ SubSeq(js, 2, 1) = <<>> OBVIOUS
<1>4. k - 1 = 0 /\ k + 1 = 2 BY <1>2
<1>5. RemoveAt(js, k) = <<>> \o <<>> BY <1>2, <1>3, <1>4 DEF RemoveAt
<1> QED BY <1>5

LEMMA AnswerGood ==
  ASSUME IInv, NEW b \in Bases, NEW k \in 1 .. Len(jobs[b]), Answer(b, k)
  PROVE  IInv'
<1> DEFINE js == jobs[b]
           j == [result |-> "ok", listing |-> offers[b], at |-> changes]
           g == [js EXCEPT ![k] = j]
<1>1. /\ jobs \in [Bases -> Seq(JobSet)] /\ js \in Seq(JobSet) /\ base \in [Bases -> BaseSet]
      /\ offers[b] \subseteq Ids /\ changes \in 0 .. MaxChanges /\ changes \in Int
      /\ base[b] \in BaseSet /\ Fetching(base[b], js, version[b], changes)
      /\ failures \in 0 .. MaxFailures
  BY InventoryAssumption DEF IInv, Typed, OneFetch
<1>2. j \in JobSet BY <1>1 DEF JobSet
<1>3. j.at = changes OBVIOUS
<1>4. jobs' = [jobs EXCEPT ![b] = g] BY <1>1 DEF Answer
<1>5. UNCHANGED <<base, discovered, absent, offers, changes, failures, version, omitted>>
  BY DEF Answer, envVars
<1>6. base' = [base EXCEPT ![b] = base[b]] BY <1>1, <1>5
<1> HIDE DEF j, js
<1>7. g \in Seq(JobSet) /\ Len(g) = Len(js) /\ g[k] = j /\ \A i \in 1 .. Len(js) : i # k => g[i] = js[i]
  BY <1>1, <1>2, JobReplaced DEF js
<1> HIDE DEF g
<1>8. Fetching(base[b], g, version[b], changes)
  <2>1. changes <= changes BY <1>1
  <2> QED BY <1>1, <1>3, <1>7, <2>1 DEF Fetching
<1> QED BY <1>1, <1>4, <1>5, <1>6, <1>7, <1>8, FetchKeeps

LEMMA FetchFailsGood ==
  ASSUME IInv, NEW b \in Bases, NEW k \in 1 .. Len(jobs[b]), FetchFails(b, k)
  PROVE  IInv'
<1> DEFINE js == jobs[b]
           j == [js[k] EXCEPT !.result = "error"]
           g == [js EXCEPT ![k] = j]
<1>1. /\ jobs \in [Bases -> Seq(JobSet)] /\ js \in Seq(JobSet) /\ base \in [Bases -> BaseSet]
      /\ base[b] \in BaseSet /\ Fetching(base[b], js, version[b], changes)
      /\ failures \in 0 .. MaxFailures /\ MaxFailures \in Nat
  BY InventoryAssumption DEF IInv, Typed, OneFetch
<1>2. js[k] \in JobSet BY <1>1, ElementOfSeq
<1>3. j \in JobSet /\ j.at = js[k].at /\ j.result = "error" BY <1>2 DEF JobSet
<1>4. jobs' = [jobs EXCEPT ![b] = g] BY <1>1 DEF FetchFails
<1>5. UNCHANGED <<base, discovered, absent, offers, changes, version, omitted>> BY DEF FetchFails
<1>6. base' = [base EXCEPT ![b] = base[b]] BY <1>1, <1>5
<1>7. failures' \in 0 .. MaxFailures BY <1>1 DEF FetchFails
<1> HIDE DEF j, js
<1>8. g \in Seq(JobSet) /\ Len(g) = Len(js) /\ g[k] = j /\ \A i \in 1 .. Len(js) : i # k => g[i] = js[i]
  BY <1>1, <1>3, JobReplaced DEF js
<1> HIDE DEF g
<1>9. k \in 1 .. Len(js) BY DEF js
<1>10. Fetching(base[b], g, version[b], changes)
  <2>1. \A i \in 1 .. Len(g) : g[i].at = js[i].at /\ (g[i].result = "ok" => g[i].result = js[i].result)
    BY <1>3, <1>8
  <2> QED BY <1>1, <1>8, <2>1 DEF Fetching
<1> QED BY <1>1, <1>4, <1>5, <1>6, <1>7, <1>8, <1>10, FetchKeeps

LEMMA LandErrorGood ==
  ASSUME IInv, NEW b \in Bases, NEW k \in 1 .. Len(jobs[b]), LandError(b, k)
  PROVE  IInv'
<1> DEFINE js == jobs[b]
           nb == [base[b] EXCEPT !.inflight = FALSE, !.stale = TRUE]
<1>1. /\ jobs \in [Bases -> Seq(JobSet)] /\ js \in Seq(JobSet) /\ base \in [Bases -> BaseSet]
      /\ base[b] \in BaseSet /\ Fetching(base[b], js, version[b], changes)
      /\ failures \in 0 .. MaxFailures
  BY DEF IInv, Typed, OneFetch
<1>2. /\ nb \in BaseSet /\ nb.known = base[b].known /\ nb.listing = base[b].listing
      /\ nb.inflight = FALSE
  BY <1>1 DEF BaseSet
<1>3. base' = [base EXCEPT ![b] = nb] BY DEF LandError
<1>4. RemoveAt(js, k) = <<>> BY <1>1, JobRemoved DEF Fetching
<1>5. jobs' = [jobs EXCEPT ![b] = <<>>] BY <1>4 DEF LandError
<1>6. UNCHANGED <<discovered, absent, offers, changes, failures, version, omitted>>
  BY DEF LandError, envVars
<1> HIDE DEF nb
<1>7. <<>> \in Seq(JobSet) /\ Len(<<>>) = 0 OBVIOUS
<1>8. Fetching(nb, <<>>, version[b], changes) BY <1>1, <1>2, <1>7 DEF Fetching
<1> QED BY <1>1, <1>2, <1>3, <1>5, <1>6, <1>7, <1>8, FetchKeeps

(* A good listing lands: its base's marks and entries follow it.           *)
LEMMA LandGood ==
  ASSUME IInv, NEW b \in Bases, NEW k \in 1 .. Len(jobs[b]), Land(b, k)
  PROVE  /\ IInv'
         /\ \A n \in Names : discovered[n] # NoEntry /\ discovered'[n] = NoEntry => omitted'[n] >= RetireAfter
         /\ \A c \in Bases : version'[c] >= version[c]
<1> DEFINE js == jobs[b]
           l == js[k].listing
           v == js[k].at
           nb == [base[b] EXCEPT !.inflight = FALSE, !.stale = FALSE, !.known = TRUE, !.listing = l]
<1>1. /\ jobs \in [Bases -> Seq(JobSet)] /\ js \in Seq(JobSet) /\ base \in [Bases -> BaseSet]
      /\ base[b] \in BaseSet /\ Fetching(base[b], js, version[b], changes)
      /\ version \in [Bases -> 0 .. MaxChanges] /\ MaxChanges \in Nat
  BY InventoryAssumption DEF IInv, Typed, OneFetch
<1>2. js[k] \in JobSet /\ js[k].result = "ok" BY <1>1, ElementOfSeq DEF Land
<1>3. l \in SUBSET Ids /\ v \in 0 .. MaxChanges BY <1>2 DEF JobSet
<1>4. nb \in BaseSet /\ nb.known = TRUE /\ nb.listing = l /\ nb.inflight = FALSE
  BY <1>1, <1>3 DEF BaseSet
<1>5. version[b] <= v /\ v <= changes BY <1>1, <1>2 DEF Fetching
<1>6. RemoveAt(js, k) = <<>> BY <1>1, JobRemoved DEF Fetching
<1>7. /\ base' = [base EXCEPT ![b] = nb] /\ absent' = AbsentAfter(b, l)
      /\ discovered' = ApplySources(b, l) /\ omitted' = OmittedAfter(b, l)
      /\ version' = [version EXCEPT ![b] = v] /\ UNCHANGED <<offers, changes, failures>>
  BY DEF Land, envVars
<1>8. jobs' = [jobs EXCEPT ![b] = <<>>] BY <1>6 DEF Land
<1> HIDE DEF nb, l, v, js
<1>9. /\ base'[b] = nb /\ jobs'[b] = <<>> /\ version'[b] = v
      /\ \A c \in Bases : c # b => base'[c] = base[c] /\ jobs'[c] = jobs[c] /\ version'[c] = version[c]
  BY <1>1, <1>7, <1>8
<1>10. <<>> \in Seq(JobSet) /\ Len(<<>>) = 0 OBVIOUS
<1>11. /\ base' \in [Bases -> BaseSet] /\ jobs' \in [Bases -> Seq(JobSet)]
       /\ version' \in [Bases -> 0 .. MaxChanges]
  BY <1>1, <1>3, <1>4, <1>7, <1>8, <1>10
<1>12. /\ discovered' \in Catalogues /\ omitted' \in [Names -> Counts]
       /\ \A n \in Names :
            /\ Earned(n, discovered'[n], omitted'[n])
            /\ discovered[n] # NoEntry /\ discovered'[n] = NoEntry => omitted'[n] >= RetireAfter
  BY <1>3, <1>7, ListingApplied DEF IInv
<1>13. absent' \subseteq Members BY <1>7 DEF AbsentAfter, IInv, Typed
<1>14. Typed' BY <1>7, <1>11, <1>12, <1>13 DEF IInv, Typed
<1>15. AbsentMatchesListing'
  <2> SUFFICES ASSUME NEW m \in Members
               PROVE  m \in absent' <=> base'[BaseOf[m]].known /\ ServedName[m] \notin base'[BaseOf[m]].listing
    BY DEF AbsentMatchesListing
  <2>1. BaseOf[m] \in Bases BY InventoryAssumption
  <2>2. CASE BaseOf[m] = b BY <1>4, <1>7, <1>9, <2>2 DEF AbsentAfter
  <2>3. CASE BaseOf[m] # b
    <3>1. base'[BaseOf[m]] = base[BaseOf[m]] BY <1>9, <2>1, <2>3
    <3>2. m \in absent' <=> m \in absent BY <1>7, <2>3 DEF AbsentAfter
    <3> QED BY <3>1, <3>2 DEF IInv, AbsentMatchesListing
  <2> QED BY <2>2, <2>3
<1>16. OneFetch'
  <2>1. ASSUME NEW c \in Bases PROVE Fetching(base'[c], jobs'[c], version'[c], changes)
    <3>1. CASE c = b
      <4>1. Fetching(nb, <<>>, v, changes) BY <1>4, <1>5, <1>10 DEF Fetching
      <4> QED BY <1>9, <3>1, <4>1
    <3>2. CASE c # b BY <1>9, <3>2 DEF IInv, OneFetch
    <3> QED BY <3>1, <3>2
  <2> QED BY <1>7, <2>1 DEF OneFetch
<1>17. Catalogued' BY <1>12 DEF Catalogued
<1>18. \A c \in Bases : version'[c] >= version[c]
  <2>1. \A c \in Bases : version[c] \in Int /\ version[c] >= version[c] BY <1>1
  <2>2. v >= version[b] BY <1>3, <1>5, <2>1
  <2> QED BY <1>9, <2>1, <2>2
<1> QED BY <1>12, <1>14, <1>15, <1>16, <1>17, <1>18 DEF IInv

LEMMA TickGood == IInv /\ Tick => IInv'
<1> SUFFICES ASSUME IInv, Tick PROVE IInv' OBVIOUS
<1>1. base \in [Bases -> BaseSet] /\ Interval \in Nat BY InventoryAssumption DEF IInv, Typed
<1>2. UNCHANGED <<discovered, absent, jobs, offers, changes, failures, version, omitted>>
  BY DEF Tick, envVars
<1>3. ASSUME NEW b \in Bases
      PROVE  /\ base'[b] \in BaseSet /\ base'[b].known = base[b].known
             /\ base'[b].listing = base[b].listing /\ base'[b].inflight = base[b].inflight
  <2> DEFINE o == base[b]
             w == IF o.wait > 0 THEN o.wait - 1 ELSE 0
  <2>1. o \in BaseSet BY <1>1
  <2>2. base'[b] = [o EXCEPT !.wait = w] BY DEF Tick
  <2> HIDE DEF o
  <2>3. o.wait \in Waits BY <2>1 DEF BaseSet
  <2>4. w \in Waits BY <1>1, <2>3 DEF Waits
  <2> HIDE DEF w
  <2> QED BY <2>1, <2>2, <2>4 DEF BaseSet, o
<1>4. base' \in [Bases -> BaseSet]
  <2>1. base' \in [Bases -> {base'[b] : b \in Bases}] BY DEF Tick
  <2> QED BY <1>3, <2>1
<1>5. Typed' BY <1>2, <1>4 DEF IInv, Typed
<1>6. AbsentMatchesListing' BY <1>2, <1>3, SameListings DEF IInv
<1>7. OneFetch' BY <1>2, <1>3 DEF IInv, OneFetch, Fetching
<1>8. Catalogued' BY <1>2 DEF IInv, Catalogued
<1> QED BY <1>5, <1>6, <1>7, <1>8 DEF IInv

LEMMA ProviderChangesGood ==
  ASSUME IInv, NEW b \in Bases, ProviderChanges(b)
  PROVE  IInv'
<1>1. /\ UNCHANGED <<base, discovered, absent, jobs, failures, version, omitted>>
      /\ changes' = changes + 1 /\ changes < MaxChanges
  BY DEF ProviderChanges, invVars
<1>2. /\ changes \in 0 .. MaxChanges /\ MaxChanges \in Nat /\ offers \in [Bases -> SUBSET Ids]
      /\ version \in [Bases -> 0 .. MaxChanges] /\ jobs \in [Bases -> Seq(JobSet)]
  BY InventoryAssumption DEF IInv, Typed
<1>3. changes' \in 0 .. MaxChanges BY <1>1, <1>2
<1>4. offers' \in [Bases -> SUBSET Ids] BY <1>2 DEF ProviderChanges
<1>5. Typed' BY <1>1, <1>3, <1>4 DEF IInv, Typed
<1>6. ASSUME NEW c \in Bases PROVE Fetching(base[c], jobs[c], version[c], changes + 1)
  <2>1. Fetching(base[c], jobs[c], version[c], changes) BY DEF IInv, OneFetch
  <2>2. \A k \in 1 .. Len(jobs[c]) : jobs[c][k].at \in Int
    <3>1. ASSUME NEW k \in 1 .. Len(jobs[c]) PROVE jobs[c][k].at \in Int
      <4>1. jobs[c][k] \in JobSet BY <1>2, ElementOfSeq
      <4> QED BY <4>1 DEF JobSet
    <3> QED BY <3>1
  <2>3. \A x \in Int : x <= changes => x <= changes + 1 BY <1>2
  <2>4. version[c] \in Int BY <1>2
  <2> QED BY <2>1, <2>2, <2>3, <2>4 DEF Fetching
<1>7. OneFetch' BY <1>1, <1>6 DEF OneFetch
<1>8. AbsentMatchesListing' BY <1>1 DEF IInv, AbsentMatchesListing
<1>9. Catalogued' BY <1>1 DEF IInv, Catalogued
<1> QED BY <1>5, <1>7, <1>8, <1>9 DEF IInv

LEMMA GoodInit == Init => IInv
<1> SUFFICES ASSUME Init PROVE IInv OBVIOUS
<1>1. /\ base = [b \in Bases |-> NewBase] /\ discovered = [n \in Names |-> NoEntry] /\ absent = {}
      /\ jobs = [b \in Bases |-> <<>>] /\ offers = [b \in Bases |-> Ids] /\ changes = 0
      /\ failures = 0 /\ version = [b \in Bases |-> 0] /\ omitted = [n \in Names |-> 0]
  BY DEF Init
<1>2. MaxChanges \in Nat /\ MaxFailures \in Nat /\ RetireAfter \in Nat /\ Interval \in Nat
  BY InventoryAssumption
<1>3. NewBase \in BaseSet /\ NewBase.known = FALSE /\ NewBase.inflight = FALSE
  BY <1>2 DEF NewBase, BaseSet, Waits
<1>4. base \in [Bases -> BaseSet] /\ jobs \in [Bases -> Seq(JobSet)]
  BY <1>1, <1>3
<1>5. discovered \in Catalogues BY <1>1 DEF Catalogues
<1>6. omitted \in [Names -> Counts] BY <1>1, <1>2 DEF Counts
<1>7. /\ changes \in 0 .. MaxChanges /\ failures \in 0 .. MaxFailures /\ absent \subseteq Members
      /\ version \in [Bases -> 0 .. MaxChanges] /\ offers \in [Bases -> SUBSET Ids]
  BY <1>1, <1>2
<1>8. Typed BY <1>4, <1>5, <1>6, <1>7 DEF Typed
<1>9. AbsentMatchesListing
  <2>1. \A m \in Members : BaseOf[m] \in Bases BY InventoryAssumption
  <2> QED BY <1>1, <1>3, <2>1 DEF AbsentMatchesListing
<1>10. OneFetch
  <2>1. Len(<<>>) = 0 OBVIOUS
  <2>2. Fetching(NewBase, <<>>, 0, 0) BY <1>3, <2>1 DEF Fetching
  <2> QED BY <1>1, <2>2 DEF OneFetch
<1>11. Catalogued BY <1>1 DEF Catalogued, Earned
<1> QED BY <1>8, <1>9, <1>10, <1>11 DEF IInv

(* What a step may do to the catalogue and to the versions.                *)
Steady ==
  /\ \A n \in Names : discovered[n] # NoEntry /\ discovered'[n] = NoEntry => omitted'[n] >= RetireAfter
  /\ \A b \in Bases : version'[b] >= version[b]

LEMMA SteadyIfUnchanged ==
  ASSUME IInv, UNCHANGED <<discovered, version>>
  PROVE  Steady
<1>1. \A b \in Bases : version[b] \in Int /\ version[b] >= version[b] BY DEF IInv, Typed
<1> QED BY <1>1 DEF Steady

LEMMA GoodNext == IInv /\ [Next]_vars => IInv' /\ Steady
<1> SUFFICES ASSUME IInv, [Next]_vars PROVE IInv' /\ Steady OBVIOUS
<1>1. CASE StartDue
  <2> DEFINE P == {b \in Bases : Due(b)}
  <2>1. \A b \in Bases \cap P : ~base[b].inflight BY DEF Due
  <2>2. \A b \in Bases : b \in P <=> Due(b) OBVIOUS
  <2> HIDE DEF P
  <2>3. /\ base' = [b \in Bases |-> IF b \in P THEN Started(b) ELSE base[b]]
        /\ jobs' = [b \in Bases |-> IF b \in P THEN Append(jobs[b], NewJob) ELSE jobs[b]]
        /\ UNCHANGED <<discovered, absent, envVars, version, omitted>>
    BY <1>1, <2>2 DEF StartDue
  <2>4. IInv' BY <2>1, <2>3, StartsKeep
  <2> QED BY <2>3, <2>4, SteadyIfUnchanged
<1>2. CASE RefreshInventory
  <2> DEFINE P == {b \in Bases : ~base[b].inflight}
  <2>1. \A b \in Bases \cap P : ~base[b].inflight OBVIOUS
  <2>2. \A b \in Bases : b \in P <=> ~base[b].inflight OBVIOUS
  <2> HIDE DEF P
  <2>3. /\ base' = [b \in Bases |-> IF b \in P THEN Started(b) ELSE base[b]]
        /\ jobs' = [b \in Bases |-> IF b \in P THEN Append(jobs[b], NewJob) ELSE jobs[b]]
        /\ UNCHANGED <<discovered, absent, envVars, version, omitted>>
    BY <1>2, <2>2 DEF RefreshInventory
  <2>4. IInv' BY <2>1, <2>3, StartsKeep
  <2> QED BY <2>3, <2>4, SteadyIfUnchanged
<1>3. CASE Tick
  <2>1. UNCHANGED <<discovered, version>> BY <1>3 DEF Tick
  <2> QED BY <1>3, <2>1, TickGood, SteadyIfUnchanged
<1>4. ASSUME NEW b \in Bases, ProviderChanges(b) PROVE IInv' /\ Steady
  <2>1. UNCHANGED <<discovered, version>> BY <1>4 DEF ProviderChanges, invVars
  <2> QED BY <1>4, <2>1, ProviderChangesGood, SteadyIfUnchanged
<1>5. ASSUME NEW b \in Bases, NEW k \in 1 .. Len(jobs[b]), Answer(b, k) PROVE IInv' /\ Steady
  <2>1. UNCHANGED <<discovered, version>> BY <1>5 DEF Answer
  <2> QED BY <1>5, <2>1, AnswerGood, SteadyIfUnchanged
<1>6. ASSUME NEW b \in Bases, NEW k \in 1 .. Len(jobs[b]), LandError(b, k) PROVE IInv' /\ Steady
  <2>1. UNCHANGED <<discovered, version>> BY <1>6 DEF LandError
  <2> QED BY <1>6, <2>1, LandErrorGood, SteadyIfUnchanged
<1>7. ASSUME NEW b \in Bases, NEW k \in 1 .. Len(jobs[b]), FetchFails(b, k) PROVE IInv' /\ Steady
  <2>1. UNCHANGED <<discovered, version>> BY <1>7 DEF FetchFails
  <2> QED BY <1>7, <2>1, FetchFailsGood, SteadyIfUnchanged
<1>8. ASSUME NEW b \in Bases, NEW k \in 1 .. Len(jobs[b]), Land(b, k) PROVE IInv' /\ Steady
  BY <1>8, LandGood DEF Steady
<1>9. CASE UNCHANGED vars
  <2>1. UNCHANGED <<base, discovered, absent, jobs, offers, changes, failures, version, omitted>>
    BY <1>9 DEF vars, invVars, envVars
  <2>2. IInv' BY <2>1 DEF IInv, Typed, AbsentMatchesListing, OneFetch, Catalogued
  <2> QED BY <2>1, <2>2, SteadyIfUnchanged
<1> QED BY <1>1, <1>2, <1>3, <1>4, <1>5, <1>6, <1>7, <1>8, <1>9 DEF Next, FetchStep

(* The inductive invariant of the inventory: types, marks, at most one     *)
(* fetch in flight per base and newer than the listing in use, and every   *)
(* entry's misses earned (startInventory, applyInventoryLocked).           *)
THEOREM Inductive == Spec => []IInv
<1>1. Init => IInv BY GoodInit
<1>2. IInv /\ [Next]_vars => IInv' BY GoodNext
<1> QED BY <1>1, <1>2, PTL DEF Spec

LEMMA IInvRules == IInv => ListingRules
<1> SUFFICES ASSUME IInv PROVE ListingRules OBVIOUS
<1>1. TypeOK BY DEF IInv, Typed, TypeOK, BaseSet, Waits, Catalogues, Entries, Misses, JobSet, Counts
<1> QED BY <1>1 DEF IInv, ListingRules

(* For any bases, sources and registry: a model is marked absent exactly   *)
(* when the last good listing of its base was without it, whatever fetches *)
(* failed or overlapped since (applyInventoryLocked, inventoryAbsent).     *)
THEOREM ListingsRule == Spec => []ListingRules
BY Inductive, IInvRules, PTL

(* One flapping listing retires nothing: an entry goes only after          *)
(* RetireAfter good listings in a row of its own base left it out,         *)
(* whatever other sources adopt in between; and no answer is put over a    *)
(* newer one (DiscoveryRetireAfter, the inflight flag of a base).          *)
THEOREM CatalogueIsSteady == Spec => CatalogueSteady
<1>1. IInv /\ [Next]_vars =>
        [\A n \in Names : discovered[n] # NoEntry /\ discovered'[n] = NoEntry
           => omitted'[n] >= RetireAfter]_vars
  BY GoodNext DEF Steady
<1>2. IInv /\ [Next]_vars => [\A b \in Bases : version'[b] >= version[b]]_vars
  BY GoodNext DEF Steady
<1> QED BY <1>1, <1>2, Inductive, PTL DEF Spec, CatalogueSteady, RetireEarned, ListingNeverGoesBack
=============================================================================
