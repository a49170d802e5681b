--------------------------- MODULE ToolProxyProofs ---------------------------
(***************************************************************************)
(* Proofs about the tool proxy.  Dispatch, for every document, set of      *)
(* prompts, registry and relay list: why a category was picked, by which   *)
(* exits web calls leave, and when a call gives up.  ToolLoop, for every   *)
(* tag, set of tools, number of rounds and way a reply streams: turns and  *)
(* answers are complete, the gate is faithful and the two drivers agree.   *)
(***************************************************************************)
EXTENDS Dispatch, ToolLoop, SequenceTheorems, FiniteSetTheorems, NaturalsInduction,
        WellFoundedInduction, TLAPS

Aliases == Categories \cup {"coder-hard", Escalation}
Hosts == DOMAIN Relays
Flags == BOOLEAN

Resolving == {"exit", "fetch", "store", "resolve"}
Pcs == Classifying \cup Resolving
         \cup {"idle", "refused", "passed", "loop", "failed", "attempt", "done"}

Hows == {"ok", "failed", "late"}
Trips == [exit : Hosts \cup {"default"}, how : Hows]
Ats == 0 .. 4
Bests == Categories \cup {None}
Targets == Aliases \cup {None} \cup DOMAIN Registry
AskedExits == Specs \cup {Default}
Labels == Hosts \cup {"", "default"}
RelayOrNone == Hosts \cup {None}
Tries == 0 .. MaxTries
Calls == 0 .. MaxCalls
Logs == Seq(Trips)
AliasSets == SUBSET Aliases
HostSets == SUBSET Hosts

RequestSet ==
  [ pc : Pcs, tier : Tiers, prompt : Prompts, at : Ats, best : Bests, final : Flags,
    up : AliasSets, down : AliasSets, moved : Flags, picked : Targets, spec : AskedExits,
    label : Labels, relay : RelayOrNone, tried : HostSets, tries : Tries, calls : Calls,
    log : Logs, fetched : HostSets ]

Mirrors == [fresh : Flags, up : SUBSET Listed]
Caches == [relays : HostSets, fresh : Flags]

Typed ==
  /\ avail \subseteq Listed /\ reachable \in Flags
  /\ mirror \in Mirrors /\ cache \in Caches
  /\ embedded \subseteq Categories /\ listing \subseteq Hosts
  /\ q \in RequestSet /\ flips \in 0 .. MaxFlips

-----------------------------------------------------------------------------
ByDefault(log) == \A i \in DOMAIN log : log[i].exit = "default"
ByRelay(log, spec, tried) ==
  \A i \in DOMAIN log :
    log[i].exit \in Region(spec) /\ (log[i].how = "failed" => log[i].exit \in tried)
(* Unless the last round trip failed, its relay is the one in use.         *)
InUse(log, relay) ==
  \A i \in DOMAIN log : i = Len(log) /\ log[i].how # "failed" => relay = log[i].exit

(* Exits.  A request that has not chosen one has made no round trip; one   *)
(* that left by the base client has no relay; a relay it holds is of the   *)
(* region and not burnt; the relays that failed are burnt, and one that    *)
(* was used and did not fail is still held.                                *)
Exits(r) ==
  /\ r.label = "" => /\ r.log = <<>> /\ r.relay = None /\ r.tried = {} /\ r.calls = 0
                     /\ r.pc \notin {"loop", "failed", "attempt"}
  /\ r.label = "default" => /\ r.relay = None
                            /\ ByDefault(r.log)
  /\ r.label \notin {"", "default"} => ByRelay(r.log, r.spec, r.tried) /\ InUse(r.log, r.relay)
  /\ r.label \notin {"", "default"} \/ r.pc \in {"fetch", "store", "resolve"} => r.spec # Default
  /\ r.relay # None => r.relay \in Region(r.spec) \ r.tried
  /\ r.pc \in Resolving => r.label # "default" /\ r.relay = None
  /\ r.pc = "store" => r.fetched # {}

Follows(log) ==
  \A i \in 1 .. Len(log) - 1 : log[i].how # "failed" => log[i + 1].exit = log[i].exit
Clean(log) ==
  /\ \A i, j \in DOMAIN log :
       i < j /\ log[i].exit # "default" /\ log[i].how = "failed" => log[j].exit # log[i].exit
  /\ Follows(log)
NotRetried(r) == Clean(r.log)

(* A call under way: which is being tried or resolved again.               *)
Calling(r) == r.pc = "attempt" \/ (r.pc \in Resolving /\ r.label # "")

(* The round trips n of c calls, the last of which has failed t of them.   *)
Within(n, c) == n <= c * MaxTries
Under(n, c, t) == c >= 1 /\ t < MaxTries /\ n <= (c - 1) * MaxTries + t

Trimmed(r) ==
  /\ Within(Len(r.log), r.calls)
  /\ Calling(r) => Under(Len(r.log), r.calls, r.tries)

-----------------------------------------------------------------------------
(* Picks.  The names in front of position at, and the ones a document lets *)
(* through.                                                                *)
Passed(at) == {Cats[i] : i \in {j \in DOMAIN Cats : j < at}}
Through(m) == {c \in Categories : m.fresh /\ c \in Listed => c \in m.up}

Seen(r) ==
  /\ r.pc \in {"image", "embed"} => r.at = 0 /\ r.best = None
  /\ r.pc = "score" => r.at >= 1 /\ (r.best # None => r.best \in r.up)
  /\ r.pc = "sweep" => Passed(r.at) \subseteq r.down
  /\ r.pc = "upgrade" => r.best \in r.up \/ (r.best = "coder" /\ Categories \subseteq r.down)
  /\ r.pc = "redirected" =>
       \/ r.picked \in r.up
       \/ r.picked = "coder" /\ (Categories \subseteq r.down \/ (r.up = {} /\ r.down = {}))

(* b is the first of the highest score in S.                               *)
Leads(b, S, score) ==
  IF b = None THEN S = {}
  ELSE /\ b \in S
       /\ \A d \in S : score[b] > score[d] \/ (score[b] = score[d] /\ Place(b) <= Place(d))

(* What is so of a request while neither mirror m nor embeddings e moved.  *)
Scanned(r, m, e) ==
  /\ r.pc \in {"image", "embed", "score", "sweep", "upgrade"} => e # {}
  /\ r.pc = "image" => r.prompt.msg = "image" /\ ~r.final
  /\ r.pc \in {"embed", "score", "upgrade"} => r.prompt.msg = "text"
  /\ r.pc \in {"embed", "score", "upgrade"} => ~r.final
  /\ r.pc = "score" => Leads(r.best, Passed(r.at) \cap Through(m) \cap e, r.prompt.score)
  /\ r.pc = "sweep" =>
       /\ Passed(r.at) \cap Through(m) = {}
       /\ r.final /\ r.prompt.msg = "image" => "vision" \notin Through(m)
       /\ ~r.final => r.prompt.msg = "text" /\ Through(m) \cap e = {}

(* Fallback, Best and Choice with what they depend on as parameters: the   *)
(* names let through, the embedded ones, the scores.                       *)
FallbackOf(U) == IF U = {} THEN "coder" ELSE FirstOf(U)

BestOf(U, e, score) ==
  IF U \cap e = {} THEN FallbackOf(U)
  ELSE FirstOf({c \in U \cap e : \A d \in U \cap e : score[c] >= score[d]})

HardUp(m) == m.fresh /\ "coder-hard" \in Listed => "coder-hard" \in m.up

Upgraded(r, m, b) ==
  IF b # "coder" \/ r.tier = "auto" \/ r.prompt.hard = 0 THEN b
  ELSE IF r.tier = "auto-full" /\ r.prompt.hard = 2 THEN Escalation
  ELSE IF HardUp(m) THEN "coder-hard" ELSE "coder"

ChoiceOf(r, m, e) ==
  IF e = {} THEN "coder"
  ELSE IF r.prompt.msg = "image"
       THEN IF "vision" \in Through(m) THEN "vision" ELSE FallbackOf(Through(m))
  ELSE IF r.final THEN FallbackOf(Through(m))
  ELSE Upgraded(r, m, BestOf(Through(m), e, r.prompt.score))

Reasoned(r, m, e) ==
  /\ Scanned(r, m, e)
  /\ r.pc = "upgrade" => r.best = BestOf(Through(m), e, r.prompt.score)
  /\ r.pc = "redirected" => r.picked = ChoiceOf(r, m, e)

Justified == ~q.moved => Reasoned(q, mirror, embedded)

IInv ==
  /\ Typed
  /\ Exits(q) /\ NotRetried(q) /\ Trimmed(q)
  /\ Seen(q)
  /\ Justified

-----------------------------------------------------------------------------
(* What the constants are, and the fields of a request.                    *)
LEMMA Bounds ==
  /\ MaxTries \in Nat /\ MaxTries >= 1 /\ MaxCalls \in Nat /\ MaxFlips \in Nat
  BY DispatchAssumption

LEMMA PromptFacts ==
  ASSUME NEW p \in Prompts
  PROVE  /\ p.msg \in {"image", "text", "none"}
         /\ p.score \in [Categories -> Nat] /\ p.hard \in 0 .. 2
  BY DispatchAssumption

LEMMA HostFacts == None \notin Hosts /\ "default" \notin Hosts /\ "" \notin Hosts
<1>1. None \notin Hosts /\ "default" \notin Hosts
  BY DispatchAssumption DEF Hosts
<1>. QED BY <1>1, RelayAssumption DEF Hosts

LEMMA SpecFacts ==
  ASSUME NEW s \in Specs, s.host \in Hosts
  PROVE  s.host \in Region(s)
<1>1. s.country = Relays[s.host].country /\ s.city = Relays[s.host].city
  BY DispatchAssumption DEF Hosts
<1>. QED BY <1>1 DEF Region, Hosts

LEMMA CatFacts ==
  /\ DOMAIN Cats = 1 .. 4 /\ Len(Cats) = 4
  /\ Cats[1] = "coder" /\ Cats[2] = "thinker" /\ Cats[3] = "research" /\ Cats[4] = "vision"
  BY DEF Cats

LEMMA CategoryFacts ==
  /\ Categories = {"coder", "thinker", "research", "vision"}
  /\ \A i \in 1 .. 4 : Cats[i] \in Categories
<1>1. \A i \in 1 .. 4 : i = 1 \/ i = 2 \/ i = 3 \/ i = 4
  OBVIOUS
<1>2. 1 \in 1 .. 4 /\ 2 \in 1 .. 4 /\ 3 \in 1 .. 4 /\ 4 \in 1 .. 4
  OBVIOUS
<1>3. \A i \in 1 .. 4 : Cats[i] \in {"coder", "thinker", "research", "vision"}
  BY <1>1, CatFacts
<1>4. {"coder", "thinker", "research", "vision"} \subseteq Categories
  BY <1>2, CatFacts DEF Categories
<1>5. Categories \subseteq {"coder", "thinker", "research", "vision"}
  BY <1>3, CatFacts DEF Categories
<1>. QED BY <1>3, <1>4, <1>5

LEMMA PcFacts ==
  /\ {"idle", "refused", "passed", "loop", "failed", "attempt", "done"} \subseteq Pcs
  /\ {"exit", "fetch", "store", "resolve"} \subseteq Pcs
  /\ {"image", "embed", "score", "sweep", "upgrade", "redirected"} \subseteq Pcs
  BY DEF Pcs, Classifying, Resolving

LEMMA FieldFacts ==
  ASSUME NEW r \in RequestSet
  PROVE  /\ r.pc \in Pcs /\ r.tier \in Tiers /\ r.prompt \in Prompts /\ r.at \in Ats
         /\ r.best \in Bests /\ r.final \in Flags /\ r.up \in AliasSets /\ r.down \in AliasSets
         /\ r.moved \in Flags /\ r.picked \in Targets /\ r.spec \in AskedExits
         /\ r.label \in Labels /\ r.relay \in RelayOrNone /\ r.tried \in HostSets
         /\ r.tries \in Tries /\ r.calls \in Calls /\ r.log \in Logs /\ r.fetched \in HostSets
  BY DEF RequestSet

LEMMA IdleTyped == Idle \in RequestSet
<1>1. (CHOOSE p \in Prompts : TRUE) \in Prompts
  <2>1. Prompts # {}
    BY DispatchAssumption
  <2>. QED BY <2>1
<1>2. "idle" \in Pcs /\ "auto" \in Tiers /\ None \in Bests /\ None \in Targets
  BY DEF Pcs, Tiers, Bests, Targets
<1>3. 0 \in Ats /\ 0 \in Tries /\ 0 \in Calls
  BY Bounds DEF Ats, Tries, Calls
<1>4. {} \in AliasSets /\ {} \in HostSets /\ <<>> \in Logs /\ FALSE \in Flags
  BY DEF AliasSets, HostSets, Logs, Flags
<1>5. Default \in AskedExits /\ None \in RelayOrNone /\ "" \in Labels
  BY DEF AskedExits, RelayOrNone, Labels
<1>. QED BY <1>1, <1>2, <1>3, <1>4, <1>5 DEF Idle, RequestSet

-----------------------------------------------------------------------------
(* A step that leaves the exits of a request alone.                        *)
SameExits(r, s) ==
  /\ s.label = r.label /\ s.log = r.log /\ s.relay = r.relay /\ s.tried = r.tried
  /\ s.calls = r.calls /\ s.tries = r.tries /\ s.spec = r.spec /\ s.fetched = r.fetched

ExitsHold(r) == Exits(r) /\ NotRetried(r) /\ Trimmed(r)

LEMMA ExitsFrame ==
  ASSUME NEW r, NEW s, ExitsHold(r), SameExits(r, s),
         s.pc \notin Resolving \cup {"loop", "failed", "attempt"}
  PROVE  ExitsHold(s)
<1>1. Exits(s)
  BY DEF ExitsHold, Exits, SameExits, Resolving
<1>2. NotRetried(s)
  BY DEF ExitsHold, NotRetried, SameExits
<1>3. Trimmed(s)
  BY DEF ExitsHold, Trimmed, Calling, SameExits
<1>. QED BY <1>1, <1>2, <1>3 DEF ExitsHold

LEMMA IdleExits == ExitsHold(Idle)
<1>1. /\ Idle.label = "" /\ Idle.log = <<>> /\ Idle.relay = None /\ Idle.tried = {}
      /\ Idle.calls = 0 /\ Idle.pc = "idle" /\ Idle.tries = 0
  BY DEF Idle
<1>2. Exits(Idle)
  BY <1>1 DEF Exits, Resolving
<1>3. NotRetried(Idle)
  <2>1. DOMAIN <<>> = {} /\ 1 .. Len(<<>>) - 1 = {}
    OBVIOUS
  <2>. QED BY <1>1, <2>1 DEF NotRetried, Clean, Follows
<1>4. Trimmed(Idle)
  <2>1. Len(<<>>) <= 0 * MaxTries
    BY Bounds
  <2>. QED BY <1>1, <2>1 DEF Trimmed, Within, Calling, Resolving
<1>. QED BY <1>2, <1>3, <1>4 DEF ExitsHold

(* Outside a classification nothing is asked of the picks.                 *)
LEMMA NotClassifying ==
  ASSUME NEW r, r.pc \notin Classifying, NEW m, NEW e
  PROVE  Seen(r) /\ Reasoned(r, m, e)
  BY DEF Seen, Reasoned, Scanned, Classifying

-----------------------------------------------------------------------------
(* Exits, step by step.                                                    *)
(* What every step of Egress keeps.                                        *)
EgressGood(r) == r \in RequestSet /\ ExitsHold(r) /\ r.pc \notin Classifying

LEMMA ResolvingPcs ==
  /\ {"exit", "fetch", "store", "resolve"} \subseteq Resolving
  /\ Resolving \cap Classifying = {}
  /\ {"loop", "failed", "attempt", "done"} \cap Classifying = {}
  BY DEF Resolving, Classifying

LEMMA ResolvableFacts ==
  ASSUME NEW r \in RequestSet, NEW relays \in HostSets, NEW h \in Resolvable(r.spec, relays, r.tried),
         r.spec # Default
  PROVE  h \in Hosts /\ h \in Region(r.spec) \ r.tried /\ h # None
<1>1. r.spec \in Specs /\ relays \subseteq Hosts
  BY FieldFacts DEF AskedExits, HostSets
<1>2. Region(r.spec) \subseteq Hosts
  BY DEF Region, Hosts
<1>3. CASE r.spec.host \in relays \ r.tried
  <2>1. h = r.spec.host /\ h \in Hosts
    BY <1>1, <1>3 DEF Resolvable
  <2>. QED BY <1>1, <1>3, <2>1, SpecFacts, HostFacts
<1>4. CASE ~(r.spec.host \in relays \ r.tried)
  BY <1>2, <1>4, HostFacts DEF Resolvable
<1>. QED BY <1>3, <1>4

(* Nothing resolvable: nothing of the region is listed and unburnt.        *)
LEMMA NothingResolvable ==
  ASSUME NEW spec, NEW relays, NEW tried, Resolvable(spec, relays, tried) = {}
  PROVE  Region(spec) \cap relays \subseteq tried
  BY DEF Resolvable

(* A step of the resolution that keeps the rest of the request.            *)
LEMMA ResolutionMoves ==
  ASSUME NEW r \in RequestSet, ExitsHold(r), r.pc \in Resolving, NEW nextPc \in Resolving,
         NEW f \in HostSets, nextPc = "store" => f # {}, r.spec # Default,
         NEW s, s = [r EXCEPT !.pc = nextPc, !.fetched = f]
  PROVE  EgressGood(s)
<1>1. nextPc \in Pcs
  BY DEF Pcs
<1>2. s \in RequestSet
  BY <1>1 DEF RequestSet
<1>3. /\ s.pc = nextPc /\ s.fetched = f
      /\ s.label = r.label /\ s.log = r.log /\ s.relay = r.relay /\ s.tried = r.tried
      /\ s.calls = r.calls /\ s.tries = r.tries /\ s.spec = r.spec
  BY DEF RequestSet
<1>4. Exits(s)
  BY <1>3 DEF ExitsHold, Exits, Resolving
<1>5. NotRetried(s)
  BY <1>3 DEF ExitsHold, NotRetried
<1>6. Trimmed(s)
  <2>1. Calling(s) => Calling(r)
    BY <1>3 DEF Calling, Resolving
  <2>. QED BY <1>3, <2>1 DEF ExitsHold, Trimmed
<1>. QED BY <1>2, <1>3, <1>4, <1>5, <1>6, ResolvingPcs DEF ExitsHold, EgressGood

(* ClientFor gives the base client, or a failing call ends.                *)
LEMMA UnresolvedHolds ==
  ASSUME NEW r \in RequestSet, ExitsHold(r), r.pc \in Resolving, NEW s, s = Unresolved(r)
  PROVE  EgressGood(s)
<1>1. "loop" \in Pcs /\ "failed" \in Pcs /\ "default" \in Labels
  BY DEF Pcs, Labels
<1>2. s = IF r.label = "" THEN [r EXCEPT !.pc = "loop", !.label = "default"]
          ELSE [r EXCEPT !.pc = "failed"]
  BY DEF Unresolved, Bare
<1>3. s \in RequestSet
  BY <1>1, <1>2, ZenonT(60) DEF RequestSet
<1>4. /\ s.pc = IF r.label = "" THEN "loop" ELSE "failed"
      /\ s.label = IF r.label = "" THEN "default" ELSE r.label
      /\ s.log = r.log /\ s.relay = r.relay /\ s.tried = r.tried
      /\ s.calls = r.calls /\ s.tries = r.tries /\ s.spec = r.spec
  BY <1>2 DEF RequestSet
<1>5. r.label # "default" /\ r.relay = None
  BY DEF ExitsHold, Exits
<1>6. Exits(s)
  <2>1. CASE r.label = ""
    <3>1. s.label = "default" /\ s.pc = "loop" /\ s.relay = None /\ s.log = <<>>
      BY <1>4, <1>5, <2>1 DEF ExitsHold, Exits
    <3>2. ByDefault(s.log)
      BY <3>1 DEF ByDefault
    <3>. QED BY <3>1, <3>2 DEF Exits, Resolving
  <2>2. CASE r.label # ""
    <3>1. s.label = r.label /\ s.pc = "failed"
      BY <1>4, <2>2
    <3>. QED BY <1>4, <1>5, <2>2, <3>1 DEF ExitsHold, Exits, Resolving
  <2>. QED BY <2>1, <2>2
<1>7. NotRetried(s)
  BY <1>4 DEF ExitsHold, NotRetried
<1>8. Trimmed(s)
  BY <1>4 DEF ExitsHold, Trimmed, Calling, Resolving
<1>. QED BY <1>3, <1>4, <1>6, <1>7, <1>8, ResolvingPcs DEF ExitsHold, EgressGood

LEMMA SpecChosen ==
  ASSUME ExitsHold(q), q.pc \in Resolving
  PROVE  /\ q.label # "" => q.spec # Default
         /\ q.pc # "exit" => q.spec # Default
  BY DEF ExitsHold, Exits, Resolving

LEMMA ClientForHolds ==
  ASSUME q \in RequestSet, ExitsHold(q), ClientFor
  PROVE  EgressGood(q') /\ cache' = cache
<1>1. q.pc = "exit" /\ q.pc \in Resolving /\ cache' = cache
  BY ResolvingPcs DEF ClientFor
<1>2. CASE q.spec = Default
  <2>1. q' = Bare(q) /\ q.label = ""
    BY <1>1, <1>2, SpecChosen DEF ClientFor
  <2>2. q' = Unresolved(q)
    BY <2>1 DEF Unresolved
  <2>. QED BY <2>2, <1>1, UnresolvedHolds, ResolvingPcs DEF EgressGood
<1>3. CASE q.spec # Default
  <2>1. PICK nextPc \in {"resolve", "fetch"} : q' = [q EXCEPT !.pc = nextPc]
    BY <1>3 DEF ClientFor
  <2>2. nextPc \in Resolving /\ nextPc # "store" /\ q.fetched \in HostSets
    BY ResolvingPcs, FieldFacts
  <2>3. q' = [q EXCEPT !.pc = nextPc, !.fetched = q.fetched]
    BY <2>1 DEF RequestSet
  <2>. QED BY <2>2, <2>3, <1>1, <1>3, ResolutionMoves, ResolvingPcs DEF EgressGood
<1>. QED BY <1>2, <1>3

LEMMA FetchHolds ==
  ASSUME q \in RequestSet, ExitsHold(q), Fetch, listing \subseteq Hosts
  PROVE  EgressGood(q') /\ cache' = cache
<1>1. q.pc = "fetch" /\ q.pc \in Resolving /\ cache' = cache /\ q.spec # Default
  BY ResolvingPcs, SpecChosen DEF Fetch
<1>2. CASE q' = Unresolved(q)
  BY <1>1, <1>2, UnresolvedHolds, ResolvingPcs DEF EgressGood
<1>3. CASE q' = [q EXCEPT !.pc = "resolve"]
  <2>1. q' = [q EXCEPT !.pc = "resolve", !.fetched = q.fetched] /\ q.fetched \in HostSets
    BY <1>3, FieldFacts DEF RequestSet
  <2>. QED BY <2>1, <1>1, ResolutionMoves, ResolvingPcs DEF EgressGood
<1>4. CASE listing # {} /\ q' = [q EXCEPT !.pc = "store", !.fetched = listing]
  <2>1. listing \in HostSets
    BY DEF HostSets
  <2>. QED BY <2>1, <1>1, <1>4, ResolutionMoves, ResolvingPcs DEF EgressGood
<1>. QED BY <1>2, <1>3, <1>4 DEF Fetch

LEMMA StoreHolds ==
  ASSUME q \in RequestSet, ExitsHold(q), Store
  PROVE  EgressGood(q') /\ cache' \in Caches /\ cache'.relays # {}
<1>1. /\ q.pc = "store" /\ q.pc \in Resolving /\ q.spec # Default
      /\ cache' = [relays |-> q.fetched, fresh |-> TRUE]
      /\ q' = [q EXCEPT !.pc = "resolve", !.fetched = {}]
  BY ResolvingPcs, SpecChosen DEF Store
<1>2. q.fetched \in HostSets /\ q.fetched # {}
  BY <1>1, FieldFacts DEF ExitsHold, Exits
<1>3. cache' \in Caches /\ cache'.relays # {}
  BY <1>1, <1>2 DEF Caches, Flags
<1>4. {} \in HostSets
  BY DEF HostSets
<1>. QED BY <1>1, <1>3, <1>4, ResolutionMoves, ResolvingPcs DEF EgressGood

(* A request without a relay left its last one because that failed.        *)
LEMMA InUseAnew ==
  ASSUME NEW log, NEW spec, NEW tried, ByRelay(log, spec, tried), InUse(log, None), NEW h
  PROVE  InUse(log, h)
<1>1. \A i \in DOMAIN log : log[i].exit \in Hosts
  BY DEF ByRelay, Region, Hosts
<1>. QED BY <1>1, HostFacts DEF InUse

(* A relay is chosen: by ClientFor, which labels the answer with it, or to *)
(* go on with a call whose last relay failed.                              *)
LEMMA ResolvedHolds ==
  ASSUME NEW r \in RequestSet, ExitsHold(r), r.pc = "resolve", r.spec # Default,
         NEW h \in Hosts, h \in Region(r.spec) \ r.tried, h # None
  PROVE  /\ r.label = "" => EgressGood([r EXCEPT !.pc = "loop", !.relay = h, !.label = h])
         /\ r.label # "" => EgressGood([r EXCEPT !.pc = "attempt", !.relay = h])
<1>1. "loop" \in Pcs /\ "attempt" \in Pcs /\ h \in Labels /\ h \in RelayOrNone
  BY DEF Pcs, Labels, RelayOrNone
<1>2. r.label # "default" /\ r.relay = None
  BY DEF ExitsHold, Exits, Resolving
<1>3. ASSUME r.label = "" PROVE EgressGood([r EXCEPT !.pc = "loop", !.relay = h, !.label = h])
  <2>. DEFINE s == [r EXCEPT !.pc = "loop", !.relay = h, !.label = h]
  <2>1. s \in RequestSet
    BY <1>1 DEF RequestSet
  <2>2. /\ s.pc = "loop" /\ s.relay = h /\ s.label = h
        /\ s.log = r.log /\ s.tried = r.tried /\ s.calls = r.calls /\ s.tries = r.tries /\ s.spec = r.spec
    BY DEF RequestSet
  <2>. HIDE DEF s
  <2>3. r.log = <<>>
    BY <1>3 DEF ExitsHold, Exits
  <2>a. ByRelay(s.log, s.spec, s.tried) /\ InUse(s.log, s.relay)
    BY <2>2, <2>3 DEF ByRelay, InUse
  <2>4. h # "" /\ h # "default"
    BY HostFacts
  <2>5. Exits(s)
    BY <2>2, <2>a, <2>4 DEF Exits, Resolving
  <2>6. NotRetried(s)
    BY <2>2 DEF ExitsHold, NotRetried
  <2>7. Trimmed(s)
    BY <2>2 DEF ExitsHold, Trimmed, Calling, Resolving
  <2>8. EgressGood(s)
    BY <2>1, <2>2, <2>5, <2>6, <2>7 DEF EgressGood, ExitsHold, Classifying
  <2>. QED BY <2>8 DEF s
<1>4. ASSUME r.label # "" PROVE EgressGood([r EXCEPT !.pc = "attempt", !.relay = h])
  <2>. DEFINE s == [r EXCEPT !.pc = "attempt", !.relay = h]
  <2>1. s \in RequestSet
    BY <1>1 DEF RequestSet
  <2>2. /\ s.pc = "attempt" /\ s.relay = h /\ s.label = r.label
        /\ s.log = r.log /\ s.tried = r.tried /\ s.calls = r.calls /\ s.tries = r.tries /\ s.spec = r.spec
    BY DEF RequestSet
  <2>. HIDE DEF s
  <2>a. ByRelay(r.log, r.spec, r.tried) /\ InUse(r.log, None)
    BY <1>2, <1>4 DEF ExitsHold, Exits
  <2>b. InUse(r.log, h)
    BY <2>a, InUseAnew
  <2>3. Exits(s)
    BY <2>2, <2>a, <2>b, <1>2, <1>4 DEF ExitsHold, Exits, Resolving
  <2>4. NotRetried(s)
    BY <2>2 DEF ExitsHold, NotRetried
  <2>5. Trimmed(s)
    BY <2>2, <1>4 DEF ExitsHold, Trimmed, Calling, Resolving
  <2>6. EgressGood(s)
    BY <2>1, <2>2, <2>3, <2>4, <2>5 DEF EgressGood, ExitsHold, Classifying
  <2>. QED BY <2>6 DEF s
<1>. QED BY <1>3, <1>4

LEMMA ResolveHolds ==
  ASSUME q \in RequestSet, ExitsHold(q), Resolve, cache \in Caches
  PROVE  EgressGood(q') /\ cache' = cache
<1>1. q.pc = "resolve" /\ q.pc \in Resolving /\ cache' = cache /\ q.spec # Default
  BY ResolvingPcs, SpecChosen DEF Resolve
<1>2. CASE q' = Unresolved(q)
  BY <1>1, <1>2, UnresolvedHolds, ResolvingPcs DEF EgressGood
<1>3. ASSUME NEW h \in Resolvable(q.spec, cache.relays, q.tried),
             q' = IF q.label = "" THEN [q EXCEPT !.pc = "loop", !.relay = h, !.label = h]
                  ELSE [q EXCEPT !.pc = "attempt", !.relay = h]
      PROVE  EgressGood(q')
  <2>1. cache.relays \in HostSets
    BY DEF Caches
  <2>2. h \in Hosts /\ h \in Region(q.spec) \ q.tried /\ h # None
    BY <2>1, <1>1, ResolvableFacts
  <2>. QED BY <2>2, <1>1, <1>3, ResolvedHolds
<1>. QED BY <1>1, <1>2, <1>3 DEF Resolve

-----------------------------------------------------------------------------
(* Web calls.                                                              *)

(* The counts of a request: a call begins, a round trip fails, a call is   *)
(* answered.                                                               *)
LEMMA CallCounts ==
  ASSUME NEW n \in Nat, NEW c \in Nat, Within(n, c)
  PROVE  Within(n, c + 1) /\ Under(n, c + 1, 0)
<1>1. c * MaxTries \in Nat
  BY Bounds
<1>2. (c + 1) * MaxTries = c * MaxTries + MaxTries
  BY Bounds
<1>3. (c + 1) - 1 = c /\ c + 1 >= 1 /\ 0 < MaxTries
  BY Bounds
<1>4. n <= c * MaxTries
  BY DEF Within
<1>5. n <= c * MaxTries + MaxTries /\ n <= c * MaxTries + 0
  BY <1>1, <1>4, Bounds
<1>6. Within(n, c + 1)
  BY <1>2, <1>5 DEF Within
<1>7. Under(n, c + 1, 0)
  BY <1>3, <1>5 DEF Under
<1>. QED BY <1>6, <1>7

LEMMA TripCounts ==
  ASSUME NEW n \in Nat, NEW c \in Nat, NEW t \in Nat, Under(n, c, t)
  PROVE  /\ Within(n + 1, c)
         /\ t + 1 # MaxTries => Under(n + 1, c, t + 1)
         /\ t + 1 <= MaxTries
<1>1. c >= 1 /\ t < MaxTries /\ n <= (c - 1) * MaxTries + t
  BY DEF Under
<1>2. PICK b \in Nat : c = b + 1 /\ b = c - 1
  <2>1. c - 1 \in Nat /\ c = (c - 1) + 1
    BY <1>1
  <2>. QED BY <2>1
<1>3. b * MaxTries \in Nat /\ c * MaxTries = b * MaxTries + MaxTries
  BY <1>2, Bounds
<1>4. n <= b * MaxTries + t
  BY <1>1, <1>2
<1>5. n + 1 <= b * MaxTries + MaxTries /\ n + 1 <= b * MaxTries + (t + 1) /\ t + 1 <= MaxTries
  BY <1>1, <1>3, <1>4, Bounds
<1>6. Within(n + 1, c)
  BY <1>3, <1>5 DEF Within
<1>7. t + 1 # MaxTries => Under(n + 1, c, t + 1)
  <2>1. t + 1 # MaxTries => t + 1 < MaxTries
    BY <1>5, Bounds
  <2>. QED BY <1>1, <1>2, <1>5, <2>1 DEF Under
<1>. QED BY <1>5, <1>6, <1>7

LEMMA CountFacts ==
  ASSUME NEW r \in RequestSet
  PROVE  r.calls \in Nat /\ r.tries \in Nat /\ Len(r.log) \in Nat /\ r.log \in Seq(Trips)
<1>1. r.calls \in 0 .. MaxCalls /\ r.tries \in 0 .. MaxTries /\ r.log \in Seq(Trips)
  BY FieldFacts DEF Calls, Tries, Logs
<1>. QED BY <1>1, Bounds

LEMMA CallHolds ==
  ASSUME q \in RequestSet, ExitsHold(q), Call
  PROVE  EgressGood(q') /\ cache' = cache
<1>1. q.pc \in {"loop", "failed"} /\ cache' = cache
  BY DEF Call
<1>2. CASE q' = [q EXCEPT !.pc = "done"]
  <2>1. "done" \in Pcs
    BY DEF Pcs
  <2>2. q' \in RequestSet /\ q'.pc = "done" /\ SameExits(q, q')
    BY <1>2, <2>1 DEF RequestSet, SameExits
  <2>3. ExitsHold(q')
    BY <2>2, ExitsFrame DEF Resolving
  <2>. QED BY <1>1, <2>2, <2>3, ResolvingPcs DEF EgressGood
<1>3. CASE q.calls < MaxCalls /\ q' = [q EXCEPT !.pc = "attempt", !.calls = @ + 1, !.tries = 0]
  <2>1. "attempt" \in Pcs
    BY DEF Pcs
  <2>2. q.calls + 1 \in Calls /\ 0 \in Tries
    <3>1. q.calls \in 0 .. MaxCalls
      BY FieldFacts DEF Calls
    <3>. QED BY <1>3, <3>1, Bounds DEF Calls, Tries
  <2>3. q' \in RequestSet
    BY <1>3, <2>1, <2>2 DEF RequestSet
  <2>4. /\ q'.pc = "attempt" /\ q'.calls = q.calls + 1 /\ q'.tries = 0
        /\ q'.label = q.label /\ q'.log = q.log /\ q'.relay = q.relay /\ q'.tried = q.tried
        /\ q'.spec = q.spec
    BY <1>3 DEF RequestSet
  <2>5. q.label # ""
    BY <1>1 DEF ExitsHold, Exits
  <2>6. Exits(q')
    BY <2>4, <2>5 DEF ExitsHold, Exits, Resolving
  <2>7. NotRetried(q')
    BY <2>4 DEF ExitsHold, NotRetried
  <2>8. Trimmed(q')
    <3>1. Within(Len(q.log), q.calls)
      BY DEF ExitsHold, Trimmed
    <3>2. Within(Len(q.log), q.calls + 1) /\ Under(Len(q.log), q.calls + 1, 0)
      BY <3>1, CountFacts, CallCounts
    <3>. QED BY <2>4, <3>2 DEF Trimmed
  <2>. QED BY <1>1, <2>3, <2>4, <2>6, <2>7, <2>8, ResolvingPcs DEF EgressGood, ExitsHold
<1>. QED BY <1>2, <1>3 DEF Call

(* A round trip is logged at the end.                                      *)
LEMMA LogFacts ==
  ASSUME NEW log \in Seq(Trips), NEW x, NEW how \in Hows, [exit |-> x, how |-> how] \in Trips
  PROVE  LET l == Append(log, [exit |-> x, how |-> how])
         IN  /\ l \in Seq(Trips) /\ Len(l) = Len(log) + 1
             /\ \A i \in DOMAIN l : (i \in DOMAIN log /\ l[i] = log[i])
                                      \/ (i = Len(log) + 1 /\ l[i] = [exit |-> x, how |-> how])
             /\ \A i \in 1 .. Len(log) : l[i] = log[i]
             /\ l[Len(log) + 1] = [exit |-> x, how |-> how]
<1>. DEFINE t == [exit |-> x, how |-> how]
            l == Append(log, t)
<1>1. t \in Trips
  OBVIOUS
<1>. HIDE DEF t
<1>2. l \in Seq(Trips) /\ Len(l) = Len(log) + 1
  BY <1>1
<1>3. DOMAIN log = 1 .. Len(log) /\ Len(log) \in Nat /\ DOMAIN l = 1 .. Len(log) + 1
  BY <1>1
<1>4. \A i \in 1 .. Len(log) : l[i] = log[i]
  BY <1>1
<1>5. l[Len(log) + 1] = t
  BY <1>1
<1>. HIDE DEF l
<1>6. \A i \in DOMAIN l : (i \in DOMAIN log /\ l[i] = log[i]) \/ (i = Len(log) + 1 /\ l[i] = t)
  <2>1. \A i \in DOMAIN l : i \in 1 .. Len(log) \/ i = Len(log) + 1
    BY <1>3
  <2>. QED BY <2>1, <1>3, <1>4, <1>5
<1>. QED BY <1>2, <1>4, <1>5, <1>6 DEF l, t

(* A log by relays of the region of which none that failed is used again,  *)
(* longer by the relay in use, which is kept unless it failed.             *)
LEMMA RelayLogged ==
  ASSUME NEW log \in Seq(Trips), NEW spec, NEW tried, NEW h \in Hosts, NEW how \in Hows,
         ByRelay(log, spec, tried), InUse(log, h), Clean(log), h \in Region(spec) \ tried,
         NEW more, tried \subseteq more, NEW relay,
         how = "failed" => h \in more, how # "failed" => relay = h
  PROVE  LET l == Append(log, [exit |-> h, how |-> how])
         IN  /\ l \in Seq(Trips) /\ Len(l) = Len(log) + 1
             /\ ByRelay(l, spec, more) /\ InUse(l, relay) /\ Clean(l)
<1>. DEFINE t == [exit |-> h, how |-> how]
            l == Append(log, t)
<1>1. t \in Trips /\ t.exit = h /\ t.how = how
  BY DEF Trips
<1>2. /\ l \in Seq(Trips) /\ Len(l) = Len(log) + 1
      /\ \A i \in DOMAIN l : (i \in DOMAIN log /\ l[i] = log[i]) \/ (i = Len(log) + 1 /\ l[i] = t)
      /\ \A i \in 1 .. Len(log) : l[i] = log[i]
      /\ l[Len(log) + 1] = t
  BY <1>1, LogFacts
<1>3. DOMAIN log = 1 .. Len(log) /\ Len(log) \in Nat
  OBVIOUS
<1>. HIDE DEF t, l
<1>4. ByRelay(l, spec, more)
  BY <1>1, <1>2 DEF ByRelay
<1>5. InUse(l, relay)
  <2>. SUFFICES ASSUME NEW i \in DOMAIN l, i = Len(l), l[i].how # "failed" PROVE relay = l[i].exit
    BY DEF InUse
  <2>1. l[i] = t
    BY <1>2, <1>3
  <2>. QED BY <1>1, <2>1
<1>6. ASSUME NEW i \in DOMAIN l, NEW j \in DOMAIN l, i < j, l[i].exit # "default", l[i].how = "failed"
      PROVE  l[j].exit # l[i].exit
  <2>1. i \in DOMAIN log /\ l[i] = log[i]
    <3>1. i # Len(log) + 1
      BY <1>2, <1>3, <1>6
    <3>. QED BY <1>2, <3>1
  <2>2. CASE j \in DOMAIN log /\ l[j] = log[j]
    BY <1>6, <2>1, <2>2 DEF Clean
  <2>3. CASE j = Len(log) + 1 /\ l[j] = t
    BY <1>1, <1>6, <2>1, <2>3 DEF ByRelay
  <2>. QED BY <1>2, <2>2, <2>3
<1>7. ASSUME NEW i \in 1 .. Len(l) - 1, l[i].how # "failed"
      PROVE  l[i + 1].exit = l[i].exit
  <2>1. i \in DOMAIN log /\ i \in 1 .. Len(log) /\ l[i] = log[i]
    BY <1>2, <1>3
  <2>2. CASE i = Len(log)
    <3>1. h = log[i].exit
      BY <1>7, <2>1, <2>2 DEF InUse
    <3>. QED BY <1>1, <1>2, <2>1, <2>2, <3>1
  <2>3. CASE i # Len(log)
    <3>1. i \in 1 .. Len(log) - 1 /\ i + 1 \in 1 .. Len(log)
      BY <1>3, <2>1, <2>3
    <3>2. l[i + 1] = log[i + 1]
      BY <1>2, <3>1
    <3>. QED BY <1>7, <2>1, <3>1, <3>2 DEF Clean, Follows
  <2>. QED BY <2>2, <2>3
<1>8. Clean(l)
  BY <1>6, <1>7 DEF Clean, Follows
<1>. QED BY <1>2, <1>4, <1>5, <1>8 DEF l, t

LEMMA DefaultLogged ==
  ASSUME NEW log \in Seq(Trips), NEW how \in Hows, ByDefault(log)
  PROVE  LET l == Append(log, [exit |-> "default", how |-> how])
         IN  l \in Seq(Trips) /\ Len(l) = Len(log) + 1 /\ ByDefault(l) /\ Clean(l)
<1>. DEFINE t == [exit |-> "default", how |-> how]
            l == Append(log, t)
<1>1. t \in Trips /\ t.exit = "default"
  BY DEF Trips
<1>2. /\ l \in Seq(Trips) /\ Len(l) = Len(log) + 1
      /\ \A i \in DOMAIN l : (i \in DOMAIN log /\ l[i] = log[i]) \/ (i = Len(log) + 1 /\ l[i] = t)
  BY <1>1, LogFacts
<1>. HIDE DEF t, l
<1>3. ByDefault(l)
  BY <1>1, <1>2 DEF ByDefault
<1>4. Follows(l)
  <2>. SUFFICES ASSUME NEW i \in 1 .. Len(l) - 1 PROVE l[i + 1].exit = l[i].exit
    BY DEF Follows
  <2>1. DOMAIN l = 1 .. Len(l) /\ Len(l) \in Nat
    BY <1>2
  <2>2. i \in DOMAIN l /\ i + 1 \in DOMAIN l
    BY <2>1
  <2>. QED BY <1>3, <2>2 DEF ByDefault
<1>5. Clean(l)
  BY <1>3, <1>4 DEF ByDefault, Clean
<1>. QED BY <1>2, <1>3, <1>5 DEF l, t

LEMMA AttemptHolds ==
  ASSUME q \in RequestSet, ExitsHold(q), Attempt
  PROVE  EgressGood(q') /\ cache' = cache
<1>1. q.pc = "attempt" /\ cache' = cache /\ q.label # ""
  BY DEF Attempt, ExitsHold, Exits
<1>2. q.log \in Seq(Trips) /\ Len(q.log) \in Nat /\ q.calls \in Nat /\ q.tries \in Nat
  BY CountFacts
<1>3. Under(Len(q.log), q.calls, q.tries)
  BY <1>1 DEF ExitsHold, Trimmed, Calling
<1>4. /\ Within(Len(q.log) + 1, q.calls)
      /\ q.tries + 1 # MaxTries => Under(Len(q.log) + 1, q.calls, q.tries + 1)
      /\ q.tries + 1 <= MaxTries
  BY <1>2, <1>3, TripCounts
<1>5. /\ q.relay # None => q.relay \in Hosts /\ q.relay \in Region(q.spec) \ q.tried
      /\ q.relay # None => q.label # "default"
  BY FieldFacts DEF ExitsHold, Exits, RelayOrNone
<1>6. ASSUME NEW how \in Hows, NEW nextPc \in {"loop", "failed"}, q.label = "default",
             q' = [Logged(q, "default", how) EXCEPT !.pc = nextPc]
      PROVE  EgressGood(q')
  <2>. DEFINE l == Append(q.log, [exit |-> "default", how |-> how])
  <2>1. ByDefault(q.log) /\ q.relay = None
    BY <1>6 DEF ExitsHold, Exits
  <2>2. l \in Seq(Trips) /\ Len(l) = Len(q.log) + 1 /\ ByDefault(l) /\ Clean(l)
    BY <1>2, <2>1, DefaultLogged
  <2>3. nextPc \in Pcs /\ l \in Logs /\ nextPc \in {"loop", "failed"}
    BY <2>2 DEF Pcs, Logs
  <2>4. q' = [q EXCEPT !.log = l, !.pc = nextPc]
    BY <1>6 DEF Logged, RequestSet
  <2>. HIDE DEF l
  <2>5. q' \in RequestSet
    BY <2>3, <2>4 DEF RequestSet
  <2>6. /\ q'.pc = nextPc /\ q'.log = l /\ q'.label = "default" /\ q'.relay = None
        /\ q'.calls = q.calls
    BY <1>6, <2>1, <2>4 DEF RequestSet
  <2>7. Exits(q')
    BY <2>2, <2>3, <2>6 DEF Exits, Resolving
  <2>8. NotRetried(q')
    BY <2>2, <2>6 DEF NotRetried
  <2>9. Trimmed(q')
    BY <1>4, <2>2, <2>3, <2>6 DEF Trimmed, Calling, Resolving
  <2>. QED BY <2>3, <2>5, <2>6, <2>7, <2>8, <2>9, ResolvingPcs DEF EgressGood, ExitsHold
<1>7. CASE q.label # "default" /\ q.relay = None /\ q' = [q EXCEPT !.pc = "exit"]
  <2>1. "exit" \in Pcs /\ "exit" \in Resolving
    BY DEF Pcs, Resolving
  <2>2. q' \in RequestSet
    BY <1>7, <2>1 DEF RequestSet
  <2>3. q'.pc = "exit" /\ SameExits(q, q')
    BY <1>7 DEF RequestSet, SameExits
  <2>4. Exits(q')
    BY <1>1, <1>7, <2>3 DEF ExitsHold, Exits, SameExits
  <2>5. NotRetried(q')
    BY <2>3 DEF ExitsHold, NotRetried, SameExits
  <2>6. Trimmed(q')
    BY <1>3, <2>3 DEF ExitsHold, Trimmed, SameExits
  <2>. QED BY <1>1, <2>1, <2>2, <2>3, <2>4, <2>5, <2>6, ResolvingPcs DEF EgressGood, ExitsHold
<1>8. CASE q' = [q EXCEPT !.pc = "done"]
  <2>1. "done" \in Pcs
    BY DEF Pcs
  <2>2. q' \in RequestSet /\ q'.pc = "done" /\ SameExits(q, q')
    BY <1>8, <2>1 DEF RequestSet, SameExits
  <2>3. ExitsHold(q')
    BY <2>2, ExitsFrame DEF Resolving
  <2>. QED BY <1>1, <2>2, <2>3, ResolvingPcs DEF EgressGood
<1>9. ASSUME NEW how \in {"ok", "late"}, NEW nextPc \in {"loop", "failed"}, q.relay # None,
             q' = [Logged(q, q.relay, how) EXCEPT !.pc = nextPc]
      PROVE  EgressGood(q')
  <2>. DEFINE l == Append(q.log, [exit |-> q.relay, how |-> how])
  <2>1. ByRelay(q.log, q.spec, q.tried) /\ InUse(q.log, q.relay) /\ Clean(q.log)
    BY <1>1, <1>5, <1>9 DEF ExitsHold, Exits, NotRetried
  <2>2. how \in Hows /\ how # "failed"
    BY DEF Hows
  <2>3. /\ l \in Seq(Trips) /\ Len(l) = Len(q.log) + 1
        /\ ByRelay(l, q.spec, q.tried) /\ InUse(l, q.relay) /\ Clean(l)
    BY <1>2, <1>5, <1>9, <2>1, <2>2, RelayLogged
  <2>4. nextPc \in Pcs /\ l \in Logs
    BY <2>3 DEF Pcs, Logs
  <2>5. q' = [q EXCEPT !.log = l, !.pc = nextPc]
    BY <1>9 DEF Logged, RequestSet
  <2>. HIDE DEF l
  <2>6. q' \in RequestSet
    BY <2>4, <2>5 DEF RequestSet
  <2>7. /\ q'.pc = nextPc /\ q'.log = l /\ q'.label = q.label /\ q'.relay = q.relay
        /\ q'.calls = q.calls /\ q'.tried = q.tried /\ q'.spec = q.spec
    BY <2>5 DEF RequestSet
  <2>8. Exits(q')
    BY <1>1, <1>5, <1>9, <2>3, <2>7 DEF ExitsHold, Exits, Resolving
  <2>9. NotRetried(q')
    BY <2>3, <2>7 DEF NotRetried
  <2>10. Trimmed(q')
    BY <1>4, <2>3, <2>7 DEF Trimmed, Calling, Resolving
  <2>. QED BY <1>1, <2>6, <2>7, <2>8, <2>9, <2>10, ResolvingPcs DEF EgressGood, ExitsHold
<1>10. CASE /\ q.relay # None
            /\ q' = [Logged(q, q.relay, "failed") EXCEPT
                       !.tried = @ \cup {q.relay}, !.relay = None, !.tries = @ + 1,
                       !.pc = IF q.tries + 1 = MaxTries THEN "failed" ELSE "attempt"]
  <2>. DEFINE l == Append(q.log, [exit |-> q.relay, how |-> "failed"])
              burnt == q.tried \cup {q.relay}
              nextPc == IF q.tries + 1 = MaxTries THEN "failed" ELSE "attempt"
              n == q.tries + 1
  <2>1. /\ ByRelay(q.log, q.spec, q.tried) /\ InUse(q.log, q.relay) /\ Clean(q.log)
        /\ q.label # "default"
    BY <1>1, <1>5, <1>10 DEF ExitsHold, Exits, NotRetried
  <2>2. "failed" \in Hows /\ q.tried \subseteq burnt /\ q.relay \in burnt
    BY DEF Hows
  <2>3. /\ l \in Seq(Trips) /\ Len(l) = Len(q.log) + 1
        /\ ByRelay(l, q.spec, burnt) /\ InUse(l, None) /\ Clean(l)
    <3>. HIDE DEF burnt
    <3>. QED BY <1>2, <1>5, <1>10, <2>1, <2>2, RelayLogged
  <2>4. /\ nextPc \in Pcs /\ l \in Logs /\ burnt \in HostSets /\ None \in RelayOrNone /\ n \in Tries
    <3>1. burnt \in HostSets
      BY <1>5, <1>10, FieldFacts DEF HostSets
    <3>2. n \in Tries
      BY <1>2, <1>4, Bounds DEF Tries
    <3>. QED BY <2>3, <3>1, <3>2 DEF Pcs, Logs, RelayOrNone
  <2>5. q' = [q EXCEPT !.log = l, !.tried = burnt, !.relay = None, !.tries = n, !.pc = nextPc]
    BY <1>10 DEF Logged, RequestSet
  <2>6. nextPc = "failed" \/ (nextPc = "attempt" /\ q.tries + 1 # MaxTries)
    OBVIOUS
  <2>. HIDE DEF l, burnt, nextPc, n
  <2>7. q' \in RequestSet
    BY <2>4, <2>5 DEF RequestSet
  <2>8. /\ q'.pc = nextPc /\ q'.log = l /\ q'.label = q.label /\ q'.relay = None
        /\ q'.calls = q.calls /\ q'.tried = burnt /\ q'.spec = q.spec /\ q'.tries = n
    BY <2>5 DEF RequestSet
  <2>9. Exits(q')
    BY <1>1, <2>1, <2>3, <2>6, <2>8 DEF ExitsHold, Exits, Resolving
  <2>10. NotRetried(q')
    BY <2>3, <2>8 DEF NotRetried
  <2>11. Trimmed(q')
    <3>1. Within(Len(q'.log), q'.calls)
      BY <1>4, <2>3, <2>8
    <3>2. q'.pc = "attempt" => Under(Len(q'.log), q'.calls, q'.tries)
      BY <1>4, <2>3, <2>6, <2>8 DEF n
    <3>3. Calling(q') => q'.pc = "attempt"
      BY <2>6, <2>8 DEF Calling, Resolving
    <3>. QED BY <3>1, <3>2, <3>3 DEF Trimmed
  <2>. QED BY <1>1, <2>6, <2>7, <2>8, <2>9, <2>10, <2>11, ResolvingPcs DEF EgressGood, ExitsHold
<1>11. CASE q.label = "default"
  BY <1>5, <1>6, <1>8, <1>11 DEF Attempt, Hows
<1>12. CASE q.label # "default"
  BY <1>7, <1>8, <1>9, <1>10, <1>12 DEF Attempt
<1>. QED BY <1>1, <1>11, <1>12

LEMMA EgressHolds ==
  ASSUME Typed, ExitsHold(q), Egress
  PROVE  /\ EgressGood(q') /\ cache' \in Caches
         /\ UNCHANGED <<avail, reachable, listing, flips, mirror, embedded>>
<1>1. UNCHANGED <<avail, reachable, listing, flips, mirror, embedded>>
  BY DEF Egress, world
<1>2. q \in RequestSet /\ cache \in Caches /\ listing \subseteq Hosts
  BY DEF Typed
<1>. QED BY <1>1, <1>2, ClientForHolds, FetchHolds, StoreHolds, ResolveHolds, CallHolds, AttemptHolds
         DEF Egress

-----------------------------------------------------------------------------
(* Classification: reads of the mirror.                                    *)
Kin(r, s) ==
  /\ SameExits(r, s) /\ s.tier = r.tier /\ s.prompt = r.prompt /\ s.moved = r.moved

LEMMA AliasFacts ==
  /\ Categories \subseteq Aliases /\ "coder-hard" \in Aliases /\ Escalation \in Aliases
  /\ \A a \in Aliases : a \in Targets
  /\ "coder" \in Categories /\ "vision" \in Categories /\ None \notin Categories
  BY CategoryFacts DEF Aliases, Targets, None

LEMMA SawFacts ==
  ASSUME NEW r \in RequestSet, NEW name \in Aliases, NEW s, s = Saw(r, name)
  PROVE  /\ s \in RequestSet /\ Kin(r, s)
         /\ s.pc = r.pc /\ s.at = r.at /\ s.best = r.best /\ s.final = r.final /\ s.picked = r.picked
         /\ r.up \subseteq s.up /\ r.down \subseteq s.down
         /\ MirrorRoutable(name) => name \in s.up
         /\ ~MirrorRoutable(name) => name \in s.down
<1>1. r.up \cup {name} \in AliasSets /\ r.down \cup {name} \in AliasSets
  BY FieldFacts DEF AliasSets
<1>2. CASE MirrorRoutable(name)
  <2>1. s = [r EXCEPT !.up = r.up \cup {name}]
    BY <1>2 DEF Saw
  <2>2. s \in RequestSet
    BY <1>1, <2>1 DEF RequestSet
  <2>. QED BY <1>2, <2>1, <2>2 DEF RequestSet, Kin, SameExits
<1>3. CASE ~MirrorRoutable(name)
  <2>1. s = [r EXCEPT !.down = r.down \cup {name}]
    BY <1>3 DEF Saw
  <2>2. s \in RequestSet
    BY <1>1, <2>1 DEF RequestSet
  <2>. QED BY <1>3, <2>1, <2>2 DEF RequestSet, Kin, SameExits
<1>. QED BY <1>2, <1>3

LEMMA PickedFacts ==
  ASSUME NEW r \in RequestSet, NEW alias \in Aliases, NEW s, s = Picked(r, alias)
  PROVE  /\ s \in RequestSet /\ Kin(r, s) /\ s.pc = "redirected" /\ s.picked = alias
         /\ s.up = r.up /\ s.down = r.down /\ s.final = r.final
<1>1. "redirected" \in Pcs /\ alias \in Targets
  BY AliasFacts, PcFacts
<1>2. s \in RequestSet
  BY <1>1 DEF RequestSet, Picked
<1>. QED BY <1>2 DEF RequestSet, Picked, Kin, SameExits

LEMMA KinTransitive ==
  ASSUME NEW r, NEW s, NEW t, Kin(r, s), Kin(s, t)
  PROVE  Kin(r, t)
  BY DEF Kin, SameExits

LEMMA NothingPassed == Passed(0) = {} /\ Passed(1) = {}
<1>1. \A j \in 1 .. 4 : ~(j < 0) /\ ~(j < 1)
  OBVIOUS
<1>. QED BY <1>1, CatFacts DEF Passed

LEMMA OnePassed ==
  ASSUME NEW at \in 1 .. 4
  PROVE  Passed(at + 1) = Passed(at) \cup {Cats[at]}
<1>1. \A j \in 1 .. 4 : j < at + 1 <=> (j < at \/ j = at)
  OBVIOUS
<1>. QED BY <1>1, CatFacts DEF Passed

LEMMA AllPassed == Passed(5) = Categories
<1>1. \A j \in 1 .. 4 : j < 5
  OBVIOUS
<1>. QED BY <1>1, CatFacts DEF Passed, Categories

(* The names are let through that the mirror's reads let through.          *)
LEMMA ThroughFacts ==
  ASSUME NEW c \in Categories
  PROVE  MirrorRoutable(c) <=> c \in Through(mirror)
  BY DEF MirrorRoutable, Through

LEMMA PlaceFacts ==
  /\ \A i \in 1 .. 4 : Place(Cats[i]) = i
  /\ \A c \in Categories : Place(c) \in 1 .. 4 /\ Cats[Place(c)] = c
<1>1. ASSUME NEW i \in 1 .. 4, NEW j \in 1 .. 4, Cats[j] = Cats[i] PROVE j = i
  <2>1. (i = 1 \/ i = 2 \/ i = 3 \/ i = 4) /\ (j = 1 \/ j = 2 \/ j = 3 \/ j = 4)
    OBVIOUS
  <2>. QED BY <1>1, <2>1, CatFacts
<1>2. \A i \in 1 .. 4 : Place(Cats[i]) = i
  BY <1>1, CatFacts DEF Place
<1>3. \A c \in Categories : \E i \in 1 .. 4 : c = Cats[i]
  BY CatFacts DEF Categories
<1>. QED BY <1>2, <1>3

(* The first of a set is the member no other is in front of.               *)
LEMMA FirstIs ==
  ASSUME NEW S, S \subseteq Categories, NEW c \in S, \A d \in S : Place(c) <= Place(d)
  PROVE  FirstOf(S) = c
<1>1. ASSUME NEW b \in S, \A d \in S : Place(b) <= Place(d) PROVE b = c
  <2>1. Place(b) <= Place(c) /\ Place(c) <= Place(b)
    BY <1>1
  <2>2. Place(b) \in 1 .. 4 /\ Place(c) \in 1 .. 4 /\ Cats[Place(b)] = b /\ Cats[Place(c)] = c
    BY PlaceFacts
  <2>3. Place(b) = Place(c)
    BY <2>1, <2>2
  <2>. QED BY <2>2, <2>3
<1>. QED BY <1>1 DEF FirstOf

(* Where a sweep stops: at the first name let through.                     *)
LEMMA SweepStops ==
  ASSUME NEW U, U \subseteq Categories, NEW at \in 1 .. 4, Passed(at) \cap U = {}
  PROVE  /\ Cats[at] \in U => FallbackOf(U) = Cats[at]
         /\ at = 4 /\ Cats[at] \notin U => FallbackOf(U) = "coder"
<1>1. ASSUME Cats[at] \in U, NEW d \in U PROVE Place(Cats[at]) <= Place(d)
  <2>1. Place(d) \in 1 .. 4 /\ Cats[Place(d)] = d /\ Place(Cats[at]) = at
    BY PlaceFacts
  <2>2. Place(d) < at => d \in Passed(at)
    BY <2>1, CatFacts DEF Passed
  <2>. QED BY <2>1, <2>2
<1>2. Cats[at] \in U => FallbackOf(U) = Cats[at]
  BY <1>1, FirstIs DEF FallbackOf
<1>3. ASSUME at = 4, Cats[at] \notin U PROVE U = {}
  <2>1. Passed(4 + 1) = Passed(4) \cup {Cats[4]}
    BY OnePassed
  <2>2. 4 + 1 = 5
    OBVIOUS
  <2>. QED BY <1>3, <2>1, <2>2, AllPassed
<1>. QED BY <1>2, <1>3 DEF FallbackOf

LEMMA SweepStopsAtOnce ==
  ASSUME NEW U, U \subseteq Categories, "coder" \in U
  PROVE  FallbackOf(U) = "coder"
<1>1. 1 \in 1 .. 4 /\ Cats[1] = "coder" /\ Passed(1) = {}
  BY CatFacts, NothingPassed
<1>. QED BY <1>1, SweepStops

(* The leader of the scored names is the reference's best.                 *)
LEMMA LeaderIsBest ==
  ASSUME NEW U, U \subseteq Categories, NEW e, e \subseteq Categories,
         NEW score \in [Categories -> Nat], NEW b \in Categories, Leads(b, U \cap e, score)
  PROVE  b = BestOf(U, e, score)
<1>. DEFINE S == U \cap e
            top == {c \in S : \A d \in S : score[c] >= score[d]}
<1>1. /\ b \in S
      /\ \A d \in S : score[b] > score[d] \/ (score[b] = score[d] /\ Place(b) <= Place(d))
  BY AliasFacts DEF Leads
<1>2. \A d \in S : score[d] \in Nat /\ d \in Categories
  OBVIOUS
<1>. HIDE DEF S
<1>3. \A d \in S : score[b] >= score[d]
  BY <1>1, <1>2
<1>4. b \in top
  BY <1>1, <1>3
<1>5. ASSUME NEW d \in top PROVE Place(b) <= Place(d)
  <2>1. d \in S /\ score[d] >= score[b]
    BY <1>1
  <2>2. ~(score[b] > score[d])
    BY <1>1, <1>2, <2>1
  <2>. QED BY <1>1, <2>1, <2>2
<1>6. top \subseteq Categories
  BY <1>2
<1>. HIDE DEF top
<1>7. FirstOf(top) = b
  BY <1>4, <1>5, <1>6, FirstIs
<1>8. S # {}
  BY <1>1
<1>. QED BY <1>7, <1>8 DEF BestOf, S, top

-----------------------------------------------------------------------------
(* Classification, step by step: what was seen, and what it is worth while *)
(* nothing moves.                                                          *)
Worth(r) == Reasoned(r, mirror, embedded)

ClassifyGood(r, s) ==
  /\ s \in RequestSet /\ Kin(r, s) /\ s.pc \in Classifying
  /\ Seen(s) /\ (Worth(r) => Worth(s))

LEMMA PickGood ==
  ASSUME NEW r \in RequestSet, NEW s \in RequestSet, NEW alias \in Aliases, NEW t,
         Kin(r, s), t = Picked(s, alias),
         \/ alias \in s.up
         \/ alias = "coder" /\ (Categories \subseteq s.down \/ (s.up = {} /\ s.down = {})),
         Worth(r) => alias = ChoiceOf(s, mirror, embedded)
  PROVE  ClassifyGood(r, t)
<1>1. /\ t \in RequestSet /\ Kin(s, t) /\ t.pc = "redirected" /\ t.picked = alias
      /\ t.up = s.up /\ t.down = s.down /\ t.final = s.final
  BY PickedFacts
<1>2. Kin(r, t)
  BY <1>1, KinTransitive
<1>3. Seen(t) /\ t.pc \in Classifying
  BY <1>1 DEF Seen, Classifying
<1>4. ChoiceOf(t, mirror, embedded) = ChoiceOf(s, mirror, embedded)
  BY <1>1 DEF ChoiceOf, Upgraded, Kin
<1>5. Worth(r) => Worth(t)
  BY <1>1, <1>4 DEF Worth, Reasoned, Scanned
<1>. QED BY <1>1, <1>2, <1>3, <1>5 DEF ClassifyGood

LEMMA SeeImageGood ==
  ASSUME q \in RequestSet, Seen(q), SeeImage
  PROVE  ClassifyGood(q, q')
<1>. DEFINE r == Saw(q, "vision")
<1>0. "vision" \in Aliases /\ "vision" \in Categories
  BY AliasFacts
<1>1. /\ r \in RequestSet /\ Kin(q, r) /\ r.at = q.at
      /\ MirrorRoutable("vision") => "vision" \in r.up
  BY <1>0, SawFacts
<1>2. q.pc = "image" /\ q.at = 0
  BY DEF SeeImage, Seen
<1>3. Worth(q) => q.prompt.msg = "image" /\ embedded # {}
  BY <1>2 DEF Worth, Reasoned, Scanned
<1>4. r.prompt = q.prompt
  BY <1>1 DEF Kin
<1>5. CASE MirrorRoutable("vision")
  <2>1. q' = Picked(r, "vision")
    BY <1>5 DEF SeeImage
  <2>2. "vision" \in Through(mirror)
    BY <1>0, <1>5, ThroughFacts
  <2>. HIDE DEF r
  <2>3. Worth(q) => "vision" = ChoiceOf(r, mirror, embedded)
    BY <1>3, <1>4, <2>2 DEF ChoiceOf
  <2>. QED BY <1>0, <1>1, <1>5, <2>1, <2>3, PickGood
<1>6. CASE ~MirrorRoutable("vision")
  <2>1. q' = [r EXCEPT !.pc = "sweep", !.final = TRUE]
    BY <1>6 DEF SeeImage
  <2>. HIDE DEF r
  <2>2. "sweep" \in Pcs /\ TRUE \in Flags
    BY PcFacts DEF Flags
  <2>3. q' \in RequestSet
    BY <1>1, <2>1, <2>2 DEF RequestSet
  <2>4. q'.pc = "sweep" /\ q'.at = 0 /\ Kin(r, q') /\ q'.final = TRUE
    BY <1>1, <1>2, <2>1 DEF RequestSet, Kin, SameExits
  <2>5. Kin(q, q')
    BY <1>1, <2>4, KinTransitive
  <2>6. Seen(q') /\ q'.pc \in Classifying
    BY <2>4, NothingPassed DEF Seen, Classifying
  <2>7. "vision" \notin Through(mirror)
    BY <1>0, <1>6, ThroughFacts
  <2>8. Worth(q) => Worth(q')
    BY <1>3, <2>4, <2>7, NothingPassed DEF Worth, Reasoned, Scanned
  <2>. QED BY <2>3, <2>4, <2>5, <2>6, <2>8 DEF ClassifyGood
<1>. QED BY <1>5, <1>6

LEMMA EmbedPromptGood ==
  ASSUME q \in RequestSet, Seen(q), EmbedPrompt
  PROVE  ClassifyGood(q, q')
<1>1. q.pc = "embed" /\ q.at = 0 /\ q.best = None
  BY DEF EmbedPrompt, Seen
<1>2. "sweep" \in Pcs /\ "score" \in Pcs /\ TRUE \in Flags /\ 1 \in Ats
  BY PcFacts DEF Flags, Ats
<1>3. Worth(q) => q.prompt.msg = "text" /\ embedded # {} /\ ~q.final
  BY <1>1 DEF Worth, Reasoned, Scanned
<1>4. CASE q' = [q EXCEPT !.pc = "score", !.at = 1]
  <2>1. q' \in RequestSet
    BY <1>2, <1>4 DEF RequestSet
  <2>2. q'.pc = "score" /\ q'.at = 1 /\ q'.best = None /\ q'.final = q.final /\ Kin(q, q')
    BY <1>1, <1>4 DEF RequestSet, Kin, SameExits
  <2>3. Seen(q') /\ q'.pc \in Classifying
    BY <2>2 DEF Seen, Classifying
  <2>4. Leads(q'.best, Passed(q'.at) \cap Through(mirror) \cap embedded, q'.prompt.score)
    BY <2>2, NothingPassed DEF Leads
  <2>5. q'.prompt = q.prompt
    BY <2>2 DEF Kin
  <2>6. Worth(q) => Worth(q')
    BY <1>3, <2>2, <2>4, <2>5 DEF Worth, Reasoned, Scanned
  <2>. QED BY <2>1, <2>2, <2>3, <2>6 DEF ClassifyGood
<1>5. CASE q' = [q EXCEPT !.pc = "sweep", !.final = TRUE]
  <2>1. q' \in RequestSet
    BY <1>2, <1>5 DEF RequestSet
  <2>2. q'.pc = "sweep" /\ q'.at = 0 /\ q'.final = TRUE /\ Kin(q, q')
    BY <1>1, <1>5 DEF RequestSet, Kin, SameExits
  <2>3. Seen(q') /\ q'.pc \in Classifying
    BY <2>2, NothingPassed DEF Seen, Classifying
  <2>4. q'.prompt = q.prompt
    BY <2>2 DEF Kin
  <2>5. Worth(q) => Worth(q')
    BY <1>3, <2>2, <2>4, NothingPassed DEF Worth, Reasoned, Scanned
  <2>. QED BY <2>1, <2>2, <2>3, <2>5 DEF ClassifyGood
<1>. QED BY <1>4, <1>5 DEF EmbedPrompt

(* One category of the scoring loop: cat joins the names passed, and leads *)
(* them when it is let through and beats the leader.                       *)
LEMMA LeadMoves ==
  ASSUME NEW at \in 1 .. 4, NEW U, U \subseteq Categories, NEW e, NEW score \in [Categories -> Nat],
         NEW b \in Bests, Leads(b, Passed(at) \cap U \cap e, score),
         NEW c, c = IF Cats[at] \in e /\ (b = None \/ score[Cats[at]] > score[b]) /\ Cats[at] \in U
                    THEN Cats[at] ELSE b
  PROVE  Leads(c, Passed(at + 1) \cap U \cap e, score)
<1>. DEFINE cat == Cats[at]
            S == Passed(at) \cap U \cap e
            T == Passed(at + 1) \cap U \cap e
<1>1. Passed(at + 1) = Passed(at) \cup {cat}
  BY OnePassed
<1>2. T = IF cat \in U /\ cat \in e THEN S \cup {cat} ELSE S
  BY <1>1
<1>3. cat \in Categories /\ Place(cat) = at /\ cat # None
  BY CategoryFacts, PlaceFacts, AliasFacts
<1>4. \A d \in S : d \in Categories /\ score[d] \in Nat /\ Place(d) < at /\ Place(d) \in Nat
  <2>1. \A d \in Passed(at) : \E i \in 1 .. 4 : i < at /\ d = Cats[i]
    BY CatFacts DEF Passed
  <2>2. ASSUME NEW d \in S PROVE d \in Categories /\ score[d] \in Nat /\ Place(d) < at /\ Place(d) \in Nat
    <3>1. PICK i \in 1 .. 4 : i < at /\ d = Cats[i]
      BY <2>1
    <3>2. Place(d) = i /\ d \in Categories
      BY <3>1, PlaceFacts, CategoryFacts
    <3>. QED BY <3>1, <3>2
  <2>. QED BY <2>2
<1>5. score[cat] \in Nat
  BY <1>3
<1>. SUFFICES Leads(c, T, score)
  OBVIOUS
<1>. HIDE DEF cat, S, T
<1>6. c = IF cat \in e /\ (b = None \/ score[cat] > score[b]) /\ cat \in U THEN cat ELSE b
  BY DEF cat
<1>7. Leads(b, S, score)
  BY DEF S
<1>8. CASE ~(cat \in U /\ cat \in e)
  BY <1>2, <1>6, <1>7, <1>8
<1>9. CASE cat \in U /\ cat \in e /\ b = None
  <2>1. c = cat /\ S = {} /\ T = {cat}
    BY <1>2, <1>6, <1>7, <1>9 DEF Leads
  <2>. QED BY <1>3, <1>5, <2>1 DEF Leads
<1>10. CASE cat \in U /\ cat \in e /\ b # None
  <2>1. /\ b \in S /\ T = S \cup {cat}
        /\ \A d \in S : score[b] > score[d] \/ (score[b] = score[d] /\ Place(b) <= Place(d))
    BY <1>2, <1>7, <1>10 DEF Leads
  <2>2. CASE score[cat] > score[b]
    <3>1. c = cat
      BY <1>6, <1>10, <2>2
    <3>2. \A d \in S : score[cat] > score[d]
      BY <1>4, <1>5, <2>1, <2>2
    <3>3. cat \in T /\ score[cat] = score[cat] /\ Place(cat) <= Place(cat)
      BY <1>3, <2>1
    <3>. QED BY <1>3, <2>1, <3>1, <3>2, <3>3 DEF Leads
  <2>3. CASE ~(score[cat] > score[b])
    <3>1. c = b
      BY <1>6, <1>10, <2>3
    <3>2. score[b] > score[cat] \/ (score[b] = score[cat] /\ Place(b) <= Place(cat))
      BY <1>3, <1>4, <1>5, <2>1, <2>3
    <3>. QED BY <1>10, <2>1, <3>1, <3>2 DEF Leads
  <2>. QED BY <2>2, <2>3
<1>. QED BY <1>8, <1>9, <1>10

LEMMA ScoreStepGood ==
  ASSUME q \in RequestSet, Seen(q), embedded \subseteq Categories, ScoreStep
  PROVE  ClassifyGood(q, q')
<1>. DEFINE cat == Cats[q.at]
            asked == cat \in embedded /\ Beats(cat)
            r == IF cat \in embedded /\ Beats(cat) THEN Saw(q, cat) ELSE q
            b == IF cat \in embedded /\ Beats(cat) /\ MirrorRoutable(cat) THEN cat ELSE q.best
            at == IF q.at = 4 THEN 0 ELSE q.at + 1
            nextPc == IF q.at # 4 THEN "score" ELSE IF b = None THEN "sweep" ELSE "upgrade"
            score == q.prompt.score
<1>1. q.pc = "score" /\ q.at \in 1 .. 4 /\ q.best \in Bests
  <2>1. q.pc = "score" /\ q.at \in 0 .. 4 /\ q.at >= 1 /\ q.best \in Bests
    BY FieldFacts DEF ScoreStep, Seen, Ats
  <2>. QED BY <2>1
<1>2. cat \in Categories /\ cat \in Aliases
  BY <1>1, CategoryFacts, AliasFacts
<1>3. q' = [r EXCEPT !.best = b, !.at = at, !.pc = nextPc]
  BY CatFacts DEF ScoreStep
<1>4. /\ r \in RequestSet /\ Kin(q, r) /\ r.final = q.final
      /\ q.up \subseteq r.up
      /\ cat \in embedded /\ Beats(cat) /\ MirrorRoutable(cat) => cat \in r.up
  <2>1. CASE cat \in embedded /\ Beats(cat)
    BY <1>2, <2>1, SawFacts
  <2>2. CASE ~(cat \in embedded /\ Beats(cat))
    BY <2>2 DEF Kin, SameExits
  <2>. QED BY <2>1, <2>2
<1>5. b \in Bests /\ at \in Ats /\ nextPc \in Pcs
  <2>1. at \in 0 .. 4
    BY <1>1
  <2>. QED BY <1>1, <1>2, <2>1, PcFacts DEF Bests, Ats
<1>6. /\ q.at # 4 => at >= 1 /\ at = q.at + 1 /\ nextPc = "score"
      /\ q.at = 4 => at = 0 /\ nextPc = IF b = None THEN "sweep" ELSE "upgrade"
  BY <1>1
<1>7. b # None => b \in r.up
  <2>1. q.best # None => q.best \in q.up
    BY <1>1 DEF Seen
  <2>. QED BY <1>4, <2>1
<1>8. Worth(q) => Leads(b, Passed(q.at + 1) \cap Through(mirror) \cap embedded, score)
  <2>. SUFFICES ASSUME Worth(q)
                PROVE  Leads(b, Passed(q.at + 1) \cap Through(mirror) \cap embedded, score)
    OBVIOUS
  <2>1. Leads(q.best, Passed(q.at) \cap Through(mirror) \cap embedded, score)
    BY <1>1 DEF Worth, Reasoned, Scanned
  <2>2. score \in [Categories -> Nat]
    BY FieldFacts, PromptFacts
  <2>3. b = IF cat \in embedded /\ (q.best = None \/ score[cat] > score[q.best]) /\ cat \in Through(mirror)
            THEN cat ELSE q.best
    BY <1>2, ThroughFacts DEF Beats, Score
  <2>4. Through(mirror) \subseteq Categories
    BY DEF Through
  <2>. HIDE DEF score, b
  <2>. QED BY <1>1, <2>1, <2>2, <2>3, <2>4, LeadMoves
<1>9. Worth(q) => q.prompt.msg = "text" /\ embedded # {} /\ ~q.final
  BY <1>1 DEF Worth, Reasoned, Scanned
<1>. HIDE DEF r, b, at, nextPc, score
<1>10. q' \in RequestSet
  BY <1>3, <1>4, <1>5 DEF RequestSet
<1>11. q'.pc = nextPc /\ q'.at = at /\ q'.best = b /\ q'.up = r.up /\ q'.final = q.final /\ Kin(r, q')
  BY <1>3, <1>4 DEF RequestSet, Kin, SameExits
<1>12. Kin(q, q') /\ q'.prompt = q.prompt
  BY <1>4, <1>11, KinTransitive DEF Kin
<1>13. nextPc \in {"score", "sweep", "upgrade"}
  BY <1>6
<1>14. q'.pc \in Classifying
  BY <1>11, <1>13 DEF Classifying
<1>15. Seen(q')
  <2>1. nextPc = "score" => at >= 1
    BY <1>6
  <2>2. nextPc = "sweep" => at = 0
    BY <1>6
  <2>3. nextPc = "upgrade" => b # None
    BY <1>6
  <2>. QED BY <1>7, <1>11, <1>13, <2>1, <2>2, <2>3, NothingPassed DEF Seen
<1>16. Worth(q) => Worth(q')
  <2>. SUFFICES ASSUME Worth(q) PROVE Worth(q')
    OBVIOUS
  <2>. DEFINE U == Through(mirror)
  <2>1. U \subseteq Categories
    BY DEF Through
  <2>. HIDE DEF U
  <2>2. Leads(b, Passed(q.at + 1) \cap U \cap embedded, score)
    BY <1>8 DEF U
  <2>3. q.at = 4 => Passed(q.at + 1) = Categories
    <3>1. 4 + 1 = 5
      OBVIOUS
    <3>. QED BY <3>1, AllPassed
  <2>4. q.at = 4 => Leads(b, U \cap embedded, score)
    <3>1. Categories \cap U \cap embedded = U \cap embedded
      BY <2>1
    <3>. QED BY <2>2, <2>3, <3>1
  <2>5. score \in [Categories -> Nat] /\ score = q'.prompt.score
    BY <1>12, FieldFacts, PromptFacts DEF score
  <2>6. nextPc = "score" => Leads(b, Passed(at) \cap U \cap embedded, q'.prompt.score)
    BY <1>6, <2>2, <2>5
  <2>7. nextPc = "sweep" => U \cap embedded = {} /\ at = 0
    BY <1>6, <2>4 DEF Leads
  <2>8. nextPc = "upgrade" => b = BestOf(U, embedded, q'.prompt.score)
    <3>1. nextPc = "upgrade" => b \in Categories /\ q.at = 4
      BY <1>5, <1>6 DEF Bests
    <3>. QED BY <2>1, <2>4, <2>5, <3>1, LeaderIsBest
  <2>9. Scanned(q', mirror, embedded)
    BY <1>9, <1>11, <1>12, <1>13, <2>6, <2>7, NothingPassed DEF Scanned, U
  <2>10. q'.pc # "redirected"
    BY <1>11, <1>13
  <2>. QED BY <1>11, <2>8, <2>9, <2>10 DEF Worth, Reasoned, U
<1>. QED BY <1>10, <1>12, <1>14, <1>15, <1>16 DEF ClassifyGood

(* The sweep has found alias: it is picked, or may still be upgraded.      *)
LEMMA SweptGood ==
  ASSUME q \in RequestSet, q.pc = "sweep", NEW r \in RequestSet, Kin(q, r), r.final = q.final,
         NEW alias \in Categories, NEW s, s = Swept(r, alias),
         alias \in r.up \/ (alias = "coder" /\ Categories \subseteq r.down),
         Worth(q) => alias = FallbackOf(Through(mirror))
  PROVE  ClassifyGood(q, s)
<1>1. alias \in Aliases
  BY AliasFacts
<1>2. Worth(q) => /\ embedded # {}
                  /\ r.final /\ r.prompt.msg = "image" => "vision" \notin Through(mirror)
                  /\ ~r.final => r.prompt.msg = "text" /\ Through(mirror) \cap embedded = {}
  BY DEF Worth, Reasoned, Scanned, Kin
<1>3. CASE r.final
  <2>1. s = Picked(r, alias)
    BY <1>3 DEF Swept
  <2>2. Worth(q) => alias = ChoiceOf(r, mirror, embedded)
    BY <1>2, <1>3 DEF ChoiceOf
  <2>. QED BY <1>1, <2>1, <2>2, PickGood
<1>4. CASE ~r.final
  <2>1. s = [r EXCEPT !.pc = "upgrade", !.best = alias]
    BY <1>4 DEF Swept
  <2>2. "upgrade" \in Pcs /\ alias \in Bests
    BY PcFacts DEF Bests
  <2>3. s \in RequestSet
    BY <2>1, <2>2 DEF RequestSet
  <2>4. /\ s.pc = "upgrade" /\ s.best = alias /\ s.up = r.up /\ s.down = r.down /\ s.final = r.final
        /\ Kin(r, s)
    BY <2>1 DEF RequestSet, Kin, SameExits
  <2>5. Kin(q, s) /\ s.prompt = r.prompt
    BY <2>4, KinTransitive DEF Kin
  <2>6. Seen(s) /\ s.pc \in Classifying
    BY <2>4 DEF Seen, Classifying
  <2>7. Worth(q) => s.best = BestOf(Through(mirror), embedded, s.prompt.score)
    BY <1>2, <1>4, <2>4 DEF BestOf
  <2>8. Worth(q) => Worth(s)
    BY <1>2, <1>4, <2>4, <2>5, <2>7 DEF Worth, Reasoned, Scanned
  <2>. QED BY <2>3, <2>5, <2>6, <2>8 DEF ClassifyGood
<1>. QED BY <1>3, <1>4

LEMMA SweepStepGood ==
  ASSUME q \in RequestSet, Seen(q), SweepStep
  PROVE  ClassifyGood(q, q')
<1>. DEFINE name == IF q.at = 0 THEN "coder" ELSE Cats[q.at]
            r == Saw(q, name)
            U == Through(mirror)
<1>1. q.pc = "sweep" /\ q.at \in 0 .. 4 /\ Passed(q.at) \subseteq q.down
  BY FieldFacts DEF SweepStep, Seen, Ats
<1>2. name \in Categories /\ name \in Aliases /\ "coder" \in Categories
  <2>1. q.at = 0 \/ q.at \in 1 .. 4
    BY <1>1
  <2>. QED BY <2>1, CategoryFacts, AliasFacts
<1>3. U \subseteq Categories /\ (MirrorRoutable(name) <=> name \in U)
  BY <1>2, ThroughFacts DEF Through
<1>4. /\ r \in RequestSet /\ Kin(q, r) /\ r.final = q.final /\ r.pc = q.pc /\ r.at = q.at
      /\ q.up \subseteq r.up /\ q.down \subseteq r.down
      /\ MirrorRoutable(name) => name \in r.up
      /\ ~MirrorRoutable(name) => name \in r.down
  BY <1>2, SawFacts
<1>5. Worth(q) => Passed(q.at) \cap U = {}
  BY <1>1 DEF Worth, Reasoned, Scanned
<1>6. /\ MirrorRoutable(name) => q' = Swept(r, name)
      /\ ~MirrorRoutable(name) /\ q.at < 4 => q' = [r EXCEPT !.at = @ + 1]
      /\ ~MirrorRoutable(name) /\ q.at = 4 => q' = Swept(r, "coder")
  BY CatFacts DEF SweepStep
<1>7. /\ q.at = 0 => name = "coder" /\ Passed(q.at + 1) \subseteq r.down
      /\ q.at \in 1 .. 4 => name = Cats[q.at] /\ Passed(q.at + 1) = Passed(q.at) \cup {name}
  <2>1. q.at = 0 => Passed(q.at + 1) = {}
    <3>1. 0 + 1 = 1
      OBVIOUS
    <3>. QED BY <3>1, NothingPassed
  <2>2. q.at \in 1 .. 4 => Passed(q.at + 1) = Passed(q.at) \cup {Cats[q.at]}
    BY OnePassed
  <2>3. q.at \in 1 .. 4 => q.at # 0
    OBVIOUS
  <2>. QED BY <2>1, <2>2, <2>3
<1>8. q.at = 0 \/ q.at \in 1 .. 4
  BY <1>1
<1>. HIDE DEF name, r, U
<1>9. ~MirrorRoutable(name) => Passed(q.at + 1) \subseteq r.down
  BY <1>1, <1>4, <1>7, <1>8
<1>10. CASE MirrorRoutable(name)
  <2>1. Worth(q) => name = FallbackOf(U)
    <3>1. CASE q.at = 0
      BY <1>3, <1>7, <1>10, <3>1, SweepStopsAtOnce
    <3>2. CASE q.at \in 1 .. 4
      BY <1>3, <1>5, <1>7, <1>10, <3>2, SweepStops
    <3>. QED BY <1>8, <3>1, <3>2
  <2>. QED BY <1>1, <1>2, <1>4, <1>6, <1>10, <2>1, SweptGood DEF U
<1>11. CASE ~MirrorRoutable(name) /\ q.at = 4
  <2>1. 4 \in 1 .. 4 /\ 4 + 1 = 5
    OBVIOUS
  <2>2. Categories \subseteq r.down
    BY <1>9, <1>11, <2>1, AllPassed
  <2>3. Worth(q) => "coder" = FallbackOf(U)
    BY <1>3, <1>5, <1>7, <1>11, <2>1, SweepStops
  <2>. QED BY <1>1, <1>2, <1>4, <1>6, <1>11, <2>2, <2>3, SweptGood DEF U
<1>12. CASE ~MirrorRoutable(name) /\ q.at < 4
  <2>1. q' = [r EXCEPT !.at = q.at + 1]
    BY <1>4, <1>6, <1>12
  <2>2. q.at + 1 \in Ats
    BY <1>1, <1>12 DEF Ats
  <2>3. q' \in RequestSet
    BY <1>4, <2>1, <2>2 DEF RequestSet
  <2>4. /\ q'.pc = "sweep" /\ q'.at = q.at + 1 /\ q'.down = r.down /\ q'.final = q.final
        /\ Kin(r, q')
    BY <1>1, <1>4, <2>1 DEF RequestSet, Kin, SameExits
  <2>5. Kin(q, q') /\ q'.prompt = q.prompt
    BY <1>4, <2>4, KinTransitive DEF Kin
  <2>6. Seen(q') /\ q'.pc \in Classifying
    BY <1>9, <1>12, <2>4 DEF Seen, Classifying
  <2>7. Worth(q) => Passed(q.at + 1) \cap U = {}
    <3>1. CASE q.at = 0
      <4>1. 0 + 1 = 1
        OBVIOUS
      <4>. QED BY <3>1, <4>1, NothingPassed
    <3>2. CASE q.at \in 1 .. 4
      BY <1>3, <1>5, <1>7, <1>12, <3>2
    <3>. QED BY <1>8, <3>1, <3>2
  <2>8. Worth(q) => Worth(q')
    BY <1>1, <2>4, <2>5, <2>7 DEF Worth, Reasoned, Scanned, U
  <2>. QED BY <2>3, <2>5, <2>6, <2>8 DEF ClassifyGood
<1>13. q.at = 4 \/ q.at < 4
  BY <1>1
<1>. QED BY <1>10, <1>11, <1>12, <1>13

LEMMA EscalationRoutable == MirrorRoutable(Escalation)
<1>1. Escalation \notin Listed
  BY DispatchAssumption
<1>. QED BY <1>1 DEF MirrorRoutable

LEMMA UpgradeGood ==
  ASSUME q \in RequestSet, Seen(q), Upgrade
  PROVE  ClassifyGood(q, q')
<1>. DEFINE b == BestOf(Through(mirror), embedded, q.prompt.score)
            may == q.best = "coder" /\ q.tier # "auto"
            full == q.best = "coder" /\ q.tier # "auto" /\ q.tier = "auto-full" /\ q.prompt.hard = 2
            hard == q.best = "coder" /\ q.tier # "auto" /\ q.prompt.hard >= 1
            s == Saw(q, "coder-hard")
            t == Saw(q, Escalation)
<1>1. q.pc = "upgrade" /\ (q.best \in q.up \/ (q.best = "coder" /\ Categories \subseteq q.down))
  BY DEF Upgrade, Seen
<1>2. Worth(q) => embedded # {} /\ q.prompt.msg = "text" /\ ~q.final /\ q.best = b
  BY <1>1 DEF Worth, Reasoned, Scanned
<1>3. q.prompt.hard \in 0 .. 2 /\ q.best \in Bests
  BY FieldFacts, PromptFacts
<1>4. q' = IF full THEN Picked(t, Escalation)
           ELSE IF ~hard THEN Picked(q, q.best)
           ELSE Picked(s, IF MirrorRoutable("coder-hard") THEN "coder-hard" ELSE q.best)
  BY EscalationRoutable DEF Upgrade
<1>5. Worth(q) => ChoiceOf(q, mirror, embedded) = Upgraded(q, mirror, q.best)
  BY <1>2 DEF ChoiceOf
<1>6. hard <=> ~(q.best # "coder" \/ q.tier = "auto" \/ q.prompt.hard = 0)
  BY <1>3
<1>7. HardUp(mirror) <=> MirrorRoutable("coder-hard")
  BY DEF HardUp, MirrorRoutable
<1>8. "coder-hard" \in Aliases /\ Escalation \in Aliases
  BY AliasFacts
<1>9. CASE full
  <2>1. q' = Picked(t, Escalation)
    BY <1>4, <1>9
  <2>2. t \in RequestSet /\ Kin(q, t) /\ t.final = q.final /\ Escalation \in t.up
    BY <1>8, EscalationRoutable, SawFacts
  <2>. HIDE DEF t
  <2>3. ChoiceOf(t, mirror, embedded) = ChoiceOf(q, mirror, embedded)
    BY <2>2 DEF ChoiceOf, Upgraded, Kin
  <2>4. Upgraded(q, mirror, q.best) = Escalation
    BY <1>9 DEF Upgraded
  <2>5. Worth(q) => Escalation = ChoiceOf(t, mirror, embedded)
    BY <1>5, <2>3, <2>4
  <2>. QED BY <1>8, <2>1, <2>2, <2>5, PickGood
<1>10. CASE ~full /\ ~hard
  <2>1. q' = Picked(q, q.best)
    BY <1>4, <1>10
  <2>2. Upgraded(q, mirror, q.best) = q.best
    BY <1>6, <1>10 DEF Upgraded
  <2>3. q.best \in Aliases
    BY <1>1, FieldFacts, AliasFacts DEF AliasSets
  <2>4. Kin(q, q)
    BY DEF Kin, SameExits
  <2>5. Worth(q) => q.best = ChoiceOf(q, mirror, embedded)
    BY <1>5, <2>2
  <2>. QED BY <1>1, <2>1, <2>3, <2>4, <2>5, PickGood
<1>11. CASE ~full /\ hard
  <2>. DEFINE alias == IF MirrorRoutable("coder-hard") THEN "coder-hard" ELSE q.best
  <2>1. q' = Picked(s, alias)
    BY <1>4, <1>11
  <2>2. /\ s \in RequestSet /\ Kin(q, s) /\ s.final = q.final /\ q.up \subseteq s.up
        /\ q.down \subseteq s.down
        /\ MirrorRoutable("coder-hard") => "coder-hard" \in s.up
    BY <1>8, SawFacts
  <2>. HIDE DEF s
  <2>3. ChoiceOf(s, mirror, embedded) = ChoiceOf(q, mirror, embedded)
    BY <2>2 DEF ChoiceOf, Upgraded, Kin
  <2>4. Upgraded(q, mirror, q.best) = alias
    BY <1>6, <1>7, <1>11 DEF Upgraded
  <2>5. alias \in Aliases /\ (alias \in s.up \/ (alias = "coder" /\ Categories \subseteq s.down))
    BY <1>1, <1>8, <2>2, FieldFacts, AliasFacts DEF AliasSets
  <2>. HIDE DEF alias
  <2>6. Worth(q) => alias = ChoiceOf(s, mirror, embedded)
    BY <1>5, <2>3, <2>4
  <2>. QED BY <2>1, <2>2, <2>5, <2>6, PickGood
<1>. QED BY <1>9, <1>10, <1>11

-----------------------------------------------------------------------------
(* The invariant.                                                          *)
LEMMA InvParts == IInv <=> Typed /\ ExitsHold(q) /\ Seen(q) /\ Justified
  BY DEF IInv, ExitsHold

LEMMA InitInv == Init => IInv
<1>. SUFFICES ASSUME Init PROVE IInv
  OBVIOUS
<1>1. q = Idle /\ q.pc = "idle"
  BY DEF Init, Idle
<1>2. Typed
  <2>1. mirror \in Mirrors /\ cache \in Caches
    BY DEF Init, Mirrors, Caches, HostSets, Flags
  <2>2. flips \in 0 .. MaxFlips
    BY Bounds DEF Init
  <2>3. avail \subseteq Listed /\ reachable \in Flags /\ embedded \subseteq Categories /\ listing \subseteq Hosts
    BY DEF Init, Flags, Hosts
  <2>. QED BY <1>1, <2>1, <2>2, <2>3, IdleTyped DEF Typed
<1>3. Seen(q) /\ Reasoned(q, mirror, embedded)
  BY <1>1, NotClassifying DEF Classifying
<1>. QED BY <1>1, <1>2, <1>3, IdleExits, InvParts DEF Justified

(* A step of Classify.                                                     *)
LEMMA ClassifyInv ==
  ASSUME IInv, Classify
  PROVE  IInv' /\ q'.pc # "failed" /\ cache' = cache
<1>1. q \in RequestSet /\ ExitsHold(q) /\ Seen(q) /\ embedded \subseteq Categories
  BY InvParts DEF Typed
<1>2. UNCHANGED <<avail, reachable, listing, flips, mirror, embedded, cache>>
  BY DEF Classify, world
<1>3. ClassifyGood(q, q')
  BY <1>1, SeeImageGood, EmbedPromptGood, ScoreStepGood, SweepStepGood, UpgradeGood DEF Classify
<1>4. q' \in RequestSet /\ Seen(q') /\ SameExits(q, q') /\ q'.moved = q.moved /\ q'.pc \in Classifying
  BY <1>3 DEF ClassifyGood, Kin
<1>5. ExitsHold(q')
  <2>1. q'.pc \notin Resolving \cup {"loop", "failed", "attempt"}
    BY <1>4, ResolvingPcs
  <2>. QED BY <1>1, <1>4, <2>1, ExitsFrame
<1>6. Typed'
  BY <1>2, <1>4, InvParts DEF Typed
<1>7. Justified'
  <2>1. Justified
    BY InvParts
  <2>. QED BY <2>1, <1>2, <1>3, <1>4 DEF Justified, ClassifyGood, Worth
<1>8. IInv'
  BY <1>4, <1>5, <1>6, <1>7 DEF IInv, ExitsHold
<1>. QED BY <1>2, <1>4, <1>8, ResolvingPcs

(* A step of Egress.                                                       *)
LEMMA EgressInv ==
  ASSUME IInv, Egress
  PROVE  IInv'
<1>1. /\ EgressGood(q') /\ cache' \in Caches
      /\ UNCHANGED <<avail, reachable, listing, flips, mirror, embedded>>
  BY InvParts, EgressHolds
<1>2. Typed'
  BY <1>1, InvParts DEF Typed, EgressGood
<1>3. Seen(q') /\ Reasoned(q', mirror', embedded')
  BY <1>1, NotClassifying DEF EgressGood
<1>. QED BY <1>1, <1>2, <1>3 DEF IInv, ExitsHold, EgressGood, Justified

(* A new request: for a tier, or for a name; and the end of one.           *)
LEMMA ArriveAutoInv ==
  ASSUME IInv, NEW tier \in Tiers, NEW p \in Prompts, ArriveAuto(tier, p)
  PROVE  IInv' /\ q'.pc # "failed" /\ cache' = cache
<1>. DEFINE r == [Idle EXCEPT !.tier = tier, !.prompt = p]
<1>1. UNCHANGED <<avail, reachable, listing, flips, mirror, embedded, cache>>
  BY DEF ArriveAuto, world
<1>2. r \in RequestSet
  BY IdleTyped DEF RequestSet
<1>3. /\ SameExits(Idle, r) /\ r.prompt = p /\ r.at = 0 /\ r.best = None /\ r.up = {} /\ r.down = {}
      /\ r.pc = "idle" /\ r.final = FALSE /\ r.moved = FALSE
  BY DEF Idle, SameExits
<1>4. p.msg \in {"image", "text", "none"}
  BY PromptFacts
<1>5. CASE embedded = {}
  <2>1. q' = Picked(r, "coder")
    BY <1>5 DEF ArriveAuto
  <2>. HIDE DEF r
  <2>2. "coder" \in Aliases
    BY AliasFacts
  <2>3. Kin(r, r)
    BY DEF Kin, SameExits
  <2>4. Worth(r) => "coder" = ChoiceOf(r, mirror, embedded)
    BY <1>5 DEF ChoiceOf
  <2>5. ClassifyGood(r, q')
    BY <1>2, <1>3, <2>1, <2>2, <2>3, <2>4, PickGood
  <2>6. Worth(r)
    BY <1>3, NotClassifying DEF Worth, Classifying
  <2>7. /\ q' \in RequestSet /\ Seen(q') /\ Worth(q') /\ q'.pc \in Classifying
        /\ SameExits(Idle, q')
    BY <1>3, <2>5, <2>6 DEF ClassifyGood, Kin, SameExits
  <2>8. ExitsHold(q') /\ q'.pc # "failed"
    <3>1. q'.pc \notin Resolving \cup {"loop", "failed", "attempt"}
      BY <2>7, ResolvingPcs
    <3>. QED BY <2>7, <3>1, IdleExits, ExitsFrame
  <2>9. Typed'
    BY <1>1, <2>7, InvParts DEF Typed
  <2>10. Justified'
    BY <1>1, <2>7 DEF Justified, Worth
  <2>. QED BY <1>1, <2>7, <2>8, <2>9, <2>10 DEF IInv, ExitsHold
<1>6. CASE embedded # {}
  <2>1. PICK nextPc \in {"image", "sweep", "embed"}, f \in Flags :
          /\ q' = [r EXCEPT !.pc = nextPc, !.final = f]
          /\ nextPc = "image" => p.msg = "image" /\ f = FALSE
          /\ nextPc = "sweep" => p.msg = "none" /\ f = TRUE
          /\ nextPc = "embed" => p.msg = "text" /\ f = FALSE
    <3>1. FALSE \in Flags /\ TRUE \in Flags
      BY DEF Flags
    <3>2. CASE p.msg = "image"
      <4>1. q' = [r EXCEPT !.pc = "image"]
        BY <1>6, <3>2 DEF ArriveAuto
      <4>2. q' = [r EXCEPT !.pc = "image", !.final = FALSE]
        BY <1>2, <1>3, <4>1 DEF RequestSet
      <4>. QED BY <3>1, <3>2, <4>2
    <3>3. CASE p.msg = "text"
      <4>1. q' = [r EXCEPT !.pc = "embed"]
        BY <1>6, <3>3 DEF ArriveAuto
      <4>2. q' = [r EXCEPT !.pc = "embed", !.final = FALSE]
        BY <1>2, <1>3, <4>1 DEF RequestSet
      <4>. QED BY <3>1, <3>3, <4>2
    <3>4. CASE p.msg = "none"
      <4>1. q' = [r EXCEPT !.pc = "sweep", !.final = TRUE]
        BY <1>6, <3>4 DEF ArriveAuto
      <4>. QED BY <3>1, <3>4, <4>1
    <3>. QED BY <1>4, <3>2, <3>3, <3>4
  <2>. HIDE DEF r
  <2>2. nextPc \in Pcs /\ nextPc \in Classifying
    BY PcFacts DEF Classifying
  <2>3. q' \in RequestSet
    BY <1>2, <2>1, <2>2 DEF RequestSet
  <2>4. /\ q'.pc = nextPc /\ q'.final = f /\ q'.at = 0 /\ q'.best = None /\ q'.prompt = p /\ SameExits(Idle, q')
    BY <1>2, <1>3, <2>1 DEF RequestSet, SameExits
  <2>5. Seen(q')
    BY <2>1, <2>4, NothingPassed DEF Seen
  <2>6. Reasoned(q', mirror, embedded)
    BY <1>6, <2>1, <2>4, NothingPassed DEF Reasoned, Scanned
  <2>7. ExitsHold(q') /\ q'.pc # "failed"
    <3>1. q'.pc \notin Resolving \cup {"loop", "failed", "attempt"}
      BY <2>2, <2>4, ResolvingPcs
    <3>. QED BY <2>4, <3>1, IdleExits, ExitsFrame
  <2>8. Typed'
    BY <1>1, <2>3, InvParts DEF Typed
  <2>. QED BY <1>1, <2>5, <2>6, <2>7, <2>8 DEF IInv, ExitsHold, Justified
<1>. QED BY <1>5, <1>6

LEMMA OutOfClassification ==
  ASSUME IInv, UNCHANGED <<avail, reachable, listing, flips, mirror, embedded, cache>>, EgressGood(q')
  PROVE  IInv'
<1>1. Typed'
  BY InvParts DEF Typed, EgressGood
<1>2. Seen(q') /\ Reasoned(q', mirror', embedded')
  BY NotClassifying DEF EgressGood
<1>. QED BY <1>1, <1>2 DEF IInv, ExitsHold, EgressGood, Justified

LEMMA ArriveNamedInv ==
  ASSUME IInv, NEW name \in Named, NEW spec \in Specs, ArriveNamed(name, spec)
  PROVE  IInv' /\ q'.pc # "failed" /\ cache' = cache
<1>1. UNCHANGED <<avail, reachable, listing, flips, mirror, embedded, cache>>
  BY DEF ArriveNamed, world
<1>2. CASE q' = [Idle EXCEPT !.pc = "refused"]
  <2>1. q' \in RequestSet
    BY <1>2, IdleTyped, PcFacts DEF RequestSet
  <2>2. q'.pc = "refused" /\ SameExits(Idle, q')
    BY <1>2 DEF Idle, SameExits
  <2>3. ExitsHold(q')
    BY <2>2, IdleExits, ExitsFrame DEF Resolving
  <2>4. EgressGood(q')
    BY <2>1, <2>2, <2>3 DEF EgressGood, Classifying
  <2>. QED BY <1>1, <2>2, <2>4, OutOfClassification
<1>3. ASSUME NEW id \in DOMAIN Registry, q' = [Idle EXCEPT !.pc = "passed", !.picked = id]
      PROVE  EgressGood(q') /\ q'.pc # "failed"
  <2>1. id \in Targets
    BY DEF Targets
  <2>2. q' \in RequestSet
    BY <1>3, <2>1, IdleTyped, PcFacts DEF RequestSet
  <2>3. q'.pc = "passed" /\ SameExits(Idle, q')
    BY <1>3 DEF Idle, SameExits
  <2>4. ExitsHold(q')
    BY <2>3, IdleExits, ExitsFrame DEF Resolving
  <2>. QED BY <2>2, <2>3, <2>4 DEF EgressGood, Classifying
<1>4. ASSUME NEW id \in DOMAIN Registry, q' = [Idle EXCEPT !.pc = "exit", !.picked = id, !.spec = spec]
      PROVE  EgressGood(q') /\ q'.pc # "failed"
  <2>1. id \in Targets /\ spec \in AskedExits
    BY DEF Targets, AskedExits
  <2>2. q' \in RequestSet
    BY <1>4, <2>1, IdleTyped, PcFacts DEF RequestSet
  <2>3. /\ q'.pc = "exit" /\ q'.label = "" /\ q'.log = <<>> /\ q'.relay = None /\ q'.tried = {}
        /\ q'.calls = 0
    BY <1>4 DEF Idle
  <2>4. Exits(q')
    BY <2>3 DEF Exits, Resolving
  <2>5. NotRetried(q') /\ Trimmed(q')
    <3>1. Idle.log = <<>> /\ Idle.calls = 0
      BY DEF Idle
    <3>2. Clean(<<>>) /\ Within(Len(<<>>), 0)
      BY <3>1, IdleExits DEF ExitsHold, NotRetried, Trimmed
    <3>. QED BY <2>3, <3>2 DEF NotRetried, Trimmed, Calling
  <2>. QED BY <2>2, <2>3, <2>4, <2>5 DEF EgressGood, ExitsHold, Classifying
<1>5. CASE q' # [Idle EXCEPT !.pc = "refused"]
  <2>1. EgressGood(q') /\ q'.pc # "failed"
    BY <1>3, <1>4, <1>5 DEF ArriveNamed, Matches
  <2>. QED BY <1>1, <2>1, OutOfClassification
<1>. QED BY <1>2, <1>5

LEMMA EndInv ==
  ASSUME IInv, End
  PROVE  IInv' /\ q'.pc # "failed" /\ cache' = cache
<1>1. UNCHANGED <<avail, reachable, listing, flips, mirror, embedded, cache>> /\ q' = Idle
  BY DEF End, world
<1>2. Idle.pc = "idle"
  BY DEF Idle
<1>3. EgressGood(q')
  BY <1>1, <1>2, IdleTyped, IdleExits DEF EgressGood, Classifying
<1>. QED BY <1>1, <1>2, <1>3, OutOfClassification

(* Others: the poller, the embedder, the world.                            *)
LEMMA MovedInv ==
  ASSUME IInv, NEW b \in Flags, q' = [q EXCEPT !.moved = b],
         UNCHANGED <<avail, reachable, listing, flips, cache>>,
         mirror' \in Mirrors, embedded' \subseteq Categories,
         ~b => ~q.moved /\ (q.pc \notin Classifying \/ (mirror' = mirror /\ embedded' = embedded))
  PROVE  IInv' /\ q'.pc = q.pc
<1>1. q \in RequestSet /\ ExitsHold(q) /\ Seen(q) /\ Justified
  BY InvParts DEF Typed
<1>2. q' \in RequestSet
  BY <1>1 DEF RequestSet
<1>3. /\ q'.pc = q.pc /\ q'.at = q.at /\ q'.best = q.best /\ q'.up = q.up /\ q'.down = q.down
      /\ q'.picked = q.picked /\ q'.prompt = q.prompt /\ q'.final = q.final /\ q'.tier = q.tier
      /\ SameExits(q, q')
  BY <1>1 DEF RequestSet, SameExits
<1>4. q'.moved = b
  BY <1>1 DEF RequestSet
<1>5. Seen(q')
  BY <1>1, <1>3 DEF Seen
<1>6. ExitsHold(q')
  BY <1>1, <1>3 DEF ExitsHold, Exits, NotRetried, Trimmed, Calling, SameExits
<1>7. Justified'
  <2>. SUFFICES ASSUME ~b PROVE Reasoned(q', mirror', embedded')
    BY <1>4 DEF Justified
  <2>1. CASE q.pc \notin Classifying
    BY <1>3, <2>1, NotClassifying
  <2>2. CASE mirror' = mirror /\ embedded' = embedded
    <3>1. Reasoned(q, mirror, embedded)
      BY <1>1 DEF Justified
    <3>2. ChoiceOf(q', mirror, embedded) = ChoiceOf(q, mirror, embedded)
      BY <1>3 DEF ChoiceOf, Upgraded
    <3>. QED BY <1>3, <2>2, <3>1, <3>2 DEF Reasoned, Scanned
  <2>. QED BY <2>1, <2>2
<1>8. Typed'
  BY <1>2, InvParts DEF Typed
<1>. QED BY <1>3, <1>5, <1>6, <1>7, <1>8 DEF IInv, ExitsHold

LEMMA FetchOnceInv ==
  ASSUME IInv, FetchOnce
  PROVE  IInv' /\ q'.pc = q.pc /\ cache' = cache
<1>1. UNCHANGED <<avail, reachable, listing, flips, cache, embedded>>
  BY DEF FetchOnce, world
<1>2. avail \subseteq Listed /\ embedded \subseteq Categories
  BY InvParts DEF Typed
<1>3. mirror' \in Mirrors
  BY <1>2 DEF FetchOnce, Mirrors, Flags
<1>. DEFINE b == q.moved \/ (q.pc \in Classifying /\ mirror' # mirror)
<1>4. q' = [q EXCEPT !.moved = b] /\ b \in Flags
  BY DEF FetchOnce, Flags
<1>5. ~b => ~q.moved /\ (q.pc \notin Classifying \/ mirror' = mirror)
  OBVIOUS
<1>. HIDE DEF b
<1>. QED BY <1>1, <1>2, <1>3, <1>4, <1>5, MovedInv

LEMMA InitializeInv ==
  ASSUME IInv, Initialize
  PROVE  IInv' /\ q'.pc = q.pc /\ cache' = cache
<1>1. UNCHANGED <<avail, reachable, listing, flips, cache, mirror>>
  BY DEF Initialize, world
<1>2. mirror' \in Mirrors
  BY <1>1, InvParts DEF Typed
<1>3. embedded' \subseteq Categories
  BY DispatchAssumption DEF Initialize
<1>. DEFINE b == q.moved \/ (q.pc \in Classifying /\ embedded' # embedded)
<1>4. q' = [q EXCEPT !.moved = b] /\ b \in Flags
  BY DEF Initialize, Flags
<1>5. ~b => ~q.moved /\ (q.pc \notin Classifying \/ embedded' = embedded)
  OBVIOUS
<1>. HIDE DEF b
<1>. QED BY <1>1, <1>2, <1>3, <1>4, <1>5, MovedInv

(* The world leaves the request, the mirror and the embeddings alone, and  *)
(* another request stores a list only when it read one.                    *)
LEMMA OutsideInv ==
  ASSUME IInv, Outside
  PROVE  IInv' /\ q' = q /\ (cache.relays # {} => cache'.relays # {})
<1>1. UNCHANGED <<mirror, embedded, q>>
  BY DEF Outside
<1>2. /\ avail \subseteq Listed /\ reachable \in Flags /\ listing \subseteq Hosts
      /\ cache \in Caches /\ flips \in 0 .. MaxFlips
  BY InvParts DEF Typed
<1>3. flips' \in 0 .. MaxFlips
  <2>1. flips < MaxFlips /\ flips' = flips + 1
    BY DEF Outside
  <2>. QED BY <1>2, <2>1, Bounds
<1>4. avail' \subseteq Listed /\ reachable' \in Flags /\ listing' \subseteq Hosts
  <2>1. avail' = avail \/ avail' \in Verdicts
    BY DEF Outside
  <2>2. avail' \subseteq Listed
    BY <1>2, <2>1, DispatchAssumption
  <2>. QED BY <1>2, <2>2 DEF Outside, Flags
<1>5. \/ cache' = cache
      \/ cache' = [cache EXCEPT !.fresh = FALSE]
      \/ listing # {} /\ cache' = [relays |-> listing, fresh |-> TRUE]
  BY DEF Outside
<1>6. cache' \in Caches /\ (cache.relays # {} => cache'.relays # {})
  <2>1. CASE cache' = cache
    BY <1>2, <2>1
  <2>2. CASE cache' = [cache EXCEPT !.fresh = FALSE]
    BY <1>2, <2>2 DEF Caches, Flags
  <2>3. CASE listing # {} /\ cache' = [relays |-> listing, fresh |-> TRUE]
    BY <1>2, <2>3 DEF Caches, HostSets, Flags
  <2>. QED BY <1>5, <2>1, <2>2, <2>3
<1>7. Typed'
  BY <1>1, <1>3, <1>4, <1>6, InvParts DEF Typed
<1>8. ExitsHold(q') /\ Seen(q') /\ Justified'
  BY <1>1, InvParts DEF Justified
<1>. QED BY <1>1, <1>6, <1>7, <1>8 DEF IInv, ExitsHold

LEMMA StutterInv ==
  ASSUME IInv, UNCHANGED vars
  PROVE  IInv'
<1>1. UNCHANGED <<avail, reachable, listing, flips, mirror, embedded, cache, q>>
  BY DEF vars
<1>. QED BY <1>1 DEF IInv, Typed, Justified

LEMMA NextInv ==
  ASSUME IInv, [Next]_vars
  PROVE  IInv'
<1>1. CASE FetchOnce \/ Initialize \/ Outside
  BY <1>1, FetchOnceInv, InitializeInv, OutsideInv
<1>2. CASE \E tier \in Tiers, p \in Prompts : ArriveAuto(tier, p)
  BY <1>2, ArriveAutoInv
<1>3. CASE \E name \in Named, spec \in Specs : ArriveNamed(name, spec)
  BY <1>3, ArriveNamedInv
<1>4. CASE Classify \/ Egress \/ End
  BY <1>4, ClassifyInv, EgressInv, EndInv
<1>5. CASE UNCHANGED vars
  BY <1>5, StutterInv
<1>. QED BY <1>1, <1>2, <1>3, <1>4, <1>5 DEF Next

LEMMA AlwaysInv == Spec => []IInv
<1>1. IInv /\ [Next]_vars => IInv'
  BY NextInv
<1>. QED BY InitInv, <1>1, PTL DEF Spec

-----------------------------------------------------------------------------
(* The definitions the properties are stated with are the ones of the      *)
(* invariant, at the mirror, the embeddings and the request of the state.  *)
LEMMA BestIs == Best = BestOf(Through(mirror), embedded, q.prompt.score)
<1>1. Usable = Through(mirror)
  BY DEF Usable, Through, MirrorRoutable
<1>2. Fallback = FallbackOf(Through(mirror))
  BY <1>1 DEF Fallback, FallbackOf
<1>. QED BY <1>1, <1>2 DEF Best, BestOf, Score

LEMMA ChoiceIs == Choice = ChoiceOf(q, mirror, embedded)
<1>1. Usable = Through(mirror)
  BY DEF Usable, Through, MirrorRoutable
<1>2. Fallback = FallbackOf(Through(mirror))
  BY <1>1 DEF Fallback, FallbackOf
<1>3. MirrorRoutable("coder-hard") = HardUp(mirror)
  BY DEF MirrorRoutable, HardUp
<1>4. CASE embedded = {}
  BY <1>4 DEF Choice, ChoiceOf
<1>5. CASE embedded # {} /\ q.prompt.msg = "image"
  BY <1>1, <1>2, <1>5 DEF Choice, ChoiceOf
<1>6. CASE embedded # {} /\ q.prompt.msg # "image" /\ q.final
  BY <1>2, <1>6 DEF Choice, ChoiceOf
<1>7. CASE embedded # {} /\ q.prompt.msg # "image" /\ ~q.final
  <2>1. ChoiceOf(q, mirror, embedded) = Upgraded(q, mirror, Best)
    BY <1>7, BestIs DEF ChoiceOf
  <2>2. Choice = Upgraded(q, mirror, Best)
    BY <1>3, <1>7 DEF Choice, Upgraded
  <2>. QED BY <2>1, <2>2
<1>. QED BY <1>4, <1>5, <1>6, <1>7

LEMMA InvPicks == IInv => PickJustified
<1>. SUFFICES ASSUME IInv PROVE PickJustified
  OBVIOUS
<1>1. Seen(q) /\ Justified
  BY InvParts
<1>2. PickedSeenUp
  BY <1>1 DEF Seen, PickedSeenUp
<1>3. MatchesReference
  BY <1>1, ChoiceIs DEF Justified, Reasoned, MatchesReference
<1>. QED BY <1>2, <1>3 DEF PickJustified

(* calls of MaxTries round trips each are at most MaxCalls of them.        *)
LEMMA LogBound ==
  ASSUME NEW n \in Nat, NEW c \in 0 .. MaxCalls, n <= c * MaxTries
  PROVE  n <= MaxCalls * MaxTries
<1>1. MaxTries \in Nat /\ MaxCalls \in Nat /\ c \in Nat /\ c <= MaxCalls
  BY Bounds
<1>2. (MaxCalls - c) * MaxTries >= 0
  BY <1>1
<1>3. MaxCalls * MaxTries = c * MaxTries + (MaxCalls - c) * MaxTries
  BY <1>1
<1>4. c * MaxTries \in Nat /\ MaxCalls * MaxTries \in Nat
  BY <1>1
<1>. QED BY <1>1, <1>2, <1>3, <1>4

LEMMA InvExits == IInv => ExitsKept
<1>. SUFFICES ASSUME IInv PROVE ExitsKept
  OBVIOUS
<1>1. q \in RequestSet /\ Exits(q) /\ NotRetried(q) /\ Trimmed(q) /\ Typed
  BY DEF IInv, Typed
<1>2. TypeOK
  <2>1. Len(q.log) \in Nat /\ q.calls \in 0 .. MaxCalls /\ Len(q.log) <= q.calls * MaxTries
    BY <1>1, FieldFacts, LenProperties DEF Trimmed, Within, Calls, Logs
  <2>2. Len(q.log) <= MaxCalls * MaxTries
    BY <2>1, LogBound
  <2>3. q.at \in 0 .. Len(Cats) /\ q.best \in Categories \cup {None}
    BY <1>1, FieldFacts, CatFacts DEF Ats, Bests
  <2>4. /\ q.tried \subseteq DOMAIN Relays /\ q.relay \in DOMAIN Relays \cup {None}
        /\ q.tries \in 0 .. MaxTries
    BY <1>1, FieldFacts DEF HostSets, Hosts, RelayOrNone, Tries
  <2>5. /\ mirror \in [fresh : BOOLEAN, up : SUBSET Listed]
        /\ cache \in [relays : SUBSET DOMAIN Relays, fresh : BOOLEAN]
        /\ avail \subseteq Listed /\ reachable \in BOOLEAN
        /\ embedded \subseteq Categories /\ listing \subseteq DOMAIN Relays /\ flips \in 0 .. MaxFlips
    BY <1>1 DEF Typed, Mirrors, Caches, HostSets, Hosts, Flags
  <2>. QED BY <2>1, <2>2, <2>3, <2>4, <2>5 DEF TypeOK
<1>3. ExitHonest
  <2>1. CASE q.label = ""
    <3>1. DOMAIN <<>> = {}
      OBVIOUS
    <3>. QED BY <1>1, <2>1, <3>1 DEF Exits, ExitHonest
  <2>2. CASE q.label = "default"
    BY <1>1, <2>2 DEF Exits, ExitHonest, ByDefault
  <2>3. CASE q.label \notin {"", "default"}
    BY <1>1, <2>3 DEF Exits, ExitHonest, ByRelay
  <2>. QED BY <2>1, <2>2, <2>3
<1>4. FailedNotRetried /\ RelaySticks
  BY <1>1 DEF NotRetried, Clean, Follows, FailedNotRetried, RelaySticks
<1>. QED BY <1>2, <1>3, <1>4 DEF ExitsKept

(* For every document, set of prompts and order of polls and reads: a      *)
(* classified request goes to a name that a read of the mirror let         *)
(* through, or to coder because every category was held back, and, while   *)
(* the mirror and the embeddings stand still, to the name a definition     *)
(* over the whole set of categories gives (AutoRouter.Classify).           *)
THEOREM PicksAreJustified == Spec => []PickJustified
  BY AlwaysInv, InvPicks, PTL

(* For every relay list, every order of its refreshes and every way calls  *)
(* end, the round trips of a request leave by the exit its header promises *)
(* and never by a relay that failed it, at most MaxTries of them per call; *)
(* and they change the relay after a failure only: one that hangs until    *)
(* the client's timeout is used again (egress.retryTransport).             *)
THEOREM ExitsAreKept == Spec => []ExitsKept
  BY AlwaysInv, InvExits, PTL

-----------------------------------------------------------------------------
(* A call gives up, and the list of relays.                                *)
GivenUp ==
  \/ q'.tries = MaxTries
  \/ Region(q.spec) \cap cache.relays \subseteq q.tried
  \/ TimeRanOut

LEMMA GivesUpHonestly ==
  ASSUME IInv, Egress, GaveUp
  PROVE  GivenUp
<1>1. q.pc # "failed" /\ q'.pc = "failed" /\ q.label # "default" /\ q \in RequestSet
  BY InvParts DEF GaveUp, Typed
<1>2. CASE ClientFor
  <2>1. q'.pc \in {"loop", "resolve", "fetch"}
    <3>1. CASE q.spec = Default
      BY <1>1, <1>2, <3>1 DEF ClientFor, Bare, RequestSet
    <3>2. CASE q.spec # Default /\ cache.fresh /\ cache.relays # {}
      BY <1>1, <1>2, <3>2 DEF ClientFor, RequestSet
    <3>3. CASE q.spec # Default /\ ~(cache.fresh /\ cache.relays # {})
      BY <1>1, <1>2, <3>3 DEF ClientFor, RequestSet
    <3>. QED BY <3>1, <3>2, <3>3
  <2>. QED BY <1>1, <2>1
<1>3. CASE Fetch
  <2>1. CASE cache.relays = {}
    BY <2>1 DEF GivenUp
  <2>2. CASE cache.relays # {}
    <3>1. q' = [q EXCEPT !.pc = "store", !.fetched = listing] \/ q' = [q EXCEPT !.pc = "resolve"]
      BY <1>3, <2>2 DEF Fetch
    <3>2. q'.pc \in {"store", "resolve"}
      BY <1>1, <3>1 DEF RequestSet
    <3>. QED BY <1>1, <3>2
  <2>. QED BY <2>1, <2>2
<1>4. CASE Store
  BY <1>1, <1>4 DEF Store, RequestSet
<1>5. CASE Resolve
  <2>1. CASE Resolvable(q.spec, cache.relays, q.tried) = {}
    BY <2>1, NothingResolvable DEF GivenUp
  <2>2. CASE Resolvable(q.spec, cache.relays, q.tried) # {}
    <3>1. PICK h : q' = IF q.label = "" THEN [q EXCEPT !.pc = "loop", !.relay = h, !.label = h]
                        ELSE [q EXCEPT !.pc = "attempt", !.relay = h]
      BY <1>5, <2>2 DEF Resolve
    <3>2. q'.pc \in {"loop", "attempt"}
      BY <1>1, <3>1 DEF RequestSet
    <3>. QED BY <1>1, <3>2
  <2>. QED BY <2>1, <2>2
<1>6. CASE Call
  <2>1. q' = [q EXCEPT !.pc = "done"] \/ q' = [q EXCEPT !.pc = "attempt", !.calls = @ + 1, !.tries = 0]
    BY <1>6 DEF Call
  <2>2. q'.pc \in {"done", "attempt"}
    BY <1>1, <2>1 DEF RequestSet
  <2>. QED BY <1>1, <2>2
<1>7. CASE Attempt
  <2>1. CASE q' = [Logged(q, q.relay, "failed") EXCEPT
                      !.tried = @ \cup {q.relay}, !.relay = None, !.tries = @ + 1,
                      !.pc = IF q.tries + 1 = MaxTries THEN "failed" ELSE "attempt"]
    <3>1. q'.pc = IF q.tries + 1 = MaxTries THEN "failed" ELSE "attempt"
      BY <1>1, <2>1 DEF RequestSet, Logged
    <3>2. q'.tries = q.tries + 1
      BY <1>1, <2>1 DEF RequestSet, Logged
    <3>. QED BY <1>1, <3>1, <3>2 DEF GivenUp
  <2>4. CASE q' = [Logged(q, q.relay, "late") EXCEPT !.pc = "failed"]
    <3>1. /\ q'.log = Append(q.log, [exit |-> q.relay, how |-> "late"])
          /\ q'.relay = q.relay /\ q'.tried = q.tried
      BY <1>1, <2>4 DEF RequestSet, Logged
    <3>. QED BY <3>1 DEF GivenUp, TimeRanOut
  <2>2. CASE q' = [Logged(q, q.relay, "ok") EXCEPT !.pc = "loop"]
    <3>1. q'.pc = "loop"
      BY <1>1, <2>2 DEF RequestSet, Logged
    <3>. QED BY <1>1, <3>1
  <2>3. CASE q' = [q EXCEPT !.pc = "done"] \/ q' = [q EXCEPT !.pc = "exit"]
    <3>1. q'.pc \in {"done", "exit"}
      BY <1>1, <2>3 DEF RequestSet
    <3>. QED BY <1>1, <3>1
  <2>. QED BY <1>1, <1>7, <2>1, <2>2, <2>3, <2>4 DEF Attempt
<1>. QED BY <1>2, <1>3, <1>4, <1>5, <1>6, <1>7 DEF Egress

(* Only the egress steps fail a call.                                      *)
LEMMA FailingStep ==
  ASSUME IInv, [Next]_vars, GaveUp
  PROVE  GivenUp
<1>1. q.pc # "failed" /\ q'.pc = "failed"
  BY DEF GaveUp
<1>2. CASE FetchOnce \/ Initialize \/ Outside
  <2>1. q'.pc = q.pc
    BY <1>2, FetchOnceInv, InitializeInv, OutsideInv
  <2>. QED BY <1>1, <2>1
<1>3. CASE \E tier \in Tiers, p \in Prompts : ArriveAuto(tier, p)
  BY <1>1, <1>3, ArriveAutoInv
<1>4. CASE \E name \in Named, spec \in Specs : ArriveNamed(name, spec)
  BY <1>1, <1>4, ArriveNamedInv
<1>5. CASE Classify \/ End
  BY <1>1, <1>5, ClassifyInv, EndInv
<1>6. CASE Egress
  BY <1>6, GivesUpHonestly
<1>7. CASE UNCHANGED vars
  <2>1. q' = q
    BY <1>7 DEF vars
  <2>. QED BY <1>1, <2>1
<1>. QED BY <1>2, <1>3, <1>4, <1>5, <1>6, <1>7 DEF Next

LEMMA ListKept ==
  ASSUME IInv, [Next]_vars, cache.relays # {}
  PROVE  cache'.relays # {}
<1>1. CASE FetchOnce \/ Initialize \/ Outside
  BY <1>1, FetchOnceInv, InitializeInv, OutsideInv
<1>2. CASE \E tier \in Tiers, p \in Prompts : ArriveAuto(tier, p)
  BY <1>2, ArriveAutoInv
<1>3. CASE \E name \in Named, spec \in Specs : ArriveNamed(name, spec)
  BY <1>3, ArriveNamedInv
<1>4. CASE Classify \/ End
  BY <1>4, ClassifyInv, EndInv
<1>5. CASE Egress
  <2>1. CASE Store
    BY <2>1, InvParts, StoreHolds DEF Typed
  <2>2. CASE ClientFor \/ Fetch \/ Resolve \/ Call \/ Attempt
    BY <2>2 DEF ClientFor, Fetch, Resolve, Call, Attempt
  <2>. QED BY <1>5, <2>1, <2>2 DEF Egress
<1>6. CASE UNCHANGED vars
  BY <1>6 DEF vars
<1>. QED BY <1>1, <1>2, <1>3, <1>4, <1>5, <1>6 DEF Next

(* For every relay list and every order of its refreshes, a call by a      *)
(* chosen exit gives up only after MaxTries failures, or when no listed    *)
(* relay of the region is left unburnt, or when its time ran out, on a     *)
(* relay that is kept; and no refresh empties the list it is resolved in   *)
(* (Catalogue.ensureFresh, retryTransport.RoundTrip).                      *)
THEOREM RelaysAreExhausted == Spec => RelaysExhausted
<1>1. IInv /\ [Next]_vars =>
        [GaveUp => GivenUp]_vars
  BY FailingStep
<1>2. IInv /\ [Next]_vars => [cache.relays # {} => cache'.relays # {}]_vars
  BY ListKept
<1>. QED BY AlwaysInv, <1>1, <1>2, PTL DEF Spec, RelaysExhausted, FailsHonestly, CatalogueKeeps, GivenUp

-----------------------------------------------------------------------------
(* Opens: the tag stands at i.  Ends: the last n tokens begin the tag.     *)
Opens(s, i) == i + Len(Tag) - 1 <= Len(s) /\ \A k \in 1 .. Len(Tag) : s[i + k - 1] = Tag[k]
Ends(s, n) == n <= Len(s) /\ \A k \in 1 .. n : s[Len(s) - n + k] = Tag[k]

(* What the gate has done with the text so far.  While it captures, the    *)
(* captured text begins where the first tag does.  Before, no tag is in    *)
(* the text and what is held back is the longest beginning of one.         *)
Captures(g, sh, content) ==
  /\ g.pending = <<>>
  /\ content = sh \o g.captured
  /\ Len(sh) + 1 \in TagAt(content)
  /\ \A i \in TagAt(content) : Len(sh) + 1 <= i
Waits(g, sh, content) ==
  /\ g.captured = <<>>
  /\ content = sh \o g.pending
  /\ TagAt(content) = {}
  /\ Ends(content, Len(g.pending))
  /\ \A n \in 0 .. Len(Tag) - 1 : Ends(content, n) => n <= Len(g.pending)
Held(g, sh, content) ==
  IF g.capturing THEN Captures(g, sh, content) ELSE Waits(g, sh, content)

Texts == Seq(Tokens)
Gates == [pending : Texts, capturing : BOOLEAN, captured : Texts]

-----------------------------------------------------------------------------
LEMMA SmallestNat ==
  ASSUME NEW S, S \subseteq Nat, S # {}
  PROVE \E n \in S : \A j \in S : n <= j
<1> DEFINE R == {ss \in Nat \X Nat : ss[1] < ss[2]}
<1>1. IsWellFoundedOn(R, Nat)
  BY NatLessThanWellFounded, Zenon DEF OpToRel
<1> HIDE DEF R
<1>2. PICK x \in S : \A y \in S : ~ (<<y, x>> \in R) BY <1>1, WFMin
<1>3. \A y \in S : ~ (y < x)  BY <1>2 DEF R
<1> QED BY <1>2, <1>3

LEMMA LeastIs ==
  ASSUME NEW S, S \subseteq Nat, S # {}
  PROVE  Least(S) \in S /\ \A j \in S : Least(S) <= j
BY SmallestNat DEF Least

LEMMA LeastOf ==
  ASSUME NEW S, S \subseteq Nat, NEW n \in S, \A j \in S : n <= j
  PROVE  Least(S) = n
<1>1. Least(S) \in S /\ \A j \in S : Least(S) <= j BY LeastIs
<1>2. Least(S) \in Nat /\ n \in Nat /\ Least(S) <= n /\ n <= Least(S) BY <1>1
<1> QED BY <1>2

LEMMA LargestBelow ==
  ASSUME NEW b \in Nat, NEW S, S \subseteq 0 .. b, S # {}
  PROVE  \E n \in S : \A m \in S : m <= n
<1> DEFINE R == {b - n : n \in S}
<1>1. R \subseteq Nat /\ R # {}
  <2>1. ASSUME NEW n \in S PROVE b - n \in Nat BY <2>1
  <2> QED BY <2>1
<1>2. \A n \in S : b - n \in R OBVIOUS
<1>3. \A r \in R : \E n \in S : r = b - n OBVIOUS
<1> HIDE DEF R
<1>4. PICK r \in R : \A j \in R : r <= j BY <1>1, SmallestNat
<1>5. PICK n \in S : r = b - n BY <1>3, <1>4
<1>6. \A m \in S : m <= n BY <1>2, <1>4, <1>5
<1> QED BY <1>5, <1>6

-----------------------------------------------------------------------------
LEMMA TagFacts == Tag \in Texts /\ Len(Tag) \in Nat \ {0}
<1>1. Tag \in Seq(ToSet(Tag)) /\ Len(Tag) > 0 BY TagAssumption
<1>2. ToSet(Tag) \subseteq Tokens BY DEF Tokens
<1>3. Tag \in Seq(Tokens) BY <1>1, <1>2, SeqMonotonic
<1> QED BY <1>1, <1>3 DEF Texts

(* A text is cut in two anywhere.                                          *)
LEMMA CutText ==
  ASSUME NEW S, NEW s \in Seq(S), NEW c \in 0 .. Len(s)
  PROVE  /\ SubSeq(s, 1, c) \in Seq(S) /\ Len(SubSeq(s, 1, c)) = c
         /\ SubSeq(s, c + 1, Len(s)) \in Seq(S) /\ Len(SubSeq(s, c + 1, Len(s))) = Len(s) - c
         /\ s = SubSeq(s, 1, c) \o SubSeq(s, c + 1, Len(s))
<1>1. \A i \in 1 .. Len(s) : s[i] \in S BY ElementOfSeq
<1>2. SubSeq(s, 1, c) \in Seq(S) /\ Len(SubSeq(s, 1, c)) = c BY <1>1, SubSeqProperties
<1>3. /\ SubSeq(s, c + 1, Len(s)) \in Seq(S)
      /\ Len(SubSeq(s, c + 1, Len(s))) = Len(s) - c
  BY <1>1, SubSeqProperties
<1>4. SubSeq(s, 1, c) \o SubSeq(s, c + 1, Len(s)) = SubSeq(s, 1, Len(s))
  <2>1. Len(s) \in Nat OBVIOUS
  <2>2. 1 \in 1 .. Len(s) + 1 /\ c \in 1 - 1 .. Len(s) /\ Len(s) \in c .. Len(s) BY <2>1
  <2> QED BY <2>2, ConcatAdjacentSubSeq
<1>5. SubSeq(s, 1, Len(s)) = s BY SubSeqFull
<1> QED BY <1>2, <1>3, <1>4, <1>5

LEMMA TagAtIs ==
  ASSUME NEW s \in Texts
  PROVE  TagAt(s) = {i \in Nat \ {0} : Opens(s, i)}
<1> USE TagFacts DEF Texts
<1>1. ASSUME NEW i \in 1 .. Len(s) - Len(Tag) + 1
      PROVE  (SubSeq(s, i, i + Len(Tag) - 1) = Tag) <=> (\A k \in 1 .. Len(Tag) : s[i + k - 1] = Tag[k])
  <2> DEFINE u == SubSeq(s, i, i + Len(Tag) - 1)
  <2>1. \A j \in i .. i + Len(Tag) - 1 : s[j] \in Tokens BY <1>1, ElementOfSeq
  <2>2. /\ u \in Seq(Tokens) /\ Len(u) = Len(Tag)
        /\ \A k \in 1 .. Len(Tag) : u[k] = s[i + k - 1]
    BY <1>1, <2>1, SubSeqProperties
  <2> HIDE DEF u
  <2>3. ASSUME \A k \in 1 .. Len(Tag) : s[i + k - 1] = Tag[k] PROVE u = Tag
    BY <2>2, <2>3, SeqEqual
  <2> QED BY <2>2, <2>3 DEF u
<1>2. TagAt(s) = {i \in 1 .. Len(s) - Len(Tag) + 1 : \A k \in 1 .. Len(Tag) : s[i + k - 1] = Tag[k]}
  BY <1>1 DEF TagAt
<1>3. Len(s) \in Nat OBVIOUS
<1> QED BY <1>2, <1>3 DEF Opens

LEMMA ReverseIs ==
  ASSUME NEW S, NEW s \in Seq(S)
  PROVE  /\ Reverse(s) \in Seq(S) /\ Len(Reverse(s)) = Len(s)
         /\ \A i \in 1 .. Len(s) : Reverse(s)[i] = s[Len(s) - i + 1]
BY DEF Reverse

LEMMA SuffixIs ==
  ASSUME NEW s \in Texts, NEW n \in 0 .. Len(Tag) - 1
  PROVE  IsSuffix(SubSeq(Tag, 1, n), s) <=> Ends(s, n)
<1> USE TagFacts DEF Texts
<1> DEFINE p == SubSeq(Tag, 1, n)
           rp == Reverse(p)
           rs == Reverse(s)
<1>1. p \in Seq(Tokens) /\ Len(p) = n /\ \A k \in 1 .. n : p[k] = Tag[k]
  <2>1. \A i \in 1 .. n : Tag[i] \in Tokens BY ElementOfSeq
  <2> QED BY <2>1, SubSeqProperties
<1> HIDE DEF p
<1>2. rp \in Seq(Tokens) /\ Len(rp) = n /\ \A i \in 1 .. n : rp[i] = p[n - i + 1]
  BY <1>1, ReverseIs
<1>3. rs \in Seq(Tokens) /\ Len(rs) = Len(s) /\ \A i \in 1 .. Len(s) : rs[i] = s[Len(s) - i + 1]
  BY ReverseIs
<1>4. IsSuffix(p, s) <=> n <= Len(s) /\ SubSeq(rp, 1, n) = SubSeq(rs, 1, n)
  BY <1>2, <1>3 DEF IsSuffix, IsPrefix
<1> HIDE DEF rp, rs
<1>5. ASSUME n <= Len(s)
      PROVE  (SubSeq(rp, 1, n) = SubSeq(rs, 1, n)) <=> (\A i \in 1 .. n : rp[i] = rs[i])
  <2>1. /\ SubSeq(rp, 1, n) \in Seq(Tokens) /\ Len(SubSeq(rp, 1, n)) = n
        /\ \A i \in 1 .. n : SubSeq(rp, 1, n)[i] = rp[i]
    <3>1. \A i \in 1 .. n : rp[i] \in Tokens BY <1>2, ElementOfSeq
    <3> QED BY <3>1, SubSeqProperties
  <2>2. /\ SubSeq(rs, 1, n) \in Seq(Tokens) /\ Len(SubSeq(rs, 1, n)) = n
        /\ \A i \in 1 .. n : SubSeq(rs, 1, n)[i] = rs[i]
    <3>1. \A i \in 1 .. n : rs[i] \in Tokens BY <1>3, <1>5, ElementOfSeq
    <3> QED BY <3>1, SubSeqProperties
  <2>3. ASSUME \A i \in 1 .. n : rp[i] = rs[i] PROVE SubSeq(rp, 1, n) = SubSeq(rs, 1, n)
    BY <2>1, <2>2, <2>3, SeqEqual
  <2> QED BY <2>1, <2>2, <2>3
<1>6. ASSUME n <= Len(s)
      PROVE  (\A i \in 1 .. n : rp[i] = rs[i]) <=> (\A k \in 1 .. n : s[Len(s) - n + k] = Tag[k])
  <2>1. \A i \in 1 .. n : rp[i] = Tag[n - i + 1] /\ rs[i] = s[Len(s) - i + 1]
    BY <1>1, <1>2, <1>3, <1>6
  <2>2. \A k \in 1 .. n : n - k + 1 \in 1 .. n /\ n - (n - k + 1) + 1 = k
                          /\ Len(s) - (n - k + 1) + 1 = Len(s) - n + k
    OBVIOUS
  <2>3. \A k \in 1 .. n : rp[n - k + 1] = Tag[k] /\ rs[n - k + 1] = s[Len(s) - n + k]
    BY <2>1, <2>2
  <2>4. \A i \in 1 .. n : Len(s) - n + (n - i + 1) = Len(s) - i + 1 OBVIOUS
  <2>5. ASSUME \A k \in 1 .. n : s[Len(s) - n + k] = Tag[k], NEW i \in 1 .. n PROVE rp[i] = rs[i]
    BY <2>1, <2>2, <2>4, <2>5
  <2>6. ASSUME \A i \in 1 .. n : rp[i] = rs[i], NEW k \in 1 .. n PROVE s[Len(s) - n + k] = Tag[k]
    BY <2>2, <2>3, <2>6
  <2> QED BY <2>5, <2>6
<1>7. p = SubSeq(Tag, 1, n) BY DEF p
<1> QED BY <1>4, <1>5, <1>6, <1>7 DEF Ends

LEMMA PrefixSuffixIs ==
  ASSUME NEW s \in Texts
  PROVE  /\ TagPrefixSuffix(s) \in 0 .. Len(Tag) - 1
         /\ Ends(s, TagPrefixSuffix(s))
         /\ \A n \in 0 .. Len(Tag) - 1 : Ends(s, n) => n <= TagPrefixSuffix(s)
<1> DEFINE H == {n \in 0 .. Len(Tag) - 1 : Ends(s, n)}
           G == {n \in 0 .. Len(Tag) - 1 : IsSuffix(SubSeq(Tag, 1, n), s)}
<1>1. Len(Tag) - 1 \in Nat BY TagFacts
<1>2. G = H BY SuffixIs
<1>3. 0 \in H BY <1>1 DEF Ends, Texts
<1>4. TagPrefixSuffix(s) = CHOOSE n \in H : \A m \in H : m <= n BY <1>2 DEF TagPrefixSuffix
<1>5. \E n \in H : \A m \in H : m <= n
  <2>1. H \subseteq 0 .. Len(Tag) - 1 /\ H # {} BY <1>3
  <2> HIDE DEF H
  <2> QED BY <1>1, <2>1, LargestBelow
<1>6. TagPrefixSuffix(s) \in H /\ \A m \in H : m <= TagPrefixSuffix(s)
  <2> HIDE DEF H
  <2> QED BY <1>4, <1>5
<1> QED BY <1>6

(* Where tags stand in a text that is put together from two.               *)
LEMMA OpensLater ==
  ASSUME NEW s \in Texts, NEW t \in Texts, NEW i \in Nat \ {0}
  PROVE  Opens(t, i) <=> Opens(s \o t, Len(s) + i)
<1> USE TagFacts DEF Texts
<1>1. /\ Len(s \o t) = Len(s) + Len(t)
      /\ \A j \in 1 .. Len(s) + Len(t) : (s \o t)[j] = IF j <= Len(s) THEN s[j] ELSE t[j - Len(s)]
  BY ConcatProperties
<1>2. Len(s) \in Nat /\ Len(t) \in Nat OBVIOUS
<1>3. ASSUME i + Len(Tag) - 1 <= Len(t), NEW k \in 1 .. Len(Tag)
      PROVE  (s \o t)[Len(s) + i + k - 1] = t[i + k - 1]
  <2>1. /\ Len(s) + i + k - 1 \in 1 .. Len(s) + Len(t) /\ ~(Len(s) + i + k - 1 <= Len(s))
        /\ (Len(s) + i + k - 1) - Len(s) = i + k - 1
    BY <1>2, <1>3
  <2> QED BY <1>1, <2>1
<1>4. (Len(s) + i) + Len(Tag) - 1 <= Len(s \o t) <=> i + Len(Tag) - 1 <= Len(t) BY <1>1, <1>2
<1>5. CASE i + Len(Tag) - 1 <= Len(t)
  <2>1. \A k \in 1 .. Len(Tag) : (s \o t)[(Len(s) + i) + k - 1] = t[i + k - 1] BY <1>2, <1>3, <1>5
  <2> QED BY <1>4, <1>5, <2>1 DEF Opens
<1>6. CASE ~(i + Len(Tag) - 1 <= Len(t)) BY <1>4, <1>6 DEF Opens
<1> QED BY <1>5, <1>6

LEMMA OpensEarlier ==
  ASSUME NEW s \in Texts, NEW t \in Texts, NEW i \in Nat \ {0}, i + Len(Tag) - 1 <= Len(s)
  PROVE  Opens(s, i) <=> Opens(s \o t, i)
<1> USE TagFacts DEF Texts
<1>1. /\ Len(s \o t) = Len(s) + Len(t)
      /\ \A j \in 1 .. Len(s) + Len(t) : (s \o t)[j] = IF j <= Len(s) THEN s[j] ELSE t[j - Len(s)]
  BY ConcatProperties
<1>2. Len(s) \in Nat /\ Len(t) \in Nat OBVIOUS
<1>3. \A k \in 1 .. Len(Tag) : i + k - 1 \in 1 .. Len(s) BY <1>2
<1>4. \A k \in 1 .. Len(Tag) : (s \o t)[i + k - 1] = s[i + k - 1] BY <1>1, <1>2, <1>3
<1>5. i + Len(Tag) - 1 <= Len(s \o t) BY <1>1, <1>2
<1> QED BY <1>4, <1>5 DEF Opens

(* A tag that begins in the first text and is not in it has its beginning  *)
(* at the end of it.                                                       *)
LEMMA Straddles ==
  ASSUME NEW s \in Texts, NEW t \in Texts, NEW i \in 1 .. Len(s), Opens(s \o t, i),
         Len(s) < i + Len(Tag) - 1
  PROVE  /\ Len(s) - i + 1 \in 0 .. Len(Tag) - 1
         /\ Ends(s, Len(s) - i + 1)
<1> USE TagFacts DEF Texts
<1>1. /\ Len(s \o t) = Len(s) + Len(t)
      /\ \A j \in 1 .. Len(s) + Len(t) : (s \o t)[j] = IF j <= Len(s) THEN s[j] ELSE t[j - Len(s)]
  BY ConcatProperties
<1>2. Len(s) \in Nat /\ Len(t) \in Nat /\ i \in Nat OBVIOUS
<1>3. Len(s) - i + 1 \in 0 .. Len(Tag) - 1 BY <1>2
<1>4. ASSUME NEW k \in 1 .. Len(s) - i + 1 PROVE s[Len(s) - (Len(s) - i + 1) + k] = Tag[k]
  <2>1. /\ k \in 1 .. Len(Tag) /\ i + k - 1 \in 1 .. Len(s)
        /\ Len(s) - (Len(s) - i + 1) + k = i + k - 1
    BY <1>2, <1>3
  <2>2. (s \o t)[i + k - 1] = Tag[k] BY <2>1 DEF Opens
  <2> QED BY <1>1, <1>2, <2>1, <2>2
<1>5. Len(s) - i + 1 <= Len(s) BY <1>2
<1> QED BY <1>3, <1>4, <1>5 DEF Ends

LEMMA EndsLater ==
  ASSUME NEW s \in Texts, NEW t \in Texts, NEW n \in 0 .. Len(t)
  PROVE  Ends(t, n) <=> Ends(s \o t, n)
<1> USE TagFacts DEF Texts
<1>1. /\ Len(s \o t) = Len(s) + Len(t)
      /\ \A j \in 1 .. Len(s) + Len(t) : (s \o t)[j] = IF j <= Len(s) THEN s[j] ELSE t[j - Len(s)]
  BY ConcatProperties
<1>2. Len(s) \in Nat /\ Len(t) \in Nat /\ n \in Nat OBVIOUS
<1>3. ASSUME NEW k \in 1 .. n PROVE (s \o t)[Len(s \o t) - n + k] = t[Len(t) - n + k]
  <2> DEFINE j == Len(s) + Len(t) - n + k
  <2>1. j \in 1 .. Len(s) + Len(t) /\ ~(j <= Len(s)) /\ j - Len(s) = Len(t) - n + k BY <1>2
  <2> QED BY <1>1, <2>1
<1>4. n <= Len(t) /\ n <= Len(s \o t) BY <1>1, <1>2
<1>5. (\A k \in 1 .. n : (s \o t)[Len(s \o t) - n + k] = Tag[k])
        <=> (\A k \in 1 .. n : t[Len(t) - n + k] = Tag[k])
  BY <1>3
<1> QED BY <1>4, <1>5 DEF Ends

LEMMA EndsEarlier ==
  ASSUME NEW s \in Texts, NEW t \in Texts, NEW n \in Nat, Len(t) <= n, Ends(s \o t, n)
  PROVE  Ends(s, n - Len(t))
<1> USE TagFacts DEF Texts
<1>1. /\ Len(s \o t) = Len(s) + Len(t)
      /\ \A j \in 1 .. Len(s) + Len(t) : (s \o t)[j] = IF j <= Len(s) THEN s[j] ELSE t[j - Len(s)]
  BY ConcatProperties
<1>2. Len(s) \in Nat /\ Len(t) \in Nat /\ n <= Len(s) + Len(t) BY <1>1 DEF Ends
<1>3. ASSUME NEW k \in 1 .. n - Len(t) PROVE s[Len(s) - (n - Len(t)) + k] = Tag[k]
  <2> DEFINE j == Len(s) - (n - Len(t)) + k
  <2>1. /\ k \in 1 .. n /\ j \in 1 .. Len(s) /\ j \in 1 .. Len(s) + Len(t)
        /\ Len(s \o t) - n + k = j
    BY <1>1, <1>2
  <2>2. (s \o t)[Len(s \o t) - n + k] = Tag[k] BY <2>1 DEF Ends
  <2> QED BY <1>1, <2>1, <2>2
<1> QED BY <1>2, <1>3 DEF Ends

(* While the gate waits, no tag begins in what it has forwarded.           *)
LEMMA NoneInForwarded ==
  ASSUME NEW g \in Gates, NEW sh \in Texts, NEW content \in Texts, NEW delta \in Texts,
         Waits(g, sh, content), NEW i \in TagAt(content \o delta)
  PROVE  Len(sh) < i
<1> USE TagFacts DEF Texts, Gates
<1>1. content \o delta \in Texts /\ i \in Nat \ {0} /\ Opens(content \o delta, i)
  <2>1. content \o delta \in Texts BY ConcatProperties
  <2>2. TagAt(content \o delta) = {j \in Nat \ {0} : Opens(content \o delta, j)} BY <2>1, TagAtIs
  <2> QED BY <2>1, <2>2
<1>2. Len(content) = Len(sh) + Len(g.pending) /\ Len(sh) \in Nat /\ Len(g.pending) \in Nat
  BY DEF Waits
<1>3. ASSUME i <= Len(sh) PROVE FALSE
  <2>1. CASE i + Len(Tag) - 1 <= Len(content)
    <3>1. Opens(content, i) BY <1>1, <2>1, OpensEarlier
    <3> QED BY <1>1, <3>1, TagAtIs DEF Waits
  <2>2. CASE Len(content) < i + Len(Tag) - 1
    <3>1. i \in 1 .. Len(content) BY <1>1, <1>2, <1>3
    <3>2. /\ Len(content) - i + 1 \in 0 .. Len(Tag) - 1
          /\ Ends(content, Len(content) - i + 1)
      BY <1>1, <2>2, <3>1, Straddles
    <3>3. Len(content) - i + 1 <= Len(g.pending) BY <3>2 DEF Waits
    <3> QED BY <1>2, <1>3, <3>3, <1>1
  <2> QED BY <1>1, <1>2, <2>1, <2>2
<1> QED BY <1>1, <1>2, <1>3


LEMMA Joined ==
  ASSUME NEW a \in Texts, NEW b \in Texts
  PROVE  a \o b \in Texts
BY DEF Texts

LEMMA Regrouped ==
  ASSUME NEW a \in Texts, NEW b \in Texts, NEW c \in Texts
  PROVE  (a \o b) \o c = a \o (b \o c)
BY ConcatAssociative DEF Texts

(* Text that is forwarded up to a place in it.                             *)
LEMMA Forwarded ==
  ASSUME NEW sh \in Texts, NEW s \in Texts, NEW c \in 0 .. Len(s)
  PROVE  /\ SubSeq(s, 1, c) \in Texts /\ SubSeq(s, c + 1, Len(s)) \in Texts
         /\ Len(SubSeq(s, c + 1, Len(s))) = Len(s) - c
         /\ sh \o SubSeq(s, 1, c) \in Texts /\ Len(sh \o SubSeq(s, 1, c)) = Len(sh) + c
         /\ sh \o s = (sh \o SubSeq(s, 1, c)) \o SubSeq(s, c + 1, Len(s))
<1> DEFINE before == SubSeq(s, 1, c)
           rest == SubSeq(s, c + 1, Len(s))
<1>1. /\ before \in Texts /\ Len(before) = c /\ rest \in Texts /\ Len(rest) = Len(s) - c
      /\ s = before \o rest
  BY CutText, ZenonT(30) DEF Texts
<1> HIDE DEF before, rest
<1>2. before \in Texts /\ Len(before) = c /\ rest \in Texts BY <1>1
<1>3. sh \o before \in Texts BY <1>2, Joined
<1>4. Len(sh \o before) = Len(sh) + Len(before) BY <1>2, ConcatProperties, Zenon DEF Texts
<1>5. (sh \o before) \o rest = sh \o (before \o rest) BY <1>2, Regrouped
<1> QED BY <1>1, <1>2, <1>3, <1>4, <1>5 DEF before, rest

(* What push does to the gate, for any delta.                              *)
LEMMA PushGood ==
  ASSUME NEW g \in Gates, NEW sh \in Texts, NEW content \in Texts, NEW delta \in Texts,
         Held(g, sh, content)
  PROVE  /\ Push(g, delta).gate \in Gates
         /\ Push(g, delta).out \in Texts
         /\ Held(Push(g, delta).gate, sh \o Push(g, delta).out, content \o delta)
<1> USE TagFacts
<1> DEFINE s == g.pending \o delta
           after == content \o delta
           p == Push(g, delta)
<1>1. g.pending \in Texts /\ g.captured \in Texts /\ g.capturing \in BOOLEAN BY DEF Gates
<1>2. s \in Texts /\ after \in Texts /\ Len(s) = Len(g.pending) + Len(delta)
      /\ Len(after) = Len(content) + Len(delta)
  BY <1>1, ConcatProperties DEF Texts
<1>3. /\ Len(s) \in Nat /\ Len(sh) \in Nat /\ Len(delta) \in Nat /\ Len(g.pending) \in Nat
      /\ Len(content) \in Nat
  BY <1>1, <1>2 DEF Texts
<1>4. CASE g.capturing
  <2> DEFINE more == g.captured \o delta
  <2>1. p = [gate |-> [g EXCEPT !.captured = more], out |-> <<>>]
    BY <1>4 DEF Push, Capture
  <2>2. more \in Texts /\ sh \o g.captured = content /\ after = sh \o more
    <3>1. content = sh \o g.captured BY <1>4 DEF Held, Captures
    <3>2. more \in Texts BY <1>1, Joined
    <3>3. (sh \o g.captured) \o delta = sh \o more BY <1>1, Regrouped, ZenonT(30)
    <3> QED BY <3>1, <3>2, <3>3
  <2>3. Len(sh) + 1 \in TagAt(content) BY <1>4 DEF Held, Captures
  <2>4. Len(sh) + 1 \in TagAt(after) /\ Len(sh) + 1 + Len(Tag) - 1 <= Len(content)
    <3>1. Opens(content, Len(sh) + 1) BY <2>3, TagAtIs
    <3>2. Len(sh) + 1 \in Nat \ {0} /\ Len(sh) + 1 + Len(Tag) - 1 <= Len(content)
      BY <1>3, <3>1 DEF Opens
    <3>3. Opens(after, Len(sh) + 1) BY <3>1, <3>2, OpensEarlier
    <3> QED BY <1>2, <3>2, <3>3, TagAtIs
  <2>5. ASSUME NEW i \in TagAt(after) PROVE Len(sh) + 1 <= i
    <3>1. i \in Nat \ {0} /\ Opens(after, i)
      <4>1. TagAt(after) = {j \in Nat \ {0} : Opens(after, j)} BY <1>2, TagAtIs
      <4> QED BY <4>1
    <3>2. ASSUME ~(Len(sh) + 1 <= i) PROVE FALSE
      <4>1. i + Len(Tag) - 1 <= Len(content) BY <1>3, <2>4, <3>1, <3>2
      <4>2. Opens(content, i) BY <3>1, <4>1, OpensEarlier
      <4>3. i \in TagAt(content) BY <3>1, <4>2, TagAtIs
      <4> QED BY <1>4, <3>2, <4>3 DEF Held, Captures
    <3> QED BY <3>2
  <2>6. p.gate \in Gates /\ p.out = <<>> /\ p.gate.pending = g.pending
        /\ p.gate.captured = more /\ p.gate.capturing
    <3> HIDE DEF p, more
    <3>1. p.gate = [g EXCEPT !.captured = more] /\ p.out = <<>> BY <2>1
    <3>2. more \in Texts BY <2>2
    <3> HIDE DEF s, after
    <3> QED BY <1>4, <3>1, <3>2 DEF Gates
  <2>7. sh \o <<>> = sh /\ <<>> \in Texts BY ConcatEmptySeq DEF Texts
  <2>8. g.pending = <<>> BY <1>4 DEF Held, Captures
  <2> HIDE DEF p, after, more
  <2>9. Captures(p.gate, sh, after) BY <2>2, <2>4, <2>5, <2>6, <2>8 DEF Captures
  <2> QED BY <2>6, <2>7, <2>9 DEF Held, p, after
<1>5. ASSUME ~g.capturing PROVE Waits(g, sh, content) BY <1>5 DEF Held
<1>6. ASSUME ~g.capturing PROVE after = sh \o s
  <2>1. content = sh \o g.pending BY <1>5, <1>6 DEF Waits
  <2>2. (sh \o g.pending) \o delta = sh \o s BY <1>1, Regrouped, ZenonT(30)
  <2> QED BY <2>1, <2>2
<1>7. ASSUME ~g.capturing, NEW i \in TagAt(after)
      PROVE  Len(sh) < i /\ i - Len(sh) \in TagAt(s)
  <2>1. Len(sh) < i BY <1>5, <1>7, NoneInForwarded
  <2>2. i \in Nat \ {0} /\ Opens(after, i)
    <3>1. TagAt(after) = {j \in Nat \ {0} : Opens(after, j)} BY <1>2, TagAtIs
    <3> QED BY <1>7, <3>1
  <2>3. i - Len(sh) \in Nat \ {0} /\ Len(sh) + (i - Len(sh)) = i BY <1>3, <2>1, <2>2
  <2>4. Opens(s, i - Len(sh)) BY <1>2, <1>6, <1>7, <2>2, <2>3, OpensLater
  <2> QED BY <1>2, <2>1, <2>3, <2>4, TagAtIs
<1>8. CASE ~g.capturing /\ TagAt(s) # {}
  <2> DEFINE open == Least(TagAt(s))
             before == SubSeq(s, 1, open - 1)
             rest == SubSeq(s, (open - 1) + 1, Len(s))
  <2>1. p = [gate |-> [pending |-> <<>>, capturing |-> TRUE, captured |-> SubSeq(s, open, Len(s))],
             out |-> before]
    BY <1>8 DEF Push
  <2>2. TagAt(s) = {j \in Nat \ {0} : Opens(s, j)} BY <1>2, TagAtIs
  <2>3. open \in TagAt(s) /\ \A i \in TagAt(s) : open <= i BY <1>8, <2>2, LeastIs
  <2>4. open \in Nat \ {0} /\ Opens(s, open) BY <2>2, <2>3
  <2>5. open - 1 \in 0 .. Len(s) /\ open - 1 + 1 = open BY <1>3, <2>4 DEF Opens
  <2> HIDE DEF open
  <2>6. rest = SubSeq(s, open, Len(s)) BY <2>5
  <2> HIDE DEF s, after
  <2>7. /\ before \in Texts /\ rest \in Texts
        /\ sh \o before \in Texts /\ Len(sh \o before) = Len(sh) + (open - 1)
        /\ sh \o s = (sh \o before) \o rest
    <3>1. s \in Texts /\ open - 1 \in 0 .. Len(s) BY <1>2, <2>5
    <3> QED BY <3>1, Forwarded, ZenonT(30)
  <2> HIDE DEF before, rest, p
  <2>8. after = (sh \o before) \o rest BY <1>6, <1>8, <2>7
  <2>9. Len(sh \o before) + 1 = Len(sh) + open BY <1>3, <2>4, <2>7
  <2>10. Len(sh) + open \in TagAt(after)
    <3>0. s \in Texts BY <1>2
    <3>1. Opens(sh \o s, Len(sh) + open) BY <2>4, <3>0, OpensLater
    <3>2. Len(sh) + open \in Nat \ {0} BY <1>3, <2>4
    <3> QED BY <1>2, <1>6, <1>8, <3>1, <3>2, TagAtIs
  <2>11. ASSUME NEW i \in TagAt(after) PROVE Len(sh) + open <= i
    <3>1. i - Len(sh) \in TagAt(s) BY <1>7, <1>8, <2>11
    <3>2. open <= i - Len(sh) BY <2>3, <3>1
    <3>3. i \in Nat
      <4>1. TagAt(after) = {j \in Nat \ {0} : Opens(after, j)} BY <1>2, TagAtIs
      <4> QED BY <4>1, <2>11
    <3> QED BY <1>3, <2>4, <3>2, <3>3
  <2>12. p.gate \in Gates /\ p.out = before /\ p.gate.pending = <<>> /\ p.gate.captured = rest
         /\ p.gate.capturing
    <3>1. p.gate = [pending |-> <<>>, capturing |-> TRUE, captured |-> rest] /\ p.out = before
      BY <2>1, <2>6
    <3>2. rest \in Texts BY <2>7
    <3>3. <<>> \in Texts BY DEF Texts
    <3> QED BY <3>1, <3>2, <3>3 DEF Gates
  <2>13. Captures(p.gate, sh \o before, after) BY <2>8, <2>9, <2>10, <2>11, <2>12 DEF Captures
  <2> QED BY <2>7, <2>12, <2>13 DEF Held, p, after
<1>9. CASE ~g.capturing /\ TagAt(s) = {}
  <2> DEFINE h == TagPrefixSuffix(s)
             cut == Len(s) - h
             out == SubSeq(s, 1, cut)
             held == SubSeq(s, cut + 1, Len(s))
  <2>1. p = [gate |-> [g EXCEPT !.pending = held], out |-> out]
    BY <1>9 DEF Push
  <2>2. /\ h \in 0 .. Len(Tag) - 1 /\ Ends(s, h)
        /\ \A n \in 0 .. Len(Tag) - 1 : Ends(s, n) => n <= h
    BY <1>2, PrefixSuffixIs
  <2> HIDE DEF h
  <2>3. cut \in 0 .. Len(s) /\ h \in Nat /\ h <= Len(s) /\ Len(s) - cut = h
    BY <1>3, <2>2 DEF Ends
  <2> HIDE DEF cut
  <2> HIDE DEF s, after
  <2>4. /\ out \in Texts /\ held \in Texts /\ Len(held) = h
        /\ sh \o s = (sh \o out) \o held
    <3>1. s \in Texts /\ cut \in 0 .. Len(s) BY <1>2, <2>3
    <3> QED BY <2>3, <3>1, Forwarded, ZenonT(30)
  <2> HIDE DEF out, held, p
  <2>5. after = (sh \o out) \o held BY <1>6, <1>9, <2>4
  <2>6. TagAt(after) = {} BY <1>7, <1>9
  <2>7. Ends(after, h)
    <3>1. h \in 0 .. Len(s) BY <1>3, <2>3
    <3>2. Ends(sh \o s, h) BY <1>2, <2>2, <3>1, EndsLater
    <3> QED BY <1>6, <1>9, <3>2
  <2>8. ASSUME NEW n \in 0 .. Len(Tag) - 1, Ends(after, n) PROVE n <= h
    <3>1. CASE n <= Len(s)
      <4>0. n \in 0 .. Len(s) BY <1>3, <3>1
      <4>1. Ends(sh \o s, n) BY <1>6, <1>9, <2>8
      <4>2. Ends(s, n) BY <1>2, <4>0, <4>1, EndsLater
      <4> QED BY <2>2, <4>2
    <3>2. CASE ~(n <= Len(s))
      <4>1. Len(delta) <= n /\ n \in Nat /\ n - Len(delta) \in 0 .. Len(Tag) - 1
            /\ Len(g.pending) < n - Len(delta)
        BY <1>2, <1>3, <3>2
      <4>2. Ends(content, n - Len(delta)) BY <2>8, <4>1, EndsEarlier DEF after
      <4>3. n - Len(delta) <= Len(g.pending) BY <1>5, <1>9, <4>1, <4>2 DEF Waits
      <4> QED BY <1>3, <4>1, <4>3
    <3> QED BY <3>1, <3>2
  <2>9. p.gate \in Gates /\ p.out = out /\ p.gate.pending = held
        /\ p.gate.captured = g.captured /\ p.gate.capturing = FALSE
    BY <1>1, <1>9, <2>1, <2>4 DEF Gates
  <2>10. g.captured = <<>> BY <1>5, <1>9 DEF Waits
  <2> HIDE DEF after
  <2>11. Waits(p.gate, sh \o out, after)
    BY <2>4, <2>5, <2>6, <2>7, <2>8, <2>9, <2>10 DEF Waits
  <2> QED BY <2>4, <2>9, <2>11 DEF Held, p, after
<1> QED BY <1>1, <1>4, <1>8, <1>9

(* A fresh gate, before any text.                                          *)
LEMMA NewGateHeld == NewGate \in Gates /\ Held(NewGate, <<>>, <<>>)
<1> USE TagFacts
<1>1. <<>> \in Texts /\ Len(<<>>) = 0 /\ <<>> \o <<>> = <<>> BY DEF Texts
<1>2. /\ NewGate.pending = <<>> /\ NewGate.captured = <<>> /\ NewGate.capturing = FALSE
      /\ NewGate \in Gates
  BY <1>1 DEF NewGate, Gates
<1>3. TagAt(<<>>) = {} BY <1>1, TagAtIs DEF Opens
<1>4. Ends(<<>>, 0) /\ \A n \in 0 .. Len(Tag) - 1 : Ends(<<>>, n) => n <= 0
  BY <1>1 DEF Ends
<1> QED BY <1>1, <1>2, <1>3, <1>4 DEF Held, Waits

(* What the gate has forwarded holds no tag.                               *)
LEMMA NoTagShown ==
  ASSUME NEW g \in Gates, NEW sh \in Texts, NEW content \in Texts, Held(g, sh, content)
  PROVE  TagAt(sh) = {}
<1> USE TagFacts
<1> DEFINE u == IF g.capturing THEN g.captured ELSE g.pending
<1>1. u \in Texts /\ content = sh \o u BY DEF Gates, Held, Captures, Waits
<1>2. \A i \in TagAt(content) : Len(sh) + 1 <= i BY DEF Held, Captures, Waits
<1> HIDE DEF u
<1>3. SUFFICES ASSUME NEW i \in TagAt(sh) PROVE FALSE OBVIOUS
<1>4. i \in Nat \ {0} /\ Opens(sh, i)
  <2>1. TagAt(sh) = {j \in Nat \ {0} : Opens(sh, j)} BY TagAtIs
  <2> QED BY <1>3, <2>1
<1>5. i + Len(Tag) - 1 <= Len(sh) BY <1>4 DEF Opens
<1>6. Opens(sh \o u, i) BY <1>1, <1>4, <1>5, OpensEarlier
<1>7. i \in TagAt(content) BY <1>1, <1>4, <1>6, TagAtIs
<1>8. Len(sh) \in Nat /\ i \in Nat /\ Len(Tag) >= 1 BY <1>4 DEF Texts
<1> QED BY <1>2, <1>5, <1>7, <1>8

(* Sent on at the end of the reply, it is the whole text.                  *)
LEMMA AllSent ==
  ASSUME NEW g \in Gates, NEW sh \in Texts, NEW content \in Texts, Held(g, sh, content)
  PROVE  /\ (sh \o g.pending) \o g.captured = content
         /\ g.captured # <<>> => sh \o g.pending = sh
<1>1. g.pending \in Texts /\ g.captured \in Texts BY DEF Gates
<1>2. sh \o <<>> = sh /\ content \o <<>> = content BY DEF Texts
<1>3. CASE g.capturing BY <1>2, <1>3 DEF Held, Captures
<1>4. CASE ~g.capturing BY <1>2, <1>4 DEF Held, Waits
<1> QED BY <1>3, <1>4

-----------------------------------------------------------------------------
(* The calls in a text are the calls in what the gate captured of it.      *)
LEMMA EndsOfBlock ==
  ASSUME NEW s \in Texts
  PROVE  /\ BlockEnds(s) \subseteq 1 .. Len(s)
         /\ TagAt(s) = {} => BlockEnds(s) = {}
         /\ TagAt(s) # {} => BlockEnds(s) = {k \in 1 .. Len(s) : s[k] \in Closers
                                               /\ k >= Least(TagAt(s)) + Len(Tag)}
BY DEF BlockEnds

LEMMA CapturedCalls ==
  ASSUME NEW g \in Gates, NEW sh \in Texts, NEW content \in Texts, Held(g, sh, content)
  PROVE  ExtractToolCallsFromContent(g.captured) = ExtractToolCallsFromContent(content)
<1> USE TagFacts
<1> DEFINE u == g.captured
           n == Len(sh)
           T == Len(Tag)
<1>1. u \in Texts BY DEF Gates
<1>2. CASE ~g.capturing
  <2>1. u = <<>> /\ TagAt(content) = {} BY <1>2 DEF Held, Waits
  <2>2. BlockEnds(content) = {} BY <2>1, EndsOfBlock
  <2>3. BlockEnds(u) = {}
    <3>1. BlockEnds(u) \subseteq 1 .. Len(u) BY <1>1, EndsOfBlock
    <3> QED BY <2>1, <3>1
  <2> QED BY <2>2, <2>3 DEF ExtractToolCallsFromContent
<1>3. CASE g.capturing
  <2>1. /\ content = sh \o u /\ n + 1 \in TagAt(content)
        /\ \A i \in TagAt(content) : n + 1 <= i
    BY <1>3 DEF Held, Captures
  <2> HIDE DEF u
  <2>2. n \in Nat /\ Len(u) \in Nat /\ Len(content) = n + Len(u) /\ T \in Nat \ {0}
    BY <1>1, <2>1 DEF Texts
  <2>3. \A k \in 1 .. Len(u) : content[n + k] = u[k]
    <3>1. \A j \in 1 .. n + Len(u) : content[j] = IF j <= n THEN sh[j] ELSE u[j - n]
      BY <1>1, <2>1, ConcatProperties DEF Texts
    <3>2. ASSUME NEW k \in 1 .. Len(u) PROVE content[n + k] = u[k]
      <4>1. n + k \in 1 .. n + Len(u) /\ ~(n + k <= n) /\ (n + k) - n = k BY <2>2
      <4> QED BY <3>1, <4>1
    <3> QED BY <3>2
  <2> HIDE DEF n
  <2>4. TagAt(content) \subseteq Nat BY TagAtIs
  <2>5. Least(TagAt(content)) = n + 1 BY <2>1, <2>2, <2>4, LeastOf
  <2>6. TagAt(u) = {j \in Nat \ {0} : Opens(u, j)} BY <1>1, TagAtIs
  <2>7. 1 \in TagAt(u)
    <3>1. Opens(content, n + 1) BY <2>1, TagAtIs
    <3>2. Opens(u, 1) BY <1>1, <2>1, <3>1, OpensLater DEF n
    <3> QED BY <2>6, <3>2
  <2>8. Least(TagAt(u)) = 1
    <3>1. TagAt(u) \subseteq Nat /\ \A j \in TagAt(u) : 1 <= j BY <2>6
    <3> QED BY <2>7, <3>1, LeastOf
  <2> DEFINE B == BlockEnds(u)
             C == BlockEnds(content)
  <2>9. B = {k \in 1 .. Len(u) : u[k] \in Closers /\ k >= 1 + T}
    BY <1>1, <2>7, <2>8, EndsOfBlock
  <2>10. C = {k \in 1 .. Len(content) : content[k] \in Closers /\ k >= n + 1 + T}
    BY <2>1, <2>5, EndsOfBlock
  <2> HIDE DEF B, C
  <2>11. \A k \in B : n + k \in C
    <3>1. ASSUME NEW k \in B PROVE n + k \in C
      <4>1. k \in 1 .. Len(u) /\ u[k] \in Closers /\ k >= 1 + T BY <2>9, <3>1
      <4>2. n + k \in 1 .. Len(content) /\ n + k >= n + 1 + T BY <2>2, <4>1
      <4> QED BY <2>3, <2>10, <4>1, <4>2
    <3> QED BY <3>1
  <2>12. \A k \in C : k - n \in B
    <3>1. ASSUME NEW k \in C PROVE k - n \in B
      <4>1. k \in 1 .. Len(content) /\ content[k] \in Closers /\ k >= n + 1 + T BY <2>10, <3>1
      <4>2. k - n \in 1 .. Len(u) /\ n + (k - n) = k /\ k - n >= 1 + T BY <2>2, <4>1
      <4>3. content[k] = u[k - n] BY <2>3, <4>2
      <4> QED BY <2>9, <4>1, <4>2, <4>3
    <3> QED BY <3>1
  <2>13. CASE B = {}
    <3>1. C = {} BY <2>12, <2>13
    <3> QED BY <2>13, <3>1 DEF ExtractToolCallsFromContent, B, C, u
  <2>14. CASE B # {}
    <3> DEFINE b == Least(B)
    <3>1. B \subseteq Nat /\ B \subseteq 1 .. Len(u) BY <2>9
    <3>2. C \subseteq Nat BY <2>10
    <3>3. b \in B /\ \A k \in B : b <= k BY <2>14, <3>1, LeastIs
    <3> HIDE DEF b
    <3>4. b \in Nat /\ b \in 1 .. Len(u) BY <3>1, <3>3
    <3>5. n + b \in C BY <2>11, <3>3
    <3>6. ASSUME NEW k \in C PROVE n + b <= k
      <4>1. b <= k - n /\ k \in Nat BY <2>12, <3>2, <3>3, <3>6
      <4> QED BY <2>2, <3>4, <4>1
    <3>7. Least(C) = n + b BY <3>2, <3>5, <3>6, LeastOf
    <3>8. content[n + b] = u[b] BY <2>3, <3>4
    <3>9. b = 1 + T <=> n + b = n + 1 + T BY <2>2, <3>4
    <3>10. C # {} BY <3>5
    <3>11. ExtractToolCallsFromContent(u)
             = IF b = 1 + T /\ u[b] \in DOMAIN Bodies THEN <<Bodies[u[b]]>> ELSE <<>>
      BY <2>8, <2>14 DEF ExtractToolCallsFromContent, B, b
    <3>12. ExtractToolCallsFromContent(content)
             = IF n + b = n + 1 + T /\ content[n + b] \in DOMAIN Bodies
                 THEN <<Bodies[content[n + b]]>> ELSE <<>>
      BY <2>5, <3>7, <3>10 DEF ExtractToolCallsFromContent, C
    <3> QED BY <3>8, <3>9, <3>11, <3>12 DEF u
  <2> QED BY <2>13, <2>14
<1>4. g.capturing \in BOOLEAN BY DEF Gates
<1> QED BY <1>2, <1>3, <1>4

LEMMA CallsInText ==
  ASSUME NEW s \in Texts
  PROVE  /\ ExtractToolCallsFromContent(s) \in Seq(Tools)
         /\ Len(ExtractToolCallsFromContent(s)) <= 1
         /\ ExtractToolCallsFromContent(s) # <<>> => Len(s) >= 1
<1> DEFINE B == BlockEnds(s)
<1>1. B \subseteq 1 .. Len(s) BY EndsOfBlock
<1>2. Len(s) \in Nat BY DEF Texts
<1>3. CASE B = {} BY <1>3 DEF ExtractToolCallsFromContent
<1>4. CASE B # {}
  <2>1. Len(s) >= 1 BY <1>1, <1>2, <1>4
  <2>2. \A x \in DOMAIN Bodies : <<Bodies[x]>> \in Seq(Tools) BY LoopAssumption
  <2> QED BY <1>4, <2>1, <2>2 DEF ExtractToolCallsFromContent
<1> QED BY <1>3, <1>4

-----------------------------------------------------------------------------
(* The conversation.  Turns of either kind, and what makes a sequence of   *)
(* them one that the backend can be asked to continue in round r.          *)
Ids == Nat \X Nat
Batches == Seq([id : Ids, name : Tools])
AssistantTurns == [role : {"assistant"}, thinks : {FALSE}, calls : Batches]
ToolTurns == [role : {"tool"}, id : Ids]

Results(ms) == {i \in 1 .. Len(ms) : ms[i].role = "tool"}

FollowedUp(ms, i) ==
  ms[i].role = "assistant" =>
    \A k \in 1 .. Len(ms[i].calls) : /\ i + k <= Len(ms)
                                     /\ ms[i + k] = ToolTurn(ms[i].calls[k].id)
                                     /\ ms[i].calls[k].name \in ProxyTools

Conversation(ms, r, n) ==
  /\ ms \in Seq(AssistantTurns \cup ToolTurns)
  /\ \A i \in 1 .. Len(ms) : FollowedUp(ms, i)
  /\ \A i \in 1 .. Len(ms) : ms[i].role = "tool" => ms[i].id[1] < r
  /\ Cardinality(Results(ms)) = n

(* The turns a batch of round r adds.                                      *)
BatchOf(r, calls) == [k \in 1 .. Len(calls) |-> [id |-> <<r, k>>, name |-> calls[k]]]
ResultsOf(r, n) == [k \in 1 .. n |-> ToolTurn(<<r, k>>)]

LEMMA BatchTyped ==
  ASSUME NEW r \in Nat, NEW calls \in Seq(Tools)
  PROVE  /\ BatchOf(r, calls) \in Batches /\ Len(BatchOf(r, calls)) = Len(calls)
         /\ ResultsOf(r, Len(calls)) \in Seq(ToolTurns) /\ Len(ResultsOf(r, Len(calls))) = Len(calls)
<1> DEFINE n == Len(calls)
           C == [id : Ids, name : Tools]
<1>1. n \in Nat /\ \A k \in 1 .. n : calls[k] \in Tools BY ElementOfSeq
<1>2. \A k \in 1 .. n : [id |-> <<r, k>>, name |-> calls[k]] \in C BY <1>1 DEF Ids
<1>3. \A k \in 1 .. n : ToolTurn(<<r, k>>) \in ToolTurns BY <1>1 DEF Ids, ToolTurns, ToolTurn
<1> HIDE DEF C
<1>4. BatchOf(r, calls) \in Seq(C) /\ Len(BatchOf(r, calls)) = n BY <1>1, <1>2 DEF BatchOf
<1>5. ResultsOf(r, n) \in Seq(ToolTurns) /\ Len(ResultsOf(r, n)) = n BY <1>1, <1>3 DEF ResultsOf
<1> QED BY <1>4, <1>5 DEF Batches, C

LEMMA Continued ==
  ASSUME NEW ms, NEW r \in Nat, NEW n \in Nat, Conversation(ms, r, n),
         NEW calls \in Seq(Tools), \A k \in 1 .. Len(calls) : calls[k] \in ProxyTools,
         NEW turn, turn = [role |-> "assistant", thinks |-> FALSE, calls |-> BatchOf(r, calls)]
  PROVE  Conversation(ms \o <<turn>> \o ResultsOf(r, Len(calls)), r + 1, n + Len(calls))
<1> DEFINE Turns == AssistantTurns \cup ToolTurns
           m == Len(calls)
           batch == BatchOf(r, calls)
           res == ResultsOf(r, m)
           front == ms \o <<turn>>
           all == front \o res
           L == Len(ms)
<1>1. ms \in Seq(Turns) /\ L \in Nat /\ m \in Nat BY DEF Conversation
<1>2. batch \in Batches /\ Len(batch) = m /\ res \in Seq(ToolTurns) /\ Len(res) = m BY BatchTyped
<1>3. turn \in Turns
  <2>1. turn \in AssistantTurns BY <1>2 DEF AssistantTurns
  <2> QED BY <2>1
<1>4. res \in Seq(Turns)
  <2>1. ToolTurns \subseteq Turns OBVIOUS
  <2> HIDE DEF Turns
  <2> QED BY <1>2, <2>1, SeqMonotonic
<1>5. \A k \in 1 .. m : res[k] = ToolTurn(<<r, k>>) BY DEF ResultsOf
<1>6. \A k \in 1 .. m : batch[k].id = <<r, k>> /\ batch[k].name = calls[k] BY DEF BatchOf
<1>7. turn.role = "assistant" /\ turn.calls = batch OBVIOUS
<1> HIDE DEF Turns, batch, res
<1>8. front \in Seq(Turns) /\ Len(front) = L + 1 /\ front[L + 1] = turn
      /\ \A i \in 1 .. L : front[i] = ms[i]
  BY <1>1, <1>3
<1> HIDE DEF front
<1>9. /\ all \in Seq(Turns) /\ Len(all) = L + 1 + m
      /\ \A i \in 1 .. L : all[i] = ms[i]
      /\ all[L + 1] = turn
      /\ \A k \in 1 .. m : all[L + 1 + k] = res[k]
  <2>1. /\ all \in Seq(Turns) /\ Len(all) = (L + 1) + m
        /\ \A i \in 1 .. (L + 1) + m : all[i] = IF i <= L + 1 THEN front[i] ELSE res[i - (L + 1)]
    <3>1. front \in Seq(Turns) /\ Len(front) = L + 1 /\ res \in Seq(Turns) /\ Len(res) = m
      BY <1>2, <1>4, <1>8
    <3> HIDE DEF L, m
    <3>2. /\ all \in Seq(Turns) /\ Len(all) = Len(front) + Len(res)
          /\ \A i \in 1 .. Len(front) + Len(res) :
               all[i] = IF i <= Len(front) THEN front[i] ELSE res[i - Len(front)]
      BY <3>1, ConcatProperties
    <3> QED BY <3>1, <3>2
  <2>2. ASSUME NEW k \in 1 .. m PROVE all[L + 1 + k] = res[k]
    <3>1. /\ L + 1 + k \in 1 .. (L + 1) + m /\ ~(L + 1 + k <= L + 1)
          /\ (L + 1 + k) - (L + 1) = k
      BY <1>1
    <3> QED BY <2>1, <3>1
  <2>3. \A i \in 1 .. L : i \in 1 .. (L + 1) + m /\ i <= L + 1 BY <1>1
  <2>4. L + 1 \in 1 .. (L + 1) + m /\ L + 1 <= L + 1 BY <1>1
  <2>5. \A i \in 1 .. L : all[i] = ms[i] BY <2>1, <2>3, <1>8
  <2>6. all[L + 1] = turn BY <2>1, <2>4, <1>8
  <2> QED BY <1>1, <2>1, <2>2, <2>5, <2>6
<1> HIDE DEF all
<1>10. \A k \in 1 .. m : all[L + 1 + k] = ToolTurn(<<r, k>>) BY <1>5, <1>9
<1>11. \A x : ToolTurn(x).role = "tool" /\ ToolTurn(x).id = x BY DEF ToolTurn
<1>12. \A k \in 1 .. m : all[L + 1 + k].role = "tool" /\ all[L + 1 + k].id = <<r, k>>
  BY <1>10, <1>11
<1>13. ASSUME NEW i \in 1 .. Len(all)
       PROVE  i \in 1 .. L \/ i = L + 1 \/ (\E k \in 1 .. m : i = L + 1 + k)
  <2>1. CASE i <= L + 1 BY <1>1, <1>9, <2>1
  <2>2. CASE ~(i <= L + 1)
    <3>1. i - (L + 1) \in 1 .. m /\ i = L + 1 + (i - (L + 1)) BY <1>1, <1>9, <2>2
    <3> QED BY <3>1
  <2> QED BY <2>1, <2>2
<1>14. ASSUME NEW i \in 1 .. Len(all) PROVE FollowedUp(all, i)
  <2>1. CASE i \in 1 .. L
    <3>1. FollowedUp(ms, i) /\ all[i] = ms[i] BY <1>9, <2>1 DEF Conversation
    <3>2. SUFFICES ASSUME ms[i].role = "assistant", NEW k \in 1 .. Len(ms[i].calls)
                   PROVE  /\ i + k <= Len(all) /\ all[i + k] = ToolTurn(ms[i].calls[k].id)
                          /\ ms[i].calls[k].name \in ProxyTools
      BY <3>1 DEF FollowedUp
    <3>3. /\ i + k <= L /\ ms[i + k] = ToolTurn(ms[i].calls[k].id)
          /\ ms[i].calls[k].name \in ProxyTools
      BY <3>1, <3>2 DEF FollowedUp
    <3>4. k \in Nat /\ k >= 1
      <4>1. Len(ms[i].calls) \in Int \/ Len(ms[i].calls) \notin Int OBVIOUS
      <4> QED BY <3>2
    <3>5. i + k \in 1 .. L /\ i + k <= Len(all) BY <1>1, <1>9, <2>1, <3>3, <3>4
    <3> QED BY <1>9, <3>3, <3>5
  <2>2. CASE i = L + 1
    <3>1. ASSUME NEW k \in 1 .. m
          PROVE  /\ i + k <= Len(all) /\ all[i + k] = ToolTurn(batch[k].id)
                 /\ batch[k].name \in ProxyTools
      <4>1. i + k = L + 1 + k /\ i + k <= Len(all) BY <1>1, <1>9, <2>2
      <4> QED BY <1>6, <1>10, <4>1
    <3> QED BY <1>2, <1>7, <1>9, <2>2, <3>1 DEF FollowedUp
  <2>3. CASE \E k \in 1 .. m : i = L + 1 + k
    <3>1. all[i].role = "tool" BY <1>12, <2>3
    <3> QED BY <3>1 DEF FollowedUp
  <2> QED BY <1>13, <2>1, <2>2, <2>3
<1>15. ASSUME NEW i \in 1 .. Len(all), all[i].role = "tool" PROVE all[i].id[1] < r + 1
  <2>1. CASE i \in 1 .. L
    <3>1. ms[i].role = "tool" /\ all[i] = ms[i] BY <1>9, <1>15, <2>1
    <3>2. ms[i].id[1] < r BY <2>1, <3>1 DEF Conversation
    <3>3. ms[i] \in Turns BY <1>1, <2>1, ElementOfSeq
    <3>4. ms[i] \in ToolTurns BY <3>1, <3>3 DEF Turns, AssistantTurns
    <3>5. ms[i].id[1] \in Nat BY <3>4 DEF ToolTurns, Ids
    <3> QED BY <3>1, <3>2, <3>5
  <2>2. CASE i = L + 1 BY <1>7, <1>9, <1>15, <2>2
  <2>3. CASE \E k \in 1 .. m : i = L + 1 + k
    <3>1. PICK k \in 1 .. m : i = L + 1 + k BY <2>3
    <3>2. all[i].id = <<r, k>> BY <1>12, <3>1
    <3> QED BY <3>2
  <2> QED BY <1>13, <2>1, <2>2, <2>3
<1>16. Results(all) = Results(ms) \cup (L + 2 .. L + 1 + m)
  <2>1. ASSUME NEW i \in Results(all) PROVE i \in Results(ms) \cup (L + 2 .. L + 1 + m)
    <3>1. i \in 1 .. Len(all) /\ all[i].role = "tool" BY <2>1 DEF Results
    <3>2. CASE i \in 1 .. L BY <1>9, <3>1, <3>2 DEF Results
    <3>3. CASE i = L + 1 BY <1>7, <1>9, <3>1, <3>3
    <3>4. CASE \E k \in 1 .. m : i = L + 1 + k BY <1>1, <3>4
    <3> QED BY <1>13, <3>1, <3>2, <3>3, <3>4
  <2>2. ASSUME NEW i \in Results(ms) PROVE i \in Results(all)
    <3>1. i \in 1 .. L /\ ms[i].role = "tool" BY <2>2 DEF Results
    <3> QED BY <1>1, <1>9, <3>1 DEF Results
  <2>3. ASSUME NEW i \in L + 2 .. L + 1 + m PROVE i \in Results(all)
    <3>1. i - (L + 1) \in 1 .. m /\ i = L + 1 + (i - (L + 1)) /\ i \in 1 .. Len(all) BY <1>1, <1>9
    <3>2. all[i].role = "tool" BY <1>12, <3>1
    <3> QED BY <3>1, <3>2 DEF Results
  <2> QED BY <2>1, <2>2, <2>3
<1>17. Cardinality(Results(all)) = n + m
  <2> DEFINE A == Results(ms)
             N == L + 2 .. L + 1 + m
  <2>1. A \subseteq 1 .. L BY DEF Results
  <2>2. L \in Int /\ L + 2 \in Int /\ L + 1 + m \in Int BY <1>1
  <2>3. Cardinality(A) = n BY DEF Conversation
  <2>4. A \cap N = {} BY <1>1, <2>1
  <2>5. IsFiniteSet(A)
    <3>1. IsFiniteSet(1 .. L) BY <2>2, FS_Interval
    <3> QED BY <2>1, <3>1, FS_Subset
  <2> HIDE DEF A
  <2>6. IsFiniteSet(N) /\ Cardinality(N) = m
    <3>1. IsFiniteSet(N) /\ Cardinality(N) = IF L + 2 > L + 1 + m THEN 0 ELSE (L + 1 + m) - (L + 2) + 1
      <4> HIDE DEF L, m
      <4> QED BY <2>2, FS_Interval
    <3> QED BY <1>1, <3>1
  <2> HIDE DEF N, m
  <2>7. Cardinality(A \cap N) = 0 BY <2>4, FS_EmptySet
  <2>8. Cardinality(A \cup N) = Cardinality(A) + Cardinality(N) - Cardinality(A \cap N)
    BY <2>5, <2>6, FS_Union
  <2>9. Cardinality(A \cup N) = n + m BY <1>1, <2>3, <2>6, <2>7, <2>8
  <2> QED BY <1>16, <2>9 DEF A, N
<1> QED BY <1>9, <1>14, <1>15, <1>17 DEF Conversation, all, front, res, Turns

-----------------------------------------------------------------------------
(* The client's stream, before it is closed and after, when its usage is   *)
(* u.                                                                      *)
Kinds == {"delta", "finish", "calls", "usage", "done"}
Events == Seq([kind : Kinds, usage : Nat])

Open(evs, u) ==
  /\ evs \in Events
  /\ \A i \in 1 .. Len(evs) : evs[i].kind # "done" /\ evs[i].usage \in {0, u}
Closed(evs, u) ==
  /\ evs \in Events
  /\ {i \in 1 .. Len(evs) : evs[i].kind = "done"} = {Len(evs)}
  /\ \A i \in 1 .. Len(evs) : evs[i].usage \in {0, u}
Shows(evs) == \E i \in 1 .. Len(evs) : evs[i].kind = "delta"

(* Before the reply is over the client has seen nothing, or deltas.        *)
Started == {<<>>, <<Event("delta", 0)>>}

(* The loop's inductive invariant.                                         *)
LoopTyped ==
  /\ mode \in {"json", "stream"} /\ pc \in {"asking", "regen", "done"}
  /\ round \in 0 .. MaxRounds /\ (pc # "done" => round < MaxRounds)
  /\ reply \in [content : Texts, reasoning : BOOLEAN, calls : Seq(Tools)]
  /\ Size(reply) <= MaxReply
  /\ gate \in Gates /\ shown \in Texts
  /\ executed \in 0 .. round * MaxReply
  /\ status \in {"none", "200", "502"} /\ total \in Nat /\ reported \in Nat
  /\ prior.kind \in {"none", "final"}

(* While the backend is asked: nothing is answered yet, the JSON driver    *)
(* has sent nothing, and the streaming driver what the gate forwarded.     *)
Asking ==
  /\ answer = NoAnswer
  /\ pc = "regen" => mode = "json" /\ prior.kind = "final"
  /\ mode = "json" => /\ events = <<>> /\ status = "none"
                      /\ gate = NewGate /\ shown = <<>>
  /\ mode = "stream" => /\ Held(gate, shown, reply.content)
                        /\ total = reported /\ events \in Started
                        /\ status = "200" <=> events # <<>>
                        /\ shown # <<>> \/ reply.reasoning => events # <<>>

(* When it is over: the answer is complete and the gate was faithful.      *)
Settled ==
  /\ NoEmptySuccess /\ StreamTerminated /\ UsageIsSum /\ GateFaithful
  /\ answer.kind = "calls" => \A k \in 1 .. Len(answer.calls) : answer.calls[k].id = <<round, k>>

LoopIInv ==
  /\ LoopTyped
  /\ Conversation(messages, round, executed)
  /\ DriversAgree
  /\ pc # "done" => Asking
  /\ pc = "done" => Settled

-----------------------------------------------------------------------------
LEMMA Sends ==
  ASSUME NEW u \in Nat, NEW evs, Open(evs, u),
         NEW kind \in Kinds \ {"done"}, NEW usage \in {0, u}
  PROVE  /\ Open(Append(evs, Event(kind, usage)), u)
         /\ Shows(evs) => Shows(Append(evs, Event(kind, usage)))
<1> DEFINE e == Event(kind, usage)
           more == Append(evs, e)
           E == [kind : Kinds, usage : Nat]
<1>1. e \in E /\ e.kind = kind /\ e.usage = usage BY DEF Event
<1>2. evs \in Seq(E) BY DEF Open, Events
<1> HIDE DEF e, E
<1>3. /\ more \in Seq(E) /\ Len(more) = Len(evs) + 1 /\ more[Len(evs) + 1] = e
      /\ \A i \in 1 .. Len(evs) : more[i] = evs[i]
  BY <1>1, <1>2
<1>4. Len(evs) \in Nat BY <1>2
<1> HIDE DEF more
<1>5. \A i \in 1 .. Len(more) : i \in 1 .. Len(evs) \/ i = Len(evs) + 1 BY <1>3, <1>4
<1>6. \A i \in 1 .. Len(more) : more[i].kind # "done" /\ more[i].usage \in {0, u}
  BY <1>1, <1>3, <1>5 DEF Open
<1>7. Shows(evs) => Shows(more)
  <2>1. \A i \in 1 .. Len(evs) : i \in 1 .. Len(more) BY <1>3, <1>4
  <2> QED BY <1>3, <2>1 DEF Shows
<1>8. more \in Events BY <1>3 DEF Events, E
<1> QED BY <1>6, <1>7, <1>8 DEF Open, more, e

LEMMA Closes ==
  ASSUME NEW u \in Nat, NEW evs, Open(evs, u)
  PROVE  Closed(Done(evs), u) /\ (Shows(evs) => Shows(Done(evs)))
<1> DEFINE e == Event("done", 0)
           more == Append(evs, e)
           E == [kind : Kinds, usage : Nat]
<1>1. e \in E /\ e.kind = "done" /\ e.usage = 0 BY DEF Event, Kinds
<1>2. evs \in Seq(E) BY DEF Open, Events
<1> HIDE DEF e, E
<1>3. /\ more \in Seq(E) /\ Len(more) = Len(evs) + 1 /\ more[Len(evs) + 1] = e
      /\ \A i \in 1 .. Len(evs) : more[i] = evs[i]
  BY <1>1, <1>2
<1>4. Len(evs) \in Nat BY <1>2
<1> HIDE DEF more
<1>5. \A i \in 1 .. Len(more) : i \in 1 .. Len(evs) \/ i = Len(evs) + 1 BY <1>3, <1>4
<1>6. Len(more) \in 1 .. Len(more) BY <1>3, <1>4
<1>7. {i \in 1 .. Len(more) : more[i].kind = "done"} = {Len(more)}
  <2>1. \A i \in 1 .. Len(evs) : more[i].kind # "done" BY <1>3 DEF Open
  <2>2. \A i \in 1 .. Len(more) : more[i].kind = "done" <=> i = Len(more)
    BY <1>1, <1>3, <1>4, <1>5, <2>1
  <2> QED BY <1>6, <2>2
<1>8. \A i \in 1 .. Len(more) : more[i].usage \in {0, u} BY <1>1, <1>3, <1>5 DEF Open
<1>9. Shows(evs) => Shows(more)
  <2>1. \A i \in 1 .. Len(evs) : i \in 1 .. Len(more) BY <1>3, <1>4
  <2> QED BY <1>3, <2>1 DEF Shows
<1>10. more \in Events BY <1>3 DEF Events, E
<1>11. Closed(more, u) BY <1>7, <1>8, <1>10 DEF Closed
<1> QED BY <1>9, <1>11 DEF more, e, Done

(* Deltas in a row are one event.                                          *)
LEMMA StartedFacts ==
  ASSUME NEW evs \in Started, NEW u \in Nat
  PROVE  /\ Open(evs, u) /\ (evs # <<>> => Shows(evs))
         /\ Delta(evs) \in Started \ {<<>>}
         /\ \A some \in BOOLEAN : DeltaIf(some, evs) = IF some THEN Delta(evs) ELSE evs
<1> DEFINE e == Event("delta", 0)
           one == <<e>>
<1>1. e.kind = "delta" /\ e.usage = 0 /\ e \in [kind : Kinds, usage : Nat] BY DEF Event, Kinds
<1> HIDE DEF e
<1>2. one \in Events /\ Len(one) = 1 /\ one[1] = e /\ one # <<>> BY <1>1 DEF Events
<1>3. Last(one) = e BY <1>2 DEF Last
<1>4. Append(<<>>, e) = one OBVIOUS
<1>5. <<>> \in Events /\ Len(<<>>) = 0 BY DEF Events
<1> HIDE DEF one
<1>6. Delta(<<>>) = one BY <1>4 DEF Delta, e
<1>7. Delta(one) = one BY <1>1, <1>2, <1>3 DEF Delta
<1>8. evs = <<>> \/ evs = one BY DEF Started, one, e
<1>9. one \in Started BY DEF Started, one, e
<1>10. Open(one, u) /\ Shows(one) BY <1>1, <1>2 DEF Open, Shows
<1>11. Open(<<>>, u) BY <1>5 DEF Open
<1> QED BY <1>2, <1>6, <1>7, <1>8, <1>9, <1>10, <1>11 DEF DeltaIf

LEMMA StartedIf ==
  ASSUME NEW evs \in Started, NEW some \in BOOLEAN
  PROVE  /\ DeltaIf(some, evs) \in Started
         /\ DeltaIf(some, evs) # <<>> <=> some \/ evs # <<>>
BY StartedFacts DEF DeltaIf

(* The backend's terminal chunks close the stream, whatever they are.      *)
LEMMA FinishCloses ==
  ASSUME total' \in Nat, NEW evs, Open(evs, total'),
         NEW finish, NEW usage \in Nat, NEW nullUsage \in BOOLEAN
  PROVE  /\ Closed(FinishStream(evs, finish, usage, nullUsage), total')
         /\ Shows(evs) => Shows(FinishStream(evs, finish, usage, nullUsage))
<1> DEFINE finished ==
             CASE finish # "" -> Append(evs, Event("finish", IF nullUsage THEN total' ELSE 0))
               [] finish = "" /\ usage > 0 -> evs
               [] OTHER -> Append(evs, Event("finish", 0))
           sent == usage > 0 \/ (finish # "" /\ nullUsage)
           replayed == UsageIf(usage > 0, finished)
           last == UsageIf(~sent /\ total' > 0, replayed)
<1>1. \A k \in {"finish", "usage"} : k \in Kinds \ {"done"} BY DEF Kinds
<1>2. Open(finished, total') /\ (Shows(evs) => Shows(finished))
  <2>1. CASE finish # ""
    <3>1. (IF nullUsage THEN total' ELSE 0) \in {0, total'} OBVIOUS
    <3>2. finished = Append(evs, Event("finish", IF nullUsage THEN total' ELSE 0)) BY <2>1
    <3> HIDE DEF finished
    <3> QED BY <1>1, <3>1, <3>2, Sends
  <2>2. CASE finish = "" /\ usage > 0 BY <2>2
  <2>3. CASE finish = "" /\ ~(usage > 0)
    <3>1. finished = Append(evs, Event("finish", 0)) BY <2>3
    <3> HIDE DEF finished
    <3> QED BY <1>1, <3>1, Sends
  <2> QED BY <2>1, <2>2, <2>3
<1> HIDE DEF finished
<1>3. Open(replayed, total') /\ (Shows(evs) => Shows(replayed))
  BY <1>1, <1>2, Sends DEF UsageIf
<1> HIDE DEF replayed
<1>4. Open(last, total') /\ (Shows(evs) => Shows(last))
  BY <1>1, <1>3, Sends DEF UsageIf
<1> HIDE DEF last
<1>5. Closed(Done(last), total') /\ (Shows(last) => Shows(Done(last))) BY <1>4, Closes
<1>6. FinishStream(evs, finish, usage, nullUsage) = Done(last)
  BY DEF FinishStream, last, replayed, sent, finished
<1> QED BY <1>4, <1>5, <1>6

-----------------------------------------------------------------------------
LEMMA Counting ==
  ASSUME NEW r \in Nat, NEW n \in 0 .. r * MaxReply, NEW k \in 0 .. MaxReply
  PROVE  n + k \in 0 .. (r + 1) * MaxReply
<1>1. MaxReply \in Nat BY LoopAssumption
<1>2. r * MaxReply \in Nat BY <1>1
<1>3. (r + 1) * MaxReply = r * MaxReply + MaxReply BY <1>1
<1> HIDE DEF LoopAssumption
<1> QED BY <1>1, <1>2, <1>3

LEMMA SizeFacts ==
  ASSUME NEW r \in [content : Texts, reasoning : BOOLEAN, calls : Seq(Tools)]
  PROVE  /\ Len(r.content) \in Nat /\ Len(r.calls) \in Nat /\ Size(r) \in Nat
         /\ Len(r.content) <= Size(r) /\ Len(r.calls) <= Size(r)
BY DEF Size, Texts

(* A reply that has grown.                                                 *)
LEMMA SizeGrows ==
  ASSUME NEW r \in [content : Texts, reasoning : BOOLEAN, calls : Seq(Tools)],
         NEW s \in [content : Texts, reasoning : BOOLEAN, calls : Seq(Tools)],
         NEW n \in Nat, NEW k \in Nat, r.reasoning => s.reasoning,
         Len(s.content) = Len(r.content) + n, Len(s.calls) = Len(r.calls) + k
  PROVE  /\ Size(s) = Size(r) + n + k + (IF s.reasoning /\ ~r.reasoning THEN 1 ELSE 0)
         /\ Size(r) \in Nat
<1>1. /\ Len(r.content) \in Nat /\ Len(r.calls) \in Nat /\ Len(s.content) \in Nat
      /\ Len(s.calls) \in Nat /\ Size(r) \in Nat
  BY SizeFacts
<1>2. /\ Size(r) = Len(r.content) + Len(r.calls) + (IF r.reasoning THEN 1 ELSE 0)
      /\ Size(s) = Len(s.content) + Len(s.calls) + (IF s.reasoning THEN 1 ELSE 0)
  BY DEF Size
<1>3. CASE r.reasoning BY <1>1, <1>2, <1>3
<1>4. CASE ~r.reasoning BY <1>1, <1>2, <1>4
<1> QED BY <1>3, <1>4

LEMMA TextGrows ==
  ASSUME NEW r \in [content : Texts, reasoning : BOOLEAN, calls : Seq(Tools)],
         NEW s \in [content : Texts, reasoning : BOOLEAN, calls : Seq(Tools)],
         NEW n \in Nat, Len(s.content) = Len(r.content) + n,
         s.reasoning = r.reasoning, s.calls = r.calls
  PROVE  Size(s) = Size(r) + n
BY SizeFacts DEF Size

LEMMA NewReplyTyped ==
  /\ NewReply \in [content : Texts, reasoning : BOOLEAN, calls : Seq(Tools)]
  /\ Size(NewReply) = 0 /\ NewReply.content = <<>> /\ ~NewReply.reasoning
<1>1. <<>> \in Texts /\ Len(<<>>) = 0 /\ <<>> \in Seq(Tools) BY DEF Texts
<1>2. NewReply.content = <<>> /\ NewReply.reasoning = FALSE /\ NewReply.calls = <<>>
      /\ NewReply \in [content : Texts, reasoning : BOOLEAN, calls : Seq(Tools)]
  BY <1>1 DEF NewReply
<1> QED BY <1>1, <1>2 DEF Size

(* Both drivers read the calls of the whole reply.                         *)
LEMMA CallsRead ==
  ASSUME LoopTyped, DriversAgree
  PROVE  /\ CallsOf = ExtractToolCalls(reply.calls, reply.content)
         /\ CallsOf \in Seq(Tools) /\ Len(CallsOf) \in 0 .. MaxReply
<1>1. reply.content \in Texts /\ reply.calls \in Seq(Tools) /\ MaxReply \in Nat
  BY LoopAssumption DEF LoopTyped
<1>2. Len(reply.content) <= MaxReply /\ Len(reply.calls) <= MaxReply
  BY <1>1, SizeFacts DEF LoopTyped
<1>3. CallsOf = ExtractToolCalls(reply.calls, reply.content)
  <2>1. mode \in {"json", "stream"} BY DEF LoopTyped
  <2> QED BY <2>1 DEF CallsOf, ExtractToolCalls, DriversAgree
<1>4. /\ ExtractToolCallsFromContent(reply.content) \in Seq(Tools)
      /\ Len(ExtractToolCallsFromContent(reply.content)) <= 1
      /\ ExtractToolCallsFromContent(reply.content) # <<>> => Len(reply.content) >= 1
  BY <1>1, CallsInText
<1>5. ExtractToolCalls(reply.calls, reply.content) \in Seq(Tools) BY <1>1, <1>4 DEF ExtractToolCalls
<1>6. Len(ExtractToolCallsFromContent(reply.content)) <= MaxReply
  <2>1. CASE ExtractToolCallsFromContent(reply.content) = <<>> BY <1>1, <2>1
  <2>2. CASE ExtractToolCallsFromContent(reply.content) # <<>>
    <3>1. Len(reply.content) >= 1 /\ Len(reply.content) \in Nat BY <1>1, <1>4, <2>2 DEF Texts
    <3>2. Len(ExtractToolCallsFromContent(reply.content)) \in Nat BY <1>4
    <3> QED BY <1>1, <1>2, <1>4, <3>1, <3>2
  <2> QED BY <2>1, <2>2
<1>7. Len(ExtractToolCalls(reply.calls, reply.content)) <= MaxReply BY <1>2, <1>6 DEF ExtractToolCalls
<1> QED BY <1>1, <1>3, <1>5, <1>7

(* What is left without the call, and without the thinking.                *)
LEMMA NothingToClean == CleanContent(<<>>) = {}
<1>1. <<>> \in Texts /\ Len(<<>>) = 0 BY DEF Texts
<1>2. BlockEnds(<<>>) = {} BY <1>1, EndsOfBlock
<1> QED BY <1>2 DEF CleanContent, StripToolCallTags, ToSet

-----------------------------------------------------------------------------
LEMMA LoopInitInv == LoopInit => LoopIInv
<1> SUFFICES ASSUME LoopInit PROVE LoopIInv OBVIOUS
<1> USE DEF LoopInit
<1>1. 0 \in 0 .. MaxRounds /\ 0 < MaxRounds /\ 0 \in 0 .. 0 * MaxReply /\ MaxReply \in Nat
  BY LoopAssumption
<1>2. NewGate \in Gates /\ Held(NewGate, <<>>, <<>>) BY NewGateHeld
<1>3. LoopTyped
  <2>1. prior.kind = "none" BY DEF NoAnswer
  <2>2. <<>> \in Texts BY DEF Texts
  <2> QED BY <1>1, <1>2, <2>1, <2>2, NewReplyTyped DEF LoopTyped
<1>4. Conversation(messages, round, executed)
  <2>1. Results(<<>>) = {} BY DEF Results
  <2>2. Len(<<>>) = 0 /\ <<>> \in Seq(AssistantTurns \cup ToolTurns) OBVIOUS
  <2>3. \A i \in 1 .. Len(<<>>) : FALSE BY <2>2
  <2>4. Cardinality(Results(<<>>)) = 0 BY <2>1, FS_EmptySet
  <2> QED BY <2>2, <2>3, <2>4 DEF Conversation
<1>5. DriversAgree
  <2>1. gate.captured = <<>> /\ reply.content = <<>> BY NewReplyTyped DEF NewGate
  <2> QED BY <2>1 DEF DriversAgree
<1>6. Asking BY <1>2, NewReplyTyped DEF Asking, Started
<1> QED BY <1>3, <1>4, <1>5, <1>6 DEF LoopIInv

-----------------------------------------------------------------------------
LEMMA DeltaTyped == \A text \in Deltas : text \in Texts /\ Len(text) \in Nat
<1> SUFFICES ASSUME NEW text \in Deltas PROVE text \in Texts /\ Len(text) \in Nat OBVIOUS
<1>1. CASE text = Tag BY <1>1, TagFacts
<1>2. CASE text # Tag
  <2>1. PICK t \in ToSet(Tag) \cup Closers \cup {Think, Word} : text = <<t>> BY <1>2 DEF Deltas
  <2>2. t \in Tokens BY DEF Tokens
  <2> QED BY <2>1, <2>2 DEF Texts
<1> QED BY <1>1, <1>2

LEMMA SayInv ==
  ASSUME LoopIInv, NEW text \in Deltas, Say(text)
  PROVE  LoopIInv'
<1> DEFINE more == reply.content \o text
<1>1. /\ LoopTyped /\ Conversation(messages, round, executed) /\ DriversAgree /\ Asking
      /\ pc # "done"
  BY DEF LoopIInv, Say
<1>2. /\ pc' = pc /\ mode' = mode /\ round' = round /\ messages' = messages /\ executed' = executed
      /\ total' = total /\ prior' = prior /\ answer' = answer /\ reported' = reported
      /\ reply' = [reply EXCEPT !.content = more]
  BY DEF Say
<1>3. text \in Texts /\ Len(text) \in Nat BY DeltaTyped
<1>4. reply.content \in Texts /\ gate \in Gates /\ shown \in Texts /\ events = events
  BY <1>1 DEF LoopTyped
<1>5. more \in Texts /\ Len(more) = Len(reply.content) + Len(text) BY <1>3, <1>4 DEF Texts
<1> HIDE DEF more
<1>6. /\ reply' \in [content : Texts, reasoning : BOOLEAN, calls : Seq(Tools)]
      /\ Size(reply') <= MaxReply
      /\ reply'.content = more /\ reply'.reasoning = reply.reasoning
  <2>1. reply \in [content : Texts, reasoning : BOOLEAN, calls : Seq(Tools)] BY <1>1 DEF LoopTyped
  <2>2. /\ reply' \in [content : Texts, reasoning : BOOLEAN, calls : Seq(Tools)]
        /\ reply'.content = more /\ reply'.reasoning = reply.reasoning /\ reply'.calls = reply.calls
    BY <1>2, <1>5, <2>1
  <2>3. Len(reply.content) \in Nat /\ Len(reply.calls) \in Nat BY <2>1, SizeFacts
  <2>4. Size(reply) + Len(text) <= MaxReply BY DEF Say
  <2>5. Len(reply'.content) = Len(reply.content) + Len(text) BY <1>5, <2>2
  <2>6. Size(reply') = Size(reply) + Len(text)
    <3>1. reply' \in [content : Texts, reasoning : BOOLEAN, calls : Seq(Tools)] BY <2>2
    <3> QED BY <1>3, <2>1, <2>2, <2>5, <3>1, TextGrows
  <2> QED BY <1>3, <2>2, <2>4, <2>6
<1>7. CASE mode = "json"
  <2>1. gate' = gate /\ shown' = shown /\ events' = events /\ status' = status BY <1>7 DEF Say
  <2>2. LoopTyped' BY <1>1, <1>2, <1>6, <2>1 DEF LoopTyped
  <2>3. Asking' BY <1>1, <1>2, <1>7, <2>1 DEF Asking
  <2>4. DriversAgree' BY <1>2, <1>7 DEF DriversAgree
  <2> QED BY <1>1, <1>2, <2>2, <2>3, <2>4 DEF LoopIInv
<1>8. CASE mode = "stream"
  <2> DEFINE p == Push(gate, text)
             sh == shown \o p.out
  <2>1. Held(gate, shown, reply.content) /\ events \in Started /\ total = reported
        /\ (status = "200" <=> events # <<>>) /\ (shown # <<>> \/ reply.reasoning => events # <<>>)
    BY <1>1, <1>8 DEF Asking
  <2>2. p.gate \in Gates /\ p.out \in Texts /\ Held(p.gate, sh, more)
    BY <1>3, <1>4, <2>1, PushGood DEF more
  <2>3. /\ gate' = p.gate /\ shown' = sh /\ events' = DeltaIf(p.out # <<>>, events)
        /\ status' = IF p.out # <<>> THEN "200" ELSE status
    BY <1>8 DEF Say
  <2> HIDE DEF p
  <2>4. sh \in Texts /\ (sh # <<>> => shown # <<>> \/ p.out # <<>>) BY <1>4, <2>2 DEF Texts
  <2> HIDE DEF sh
  <2>5. events' \in Started /\ (events' # <<>> <=> (p.out # <<>>) \/ events # <<>>)
    BY <2>1, <2>3, StartedIf
  <2>6. LoopTyped'
    <3>1. status' \in {"none", "200", "502"} BY <1>1, <2>3 DEF LoopTyped
    <3> QED BY <1>1, <1>2, <1>6, <2>2, <2>3, <2>4, <3>1 DEF LoopTyped
  <2>7. Held(gate', shown', reply'.content) BY <1>6, <2>2, <2>3
  <2>8. shown' # <<>> \/ reply'.reasoning => events' # <<>> BY <1>6, <2>1, <2>3, <2>4, <2>5
  <2>9. status' = "200" <=> events' # <<>> BY <2>1, <2>3, <2>5
  <2>10. Asking' BY <1>1, <1>2, <1>8, <2>1, <2>5, <2>7, <2>8, <2>9 DEF Asking
  <2>11. DriversAgree'
    <3>1. gate' \in Gates /\ shown' \in Texts /\ reply'.content \in Texts BY <1>5, <1>6, <2>2, <2>3, <2>4
    <3> QED BY <2>7, <3>1, CapturedCalls DEF DriversAgree
  <2> QED BY <1>1, <1>2, <2>6, <2>10, <2>11 DEF LoopIInv
<1> QED BY <1>1, <1>7, <1>8 DEF LoopTyped

LEMMA ReasonInv ==
  ASSUME LoopIInv, Reason
  PROVE  LoopIInv'
<1>1. /\ LoopTyped /\ Conversation(messages, round, executed) /\ DriversAgree /\ Asking
      /\ pc # "done"
  BY DEF LoopIInv, Reason
<1>2. /\ pc' = pc /\ mode' = mode /\ round' = round /\ messages' = messages /\ executed' = executed
      /\ total' = total /\ prior' = prior /\ answer' = answer /\ reported' = reported
      /\ gate' = gate /\ shown' = shown
      /\ reply' = [reply EXCEPT !.reasoning = TRUE]
  BY DEF Reason
<1>3. /\ reply' \in [content : Texts, reasoning : BOOLEAN, calls : Seq(Tools)]
      /\ Size(reply') <= MaxReply
      /\ reply'.content = reply.content
  <2>1. reply \in [content : Texts, reasoning : BOOLEAN, calls : Seq(Tools)] BY <1>1 DEF LoopTyped
  <2>2. /\ reply' \in [content : Texts, reasoning : BOOLEAN, calls : Seq(Tools)]
        /\ reply'.content = reply.content /\ reply'.reasoning /\ reply'.calls = reply.calls
    BY <1>2, <2>1
  <2>3. Len(reply.content) \in Nat /\ Len(reply.calls) \in Nat /\ MaxReply \in Nat
    BY <2>1, SizeFacts, LoopAssumption
  <2>4. Size(reply) < MaxReply /\ ~reply.reasoning BY DEF Reason
  <2>5. Size(reply') = Size(reply) + 0 + 0 + 1 /\ Size(reply) \in Nat
    BY <2>1, <2>2, <2>3, <2>4, SizeGrows
  <2> QED BY <2>2, <2>3, <2>4, <2>5
<1>4. status' \in {"none", "200", "502"} BY <1>1 DEF Reason, LoopTyped
<1>5. LoopTyped' BY <1>1, <1>2, <1>3, <1>4 DEF LoopTyped
<1>6. DriversAgree' BY <1>1, <1>2, <1>3 DEF DriversAgree
<1>7. CASE mode = "json"
  <2>1. events' = events /\ status' = status BY <1>7 DEF Reason
  <2>2. Asking' BY <1>1, <1>2, <1>7, <2>1 DEF Asking
  <2> QED BY <1>1, <1>2, <1>5, <1>6, <2>2 DEF LoopIInv
<1>8. CASE mode = "stream"
  <2>1. Held(gate', shown', reply'.content) /\ events \in Started BY <1>1, <1>2, <1>3, <1>8 DEF Asking
  <2>2. events' = Delta(events) /\ status' = "200" BY <1>8 DEF Reason
  <2>3. events' \in Started /\ events' # <<>>
    <3>1. 0 \in Nat OBVIOUS
    <3> QED BY <2>1, <2>2, <3>1, StartedFacts
  <2>4. Asking' BY <1>1, <1>2, <1>8, <2>1, <2>2, <2>3 DEF Asking
  <2> QED BY <1>1, <1>2, <1>5, <1>6, <2>4 DEF LoopIInv
<1> QED BY <1>1, <1>7, <1>8 DEF LoopTyped

LEMMA CallToolInv ==
  ASSUME LoopIInv, NEW name \in Tools, CallTool(name)
  PROVE  LoopIInv'
<1>1. /\ LoopTyped /\ Conversation(messages, round, executed) /\ DriversAgree /\ Asking
      /\ pc # "done"
  BY DEF LoopIInv, CallTool
<1>2. /\ pc' = pc /\ mode' = mode /\ round' = round /\ messages' = messages /\ executed' = executed
      /\ total' = total /\ prior' = prior /\ answer' = answer /\ reported' = reported
      /\ gate' = gate /\ shown' = shown /\ status' = status /\ events' = events
      /\ reply' = [reply EXCEPT !.calls = Append(reply.calls, name)]
  BY DEF CallTool
<1>3. /\ reply' \in [content : Texts, reasoning : BOOLEAN, calls : Seq(Tools)]
      /\ Size(reply') <= MaxReply
      /\ reply'.content = reply.content /\ reply'.reasoning = reply.reasoning
  <2>1. reply \in [content : Texts, reasoning : BOOLEAN, calls : Seq(Tools)] BY <1>1 DEF LoopTyped
  <2>2. Append(reply.calls, name) \in Seq(Tools) /\ Len(Append(reply.calls, name)) = Len(reply.calls) + 1
    BY <2>1
  <2>3. /\ reply' \in [content : Texts, reasoning : BOOLEAN, calls : Seq(Tools)]
        /\ reply'.content = reply.content /\ reply'.reasoning = reply.reasoning
        /\ reply'.calls = Append(reply.calls, name)
    BY <1>2, <2>1, <2>2
  <2>4. Len(reply.content) \in Nat /\ Len(reply.calls) \in Nat /\ MaxReply \in Nat
    BY <2>1, SizeFacts, LoopAssumption
  <2>5. Size(reply) < MaxReply BY DEF CallTool
  <2>6. Size(reply') = Size(reply) + 0 + 1 + 0 /\ Size(reply) \in Nat
    BY <2>1, <2>2, <2>3, <2>4, SizeGrows
  <2> QED BY <2>3, <2>4, <2>5, <2>6
<1>4. LoopTyped' BY <1>1, <1>2, <1>3 DEF LoopTyped
<1>5. DriversAgree' BY <1>1, <1>2, <1>3 DEF DriversAgree
<1>6. Asking' BY <1>1, <1>2, <1>3 DEF Asking
<1> QED BY <1>1, <1>2, <1>4, <1>5, <1>6 DEF LoopIInv

-----------------------------------------------------------------------------
(* What a driver knows when the reply is over.                             *)
LEMMA RoundFacts ==
  ASSUME LoopIInv, pc = "asking"
  PROVE  /\ LoopTyped /\ Conversation(messages, round, executed) /\ DriversAgree /\ Asking
         /\ round \in Nat /\ round + 1 \in 0 .. MaxRounds
         /\ gate \in Gates /\ shown \in Texts /\ mode \in {"json", "stream"}
         /\ total \in Nat /\ reported \in Nat
         /\ CallsOf \in Seq(Tools) /\ Len(CallsOf) \in 0 .. MaxReply
         /\ Flushed(CallsOf) \in Texts /\ Flushed(<<>>) \in Texts
<1>1. LoopTyped /\ Conversation(messages, round, executed) /\ DriversAgree /\ Asking
  BY DEF LoopIInv
<1>2. /\ round \in 0 .. MaxRounds /\ round < MaxRounds /\ gate \in Gates /\ shown \in Texts
      /\ mode \in {"json", "stream"} /\ total \in Nat /\ reported \in Nat
  BY <1>1 DEF LoopTyped
<1>3. MaxRounds \in Nat BY LoopAssumption
<1>4. CallsOf \in Seq(Tools) /\ Len(CallsOf) \in 0 .. MaxReply BY <1>1, CallsRead
<1>5. gate.pending \in Texts /\ gate.captured \in Texts /\ <<>> \in Texts BY <1>2 DEF Gates, Texts
<1>6. \A s \in Texts, t \in Texts : s \o t \in Texts BY DEF Texts
<1>7. \A c : Flushed(c) \in Texts BY <1>2, <1>5, <1>6 DEF Flushed
<1> QED BY <1>1, <1>2, <1>3, <1>4, <1>7

LEMMA UsageSends ==
  ASSUME total' \in Nat, NEW evs, Open(evs, total'), NEW some \in BOOLEAN
  PROVE  Open(UsageIf(some, evs), total')
<1>1. "usage" \in Kinds \ {"done"} BY DEF Kinds
<1> QED BY <1>1, Sends DEF UsageIf

LEMMA Terminated ==
  ASSUME mode' = "stream", Closed(events', reported'), status' = "200", pc' = "done"
  PROVE  StreamTerminated' /\ UsageIsSum'
BY DEF StreamTerminated, UsageIsSum, Closed

LEMMA Unopened ==
  ASSUME mode' = "json" \/ status' = "502", events' = <<>>
  PROVE  StreamTerminated' /\ UsageIsSum'
<1>1. \A i \in 1 .. Len(events') : FALSE OBVIOUS
<1> QED BY <1>1 DEF StreamTerminated, UsageIsSum

LEMMA RunToolsInv ==
  ASSUME LoopIInv, NEW usage \in {0, 1}, RunTools(usage), reported' = reported + usage
  PROVE  LoopIInv'
<1> DEFINE calls == CallsOf
           text == Flushed(calls)
           n == Len(calls)
<1>1. pc = "asking" /\ calls # <<>> /\ AllProxy(calls) /\ mode' = mode /\ prior' = prior
  BY DEF RunTools
<1>2. /\ LoopTyped /\ Conversation(messages, round, executed) /\ DriversAgree /\ Asking
      /\ round \in Nat /\ round + 1 \in 0 .. MaxRounds
      /\ gate \in Gates /\ shown \in Texts /\ mode \in {"json", "stream"}
      /\ total \in Nat /\ reported \in Nat
      /\ calls \in Seq(Tools) /\ n \in 0 .. MaxReply /\ text \in Texts
  BY <1>1, RoundFacts
<1>3. round' = round + 1 /\ executed' = executed + n BY DEF RunTools
<1>4. total' \in Nat /\ reported' \in Nat /\ (mode = "stream" => total' = total + usage)
  BY <1>2 DEF RunTools, AddUsage
<1>5. Conversation(messages', round', executed')
  <2>1. PICK failed \in SUBSET (1 .. n) :
          messages' = messages \o <<AssistantTurn(calls)>> \o ExecuteProxyCalls(calls, failed)
    BY DEF RunTools
  <2>2. AssistantTurn(calls)
          = [role |-> "assistant", thinks |-> FALSE, calls |-> BatchOf(round, calls)]
    <3>1. (Think \in CleanContent(reply.content)) = FALSE BY DEF CleanContent
    <3>2. Batch(calls) = BatchOf(round, calls) BY DEF Batch, BatchOf
    <3> HIDE DEF calls
    <3> QED BY <3>1, <3>2 DEF AssistantTurn
  <2>3. ExecuteProxyCalls(calls, failed) = ResultsOf(round, n) BY DEF ExecuteProxyCalls, ResultsOf
  <2>4. \A k \in 1 .. n : calls[k] \in ProxyTools BY <1>1 DEF AllProxy
  <2>5. executed \in Nat BY <1>2 DEF Conversation, LoopTyped
  <2> HIDE DEF calls, n
  <2>6. Conversation(messages \o <<AssistantTurn(calls)>> \o ResultsOf(round, Len(calls)),
                     round + 1, executed + Len(calls))
    BY <1>2, <2>2, <2>4, <2>5, Continued DEF n
  <2> QED BY <1>3, <2>1, <2>3, <2>6 DEF n
<1>6. LoopTyped'
  <2>1. executed' \in 0 .. round' * MaxReply
    <3>1. executed \in 0 .. round * MaxReply BY <1>2 DEF LoopTyped
    <3> HIDE DEF n
    <3> QED BY <1>2, <1>3, <3>1, Counting
  <2>2. pc' \in {"asking", "done"} /\ (pc' # "done" => round' < MaxRounds)
    <3>1. pc' = IF LastRound THEN "done" ELSE "asking" BY DEF RunTools
    <3>2. MaxRounds \in Nat BY LoopAssumption
    <3> QED BY <1>2, <1>3, <3>1, <3>2 DEF LastRound
  <2>3. /\ reply' \in [content : Texts, reasoning : BOOLEAN, calls : Seq(Tools)]
        /\ Size(reply') <= MaxReply
    <3>1. /\ reply \in [content : Texts, reasoning : BOOLEAN, calls : Seq(Tools)]
          /\ Size(reply) <= MaxReply
      BY <1>2 DEF LoopTyped
    <3>2. reply' = reply \/ reply' = NewReply BY DEF RunTools
    <3>3. MaxReply \in Nat BY LoopAssumption
    <3>4. CASE reply' = reply BY <3>1, <3>4
    <3>5. CASE reply' = NewReply BY <3>3, <3>5, NewReplyTyped
    <3> QED BY <3>2, <3>4, <3>5
  <2>4. gate' \in Gates BY <1>2, NewGateHeld DEF RunTools
  <2>5. shown' \in Texts
    <3>1. shown' = text \/ shown' = <<>> BY DEF RunTools
    <3>2. <<>> \in Texts BY DEF Texts
    <3> QED BY <1>2, <3>1, <3>2
  <2>6. status' \in {"none", "200", "502"} /\ prior'.kind \in {"none", "final"}
    BY <1>1, <1>2 DEF RunTools, LoopTyped
  <2> QED BY <1>1, <1>2, <1>3, <1>4, <2>1, <2>2, <2>3, <2>4, <2>5, <2>6 DEF LoopTyped
<1>7. CASE ~LastRound
  <2>1. /\ pc' = "asking" /\ reply' = NewReply /\ gate' = NewGate /\ shown' = <<>>
        /\ answer' = answer
        /\ status' = IF mode = "stream" /\ text # shown THEN "200" ELSE status
        /\ mode = "json" => events' = events
        /\ mode = "stream" => events' = DeltaIf(text # shown, events)
    BY <1>2, <1>7 DEF RunTools
  <2>2. DriversAgree' BY <2>1, NewReplyTyped DEF DriversAgree, NewGate
  <2> HIDE DEF text
  <2>3. CASE mode = "json"
    <3>1. Asking' BY <1>1, <1>2, <2>1, <2>3 DEF Asking
    <3> QED BY <1>5, <1>6, <2>1, <2>2, <3>1 DEF LoopIInv
  <2>4. CASE mode = "stream"
    <3>1. events \in Started /\ (status = "200" <=> events # <<>>) /\ total = reported
      BY <1>2, <2>4 DEF Asking
    <3>2. events' \in Started /\ (events' # <<>> <=> text # shown \/ events # <<>>)
      BY <2>1, <2>4, <3>1, StartedIf
    <3>3. status' = "200" <=> events' # <<>> BY <2>1, <2>4, <3>1, <3>2
    <3>4. Held(gate', shown', reply'.content) BY <2>1, NewGateHeld, NewReplyTyped
    <3>5. ~reply'.reasoning /\ shown' = <<>> BY <2>1, NewReplyTyped
    <3>6. total' = reported' /\ mode' = "stream" BY <1>1, <1>4, <2>4, <3>1
    <3>7. Asking' BY <1>2, <2>1, <3>2, <3>3, <3>4, <3>5, <3>6 DEF Asking
    <3> QED BY <1>5, <1>6, <2>1, <2>2, <3>7 DEF LoopIInv
  <2> QED BY <1>2, <2>3, <2>4
<1>8. CASE LastRound
  <2>1. /\ pc' = "done" /\ reply' = reply /\ gate' = gate /\ status' = "200"
        /\ answer' = [NoAnswer EXCEPT !.kind = "maxRounds",
                                      !.text = CleanContent(reply.content) # {}]
        /\ mode = "json" => events' = events
    BY <1>2, <1>8 DEF RunTools
  <2>2. answer'.kind = "maxRounds" BY <2>1 DEF NoAnswer
  <2>3. DriversAgree' BY <1>1, <1>2, <2>1 DEF DriversAgree
  <2>4. NoEmptySuccess' /\ GateFaithful'
    BY <2>1, <2>2 DEF NoEmptySuccess, GateFaithful, NothingLost, NoMarkupLeaks
  <2>5. StreamTerminated' /\ UsageIsSum'
    <3>1. CASE mode = "json"
      <4>1. mode' = "json" /\ events' = <<>> BY <1>1, <1>2, <2>1, <3>1 DEF Asking
      <4> QED BY <4>1, Unopened
    <3>2. CASE mode = "stream"
      <4> DEFINE first == DeltaIf(text # shown, events)
                 sent == DeltaIf(text = <<>>, first)
                 closing == Append(sent, Event("finish", 0))
      <4>1. events' = Done(UsageIf(total' > 0, closing)) BY <1>8, <3>2 DEF RunTools
      <4>2. events \in Started /\ total = reported BY <1>2, <3>2 DEF Asking
      <4> HIDE DEF text
      <4>3. first \in Started BY <4>2, StartedIf
      <4> HIDE DEF first
      <4>4. sent \in Started BY <4>3, StartedIf
      <4> HIDE DEF sent
      <4>5. Open(closing, total')
        <5>1. "finish" \in Kinds \ {"done"} BY DEF Kinds
        <5> QED BY <1>4, <4>4, <5>1, StartedFacts, Sends
      <4> HIDE DEF closing
      <4>6. Open(UsageIf(total' > 0, closing), total')
        <5>1. (total' > 0) \in BOOLEAN OBVIOUS
        <5> QED BY <1>4, <4>5, <5>1, UsageSends
      <4>7. Closed(events', total') BY <1>4, <4>1, <4>6, Closes
      <4>8. Closed(events', reported') /\ mode' = "stream" BY <1>1, <1>4, <3>2, <4>2, <4>7
      <4> QED BY <2>1, <4>8, Terminated
    <3> QED BY <1>2, <3>1, <3>2
  <2>6. Settled' BY <2>2, <2>4, <2>5 DEF Settled
  <2> QED BY <1>5, <1>6, <2>1, <2>3, <2>6 DEF LoopIInv
<1> QED BY <1>7, <1>8

LEMMA ReturnCallsInv ==
  ASSUME LoopIInv, NEW usage \in {0, 1}, ReturnCalls(usage), reported' = reported + usage
  PROVE  LoopIInv'
<1> DEFINE calls == CallsOf
           text == Flushed(calls)
<1>1. /\ pc = "asking" /\ calls # <<>> /\ pc' = "done" /\ status' = "200" /\ shown' = text
      /\ mode' = mode /\ round' = round /\ messages' = messages /\ reply' = reply
      /\ gate' = gate /\ executed' = executed /\ prior' = prior
      /\ answer' = [NoAnswer EXCEPT !.kind = "calls", !.calls = Batch(calls)]
  BY DEF ReturnCalls
<1>2. /\ LoopTyped /\ Conversation(messages, round, executed) /\ DriversAgree /\ Asking
      /\ gate \in Gates /\ shown \in Texts /\ mode \in {"json", "stream"}
      /\ total \in Nat /\ reported \in Nat /\ text \in Texts
  BY <1>1, RoundFacts
<1>3. total' \in Nat /\ reported' \in Nat /\ (mode = "stream" => total' = total + usage)
  BY <1>2 DEF ReturnCalls, AddUsage
<1>4. LoopTyped' BY <1>1, <1>2, <1>3 DEF LoopTyped
<1>5. DriversAgree' BY <1>1, <1>2 DEF DriversAgree
<1>6. answer'.kind = "calls" /\ answer'.calls = Batch(calls) BY <1>1 DEF NoAnswer
<1>7. \A k \in 1 .. Len(answer'.calls) : answer'.calls[k].id = <<round', k>>
  BY <1>1, <1>6 DEF Batch
<1>8. NoEmptySuccess' /\ NothingLost' BY <1>6 DEF NoEmptySuccess, NothingLost
<1>9. NoMarkupLeaks'
  <2>1. SUFFICES ASSUME mode = "stream", reply.calls = <<>> PROVE TagAt(shown') = {}
    BY <1>1 DEF NoMarkupLeaks
  <2>2. Held(gate, shown, reply.content) /\ reply.content \in Texts
    BY <1>2, <2>1 DEF Asking, LoopTyped
  <2>3. TagAt(shown) = {} BY <1>2, <2>2, NoTagShown
  <2>4. gate.captured # <<>>
    <3>1. calls = ExtractToolCallsFromContent(gate.captured) BY <2>1 DEF CallsOf, ExtractToolCalls
    <3>2. <<>> \in Texts /\ Len(<<>>) = 0 BY DEF Texts
    <3>3. ExtractToolCallsFromContent(<<>>) = <<>> BY <3>2, CallsInText
    <3> QED BY <1>1, <3>1, <3>3
  <2>5. shown \o gate.pending = shown BY <1>2, <2>2, <2>4, AllSent
  <2>6. text = (shown \o gate.pending) \o <<>> BY <1>1 DEF Flushed
  <2>7. shown \o <<>> = shown BY <1>2 DEF Texts
  <2> QED BY <1>1, <2>3, <2>5, <2>6, <2>7
<1>10. StreamTerminated' /\ UsageIsSum'
  <2>1. CASE mode = "json"
    <3>1. mode' = "json" /\ events' = <<>> BY <1>1, <1>2, <2>1 DEF Asking, ReturnCalls
    <3> QED BY <3>1, Unopened
  <2>2. CASE mode = "stream"
    <3> DEFINE first == DeltaIf(shown' # shown, events)
               sent == Append(first, Event("calls", total'))
    <3>1. events' = Done(sent) BY <2>2 DEF ReturnCalls
    <3>2. events \in Started /\ total = reported BY <1>2, <2>2 DEF Asking
    <3>3. first \in Started
      <4>1. (shown' # shown) \in BOOLEAN OBVIOUS
      <4> QED BY <3>2, <4>1, StartedIf
    <3> HIDE DEF first
    <3>4. Open(sent, total')
      <4>1. "calls" \in Kinds \ {"done"} BY DEF Kinds
      <4> QED BY <1>3, <3>3, <4>1, StartedFacts, Sends
    <3> HIDE DEF sent
    <3>5. Closed(events', total') BY <1>3, <3>1, <3>4, Closes
    <3>6. Closed(events', reported') /\ mode' = "stream" BY <1>1, <1>3, <2>2, <3>2, <3>5
    <3> QED BY <1>1, <3>6, Terminated
  <2> QED BY <1>2, <2>1, <2>2
<1>11. Settled' BY <1>7, <1>8, <1>9, <1>10 DEF Settled, GateFaithful
<1> QED BY <1>1, <1>2, <1>4, <1>5, <1>11 DEF LoopIInv

-----------------------------------------------------------------------------
LEMMA FinalFacts ==
  ASSUME NEW r, NEW finish
  PROVE  /\ FinalAnswer(r, finish).kind = "final"
         /\ FinalAnswer(r, finish).text = (CleanContent(r.content) # {})
         /\ FinalAnswer(r, finish).finish = finish
         /\ mode = "stream" /\ FinalAnswer(r, finish).reasoning => r.reasoning
<1> DEFINE a == FinalAnswer(r, finish)
<1>1. /\ a.kind = "final" /\ a.text = (CleanContent(r.content) # {}) /\ a.finish = finish
      /\ a.reasoning = Reasons(r)
  BY DEF FinalAnswer
<1>2. mode = "stream" /\ Reasons(r) => r.reasoning BY DEF Reasons
<1> HIDE DEF a
<1>3. mode = "stream" /\ a.reasoning => r.reasoning BY <1>1, <1>2
<1> QED BY <1>1, <1>3 DEF a

(* JSON: a settled answer is a 502, or no empty success.                   *)
LEMMA SettleGood ==
  ASSUME NEW a, a.kind = "final", mode = "json", mode' = mode, events = <<>>, events' = events,
         Settle(a)
  PROVE  Settled'
<1>1. pc' = "done" /\ answer' = a /\ status' = IF EmptyAnswer(a) THEN "502" ELSE "200"
  BY DEF Settle
<1>2. NoEmptySuccess' BY <1>1 DEF NoEmptySuccess, EmptyAnswer
<1>3. GateFaithful' BY DEF GateFaithful, NothingLost, NoMarkupLeaks
<1>4. StreamTerminated' /\ UsageIsSum' BY Unopened
<1> QED BY <1>1, <1>2, <1>3, <1>4 DEF Settled

LEMMA AnswerJSONInv ==
  ASSUME LoopIInv, NEW finish \in Finishes, NEW usage \in {0, 1},
         AnswerJSON(finish), reported' = reported + usage
  PROVE  LoopIInv'
<1> DEFINE a == FinalAnswer(reply, finish)
<1>1. /\ mode = "json" /\ pc = "asking" /\ mode' = mode /\ round' = round /\ messages' = messages
      /\ gate' = gate /\ shown' = shown /\ executed' = executed /\ total' = total
      /\ events' = events
  BY DEF AnswerJSON
<1>2. /\ LoopTyped /\ Conversation(messages, round, executed) /\ Asking
      /\ reported \in Nat
  BY <1>1, RoundFacts
<1>3. reported' \in Nat BY <1>2
<1>4. a.kind = "final" BY FinalFacts
<1>5. DriversAgree' BY <1>1 DEF DriversAgree
<1>6. CASE TruncatedFinal(a)
  <2>1. pc' = "regen" /\ prior' = a /\ reply' = NewReply /\ answer' = answer /\ status' = status
    BY <1>6 DEF AnswerJSON
  <2> HIDE DEF a
  <2>2. LoopTyped'
    <3>1. MaxReply \in Nat BY LoopAssumption
    <3>2. Size(reply') <= MaxReply
          /\ reply' \in [content : Texts, reasoning : BOOLEAN, calls : Seq(Tools)]
      BY <2>1, <3>1, NewReplyTyped
    <3> QED BY <1>1, <1>2, <1>3, <1>4, <2>1, <3>2 DEF LoopTyped
  <2>3. Asking' BY <1>1, <1>2, <1>4, <2>1 DEF Asking
  <2> QED BY <1>1, <1>2, <1>5, <2>1, <2>2, <2>3 DEF LoopIInv
<1>7. CASE ~TruncatedFinal(a)
  <2>1. Settle(a) /\ prior' = prior /\ reply' = reply BY <1>7 DEF AnswerJSON
  <2>2. pc' = "done" /\ status' \in {"200", "502"} BY <2>1 DEF Settle
  <2>3. LoopTyped' BY <1>1, <1>2, <1>3, <2>1, <2>2 DEF LoopTyped
  <2>4. events = <<>> BY <1>1, <1>2 DEF Asking
  <2>5. Settled' BY <1>1, <1>4, <2>1, <2>4, SettleGood
  <2> QED BY <1>1, <1>2, <1>5, <2>2, <2>3, <2>5 DEF LoopIInv
<1> QED BY <1>6, <1>7

LEMMA RegeneratedInv ==
  ASSUME LoopIInv, NEW finish \in Finishes, Regenerated(finish), reported' = reported
  PROVE  LoopIInv'
<1> DEFINE a == FinalAnswer(reply, finish)
<1>1. /\ pc = "regen" /\ Settle(a) /\ mode' = mode /\ round' = round /\ messages' = messages
      /\ reply' = reply /\ gate' = gate /\ shown' = shown /\ executed' = executed
      /\ total' = total /\ prior' = prior /\ events' = events
  BY DEF Regenerated
<1>2. LoopTyped /\ Conversation(messages, round, executed) /\ Asking /\ DriversAgree
  BY <1>1 DEF LoopIInv
<1>3. mode = "json" /\ events = <<>> BY <1>1, <1>2 DEF Asking
<1>4. a.kind = "final" BY FinalFacts
<1> HIDE DEF a
<1>5. pc' = "done" /\ status' \in {"200", "502"} BY <1>1 DEF Settle
<1>6. LoopTyped' BY <1>1, <1>2, <1>5 DEF LoopTyped
<1>7. DriversAgree' BY <1>1, <1>2 DEF DriversAgree
<1>8. Settled' BY <1>1, <1>3, <1>4, SettleGood
<1> QED BY <1>1, <1>2, <1>5, <1>6, <1>7, <1>8 DEF LoopIInv

LEMMA BackendFailsInv ==
  ASSUME LoopIInv, BackendFails
  PROVE  LoopIInv'
<1>1. /\ pc # "done" /\ mode' = mode /\ round' = round /\ messages' = messages
      /\ reply' = reply /\ gate' = gate /\ shown' = shown /\ executed' = executed
      /\ total' = total /\ prior' = prior /\ reported' = reported
  BY DEF BackendFails
<1>2. LoopTyped /\ Conversation(messages, round, executed) /\ Asking /\ DriversAgree
      /\ mode \in {"json", "stream"}
  BY <1>1 DEF LoopIInv, LoopTyped
<1>3. pc' = "done" /\ status' \in {"200", "502"} BY DEF BackendFails, Settle
<1>4. LoopTyped' BY <1>1, <1>2, <1>3 DEF LoopTyped
<1>5. DriversAgree' BY <1>1, <1>2 DEF DriversAgree
<1>6. CASE pc = "regen"
  <2>1. Settle(prior) /\ events' = events BY <1>6 DEF BackendFails
  <2>2. mode = "json" /\ events = <<>> /\ prior.kind = "final" BY <1>2, <1>6 DEF Asking
  <2>3. Settled' BY <1>1, <2>1, <2>2, SettleGood
  <2> QED BY <1>1, <1>2, <1>3, <1>4, <1>5, <2>3 DEF LoopIInv
<1>7. CASE pc # "regen"
  <2>1. /\ answer' = [NoAnswer EXCEPT !.kind = "error"]
        /\ status' = IF mode = "json" THEN "502" ELSE "200"
        /\ events' = IF mode = "json" THEN events ELSE FailStream
    BY <1>7 DEF BackendFails
  <2>2. answer'.kind = "error" BY <2>1 DEF NoAnswer
  <2>3. NoEmptySuccess' /\ GateFaithful'
    BY <1>3, <2>2 DEF NoEmptySuccess, GateFaithful, NothingLost, NoMarkupLeaks
  <2>4. StreamTerminated' /\ UsageIsSum'
    <3>1. CASE mode = "json"
      <4>1. mode' = "json" /\ events' = <<>> BY <1>1, <1>2, <2>1, <3>1 DEF Asking
      <4> QED BY <4>1, Unopened
    <3>2. CASE mode = "stream"
      <4> DEFINE sent == Append(Delta(events), Event("finish", 0))
      <4>1. events' = Done(sent) /\ status' = "200" BY <2>1, <3>2 DEF FailStream
      <4>2. events \in Started /\ reported \in Nat BY <1>2, <3>2 DEF Asking, LoopTyped
      <4>3. Delta(events) \in Started BY <4>2, StartedFacts
      <4>4. Open(sent, reported)
        <5>1. "finish" \in Kinds \ {"done"} BY DEF Kinds
        <5>2. Open(Delta(events), reported) BY <4>2, <4>3, StartedFacts
        <5> QED BY <4>2, <5>1, <5>2, Sends
      <4> HIDE DEF sent
      <4>5. Closed(events', reported') /\ mode' = "stream" BY <1>1, <3>2, <4>1, <4>2, <4>4, Closes
      <4> QED BY <1>3, <4>1, <4>5, Terminated
    <3> QED BY <1>2, <3>1, <3>2
  <2>5. Settled' BY <2>2, <2>3, <2>4 DEF Settled
  <2> QED BY <1>1, <1>2, <1>3, <1>4, <1>5, <2>5 DEF LoopIInv
<1> QED BY <1>6, <1>7

LEMMA AnswerStreamInv ==
  ASSUME LoopIInv, NEW finish \in Finishes, NEW usage \in {0, 1}, NEW nullUsage \in BOOLEAN,
         AnswerStream(finish, usage, nullUsage), reported' = reported + usage
  PROVE  LoopIInv'
<1> DEFINE a == FinalAnswer(reply, finish)
           text == Flushed(<<>>)
           opened == status = "200" \/ text # <<>>
           first == DeltaIf(shown' # shown, events)
<1>1. /\ mode = "stream" /\ pc = "asking" /\ pc' = "done" /\ answer' = a /\ shown' = text
      /\ mode' = mode /\ round' = round /\ messages' = messages /\ reply' = reply
      /\ gate' = gate /\ executed' = executed /\ prior' = prior
      /\ CallsOf = <<>> /\ total' = total + usage
  BY DEF AnswerStream, AddUsage
<1>2. /\ ~opened /\ EmptyAnswer(a) => status' = "502" /\ events' = events
      /\ opened \/ ~EmptyAnswer(a) =>
           status' = "200" /\ events' = FinishStream(first, finish, usage, nullUsage)
  BY DEF AnswerStream
<1>3. /\ LoopTyped /\ Conversation(messages, round, executed) /\ DriversAgree /\ Asking
      /\ gate \in Gates /\ shown \in Texts /\ text \in Texts
      /\ total \in Nat /\ reported \in Nat
  BY <1>1, RoundFacts
<1>4. /\ Held(gate, shown, reply.content) /\ total = reported /\ events \in Started
      /\ (status = "200" <=> events # <<>>)
      /\ (shown # <<>> \/ reply.reasoning => events # <<>>)
  BY <1>1, <1>3 DEF Asking
<1>5. total' \in Nat /\ reported' = total' BY <1>1, <1>3, <1>4
<1>6. status' \in {"200", "502"} BY <1>2
<1>7. LoopTyped' BY <1>1, <1>3, <1>5, <1>6 DEF LoopTyped
<1>8. DriversAgree' BY <1>1, <1>3 DEF DriversAgree
<1>9. a.kind = "final" /\ a.text = (CleanContent(reply.content) # {})
      /\ (a.reasoning => reply.reasoning)
  <2>1. mode = "stream" BY <1>1
  <2> QED BY <2>1, FinalFacts
<1> HIDE DEF a
<1>10. text = reply.content
  <2>1. reply.content \in Texts BY <1>3 DEF LoopTyped
  <2>2. text = (shown \o gate.pending) \o gate.captured BY DEF Flushed
  <2> QED BY <1>3, <1>4, <2>1, <2>2, AllSent
<1>11. NothingLost' /\ NoMarkupLeaks' BY <1>1, <1>9, <1>10 DEF NothingLost, NoMarkupLeaks
<1> HIDE DEF text
<1>12. first \in Started /\ (first # <<>> <=> shown' # shown \/ events # <<>>)
  <2>1. (shown' # shown) \in BOOLEAN OBVIOUS
  <2> QED BY <1>4, <2>1, StartedIf
<1> HIDE DEF first
<1>13. opened \/ ~EmptyAnswer(a) => Shows(first)
  <2>1. text # <<>> => first # <<>> BY <1>1, <1>4, <1>12
  <2>2. opened => first # <<>> BY <1>4, <1>12, <2>1
  <2>3. a.text => text # <<>> BY <1>9, <1>10, NothingToClean
  <2>4. a.reasoning => first # <<>> BY <1>4, <1>9, <1>12
  <2>5. ~EmptyAnswer(a) => a.text \/ a.reasoning BY DEF EmptyAnswer
  <2>6. opened \/ ~EmptyAnswer(a) => first # <<>> BY <2>1, <2>2, <2>3, <2>4, <2>5
  <2> QED BY <1>5, <1>12, <2>6, StartedFacts
<1>14. CASE opened \/ ~EmptyAnswer(a)
  <2>1. status' = "200" /\ events' = FinishStream(first, finish, usage, nullUsage)
    BY <1>2, <1>14
  <2>2. Open(first, total') BY <1>5, <1>12, StartedFacts
  <2>3. Closed(events', total') /\ Shows(events')
    <3>1. usage \in Nat OBVIOUS
    <3> QED BY <1>5, <1>13, <1>14, <2>1, <2>2, <3>1, FinishCloses
  <2>4. StreamTerminated' /\ UsageIsSum' BY <1>1, <1>5, <2>1, <2>3, Terminated
  <2>5. NoEmptySuccess' BY <1>1, <2>3 DEF NoEmptySuccess, Shows
  <2>6. Settled' BY <1>1, <1>9, <1>11, <2>4, <2>5 DEF Settled, GateFaithful
  <2> QED BY <1>1, <1>3, <1>7, <1>8, <2>6 DEF LoopIInv
<1>15. CASE ~opened /\ EmptyAnswer(a)
  <2>1. status' = "502" /\ events' = <<>> BY <1>2, <1>4, <1>15
  <2>2. StreamTerminated' /\ UsageIsSum' BY <2>1, Unopened
  <2>3. NoEmptySuccess' BY <2>1 DEF NoEmptySuccess
  <2>4. Settled' BY <1>1, <1>9, <1>11, <2>2, <2>3 DEF Settled, GateFaithful
  <2> QED BY <1>1, <1>3, <1>7, <1>8, <2>4 DEF LoopIInv
<1> QED BY <1>14, <1>15

LEMMA RoundEndsInv ==
  ASSUME LoopIInv, NEW finish \in Finishes, NEW usage \in {0, 1}, NEW nullUsage \in BOOLEAN,
         RoundEnds(finish, usage, nullUsage)
  PROVE  LoopIInv'
<1>1. reported' = reported + usage BY DEF RoundEnds
<1>2. CASE RunTools(usage) BY <1>1, <1>2, RunToolsInv
<1>3. CASE ReturnCalls(usage) BY <1>1, <1>3, ReturnCallsInv
<1>4. CASE AnswerJSON(finish) BY <1>1, <1>4, AnswerJSONInv
<1>5. CASE AnswerStream(finish, usage, nullUsage) BY <1>1, <1>5, AnswerStreamInv
<1> QED BY <1>2, <1>3, <1>4, <1>5 DEF RoundEnds

LEMMA LoopStutterInv ==
  ASSUME LoopIInv, UNCHANGED loopVars
  PROVE  LoopIInv'
<1>1. /\ mode' = mode /\ pc' = pc /\ round' = round /\ messages' = messages /\ reply' = reply
      /\ gate' = gate /\ shown' = shown /\ executed' = executed /\ total' = total
      /\ prior' = prior /\ status' = status /\ events' = events /\ answer' = answer
      /\ reported' = reported
  BY DEF loopVars
<1>2. LoopTyped' /\ Conversation(messages', round', executed') /\ DriversAgree'
  BY <1>1 DEF LoopIInv, LoopTyped, DriversAgree
<1>3. pc' # "done" => Asking' BY <1>1 DEF LoopIInv, Asking
<1>4. ASSUME pc' = "done" PROVE Settled'
  <2>1. Settled BY <1>1, <1>4 DEF LoopIInv
  <2>2. NoEmptySuccess' /\ StreamTerminated' /\ UsageIsSum'
    BY <1>1, <2>1 DEF Settled, NoEmptySuccess, StreamTerminated, UsageIsSum
  <2>3. GateFaithful' BY <1>1, <2>1 DEF Settled, GateFaithful, NothingLost, NoMarkupLeaks
  <2> QED BY <1>1, <2>1, <2>2, <2>3 DEF Settled
<1> QED BY <1>2, <1>3, <1>4 DEF LoopIInv

LEMMA LoopAlwaysInv == LoopSpec => []LoopIInv
<1>1. LoopInit => LoopIInv BY LoopInitInv
<1>2. LoopIInv /\ [LoopNext]_loopVars => LoopIInv'
  <2> SUFFICES ASSUME LoopIInv, [LoopNext]_loopVars PROVE LoopIInv' OBVIOUS
  <2>1. ASSUME NEW text \in Deltas, Say(text) PROVE LoopIInv' BY <2>1, SayInv
  <2>2. CASE Reason BY <2>2, ReasonInv
  <2>3. ASSUME NEW name \in Tools, CallTool(name) PROVE LoopIInv' BY <2>3, CallToolInv
  <2>4. ASSUME NEW finish \in Finishes, NEW usage \in {0, 1}, NEW nullUsage \in BOOLEAN,
               RoundEnds(finish, usage, nullUsage)
        PROVE  LoopIInv'
    BY <2>4, RoundEndsInv
  <2>5. ASSUME NEW finish \in Finishes, Regenerated(finish), UNCHANGED reported
        PROVE  LoopIInv'
    BY <2>5, RegeneratedInv
  <2>6. CASE BackendFails BY <2>6, BackendFailsInv
  <2>7. CASE Answered \/ UNCHANGED loopVars BY <2>7, LoopStutterInv DEF Answered
  <2> QED BY <2>1, <2>2, <2>3, <2>4, <2>5, <2>6, <2>7 DEF LoopNext
<1> QED BY <1>1, <1>2, PTL DEF LoopSpec

-----------------------------------------------------------------------------
LEMMA RoundsBounded ==
  ASSUME NEW r \in 0 .. MaxRounds, NEW n \in 0 .. r * MaxReply
  PROVE  n \in 0 .. MaxRounds * MaxReply
<1>1. MaxReply \in Nat /\ MaxRounds \in Nat BY LoopAssumption
<1>2. MaxRounds - r \in Nat BY <1>1
<1>3. (MaxRounds - r) * MaxReply \in Nat BY <1>1, <1>2
<1>4. MaxRounds * MaxReply = r * MaxReply + (MaxRounds - r) * MaxReply BY <1>1
<1>5. r * MaxReply \in Nat /\ MaxRounds * MaxReply \in Nat BY <1>1
<1> QED BY <1>3, <1>4, <1>5

LEMMA InvTurns == LoopIInv => TurnsComplete
<1> SUFFICES ASSUME LoopIInv PROVE TurnsComplete OBVIOUS
<1>1. LoopTyped /\ Conversation(messages, round, executed) BY DEF LoopIInv
<1>2. LoopTypeOK
  <2>1. executed \in 0 .. MaxRounds * MaxReply BY <1>1, RoundsBounded DEF LoopTyped
  <2>2. /\ reply.content \in Seq(Tokens) /\ reply.calls \in Seq(Tools)
        /\ gate.pending \in Seq(Tokens) /\ gate.captured \in Seq(Tokens) /\ shown \in Seq(Tokens)
    BY <1>1 DEF LoopTyped, Gates, Texts
  <2> QED BY <1>1, <2>1, <2>2 DEF LoopTyped, LoopTypeOK
<1>3. HistoryWellFormed
  <2>1. ASSUME NEW i \in 1 .. Len(messages), messages[i].role = "assistant"
        PROVE  /\ ~messages[i].thinks
               /\ \A k \in 1 .. Len(messages[i].calls) :
                    i + k <= Len(messages) /\ messages[i + k] = ToolTurn(messages[i].calls[k].id)
    <3>1. messages[i] \in AssistantTurns \cup ToolTurns BY <1>1, ElementOfSeq DEF Conversation
    <3>2. messages[i] \in AssistantTurns
      <4>1. ASSUME messages[i] \in ToolTurns PROVE FALSE BY <2>1, <4>1 DEF ToolTurns
      <4> QED BY <3>1, <4>1
    <3>3. ~messages[i].thinks BY <3>2 DEF AssistantTurns
    <3>4. FollowedUp(messages, i) BY <1>1 DEF Conversation
    <3> QED BY <2>1, <3>3, <3>4 DEF FollowedUp
  <2>2. Cardinality({i \in 1 .. Len(messages) : messages[i].role = "tool"}) = executed
    BY <1>1 DEF Conversation, Results
  <2> QED BY <2>1, <2>2 DEF HistoryWellFormed
<1>4. WholeBatch
  <2>1. \A i \in 1 .. Len(messages) :
          messages[i].role = "assistant" =>
            \A k \in 1 .. Len(messages[i].calls) : messages[i].calls[k].name \in ProxyTools
    BY <1>1 DEF Conversation, FollowedUp
  <2>2. ASSUME answer.kind = "calls", NEW k \in 1 .. Len(answer.calls),
               ToolTurn(answer.calls[k].id) \in ToSet(messages)
        PROVE  FALSE
    <3>1. answer.calls[k].id = <<round, k>>
      <4>1. NoAnswer.kind # "calls" BY DEF NoAnswer
      <4>2. pc = "done" BY <2>2, <4>1 DEF LoopIInv, Asking
      <4> QED BY <2>2, <4>2 DEF LoopIInv, Settled
    <3>2. PICK i \in 1 .. Len(messages) : messages[i] = ToolTurn(<<round, k>>)
      <4>1. messages \in Seq(AssistantTurns \cup ToolTurns) BY <1>1 DEF Conversation
      <4> QED BY <2>2, <3>1, <4>1 DEF ToSet
    <3>3. messages[i].role = "tool" /\ messages[i].id = <<round, k>> BY <3>2 DEF ToolTurn
    <3>4. messages[i].id[1] < round BY <1>1, <3>3 DEF Conversation
    <3>5. <<round, k>>[1] = round /\ round \in Nat BY <1>1 DEF LoopTyped
    <3> QED BY <3>3, <3>4, <3>5
  <2> QED BY <2>1, <2>2 DEF WholeBatch
<1> QED BY <1>2, <1>3, <1>4 DEF TurnsComplete

LEMMA InvAnswer == LoopIInv => AnswerComplete
<1> SUFFICES ASSUME LoopIInv PROVE AnswerComplete OBVIOUS
<1>1. CASE pc = "done" BY <1>1 DEF LoopIInv, Settled, AnswerComplete
<1>2. CASE pc # "done"
  <2>1. Asking /\ mode \in {"json", "stream"} /\ reported \in Nat
    BY <1>2 DEF LoopIInv, LoopTyped
  <2>2. NoEmptySuccess BY <2>1 DEF Asking, NoAnswer, NoEmptySuccess
  <2>3. events \in Started BY <2>1 DEF Asking, Started
  <2>4. Open(events, reported) BY <2>1, <2>3, StartedFacts
  <2>5. StreamTerminated /\ UsageIsSum BY <1>2, <2>4 DEF StreamTerminated, UsageIsSum, Open
  <2> QED BY <2>2, <2>5 DEF AnswerComplete
<1> QED BY <1>1, <1>2

LEMMA InvGate == LoopIInv => GateFaithful
<1> SUFFICES ASSUME LoopIInv PROVE GateFaithful OBVIOUS
<1>1. CASE pc = "done" BY <1>1 DEF LoopIInv, Settled
<1>2. CASE pc # "done"
  <2>1. Asking /\ gate \in Gates /\ shown \in Texts /\ reply.content \in Texts
    BY <1>2 DEF LoopIInv, LoopTyped
  <2>2. answer.kind = "none" BY <2>1 DEF Asking, NoAnswer
  <2>3. mode = "stream" => TagAt(shown) = {} BY <2>1, NoTagShown DEF Asking
  <2> QED BY <2>2, <2>3 DEF GateFaithful, NothingLost, NoMarkupLeaks
<1> QED BY <1>1, <1>2

(* Every conversation the proxy continues is well formed, whatever the     *)
(* backend replies and however many rounds there are: a batch is run whole *)
(* or handed back whole, each call that ran has its result next to it, no  *)
(* call of the client's is run and none handed back was run, no turn       *)
(* replays thinking, and the rounds stay within MaxRounds                  *)
(* (executeProxyCalls, assistantToolCallMessage).                          *)
THEOREM TurnsAreComplete == LoopSpec => []TurnsComplete
BY LoopAlwaysInv, InvTurns, PTL

(* Neither driver hands back an empty success, a truncated answer asked    *)
(* for again included; a stream that was opened is closed once and last,   *)
(* one that was not is a plain 502; and the usage a stream reports is that *)
(* of all its rounds (validFinalAnswer, finishStream, fail).               *)
THEOREM AnswersAreComplete == LoopSpec => []AnswerComplete
BY LoopAlwaysInv, InvAnswer, PTL

(* The content gate is faithful both ways, for every tag and every way of  *)
(* cutting a reply into deltas: what is forwarded while a reply streams,   *)
(* or before a textual call is handed back, holds no tag; and a final      *)
(* answer reaches the client token for token (contentGate.push,            *)
(* streamRound's flushes).                                                 *)
THEOREM GateIsFaithful == LoopSpec => []GateFaithful
BY LoopAlwaysInv, InvGate, PTL

(* The streaming driver, which reads the calls off what the gate captured, *)
(* reads the same calls as the JSON driver does off the whole reply.       *)
THEOREM DriversAlwaysAgree == LoopSpec => []DriversAgree
<1>1. LoopIInv => DriversAgree BY DEF LoopIInv
<1> QED BY <1>1, LoopAlwaysInv, PTL
=============================================================================
