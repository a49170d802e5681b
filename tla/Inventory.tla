----------------------------- MODULE Inventory -----------------------------
(***************************************************************************)
(* The live inventory (internal/health/inventory.go): every distinct       *)
(* upstream base is asked what it serves, on its own interval, each fetch  *)
(* in a goroutine of its own that applies its result when it lands.  Two   *)
(* things come out of a listing: registry entries whose served name is     *)
(* missing are absent, and ids a discovery source adopts become catalogue  *)
(* entries until they have been missing for RetireAfter listings.          *)
(*                                                                         *)
(* Providers change what they offer, and fetches fail, at any time.  A     *)
(* fetch reads the provider at one moment and is applied at a later one.   *)
(***************************************************************************)
EXTENDS Integers, Sequences, FiniteSets, SequencesExt

CONSTANTS
  Bases, Ids,       \* upstream roots; the ids providers list
  Members,          \* registry models checked against a listing
  BaseOf, ServedName,   \* member -> its base; member -> the id it needs listed
  SourcesOf,        \* base -> its discovery sources, in registry order
  Adopted,          \* source -> the ids its adopt and exclude rules let in
  Name,             \* source -> id -> catalogue name (prefix + id)
  Served,           \* base -> ids some registry entry routes to already
  Reserved,         \* names of models, aliases and roles
  Interval,         \* ticks between two attempts at a base
  RetireAfter,      \* DiscoveryRetireAfter
  MaxChanges, MaxFailures   \* bounds: provider changes, failed fetches

Sources == UNION {ToSet(SourcesOf[b]) : b \in Bases}
RootOf(s) == CHOOSE b \in Bases : s \in ToSet(SourcesOf[b])
Names == {Name[s][i] : s \in Sources, i \in Ids}

ASSUME InventoryAssumption ==
  /\ BaseOf \in [Members -> Bases] /\ ServedName \in [Members -> Ids]
  /\ \A m \in Members : ServedName[m] \in Served[BaseOf[m]]
  /\ \A b \in Bases : SourcesOf[b] \in Seq(Sources) /\ IsInjective(SourcesOf[b])
  /\ \A b, c \in Bases : b # c => ToSet(SourcesOf[b]) \cap ToSet(SourcesOf[c]) = {}
  /\ "none" \notin Sources /\ Adopted \in [Sources -> SUBSET Ids]
  /\ \A s \in Sources : Name[s] \in [Ids -> Names] /\ IsInjective(Name[s])
  /\ Interval \in Nat \ {0} /\ RetireAfter \in Nat \ {0}
  /\ MaxChanges \in Nat /\ MaxFailures \in Nat

VARIABLES
  base,         \* per base: what baseInventory keeps
  discovered,   \* per catalogue name: its entry
  absent,       \* members marked absent
  jobs,         \* per base: the fetches in flight
  offers,       \* environment: what each provider serves now
  changes, failures,
  version,      \* history: how often the provider had changed when the
                \* listing in use was read
  omitted       \* history: successful listings in a row, of the entry's own
                \* base, that did not hold the entry's id

invVars == <<base, discovered, absent, jobs>>
envVars == <<offers, changes, failures>>
vars == <<invVars, envVars, version, omitted>>

-----------------------------------------------------------------------------
NoEntry == [source |-> "none", def |-> "none", misses |-> 0]
NewBase == [known |-> FALSE, listing |-> {}, stale |-> FALSE, wait |-> 0, inflight |-> FALSE]
NewJob == [result |-> "asked", listing |-> {}, at |-> 0]

(* dueInventoryLocked: not in flight, and past the interval.               *)
Due(b) == ~base[b].inflight /\ base[b].wait = 0

Started(b) == [base[b] EXCEPT !.inflight = TRUE, !.wait = Interval]

(* A poll round starts every fetch that is due (PollOnce, startInventory). *)
StartDue ==
  /\ \E b \in Bases : Due(b)
  /\ base' = [b \in Bases |-> IF Due(b) THEN Started(b) ELSE base[b]]
  /\ jobs' = [b \in Bases |-> IF Due(b) THEN Append(jobs[b], NewJob) ELSE jobs[b]]
  /\ UNCHANGED <<discovered, absent, envVars, version, omitted>>

(* RefreshInventory: every base that is not in flight is due now.          *)
RefreshInventory ==
  /\ \E b \in Bases : ~base[b].inflight
  /\ base' = [b \in Bases |-> IF base[b].inflight THEN base[b] ELSE Started(b)]
  /\ jobs' = [b \in Bases |-> IF base[b].inflight THEN jobs[b] ELSE Append(jobs[b], NewJob)]
  /\ UNCHANGED <<discovered, absent, envVars, version, omitted>>

(* The provider answers one fetch, or it fails or times out.               *)
Answer(b, k) ==
  /\ jobs[b][k].result = "asked"
  /\ jobs' = [jobs EXCEPT ![b][k] = [result |-> "ok", listing |-> offers[b], at |-> changes]]
  /\ UNCHANGED <<base, discovered, absent, envVars, version, omitted>>

FetchFails(b, k) ==
  /\ jobs[b][k].result = "asked" /\ failures < MaxFailures
  /\ failures' = failures + 1
  /\ jobs' = [jobs EXCEPT ![b][k].result = "error"]
  /\ UNCHANGED <<base, discovered, absent, offers, changes, version, omitted>>

-----------------------------------------------------------------------------
(* applyInventoryLocked, one discovery source: adopt what is listed and    *)
(* nobody claims, refresh what is known, count a miss for the rest.        *)
Adoptable(s, listing) == (listing \cap Adopted[s]) \ Served[RootOf(s)]

(* Mutant: a relisted entry keeps its misses.                              *)
RefreshedKeepsMisses(e, s) ==
  IF e = NoEntry THEN [source |-> s, def |-> s, misses |-> 0] ELSE [e EXCEPT !.def = s]

Refreshed(e, s) ==
  IF e = NoEntry THEN [source |-> s, def |-> s, misses |-> 0]
  ELSE [e EXCEPT !.def = s, !.misses = 0]

(* Mutant: the misses are not counted.                                     *)
MissedUncounted(e) == IF e.misses + 1 >= RetireAfter THEN NoEntry ELSE e

Missed(e) == IF e.misses + 1 >= RetireAfter THEN NoEntry ELSE [e EXCEPT !.misses = @ + 1]

ApplySource(d, s, listing) ==
  LET ids == Adoptable(s, listing)
      adopts == {Name[s][i] : i \in ids} \ Reserved
      held == {Name[s][i] : i \in ids}
      after == [n \in Names |-> IF n \in adopts THEN Refreshed(d[n], s) ELSE d[n]]
  IN [n \in Names |-> IF after[n].source = s /\ n \notin held THEN Missed(after[n])
                      ELSE after[n]]

ApplySources(b, listing) ==
  LET sources == SourcesOf[b]
      after[k \in 0 .. Len(sources)] ==
        IF k = 0 THEN discovered ELSE ApplySource(after[k - 1], sources[k], listing)
  IN after[Len(sources)]

AbsentAfter(b, listing) ==
  {m \in absent : BaseOf[m] # b} \cup {m \in Members : BaseOf[m] = b /\ ServedName[m] \notin listing}

OmittedAfter(b, listing) ==
  [n \in Names |->
     IF \E s \in ToSet(SourcesOf[b]) : discovered[n].source = s
       THEN IF \E i \in listing : Name[discovered[n].source][i] = n THEN 0
            ELSE IF omitted[n] < RetireAfter THEN omitted[n] + 1 ELSE omitted[n]
       ELSE IF discovered[n] = NoEntry THEN 0 ELSE omitted[n]]

(* A result lands: a good one replaces the listing and everything that     *)
(* hangs off it.                                                           *)
Land(b, k) ==
  LET job == jobs[b][k] IN
  /\ job.result = "ok"
  /\ base' = [base EXCEPT ![b] = [@ EXCEPT !.inflight = FALSE, !.stale = FALSE,
                                           !.known = TRUE, !.listing = job.listing]]
  /\ absent' = AbsentAfter(b, job.listing)
  /\ discovered' = ApplySources(b, job.listing)
  /\ jobs' = [jobs EXCEPT ![b] = RemoveAt(@, k)]
  /\ version' = [version EXCEPT ![b] = job.at]
  /\ omitted' = OmittedAfter(b, job.listing)
  /\ UNCHANGED envVars

(* Mutant: a failed fetch empties the listing.                             *)
LandErrorEmpties(b, k) ==
  /\ jobs[b][k].result = "error"
  /\ base' = [base EXCEPT ![b] = [@ EXCEPT !.inflight = FALSE, !.stale = TRUE, !.listing = {}]]
  /\ jobs' = [jobs EXCEPT ![b] = RemoveAt(@, k)]
  /\ UNCHANGED <<discovered, absent, envVars, version, omitted>>

(* A failed one is noted, and the last known listing stays in force.       *)
LandError(b, k) ==
  /\ jobs[b][k].result = "error"
  /\ base' = [base EXCEPT ![b] = [@ EXCEPT !.inflight = FALSE, !.stale = TRUE]]
  /\ jobs' = [jobs EXCEPT ![b] = RemoveAt(@, k)]
  /\ UNCHANGED <<discovered, absent, envVars, version, omitted>>

FetchStep(b) ==
  \E k \in 1 .. Len(jobs[b]) : Answer(b, k) \/ Land(b, k) \/ LandError(b, k)

-----------------------------------------------------------------------------
Tick ==
  /\ \E b \in Bases : base[b].wait > 0
  /\ base' = [b \in Bases |-> [base[b] EXCEPT !.wait = IF @ > 0 THEN @ - 1 ELSE 0]]
  /\ UNCHANGED <<discovered, absent, jobs, envVars, version, omitted>>

ProviderChanges(b) ==
  /\ changes < MaxChanges
  /\ changes' = changes + 1
  /\ \E l \in SUBSET Ids : l # offers[b] /\ offers' = [offers EXCEPT ![b] = l]
  /\ UNCHANGED <<invVars, failures, version, omitted>>

Init ==
  /\ base = [b \in Bases |-> NewBase]
  /\ discovered = [n \in Names |-> NoEntry]
  /\ absent = {}
  /\ jobs = [b \in Bases |-> <<>>]
  /\ offers = [b \in Bases |-> Ids]
  /\ changes = 0 /\ failures = 0
  /\ version = [b \in Bases |-> 0]
  /\ omitted = [n \in Names |-> 0]

Next ==
  \/ StartDue \/ RefreshInventory \/ Tick
  \/ \E b \in Bases : FetchStep(b) \/ ProviderChanges(b)
  \/ \E b \in Bases : \E k \in 1 .. Len(jobs[b]) : FetchFails(b, k)

Spec == Init /\ [][Next]_vars

(* The poll loop goes round, time passes, and a fetch has a hard timeout.  *)
FairSpec == Spec /\ WF_vars(StartDue) /\ WF_vars(Tick)
                 /\ \A b \in Bases : WF_vars(FetchStep(b))

-----------------------------------------------------------------------------
(* Bases, catalogue and fetches keep to their types; an entry is retired   *)
(* the moment it has RetireAfter misses (applyInventoryLocked).            *)
TypeOK ==
  /\ base \in [Bases -> [known : BOOLEAN, listing : SUBSET Ids, stale : BOOLEAN,
                         wait : 0 .. Interval, inflight : BOOLEAN]]
  /\ discovered \in [Names -> [source : Sources, def : Sources, misses : 0 .. RetireAfter - 1]
                               \cup {NoEntry}]
  /\ absent \subseteq Members
  /\ \A b \in Bases : jobs[b] \in Seq([result : {"asked", "ok", "error"},
                                       listing : SUBSET Ids, at : 0 .. MaxChanges])
  /\ offers \in [Bases -> SUBSET Ids]
  /\ changes \in 0 .. MaxChanges /\ failures \in 0 .. MaxFailures
  /\ version \in [Bases -> 0 .. MaxChanges] /\ omitted \in [Names -> 0 .. RetireAfter]

(* The absent marks are the last good listing's word and nothing else's:   *)
(* failed fetches, and other bases' listings, leave them alone, and before *)
(* the first good listing nothing is absent.                               *)
AbsentMatchesListing ==
  \A m \in Members :
    m \in absent <=> base[BaseOf[m]].known /\ ServedName[m] \notin base[BaseOf[m]].listing

(* Absent marks and miss counts follow the last good listing, whatever     *)
(* fetches failed or overlapped since.                                     *)
ListingRules == TypeOK /\ AbsentMatchesListing

(* inventory.go: "Two, so a single flapping listing never yanks a model    *)
(* out from under a session."  A catalogue entry goes only when RetireAfter*)
(* good listings in a row, of its own base, did not hold its id.           *)
RetireEarned ==
  [][ \A n \in Names : discovered[n] # NoEntry /\ discovered'[n] = NoEntry
        => omitted'[n] >= RetireAfter ]_vars

(* Listings are applied in the order they were read: a slow answer never   *)
(* overwrites a newer one (one fetch in flight per base).                  *)
ListingNeverGoesBack == [][ \A b \in Bases : version'[b] >= version[b] ]_vars

(* The catalogue is steady: one flap retires nothing, and a slow fetch     *)
(* never puts an older listing over a newer one.                           *)
CatalogueSteady == RetireEarned /\ ListingNeverGoesBack

(* What should be in the catalogue, given what the providers offer.        *)
Wanted ==
  UNION {{Name[s][i] : i \in Adoptable(s, offers[RootOf(s)])} : s \in Sources} \ Reserved

(* The inventory converges: once the providers keep still and fetches stop *)
(* failing, the catalogue and the absent marks are right for good.         *)
InventoryConverges ==
  <>[]( /\ {n \in Names : discovered[n] # NoEntry} = Wanted
        /\ absent = {m \in Members : ServedName[m] \notin offers[BaseOf[m]]} )
=============================================================================
