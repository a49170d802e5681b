# Verification of llm-router

TLA+ models of the parts of `src/` in which timing, order or failure decide
whether the program is right, the TLC runs that check them on small instances,
and the proofs TLAPS checks for every instance. `PROJECT.json` is the index:
which definition stands for which lines, which run checks what, which mutant
each property catches.

## 1. The system

llm-router is one HTTP front door for a fleet of language models. Clients name a
model, a role ("coder") or a chain of providers; the router picks a seat that is
up, allowed and capable, forwards the request, and falls over to the next seat
when the first one fails. Around that core:

| component | state it keeps | operations | talks to |
|---|---|---|---|
| **Availability tracker** `internal/health/tracker.go`, `probe.go`, `genprobe.go` | per model: poll hysteresis, circuit breaker, generation probe, listing verdict | poll round (nodes, observations, probes), `ReportFailure`, `ReportSuccess`, verdict reads | polled by its own goroutine; read and fed by every proxied request; set absent by the inventory |
| **Live inventory and discovery** `internal/health/inventory.go`, `internal/config/discovery.go` | per upstream base: last listing, fetch in flight; the catalogue of discovered models | start due fetches, land a result, adopt, refresh, retire | provider `/v1/models`; the catalogue is read by role resolution |
| **Request proxy** `internal/router/router.go`, `roles.go`, `resolve.go`, `privacy.go`, `scope.go`, `envelope.go` | per request: binding, walk, headers, attempts; shared: in-flight counts | resolve, enforce privacy, send, withhold, fail over, report, record | tracker, catalogue, pressure counters, event broker, upstreams |
| **Pressure balancing and upstream statistics** `internal/router/pressure.go`, `upstreamstats.go` | in-flight counts, loads read from nodes, a ring of minutes per seat | order role candidates by load, count attempts | proxy, tracker, dashboard |
| **Live feed and peer mirroring** `internal/router/events.go`, `dashboard_events.go`, `peers.go` | replay ring, requests in flight, subscribers; per peer a mirror broker | publish, subscribe, snapshot, forward, mirror, watchdog, redial | proxy publishes; dashboards and peer replicas subscribe |
| **Tool proxy** `internal/toolproxy/*` | per request: the conversation, round, content gate, usage; category embeddings | classify, resolve, ask the backend, run tools, hand calls back, regenerate, stream | backends, tools, the client, the router |
| **Tools and egress** `toolproxy/tools`, `toolproxy/egress` | exit catalogue, HTTP clients | run one call, choose an exit | outside services |
| **Availability mirror** `internal/health/mirror.go`, `router/availability.go` | a polled copy of the verdicts with an age | poll, read | tool proxy |
| **Schedules, live checks** `health/schedule.go`, `livecheck.go` | none beyond configuration | is a seat scheduled, does a role answer | tracker, router |
| **Authentication** `internal/auth`, `router/auth.go`, `dashboard_tokens.go` | one token table shared by the replicas, no cache of it | verify, mint, revoke, list | every request; dashboard and command line |
| **Request log** `router/reqlog` | bounded channel, one writer, a table that older releases made | open and migrate, record, drain, query | proxy writes, dashboard reads |
| **Capture, statistics, metrics** `capture.go`, `tokstats.go`, `metrics.go`, `session.go` | counters | observe a body on its way | proxy |
| **Other request paths** `anthropic.go`, `images.go`, `wellknown.go` | none | translate a dialect | proxy |
| **Zero-retention canary** `zdrcanary.go` | last result | ask what must be refused | proxy |
| **Dashboard** `dashboard*.go`, `dashboard/` | none of its own | identity gate, pages and queries | everything |
| **Configuration** `internal/config` | the registry | parse, validate, lint | start-up |
| **Node agent, exporters** `internal/nodeagent`, `cmd/node-agent`, `cmd/gpu-exporter` | none | report the machine's state | tracker |
| **Commands, helpers** `cmd/*`, `cli/*`, `httpx`, `logx` | none | flags, wiring, start-up and shutdown | everything |

### What is hard here

* **Concurrency.** The tracker's poll round reads nodes and runs probes outside
  its lock, while requests report outcomes and read verdicts. Listing fetches
  are goroutines that apply their result when they land. The feed subscribes,
  then reads its snapshot in two critical sections, while requests publish.
* **Staleness.** A failover walk runs for seconds; the tracker and the catalogue
  change under it. What was decided before an attempt (withhold its error?) is
  used after it.
* **Failure.** Nodes, engines, providers, connections, peers and clients go away
  at any point, among them between a header and its body. The token store and the
  log's database do too, also after a commit and before its acknowledgement.
* **Limits.** Channels, rings and windows of fixed size are filled by traffic that
  never waits for them.
* **Irrevocability.** A streamed answer cannot take text back, yet must hide a
  tool call that it recognises only several deltas in.
* **Promises across attempts.** Privacy, the role's contract and the response
  headers have to be right for the seat that finally serves.

The properties that make each modelled component correct are in section 3;
`PROJECT.json` lists, at their lines, the hazards they are for, and the hazards
no property covers yet with the reason.

## 2. Plan

Done: `Tracker`, `Proxy`, `Feed`, `Inventory`, `ContentGate`/`ToolLoop`, `Balance`,
`FrontDoor`, `Ledger`, `Dispatch`; the abstract `Service` with `Proxy` shown to
implement it; proofs of the refinement and of every safety property of every
component. What is left, in order of importance:

1. `Fleet`: `Tracker` and `Proxy` composed, so that the breaker is fed by real
   attempts. Question: how many requests does a half-open breaker admit ("admit
   exactly one probe request", `tracker.go:802`)?
2. Nested discovery prefixes, which need two bases in `Inventory` and a smaller bound
   on changes.
3. Several requests at once in `Dispatch`, for the relay list they share.
4. Several textual blocks in one reply of `ToolLoop`, where extraction becomes a recursion
   over the blocks of a text.

## 3. The modules

Mutated forms of an operator (named in a comment "Mutant") stand in front of it;
they are used only to show that each property can fail. A property of a run is often
a conjunction of named parts about one subject; below it is given as `Whole`: its
parts. `TypeOK` is a part of one of them where it is not a property of its own.

### Tracker (`internal/health/tracker.go`, `genprobe.go`, `probe.go`)

`st[m]` is `modelState`; `phase`, `toRead`, `snaps` and `jobs` are the local state
of `PollOnce`; `reachable` and `engine` are the fleet. Each exported method runs
under the mutex and is one action: `Consult` (`State`, `Routable`: a read that may
turn an elapsed breaker half-open), `TakeSnapshot`, `ReportFailure`,
`ReportSuccess`, `ListingLands`. A poll round is several: `BeginRound`,
`ReadNode` (`/health`, then `/models`, either of which may fail), `ObserveModels` (hysteresis and the choice of probes, one critical
section), `ProbeAnswer`, `ApplyProbes`, `OnPoll`. Instants are kept as countdowns,
counters that are only compared with a threshold stop there.

* `VerdictsEarned` (`PollHysteresis`, `BreakerEarned`, `ConfirmedIsClean`): the three
  signals of one record agree with their causes.
* `SupersededProbeDropped`: a probe never confirms a warm-up younger than itself.
* `CooldownKept` (`StragglersDoNotExtend`, `CooldownServed`): requests already out
  neither lengthen nor cut short a cooldown.
* `BreakerAdmitsTrial`, `SeatRecovers`: liveness.

### Proxy (`internal/router/router.go`, `roles.go`, `resolve.go`, `privacy.go`, ...)

`req[r]` is the local state of one `handleProxy` with what it has sent;
`inflight` is the balancer's table. `Reject`, `Resolve`, `ClassMismatch`, `Begin`,
`Refuse` and `Send` are the steps before an upstream is asked; `PassThrough`,
`Abort` and `Fail` what its outcome leads to; `Disconnect` is the client leaving.
Tracker and catalogue are not variables: every walk chooses its own availability
and catalogue, so the results hold for any provider of them.

* `PrivacyHeld`, `RoleContractHeld`: on every attempt, stated on the demands
  themselves and not on the gate that enforces them.
* `WalkAccounted` (`WalksForward`, `ChargesMatchAttempts`): the walk, and what the
  tracker is told of it.
* `ClientToldRight` (`HeadersNameServer`, `RefusedMeansHopeless`, `LastErrorPasses`):
  headers name the server, 403 is policy and 503 an outage, and an upstream's own error
  is withheld only where a retry can follow.
* `EveryRequestEnds`: liveness.
* `ImplementsService`: see the next section.

### Service and ProxyService: the abstract specification

`Service` says what a caller may rely on, without roles, chains, catalogue or tracker:
a request is turned away, or is tried on at most `MaxRetries + 1` seats one after the
other, every one permitted by what is owed (the caller's tier and the role's own
promise), and ends once, answered only by the seat tried last. `ProxyService` is the
refinement mapping: the phase of a job is read off `pc`, the demand off tier and role,
the tries off what was sent, the result off the status. `ImplementsService` is checked
by the run `proxy` and proved for every instance in `ProxyProofs`.

### Balance (`internal/router/pressure.go`, `upstreamstats.go`, the walk of `roles.go`)

A role with `balance: pressure` under concurrent requests. `Read` is one round of the
loop of `orderByPressure`, `Resolve` the sort, the rank override and the walk (the stable
sort is given by its result: a seat's place is the number of seats in front of it), `Send`
the moment a request is counted, `Return`, `Served`, `Loading`, `FailOver` and `Abort`
its end. `SetLoads` is the poll's table, `Flip` the tracker's change of mind. Privacy and
contracts are `Proxy`'s. `history` records every attempt, so that the ring of minutes
can be compared with it.

* `ChoiceJustified` (`PileUpBounded`, `RankHolds`): what requests that choose together
  can do to one seat; load passes rank in the one documented case only.
* `CountsHold` (`TypeOK`, `InflightCovers`): no count still owed is lost.
* `StatisticsExact` (`WindowExact`, `FailingSinceExact`): ring and streaks against the
  history.

### Feed (`internal/router/events.go`, `dashboard_events.go`, `peers.go`)

One origin broker with its SSE handler (`TakeInFlight`, `SendSnapshot`, `Forward`),
the wire, and one peer feed (`Connect`, `Opened`, `Read`, `Ended`, `Watchdog`,
`MarkDown`, `ClearDown`, `Redial`, `Park`) with its mirror broker. `Connect` is
`client.Do` going out and `Opened` its return with the handler's first flush; only from
then on is there a watchdog. Faults: `Hangup`, `Stall` (a connection that goes quiet
without an error), `Restart` of the peer, `DialFails`. A
ring is an array with a head and a flag, as in the code; `Reset` puts the newest entries
of a snapshot into an empty one by recursion on their positions.

* `ReplayIsSuffix`: the ring, at and across the wrap.
* `MirrorFaithful` (`TypeOK`, `MirrorAgrees`, `MirrorHasNoHole`, `DownShowsNothing`): a
  caught-up mirror is the peer's state, and a lost peer has no requests in flight.
* `FeedHeals`: after the last fault the mirror is right for good, unless the
  subscription in use dropped an event (nothing repairs that before a redial), or the
  peer took the connect and went quiet before its first flush (`Unanswered`): that call
  has no deadline, so the feed may wait in it for ever.

### Inventory (`internal/health/inventory.go`, `internal/config/discovery.go`)

`StartDue` and `RefreshInventory` start fetches, `Answer` reads the provider,
`Land` and `LandError` apply the result at a later moment. Adoption rules are the
set of ids a source lets in; names are prefix and id as one value.

* `ListingRules` (`TypeOK`, `AbsentMatchesListing`), `CatalogueSteady` (`RetireEarned`,
  `ListingNeverGoesBack`), and `InventoryConverges` for liveness.

### ContentGate and ToolLoop (`internal/toolproxy/stream.go`, `loop.go`, `extract.go`, `backend.go`)

`ContentGate` is `contentGate.push` over sequences of tokens, with the opening tag
in several tokens so that deltas can split it. `ToolLoop` is one request in either
driver (`mode`): the backend builds its reply with `Say`, `Reason` and `CallTool`,
and `RoundEnds` is what the driver does with it: run the calls (`RunTools`), hand
them back (`ReturnCalls`), answer (`AnswerJSON`, `AnswerStream`); `Regenerated` and
`BackendFails` are the second ask and every error. The JSON driver sees only whole
replies, so its gate stays empty. Of the text that is left of a reply
(`CleanContent`) only its tokens are kept, since no property asks for their order.
Variables and specification have names of their own (`loopVars`, `LoopInit`, `LoopNext`,
`LoopSpec`), because one module of proofs extends `Dispatch` and `ToolLoop`.

* `GateFaithful` (`NothingLost`, `NoMarkupLeaks`) and `DriversAgree`: the gate.
* `TurnsComplete` (`LoopTypeOK`, `WholeBatch`, `HistoryWellFormed`): the conversation the
  backend is asked to continue.
* `AnswerComplete` (`NoEmptySuccess`, `StreamTerminated`, `UsageIsSum`): what the client
  gets.

### FrontDoor (`internal/auth/*`, `router/auth.go`, `scope.go`, `dashboard_tokens.go`, `routercmd/pat.go`)

`rows` is `pat_tokens`, the one table all replicas share. A request is verified in two
steps, `Lookup` (the `SELECT` of `Verify`) and `Decide` (secret, revocation, expiry);
`Arrive` settles everything that needs no store. `TokenRoute` is the dashboard's mint,
revoke and list behind its gate, `Admin` the command line's, `DashChat` the quick chat.
A statement may commit without being acknowledged; the store and the router go away
and come back. Names and scopes are kept in the spellings that trimming and folding
tell apart, because the paths differ in which they apply.

* `AdmissionJust` (`TypeOK`, `RevokedStaysOut`, `NotYourFault`): no cache, and no outage
  taken for a bad token.
* `WithinFences` (`ScopeIsFloor`, `FamilyFenced`, `AttributionHonest`,
  `TokenNotForwarded`): what an admitted request may reach, and under whose name.
* `AnsweredMeansDone`, `RowsOnlyDie`: answers, and repeats of lost answers.

### Ledger (`router/reqlog/*`, `dashboard_requests.go`, `dashboard_traffic.go`, start and stop in `routercmd/run.go`)

`Boot`, `Open` and `OpenFails` bring a table of any age to the present schema;
`Begin` and `Finish` are a handler, with `Log`'s non-blocking send; `Take`, `Insert` and
`WriterEnds` the writer; `Stop`, `ShutdownReturns`, `Exit` the orderly end and `Crash`
the other. `fate` says what kept a record out of the table. What the queries answer are
operators on the table; the traffic page's two see one prefix of it and then a longer
one, and each may fail (`DashTraffic`). That they hold a connection of the pool
meanwhile is `QueryStarts` and `QueryEnds`: the writer's inserts need one too, and
Postgres' Close waits for all of them.
Times are ticks, `Sec` of them in a second, and SQLite compares them as it writes them
(`StoreTime`): text whose fraction has lost its trailing zeros, so that within a second
they come in another order, any order `FracRank` in the proof.
What is sorted is given by its result (`Ranked`: everybody's place is the number of
those in front), and keys have the order of the list `Keys`, which names them all.

* `RecordsKept` (`TypeOK`, `RowsInLogOrder`, `RecordAccounted`, `StopDrains`): nothing
  lost unaccounted, nothing twice, and shutdown drains.
* `NopMeansOutage`: start-up over a table of any age, after any crash.
* `ChartsAddUp` (`SeriesConserves`, `ErrorsExplained`), `ListingsRight` (`OwnRowsOnly`,
  `NewestFirst`): the readings. Both say where they end: errors are explained on the pages
  whose second query was answered, SQLite's listings are in order to the second, and a
  person called "other" is not covered by what the traffic shows of oneself.
* `LogLives` (`QueueMoves`, `StopCompletes`): liveness, unless an insert into SQLite or,
  for the stop, a query on Postgres never returns.

### Dispatch (`toolproxy/proxy.go`, `resolve.go`, `autorouter.go`, `egress/*`, `health/mirror.go`)

One request of the tool proxy around its loop. Classification is `SeeImage`,
`EmbedPrompt`, `ScoreStep` (one category), `SweepStep` (one name of `firstRoutable`) and
`Upgrade`, each with its own read of the mirror, which `FetchOnce` replaces meanwhile.
A web call is `ClientFor`, `Fetch`, `Store`, `Resolve`, `Attempt`: the look at the cache,
the fetch outside the lock, the publication, the choice and one round trip are steps of
their own. A round trip succeeds, fails and burns its relay, or runs out of the client's
time: then the call fails, and the relay stays for the next one. `Outside` moves seats
(to one of the sets `Verdicts`), router, provider and the cached list.

* `PickJustified` (`PickedSeenUp`, `MatchesReference`): the loop against a whole-set
  definition.
* `ExitsKept` (`TypeOK`, `ExitHonest`, `FailedNotRetried`, `RelaySticks`),
  `RelaysExhausted` (`FailsHonestly`, `CatalogueKeeps`): exits, and which of the three ways
  a call may fail.
* `MirrorCatchesUp`, `WaitsEnd`: liveness.

## 4. The runs

| run | bounds | question | states |
|---|---|---|---|
| `tracker` | a probed seat on two nodes and an external on the same listing base; 2 faults; trip and down-after 2, cooldown 2, Retry-After 1 or 5 capped at 4 | the verdict: safety, and does it recover | 231 k |
| `proxy` | one request; a role over two local seats, a chain of a zero-retention and a retaining provider, two discovered overflow seats of which one lacks a capability; 2 retries | safety, termination and refinement of one request | 4 k |
| `balance` | two symmetric requests; two tied seats, a lower-ranked one and an overflow seat; 1 retry, window of 2 minutes, 3 minutes, 1 poll, 1 change of availability | piling up, rank, counts, window | 1 M |
| `feed` | two requests, ring 2, channel 2, 3 events, 1 fault | mirror correctness and healing | 1.6 M |
| `inventory` | one base, a registry model, two sources with overlapping ids, one reserved name; 3 changes, 2 failures, retire after 2 | listings and catalogue | 43 k |
| `toolloop` | 2 rounds, replies of 4 parts, tag in 2 tokens, one tool of each side | both drivers | 1.7 M |
| `frontdoor` | one request at a time, one token, an owner, a family member whose name is typed with a capital, two synthetic names, five scopes of which one has a blank and one is unknown; 2 instants, 2 faults | who comes in, as whom, how far | 0.5 M |
| `ledger` | three requests, channel of 1, two migrated columns, folds after 1 row, lists of 1; 2 instants of one second, 1 connection, 1 fault | log and readings | 366 k |
| `dispatch` | four prompts of which two tie categories, three names, three relays in two countries; five sets of verdicts, in one of which every category is held back; 2 tries, 2 calls, 2 changes outside | picks and exits | 654 k |
| `tracker_trial`, `proxy_leak`, `proxy_hangup` | as above | sentences of the code's comments that the code does not keep (section 6) | |

Why these bounds are enough for the cases that matter: thresholds of 2 tell "one"
from "in a row"; the capped Retry-After lies on the far side of the default cooldown
and the other on the near side, so a cooldown can be lengthened and cut short; the
walk has more entries than retries, so it ends both ways; ring and channel overflow
within three events; 3 provider changes let an id go, return and go; a reply of four
parts holds a word, a split tag and its body, or a batch that mixes owners; two
rounds let usage, history and an opened stream carry over. A window of 2 minutes wraps
in 3; two requests suffice to race a read, and a head with load 3 to be passed. One
token can be minted, used, revoked and revoked again, and a second request never
shares state with the first beyond that row. A channel of 1 holds, drops and drains
with three requests, and three rows are enough to fold, to order and to cut; its two
instants lie in one second and SQLite's text has them the other way round, and one
connection is enough for a query to stand in the way of the writer. Two tries
and two calls let a relay be burnt in one call and offered in the next.

`feed`, `balance`, `frontdoor` and `ledger` set `CHECK_DEADLOCK FALSE`: they stop once
their events, requests, instants and faults are used up, as the program waits when
nothing comes. The others can always take a step, or end in one that repeats.

**Fairness.** `tracker`: the poll goroutine runs until shutdown with a timeout
on each of its waits, and time passes; requests, operators and the fleet owe
nothing. `proxy`: a handler with work does it, and an upstream call returns (it
answers, its connection fails, or the client's departure cancels it). `feed`: the
server goroutine and the feed goroutine run; identify has a deadline, and the watchdog
cuts a stream that has begun and fallen silent. Nothing is owed of a connect whose
answer does not come. `inventory`: the poll loop goes round, time passes, a
fetch has a hard timeout. `ledger`: the writer runs; Postgres' inserts have a deadline,
which also bounds their wait for a connection, SQLite's have none and owe nothing, nor
do queries. Shutdown has a deadline, and Close returns once what it waits for is so.
`dispatch`: the mirror polls on a ticker; embedding, relay list and round trip have
clients with a timeout. Nothing is owed of the backend's stream in the tool loop and of
the reverse proxy behind a redirected or passed request, which have none: such an answer
may take for ever, so no property says that a request ends, only that the proxy's own
waits do (`WaitsEnd`). No fairness
is assumed of faults, clients or providers; faults are bounded, which is how "after the
last fault" is said.

## 5. What is proved

TLAPS checks every leaf of `TrackerProofs`, `ProxyProofs`, `FrontDoorProofs`,
`BalanceProofs`, `LedgerProofs`, `ToolProxyProofs` (`Dispatch` and `ToolLoop`),
`InventoryProofs` and `FeedProofs`;
they hold for every set of nodes, models, requests, seats, relays and records, every
role, chain, window, tag and threshold that the assumptions named in the modules admit:
`SetsAssumption`, `NumbersAssumption`, `ProxyAssumption`, `FrontDoorAssumption`,
`SyntheticAssumption`, `BalanceAssumption`, `LedgerAssumption`, `DispatchAssumption`,
`RelayAssumption`, `TagAssumption`, `LoopAssumption`, `InventoryAssumption`,
`FeedAssumption`, `RecordAssumption`. They say
what the configuration guarantees: the registry is consistent, thresholds are positive,
a balanced role names a seat and no seat twice (`config.go` drops an empty role), the
lifetimes have a longest, made-up names, relay hosts and the tag are not empty, migrations are a
list, and records are records whose keys can be compared. The bounds of the runs
(instants, polls, faults) occur in the guards, so the theorems hold for every value of
them. One bound is on what is modelled and not only on how much: a reply of `ToolLoop`,
of any length, holds at most one textual block (`OneBlock`).

**Tracker.** The inductive invariant is `IInv == TypeOK /\ RecordsCoherent /\
JobsCurrent`. `RecordsCoherent` says of every record that poll state, breaker and
probe fields agree with their causes (`PollCoherent`, `BreakerCoherent`, a confirmed
seat has no probe error). It is what the parts of `VerdictsEarned` state, but each needs the others' types to survive a step.
`JobsCurrent` ties a probe in flight to the sequence numbers of its seat: a seat
demoted since the round's probes started has a number above its job's. Without it
`SupersededProbeDropped` is not provable, since the action `ApplyProbes` compares
only numbers. One lemma per operator (`ObservationGood`, `ProbeGood`,
`BreakerFailureGood`, `SuccessGood`, ...) shows that it keeps a record coherent; the
actions only place those operators. The action properties about cooldowns follow
from `BreakerMoves`: one step leaves a breaker alone, counts a failure, closes it, or
lets time pass.

**Proxy.** `IInv` says of each request (`GoodRequest`) that its tier is the effective
tier of caller and role, its target meets the role's contract while it is bound, and
everything already sent was permitted. The tier part is what makes privacy inductive:
`applyPrivacy` asks the tier fixed at resolution, and only its equality with the
demands makes a later attempt as safe as the first. `PrivacyHeld`,
`RoleContractHeld` and `TypeOK` follow; that walks stay sequences of entries needs
the order of a role and the tails of it to be typed (`OrderOfType`, `BindToGood`).

The walk has an invariant of its own, `WInv`, a conjunction of what a request keeps true
of its place in the role's list. `Placed` says it stands at a seat of the list, that
what is left to try is the tail behind it, and (`Traced`) that what was sent is found in
front of it in order: `WalksForward` is its consequence, but says nothing of the tail and
so is not inductive. `Tallied` says which of the seats sent to were already charged to
the tracker, phase by phase. `Marked` is why headers that are set and never removed
still name the server: all entries behind an overflow entry are overflow entries
(`OverflowLast`, a lemma about the order of a role). `Withheld` keeps the decision to
withhold an error together with the tail and the retry it was made for, and `Refused`
that a 403 without a target means no seat of the list is permitted. That a role's list
is a sequence of seats (`RoleSeats`) is a lemma, by induction along the concatenation of
its chains.

**Refinement.** `Refinement` is `Spec => ImplementsService`: handleProxy implements
`Service` under the mapping of `ProxyService`. `IInv` says which seats were permitted;
the mapping needs two more facts (`TidyInv`): the response is untouched until the
request is done, without which a step in the middle could change the job's result, and
the number of tries is bounded by `attempt`, without which a failover could be one too
many for `Service`. Five lemmas (`MoveAccept`, `MoveTurnAway`, `MoveTry`, `MoveLose`,
`MoveFinish`) tell a move of a job from the job before and after it, and one lemma per
group of actions (`EarlyMaps`, `SendMaps`, `PassOrAbortMaps`, `FailMaps`, ...) shows
which move its step is. A failover is a lost try, a refusal in mid-walk turns the job
away, a disconnect leaves it alone.

**FrontDoor.** The run has one request and one token; the proof is for any number of
both, at any number of replicas. The argument is that a row only dies: `Since(old, new)`
says of a row read earlier and the row now that person, scope and expiry are the same
and a revocation stands, and `Grows` that this is so of every row over a step. So what
`Lookup` read stays right of the table until `Decide`, up to a death in between, and
`ReadGood`, which says exactly that, is the strengthening: without it the invariant
knows nothing of a request between its two steps. `DeadStays` and `Persists` carry
every fact about a request over time and over other requests' writes, `GoodAdmit` and
`GoodAnswer` show what it takes to let a request in and to turn it away, and one lemma
per action (`LookupGood`, `DecideGood`, `ArriveGood`, `TokenRouteKeeps`, ...) supplies
it. `WithinFences` also rests on a row having at most one scope (`GoodRow`), which both
ways of minting ensure: then the strictest scope is that one (`ScopeOfOne`).

**Balance.** `Good` has three parts. `Counted`: a seat's count lies between the attempts
that are out on it and those plus the requests that have ended. The upper bound is
needed although no property asks for it, because an abort leaves a count behind for good
and a type invariant with a bound on counts would otherwise not survive the next send.
`TrackedBy`: while a request chooses, no pressure has moved from what it read by more
than the changes it raced with, and no two have moved apart by more. One change moves
one seat by one, or (a tick) several seats the same way, which is why the difference
needs a clause of its own. `Best`: the choice is preferred by what was read. It rests on
the order being one (`BeforeIsOrder`, `OrderArranged`: every seat has its place and
better ones stand in front), on what the override does to it (`OverrideMoves`) and on
the walk taking the first routable seat (`WalkFinds`). `PileUpBounded` is `Best` and
`TrackedBy` together.
`StatsGood` relates the ring to the history: a bucket holds its minute's attempts, or
nothing ever fell on its place (`BucketFits`); an attempt of the last window has its
bucket (`Kept`); `failingSince` is the first failure behind the last success
(`SinceIs`). `Kept` is what makes emptying a bucket safe: the minute it held is a whole
window old, since two minutes of one place less than a window apart are the same one
(`ModDistinct`). The sums of `WindowExact` are folds; `SumIsCount` says once that the
sum of the sizes of a set's classes is the size of the set.

**Ledger.** `IInv`: what is stored, the record at the writer and the queue follow each
other in the order of acceptance, no record twice (`InOrder`); a record whose handler is
done is in one of them or has a fate (`AllKept`); where the process is says which of
them are empty (`EmptyHanded`) and which columns the table has (`Migrated`). Of these
only their combination is inductive: that a crash loses exactly what is queued needs
`AllKept`, that the next process starts empty needs `EmptyHanded`. `NopIsAnOutage`
follows from `Migrated`: columns are only ever added, so an opening that starts from any
subset of them completes it or has met a failing store.
The readings are lemmas about the operators, over any table. `Parted` says that the rows
of a chart divide the requests among them; it holds of the series, folded or not
(`SeriesRowed`), and of a person's own row cut out of it (`OwnParted`). `SumIsCount`
turns it into the sums (`ChartSums`). That every request of the window has a bucket
(`InGrid`) needs that no handler began in the future (`Timely`), which the type
invariant does not say. `NewestFirst` rests on the sort being one (`RankedIs`) of a
strict order (`NewerOrders`), whatever order the text gives the fractions of a second,
which is why it is claimed of SQLite to the second: stored requests have different rows because `InOrder`
allows no repetition (`StoredDistinct`).

**Dispatch.** `Exits` says of a request which exit it has chosen, that a relay it holds
is of the region and not burnt, that the relays that failed are burnt, and that one used
last without failing is still held (`InUse`), from which `RelaySticks` follows at the next
round trip; `Trimmed` counts round trips against calls and tries. `Seen` and `Scanned` are the loop
invariants of the classification: of the names in front of the position, the best so
far leads those the mirror let through, as long as the mirror did not move. The
reference definition of `PickJustified` speaks of the whole set, so each step of the
loop must say what it has excluded.

**ToolLoop.** The gate is proved apart from the loop. `Held` relates what was forwarded
(`sh`), the gate and the text so far: they are always together the text; while the gate
waits, the text holds no tag and the pending part is the longest beginning of one at its
end; once it captures, the captured part begins where the first tag does. `PushGood`
shows that `push` keeps `Held` for any tag and any delta. The longest beginning is what
makes it inductive: a tag that a later delta completes begins in what is pending, never
in what was forwarded (`NoneInForwarded`, from `Straddles`: an occurrence that lies across
the end of the old text leaves a beginning of the tag there, so one no longer than the
pending part). `AllSent`, `NoTagShown` and `CapturedCalls` read the three promises off
`Held`: the flushes complete the text, no tag was shown, and the first block of the
captured part is the first block of the whole (the tag and the closing one behind it keep
their distance), so both drivers find the same call.
`Conversation(ms, r, n)` says of the added turns that each assistant turn is followed by
the results of its calls, all of them the proxy's, that `n` results are there, and that
every result is of a round before `r`; the last part is why a batch handed back in round
`r` was not run. `Continued` adds a round to it.
`LoopIInv` joins the two with what the client has: until the reply is over nothing was
sent or deltas only, a stream is open exactly when there is an event, and text or
thinking that was shown is one (`Asking`). That is what the properties need at the end,
where each driver's last step establishes them (`Settled`): a stream that cannot be
answered with a 502 any more has shown something, and one that is still closed has
nothing to close. `Open` and `Closed` say how a stream grows to its one `[DONE]`
(`Sends`, `Closes`, `FinishCloses`).

**Inventory.** `IInv` adds two things to the absent marks. `OneFetch`: a base has a fetch
in flight or none, and what it has answered is newer than the listing in use, which is
all that `ListingNeverGoesBack` needs. `Catalogued`: an entry was adopted by its source
under a name nobody reserves, and has no more misses than good listings left it out. The
sources of a base are applied one after the other, and a later one may refresh or adopt
what an earlier one missed, so the step is a loop invariant (`Between`) over the sources
already applied: whose misses count with this listing, whose still without it, and that a
name can be empty in mid-loop only if it was earned. That an entry's own source drops it
only when its id is not listed rests on names being distinct per source (`StepBetween`).

**Feed.** `Holds` says what a ring is after any log: the newest `Cap` events of it, each
at its position modulo `Cap`. Publishing keeps it (`PublishIs`, with the arithmetic of
the wrap in `ModNext` and `ModDistinct`), and a page is shown the suffix because of it.
For the mirror, `StreamGood` says where every event is as long as the subscription has
dropped none: the queue (frames sent and unread, then the channel) is the end of the
log (`EndOf`), so what comes next is the event after the last one read. The in-flight set under the
queue, be it still the origin's, the handler's copy, in the snapshot frame or the
mirror's, agrees with the peer's for every request the queue does not mention (`Agrees`):
that is what the order "subscribe, then look" buys, and `SendSnapshotThenSubscribe`
breaks it. The two critical sections of the snapshot may see different logs, hence
`TwoRuns`: the mirror's ring was given the newest of the first `n` events and then a run
up to the last one read, which begins at or before the `n`-th and so leaves no hole,
though it may repeat events. With an empty queue this is `MirrorFaithful`. `Framed` (one
snapshot, first, and nothing else but single events) makes the frames readable as a
queue at all.

**Induction.** The library's induction theorems take an operator and cannot be used, but
the least element of a set of naturals can be had (`SmallestNat`, from `WFMin`), and
with it induction over an explicit set (`Induct`). It carries the four recursions
the theorems depend on: the concatenation of chains, the sums over buckets, the
sources of a listing and the filling of a ring. `SortSeq` stays out of reach, which is why `Order` and `Ranked` are written as places.

**Only model-checked.** All liveness (fairness is out of the prover's reach):
`BreakerAdmitsTrial`, `SeatRecovers`, `EveryRequestEnds`, `FeedHeals`,
`InventoryConverges`, `LogLives`, `MirrorCatchesUp`, `WaitsEnd`. And the three
sentences of section 6 that a run refutes.

## 6. Where comments and code disagree

Shown by a run:

* `tracker_trial`: "A failure on the half-open trial reopens the breaker". A probed
  seat whose trial fails with the warming signal returns before the breaker is
  touched; the breaker keeps admitting.
* `proxy_leak`: the in-flight count is "requests this router is proxying right now".
  A response that breaks off mid-body leaves through a panic, past the call that
  lowers the count.
* `proxy_hangup`: "Only genuine transport-level failures should be reported". A client
  that hangs up is reported as a failure of the seat.

Met while reading, and modelled as the code does it where a module has the lines:

* `ModelScope` returns a scope as it was stored, and `scopeTier` compares it untrimmed,
  while `ValidateScopes` trims. A scope minted on the command line with a blank around
  it passes validation and demands nothing. `ScopeIsFloor` is stated for the spellings
  the code knows; `FrontDoor` contains the other one.
* The chain header is set and never removed across attempts (`router.go:696`), although
  `roles.go:245-248` wants the label to follow the entry.
* `writeStoreError` says an unreachable store is a 503; the errors of `Mint`, `List` and
  `RevokeOwned` do not wrap `ErrStoreUnavailable`, so it is a 500.
* The dashboard's gate refuses only the `legacy:` prefix of the reserved ones.
* "one person in the store" (`normalizePrincipal`): the command line only trims.
* `auth.go` says of scopes that nothing enforces them yet; `scope.go` does.
* `Log` after `Close` panics when handlers outlive the shutdown (fate `panic`).
* SQLite's usage query compares a `time.Time` as the driver writes it with text, so its
  window begins at midnight (`UsageRows`).
* `sqlite.go:18-19` calls its times "lexically sortable"; they drop trailing zeros, so
  within a second "5.5Z" sorts before "5Z", and newest-first with its limit is right to
  the second only (`StoreTime`, `NewestFirst`).
* A traffic page whose second query fails shows the errors of the series beside an empty
  list of failures (`dashboard_traffic.go:57-61`).
* "a non-owner asking by principal sees only their own row" (`dashboard_traffic.go:6-7`):
  a person whose name is "other" is shown the folded row of everybody past the limit
  (`series.go:161`).
* Dashboard queries run on the request's context, without a deadline and uncancelled by
  Shutdown; `PostgresSink.Close` waits for their connections (`postgres.go:178-186`).
  SQLite's Close does not wait for readers, but its inserts have no deadline
  (`sqlite.go:224`) where Postgres' have (`postgres.go:202`).
* `peerDialTimeout` "bounds the overview probe and the SSE connect" (`peers.go:44-46`);
  only `identify` uses it. A peer that accepts the connect and is quiet parks the feed:
  `client.Do` has no deadline, and the watchdog starts behind it (`peers.go:240`, `252`).
* A relay that hangs is not failed over although `selector.go:70-71` says so of a dead
  one: the client's timeout (`selector.go:95`) expires the request's own context, which
  `RoundTrip` takes for the caller's (`selector.go:183-185`). The call fails on one relay
  with others untried, and the next call of the request uses the same relay.
* `docs/tool-proxy-egress.md:106-107` has a failing relay fall back in the end; once one
  was chosen nothing falls back on the base client (`ExitHonest`).
* `series.go` says the usage panel leaves out refusals "the same way"; it counts them as
  failures (`IsUsageFailure`).
* The traffic page filters a non-owner's row after the fold, so it may be in "other".
* `opus` is in no availability document, so the mirror never holds it back.
* An image is sent to `coder` when vision is down and coder is up, although the comment
  says otherwise.
* An exit named by host falls over to other relays of its city; `X-Egress-Exit` names
  the first one.
* `markServed` says "successful completion"; any answer that passed through other than a
  fleet seat's 503 keeps the seat warm.
* Probed seats are not routable between the first observation and the first probe; an
  answer withheld for a candidate that has gone becomes a 502; nested discovery prefixes
  collide; text behind a textual call of the client's is dropped from a stream.
* `httpx.Recover` also recovers the panic by which a broken body aborts the connection.

## 7. What is left out

* Of `Tracker`: seat loads and node statuses, which only the dashboard and the
  balancer read (`Balance` takes the loads as a table that a poll brings).
* Of `Proxy`: roles with `balance: pressure` (they are in `Balance`), aliases and egress aliases, the
  arithmetic of the token estimate (whether a prompt is too large is chosen freely),
  rewriting of bodies, the wording of errors.
* Of `Feed`: the merge of several brokers for one page, unreadable frames, a mirror of
  a mirror. Request ids are taken to be unique.
* Of `Inventory`: glob syntax, prices, the parsing of listings; names of different
  sources are distinct.
* Of `ToolLoop`: message texts beyond what the properties tell apart (emptiness,
  thinking, markup), the text in the object that carries the client's calls, calls
  without a name, chunks that carry only timings, two textual calls in one reply, and
  what a tool does.
* Of `Balance`: privacy, contracts and chains on the walk; the header that explains a
  choice.
* Of `FrontDoor`: hashes and the wire format of a token (a secret is right or wrong),
  `last_used`, labels, redaction of connection strings.
* Of `Ledger`: the memory sink, latencies and token sums, the session index, ties beyond
  the order of insertion.
* Of `Dispatch`: embeddings as vectors (a prompt has a score per category), what makes a
  prompt hard, a configured default exit, more than one request at a time.
* The components of section 1 that section 3 does not name. They are parsing,
  translation, pages, queries or wiring, except those in the plan.
