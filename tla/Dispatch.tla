------------------------------ MODULE Dispatch ------------------------------
(***************************************************************************)
(* What the tool proxy does with a chat request around its tool loop.  The *)
(* names auto, auto-free and auto-full are classified: the prompt is       *)
(* scored against embedded categories and the best one that the mirrored   *)
(* availability does not know to be down is sent back to the router.  Any  *)
(* other name is resolved in the registry and passed through or given to   *)
(* the tool loop, whose web calls leave by the exit the caller asked for   *)
(* and fail over between the relays of that exit.                          *)
(*                                                                         *)
(* Every read of the mirror and of the relay list is a step: the mirror's  *)
(* poller, the embedder's start-up loop and other requests run in between. *)
(***************************************************************************)
EXTENDS Integers, FiniteSets, Sequences

CONSTANTS
  Listed,        \* names in the router's availability document
  Verdicts,      \* bound: sets of names the router may come to find up
  Prompts,       \* [msg : {"image", "text", "none"}, score, hard : 0 .. 2]
  Passes,        \* bound: what one pass over the categories may manage to embed
  Registry,      \* id -> [enabled, external, nothink : BOOLEAN, names : SUBSET STRING]
  Named,         \* model names callers send, other than the tiers
  Relays,        \* relay -> [country, city]
  Specs,         \* exits callers ask for: [host, country, city], "" for what is not given
  MaxTries,      \* relays one call may try
  MaxCalls,      \* bound: web calls of one request
  MaxFlips       \* bound: changes of the world outside

Cats == <<"coder", "thinker", "research", "vision">>
Categories == {Cats[i] : i \in DOMAIN Cats}
Tiers == {"auto", "auto-free", "auto-full"}
Escalation == "opus"
EU == {"se", "de"}
None == "none"
Default == [host |-> "", country |-> "", city |-> ""]
Classifying == {"image", "embed", "score", "sweep", "upgrade", "redirected"}

ASSUME DispatchAssumption ==
  /\ Prompts # {}
  /\ \A p \in Prompts : /\ p.msg \in {"image", "text", "none"}
                         /\ p.score \in [Categories -> Nat] /\ p.hard \in 0 .. 2
  /\ Passes \subseteq SUBSET Categories
  /\ MaxTries \in Nat \ {0} /\ MaxCalls \in Nat /\ MaxFlips \in Nat
  /\ Escalation \notin Listed /\ Verdicts \subseteq SUBSET Listed /\ {None, "default"} \cap DOMAIN Relays = {}
  /\ \A s \in Specs : s.host \in DOMAIN Relays => /\ s.country = Relays[s.host].country
                                                  /\ s.city = Relays[s.host].city

(* A relay has a name: the empty one stands for an exit not yet chosen.    *)
ASSUME RelayAssumption == "" \notin DOMAIN Relays

VARIABLES
  avail,      \* the router's own verdict: the listed names that can serve
  reachable,  \* the router answers the mirror's polls
  mirror,     \* Mirror.state: [fresh, up]
  embedded,   \* the categories whose embeddings are published
  listing,    \* relays the provider lists as active
  cache,      \* Catalogue: [relays, fresh]
  q,          \* the request being handled
  flips

world == <<avail, reachable, listing, flips>>
vars == <<avail, reachable, mirror, embedded, listing, cache, q, flips>>

-----------------------------------------------------------------------------
(* The mirror fails open: a name is held back only when a fresh document   *)
(* lists it as down.                                                       *)
MirrorRoutable(name) == mirror.fresh /\ name \in Listed => name \in mirror.up

(* Mutant: a failed fetch leaves the last document in force.               *)
FetchOnceKeeps ==
  /\ mirror' = IF reachable THEN [fresh |-> TRUE, up |-> avail] ELSE mirror
  /\ q' = [q EXCEPT !.moved = @ \/ (q.pc \in Classifying /\ mirror' # mirror)]
  /\ UNCHANGED <<world, embedded, cache>>

(* Mirror.FetchOnce: a failed fetch marks the state stale.                 *)
FetchOnce ==
  /\ mirror' = IF reachable THEN [fresh |-> TRUE, up |-> avail] ELSE [fresh |-> FALSE, up |-> {}]
  /\ q' = [q EXCEPT !.moved = @ \/ (q.pc \in Classifying /\ mirror' # mirror)]
  /\ UNCHANGED <<world, embedded, cache>>

(* RunInit, until a pass of Initialize embeds anything: what it embedded   *)
(* is published and stays.                                                 *)
Initialize ==
  /\ embedded = {}
  /\ embedded' \in Passes
  /\ q' = [q EXCEPT !.moved = @ \/ (q.pc \in Classifying /\ embedded' # embedded)]
  /\ UNCHANGED <<world, mirror, cache>>

-----------------------------------------------------------------------------
(* A request's local state.  up and down are the names a read of the       *)
(* mirror let through or held back, moved whether the mirror changed while *)
(* the request was classified; label is the X-Egress-Exit header; log has  *)
(* every round trip of its web calls, with the exit it left by.            *)
Idle ==
  [ pc |-> "idle", tier |-> "auto", prompt |-> CHOOSE p \in Prompts : TRUE, at |-> 0,
    best |-> None, final |-> FALSE, up |-> {}, down |-> {}, moved |-> FALSE, picked |-> None,
    spec |-> Default, label |-> "", relay |-> None, tried |-> {}, tries |-> 0, calls |-> 0,
    log |-> <<>>, fetched |-> {} ]

(* canRoute, remembered.                                                   *)
Saw(r, name) ==
  IF MirrorRoutable(name) THEN [r EXCEPT !.up = @ \cup {name}] ELSE [r EXCEPT !.down = @ \cup {name}]

Picked(r, alias) == [r EXCEPT !.pc = "redirected", !.picked = alias]

(* handleChat for an auto tier; Classify loads the embeddings once.        *)
ArriveAuto(tier, p) ==
  /\ q.pc = "idle"
  /\ LET r == [Idle EXCEPT !.tier = tier, !.prompt = p] IN
     q' = CASE embedded = {} -> Picked(r, "coder")
            [] embedded # {} /\ p.msg = "image" -> [r EXCEPT !.pc = "image"]
            [] embedded # {} /\ p.msg = "none" -> [r EXCEPT !.pc = "sweep", !.final = TRUE]
            [] embedded # {} /\ p.msg = "text" -> [r EXCEPT !.pc = "embed"]
  /\ UNCHANGED <<world, mirror, embedded, cache>>

(* An image goes to vision; when vision is down the message has no text to *)
(* classify and the sweep decides.                                         *)
SeeImage ==
  /\ q.pc = "image"
  /\ q' = IF MirrorRoutable("vision") THEN Picked(Saw(q, "vision"), "vision")
          ELSE [Saw(q, "vision") EXCEPT !.pc = "sweep", !.final = TRUE]

EmbedPrompt ==
  /\ q.pc = "embed"
  /\ \/ q' = [q EXCEPT !.pc = "score", !.at = 1]
     \/ q' = [q EXCEPT !.pc = "sweep", !.final = TRUE]

Score(name) == q.prompt.score[name]

(* Mutant: an equal score displaces the earlier category.                  *)
BeatsOrTies(name) == q.best = None \/ Score(name) >= Score(q.best)

Beats(name) == q.best = None \/ Score(name) > Score(q.best)

(* One category of the scoring loop, in declared order.  The mirror is     *)
(* asked only about a category that beats the best routable one so far.    *)
ScoreStep ==
  /\ q.pc = "score"
  /\ LET cat == Cats[q.at]
         asked == cat \in embedded /\ Beats(cat)
         r == IF asked THEN Saw(q, cat) ELSE q
         b == IF asked /\ MirrorRoutable(cat) THEN cat ELSE q.best
         last == q.at = Len(Cats)
     IN q' = [r EXCEPT !.best = b,
                       !.at = IF last THEN 0 ELSE q.at + 1,
                       !.pc = IF ~last THEN "score" ELSE IF b = None THEN "sweep" ELSE "upgrade"]

(* firstRoutable("coder"): coder, then every category in declared order,   *)
(* then coder all the same.  After scoring, the result may be upgraded.    *)
Swept(r, alias) ==
  IF r.final THEN Picked(r, alias) ELSE [r EXCEPT !.pc = "upgrade", !.best = alias]

SweepStep ==
  /\ q.pc = "sweep"
  /\ LET name == IF q.at = 0 THEN "coder" ELSE Cats[q.at]
         r == Saw(q, name)
     IN q' = CASE MirrorRoutable(name) -> Swept(r, name)
               [] ~MirrorRoutable(name) /\ q.at < Len(Cats) -> [r EXCEPT !.at = @ + 1]
               [] ~MirrorRoutable(name) /\ q.at = Len(Cats) -> Swept(r, "coder")

(* Complexity upgrades, for coding tasks of the two higher tiers.  The     *)
(* escalation alias is in no document and so is never held back.           *)
Upgrade ==
  /\ q.pc = "upgrade"
  /\ LET may == q.best = "coder" /\ q.tier # "auto"
         full == may /\ q.tier = "auto-full" /\ q.prompt.hard = 2
         r == IF full THEN Saw(q, Escalation) ELSE q
         hard == may /\ q.prompt.hard >= 1
     IN q' = IF full /\ MirrorRoutable(Escalation) THEN Picked(r, Escalation)
             ELSE IF ~hard THEN Picked(r, q.best)
             ELSE Picked(Saw(r, "coder-hard"), IF MirrorRoutable("coder-hard") THEN "coder-hard" ELSE q.best)

Classify ==
  /\ SeeImage \/ EmbedPrompt \/ ScoreStep \/ SweepStep \/ Upgrade
  /\ UNCHANGED <<world, mirror, embedded, cache>>

-----------------------------------------------------------------------------
(* resolveModel walks a Go map, so of several enabled matches any one may  *)
(* be found first.                                                         *)
Matches(name) ==
  {id \in DOMAIN Registry : Registry[id].enabled /\ name \in {id} \cup Registry[id].names}

(* handleChat for any other name: 404, passed through, or the tool loop.   *)
ArriveNamed(name, spec) ==
  /\ q.pc = "idle"
  /\ \/ /\ Matches(name) = {} \/ \E id \in Matches(name) : Registry[id].external
        /\ q' = [Idle EXCEPT !.pc = "refused"]
     \/ \E id \in Matches(name) :
          /\ ~Registry[id].external
          /\ q' = IF Registry[id].nothink THEN [Idle EXCEPT !.pc = "passed", !.picked = id]
                  ELSE [Idle EXCEPT !.pc = "exit", !.picked = id, !.spec = spec]
  /\ UNCHANGED <<world, mirror, embedded, cache>>

-----------------------------------------------------------------------------
(* Exits.  A spec is a relay's name, a country, a country and city, the EU *)
(* or any; a relay's name also reads as its country and city.              *)
Region(spec) ==
  {r \in DOMAIN Relays :
     /\ \/ spec.country \in {"any", Relays[r].country}
        \/ spec.country = "eu" /\ Relays[r].country \in EU
     /\ spec.city \in {"", Relays[r].city}}

(* Mutant: the relays that failed are offered again.                       *)
ResolvableAgain(spec, relays, tried) ==
  IF spec.host \in relays THEN {spec.host} ELSE Region(spec) \cap relays

(* ResolveExcluding: the relay itself while it is listed and not excluded, *)
(* else any match.                                                         *)
Resolvable(spec, relays, tried) ==
  IF spec.host \in relays \ tried THEN {spec.host} ELSE (Region(spec) \cap relays) \ tried

Bare(r) == [r EXCEPT !.pc = "loop", !.label = "default"]

(* A resolution that found nothing, or had no list to look in: ClientFor   *)
(* falls back on the base client, a call that was failing over fails.      *)
Unresolved(r) ==
  IF r.label = "" THEN Bare(r) ELSE [r EXCEPT !.pc = "failed"]

(* ClientFor, and ensureFresh's look at the cache.                         *)
ClientFor ==
  /\ q.pc = "exit"
  /\ q' = CASE q.spec = Default -> Bare(q)
            [] q.spec # Default /\ cache.fresh /\ cache.relays # {} -> [q EXCEPT !.pc = "resolve"]
            [] q.spec # Default /\ ~(cache.fresh /\ cache.relays # {}) -> [q EXCEPT !.pc = "fetch"]
  /\ UNCHANGED cache

(* Catalogue.fetch, outside the lock.  A list without an active relay is   *)
(* an error; after an error a cached list serves.                          *)
Fetch ==
  /\ q.pc = "fetch"
  /\ \/ listing # {} /\ q' = [q EXCEPT !.pc = "store", !.fetched = listing]
     \/ q' = IF cache.relays # {} THEN [q EXCEPT !.pc = "resolve"] ELSE Unresolved(q)
  /\ UNCHANGED cache

Store ==
  /\ q.pc = "store"
  /\ cache' = [relays |-> q.fetched, fresh |-> TRUE]
  /\ q' = [q EXCEPT !.pc = "resolve", !.fetched = {}]

Resolve ==
  /\ q.pc = "resolve"
  /\ LET found == Resolvable(q.spec, cache.relays, q.tried) IN
     \/ found = {} /\ q' = Unresolved(q)
     \/ \E r \in found :
          q' = IF q.label = "" THEN [q EXCEPT !.pc = "loop", !.relay = r, !.label = r]
               ELSE [q EXCEPT !.pc = "attempt", !.relay = r]
  /\ UNCHANGED cache

(* The tool loop makes a web call, or ends.                                *)
Call ==
  /\ q.pc \in {"loop", "failed"}
  /\ \/ q' = [q EXCEPT !.pc = "done"]
     \/ q.calls < MaxCalls /\ q' = [q EXCEPT !.pc = "attempt", !.calls = @ + 1, !.tries = 0]
  /\ UNCHANGED cache

Logged(r, exit, how) == [r EXCEPT !.log = Append(@, [exit |-> exit, how |-> how])]

(* Mutant: the tries of one call are not counted.                          *)
AttemptForever ==
  /\ q.pc = "attempt"
  /\ q' = IF q.relay = None THEN [q EXCEPT !.pc = "exit"]
          ELSE [q EXCEPT !.relay = None]
  /\ UNCHANGED cache

(* Mutant: one failed round trip is taken for the exit's.                  *)
AttemptOnce ==
  /\ q.pc = "attempt"
  /\ q' = IF q.label = "default" THEN [Logged(q, "default", "ok") EXCEPT !.pc = "loop"]
          ELSE IF q.relay = None THEN [q EXCEPT !.pc = "exit"]
          ELSE [Logged(q, q.relay, "failed") EXCEPT !.pc = "failed", !.tries = @ + 1,
                  !.relay = None, !.tried = @ \cup {q.relay}]
  /\ UNCHANGED cache

(* One round of retryTransport.RoundTrip, or the base client's only one.   *)
(* A failure burns the relay for the rest of the request, unless the       *)
(* call's context is over: the client's timeout has run out, and the call  *)
(* fails with its relay kept for the next one; or the caller has gone.     *)
Attempt ==
  /\ q.pc = "attempt"
  /\ \/ /\ q.label = "default"
        /\ \/ q' = [Logged(q, "default", "ok") EXCEPT !.pc = "loop"]
           \/ q' = [Logged(q, "default", "failed") EXCEPT !.pc = "failed"]
     \/ q.label # "default" /\ q.relay = None /\ q' = [q EXCEPT !.pc = "exit"]
     \/ /\ q.relay # None
        /\ \/ q' = [Logged(q, q.relay, "ok") EXCEPT !.pc = "loop"]
           \/ q' = [Logged(q, q.relay, "late") EXCEPT !.pc = "failed"]
           \/ q' = [q EXCEPT !.pc = "done"]
           \/ q' = [Logged(q, q.relay, "failed") EXCEPT
                      !.tried = @ \cup {q.relay}, !.relay = None, !.tries = @ + 1,
                      !.pc = IF q.tries + 1 = MaxTries THEN "failed" ELSE "attempt"]
  /\ UNCHANGED cache

Egress ==
  /\ ClientFor \/ Fetch \/ Store \/ Resolve \/ Call \/ Attempt
  /\ UNCHANGED <<world, mirror, embedded>>

(* The answer has been copied to the caller.                               *)
End ==
  /\ q.pc \in {"redirected", "refused", "passed", "done"}
  /\ q' = Idle
  /\ UNCHANGED <<world, mirror, embedded, cache>>

-----------------------------------------------------------------------------
(* The world outside: seats come and go, the router is away, the provider  *)
(* lists other relays, the list expires, another request refreshes it.     *)
Outside ==
  /\ flips < MaxFlips
  /\ flips' = flips + 1
  /\ \/ avail' \in Verdicts /\ UNCHANGED <<reachable, listing, cache>>
     \/ reachable' = ~reachable /\ UNCHANGED <<avail, listing, cache>>
     \/ /\ \/ listing' = {}
           \/ \E r \in listing : listing' = listing \ {r}
        /\ UNCHANGED <<avail, reachable, cache>>
     \/ cache.fresh /\ cache' = [cache EXCEPT !.fresh = FALSE] /\ UNCHANGED <<avail, reachable, listing>>
     \/ /\ ~cache.fresh /\ listing # {}
        /\ cache' = [relays |-> listing, fresh |-> TRUE]
        /\ UNCHANGED <<avail, reachable, listing>>
  /\ UNCHANGED <<mirror, embedded, q>>

Init ==
  /\ avail = Listed /\ reachable = TRUE
  /\ mirror = [fresh |-> FALSE, up |-> {}]
  /\ embedded = {}
  /\ listing = DOMAIN Relays
  /\ cache = [relays |-> {}, fresh |-> FALSE]
  /\ q = Idle /\ flips = 0

Next ==
  \/ FetchOnce \/ Initialize \/ Outside
  \/ \E tier \in Tiers, p \in Prompts : ArriveAuto(tier, p)
  \/ \E name \in Named, spec \in Specs : ArriveNamed(name, spec)
  \/ Classify \/ Egress \/ End

Spec == Init /\ [][Next]_vars

(* The mirror polls on a ticker.  A classification and a web call run on:  *)
(* embedding, list and round trip have clients with a timeout.  Nothing is *)
(* owed of the rest: neither the loop's backend stream nor the reverse     *)
(* proxy has one, so an answer may take for ever.                          *)
Outbound == {"exit", "fetch", "store", "resolve", "attempt"}
FairSpec ==
  Spec /\ WF_vars(FetchOnce) /\ WF_vars(Classify) /\ WF_vars(Egress /\ q.pc \in Outbound)

-----------------------------------------------------------------------------
(* Every variable keeps its type; no call makes more than MaxTries round   *)
(* trips.                                                                  *)
TypeOK ==
  /\ avail \subseteq Listed /\ reachable \in BOOLEAN
  /\ mirror \in [fresh : BOOLEAN, up : SUBSET Listed]
  /\ embedded \subseteq Categories
  /\ listing \subseteq DOMAIN Relays
  /\ cache \in [relays : SUBSET DOMAIN Relays, fresh : BOOLEAN]
  /\ q.at \in 0 .. Len(Cats) /\ q.best \in Categories \cup {None}
  /\ q.tried \subseteq DOMAIN Relays /\ q.relay \in DOMAIN Relays \cup {None}
  /\ q.tries \in 0 .. MaxTries /\ q.calls \in 0 .. MaxCalls
  /\ Len(q.log) <= MaxCalls * MaxTries
  /\ flips \in 0 .. MaxFlips

(* Classification never sends a request to a seat it saw to be down while  *)
(* it saw another category up: a name is picked because a read of the      *)
(* mirror let it through, or it is coder because every category was held   *)
(* back (or nothing is embedded yet and nothing was asked).                *)
PickedSeenUp ==
  q.pc = "redirected" =>
    \/ q.picked \in q.up
    \/ q.picked = "coder" /\ (Categories \subseteq q.down \/ (q.up = {} /\ q.down = {}))

(* What firstRoutable and the scoring loop should find, stated over the    *)
(* whole set: the routable embedded category of the highest score, the     *)
(* first one on ties.                                                      *)
Place(c) == CHOOSE i \in DOMAIN Cats : Cats[i] = c
FirstOf(S) == CHOOSE c \in S : \A d \in S : Place(c) <= Place(d)
Usable == {c \in Categories : MirrorRoutable(c)}
Fallback == IF Usable = {} THEN "coder" ELSE FirstOf(Usable)
Best ==
  LET S == Usable \cap embedded
      top == {c \in S : \A d \in S : Score(c) >= Score(d)}
  IN IF S = {} THEN Fallback ELSE FirstOf(top)
Choice ==
  CASE embedded = {} -> "coder"
    [] embedded # {} /\ q.prompt.msg = "image" -> IF "vision" \in Usable THEN "vision" ELSE Fallback
    [] embedded # {} /\ q.prompt.msg # "image" /\ q.final -> Fallback
    [] embedded # {} /\ q.prompt.msg # "image" /\ ~q.final ->
         IF Best # "coder" \/ q.tier = "auto" \/ q.prompt.hard = 0 THEN Best
         ELSE IF q.tier = "auto-full" /\ q.prompt.hard = 2 THEN Escalation
         ELSE IF MirrorRoutable("coder-hard") THEN "coder-hard" ELSE "coder"

(* While neither the mirror nor the embeddings move, the loop that walks   *)
(* the categories and asks the mirror one name at a time picks what a      *)
(* whole-set definition of the best routable category picks.               *)
MatchesReference == q.pc = "redirected" /\ ~q.moved => q.picked = Choice

(* A pick is justified: by reads of the mirror that let it through, and by *)
(* the scores, where nothing moved under the classification.               *)
PickJustified == PickedSeenUp /\ MatchesReference

(* A web call leaves by the exit the answer's header promises: all of the  *)
(* calls of a request labelled default by the base client, and every round *)
(* trip of any other, failovers included, from inside the asked region;    *)
(* running out of relays never falls back on the base client.              *)
ExitHonest ==
  \A i \in DOMAIN q.log :
    IF q.label = "default" THEN q.log[i].exit = "default" ELSE q.log[i].exit \in Region(q.spec)

(* A relay that failed a request's round trip is not used by that request  *)
(* again, in this call or in a later one, whatever the refreshed list      *)
(* says.  One on which a call's time ran out has not failed in this sense. *)
FailedNotRetried ==
  \A i, j \in DOMAIN q.log :
    i < j /\ q.log[i].exit # "default" /\ q.log[i].how = "failed" => q.log[j].exit # q.log[i].exit

(* The exit of a request changes after a failure only: the next round trip *)
(* leaves by the same relay after a success, and also after a call whose   *)
(* time ran out on it, though other relays of the region are listed.       *)
RelaySticks ==
  \A i \in 1 .. Len(q.log) - 1 : q.log[i].how # "failed" => q.log[i + 1].exit = q.log[i].exit

(* Exits are kept: every round trip leaves by what the header promises,    *)
(* the exit changes after a failure only, and a burnt relay is not used    *)
(* again.                                                                  *)
ExitsKept == TypeOK /\ ExitHonest /\ FailedNotRetried /\ RelaySticks

(* A call by a chosen exit fails only when MaxTries relays have failed it, *)
(* the region has no listed relay left that this request has not tried, or *)
(* its time ran out: then on one relay, which it neither burns nor leaves. *)
GaveUp ==
  /\ q.pc # "failed" /\ q'.pc = "failed" /\ q.label # "default"
TimeRanOut ==
  q'.log = Append(q.log, [exit |-> q.relay, how |-> "late"]) /\ q'.relay = q.relay /\ q'.tried = q.tried
FailsHonestly ==
  [][GaveUp => \/ q'.tries = MaxTries
               \/ Region(q.spec) \cap cache.relays \subseteq q.tried
               \/ TimeRanOut]_vars

(* Once a relay list has been read there is always one: failed and empty   *)
(* fetches keep the last good list, however its refreshes are ordered.     *)
CatalogueKeeps == [][cache.relays # {} => cache'.relays # {}]_vars

(* A call gives up only when its relays or its time are exhausted, and a   *)
(* bad refresh never empties the list it resolves in.                      *)
RelaysExhausted == FailsHonestly /\ CatalogueKeeps

(* The mirror comes to say what the router says, and to say nothing while  *)
(* the router is away: the last document does not outlive an outage.       *)
MirrorCatchesUp ==
  <>[](mirror.fresh = reachable /\ (reachable => mirror.up = avail))

(* No wait of the proxy's own is for ever: a classification ends with a    *)
(* redirect, and a web call with an answer or an error, however relays,    *)
(* list and mirror behave.                                                 *)
WaitsEnd ==
  /\ q.pc \in Classifying ~> q.pc = "redirected"
  /\ q.pc \in Outbound ~> q.pc \in {"loop", "failed", "done"}
====
