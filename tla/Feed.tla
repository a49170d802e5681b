------------------------------- MODULE Feed -------------------------------
(***************************************************************************)
(* The live request feed.  A replica's broker (events.go) keeps a replay   *)
(* ring and the requests in flight, and hands events to subscribers        *)
(* without ever blocking.  The SSE handler (dashboard_events.go) serves    *)
(* one subscription: it subscribes, takes the snapshot in two separate     *)
(* critical sections, then forwards.  A peer feed (peers.go) holds such a  *)
(* stream open and mirrors it into a broker of its own, through lost and   *)
(* stalled connections and restarts of the peer.                           *)
(*                                                                         *)
(* One origin and one mirror are modelled: brokers share nothing, so       *)
(* several peers are several copies.  An event is its position in the      *)
(* origin's life, its type and its request.                                *)
(***************************************************************************)
EXTENDS Integers, Sequences, SequencesExt

CONSTANTS
  Ids,          \* request ids
  Cap,          \* ring size (DefaultEventRing)
  Buf,          \* depth of a subscriber's channel
  MaxEvents,    \* bound: events published in one life of the origin
  MaxFaults     \* bound: faults of the network and of the peer

ASSUME FeedAssumption ==
  Cap \in Nat \ {0} /\ Buf \in Nat \ {0} /\ MaxEvents \in Nat /\ MaxFaults \in Nat

VARIABLES
  origin,       \* the peer's broker
  log,          \* history: everything published since the peer started
  srv,          \* the peer's SSE handler and its subscription
  wire,         \* frames sent and not yet read
  stalled,      \* the connection delivers nothing more, and nobody was told
  feed,         \* the peer feed: where run and stream are, and Connected
  mirror,       \* the feed's broker
  self,         \* the configured peer is this very replica
  faults

vars == <<origin, log, srv, wire, stalled, feed, mirror, self, faults>>

-----------------------------------------------------------------------------
(* The broker.                                                             *)
NoEvent == [seq |-> 0, type |-> "none", id |-> ""]
NoBroker == [ ring |-> [i \in 0 .. Cap - 1 |-> NoEvent], head |-> 0, full |-> FALSE,
              inflight |-> <<>> ]

(* Mutant: the ring is declared full one event early.                      *)
RingPutEarly(b, e) ==
  [b EXCEPT !.ring[b.head] = e, !.head = (b.head + 1) % Cap,
            !.full = b.full \/ b.head + 2 >= Cap]

RingPut(b, e) ==
  [b EXCEPT !.ring[b.head] = e, !.head = (b.head + 1) % Cap,
            !.full = b.full \/ (b.head + 1) % Cap = 0]

(* inflight maps a request to its latest started event.                    *)
Without(f, id) == [i \in DOMAIN f \ {id} |-> f[i]]

Publish(b, e) ==
  [RingPut(b, e) EXCEPT !.inflight =
     IF e.type = "started"
       THEN [i \in DOMAIN b.inflight \cup {e.id} |-> IF i = e.id THEN e ELSE b.inflight[i]]
       ELSE Without(b.inflight, e.id)]

Replay(b) ==
  LET older == [i \in 1 .. Cap - b.head |-> b.ring[b.head + i - 1]]
      newer == [i \in 1 .. b.head |-> b.ring[i - 1]]
  IN IF b.full THEN older \o newer ELSE newer

(* Reset: the newest of recent are put, in order, in an empty ring.        *)
Newest(recent) ==
  IF Len(recent) > Cap THEN SubSeq(recent, Len(recent) - Cap + 1, Len(recent)) ELSE recent

Reset(b, recent, inflight) ==
  LET put[i \in 0 .. Len(Newest(recent))] ==
        IF i = 0 THEN NoBroker ELSE RingPut(put[i - 1], Newest(recent)[i])
  IN [put[Len(Newest(recent))] EXCEPT !.inflight = inflight]

ClearInFlight(b) == [b EXCEPT !.inflight = <<>>]

-----------------------------------------------------------------------------
(* The peer serves requests.                                               *)
NoServer == [pc |-> "none", chan |-> <<>>, inflight |-> <<>>, dropped |-> FALSE]

(* A full channel drops the event, for this subscriber only.               *)
Deliver(s, e) ==
  CASE s.pc = "none" -> s
    [] s.pc # "none" /\ Len(s.chan) < Buf -> [s EXCEPT !.chan = Append(@, e)]
    [] OTHER -> [s EXCEPT !.dropped = TRUE]

(* A request is resolved, or fails over (started once more), or ends,      *)
(* possibly without ever having started.                                   *)
RequestEvent(id, type) ==
  /\ Len(log) < MaxEvents
  /\ LET e == [seq |-> Len(log) + 1, type |-> type, id |-> id] IN
     /\ origin' = Publish(origin, e)
     /\ log' = Append(log, e)
     /\ srv' = Deliver(srv, e)
  /\ UNCHANGED <<wire, stalled, feed, mirror, self, faults>>

(* The SSE handler, one critical section of the broker at a time.          *)
TakeInFlight ==
  /\ srv.pc = "subscribed"
  /\ srv' = [srv EXCEPT !.pc = "snapshot", !.inflight = origin.inflight]
  /\ UNCHANGED <<origin, log, wire, stalled, feed, mirror, self, faults>>

Frame(kind, evs, inflight) == [kind |-> kind, evs |-> evs, inflight |-> inflight]

(* Mutant: the subscription begins after the snapshot was taken.           *)
SendSnapshotThenSubscribe ==
  /\ srv.pc = "snapshot"
  /\ wire' = Append(wire, Frame("snapshot", Replay(origin), srv.inflight))
  /\ srv' = [srv EXCEPT !.pc = "streaming", !.inflight = <<>>, !.chan = <<>>]
  /\ UNCHANGED <<origin, log, stalled, feed, mirror, self, faults>>

SendSnapshot ==
  /\ srv.pc = "snapshot"
  /\ wire' = Append(wire, Frame("snapshot", Replay(origin), srv.inflight))
  /\ srv' = [srv EXCEPT !.pc = "streaming", !.inflight = <<>>]
  /\ UNCHANGED <<origin, log, stalled, feed, mirror, self, faults>>

Forward ==
  /\ srv.pc = "streaming" /\ srv.chan # <<>>
  /\ wire' = Append(wire, Frame("request", <<Head(srv.chan)>>, <<>>))
  /\ srv' = [srv EXCEPT !.chan = Tail(@)]
  /\ UNCHANGED <<origin, log, stalled, feed, mirror, self, faults>>

ServerStep == TakeInFlight \/ SendSnapshot \/ Forward

-----------------------------------------------------------------------------
(* The peer feed's goroutine.                                              *)

(* stream: identify the peer (with a deadline); a replica that is its own  *)
(* peer is parked.                                                         *)
Park ==
  /\ feed.pc = "dial" /\ self
  /\ feed' = [feed EXCEPT !.pc = "parked"]
  /\ UNCHANGED <<origin, log, srv, wire, stalled, mirror, self, faults>>

(* The stream is asked for, with no deadline, and the peer's handler       *)
(* subscribes.                                                             *)
Connect ==
  /\ feed.pc = "dial" /\ ~self
  /\ feed' = [feed EXCEPT !.pc = "connecting", !.first = TRUE]
  /\ srv' = [NoServer EXCEPT !.pc = "subscribed"]
  /\ wire' = <<>> /\ stalled' = FALSE
  /\ UNCHANGED <<origin, log, mirror, self, faults>>

(* client.Do returns when the headers come, with the handler's first       *)
(* flush; only now is the watchdog started.                                *)
Opened ==
  /\ feed.pc = "connecting" /\ wire # <<>> /\ ~stalled
  /\ feed' = [feed EXCEPT !.pc = "reading"]
  /\ UNCHANGED <<origin, log, srv, wire, stalled, mirror, self, faults>>

(* The peer is not reached or answers with an error.                       *)
DialFails ==
  /\ feed.pc = "dial" /\ faults < MaxFaults
  /\ faults' = faults + 1
  /\ feed' = [feed EXCEPT !.pc = "ended"]
  /\ UNCHANGED <<origin, log, srv, wire, stalled, mirror, self>>

(* apply: one frame is folded into the mirror; the first one connects.     *)
Read ==
  /\ feed.pc = "reading" /\ wire # <<>> /\ ~stalled
  /\ wire' = Tail(wire)
  /\ LET f == Head(wire) IN
     mirror' = IF f.kind = "snapshot" THEN Reset(mirror, f.evs, f.inflight)
                                      ELSE Publish(mirror, f.evs[1])
  /\ feed' = [feed EXCEPT !.first = FALSE, !.connected = TRUE]
  /\ UNCHANGED <<origin, log, srv, stalled, self, faults>>

(* The stream ended at the peer; the bytes in flight may be lost with it.  *)
(* On a stalled connection the feed may hear of it or not.                 *)
Ended ==
  /\ feed.pc \in {"connecting", "reading"} /\ srv.pc = "none"
  /\ feed' = [feed EXCEPT !.pc = "ended"]
  /\ wire' = <<>>
  /\ UNCHANGED <<origin, log, srv, stalled, mirror, self, faults>>

(* Mutant: nothing notices a silent stream.                                *)
WatchdogAsleep == FALSE /\ UNCHANGED vars

(* Silent past the keepalive budget: the watchdog closes the body, and the *)
(* peer's handler sees its client gone.                                    *)
Watchdog ==
  /\ feed.pc = "reading" /\ stalled
  /\ feed' = [feed EXCEPT !.pc = "ended"]
  /\ srv' = NoServer /\ wire' = <<>>
  /\ UNCHANGED <<origin, log, stalled, mirror, self, faults>>

(* run, after stream: Connected goes down, then the mirror's in-flight     *)
(* set is cleared, then the backoff, then the next dial.                   *)
MarkDown ==
  /\ feed.pc = "ended"
  /\ feed' = [feed EXCEPT !.pc = "clearing", !.connected = FALSE]
  /\ UNCHANGED <<origin, log, srv, wire, stalled, mirror, self, faults>>

ClearDown ==
  /\ feed.pc = "clearing"
  /\ mirror' = ClearInFlight(mirror)
  /\ feed' = [feed EXCEPT !.pc = "backoff"]
  /\ UNCHANGED <<origin, log, srv, wire, stalled, self, faults>>

Redial ==
  /\ feed.pc = "backoff"
  /\ feed' = [feed EXCEPT !.pc = "dial"]
  /\ UNCHANGED <<origin, log, srv, wire, stalled, mirror, self, faults>>

FeedStep ==
  \/ Park \/ Connect \/ Opened \/ Read
  \/ ~stalled /\ Ended
  \/ Watchdog \/ MarkDown \/ ClearDown \/ Redial

-----------------------------------------------------------------------------
(* Faults.                                                                 *)

(* The connection breaks, or the peer shuts its streams (streamsDone).     *)
Hangup ==
  /\ srv.pc # "none" /\ faults < MaxFaults
  /\ faults' = faults + 1
  /\ srv' = NoServer
  /\ UNCHANGED <<origin, log, wire, stalled, feed, mirror, self>>

(* The connection, or the peer behind it, goes quiet without a word.       *)
Stall ==
  /\ srv.pc # "none" /\ ~stalled /\ faults < MaxFaults
  /\ faults' = faults + 1
  /\ stalled' = TRUE
  /\ UNCHANGED <<origin, log, srv, wire, feed, mirror, self>>

(* The peer restarts: its requests, its ring and its streams are gone.     *)
Restart ==
  /\ faults < MaxFaults
  /\ faults' = faults + 1
  /\ origin' = NoBroker /\ log' = <<>>
  /\ srv' = NoServer
  /\ UNCHANGED <<wire, stalled, feed, mirror, self>>

-----------------------------------------------------------------------------
Init ==
  /\ origin = NoBroker /\ log = <<>>
  /\ srv = NoServer /\ wire = <<>> /\ stalled = FALSE
  /\ feed = [pc |-> "dial", first |-> TRUE, connected |-> FALSE]
  /\ mirror = NoBroker
  /\ self \in BOOLEAN
  /\ faults = 0

Next ==
  \/ \E id \in Ids, type \in {"started", "finished"} : RequestEvent(id, type)
  \/ ServerStep
  \/ FeedStep \/ Ended \/ DialFails
  \/ Hangup \/ Stall \/ Restart

Spec == Init /\ [][Next]_vars

(* The two goroutines run.  identify has a deadline, and the watchdog      *)
(* bounds the silence of a stream that has begun.  Nothing bounds the wait *)
(* for its beginning: Opened is owed only when the headers are there, and  *)
(* a stalled connect has no next step.                                     *)
FairSpec == Spec /\ WF_vars(ServerStep) /\ WF_vars(FeedStep)

-----------------------------------------------------------------------------
Event == [seq : 1 .. MaxEvents, type : {"started", "finished"}, id : Ids]

BrokerOK(b) ==
  /\ b.ring \in [0 .. Cap - 1 -> Event \cup {NoEvent}]
  /\ b.head \in 0 .. Cap - 1 /\ b.full \in BOOLEAN
  /\ DOMAIN b.inflight \subseteq Ids
  /\ \A id \in DOMAIN b.inflight : b.inflight[id] \in Event /\ b.inflight[id].id = id

(* Brokers, channel and feed keep to their types; a subscriber's channel   *)
(* never holds more than its depth.                                        *)
TypeOK ==
  /\ BrokerOK(origin) /\ BrokerOK(mirror)
  /\ log \in Seq(Event)
  /\ srv.pc \in {"none", "subscribed", "snapshot", "streaming"}
  /\ Len(srv.chan) <= Buf /\ srv.dropped \in BOOLEAN
  /\ feed.pc \in {"dial", "connecting", "reading", "ended", "clearing", "backoff", "parked"}
  /\ feed.first \in BOOLEAN /\ feed.connected \in BOOLEAN
  /\ stalled \in BOOLEAN /\ self \in BOOLEAN /\ faults \in 0 .. MaxFaults

(* A page that connects late is shown the recent past exactly: the ring    *)
(* replays the last Cap events in order, before and after it wraps         *)
(* (Publish's head and full, Replay's two halves).                         *)
ReplayIsSuffix ==
  Replay(origin) = SubSeq(log, (IF Len(log) > Cap THEN Len(log) - Cap ELSE 0) + 1, Len(log))

(* Everything sent to the feed has been applied, and nothing was dropped.  *)
CaughtUp ==
  /\ feed.pc = "reading" /\ ~feed.first
  /\ srv.pc = "streaming" /\ srv.chan = <<>> /\ wire = <<>> /\ ~srv.dropped

(* Subscribing before the snapshot leaves no gap: whenever the feed has    *)
(* caught up, the mirror shows in flight exactly what the peer has in      *)
(* flight, each request with its latest target, however the peer's         *)
(* requests interleaved with the subscription and its two-part snapshot.   *)
MirrorAgrees == CaughtUp => mirror.inflight = origin.inflight

(* And its ring has no hole: what a caught-up mirror replays is a run of   *)
(* the peer's own events up to the latest, perhaps some of them twice, and *)
(* nothing of an earlier life of the peer (Reset, Publish).                *)
MirrorHasNoHole ==
  CaughtUp =>
    LET shown == ToSet(Replay(mirror)) IN
    /\ \A e \in shown : e.seq \in 1 .. Len(log) /\ log[e.seq] = e
    /\ log # <<>> => Last(log) \in shown
    /\ \A e \in shown : \A n \in e.seq .. Len(log) : log[n] \in shown

(* A lost peer has no dots: from the end of the outage's bookkeeping until *)
(* the next snapshot nothing is shown in flight (ClearInFlight).           *)
DownShowsNothing ==
  feed.pc \in {"backoff", "dial", "connecting", "parked"} \/ (feed.pc = "reading" /\ feed.first)
     => mirror.inflight = <<>>

(* The mirror is faithful: caught up it is the peer's state, replay and    *)
(* snapshot leave no hole between them, and a lost peer shows nothing.     *)
MirrorFaithful == TypeOK /\ MirrorAgrees /\ MirrorHasNoHole /\ DownShowsNothing

(* The peer took the connection and then went quiet before its first       *)
(* flush: client.Do waits on the feed's own context, which has no deadline.*)
Unanswered == feed.pc = "connecting" /\ stalled

(* The feed heals: after the last event and the last fault, however they   *)
(* fell, the mirror agrees with the peer for good, unless this replica is  *)
(* its own peer, the subscription in use has dropped an event, or the      *)
(* connect is left unanswered (peers.go's watchdog is for an open stream). *)
FeedHeals == <>[](self \/ srv.dropped \/ Unanswered \/ mirror.inflight = origin.inflight)
=============================================================================
