---------------------------- MODULE ProxyService ----------------------------
(***************************************************************************)
(* The proxied request of Proxy as an implementation of Service: what a    *)
(* handler is owed and has done, read off its locals and its response.     *)
(***************************************************************************)
EXTENDS Proxy

(* What the caller's tier and the role's own promise demand together.      *)
Owed(q) ==
  CASE q.caller # "none" -> q.caller
    [] q.caller = "none" /\ q.kind = "role" /\ RoleNeedsZDR -> "zdr"
    [] q.caller = "none" /\ ~(q.kind = "role" /\ RoleNeedsZDR) -> "none"

Phase(q) ==
  CASE q.pc = "new" -> "arrived"
    [] q.pc \in {"resolved", "attempt"} -> "open"
    [] q.pc = "upstream" -> "working"
    [] q.pc = "done" -> "done"

(* A 502 is the router's own word for a failure; every other status that   *)
(* no upstream gave is a refusal.                                          *)
Result(q) ==
  CASE q.status = "none" -> "none"
    [] q.status = "502" -> "failed"
    [] q.status \in {"up2xx", "up4xx", "up5xx", "up503"} -> "answered"
    [] q.status \in {"400", "403", "404", "503"} -> "refused"

JobOf(q) == [phase |-> Phase(q), demand |-> Owed(q), tried |-> q.sent, result |-> Result(q)]

Promise ==
  INSTANCE Service WITH MaxRetries <- MaxFailoverAttempts, job <- [r \in Requests |-> JobOf(req[r])]

(* Resolution, failover, withheld answers, lost clients and a catalogue    *)
(* and tracker that change under the walk together keep the promise of     *)
(* Service: bounded tries, every one permitted by what is owed, and        *)
(* exactly one end, whose result says whether a seat answered.             *)
ImplementsService == Promise!Spec
=============================================================================
