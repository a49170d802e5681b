------------------------------ MODULE Service ------------------------------
(***************************************************************************)
(* What the router promises of a request, whatever is behind it: it is     *)
(* turned away, or it is tried on a bounded number of seats, one after the *)
(* other, each of them one its demand permits, and ends exactly once, with *)
(* the answer of the seat tried last, with a refusal or with a failure.    *)
(* Roles, chains, availability, the catalogue and the response's headers   *)
(* are not visible here.                                                   *)
(***************************************************************************)
EXTENDS Integers, Sequences

CONSTANTS
  Requests, Models, Local, ZDREnforceable,
  MaxRetries      \* tries beyond the first

VARIABLE job      \* request -> [phase, demand, tried, result]

Demands == {"none", "zdr", "local"}

Arrived == [phase |-> "arrived", demand |-> "none", tried |-> <<>>, result |-> "none"]

(* The seats a demand permits, and how a seat outside the fleet has to be  *)
(* asked: told to retain nothing.                                          *)
Permits(demand, try) ==
  \/ demand = "none"
  \/ try.id \in Local
  \/ demand = "zdr" /\ try.id \in ZDREnforceable /\ try.zdr

Accept(r) ==
  /\ job[r].phase = "arrived"
  /\ \E d \in Demands : job' = [job EXCEPT ![r].phase = "open", ![r].demand = d]

(* No seat has the request: it may be refused, before any was tried or     *)
(* between two tries.                                                      *)
TurnAway(r) ==
  /\ job[r].phase \in {"arrived", "open"}
  /\ \E d \in Demands :
       /\ job[r].phase = "open" => d = job[r].demand
       /\ job' = [job EXCEPT ![r].phase = "done", ![r].demand = d, ![r].result = "refused"]

Try(r) ==
  /\ job[r].phase = "open" /\ Len(job[r].tried) <= MaxRetries
  /\ \E try \in [id : Models, zdr : BOOLEAN] :
       /\ Permits(job[r].demand, try)
       /\ job' = [job EXCEPT ![r].phase = "working", ![r].tried = Append(@, try)]

Lose(r) ==
  /\ job[r].phase = "working"
  /\ job' = [job EXCEPT ![r].phase = "open"]

Finish(r) ==
  /\ job[r].phase = "working"
  /\ \E result \in {"answered", "failed"} :
       job' = [job EXCEPT ![r].phase = "done", ![r].result = result]

Step(r) == Accept(r) \/ TurnAway(r) \/ Try(r) \/ Lose(r) \/ Finish(r)

Init == job = [r \in Requests |-> Arrived]
Next == \E r \in Requests : Step(r)
Spec == Init /\ [][Next]_job
=============================================================================
