------------------------------ MODULE LedgerMC ------------------------------
(* Three requests of two people in one session: a success, a refusal and a *)
(* failed attempt.                                                         *)
EXTENDS Ledger

MCRecord(who, via, sess, transport, upstream, refused, status) ==
  [who |-> who, via |-> via, sess |-> sess, transport |-> transport, upstream |-> upstream,
   envelope |-> FALSE, refused |-> refused, status |-> status]

MCKindOf == [r \in Requests |->
  CASE r = "r1" -> MCRecord("ann", "m1", "s", "", 200, "", 200)
    [] r = "r2" -> MCRecord("bob", "m1", "s", "", 0, "scope_refused", 403)
    [] r = "r3" -> MCRecord("bob", "m2", "s", "timeout", 0, "", 502)]

MCKeys == <<"", "ann", "bob", "m1", "m2">>
MCViewers ==
  {Unrestricted} \cup {[who |-> who, owner |-> FALSE] : who \in {"bob", "other", ""}}
(* "5.5Z" comes before "5Z".                                               *)
MCFracRank == [f \in 0 .. 1 |-> 1 - f]
MCMigrations == <<"role", "principal">>
=============================================================================
