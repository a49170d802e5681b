----------------------------- MODULE FrontDoorMC ----------------------------
(***************************************************************************)
(* An owner and a family member, whose name an operator may spell with a   *)
(* capital, and two synthetic names.                                       *)
(***************************************************************************)
EXTENDS FrontDoor

MCTyped == {"ann", "Kid", "legacy:", "anthropic:", ""}
MCFold == [n \in MCTyped |-> IF n = "Kid" THEN "kid" ELSE n]
MCKeyPrincipals == [c \in {"xkey", "bearer", "key"} |-> IF c = "xkey" THEN "ann" ELSE ""]
=============================================================================
