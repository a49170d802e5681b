---------------------------- MODULE InventoryMC ----------------------------
(***************************************************************************)
(* An instance of Inventory: a base that serves a registry model and feeds *)
(* two discovery sources, whose adopted ids overlap.  One of the names the *)
(* second source would form belongs to the registry.                       *)
(***************************************************************************)
EXTENDS Inventory

MCBaseOf == [m \in Members |-> "b1"]
MCServedName == [m \in Members |-> "x"]
MCSourcesOf == [b \in Bases |-> <<"s1", "s2">>]
MCAdopted == [s \in Sources |-> IF s = "s1" THEN {"x", "y"} ELSE {"y", "z"}]
MCServed == [b \in Bases |-> {"x"}]
MCName == [s \in Sources |-> [i \in Ids |-> <<s, i>>]]
MCReserved == {<<"s2", "z">>}
=============================================================================
