----------------------------- MODULE ToolLoopMC -----------------------------
(***************************************************************************)
(* An instance of ToolLoop: one tool of the proxy's and one of the         *)
(* client's, a tag that deltas may split in two.                           *)
(***************************************************************************)
EXTENDS ToolLoop

MCTag == <<"<tool_", "call>">>
MCBodies == [b \in {"search", "edit"} |-> IF b = "search" THEN "web_search" ELSE "edit_file"]
=============================================================================
