----------------------------- MODULE BalanceMC -----------------------------
(* Two interchangeable seats, a third behind them, and one overflow seat.  *)
EXTENDS Balance

Symmetry == Permutations(Requests)

MCCandidates == <<"a", "b", "c">>
MCOverflow == <<"o">>
MCGroups == {{"a", "b"}}
MCThresholds == <<40, 70>>
Load(n, w, g) == [running |-> n, waiting |-> w, busy |-> g]
MCLoadTables ==
  {[s \in Seats |-> CASE s = "a" -> Load(2, 1, 40) [] s = "b" -> Load(1, 0, 75) [] OTHER -> Load(0, 0, -1)]}
=============================================================================
