----------------------------- MODULE MCOpenTask -----------------------------
(* Finite instances of OpenTask.                                           *)
EXTENDS OpenTask, TLC

Symmetric == Permutations(Commands) \cup Permutations(Extensions)
=============================================================================
