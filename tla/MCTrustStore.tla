---------------------------- MODULE MCTrustStore ----------------------------
(* Finite instances of TrustStore.                                         *)
EXTENDS TrustStore, TLC

Symmetric == Permutations(Commands) \cup Permutations(Shared)
               \cup Permutations(Personal)
=============================================================================
