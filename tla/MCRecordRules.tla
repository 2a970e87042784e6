---------------------------- MODULE MCRecordRules ----------------------------
(* Two tasks that nothing tells apart. *)
EXTENDS RecordRules, TLC

CONSTANTS t1, t2
TaskSymmetry == Permutations({t1, t2})
==============================================================================
