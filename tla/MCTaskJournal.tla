--------------------------- MODULE MCTaskJournal ---------------------------
(* Hosts are interchangeable: they differ only in the lag Init gives each. *)
EXTENDS TaskJournal, TLC

HostSymmetry == Permutations(Writers)
============================================================================
