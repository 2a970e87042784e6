------------------------------ MODULE MCOutbox ------------------------------
(* Files and sends are interchangeable.  Sends that overlap are met with   *)
(* two runs and two changes by others, sends that do not with all of them. *)
EXTENDS Outbox, TLC

Symmetric == Permutations(Sends) \cup Permutations(Names)

NextQuestion == overlapped' => edits' <= 2 /\ runs' <= 2
=============================================================================
