------------------------------- MODULE MCSteps -------------------------------
(* One step, started and ended beside up to three records of a task that    *)
(* reads; a journal that does not read is left to the loop alone.           *)
EXTENDS Steps

CONSTANTS s1
MaxEvents == 2
Few ==
  /\ Len(log) <= MaxEvents
  /\ Raises => log = << >> /\ time = 0
==============================================================================
