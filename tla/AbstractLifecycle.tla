------------------------- MODULE AbstractLifecycle -------------------------
(***************************************************************************)
(* What a task promises its readers: it is open, done or abandoned, or its *)
(* journal is refused.  Completion is undone by a reopening alone,         *)
(* abandonment by nothing.                                                 *)
(***************************************************************************)
VARIABLES state,      \* what a reader is told
          abandoned   \* an abandonment was recorded

vars == <<state, abandoned>>

Init == state = "open" /\ abandoned = FALSE

Complete == state = "open" /\ state' = "done" /\ UNCHANGED abandoned
Abandon == state = "open" /\ state' = "abandoned" /\ abandoned' = TRUE
Reopen == state = "done" /\ state' = "open" /\ UNCHANGED abandoned

\* A record the projection cannot place: the readers are refused.
Wedge ==
  /\ state' = "unreadable"
  /\ abandoned' \in {abandoned, TRUE}

\* A record that arrived late makes sense of the others again.  It never
\* brings back an abandoned task.
Heal ==
  /\ state = "unreadable"
  /\ state' \in {"open", "done", "abandoned"}
  /\ abandoned' \in {abandoned, TRUE}
  /\ abandoned' <=> state' = "abandoned"

Next == Complete \/ Abandon \/ Reopen \/ Wedge \/ Heal

Spec == Init /\ [][Next]_vars
============================================================================
