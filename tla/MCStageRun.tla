----------------------------- MODULE MCStageRun -----------------------------
(* Four candidates: one that edits the code; one that also switches its    *)
(* own extension off and the one switched off on again; one forked from a  *)
(* base with a broken switches file; and the operational one that switches *)
(* off an extension whose manifest no longer parses.                       *)
EXTENDS StageRun, TLC

MCPlan == << [ext |-> "lint", phase |-> "pre-gate-stop"],
             [ext |-> "spec", phase |-> "pre-gate-stop"],
             [ext |-> "spec", phase |-> "post-gate"] >>

Holds(lint, spec, parses, off) ==
  [content |-> ("lint" :> lint @@ "spec" :> spec),
   parses |-> parses, off |-> off]
ForkOf == ("plain" :> Holds(1, 1, TRUE, {})
        @@ "sly" :> Holds(1, 1, TRUE, {"spec"})
        @@ "garbled" :> Holds(1, 1, FALSE, {"lint"})
        @@ "operational" :> Holds(NotReadable, 1, TRUE, {}))
OwnOf == ("plain" :> Holds(2, 1, TRUE, {})
       @@ "sly" :> Holds(2, 2, TRUE, {"lint"})
       @@ "garbled" :> Holds(1, 1, TRUE, {"lint"})
       @@ "operational" :> Holds(NotReadable, 1, TRUE, {"lint"}))
MCFork == [c \in Commits |-> ForkOf[c]]
MCOwn == [c \in Commits |-> OwnOf[c]]

\* Of two pauses accepted and merges one at least is the plain candidate's;
\* the operational one never pauses.
Events == accepted \cup {<<c, "merged">> : c \in merged}
OnePlain ==
  /\ \A ev \in Events : ev[1] # "operational"
  /\ Cardinality({ev \in Events : ev[1] # "plain"}) <= 1
NextQuestion == OnePlain'
=============================================================================
