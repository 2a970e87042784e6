---------------------------- MODULE MCProcessLog ----------------------------
(* Writers are interchangeable.  Payloads, reads, half lines and long      *)
(* series of events are met one at a time: they share the sweep only.      *)
EXTENDS ProcessLog, TLC

Symmetric == Permutations(Writers)

Begun == \E p \in Payloads : staged[p] # "unwritten"
AtMost(n) == \A w \in Writers : writers[w].count <= n
Alone(w) == \A v \in Writers \ {w} : writers[v].pc = "unopened"

\* A writer that ended counts from zero again, so the events that went into
\* the directory bound what a payload can meet there.
OneQuestionAtATime ==
  /\ \A v, w \in Writers : v # w => writers[v].count + writers[w].count <= 4
  /\ halved # {} => AtMost(2) /\ ~reader.on /\ ~Begun
  /\ Begun => AtMost(1) /\ Cardinality(written) <= 2 /\ ~reader.on
  /\ reader.on => AtMost(1) /\ days = 0
  /\ reader.on /\ ~reader.calm => \E w \in Writers : Alone(w)

NextQuestion == OneQuestionAtATime'
=============================================================================
