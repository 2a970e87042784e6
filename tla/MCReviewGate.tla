--------------------------- MODULE MCReviewGate ---------------------------
(* Identities are interchangeable.  Two blocking findings, so that one can *)
(* be accepted and the other not, and an advisory one.                     *)
EXTENDS ReviewGate, TLC

MCVerdicts ==
  [findings : {{}, {"f1"}, {"f1", "f2"}}, advisory : {{}}]
  \cup {[findings |-> {}, advisory |-> {"a1"}]}

ReviewsHere == {records[i] : i \in {j \in DOMAIN records :
                                      records[j].type = "review"}}
Advised == \E r \in ReviewsHere : r.advisory # {}
Passed(op) == judged[op].seen > 0 \/ ~judged[op].required
WithoutReview == ~run.required \/ \E op \in Ops : ~judged[op].required
Doubled == \E r \in ReviewsHere : "f2" \in r.findings
OneReviewer == \A r, q \in ReviewsHere : r.by = q.by

\* Scope, amendments and agreements are met where the project requires
\* agreement; acceptances, second findings and advisories where it does not:
\* the gate's checks of the two read different records.  A behavior has
\* passing runs before merges or before completions: a run of either kind
\* reads nothing the other leaves but the records, and advisories are read
\* by the completion alone.  What a run without a review passes or refuses
\* takes an objection and its answer to show, and so does a rebase; the last
\* commit is there for a range rebased twice.  Who reviewed and what they
\* found are read from different fields.
OneQuestionAtATime ==
  /\ Len(records) = 3 \/ Doubled => OneReviewer
  /\ \E op \in Ops : ~Passed(op)
  /\ WithoutReview => /\ Len(records) <= (IF requireAgreement THEN 1 ELSE 2)
                      /\ ~Advised /\ ~Doubled
  /\ Tip = MaxCommits => /\ \A c \in 2..Tip : commits[c].rebased
                         /\ ~requireAgreement /\ ~WithoutReview
                         /\ Len(records) <= 1
  /\ IF requireAgreement
     THEN \A i \in DOMAIN records :
            CASE records[i].type = "review" -> records[i].findings \subseteq {"f1"}
                                               /\ records[i].advisory = {}
              [] records[i].type = "acceptance" -> FALSE
              [] OTHER -> TRUE
     ELSE /\ contract = 1
          /\ \A i \in DOMAIN commits : /\ commits[i].inScope
                                       /\ commits[i].rebased => Len(records) <= 2
          /\ Advised => ~Doubled /\ ~Passed("merge")
          /\ \A i \in DOMAIN records :
               CASE records[i].type = "agreement" -> FALSE
                 [] records[i].type = "acceptance" ->
                      records[i].form # "operational"
                 [] OTHER -> TRUE

\* A behavior ends with its merge or its completion: neither what merged nor
\* what the completed record answers changes any more.
Ended == merged # NoCommit \/ ~Open

NextQuestion == ~Ended /\ OneQuestionAtATime'

PeopleSymmetry == Permutations(People)
============================================================================
