----------------------------- MODULE ReviewGate -----------------------------
(***************************************************************************)
(* The regular lane of run_gate for one task: which commit of a moving     *)
(* branch may merge, judged by the reviews, acceptances and agreements     *)
(* other processes keep appending to the task's journal while the gate     *)
(* runs, and the completion that answers for the review the gate judged.   *)
(*                                                                         *)
(* Records are in path order; the commands' own load, stamp and create     *)
(* steps are module TaskJournal's, so an append is one step here.          *)
(***************************************************************************)
EXTENDS Integers, Sequences

CONSTANTS People,       \* declared identities: writers and reviewers
          Findings,     \* ids of blocking findings
          Advisories,   \* ids of advisory findings
          Verdicts,     \* bound: the findings a review may carry together
          MaxCommits,   \* bound on the commits of the branch
          MaxRecords,   \* bound on the records appended
          MaxContract   \* bound on the contract's versions

ASSUME SetsAssumption == Findings # {} /\ Findings \cap Advisories = {}
ASSUME BoundsAssumption ==
  MaxCommits \in Nat /\ MaxRecords \in Nat /\ MaxContract \in Nat
ASSUME VerdictsAssumption ==
  Verdicts \subseteq [findings : SUBSET Findings, advisory : SUBSET Advisories]

VARIABLES requireAgreement,  \* the project's contract.require_agreement
          commits,   \* the branch's commits so far; the last is its head
          contract,  \* the contract's version on the base branch
          records,   \* the task's journal, in path order
          accepting, \* the operator's accept command between read and write
          run,       \* the gate run in flight
          merged,    \* the commit the provider merged, or NoCommit
          judged     \* history: the records the last passing run of each
                     \* kind had read, at its load and at its verdict, and
                     \* whether it required a review

vars == <<requireAgreement, commits, contract, records, accepting, run,
          merged, judged>>

Ops == {"merge", "complete"}
NoCommit == 0
NoRecord == 0
Tip == Len(commits)

Review(c, v, p) ==
  [type |-> "review", commit |-> c, findings |-> v.findings,
   advisory |-> v.advisory, by |-> p]
\* The three forms of an acceptance; only the first carries findings.
Acceptance(c, form, f) ==
  [type |-> "acceptance", commit |-> c, form |-> form, findings |-> f]
Agreement(v) == [type |-> "agreement", contract |-> v]
Completed(c, a) == [type |-> "completed", commit |-> c, answered |-> a]

AcceptanceForms == {"findings", "pause", "operational"}
Idle == [op |-> "none", step |-> "idle", commit |-> NoCommit,
         loaded |-> 0, required |-> TRUE, review |-> NoRecord]
NotAccepting == [commit |-> NoCommit, findings |-> {}]

\* The records of the first n, or of the whole journal, by index.
ReviewsOf(c, n) ==
  {i \in 1..n : records[i].type = "review" /\ records[i].commit = c}
AcceptancesOf(c, n) ==
  {i \in 1..n : /\ records[i].type = "acceptance"
                /\ records[i].commit = c
                /\ records[i].form = "findings"}
Latest(I) == IF I = {} THEN NoRecord ELSE CHOOSE i \in I : \A j \in I : j <= i

Open == \A i \in DOMAIN records : records[i].type # "completed"

\* The task projects: nothing follows a completion.
Reads == \A i \in DOMAIN records :
           records[i].type = "completed" => i = Len(records)

\* verdict "approved" is the verdict with no blocking finding.
Approves(i) == records[i].findings = {}

----------------------------------------------------------------------------
\* The contract is agreed on the base and the branch has a first commit.
Init ==
  /\ requireAgreement \in BOOLEAN
  /\ contract = 1
  /\ \E p \in People :
       commits = <<[by |-> p, rebased |-> FALSE, authors |-> {p},
                    committers |-> {p}, contract |-> 1, inScope |-> TRUE]>>
  /\ records = <<>>
  /\ accepting = NotAccepting
  /\ run = Idle
  /\ merged = NoCommit
  /\ judged = [op \in Ops |-> [seen |-> 0, loaded |-> 0, required |-> TRUE]]

\* A commit by p: the range it heads names p as an author and a committer,
\* and its diff against the merge base is within scope or not.
Commit(p, inScope) ==
  /\ Tip < MaxCommits
  /\ merged = NoCommit
  /\ commits' = Append(commits,
       [commits[Tip] EXCEPT !.by = p, !.rebased = FALSE,
                            !.authors = @ \cup {p},
                            !.committers = @ \cup {p}, !.inScope = inScope])
  /\ UNCHANGED <<requireAgreement, contract, records, accepting, run, merged,
                 judged>>

\* The branch is rebuilt on the base's tip by p: its commits are new ones,
\* with their authors and with p as the committer of all of them, and the
\* contract that judges them is the base's of now.
Rebase(p) ==
  /\ Tip < MaxCommits
  /\ merged = NoCommit
  /\ commits' = Append(commits,
       [commits[Tip] EXCEPT !.by = p, !.rebased = TRUE, !.committers = {p},
                            !.contract = contract])
  /\ UNCHANGED <<requireAgreement, contract, records, accepting, run, merged,
                 judged>>

\* An amendment of the contract lands on the base.
Amend ==
  /\ contract < MaxContract
  /\ contract' = contract + 1
  /\ UNCHANGED <<requireAgreement, commits, records, accepting, run, merged,
                 judged>>

AppendRecord(r) ==
  /\ Open
  /\ Len(records) < MaxRecords
  /\ records' = Append(records, r)

\* submit_review: a verdict on a commit that exists, current head or not.
SubmitReview(c, v, p) ==
  /\ AppendRecord(Review(c, v, p))
  /\ UNCHANGED <<requireAgreement, commits, contract, accepting, run, merged,
                 judged>>

\* agree: the operator agrees to the contract as of some version.
Agree(v) ==
  /\ AppendRecord(Agreement(v))
  /\ UNCHANGED <<requireAgreement, commits, contract, accepting, run, merged,
                 judged>>

\* accept_findings reads the journal: the latest review of that commit must
\* stand against it, and its findings are what will be accepted.
AcceptRead(c) ==
  LET latest == Latest(ReviewsOf(c, Len(records)))
  IN /\ Open
     /\ accepting = NotAccepting
     /\ latest # NoRecord
     /\ ~Approves(latest)
     /\ accepting' = [commit |-> c, findings |-> records[latest].findings]
     /\ UNCHANGED <<requireAgreement, commits, contract, records, run, merged,
                    judged>>

\* accept_findings writes what it read.  Nothing is read again, so reviews
\* and a completion may have been appended meanwhile.
AcceptWrite ==
  /\ accepting # NotAccepting
  /\ Len(records) < MaxRecords
  /\ records' = Append(records,
       Acceptance(accepting.commit, "findings", accepting.findings))
  /\ accepting' = NotAccepting
  /\ UNCHANGED <<requireAgreement, commits, contract, run, merged, judged>>

\* accept_pause_or_operational: consults no review, carries no findings.
AcceptOther(c, form) ==
  /\ form # "findings"
  /\ AppendRecord(Acceptance(c, form, {}))
  /\ UNCHANGED <<requireAgreement, commits, contract, accepting, run, merged,
                 judged>>

----------------------------------------------------------------------------
\* A gate run starts: the task's journal is loaded and the commit resolved.
\* `complete` loads it first itself, stops unless the task is open, and
\* never asks to judge without a review; a required check of the provider
\* does, since the review comes to exist after the head it names.
StartGate(op, c, required) ==
  /\ run = Idle
  /\ Reads
  /\ op = "complete" => Open /\ required
  /\ op = "merge" => merged = NoCommit
  /\ run' = [Idle EXCEPT !.op = op, !.step = "loaded", !.commit = c,
                         !.loaded = Len(records), !.required = required]
  /\ UNCHANGED <<requireAgreement, commits, contract, records, accepting,
                 merged, judged>>

\* Mutation: the contract on the base's tip is the one to agree with.
AgreementWithTip(c, loaded) ==
  requireAgreement => \E i \in 1..loaded :
     /\ records[i].type = "agreement"
     /\ records[i].contract = contract

\* The journal as loaded at the start holds an agreement with the contract
\* at the merge base.
AgreementHolds(c, loaded) ==
  requireAgreement => \E i \in 1..loaded :
     /\ records[i].type = "agreement"
     /\ records[i].contract = commits[c].contract

\* Mutation: an acceptance of the commit is enough.
AcceptedAtAll(c, i, n) == AcceptancesOf(c, n) # {}

\* The latest acceptance over findings of c names exactly those of review i.
AcceptedExactly(c, i, n) ==
  LET acceptance == Latest(AcceptancesOf(c, n))
  IN /\ acceptance # NoRecord
     /\ records[acceptance].findings = records[i].findings

\* Mutation: only the head commit's writer counts.
IndependentOfHead(c, i) == records[i].by # commits[c].by

\* The reviewer is no author and no committer of the range's commits.
Independent(c, i) ==
  records[i].by \notin commits[c].authors \cup commits[c].committers

\* The verdict block: the journal is read again, and the latest review of
\* exactly this commit approves it or is accepted over, by a reviewer who is
\* none of its writers.  A run that may go without a review does so only
\* where there is none: one there is, is judged.
JudgedReview(c) == Latest(ReviewsOf(c, Len(records)))

GatePasses(c, loaded, required) ==
  LET latest == JudgedReview(c)
  IN /\ commits[c].inScope
     /\ AgreementHolds(c, loaded)
     /\ IF latest = NoRecord
        THEN ~required
        ELSE /\ Approves(latest) \/ AcceptedExactly(c, latest, Len(records))
             /\ Independent(c, latest)

\* The checks pass: the report carries the commit and the review judged, if
\* there was one.
JudgePass ==
  /\ run.step = "loaded"
  /\ GatePasses(run.commit, run.loaded, run.required)
  /\ run' = [run EXCEPT !.step = "passed",
                        !.review = JudgedReview(run.commit)]
  /\ judged' = [judged EXCEPT ![run.op] =
                   [seen |-> Len(records), loaded |-> run.loaded,
                    required |-> run.required]]
  /\ UNCHANGED <<requireAgreement, commits, contract, records, accepting,
                 merged>>

JudgeFail ==
  /\ run.step = "loaded"
  /\ ~GatePasses(run.commit, run.loaded, run.required)
  /\ run' = Idle
  /\ UNCHANGED <<requireAgreement, commits, contract, records, accepting,
                 merged, judged>>

\* The provider merges the branch if its head is still the commit judged.
ProviderMerge ==
  /\ run.op = "merge" /\ run.step = "passed"
  /\ merged' = IF Tip = run.commit THEN run.commit ELSE merged
  /\ run' = Idle
  /\ UNCHANGED <<requireAgreement, commits, contract, records, accepting,
                 judged>>

\* Mutation: the completion looks the review up again.
ReviewLookedUpAgain == JudgedReview(run.commit)

\* The review the passing report names.
ReviewTheGatePassedOn == run.review

\* record_commit_completion: the advisory findings of the review the report
\* names must be the ones the operator's dispositions answer.  The load that
\* found the task open was before the gate.
RecordCompletion(answers) ==
  /\ run.op = "complete" /\ run.step = "passed"
  /\ answers = records[ReviewTheGatePassedOn].advisory
  /\ Len(records) < MaxRecords
  /\ records' = Append(records, Completed(run.commit, answers))
  /\ run' = Idle
  /\ UNCHANGED <<requireAgreement, commits, contract, accepting, merged,
                 judged>>

\* An advisory finding unanswered, or an answer to none: nothing is written.
RefuseCompletion(answers) ==
  /\ run.op = "complete" /\ run.step = "passed"
  /\ answers # records[ReviewTheGatePassedOn].advisory
  /\ run' = Idle
  /\ UNCHANGED <<requireAgreement, commits, contract, records, accepting,
                 merged, judged>>

Next ==
  \/ \E p \in People :
       \/ \E ok \in BOOLEAN : Commit(p, ok)
       \/ Rebase(p)
       \/ \E c \in 1..Tip, v \in Verdicts : SubmitReview(c, v, p)
  \/ Amend
  \/ \E v \in 1..contract : Agree(v)
  \/ \E c \in 1..Tip :
       \/ AcceptRead(c)
       \/ \E form \in AcceptanceForms : AcceptOther(c, form)
       \/ \E op \in Ops, required \in BOOLEAN : StartGate(op, c, required)
  \/ AcceptWrite
  \/ JudgePass
  \/ JudgeFail
  \/ ProviderMerge
  \/ \E answers \in SUBSET Advisories :
       RecordCompletion(answers) \/ RefuseCompletion(answers)

Spec == Init /\ [][Next]_vars

----------------------------------------------------------------------------
Record ==
  [type : {"review"}, commit : Nat, findings : SUBSET Findings,
   advisory : SUBSET Advisories, by : People]
  \cup [type : {"acceptance"}, commit : Nat, form : AcceptanceForms,
        findings : SUBSET Findings]
  \cup [type : {"agreement"}, contract : Nat]
  \cup [type : {"completed"}, commit : Nat, answered : SUBSET Advisories]

\* The state has its types, and a passing run names a review of its commit
\* or was asked to judge without one.
TypeOK ==
  /\ requireAgreement \in BOOLEAN
  /\ \A i \in DOMAIN commits :
       commits[i] \in [by : People, rebased : BOOLEAN, authors : SUBSET People,
                       committers : SUBSET People, contract : Nat,
                       inScope : BOOLEAN]
  /\ contract \in Nat
  /\ \A i \in DOMAIN records : records[i] \in Record
  /\ accepting.commit \in 0..Tip /\ accepting.findings \subseteq Findings
  /\ run.commit \in 0..Tip /\ run.loaded \in 0..Len(records)
  /\ run.review \in 0..Len(records)
  /\ run.step = "passed" =>
       IF run.review = NoRecord THEN ~run.required
       ELSE records[run.review].commit = run.commit
  /\ merged \in 0..Tip
  /\ \A op \in Ops : judged[op].loaded <= judged[op].seen
                     /\ judged[op].seen \in 0..Len(records)

\* Record i is the last review of commit c among the first n records.
LastReview(i, c, n) ==
  /\ i \in 1..n
  /\ records[i].type = "review" /\ records[i].commit = c
  /\ \A j \in (i + 1)..n :
       ~(records[j].type = "review" /\ records[j].commit = c)

\* The last review of what merged, among the records its gate had read.
MergedOn(i) == LastReview(i, merged, judged["merge"].seen)

(***************************************************************************)
(* What merged was reviewed as that commit, unless its gate was asked to   *)
(* judge without a review; and each objection of its review standing when  *)
(* the gate read the journal had been taken on by the operator, whatever   *)
(* the gate was asked: no verdict on another commit, no approval a later   *)
(* review took back and no acceptance of fewer findings or of another kind *)
(* carried it.                                                             *)
(***************************************************************************)
NoObjectionMergedUnanswered ==
  /\ TypeOK
  /\ merged # NoCommit =>
       /\ judged["merge"].required => \E i \in DOMAIN records : MergedOn(i)
       /\ \A i \in DOMAIN records : MergedOn(i) =>
            \A f \in records[i].findings : \E k \in 1..judged["merge"].seen :
              /\ records[k].type = "acceptance"
              /\ records[k].commit = merged
              /\ f \in records[k].findings

\* The range at head n names who made head c: an author for good, who only
\* rebased it until the next rebase.
Names(n, c) ==
  commits[c].rebased => \A d \in (c + 1)..n : ~commits[d].rebased

(***************************************************************************)
(* Nobody's own review carried their work in, whichever commit of the      *)
(* range they wrote and whoever rebased it since, nor the review of the    *)
(* one who rebased it last.                                                *)
(***************************************************************************)
NobodyApprovesTheirOwn ==
  merged # NoCommit =>
    \A i \in DOMAIN records : MergedOn(i) =>
      \A c \in 1..merged : Names(merged, c) => commits[c].by # records[i].by

(***************************************************************************)
(* Where agreement is required, what merged is in the scope of a contract  *)
(* somebody agreed to before the gate ran: the version the branch was      *)
(* judged by, not the one an amendment put on the base since.              *)
(***************************************************************************)
MergedUnderAgreedContract ==
  merged # NoCommit /\ requireAgreement =>
    /\ commits[merged].inScope
    /\ \E i \in 1..judged["merge"].loaded :
         /\ records[i].type = "agreement"
         /\ records[i].contract = commits[merged].contract

(***************************************************************************)
(* A completed record answers exactly the advisory findings of the review  *)
(* the gate judged, however many reviews were appended between the         *)
(* judgement and the write.                                                *)
(***************************************************************************)
CompletionAnswersJudgedReview ==
  \A n \in DOMAIN records : records[n].type = "completed" =>
    \E i \in DOMAIN records :
      /\ LastReview(i, records[n].commit, judged["complete"].seen)
      /\ records[i].advisory = records[n].answered
============================================================================
