-------------------------- MODULE ReviewGate_proofs --------------------------
(***************************************************************************)
(* What the gate lets merge and what a completion answers, for any number  *)
(* of people, findings, commits and records.                               *)
(*                                                                         *)
(* The properties are about what the gate had read when it judged, while   *)
(* the branch and the journal went on growing.  The invariant therefore    *)
(* carries, from the judgement on, what it rested on: the last review of   *)
(* the commit among the records seen, the acceptance of each of its        *)
(* findings and its independence, or that there was none and none was      *)
(* required; the scope and the agreement (Carries).                        *)
(* Journal and branch only grow, so what rested on the records seen then   *)
(* rests on the same records now; and a judgement is not replaced by a     *)
(* later one once something merged or was completed on it.                 *)
(***************************************************************************)
EXTENDS ReviewGate, SequenceTheorems, WellFoundedInduction, TLAPS

CommitState == [by : People, rebased : BOOLEAN, authors : SUBSET People,
                committers : SUBSET People, contract : Nat, inScope : BOOLEAN]
Runs == [op : Ops \cup {"none"}, step : {"idle", "loaded", "passed"},
         commit : 0..Tip, loaded : 0..Len(records), required : BOOLEAN,
         review : 0..Len(records)]
Judgements == {j \in [seen : 0..Len(records), loaded : 0..Len(records),
                      required : BOOLEAN] : j.loaded <= j.seen}

Typed ==
  /\ requireAgreement \in BOOLEAN
  /\ commits \in Seq(CommitState) /\ Tip >= 1
  /\ contract \in Nat
  /\ records \in Seq(Record)
  /\ accepting \in [commit : 0..Tip, findings : SUBSET Findings]
  /\ run \in Runs
  /\ merged \in 0..Tip
  /\ judged \in [Ops -> Judgements]

\* Whoever wrote a commit is an author of every later range, and whoever
\* rebased one a committer of it until the next rebase.
WritersCount ==
  \A c \in 1..Tip : \A b \in 1..c :
    /\ ~commits[b].rebased => commits[b].by \in commits[c].authors
    /\ commits[b].rebased /\ (\A d \in (b + 1)..c : ~commits[d].rebased)
         => commits[b].by \in commits[c].committers

\* Review i of commit c carried a judgement j.
Answered(c, i, j) ==
  /\ LastReview(i, c, j.seen)
  /\ \A f \in records[i].findings : \E k \in 1..j.seen :
       /\ records[k].type = "acceptance"
       /\ records[k].commit = c
       /\ f \in records[k].findings
  /\ records[i].by \notin commits[c].authors \cup commits[c].committers

\* There was no review of commit c to carry it, and none was required.
Unreviewed(c, i, j) ==
  /\ i = NoRecord /\ ~j.required
  /\ \A k \in 1..j.seen : ~(records[k].type = "review" /\ records[k].commit = c)

\* What a judgement j of commit c rested on, i the review it judged.
Carries(c, i, j) ==
  /\ Answered(c, i, j) \/ Unreviewed(c, i, j)
  /\ commits[c].inScope
  /\ requireAgreement => \E k \in 1..j.loaded :
       /\ records[k].type = "agreement"
       /\ records[k].contract = commits[c].contract

RunStarted ==
  run.step # "idle" => /\ run.op \in Ops /\ run.commit \in 1..Tip
                       /\ run.op = "complete" => run.required
PassedRun ==
  run.step = "passed" => /\ Carries(run.commit, run.review, judged[run.op])
                         /\ judged[run.op].required = run.required
MergedStands ==
  merged # NoCommit =>
    /\ run.op # "merge"
    /\ \E i \in 0..Len(records) : Carries(merged, i, judged["merge"])
CompletionsStand ==
  \A n \in DOMAIN records : records[n].type = "completed" =>
    /\ run.op # "complete"
    /\ \E i \in DOMAIN records :
         /\ LastReview(i, records[n].commit, judged["complete"].seen)
         /\ records[i].advisory = records[n].answered

IInv == /\ Typed /\ WritersCount
        /\ RunStarted /\ PassedRun /\ MergedStands /\ CompletionsStand

----------------------------------------------------------------------------
\* A set of naturals with something in it has a least element.
LEMMA Least ==
  ASSUME NEW T, T \subseteq Nat, T # {}
  PROVE  \E x \in T : \A y \in T : x <= y
<1>1. PICK R : /\ IsWellFoundedOn(R, Nat)
               /\ \A x, y \in Nat : y < x => <<y, x>> \in R
  <2> DEFINE Less == OpToRel(<, Nat)
  <2>1. IsWellFoundedOn(Less, Nat)
    BY NatLessThanWellFounded
  <2>2. \A x, y \in Nat : y < x => <<y, x>> \in Less
    BY DEF OpToRel
  <2> HIDE DEF Less
  <2>3. QED
    BY <2>1, <2>2
<1>2. PICK x \in T : \A y \in T : ~ (<<y, x>> \in R)
  BY <1>1, WFMin
<1>3. ASSUME NEW y \in T PROVE x <= y
  <2>1. x \in Nat /\ y \in Nat
    OBVIOUS
  <2>2. \A a, b \in Nat : b < a => <<b, a>> \in R
    BY <1>1
  <2>3. ~(y < x)
    BY <1>2, <2>1, <2>2
  <2>4. QED
    BY <2>1, <2>3
<1>4. QED
  BY <1>3

\* The latest of some records is one of them, and none of them is later.
LEMMA LatestOfSome ==
  ASSUME NEW n \in Nat, NEW I, I \subseteq 1..n, I # {}
  PROVE  Latest(I) \in I /\ \A i \in I : i <= Latest(I)
<1> DEFINE T == {n - i : i \in I}
<1>1. T \subseteq Nat /\ T # {}
  <2>1. ASSUME NEW i \in I PROVE n - i \in Nat
    <3>1. i \in 1..n
      OBVIOUS
    <3>2. QED
      BY <3>1
  <2>2. PICK i \in I : TRUE
    OBVIOUS
  <2>3. n - i \in T
    BY <2>2
  <2>4. QED
    BY <2>1, <2>3
<1>2. PICK x \in T : \A y \in T : x <= y
  BY <1>1, Least
<1>3. PICK m \in I : x = n - m
  BY <1>2
<1>4. ASSUME NEW i \in I PROVE i <= m
  <2>1. n - m <= n - i
    BY <1>2, <1>3
  <2>2. i \in Int /\ m \in Int
    OBVIOUS
  <2>3. QED
    BY <2>1, <2>2
<1>5. \E i \in I : \A j \in I : j <= i
  BY <1>4
<1>6. QED
  BY <1>5 DEF Latest

LEMMA LatestIsLast ==
  ASSUME NEW n \in Nat, NEW I, I \subseteq 1..n, Latest(I) # NoRecord
  PROVE  Latest(I) \in I /\ \A i \in I : i <= Latest(I)
<1>1. I # {}
  BY DEF Latest
<1>2. QED
  BY <1>1, LatestOfSome

\* The records of each type have that type's fields.
LEMMA RecordFields ==
  ASSUME NEW r \in Record
  PROVE  /\ r.type = "review" =>
              r \in [type : {"review"}, commit : Nat,
                     findings : SUBSET Findings, advisory : SUBSET Advisories,
                     by : People]
         /\ r.type = "acceptance" =>
              r \in [type : {"acceptance"}, commit : Nat,
                     form : AcceptanceForms, findings : SUBSET Findings]
         /\ r.type = "completed" =>
              r \in [type : {"completed"}, commit : Nat,
                     answered : SUBSET Advisories]
BY DEF Record

LEMMA IInvInit == Init => IInv
<1>1. SUFFICES ASSUME Init PROVE IInv
  OBVIOUS
<1>2. PICK p \in People :
        commits = <<[by |-> p, rebased |-> FALSE, authors |-> {p},
                     committers |-> {p}, contract |-> 1, inScope |-> TRUE]>>
  BY <1>1 DEF Init
<1>3. /\ commits \in Seq(CommitState) /\ Tip = 1
      /\ ~commits[1].rebased /\ commits[1].by \in commits[1].authors
  BY <1>2 DEF CommitState, Tip
<1>4. records = << >> /\ records \in Seq(Record) /\ Len(records) = 0
  BY <1>1 DEF Init
<1>5. /\ accepting \in [commit : 0..Tip, findings : SUBSET Findings]
      /\ run \in Runs /\ merged \in 0..Tip /\ contract \in Nat
      /\ requireAgreement \in BOOLEAN
  BY <1>1, <1>3, <1>4
  DEF Init, NotAccepting, Runs, Idle, NoCommit, NoRecord
<1>6. judged \in [Ops -> Judgements]
  BY <1>1, <1>4 DEF Init, Judgements
<1>7. run.step = "idle" /\ merged = NoCommit /\ DOMAIN records = {}
  BY <1>1 DEF Init, Idle
<1>8. QED
  BY <1>3, <1>4, <1>5, <1>6, <1>7 DEF IInv, Typed, WritersCount, RunStarted,
     PassedRun, MergedStands, CompletionsStand

----------------------------------------------------------------------------
\* The journal and the branch only grow.
Grows ==
  /\ requireAgreement' = requireAgreement
  /\ Tip \in Nat /\ Tip' \in Nat /\ Tip <= Tip'
  /\ \A c \in 1..Tip : commits'[c] = commits[c]
  /\ DOMAIN records = 1..Len(records) /\ DOMAIN records' = 1..Len(records)'
  /\ Len(records) \in Nat /\ Len(records)' \in Nat
  /\ Len(records) <= Len(records)'
  /\ \A k \in 1..Len(records) : records'[k] = records[k]

\* The last review among records read is the last among the same later.
LEMMA LastReviewStays ==
  ASSUME Grows, NEW c, NEW i, NEW n \in 0..Len(records), LastReview(i, c, n)
  PROVE  LastReview(i, c, n)'
BY DEF Grows, LastReview

\* What a judgement rested on, said of the records and commits after a step.
StillAnswered(c, i, j) ==
  /\ i \in 1..j.seen
  /\ records'[i].type = "review" /\ records'[i].commit = c
  /\ \A k \in (i + 1)..j.seen :
       ~(records'[k].type = "review" /\ records'[k].commit = c)
  /\ \A f \in records'[i].findings : \E k \in 1..j.seen :
       /\ records'[k].type = "acceptance"
       /\ records'[k].commit = c
       /\ f \in records'[k].findings
  /\ records'[i].by \notin commits'[c].authors \cup commits'[c].committers

StillUnreviewed(c, i, j) ==
  /\ i = NoRecord /\ ~j.required
  /\ \A k \in 1..j.seen :
       ~(records'[k].type = "review" /\ records'[k].commit = c)

StillCarries(c, i, j) ==
  /\ StillAnswered(c, i, j) \/ StillUnreviewed(c, i, j)
  /\ commits'[c].inScope
  /\ requireAgreement' => \E k \in 1..j.loaded :
       /\ records'[k].type = "agreement"
       /\ records'[k].contract = commits'[c].contract

LEMMA CarriesStays ==
  ASSUME Grows, NEW c \in 1..Tip, NEW i, NEW j \in Judgements,
         Carries(c, i, j)
  PROVE  StillCarries(c, i, j)
<1>1. /\ j.seen \in 0..Len(records) /\ j.loaded \in 0..Len(records)
      /\ \A k \in 1..j.seen : records'[k] = records[k]
      /\ \A k \in 1..j.loaded : records'[k] = records[k]
      /\ commits'[c] = commits[c] /\ requireAgreement' = requireAgreement
  BY DEF Grows, Judgements
<1>2. ASSUME Answered(c, i, j) PROVE StillAnswered(c, i, j)
  <2>1. LastReview(i, c, j.seen) /\ i \in 1..j.seen
    BY <1>2 DEF Answered, LastReview
  <2>2. /\ records'[i].type = "review" /\ records'[i].commit = c
        /\ \A k \in (i + 1)..j.seen :
             ~(records'[k].type = "review" /\ records'[k].commit = c)
    BY <1>1, <2>1 DEF LastReview
  <2>3. \A f \in records'[i].findings : \E k \in 1..j.seen :
          /\ records'[k].type = "acceptance"
          /\ records'[k].commit = c
          /\ f \in records'[k].findings
    BY <1>1, <1>2, <2>1 DEF Answered
  <2>4. QED
    BY <1>1, <1>2, <2>1, <2>2, <2>3 DEF Answered, StillAnswered
<1>3. ASSUME Unreviewed(c, i, j) PROVE StillUnreviewed(c, i, j)
  BY <1>1, <1>3 DEF Unreviewed, StillUnreviewed
<1>4. QED
  BY <1>1, <1>2, <1>3 DEF Carries, StillCarries

LEMMA AppendFacts ==
  ASSUME NEW S, NEW s \in Seq(S), NEW e \in S
  PROVE  /\ Append(s, e) \in Seq(S)
         /\ Len(s) \in Nat /\ Len(Append(s, e)) = Len(s) + 1
         /\ DOMAIN s = 1..Len(s)
         /\ DOMAIN Append(s, e) = 1..(Len(s) + 1)
         /\ \A i \in 1..Len(s) : Append(s, e)[i] = s[i]
         /\ Append(s, e)[Len(s) + 1] = e
BY AppendProperties, LenProperties

\* The record an action appends is a record.
LEMMA Appended ==
  ASSUME Typed
  PROVE  /\ \A c \in 1..Tip, v \in Verdicts, p \in People :
              Review(c, v, p) \in Record
         /\ \A v \in 1..contract : Agreement(v) \in Record
         /\ \A c \in 1..Tip, form \in AcceptanceForms, f \in SUBSET Findings :
              Acceptance(c, form, f) \in Record
         /\ \A c \in 0..Tip, a \in SUBSET Advisories :
              Completed(c, a) \in Record
<1>1. Tip \in Nat
  BY LenProperties DEF Typed, Tip
<1>2. ASSUME NEW c \in 1..Tip, NEW v \in Verdicts, NEW p \in People
      PROVE  Review(c, v, p) \in Record
  <2>1. v.findings \in SUBSET Findings /\ v.advisory \in SUBSET Advisories
    BY VerdictsAssumption
  <2>2. c \in Nat
    BY <1>1
  <2>3. QED
    BY <2>1, <2>2 DEF Review, Record
<1>3. ASSUME NEW v \in 1..contract PROVE Agreement(v) \in Record
  <2>1. v \in Nat
    BY DEF Typed
  <2>2. QED
    BY <2>1 DEF Agreement, Record
<1>4. ASSUME NEW c \in 0..Tip PROVE c \in Nat
  BY <1>1
<1>5. \A c \in 1..Tip, form \in AcceptanceForms, f \in SUBSET Findings :
        Acceptance(c, form, f) \in Record
  BY <1>1 DEF Acceptance, Record
<1>6. ASSUME NEW c \in 0..Tip, NEW a \in SUBSET Advisories
      PROVE  Completed(c, a) \in Record
  <2>1. c \in Nat
    BY <1>4
  <2>2. Completed(c, a) \in
          [type : {"completed"}, commit : Nat, answered : SUBSET Advisories]
    BY <2>1 DEF Completed
  <2>3. QED
    BY <2>2 DEF Record
<1>7. QED
  BY <1>2, <1>3, <1>5, <1>6

\* What an action does to the branch and to the journal.
LEMMA Grown ==
  ASSUME Typed, requireAgreement' = requireAgreement,
         \/ commits' = commits
         \/ \E x \in CommitState : commits' = Append(commits, x),
         \/ records' = records
         \/ \E r \in Record : records' = Append(records, r)
  PROVE  /\ Grows
         /\ commits' \in Seq(CommitState) /\ Tip' >= 1
         /\ records' \in Seq(Record)
<1>1. /\ commits' \in Seq(CommitState) /\ Tip' >= 1
      /\ Tip \in Nat /\ Tip' \in Nat /\ Tip <= Tip'
      /\ \A c \in 1..Tip : commits'[c] = commits[c]
  <2>1. CASE commits' = commits
    BY <2>1, LenProperties DEF Typed, Tip
  <2>2. CASE \E x \in CommitState : commits' = Append(commits, x)
    <3>1. PICK x \in CommitState : commits' = Append(commits, x)
      BY <2>2
    <3>2. QED
      BY <3>1, AppendFacts DEF Typed, Tip
  <2>3. QED
    BY <2>1, <2>2
<1>2. /\ records' \in Seq(Record)
      /\ DOMAIN records = 1..Len(records) /\ DOMAIN records' = 1..Len(records)'
      /\ Len(records) \in Nat /\ Len(records)' \in Nat
      /\ Len(records) <= Len(records)'
      /\ \A k \in 1..Len(records) : records'[k] = records[k]
  <2>1. CASE records' = records
    BY <2>1, LenProperties DEF Typed
  <2>2. CASE \E r \in Record : records' = Append(records, r)
    <3>1. PICK r \in Record : records' = Append(records, r)
      BY <2>2
    <3>2. QED
      BY <3>1, AppendFacts DEF Typed
  <2>3. QED
    BY <2>1, <2>2
<1>3. QED
  BY <1>1, <1>2 DEF Grows

\* What merged stays answered for, unless another merge run takes its place.
LEMMA MergedKept ==
  ASSUME IInv, Grows, merged' = merged,
         merged # NoCommit => /\ run'.op # "merge"
                              /\ judged'["merge"] = judged["merge"]
  PROVE  MergedStands'
<1>1. SUFFICES ASSUME merged' # NoCommit
               PROVE  \E i \in 0..Len(records)' :
                        Carries(merged, i, judged["merge"])'
  BY DEF MergedStands
<1>2. PICK i \in 0..Len(records) : Carries(merged, i, judged["merge"])
  BY <1>1 DEF IInv, MergedStands
<1>3. merged \in 1..Tip /\ judged["merge"] \in Judgements
  BY <1>1 DEF IInv, Typed, Ops, NoCommit, Grows
<1>4. StillCarries(merged, i, judged["merge"])
  BY <1>2, <1>3, CarriesStays
<1>5. merged' = merged /\ judged'["merge"] = judged["merge"]
  BY <1>1
<1>6. Carries(merged, i, judged["merge"])'
  BY <1>4, <1>5 DEF StillCarries, StillAnswered,
       StillUnreviewed, Carries, Answered, Unreviewed, LastReview
<1>7. i \in 0..Len(records)'
  BY <1>2 DEF Grows
<1>8. QED
  BY <1>6, <1>7

\* A completion stays answered for, unless another run takes its place.
LEMMA CompletionsKept ==
  ASSUME IInv, Grows,
         \A n \in 1..Len(records)' : n > Len(records)
           => records'[n].type # "completed",
         Open \/ /\ run'.op # "complete"
                 /\ judged'["complete"] = judged["complete"]
  PROVE  CompletionsStand'
<1>1. SUFFICES ASSUME NEW n \in DOMAIN records',
                      records'[n].type = "completed"
               PROVE  /\ run'.op # "complete"
                      /\ \E i \in DOMAIN records' :
                           /\ LastReview(i, records[n].commit,
                                         judged["complete"].seen)'
                           /\ records'[i].advisory = records'[n].answered
  BY DEF CompletionsStand
<1>2. /\ n \in 1..Len(records) /\ n \in DOMAIN records
      /\ records'[n] = records[n]
  BY <1>1 DEF Grows
<1>3. PICK i \in DOMAIN records :
        /\ LastReview(i, records[n].commit, judged["complete"].seen)
        /\ records[i].advisory = records[n].answered
  BY <1>1, <1>2 DEF IInv, CompletionsStand
<1>4. run'.op # "complete" /\ judged'["complete"] = judged["complete"]
  BY <1>1, <1>2 DEF Open
<1>5. judged["complete"].seen \in 0..Len(records)
  BY DEF IInv, Typed, Ops, Judgements
<1>6. LastReview(i, records[n].commit, judged["complete"].seen)'
  BY <1>2, <1>3, <1>4, <1>5 DEF LastReview, Grows
<1>7. i \in DOMAIN records' /\ records'[i] = records[i]
  BY <1>3 DEF Grows
<1>8. QED
  BY <1>2, <1>3, <1>4, <1>6, <1>7

\* The parts of the invariant that speak of a run, of the commit merged and
\* of the completions, as long as the step touches none of them.
LEMMA RunUntouched ==
  ASSUME IInv, Grows, UNCHANGED <<run, judged, merged>>,
         \A n \in 1..Len(records)' : n > Len(records)
           => records'[n].type # "completed"
  PROVE  RunStarted' /\ PassedRun' /\ MergedStands' /\ CompletionsStand'
<1>1. RunStarted'
  BY DEF IInv, RunStarted, Grows
<1>2. PassedRun'
  <2>1. SUFFICES ASSUME run'.step = "passed"
                 PROVE  /\ Carries(run.commit, run.review, judged[run.op])'
                        /\ judged'[run'.op].required = run'.required
    BY DEF PassedRun
  <2>2. /\ run.commit \in 1..Tip /\ judged[run.op] \in Judgements
        /\ Carries(run.commit, run.review, judged[run.op])
        /\ judged[run.op].required = run.required
    BY <2>1 DEF IInv, RunStarted, PassedRun, Typed
  <2>3. /\ run'.commit = run.commit /\ run'.review = run.review
        /\ run'.required = run.required
        /\ judged'[run'.op] = judged[run.op]
    OBVIOUS
  <2>4. StillCarries(run.commit, run.review, judged[run.op])
    BY <2>2, CarriesStays
  <2>5. QED
    BY <2>2, <2>3, <2>4 DEF StillCarries, StillAnswered,
       StillUnreviewed, Carries, Answered, Unreviewed, LastReview
<1>3. MergedStands'
  BY MergedKept DEF IInv, MergedStands
<1>4. CASE Open
  BY <1>1, <1>2, <1>3, <1>4, CompletionsKept
<1>5. CASE ~Open
  BY <1>1, <1>2, <1>3, <1>5, CompletionsKept
  DEF IInv, CompletionsStand, Open
<1>6. QED
  BY <1>4, <1>5

\* A run that ends without a record of its own.
LEMMA RunEnds ==
  ASSUME IInv, Grows, run' = Idle, UNCHANGED <<judged, merged>>,
         \A n \in 1..Len(records)' : n > Len(records)
           => records'[n].type # "completed"
  PROVE  RunStarted' /\ PassedRun' /\ MergedStands' /\ CompletionsStand'
<1>1. run'.step = "idle" /\ run'.op = "none"
  BY DEF Idle
<1>2. QED
  BY <1>1, MergedKept, CompletionsKept DEF RunStarted, PassedRun

\* What has its type keeps it while branch and journal grow.
LEMMA TypesWiden ==
  ASSUME Typed, Grows
  PROVE  /\ accepting \in [commit : 0..Tip', findings : SUBSET Findings]
         /\ NotAccepting \in [commit : 0..Tip', findings : SUBSET Findings]
         /\ run \in Runs' /\ Idle \in Runs'
         /\ merged \in 0..Tip'
         /\ judged \in [Ops -> Judgements']
<1>1. 0..Tip \subseteq 0..Tip' /\ 0..Len(records) \subseteq 0..Len(records)'
      /\ 0 \in 0..Tip' /\ 0 \in 0..Len(records)'
  BY DEF Grows
<1>2. /\ accepting \in [commit : 0..Tip', findings : SUBSET Findings]
      /\ NotAccepting \in [commit : 0..Tip', findings : SUBSET Findings]
  BY <1>1 DEF Typed, NotAccepting, NoCommit
<1>3. run \in Runs' /\ Idle \in Runs'
  BY <1>1 DEF Typed, Runs, Idle, NoCommit, NoRecord
<1>4. Judgements \subseteq Judgements'
  BY <1>1 DEF Judgements
<1>5. QED
  BY <1>1, <1>2, <1>3, <1>4 DEF Typed

----------------------------------------------------------------------------
\* The gate's verdict: what it passes carries all that it asked for.
LEMMA PassingCarries ==
  ASSUME IInv, run.step = "loaded",
         GatePasses(run.commit, run.loaded, run.required)
  PROVE  /\ JudgedReview(run.commit) \in 0..Len(records)
         /\ Carries(run.commit, JudgedReview(run.commit),
                    [seen |-> Len(records), loaded |-> run.loaded,
                     required |-> run.required])
<1> DEFINE c == run.commit
           n == Len(records)
           i == JudgedReview(c)
           j == [seen |-> n, loaded |-> run.loaded, required |-> run.required]
<1>1. /\ n \in Nat /\ records \in Seq(Record)
      /\ \A k \in 1..n : records[k] \in Record
  BY ElementOfSeq, LenProperties DEF IInv, Typed
<1>2. i = Latest(ReviewsOf(c, n))
  BY DEF JudgedReview
<1>3. ReviewsOf(c, n) \subseteq 1..n /\ AcceptancesOf(c, n) \subseteq 1..n
  BY DEF ReviewsOf, AcceptancesOf
<1>4. ASSUME i # NoRecord
      PROVE  i \in 0..n /\ (Answered(c, i, j) \/ Unreviewed(c, i, j))
  <2>1. i \in ReviewsOf(c, n) /\ \A k \in ReviewsOf(c, n) : k <= i
    BY <1>1, <1>2, <1>3, <1>4, LatestIsLast
  <2>2. i \in 1..n /\ records[i].type = "review" /\ records[i].commit = c
    BY <2>1 DEF ReviewsOf
  <2>3. LastReview(i, c, n)
    <3>1. ASSUME NEW k \in (i + 1)..n,
                 records[k].type = "review", records[k].commit = c
          PROVE  FALSE
      <4>1. k \in ReviewsOf(c, n) /\ k > i
        BY <1>1, <2>2, <3>1 DEF ReviewsOf
      <4>2. k <= i /\ k \in Int /\ i \in Int
        BY <2>1, <2>2, <4>1
      <4>3. QED
        BY <4>1, <4>2
    <3>2. QED
      BY <2>2, <3>1 DEF LastReview
  <2>4. \A f \in records[i].findings : \E k \in 1..n :
          /\ records[k].type = "acceptance"
          /\ records[k].commit = c
          /\ f \in records[k].findings
    <3>1. CASE records[i].findings = {}
      BY <3>1
    <3>2. CASE AcceptedExactly(c, i, n)
      <4> DEFINE a == Latest(AcceptancesOf(c, n))
      <4>1. a # NoRecord /\ records[a].findings = records[i].findings
        BY <3>2 DEF AcceptedExactly
      <4>2. a \in AcceptancesOf(c, n)
        BY <1>1, <1>3, <4>1, LatestIsLast
      <4>3. /\ a \in 1..n /\ records[a].type = "acceptance"
            /\ records[a].commit = c
        BY <4>2 DEF AcceptancesOf
      <4> HIDE DEF a
      <4>4. QED
        BY <4>1, <4>3
    <3>3. QED
      BY <1>4, <3>1, <3>2 DEF GatePasses, Approves
  <2>5. records[i].by \notin commits[c].authors \cup commits[c].committers
    BY <1>4 DEF GatePasses, Independent
  <2>0. j.seen = n
    OBVIOUS
  <2> HIDE DEF c, n, i, j
  <2>6. Answered(c, i, j)
    BY <2>0, <2>3, <2>4, <2>5 DEF Answered
  <2>7. QED
    BY <1>1, <2>2, <2>6
<1>5. ASSUME i = NoRecord
      PROVE  i \in 0..n /\ (Answered(c, i, j) \/ Unreviewed(c, i, j))
  <2>1. ~run.required
    BY <1>5 DEF GatePasses
  <2>2. ReviewsOf(c, n) = {}
    <3>1. SUFFICES ASSUME ReviewsOf(c, n) # {} PROVE FALSE
      OBVIOUS
    <3>2. Latest(ReviewsOf(c, n)) \in ReviewsOf(c, n)
      BY <1>1, <1>3, <3>1, LatestOfSome
    <3>3. QED
      BY <1>2, <1>3, <1>5, <3>2 DEF NoRecord
  <2>3. \A k \in 1..n : ~(records[k].type = "review" /\ records[k].commit = c)
    BY <2>2 DEF ReviewsOf
  <2>0. j.seen = n /\ ~j.required
    BY <2>1
  <2> HIDE DEF c, n, i, j
  <2>4. Unreviewed(c, i, j)
    BY <1>5, <2>0, <2>3 DEF Unreviewed
  <2>5. QED
    BY <1>1, <1>5, <2>4 DEF NoRecord
<1>6. i \in 0..n /\ (Answered(c, i, j) \/ Unreviewed(c, i, j))
  BY <1>4, <1>5
<1>7. commits[c].inScope
  BY DEF GatePasses
<1>8. requireAgreement => \E k \in 1..run.loaded :
        /\ records[k].type = "agreement"
        /\ records[k].contract = commits[c].contract
  BY DEF GatePasses, AgreementHolds
<1> HIDE DEF c, n, i
<1>9. Carries(c, i, j)
  BY <1>6, <1>7, <1>8 DEF Carries
<1>10. QED
  BY <1>6, <1>9 DEF c, n, i

\* What a commit says of the writers before it: one adds itself to them, a
\* rebase takes the place of the committers.
Follows(x, y) ==
  IF x.rebased
  THEN x.authors = y.authors /\ x.by \in x.committers
  ELSE /\ x.by \in x.authors /\ y.authors \subseteq x.authors
       /\ y.committers \subseteq x.committers

\* A commit joins the branch.
LEMMA BranchGrows ==
  ASSUME IInv, NEW x \in CommitState, Follows(x, commits[Tip]),
         commits' = Append(commits, x),
         UNCHANGED <<requireAgreement, contract, records, accepting, run,
                     merged, judged>>
  PROVE  IInv'
<1>1. Typed
  BY DEF IInv
<1>2. /\ Grows /\ commits' \in Seq(CommitState) /\ Tip' >= 1
  BY <1>1, Grown
<1>3. Typed'
  BY <1>1, <1>2, TypesWiden DEF Typed
<1>4. WritersCount'
  <2>1. /\ Tip \in Nat /\ Tip' = Tip + 1 /\ Tip >= 1
        /\ \A c \in 1..Tip : commits'[c] = commits[c]
        /\ commits'[Tip + 1] = x
    BY <1>1, AppendFacts DEF Typed, Tip
  <2>2. SUFFICES
          ASSUME NEW c \in 1..(Tip + 1), NEW b \in 1..c
          PROVE  /\ ~commits'[b].rebased => commits'[b].by \in commits'[c].authors
                 /\ commits'[b].rebased
                    /\ (\A d \in (b + 1)..c : ~commits'[d].rebased)
                      => commits'[b].by \in commits'[c].committers
    BY <2>1 DEF WritersCount
  <2>3. CASE c \in 1..Tip
    <3>0. b \in 1..Tip /\ \A d \in (b + 1)..c : d \in 1..Tip
      BY <2>1, <2>3
    <3>1. /\ commits'[c] = commits[c] /\ commits'[b] = commits[b]
          /\ \A d \in (b + 1)..c : commits'[d] = commits[d]
      BY <2>1, <2>3, <3>0
    <3>2. /\ ~commits[b].rebased => commits[b].by \in commits[c].authors
          /\ commits[b].rebased
             /\ (\A d \in (b + 1)..c : ~commits[d].rebased)
               => commits[b].by \in commits[c].committers
      BY <2>3 DEF IInv, WritersCount
    <3>3. QED
      BY <3>1, <3>2
  <2>4. CASE c = Tip + 1 /\ b \in 1..Tip
    <3>1. /\ ~commits[b].rebased => commits[b].by \in commits[Tip].authors
          /\ commits[b].rebased
             /\ (\A d \in (b + 1)..Tip : ~commits[d].rebased)
               => commits[b].by \in commits[Tip].committers
      BY <2>1, <2>4 DEF IInv, WritersCount
    <3>0. /\ \A d \in (b + 1)..Tip : d \in 1..Tip /\ d \in (b + 1)..c
          /\ c \in (b + 1)..c
      <4>1. Tip \in Nat /\ b \in 1..Tip /\ c = Tip + 1
        BY <2>1, <2>4
      <4>2. QED
        BY <4>1
    <3>2. /\ commits'[b] = commits[b] /\ commits'[c] = x
          /\ \A d \in (b + 1)..Tip : commits'[d] = commits[d]
          /\ c \in (b + 1)..c /\ (b + 1)..Tip \subseteq (b + 1)..c
      BY <2>1, <2>4, <3>0
    <3>3. QED
      BY <3>1, <3>2 DEF Follows
  <2>5. CASE c = Tip + 1 /\ b = Tip + 1
    BY <2>1, <2>5 DEF Follows
  <2>6. \/ c \in 1..Tip
        \/ c = Tip + 1 /\ b \in 1..Tip
        \/ c = Tip + 1 /\ b = Tip + 1
    <3>1. Tip \in Nat /\ c \in 1..(Tip + 1) /\ b \in 1..c
      BY <2>1
    <3>2. QED
      BY <3>1
  <2>7. QED
    BY <2>3, <2>4, <2>5, <2>6
<1>5. \A n \in 1..Len(records)' : n > Len(records)
        => records'[n].type # "completed"
  BY <1>2 DEF Grows
<1>6. RunStarted' /\ PassedRun' /\ MergedStands' /\ CompletionsStand'
  BY <1>2, <1>5, RunUntouched
<1>7. QED
  BY <1>3, <1>4, <1>6 DEF IInv

\* A record that is no completion is appended.
LEMMA JournalGrows ==
  ASSUME IInv, NEW r \in Record, r.type # "completed",
         records' = Append(records, r), accepting' \in {accepting, NotAccepting},
         UNCHANGED <<requireAgreement, commits, contract, run, merged, judged>>
  PROVE  IInv'
<1>1. Typed
  BY DEF IInv
<1>2. /\ Grows /\ commits' \in Seq(CommitState) /\ Tip' >= 1
      /\ records' \in Seq(Record)
  BY <1>1, Grown
<1>3. Typed'
  BY <1>1, <1>2, TypesWiden DEF Typed
<1>4. WritersCount'
  BY DEF IInv, WritersCount, Tip
<1>5. \A n \in 1..Len(records)' : n > Len(records)
        => records'[n].type # "completed"
  <2>1. /\ Len(records) \in Nat /\ Len(records)' = Len(records) + 1
        /\ records'[Len(records) + 1] = r
    BY <1>1, AppendFacts DEF Typed
  <2>2. QED
    BY <2>1
<1>6. RunStarted' /\ PassedRun' /\ MergedStands' /\ CompletionsStand'
  BY <1>2, <1>5, RunUntouched
<1>7. QED
  BY <1>3, <1>4, <1>6 DEF IInv

\* A step that appends neither a commit nor a record.
LEMMA NothingAppended ==
  ASSUME IInv, UNCHANGED <<requireAgreement, commits, records>>,
         contract' \in Nat,
         accepting' \in [commit : 0..Tip, findings : SUBSET Findings],
         run' \in Runs, merged' \in 0..Tip, judged' \in [Ops -> Judgements]
  PROVE  /\ Grows
         /\ \A n \in 1..Len(records)' : n > Len(records)
              => records'[n].type # "completed"
         /\ Typed' /\ WritersCount'
<1>1. /\ Typed /\ Tip \in Nat /\ Len(records) \in Nat
      /\ DOMAIN records = 1..Len(records)
  BY LenProperties DEF IInv, Typed, Tip
<1>2. /\ Tip' = Tip /\ Len(records)' = Len(records)
      /\ Runs' = Runs /\ Judgements' = Judgements
  BY DEF Tip, Runs, Judgements
<1>3. Grows
  BY <1>1, <1>2 DEF Grows
<1>4. \A n \in 1..Len(records)' : n > Len(records)
        => records'[n].type # "completed"
  BY <1>1, <1>2
<1>5. Typed'
  BY <1>1, <1>2 DEF Typed
<1>6. WritersCount'
  BY <1>2 DEF IInv, WritersCount
<1>7. QED
  BY <1>3, <1>4, <1>5, <1>6

\* The steps that append nothing.
Quiet ==
  \/ Amend
  \/ \E c \in 1..Tip :
       \/ AcceptRead(c)
       \/ \E op \in Ops, required \in BOOLEAN : StartGate(op, c, required)
  \/ JudgePass
  \/ JudgeFail \/ \E answers \in SUBSET Advisories : RefuseCompletion(answers)
  \/ ProviderMerge
  \/ UNCHANGED vars

LEMMA IInvNext == IInv /\ [Next]_vars => IInv'
<1> SUFFICES ASSUME IInv, [Next]_vars PROVE IInv'
  OBVIOUS
<1>0. /\ Typed /\ Tip \in Nat /\ Tip >= 1 /\ Len(records) \in Nat
      /\ \A k \in 1..Tip : commits[k] \in CommitState
      /\ DOMAIN records = 1..Len(records)
      /\ \A k \in 1..Len(records) : records[k] \in Record
  BY ElementOfSeq, LenProperties DEF IInv, Typed, Tip
<1>1. ASSUME NEW p \in People, NEW ok \in BOOLEAN, Commit(p, ok) PROVE IInv'
  <2> DEFINE x == [commits[Tip] EXCEPT !.by = p, !.rebased = FALSE,
                                       !.authors = @ \cup {p},
                                       !.committers = @ \cup {p},
                                       !.inScope = ok]
  <2>1. commits[Tip] \in CommitState
    BY <1>0
  <2>2. x \in CommitState /\ Follows(x, commits[Tip])
    BY <2>1 DEF CommitState, Follows
  <2>3. /\ commits' = Append(commits, x)
        /\ UNCHANGED <<requireAgreement, contract, records, accepting, run,
                       merged, judged>>
    BY <1>1 DEF Commit
  <2> HIDE DEF x
  <2>4. QED
    BY <2>2, <2>3, BranchGrows
<1>2. ASSUME NEW p \in People, Rebase(p) PROVE IInv'
  <2> DEFINE x == [commits[Tip] EXCEPT !.by = p, !.rebased = TRUE,
                                       !.committers = {p},
                                       !.contract = contract]
  <2>1. commits[Tip] \in CommitState /\ contract \in Nat
    BY <1>0 DEF Typed
  <2>2. x \in CommitState /\ Follows(x, commits[Tip])
    BY <2>1 DEF CommitState, Follows
  <2>3. /\ commits' = Append(commits, x)
        /\ UNCHANGED <<requireAgreement, contract, records, accepting, run,
                       merged, judged>>
    BY <1>2 DEF Rebase
  <2> HIDE DEF x
  <2>4. QED
    BY <2>2, <2>3, BranchGrows
<1>3. ASSUME NEW c \in 1..Tip, NEW v \in Verdicts, NEW p \in People,
             SubmitReview(c, v, p)
      PROVE  IInv'
  <2>1. Review(c, v, p) \in Record
    BY <1>0, Appended
  <2>2. Review(c, v, p).type # "completed"
    BY DEF Review
  <2>3. /\ records' = Append(records, Review(c, v, p))
        /\ UNCHANGED <<requireAgreement, commits, contract, accepting, run,
                       merged, judged>>
    BY <1>3 DEF SubmitReview, AppendRecord
  <2>4. QED
    BY <2>1, <2>2, <2>3, JournalGrows
<1>4. ASSUME NEW v \in 1..contract, Agree(v) PROVE IInv'
  <2>1. Agreement(v) \in Record
    BY <1>0, Appended
  <2>2. Agreement(v).type # "completed"
    BY DEF Agreement
  <2>3. /\ records' = Append(records, Agreement(v))
        /\ UNCHANGED <<requireAgreement, commits, contract, accepting, run,
                       merged, judged>>
    BY <1>4 DEF Agree, AppendRecord
  <2>4. QED
    BY <2>1, <2>2, <2>3, JournalGrows
<1>5. ASSUME NEW c \in 1..Tip, NEW form \in AcceptanceForms,
             AcceptOther(c, form)
      PROVE  IInv'
  <2>1. Acceptance(c, form, {}) \in Record
    BY <1>0, Appended
  <2>2. Acceptance(c, form, {}).type # "completed"
    BY DEF Acceptance
  <2>3. /\ records' = Append(records, Acceptance(c, form, {}))
        /\ UNCHANGED <<requireAgreement, commits, contract, accepting, run,
                       merged, judged>>
    BY <1>5 DEF AcceptOther, AppendRecord
  <2>4. QED
    BY <2>1, <2>2, <2>3, JournalGrows
<1>6. CASE AcceptWrite
  <2> DEFINE r == Acceptance(accepting.commit, "findings", accepting.findings)
  <2>1. r \in Record
    <3>1. /\ accepting.commit \in Nat /\ accepting.findings \in SUBSET Findings
          /\ "findings" \in AcceptanceForms
      BY <1>0 DEF Typed, AcceptanceForms
    <3>2. QED
      BY <3>1 DEF Acceptance, Record
  <2>2. r.type # "completed"
    BY DEF Acceptance
  <2>3. /\ records' = Append(records, r) /\ accepting' = NotAccepting
        /\ UNCHANGED <<requireAgreement, commits, contract, run, merged, judged>>
    BY <1>6 DEF AcceptWrite
  <2> HIDE DEF r
  <2>4. QED
    BY <2>1, <2>2, <2>3, JournalGrows
<1>7. ASSUME NEW answers \in SUBSET Advisories, RecordCompletion(answers)
      PROVE  IInv'
  <2>0. PICK c, i, r, n :
          c = run.commit /\ i = run.review /\ r = Completed(c, answers)
          /\ n = Len(records) + 1
    OBVIOUS
  <2>1. /\ run.op = "complete" /\ run.step = "passed"
        /\ answers = records[i].advisory
        /\ records' = Append(records, r) /\ run' = Idle
        /\ UNCHANGED <<requireAgreement, commits, contract, accepting, merged,
                       judged>>
    BY <1>7, <2>0 DEF RecordCompletion, ReviewTheGatePassedOn
  <2>2. c \in 1..Tip /\ c \in 0..Tip
    BY <1>0, <2>0, <2>1 DEF IInv, RunStarted
  <2>3. r \in Record
    BY <1>0, <2>0, <2>2, Appended
  <2>4. Answered(c, i, judged["complete"])
    BY <2>0, <2>1 DEF IInv, PassedRun, RunStarted, Carries, Unreviewed
  <2>5. judged["complete"] \in Judgements
    BY <1>0 DEF Typed, Ops
  <2>6. r.type = "completed" /\ r.commit = c /\ r.answered = answers
    BY <2>0 DEF Completed
  <2>7. /\ Grows /\ commits' \in Seq(CommitState) /\ Tip' >= 1
        /\ records' \in Seq(Record)
    <3>1. /\ Typed /\ requireAgreement' = requireAgreement
          /\ commits' = commits
      BY <1>0, <2>1
    <3>2. \E x \in Record : records' = Append(records, x)
      BY <2>1, <2>3
    <3>3. QED
      BY <3>1, <3>2, Grown
  <2>8. /\ Len(records)' = n /\ records'[n] = r
    BY <1>0, <2>0, <2>1, <2>3, AppendFacts DEF Typed
  <2>9. Typed'
    <3>1. contract' \in Nat /\ requireAgreement' \in BOOLEAN
      BY <1>0, <2>1 DEF Typed
    <3>2. /\ accepting' \in [commit : 0..Tip', findings : SUBSET Findings]
          /\ run' \in Runs' /\ merged' \in 0..Tip'
          /\ judged' \in [Ops -> Judgements']
      BY <1>0, <2>1, <2>7, TypesWiden
    <3>3. QED
      BY <2>7, <3>1, <3>2 DEF Typed
  <2>10. WritersCount'
    BY <2>1 DEF IInv, WritersCount, Tip
  <2>11. run'.step = "idle" /\ run'.op = "none"
    BY <2>1 DEF Idle
  <2>12. RunStarted' /\ PassedRun'
    BY <2>11 DEF RunStarted, PassedRun
  <2>13. MergedStands'
    BY <2>1, <2>7, <2>11, MergedKept
  <2>14. CompletionsStand'
    <3>1. SUFFICES ASSUME NEW m \in DOMAIN records',
                          records'[m].type = "completed"
                   PROVE  \E k \in DOMAIN records' :
                            /\ LastReview(k, records[m].commit,
                                          judged["complete"].seen)'
                            /\ records'[k].advisory = records'[m].answered
      BY <2>11 DEF CompletionsStand
    <3>2. judged["complete"].seen \in 0..Len(records)
      BY <2>5 DEF Judgements
    <3>3. CASE m = n
      <4>1. LastReview(i, c, judged["complete"].seen)
        BY <2>4 DEF Answered
      <4>2. LastReview(i, c, judged["complete"].seen)'
        <5>1. PICK s : s = judged["complete"].seen
          OBVIOUS
        <5>2. s \in 0..Len(records) /\ LastReview(i, c, s)
          BY <3>2, <4>1, <5>1
        <5>3. LastReview(i, c, s)'
          BY <2>7, <5>2, LastReviewStays
        <5>4. judged'["complete"].seen = s
          BY <2>1, <5>1
        <5>5. QED
          BY <5>3, <5>4 DEF LastReview
      <4>3. i \in 1..Len(records)
        BY <1>0, <3>2, <4>1 DEF LastReview
      <4>4. i \in DOMAIN records' /\ records'[i] = records[i]
        BY <2>7, <4>3 DEF Grows
      <4>5. /\ records'[m].commit = c
            /\ records'[i].advisory = records'[m].answered
        BY <2>1, <2>6, <2>8, <3>3, <4>4
      <4>6. LastReview(i, records[m].commit, judged["complete"].seen)'
        BY <4>2, <4>5 DEF LastReview
      <4>7. QED
        BY <4>4, <4>5, <4>6
    <3>4. CASE m # n
      <4>1. m \in DOMAIN records /\ records'[m] = records[m]
        BY <1>0, <2>0, <2>7, <2>8, <3>4 DEF Grows
      <4>2. PICK k \in DOMAIN records :
              /\ LastReview(k, records[m].commit, judged["complete"].seen)
              /\ records[k].advisory = records[m].answered
        BY <3>1, <4>1 DEF IInv, CompletionsStand
      <4>3. LastReview(k, records[m].commit, judged["complete"].seen)'
        <5>1. PICK a, s : a = records[m].commit
                          /\ s = judged["complete"].seen
          OBVIOUS
        <5>2. s \in 0..Len(records) /\ LastReview(k, a, s)
          BY <3>2, <4>2, <5>1
        <5>3. LastReview(k, a, s)'
          BY <2>7, <5>2, LastReviewStays
        <5>4. records'[m].commit = a /\ judged'["complete"].seen = s
          BY <2>1, <4>1, <5>1
        <5>5. QED
          BY <5>3, <5>4 DEF LastReview
      <4>4. k \in DOMAIN records' /\ records'[k] = records[k]
        BY <2>7, <4>2 DEF Grows
      <4>5. QED
        BY <4>1, <4>2, <4>3, <4>4
    <3>5. QED
      BY <3>3, <3>4
  <2>15. QED
    BY <2>9, <2>10, <2>12, <2>13, <2>14 DEF IInv
<1>8. ASSUME Quiet PROVE IInv'
  <2>0. UNCHANGED <<requireAgreement, commits, records>>
    <3>1. Amend \/ (\E c \in 1..Tip : AcceptRead(c)) =>
            UNCHANGED <<requireAgreement, commits, records>>
      BY DEF Amend, AcceptRead
    <3>2. \A c \in 1..Tip, op \in Ops, q \in BOOLEAN : StartGate(op, c, q) =>
            UNCHANGED <<requireAgreement, commits, records>>
      BY DEF StartGate
    <3>3. JudgePass \/ JudgeFail \/ ProviderMerge =>
            UNCHANGED <<requireAgreement, commits, records>>
      BY DEF JudgePass, JudgeFail, ProviderMerge
    <3>4. \A a \in SUBSET Advisories : RefuseCompletion(a) =>
            UNCHANGED <<requireAgreement, commits, records>>
      BY DEF RefuseCompletion
    <3>5. UNCHANGED vars => UNCHANGED <<requireAgreement, commits, records>>
      BY DEF vars
    <3>6. QED
      BY <1>8, <3>1, <3>2, <3>3, <3>4, <3>5 DEF Quiet
  <2>1. /\ contract \in Nat
        /\ accepting \in [commit : 0..Tip, findings : SUBSET Findings]
        /\ run \in Runs /\ Idle \in Runs
        /\ merged \in 0..Tip /\ judged \in [Ops -> Judgements]
    <3>1. 0 \in 0..Tip /\ 0 \in 0..Len(records)
      BY <1>0
    <3>2. Idle \in Runs
      BY <3>1 DEF Runs, Idle, NoCommit, NoRecord
    <3>3. QED
      BY <1>0, <3>2 DEF Typed
  <2>2. CASE Amend
    <3>1. contract' \in Nat /\ UNCHANGED <<accepting, run, merged, judged>>
      BY <2>1, <2>2 DEF Amend
    <3>2. /\ Grows /\ Typed' /\ WritersCount'
          /\ \A n \in 1..Len(records)' : n > Len(records)
               => records'[n].type # "completed"
      BY <2>0, <2>1, <3>1, NothingAppended
    <3>3. RunStarted' /\ PassedRun' /\ MergedStands' /\ CompletionsStand'
      BY <3>1, <3>2, RunUntouched
    <3>4. QED
      BY <3>2, <3>3 DEF IInv
  <2>3. ASSUME NEW c \in 1..Tip, AcceptRead(c) PROVE IInv'
    <3> DEFINE latest == Latest(ReviewsOf(c, Len(records)))
    <3>1. /\ latest # NoRecord /\ UNCHANGED <<contract, run, merged, judged>>
          /\ accepting' = [commit |-> c, findings |-> records[latest].findings]
      BY <2>3 DEF AcceptRead
    <3>2. latest \in ReviewsOf(c, Len(records))
      BY <1>0, <3>1, LatestIsLast DEF ReviewsOf
    <3>3. records[latest] \in Record /\ records[latest].type = "review"
      BY <1>0, <3>2 DEF ReviewsOf
    <3>4. records[latest].findings \in SUBSET Findings
      BY <3>3, RecordFields
    <3>5. c \in 0..Tip
      BY <1>0
    <3> HIDE DEF latest
    <3>6. accepting' \in [commit : 0..Tip, findings : SUBSET Findings]
      BY <3>1, <3>4, <3>5
    <3>7. /\ Grows /\ Typed' /\ WritersCount'
          /\ \A n \in 1..Len(records)' : n > Len(records)
               => records'[n].type # "completed"
      BY <2>0, <2>1, <3>1, <3>6, NothingAppended
    <3>8. RunStarted' /\ PassedRun' /\ MergedStands' /\ CompletionsStand'
      BY <3>1, <3>7, RunUntouched
    <3>9. QED
      BY <3>7, <3>8 DEF IInv
  <2>4. ASSUME NEW c \in 1..Tip, NEW op \in Ops, NEW q \in BOOLEAN,
               StartGate(op, c, q)
        PROVE  IInv'
    <3>1. /\ run' = [Idle EXCEPT !.op = op, !.step = "loaded", !.commit = c,
                                 !.loaded = Len(records), !.required = q]
          /\ UNCHANGED <<contract, accepting, merged, judged>>
          /\ op = "complete" => Open /\ q
          /\ op = "merge" => merged = NoCommit
      BY <2>4 DEF StartGate
    <3>2. /\ c \in 0..Tip /\ Len(records) \in 0..Len(records)
          /\ 0 \in 0..Len(records)
      BY <1>0
    <3>3. /\ run' \in Runs /\ run'.step = "loaded"
          /\ run'.op = op /\ run'.commit = c /\ run'.required = q
      BY <3>1, <3>2 DEF Runs, Idle, NoCommit, NoRecord
    <3>4. /\ Grows /\ Typed' /\ WritersCount'
          /\ \A n \in 1..Len(records)' : n > Len(records)
               => records'[n].type # "completed"
      BY <2>0, <2>1, <3>1, <3>3, NothingAppended
    <3>5. RunStarted' /\ PassedRun'
      BY <2>0, <3>1, <3>3 DEF RunStarted, PassedRun, Tip
    <3>6. merged' = merged /\ judged' = judged
      BY <3>1
    <3>7. merged # NoCommit => run'.op # "merge"
      BY <3>1, <3>3
    <3>8. MergedStands'
      BY <3>4, <3>6, <3>7, MergedKept
    <3>9. Open \/ run'.op # "complete"
      BY <3>1, <3>3
    <3>10. CompletionsStand'
      BY <3>4, <3>6, <3>9, CompletionsKept
    <3>11. QED
      BY <3>4, <3>5, <3>8, <3>10 DEF IInv
  <2>5. CASE JudgePass
    <3> DEFINE c == run.commit
               i == JudgedReview(c)
               j == [seen |-> Len(records), loaded |-> run.loaded,
                     required |-> run.required]
    <3>1. /\ run.step = "loaded" /\ GatePasses(c, run.loaded, run.required)
          /\ run' = [run EXCEPT !.step = "passed", !.review = i]
          /\ judged' = [judged EXCEPT ![run.op] = j]
          /\ UNCHANGED <<contract, accepting, merged>>
      BY <2>5 DEF JudgePass
    <3>2. i \in 0..Len(records) /\ Carries(c, i, j) /\ j.required = run.required
      BY <3>1, PassingCarries
    <3>3. /\ run.op \in Ops /\ c \in 1..Tip
          /\ run.op = "complete" => run.required
      BY <3>1 DEF IInv, RunStarted
    <3>4. run.loaded \in 0..Len(records) /\ run.required \in BOOLEAN
      BY <2>1 DEF Runs
    <3>5. j \in Judgements
      <4>1. /\ Len(records) \in 0..Len(records)
            /\ run.loaded <= Len(records)
        BY <1>0, <3>4
      <4>2. QED
        BY <3>4, <4>1 DEF Judgements
    <3> HIDE DEF j, i
    <3>6. i \in 0..Len(records)
      BY <1>0, <3>2
    <3>7. /\ run' \in Runs /\ run'.op = run.op /\ run'.step = "passed"
          /\ run'.commit = c /\ run'.review = i /\ run'.required = run.required
      BY <2>1, <3>1, <3>6 DEF Runs
    <3> HIDE DEF c
    <3>8. /\ judged' \in [Ops -> Judgements] /\ judged'[run.op] = j
          /\ \A op \in Ops : op # run.op => judged'[op] = judged[op]
      BY <2>1, <3>1, <3>3, <3>5
    <3>9. /\ Grows /\ Typed' /\ WritersCount'
          /\ \A n \in 1..Len(records)' : n > Len(records)
               => records'[n].type # "completed"
      BY <2>0, <2>1, <3>1, <3>7, <3>8, NothingAppended
    <3>10. PassedRun'
      <4>1. StillCarries(c, i, j)
        BY <3>2, <3>3, <3>5, <3>9, CarriesStays
      <4>2. judged'[run'.op] = j
        BY <3>7, <3>8
      <4>3. Carries(run.commit, run.review, judged[run.op])'
        BY <3>7, <4>1, <4>2 DEF StillCarries, StillAnswered,
       StillUnreviewed, Carries, Answered, Unreviewed, LastReview
      <4>4. QED
        BY <3>2, <3>7, <4>2, <4>3 DEF PassedRun
    <3>11. RunStarted'
      BY <2>0, <3>3, <3>7 DEF RunStarted, Tip
    <3>12. merged # NoCommit => run.op # "merge"
      BY DEF IInv, MergedStands
    <3>13. MergedStands'
      <4>1. merged # NoCommit => /\ run'.op # "merge"
                                 /\ judged'["merge"] = judged["merge"]
        BY <3>7, <3>8, <3>12 DEF Ops
      <4>2. QED
        BY <3>1, <3>9, <4>1, MergedKept
    <3>14. Open \/ run.op # "complete"
      BY DEF IInv, CompletionsStand, Open
    <3>15. CompletionsStand'
      <4>1. Open \/ /\ run'.op # "complete"
                    /\ judged'["complete"] = judged["complete"]
        BY <3>7, <3>8, <3>14 DEF Ops
      <4>2. QED
        BY <3>9, <4>1, CompletionsKept
    <3>16. QED
      BY <3>9, <3>10, <3>11, <3>13, <3>15 DEF IInv
  <2>6. ASSUME JudgeFail \/ \E a \in SUBSET Advisories : RefuseCompletion(a)
        PROVE  IInv'
    <3>1. run' = Idle /\ UNCHANGED <<contract, accepting, merged, judged>>
      BY <2>6 DEF JudgeFail, RefuseCompletion
    <3>2. /\ Grows /\ Typed' /\ WritersCount'
          /\ \A n \in 1..Len(records)' : n > Len(records)
               => records'[n].type # "completed"
      BY <2>0, <2>1, <3>1, NothingAppended
    <3>3. RunStarted' /\ PassedRun' /\ MergedStands' /\ CompletionsStand'
      BY <3>1, <3>2, RunEnds
    <3>4. QED
      BY <3>2, <3>3 DEF IInv
  <2>7. CASE ProviderMerge
    <3>1. /\ run' = Idle /\ UNCHANGED <<contract, accepting, judged>>
          /\ run.op = "merge" /\ run.step = "passed"
          /\ merged' = IF Tip = run.commit THEN run.commit ELSE merged
      BY <2>7 DEF ProviderMerge
    <3>2. run.commit \in 1..Tip
      BY <3>1 DEF IInv, RunStarted
    <3>3. run.commit \in 0..Tip /\ merged' \in 0..Tip
      BY <1>0, <2>1, <3>1, <3>2
    <3>4. /\ Grows /\ Typed' /\ WritersCount'
          /\ \A n \in 1..Len(records)' : n > Len(records)
               => records'[n].type # "completed"
      BY <2>0, <2>1, <3>1, <3>3, NothingAppended
    <3>5. CASE merged' = merged
      <4>1. RunStarted' /\ PassedRun' /\ MergedStands' /\ CompletionsStand'
        BY <3>1, <3>4, <3>5, RunEnds
      <4>2. QED
        BY <3>4, <4>1 DEF IInv
    <3>6. CASE merged' = run.commit
      <4>1. run'.step = "idle" /\ run'.op = "none"
        BY <3>1 DEF Idle
      <4>2. Carries(run.commit, run.review, judged["merge"])
        BY <3>1 DEF IInv, PassedRun
      <4>3. judged["merge"] \in Judgements
        BY <2>1 DEF Ops
      <4>4. StillCarries(run.commit, run.review, judged["merge"])
        BY <3>2, <3>4, <4>2, <4>3, CarriesStays
      <4>5. judged'["merge"] = judged["merge"]
        BY <3>1
      <4>6. PICK i : i = run.review
        OBVIOUS
      <4>7. Carries(merged, i, judged["merge"])'
        BY <3>6, <4>4, <4>5, <4>6 DEF StillCarries, StillAnswered,
       StillUnreviewed, Carries, Answered, Unreviewed, LastReview
      <4>8. i \in 0..Len(records)'
        BY <2>0, <2>1, <4>6 DEF Runs
      <4>9. MergedStands'
        BY <4>1, <4>7, <4>8 DEF MergedStands
      <4>10. RunStarted' /\ PassedRun'
        BY <4>1 DEF RunStarted, PassedRun
      <4>11. CompletionsStand'
        BY <3>1, <3>4, <4>1, CompletionsKept
      <4>12. QED
        BY <3>4, <4>9, <4>10, <4>11 DEF IInv
    <3>7. QED
      BY <3>1, <3>5, <3>6
  <2>8. CASE UNCHANGED vars
    <3>1. UNCHANGED <<contract, accepting, run, merged, judged>>
      BY <2>8 DEF vars
    <3>2. /\ Grows /\ Typed' /\ WritersCount'
          /\ \A n \in 1..Len(records)' : n > Len(records)
               => records'[n].type # "completed"
      BY <2>0, <2>1, <3>1, NothingAppended
    <3>3. RunStarted' /\ PassedRun' /\ MergedStands' /\ CompletionsStand'
      BY <3>1, <3>2, RunUntouched
    <3>4. QED
      BY <3>2, <3>3 DEF IInv
  <2>9. QED
    BY <1>8, <2>2, <2>3, <2>4, <2>5, <2>6, <2>7, <2>8 DEF Quiet
<1>9. \/ \E p \in People :
           \/ \E ok \in BOOLEAN : Commit(p, ok)
           \/ Rebase(p)
           \/ \E c \in 1..Tip, v \in Verdicts : SubmitReview(c, v, p)
      \/ \E v \in 1..contract : Agree(v)
      \/ \E c \in 1..Tip, form \in AcceptanceForms : AcceptOther(c, form)
      \/ AcceptWrite
      \/ \E answers \in SUBSET Advisories : RecordCompletion(answers)
      \/ Quiet
  BY DEF Next, Quiet
<1>10. QED
  BY <1>1, <1>2, <1>3, <1>4, <1>5, <1>6, <1>7, <1>8, <1>9

THEOREM IInvHolds == Spec => []IInv
BY IInvInit, IInvNext, PTL DEF Spec

----------------------------------------------------------------------------
\* The invariant gives the types, and the commit a passing run names.
LEMMA Types == IInv => TypeOK
<1>1. SUFFICES ASSUME IInv PROVE TypeOK
  OBVIOUS
<1>2. /\ Typed /\ DOMAIN commits = 1..Tip /\ DOMAIN records = 1..Len(records)
      /\ \A i \in 1..Tip : commits[i] \in CommitState
      /\ \A i \in 1..Len(records) : records[i] \in Record
  BY <1>1, ElementOfSeq, LenProperties DEF IInv, Typed, Tip
<1>3. run.step = "passed" =>
        IF run.review = NoRecord THEN ~run.required
        ELSE records[run.review].commit = run.commit
  <2>1. SUFFICES ASSUME run.step = "passed"
                 PROVE  IF run.review = NoRecord THEN ~run.required
                        ELSE records[run.review].commit = run.commit
    OBVIOUS
  <2>2. PICK n \in Nat : n = judged[run.op].seen
    BY <1>1, <1>2, <2>1, LenProperties DEF IInv, RunStarted, Typed, Judgements
  <2>3. CASE Answered(run.commit, run.review, judged[run.op])
    <3>1. run.review \in 1..n /\ records[run.review].commit = run.commit
      BY <2>2, <2>3 DEF Answered, LastReview
    <3>2. QED
      BY <3>1 DEF NoRecord
  <2>4. CASE Unreviewed(run.commit, run.review, judged[run.op])
    BY <1>1, <2>1, <2>4 DEF Unreviewed, IInv, PassedRun
  <2>5. QED
    BY <1>1, <2>1, <2>3, <2>4 DEF IInv, PassedRun, Carries
<1>4. /\ accepting.commit \in 0..Tip /\ accepting.findings \subseteq Findings
      /\ run.commit \in 0..Tip /\ run.loaded \in 0..Len(records)
      /\ run.review \in 0..Len(records)
  BY <1>2 DEF Typed, Runs
<1>5. \A op \in Ops : judged[op].loaded <= judged[op].seen
                      /\ judged[op].seen \in 0..Len(records)
  BY <1>2 DEF Typed, Judgements
<1>6. QED
  BY <1>2, <1>3, <1>4, <1>5 DEF TypeOK, Typed, CommitState

\* What carried the merge, in terms of the last review its gate had read.
LEMMA MergedReview ==
  ASSUME IInv, merged # NoCommit
  PROVE  /\ judged["merge"].required => \E i \in DOMAIN records : MergedOn(i)
         /\ \A i \in DOMAIN records :
              MergedOn(i) => Answered(merged, i, judged["merge"])
<1>1. PICK k \in 0..Len(records) : Carries(merged, k, judged["merge"])
  BY DEF IInv, MergedStands
<1>2. PICK n \in 0..Len(records) : n = judged["merge"].seen
  BY DEF IInv, Typed, Judgements, Ops
<1>3. Len(records) \in Nat /\ DOMAIN records = 1..Len(records)
  BY LenProperties DEF IInv, Typed
<1>4. CASE Answered(merged, k, judged["merge"])
  <2>1. LastReview(k, merged, n)
    BY <1>2, <1>4 DEF Answered
  <2>2. ASSUME NEW i \in DOMAIN records, LastReview(i, merged, n) PROVE i = k
    <3>1. /\ i \in 1..n /\ k \in 1..n
          /\ ~(i \in (k + 1)..n) /\ ~(k \in (i + 1)..n)
      BY <2>1, <2>2 DEF LastReview
    <3>2. QED
      BY <1>2, <1>3, <3>1
  <2>3. k \in DOMAIN records
    BY <1>2, <1>3, <2>1 DEF LastReview
  <2>4. QED
    BY <1>2, <1>4, <2>1, <2>2, <2>3 DEF MergedOn
<1>5. CASE Unreviewed(merged, k, judged["merge"])
  BY <1>5 DEF Unreviewed, MergedOn, LastReview
<1>6. QED
  BY <1>1, <1>4, <1>5 DEF Carries

(***************************************************************************)
(* What merged was reviewed as that commit, unless its gate was asked to   *)
(* judge without a review, and carries no objection of the last review its *)
(* gate read that the operator had not taken on.                           *)
(***************************************************************************)
THEOREM NoObjection == Spec => []NoObjectionMergedUnanswered
<1>1. IInv => NoObjectionMergedUnanswered
  BY Types, MergedReview DEF Answered, NoObjectionMergedUnanswered
<1>2. QED
  BY <1>1, IInvHolds, PTL

(***************************************************************************)
(* Nobody's own review carried their work in: neither that of an author of *)
(* the range nor that of the one who rebased it last.                      *)
(***************************************************************************)
THEOREM NobodysOwn == Spec => []NobodyApprovesTheirOwn
<1>1. IInv => NobodyApprovesTheirOwn
  <2>1. SUFFICES ASSUME IInv, merged # NoCommit,
                        NEW i \in DOMAIN records, MergedOn(i),
                        NEW c \in 1..merged, Names(merged, c)
                 PROVE  commits[c].by # records[i].by
    BY DEF NobodyApprovesTheirOwn
  <2>2. records[i].by \notin commits[merged].authors \cup commits[merged].committers
    BY <2>1, MergedReview DEF Answered
  <2>3. merged \in 1..Tip
    BY <2>1, LenProperties DEF IInv, Typed, NoCommit, Tip
  <2>4. commits[c].by \in commits[merged].authors \cup commits[merged].committers
    BY <2>1, <2>3 DEF IInv, WritersCount, Names
  <2>5. QED
    BY <2>2, <2>4
<1>2. QED
  BY <1>1, IInvHolds, PTL

\* Where agreement is required, what merged is in the scope of a contract
\* agreed to before the gate ran.
THEOREM AgreedContract == Spec => []MergedUnderAgreedContract
<1>1. IInv => MergedUnderAgreedContract
  BY DEF IInv, MergedStands, Carries, MergedUnderAgreedContract
<1>2. QED
  BY <1>1, IInvHolds, PTL

\* A completed record answers the review the gate judged.
THEOREM CompletionAnswers == Spec => []CompletionAnswersJudgedReview
<1>1. IInv => CompletionAnswersJudgedReview
  BY DEF IInv, CompletionsStand, CompletionAnswersJudgedReview
<1>2. QED
  BY <1>1, IInvHolds, PTL
=============================================================================
