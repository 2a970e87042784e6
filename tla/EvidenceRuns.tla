---------------------------- MODULE EvidenceRuns ----------------------------
(***************************************************************************)
(* The commands that bring somebody else's verdict into a task's journal:  *)
(* the review launcher (a paid reviewer run on a commit, on a finding, or  *)
(* a dry run), record-check and record-ext.  Each loads the task, does     *)
(* slow work on what it loaded, keeps output outside the journal, and      *)
(* writes one record; other commands write the same journal meanwhile, the *)
(* files it reads change, and every keep or write may fail.  A process     *)
(* that is killed takes no further step: no step is ever owed.             *)
(*                                                                         *)
(* Texts are sets of words.  One entry of log/ (an event, a payload)       *)
(* counts one towards its cap.                                             *)
(***************************************************************************)
EXTENDS RecordTypes, FiniteSets, Sequences, Functions

CONSTANTS Launches,   \* review launches
          Recorders,  \* record-check and record-ext runs
          Cap,        \* DIRECTORY_CAP_BYTES, in entries of log/
          Moves       \* bound on what others do

ASSUME EvidenceBoundsAssumption == Cap \in Nat /\ Moves \in Nat

VARIABLES journal,    \* the task's records, in the order of their ids
          contract,   \* the contract.md of the journal: its version
          commits,    \* the contract version each commit's tree holds
          bytes,      \* the finding's artifact: pinned, or drifted (or gone)
          artifacts,  \* by launch: its prose under artifacts/, whole or torn
          payloads,   \* log/files, oldest first: items
          events,     \* the items an event of the log names
          temp,       \* the items kept in a temporary file
          run,        \* by process: where it is and what it holds
          moves,      \* what others have done so far
          swept       \* history: <<item, process whose sweep deleted it>>

shared == <<journal, contract, commits, bytes, artifacts, payloads, events, temp>>
evidenceVars == <<shared, run, moves, swept>>

Processes == Launches \cup Recorders
Others == "others"
ASSUME ProcessesAssumption ==
  Launches \cap Recorders = {} /\ Others \notin Processes
Item(p, what) == <<p, what>>          \* what: output or errors

----------------------------------------------------------------------------
\* The journal.

RecordsIn(js) == {[id |-> i, type |-> js[i].type] : i \in DOMAIN js}
\* load_task_for_record, on the journal as it is now.
Admitted(type) == Admits(StateOf(RecordsIn(journal)), type)

Latest(js, type) ==
  LET at == {i \in DOMAIN js : js[i].type = type}
  IN IF at = {} THEN 0 ELSE CHOOSE i \in at : \A k \in at : k <= i

Plain(type, p) == [type |-> type, by |-> p]

----------------------------------------------------------------------------
\* A process.  prev, loaded, subject and contract are what it read for its
\* record; saw is what the reviewer was given, wrote what it left.

NotGiven == [subject |-> 0, contract |-> 0, bytes |-> "none"]
NotStarted == [pc |-> "idle", lane |-> "none", level |-> "none",
          prev |-> 0, loaded |-> 0, subject |-> 0, contract |-> 0,
          held |-> "none", saw |-> NotGiven, wrote |-> {},
          markup |-> "none", told |-> {}]

IsAt(p, pc) == run[p].pc = pc
Goes(p, pc) == run' = [run EXCEPT ![p].pc = pc]
\* Ends, its message naming places: <<what, where>>.
Ends(p, pc, told) ==
  run' = [run EXCEPT ![p].pc = pc, ![p].told = @ \cup told]
Ended(p) == run[p].pc \in {"refused", "recorded", "dry"}

EvidenceInit ==
  /\ journal = <<Plain("opened", Others), Plain("finding", Others)>>
  /\ contract = 1
  /\ commits = <<1>>
  /\ bytes = "pinned"
  /\ artifacts = [l \in Launches |-> "none"]
  /\ payloads = << >>
  /\ events = {}
  /\ temp = {}
  /\ run = [p \in Processes |-> NotStarted]
  /\ moves = 0
  /\ swept = {}

----------------------------------------------------------------------------
\* Keeping bytes under the clone's local state: the payload, the writer whose
\* opening sweeps log/, the event; any failure ends in a temporary file.

\* Mutation: the check keeps its output the way the launcher does.
CheckKeepsAsReview == <<"payload", "open", "event">>

\* review._local_state_output publishes first; record_check._keep_output
\* opens its writer first, so that its own sweep cannot take its payload.
ReviewKeeps == <<"payload", "open", "event">>
CheckKeeps == <<"open", "payload", "event">>

KeepOrder(p) == IF p \in Launches THEN ReviewKeeps ELSE CheckKeeps
\* The item in hand: a launch keeps errors before its verdict is read.
Keeping(p) ==
  Item(p, IF p \in Launches /\ run[p].level = "none" THEN "errors" ELSE "output")
AfterKeep(p) ==
  IF p \in Recorders THEN "write"
  ELSE IF run[p].level = "none" THEN "parse" ELSE "recorded"
Keeps(p) == run[p].pc \in Range(KeepOrder(p))
Kept(p, where) ==
  run' = [run EXCEPT ![p].pc = AfterKeep(p),
                     ![p].told = @ \cup {<<Keeping(p)[2], where>>}]
StepAfter(p) ==
  LET order == KeepOrder(p)
      i == CHOOSE k \in DOMAIN order : order[k] = run[p].pc
  IN IF i = Len(order) THEN Kept(p, "log") ELSE Goes(p, order[i + 1])

\* The items a sweep deletes: the oldest, while the directory is over its cap.
Excess ==
  LET over == Len(payloads) + Cardinality(events) - Cap
  IN IF over <= 0 THEN 0 ELSE IF over > Len(payloads) THEN Len(payloads) ELSE over
Swept(by) ==
  /\ payloads' = SubSeq(payloads, Excess + 1, Len(payloads))
  /\ swept' = swept \cup {<<payloads[i], by>> : i \in 1 .. Excess}

PublishPayload(p) ==
  /\ IsAt(p, "payload") /\ Keeps(p)
  /\ payloads' = Append(payloads, Keeping(p))
  /\ StepAfter(p)
  /\ UNCHANGED <<journal, contract, commits, bytes, artifacts, events,
                 temp, moves, swept>>
OpenWriter(p) ==
  /\ IsAt(p, "open") /\ Keeps(p)
  /\ Swept(p)
  /\ StepAfter(p)
  /\ UNCHANGED <<journal, contract, commits, bytes, artifacts, events,
                 temp, moves>>
WriteEvent(p) ==
  /\ IsAt(p, "event") /\ Keeps(p)
  /\ events' = events \cup {Keeping(p)}
  /\ StepAfter(p)
  /\ UNCHANGED <<journal, contract, commits, bytes, artifacts, payloads,
                 temp, moves, swept>>
\* Bytes no file could be made for: the message carries a reviewer's errors,
\* of output it says that it could not be kept.
Unfiled(what) == IF what = "errors" THEN "message" ELSE "nowhere"
\* A step of the keep fails: a temporary file, where one can be written.
KeepFails(p) ==
  /\ Keeps(p)
  /\ \/ temp' = temp \cup {Keeping(p)} /\ Kept(p, "temp")
     \/ temp' = temp /\ Kept(p, Unfiled(Keeping(p)[2]))
  /\ UNCHANGED <<journal, contract, commits, bytes, artifacts, payloads,
                 events, moves, swept>>

----------------------------------------------------------------------------
\* The review launcher, up to the reviewer's run.

\* launch_review, dry_run_review: the task as loaded, and the last review in it.
\* A commit is reviewed from an embedded journal or from a sidecar.
LoadForReview(l) ==
  /\ IsAt(l, "idle")
  /\ \E lane \in {"commit", "sidecar", "finding", "dry"} :
       /\ lane # "dry" => Admitted("review")
       /\ run' = [run EXCEPT ![l] =
            [NotStarted EXCEPT
               !.lane = lane,
               !.pc = CASE lane = "finding" -> "verify"
                        [] lane = "dry" -> "run"
                        [] OTHER -> "resolve",
               !.prev = IF lane = "dry" THEN 0 ELSE Latest(journal, "review"),
               !.loaded = Len(journal),
               !.subject = IF lane = "finding" THEN Latest(journal, "finding")
                                               ELSE 0]]
  /\ UNCHANGED <<shared, moves, swept>>

\* The commit the name resolves to now, its merge base and the diff.
ResolveCommit(l) ==
  /\ IsAt(l, "resolve")
  /\ run' = [run EXCEPT ![l].subject = Len(commits), ![l].pc = "prompt"]
  /\ UNCHANGED <<shared, moves, swept>>

\* The bytes verified once and kept in memory for the snapshot.
SnapshotBytes(l) == run[l].held

\* _verified_finding_artifacts, with one artifact: drifted or missing bytes
\* leave nothing verified and refuse.
VerifyArtifacts(l) ==
  /\ IsAt(l, "verify")
  /\ bytes = "pinned"
  /\ run' = [run EXCEPT ![l].held = bytes, ![l].pc = "contract"]
  /\ UNCHANGED <<shared, moves, swept>>

\* The finding lane's contract is the journal's, read before the prompt.
ReadContract(l) ==
  /\ IsAt(l, "contract")
  /\ run' = [run EXCEPT ![l].contract = contract, ![l].pc = "prompt"]
  /\ UNCHANGED <<shared, moves, swept>>

\* The contract of the prompt: the reviewed tree's, but a sidecar's own.
PromptContract(l) ==
  IF run[l].lane = "finding" THEN run[l].contract
  ELSE IF run[l].lane = "sidecar" THEN contract ELSE commits[run[l].subject]

\* The snapshot, the prompt and the reviewer command.
BuildPrompt(l) ==
  /\ IsAt(l, "prompt")
  /\ LET text == PromptContract(l)
     IN run' = [run EXCEPT ![l].contract = text, ![l].pc = "run",
                  ![l].saw = [subject |-> run[l].subject, contract |-> text,
                              bytes |-> SnapshotBytes(l)]]
  /\ UNCHANGED <<shared, moves, swept>>

\* Everything refused before the reviewer is paid for: the actor, the capture
\* level, the vocabulary, two subjects, a closed task, a finding that is not
\* the latest, a scope, an identity, a read, git, the reviewer command; or
\* before record-check and record-ext write: a commit, a kind, a payload that
\* masking cannot make clean, a recorder.
RefuseEarly(p) ==
  /\ run[p].pc \in {"idle", "resolve", "verify", "contract", "prompt", "run"}
  /\ run' = [run EXCEPT ![p] = [NotStarted EXCEPT !.pc = "refused"]]
  /\ UNCHANGED <<shared, moves, swept>>

\* The reviewer exits zero, with output, and errors or none.
RunReviewer(l) ==
  /\ IsAt(l, "run")
  /\ \E wrote \in {{"output"}, {"output", "errors"}} :
       run' = [run EXCEPT ![l].wrote = wrote,
                 ![l].pc = IF "errors" \in wrote THEN Head(KeepOrder(l)) ELSE "parse"]
  /\ UNCHANGED <<shared, moves, swept>>

\* It exits with another status: nothing is kept, the message carries its
\* errors, or its output when there are none.
ReviewerFails(l) ==
  /\ IsAt(l, "run")
  /\ \E wrote \in SUBSET {"output", "errors"} :
       run' = [run EXCEPT ![l].pc = "failed", ![l].wrote = wrote,
                 ![l].told = {<<what, "message">> :
                    what \in IF "errors" \in wrote THEN {"errors"} ELSE wrote}]
  /\ UNCHANGED <<shared, moves, swept>>

----------------------------------------------------------------------------
\* A verdict's optional markup: entries by finding id (f9 names no finding),
\* or lists by section.  A field that is absent or no object has no entry, a
\* section that is no array has none.

Values == {"fit", "unlisted", "unusable"}   \* unlisted: outside the vocabulary
Keyed == UNION {[ids -> Values] : ids \in SUBSET {"f1", "f2", "f9"}}
Sectioned ==
  UNION {[ks -> SUBSET {"fit", "unusable"}] :
           ks \in SUBSET {"executed", "read", "extra"}}
Sections == {"executed", "read", "not_run"}
None == << >>                               \* no entry: no field is written

\* _verdict_classes: one unusable value drops the object; an entry for an id
\* the verdict lacks drops; every named id gets a class, other by default.
Classes(c, named) ==
  IF c = None \/ \E id \in DOMAIN c : c[id] = "unusable" THEN None
  ELSE [id \in named |->
          IF id \in DOMAIN c /\ c[id] = "fit" THEN "fit" ELSE "unlisted"]

\* Mutation: an id the verdict does not carry keeps its reference.
EvidenceOfAnyId(e, named) ==
  [id \in {k \in DOMAIN e : e[k] # "unusable"} |-> e[id]]
\* _verdict_evidence: each entry stands or drops alone.
Evidence(e, named) ==
  [id \in {k \in DOMAIN e \cap named : e[k] # "unusable"} |-> e[id]]

\* _verdict_verification: known sections, their usable entries, none empty.
Verification(v) ==
  [k \in {j \in DOMAIN v \cap Sections : "fit" \in v[j]} |-> {"fit"}]

\* What the record layer's rules ask of a field that is written.
KeyedFits(c, named) ==
  \A id \in DOMAIN c : id \in named /\ c[id] # "unusable"
SectionsFit(v) == \A k \in DOMAIN v : k \in Sections /\ v[k] = {"fit"}

\* Whether what is left of every markup fits: a constant of the code.
MarkupFits ==
  {fits \in BOOLEAN :
     \/ \E c \in Keyed, named \in {{}, {"f1", "f2"}} :
          fits = (/\ KeyedFits(Classes(c, named), named)
                  /\ KeyedFits(Evidence(c, named), named))
     \/ \E v \in Sectioned : fits = SectionsFit(Verification(v))}

----------------------------------------------------------------------------
\* The launcher, once the reviewer has been paid for.

\* _reject: the output in a temporary file, when that can be written.
Rejects(l) ==
  \/ /\ temp' = temp \cup {Item(l, "output")}
     /\ Ends(l, "refused", {<<"output", "temp">>})
  \/ temp' = temp /\ Ends(l, "refused", {<<"output", "nowhere">>})

\* A verdict that does not parse, or names another subject; in a dry run one
\* that does not parse, of whose output nothing is said if it was not kept.
RejectVerdict(l) ==
  /\ IsAt(l, "parse")
  /\ \/ run[l].lane # "dry" /\ Rejects(l)
     \/ /\ run[l].lane = "dry"
        /\ temp' = temp \cup {Item(l, "output")}
        /\ Ends(l, "refused", {<<"output", "temp">>})
     \/ run[l].lane = "dry" /\ temp' = temp /\ Ends(l, "refused", {})
  /\ UNCHANGED <<journal, contract, commits, bytes, artifacts, payloads,
                 events, moves, swept>>
\* A dry run passes, or its verdict names another commit and it is refused:
\* either way the output is dropped and nothing said of it.
EndDryRun(l) ==
  /\ IsAt(l, "parse")
  /\ run[l].lane = "dry"
  /\ \E pc \in {"dry", "refused"} : Ends(l, pc, {})
  /\ UNCHANGED <<shared, moves, swept>>

\* The verdict parses; its markup is reduced.  The capture level was read at
\* the start and matters from here.
ReadVerdict(l) ==
  /\ IsAt(l, "parse")
  /\ run[l].lane # "dry"
  /\ \E fits \in MarkupFits, level \in {"commit", "hash", "off"} :
       run' = [run EXCEPT ![l].pc = "admit", ![l].level = level,
                          ![l].markup = IF fits THEN "fits" ELSE "breaks"]
  /\ UNCHANGED <<shared, moves, swept>>

\* _record_launched_review: the task is loaded again; it may be closed now.
AdmitReview(l) ==
  /\ IsAt(l, "admit")
  /\ \/ /\ Admitted("review")
        /\ Goes(l, IF run[l].level = "commit" THEN "prose" ELSE "review")
        /\ temp' = temp
     \/ ~Admitted("review") /\ Rejects(l)
  /\ UNCHANGED <<journal, contract, commits, bytes, artifacts, payloads,
                 events, moves, swept>>

\* At level commit the preflight, then the prose before its record.  The
\* preflight refuses, the name cannot be claimed, or the write stops half way.
WriteArtifact(l) ==
  /\ IsAt(l, "prose")
  /\ \/ /\ artifacts' = [artifacts EXCEPT ![l] = "whole"]
        /\ Goes(l, "review")
        /\ temp' = temp
     \/ /\ artifacts' \in {artifacts, [artifacts EXCEPT ![l] = "torn"]}
        /\ Rejects(l)
  /\ UNCHANGED <<journal, contract, commits, bytes, payloads, events,
                 moves, swept>>

\* Mutation: the link is read when the record is built.
LatestReviewNow(l) == Latest(journal, "review")
\* The link the caller captured before the reviewer ran.
PreviousReview(l) == run[l].prev

ReviewOf(l) ==
  [type |-> "review", by |-> l, prev |-> PreviousReview(l),
   subject |-> run[l].subject, contract |-> run[l].contract,
   pinned |-> artifacts[l]]

\* The record lands; off says the prose was not kept.
WriteReview(l) ==
  /\ IsAt(l, "review")
  /\ journal' = Append(journal, ReviewOf(l))
  /\ CASE run[l].level = "commit" -> Ends(l, "recorded", {<<"output", "artifact">>})
       [] run[l].level = "hash" -> Goes(l, Head(KeepOrder(l)))
       [] OTHER -> Ends(l, "recorded", {<<"output", "nowhere">>})
  /\ UNCHANGED <<contract, commits, bytes, artifacts, payloads, events,
                 temp, moves, swept>>

\* Mutation: whatever is refused after the prose leaves it to the artifact.
NamesArtifact(l) == run[l].level = "commit" \/ run[l].level = "off"
\* The record is refused: the artifact already written is named, else _reject.
LeavesArtifact(l) == run[l].level = "commit"
ReviewRefused(l) ==
  /\ IsAt(l, "review")
  /\ \/ /\ LeavesArtifact(l)
        /\ Ends(l, "refused", {<<"output", "artifact">>})
        /\ temp' = temp
     \/ ~LeavesArtifact(l) /\ Rejects(l)
  /\ UNCHANGED <<journal, contract, commits, bytes, artifacts, payloads,
                 events, moves, swept>>

----------------------------------------------------------------------------
\* record-check and record-ext.  The excerpt and the payload are masked and
\* scanned before anything is written; what is left of them is text.

\* The task as loaded, the commit, the file and the markers; every refusal
\* that can be known comes before anything is written (RefuseEarly).
LoadForCheck(c) ==
  /\ IsAt(c, "idle")
  /\ Admitted("check")
  /\ \E pc \in {"write", Head(KeepOrder(c))} :   \* an output file, or none
       run' = [run EXCEPT ![c].lane = "check", ![c].pc = pc]
  /\ UNCHANGED <<shared, moves, swept>>
LoadForExt(c) ==
  /\ IsAt(c, "idle")
  /\ Admitted("ext")
  /\ run' = [run EXCEPT ![c].lane = "ext", ![c].pc = "write"]
  /\ UNCHANGED <<shared, moves, swept>>

\* The task is not loaded again.  A failed write names the output kept before
\* it, and says nothing of output that was not kept.
WriteRecord(c) ==
  /\ IsAt(c, "write")
  /\ \/ /\ journal' = Append(journal, Plain(run[c].lane, c))
        /\ Goes(c, "recorded")
     \/ /\ journal' = journal
        /\ run' = [run EXCEPT ![c].pc = "refused",
                     ![c].told = {t \in @ : t[2] # "nowhere"}]
  /\ UNCHANGED <<contract, commits, bytes, artifacts, payloads, events,
                 temp, moves, swept>>

----------------------------------------------------------------------------
\* What others do meanwhile.

OthersRecord(type) ==
  /\ Admitted(type)
  /\ journal' = Append(journal, Plain(type, Others))
  /\ UNCHANGED <<contract, commits, bytes, artifacts, payloads, events,
                 temp, run, swept>>
EditContract ==
  /\ contract' = contract + 1
  /\ UNCHANGED <<journal, commits, bytes, artifacts, payloads, events,
                 temp, run, swept>>
OthersCommit ==
  /\ commits' = Append(commits, contract)
  /\ UNCHANGED <<journal, contract, bytes, artifacts, payloads, events,
                 temp, run, swept>>
ChangeArtifact ==
  /\ bytes' \in {"pinned", "drifted"} \ {bytes}
  /\ UNCHANGED <<journal, contract, commits, artifacts, payloads, events,
                 temp, run, swept>>
OthersSweep ==
  /\ Swept(Others)
  /\ UNCHANGED <<journal, contract, commits, bytes, artifacts, events,
                 temp, run>>
OthersMove ==
  /\ moves < Moves
  /\ moves' = moves + 1
  /\ \/ \E type \in {"review", "finding", "completed", "reopened"} :
          OthersRecord(type)
     \/ EditContract
     \/ OthersCommit
     \/ ChangeArtifact
     \/ OthersSweep

Launch(l) ==
  \/ LoadForReview(l) \/ ResolveCommit(l) \/ VerifyArtifacts(l) \/ ReadContract(l)
  \/ BuildPrompt(l) \/ RunReviewer(l) \/ ReviewerFails(l)
  \/ RejectVerdict(l) \/ EndDryRun(l) \/ ReadVerdict(l) \/ AdmitReview(l)
  \/ WriteArtifact(l) \/ WriteReview(l) \/ ReviewRefused(l)
Record(c) == LoadForCheck(c) \/ LoadForExt(c) \/ WriteRecord(c)
Keep(p) == PublishPayload(p) \/ OpenWriter(p) \/ WriteEvent(p) \/ KeepFails(p)

EvidenceNext ==
  \/ \E l \in Launches : Launch(l)
  \/ \E c \in Recorders : Record(c)
  \/ \E p \in Processes : Keep(p) \/ RefuseEarly(p)
  \/ OthersMove

EvidenceSpec == EvidenceInit /\ [][EvidenceNext]_evidenceVars

----------------------------------------------------------------------------
\* Whatever is left of a reviewer that exited zero, its output and its
\* errors, a recording launch says where it is before it ends, a dry run that
\* of the errors; and what a message of theirs or of record-check names is
\* there whole; a file of log/ may since have fallen to a sweep.
\* (review._reject, _keep_diagnostics, _keep_accepted_output,
\* _record_launched_review, record_check.run.)
IsWhereItSays(p, t) ==
  CASE t[2] = "temp" -> Item(p, t[1]) \in temp
    [] t[2] = "log" -> \/ Item(p, t[1]) \in Range(payloads)
                       \/ \E q \in Processes \cup {Others} :
                            <<Item(p, t[1]), q>> \in swept
    [] t[2] = "artifact" -> artifacts[p] = "whole"
    [] OTHER -> TRUE
Owed(l) == run[l].wrote \ (IF run[l].lane = "dry" THEN {"output"} ELSE {})
PaidOutputIsWhereItSays ==
  /\ \A l \in Launches : Ended(l) =>
       \A what \in Owed(l) : \E t \in run[l].told : t[1] = what
  /\ \A p \in Processes : \A t \in run[p].told : IsWhereItSays(p, t)

\* A launched review's record says what its reviewer was given, whatever was
\* committed, edited, replaced or recorded while the reviewer ran: the
\* subject, the contract of the prompt, for a finding the bytes it pins; its
\* previous review is the last one there was when the launch loaded the task,
\* and the prose it pins is whole.
RecordSaysWhatTheReviewerSaw ==
  \A i \in DOMAIN journal :
    journal[i].type = "review" /\ journal[i].by \in Launches =>
      LET r == journal[i]  l == run[r.by]
      IN /\ r.subject = l.saw.subject /\ r.contract = l.saw.contract
         /\ l.lane = "finding" =>
              journal[r.subject].type = "finding" /\ l.saw.bytes = "pinned"
         /\ r.prev = Latest(SubSeq(journal, 1, l.loaded), "review")
         /\ l.level = "commit" => r.pinned = "whole"

\* No optional markup of a verdict, however shaped, is left in a form the
\* record layer refuses: it never costs the verdict (ADR-0016 decision 3).
MarkupNeverCostsTheVerdict == \A l \in Launches : run[l].markup # "breaks"

\* A check's own sweep never takes the output its event is about to name
\* (record_check._keep_output opens its writer first).
CheckOutputOutlivesOwnSweep ==
  \A c \in Recorders : <<Item(c, "output"), c>> \notin swept
=============================================================================
