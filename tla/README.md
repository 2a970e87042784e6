# AgentMarshal, modelled in TLA+ and proved with TLAPS

AgentMarshal records what agents and people did to a repository as an
append-only journal of evidence records under `.agentmarshal/journal/`, derives
each task's state from those records, and decides with `run_gate` whether a
candidate commit may merge.  It is a command-line program: every operation is a
process that reads files, decides, and writes files.  There is no server, no
thread and no lock, so what is hard about it lies between two steps of two
processes: another command, another branch, another host's clock, a failed
system call, a kill.

Every module here is a translation of named lines of the code
(`PROJECT.json`, "map").  Every run is a question about it that TLC answers on
a small instance ("runs"), with, for each property, a plausible bug of the code
that TLC shows to break it ("mutants").  Every theorem is proved by TLAPS for
all values of the constants ("theorems").  Paths below are relative to
`src/src/agentmarshal/` unless they begin with `src/`.

To check:

    tlc -workers 2 -config TaskJournal.cfg MCTaskJournal
    tlapm JournalAndRules_proofs.tla

## The system

### Components

| Component | State it keeps | Operations | What makes it correct |
|---|---|---|---|
| Record types (`journal/attestation.py`) | none; the registry of record types | `projects_to`, `admitted_after_terminal` | the gate, which reads names, and the projection, which reads records, mean the same by "closed" |
| Projection (`journal/status.py`) | none; derived from the record files | `project_status`, `load_task_for_record` | raises exactly on journals that do not project; completion is undone by a reopening only, abandonment by nothing |
| Record writers (`journal/records.py`) | one file per record, named by its ULID | the builders, `write_record`, `validate_record`, `read_records`, `generate_ulid` | no record is overwritten; a kill costs at most one record; what commands leave projects; what is let in can be read again, whatever schema it declares |
| Task opening (`journal/open_task.py`) | task directories; staging directories beside them | `next_task_id`, `open_task` | a visible task is whole; no number is written over |
| Merge gate (`journal/gate.py`) | none; reads the candidate, the base and the records | `run_gate` | no merge breaks a journal, puts work on a closed task, or carries an objection nobody answered |
| Reviews and acceptances (`journal/submit_review.py`, `journal/acceptance.py`) | records | `submit_review`, `accept_findings`, `accept_pause_or_operational` | an acceptance is over the findings of one commit's latest review |
| Contracts, agreements (`journal/contracts.py`, `agree.py`) | `contract.md` and its versions; agreement records | `amend`, `agree` | a candidate is judged by the agreed contract at its merge base |
| Completion, abandonment (`journal/complete.py`) | records | `complete_task`, `abandon_task` | the completed record answers the review the gate judged |
| Stages (`stages.py`, `isolation.py`) | a materialized copy, a process group | `run_stages` around the gate | only the base's code, as granted, runs; a pause is completed over only if accepted; the command ends |
| Trust and personal switches (`extension_trust.py`) | `trust.toml`, `switches.toml` of the clone | `trust`, `untrust`, `disable`, `enable` | no entry but the named one changes; the log tells of no change that did not land |
| Shared switches (`switches.py`, `switch_off.py`) | the project's switches file | `switch off` | what is off is off by its own task |
| Process log (`process_log.py`, `localstate.py`) | per-writer JSONL files, five rotations, payload files | `open_writer` with its sweep, `write_event`, `write_payload`, `read_events` | what was written is read until its file is deleted; a published payload is whole |
| Outbox (`outbox.py`) | drafts, a manifest, git's index, a commit | `check`, `send`, `status`, `new` | only what was checked leaves; nothing goes twice; a refusal leaves things as found |
| Steps (`steps.py`) | step events in the log | `step start`, `step end`, `open_steps` | a step is closed by its own end or by a record newer than it, and stays closed |
| Evidence commands (`record_check.py`, `record_ext.py`, `acknowledge.py`, `journal/session.py`) | records, payloads, events | one record each | as the record writers; nothing the scan finds is recorded; the kept output outlives the command |
| Review launcher (`journal/review.py`, `journal/artifacts.py`) | a reviewer process, payload, event, artifact, record | `launch_review`, `dry_run_review` | the record says what the reviewer saw; what was paid for is where the message says; optional markup never costs the verdict |
| Leak scan (`journal/capture.py`) | none | `scan_text` | a pure function of the text |
| Extension manifests (`journal/extensions.py`) | none | parsing | a pure function of the text |
| Migration, backfill (`migrate.py`, `journal/backfill.py`) | a staging directory, then the journal | one shot, may be run again | an interrupted run leaves the target as it was |
| Pruning (`journal/prune.py`) | branches, worktrees | report, then delete | what was reported and then changed is not deleted |
| Views (`journal/report.py`, `status_view.py`, `brief.py`, `validate.py`), doctor | none | read only | print what the projection says |
| Placement, settings, project, actors, command line | configuration | discovery, dispatch | refuse what is not of its shape |

`PROJECT.json` ("components") gives every part's files, its modules, how far it
is modelled and, where it is not, why.

### How they interact

* **The record files** are the one shared store.  Every evidence command
  loads them through the projection and adds one file; the gate, the
  completion and the views read them.  Nobody locks and nobody reads again
  before the write.
* **git** carries records between checkouts.  A command sees the records of its
  own branch only; the gate joins a candidate's records to the base's; the
  provider merges later, and git's own conflicts are the last check (two
  openings of one number collide in `contract.md`).
* **`complete`** calls the stages, the gate, the record writer and the stages
  again, and each of them reads the files anew.
* **Stages** read the merge base's tree and its switches file, the clone's
  grants once per phase, and the journal's pause acceptances once per phase.
* **`trust`, steps, stages, reviews and checks** write events to the process log;
  each open of a writer sweeps everybody's files.
* **`switch off`** opens a task between its read and its write of the switches
  file.
* **Outbox** shares git's index with whoever else stages, and the working tree
  with whoever edits drafts.

### Which behaviours are hard

Two commands that loaded the same task; clocks of two hosts that disagree
about the order of records; a kill between the creation of a file and its
bytes; a branch that is behind the base when it is judged, or when it is merged;
reviews, acceptances, amendments and commits that arrive while a gate runs;
stages that hang, edit their own copy or leave a child on their pipe; rotations
that fail half way beside sweeps and readers; a paid reviewer that runs for minutes
while its commit, its contract and its predecessor change; two lists, of fields
and of stamps, that must agree for records of every age; drafts and an index
that change between a check and a commit.  `PROJECT.json` ("hazards") lists them at
their lines with the properties aimed at each.  Those without a property say
why.

## Modules and the code

Each component has a module; an `MC` module adds symmetry sets, definitions for
constants and, where needed, an action constraint.  `RecordTypes` is extended by
`Projection`, `TaskJournal`, `MergeGate`, `RecordRules` and `EvidenceRuns`; `Steps`
extends `Projection`, so that a step is closed by the records the loop reads.
`TaskJournal` instantiates `AbstractLifecycle`.

A `_proofs` module holds the theorems of one component, or of two that share the
lemmas about records and sequences and no variable: `GateAndOpening_proofs` (MergeGate,
OpenTask), `JournalAndRules_proofs` (TaskJournal, RecordRules), `LogAndSteps_proofs`
(Projection, Steps, ProcessLog), `OutboxAndEvidence_proofs` (Outbox, EvidenceRuns).  The
second specification of such a pair has names of its own (`OpeningSpec`, `RulesSpec`,
`EvidenceSpec`, and `LoopSpec` and `StepsSpec` beside the log's `Spec`), and each theorem
says whose it is.

A module's types are the first conjunct of one of its invariants (`TypeOK`), so
that every run checks them.

In each module the mutants of the code ("Mutation: ...") are defined directly
before the definition they stand in for; no action uses them.

**Discipline as history.**  The code locks nothing, so several promises hold only
as long as users keep to some order: one command at a time, a merge right after
its gate.  The models do not forbid the other behaviours.  They record with
history variables that one happened (`overlapped` in TaskJournal and Outbox;
`overtaken` in MergeGate and TrustStore; `disturbed`, `marred` and
`short` in Outbox;
`halved` in ProcessLog) and the property says what it assumes in its own words.
What holds without any such assumption (the refinement of the lifecycle, one contract
to a number, rotations in order, ...) is stated without it.

### RecordTypes: `journal/attestation.py`, `journal/status.py`, part of `journal/gate.py`

Constants and operators only.  The registry's rows become functions over the set
of record types (`ProjectsTo`, `AdmittedAfterTerminal`).  A journal is a set of
records with an `id`; files are read in name order and the name leads with
the identifier, so "next", "last" and "before" are comparisons of ids.
`Projectable` and `StateOf` say without a loop what `project_status` computes;
`ClosedByName` is the gate's own idea of closed, which it takes from names alone.
Nothing in the code makes these agree: module Projection and theorem
`ClosedByNameIsClosed` do.

### Projection: `project_status`

The loop.  Its variables are the loop's locals (`state`, `has_opened_record`,
`has_terminal_record`), the records read and whether it raised; its one action
reads the next record.

### Steps: `steps.py`

What is in flight in a task, as `status` and `doctor` show it.  `StartStep` and
`EndStep` append to the log; `RecordLands` is the loop's `ReadRecord` with a stamp
from the clock of the host that wrote it, up to `Skew` off or missing; `Sweep`
drops the oldest events, `SweepSkipping` one that is not the oldest, which is what
remains when a deletion fails.  `OpenSteps` is `open_steps`, `ClosesStep`
`_closes_step`.

### RecordRules: `journal/records.py`

The record model: which fields a type carries under which schema
(`AllowedFields`), the read-time rules with the schema from which each applies
(`Rules`, `FromSchema`, `Passes`), the builders and the schema they stamp
(`Created`, `StampByKeys`, `MinimumSchema`).  A record's value is reduced to what a
rule can tell of it: well formed, blank, too long, adding a line, not encodable,
of another shape, an empty array, or the second value a rule singles out.
`Write` is a command: the builder, the stamp, every rule whatever the schema, the
encoding before the file exists.  `Submit` is a file a candidate adds by hand,
under any schema, which the gate judges by the same rules as a write
(`Accepted`).  A reader applies the rules of the record's own schema and below
(`Valid` with `forWrite` false).  The shape checks of a single value (a date, a
hash) are which values a record may hold.

### TaskJournal and AbstractLifecycle: `load_task_for_record`, `generate_ulid`, `write_record`

One task's directory.  A command is a process of four steps, none atomic with the
next: `Load` (the journal reads and its state admits the record), `Stamp` (an
identifier from the host's clock: its millisecond, then random bits), `Create`
(the exclusive create: from here on every reader refuses the task), `WriteBody`.
`Crash` ends it after any of them.  All appending commands have these steps and
differ in the record's type.  `lag[w]` is how far a host's clock is behind.  A
refused command changes nothing and is no step.  `newest` is a history: the closing
or reopening written last.

`AbstractLifecycle` is what a task promises its readers: open, done, abandoned
or refused; done goes back to open by a reopening, abandoned to nothing.
`TaskJournal` implements it under `Visible`, what a reader of the finished
records would be told.

### MergeGate: the lifecycle checks of `run_gate`, `next_task_id`

The base branch's records, and candidates: the base as each forked it (`fork`),
what it adds, what it deletes or edits (`dropped`), whether it touches anything
but the journal (`work`).  Commands on a branch see `Checkout(c)`.  `Gate`
judges a task by readability in the checkout, closed at base with the
exception for admitted records, append-only, path collision, and the
projection of the base's records joined by the candidate's.  `Merge` is the
provider's; `stale` and `overtaken` record merges on a verdict given for an
earlier base.  An opening pins one of the `Contracts`, since its contract follows from
the command's arguments and two branches may write the same; `Conflicts` is git on two
that differ.  Contracts are not amended here.  `Stack` and `Update` are the ways a branch carries what another
added or takes up the base.  The review-bound checks are left to ReviewGate
and pass here: a merge they would refuse is one more behaviour the invariants
must survive.

### ReviewGate: the regular lane of `run_gate`, `accept_findings`, `complete_task`

One task and one branch.  `commits` is the branch: who made each head, the authors and
committers git then reports of the range (a commit adds to both, a rebase keeps the authors
and puts the rebaser in every committer's place), the contract's version at its merge base,
and whether its diff is in scope.  The gate reads the journal twice, at its start (state, agreements) and in
the verdict block (reviews, acceptances); `complete` writes later still.  A run may be asked
to judge without a review (`gate --without-review`, the check that
`docs/github-enforcement.md:31-48` has a provider require): where no review names the commit
it passes without one, and a review there is, is judged all the same.  `complete` never asks.
`StartGate`, `JudgePass`/`JudgeFail` and `RecordCompletion`/`ProviderMerge` are
these moments and everything else may happen between them.  `accept_findings`
reads and writes in two steps.  `judged` is a history: how much of the journal
the last passing run had read.  `requireAgreement` is the project's setting,
either value of it from Init on.

### StageRun: `run_stages`, the stage part of `cli.py`, `complete_task`'s record

The command `complete` with its phases: `Planned` reads the grants; for each
stage `NotStarted` (switched off at base, named by a switches file that does
not parse, grants that do not read, no grant or no usable directory) or
`Launch` (a fresh copy of the merge base's directory that the grant covers);
then the stage's process, which may edit its copy (`Tamper`), exit, or leave a
child on its pipe; `Collect`, or `TimeLimit` with the kill of the group and
the bounded drain.  `EndPreGate` pauses or goes on; `GateSays` and `Record`;
then the post-gate phase.  `Operational` is the lane for a diff that only
switches extensions: it runs no stage and reads no manifest.  `Killed` may
come anywhere.  Trust, untrust, acceptances of pauses and merges happen all the
while.

### ProcessLog: `process_log.py`, `localstate.py`

The log directory file by file: for each file its lines, whether half a line is
at its end, its time of last write and whether it is a day old.
`ListDirectory`, `StatEntry`, `SweepOne`, `ClaimFile` are the opening of a writer
with its sweep; `AppendEvent`, `AppendFails`, `RotateStep`, `RotationFails` the
write and its rotation, one file operation each; `StagePayload`, `FillPayload`,
`PublishPayload`, `GiveUpPayload` a payload; `ReaderLists`, `ReadFile`,
`ReaderReturns` a read, in which any file may fail to be read and yield nothing.  `WriterEnds` kills a writer anywhere.  `written` and
`shed` are histories: the events a caller was told are written, and those
deleted with their file.

### EvidenceRuns: `journal/review.py`, `record_check.py`, `record_ext.py`

The commands that bring somebody else's verdict into the journal.  A launch goes
through `LoadForReview` (the lane and the previous review), `ResolveCommit` or
`VerifyArtifacts` and `ReadContract`, `BuildPrompt` (what the reviewer will see),
`RunReviewer` (it exits zero, with output and perhaps errors) or `ReviewerFails`
(another status: nothing is kept, and the message carries the errors, or the
output when there are none), `ReadVerdict` (its markup reduced),
`AdmitReview` (the journal loaded again), `WriteArtifact`, `WriteReview`, and the
keep of its output.  `told` is what its messages have named: each of output and
errors with a place, the message itself, or "nowhere" when it says that nothing was
kept.  `EndDryRun` and the dry lane of `RejectVerdict` drop the output and tell
nothing of it, as the code does.  Keeping is `PublishPayload`, `OpenWriter` with its sweep and
`WriteEvent`, in the order each command has them: the launcher publishes first,
`record-check` opens first.  Any of them may fail (`KeepFails`, `Rejects`,
`ReviewRefused`); a process that takes no further step was killed.  Others append
records, commit, amend contracts, drift artifacts and log.

What is a constant of the code, not of a run, is computed once: `MarkupFits`
(whether what `_verdict_classes`, `_verdict_evidence` and `_verdict_verification`
leave of every small markup fits the record's rules).

### OpenTask: `open_task.py`, `switch_off.py`

Commands that open a task, by themselves or for `extension switch off`: the
check of the switches text and its reading (`StartSwitchOff`), the number
(`Allocate`), the staging directory with contract and record (`StageContract`,
`StageRecord`), the one rename (`Rename`), the rewrite of the switches file
(`WriteSwitch`), errors with their cleanup (`OpenFails`, `EndsAfterRename`) and
kills without.  `Pull` brings tasks opened elsewhere, `SwitchOn` is an edit by
hand.

### TrustStore: `extension_trust.py`

`trust.toml` and the personal `switches.toml`, under the four commands that
rewrite them: `Start` reads the file, `Hash` the directory as it is by then,
`Write` renames the new file over the old, `Log` writes the event.  `Ends` is an
error or a kill at any step; `Checkout` changes the directories meanwhile.

### Outbox: `outbox.py`

`send`, with the check it begins with: `Start` reads the manifest and lists the
directory, `ReadEntry` reads and pins one file, `CheckPasses` computes the next
manifest with its lines following renamed files; `LookOutside` and `RecordIndex`
look at git's index; `OpenManifest` and `WriteManifest`, `StageOutbox`, `LookForBatch`,
`Verify`, `Commit`; `Fail` before any of them, then `RestoreIndex`, `OpenManifest` again and
`RestoreManifest`, which may fail themselves.  The manifest is emptied and written over
(`Path.write_bytes`): from `OpenManifest` on it holds any part of its lines (`Parts`), one of
them perhaps cut off so that it does not parse (`CutLine`, which refuses every later check),
and a kill or a failure leaves it so.  Others edit, rename and delete drafts, stage and
commit.  `landed` is a history of the contents that went as findings.

## Runs

A complete run of each takes from seconds to about four minutes with two
workers, with 0.2 to 1.7 million distinct states.  Every run explores its whole bounded state space.  `CHECK_DEADLOCK FALSE` stands in all of
them: commands end, and a bounded history stops.

### Steps (`Steps.cfg`)

One step of either activity, started and ended, in a log of at most two events that
sweeps shorten, beside a journal of up to three records of the six types the loop
tells apart (four lifecycle types, a measurement, a work record).  Stamps are up
to one unit off over three units of time, or missing.  *The loop of*
`project_status` *computes the projection* (`LoopComputesProjection`): it raises
exactly on the journals that do not project, and else returns the last
lifecycle record's state.  Three records open, close and reopen a task; for
journals of any length the theorem `LoopIsTheProjection` says the same.  *A step is
closed by the record its work lands once the two lie further apart than the stamps
can be off, and by none that lay further before it* (`StepsCloseByTheirWork`; one
unit is enough, since only the sum of two errors against a distance counts).
*A step shown closed is not shown open again, unless a sweep failed to delete its
start* (`NoStepRevives`).  The constraint leaves journals that do not read to
the loop alone: `status` shows no steps of them.

### RecordRules (`RecordRules.cfg`)

Every type, written by a command or added by a candidate as a file: with up to three
optional arguments (two for a file), one value of any class that is not well
formed, any schema from 1 to the one after the newest, either of two directories,
the name of its own type or another's, over a task that holds a finding or does
not.  One record at a time is asked about: a rule reads one record and whether the
task holds the finding it names.  One value that is not well formed is enough to break any
rule, and three arguments are the most a rule relates.  `WhateverEntersIsRead`
(write and read agree for records of every age), `StampIsLeastAdmitting` (the list
of fields and the derivation of the stamp agree).

### EvidenceRuns (`EvidenceRuns.cfg`)

One launch, of any lane and capture level, beside one record-check or record-ext run and
one move of others, or beside two moves without it (a review, a finding, a closing, a commit, an amendment, a
changed artifact, an opening of a log writer) and failures at every keep and
write.  The log's cap is one entry, so that a payload and its event are over it and
each opening sweeps.  Two moves close a task and reopen it, or put a
review and a commit beside the run.  `PaidOutputIsWhereItSays`,
`RecordSaysWhatTheReviewerSaw`, `MarkupNeverCostsTheVerdict`,
`CheckOutputOutlivesOwnSweep`.  The launcher's own sweep may
take its payload before its event names it: `journal/review.py:660` publishes
and then opens, where `record_check.py` opens first for just that reason.  The
first property therefore admits a payload that a sweep took; the fourth is
about checks.  The first promises a word about all its reviewer left of a launch that
records.  It does not promise what the code does not do: a dry run says where the
errors went and drops the output, kept or not, without a word
(`journal/review.py:1285-1303`, `cli.py:835-838`), and a nonzero exit drops the output
whenever there are errors to print (`journal/review.py:587-595`).

### TaskJournal (`TaskJournal.cfg`)

Two hosts, one of whose clocks may be 1 ms behind, two identifiers per
millisecond, three commands, kills anywhere: enough to complete, reopen and
complete again, and for two in flight while a third loads what they left.
`ImplementsLifecycle` holds with everything on.  `CommandsLeaveJournalReadable`
and `LatestIsGreatestName` hold for commands that did not overlap on clocks
that agree; `CrashTearsOneRecord` for commands that did not overlap, on any
clocks.  A lag of one millisecond is enough since a lag matters only by
putting a record before one that was written earlier, and a command
takes longer than a millisecond.

### MergeGate (`MergeGate.cfg`)

Two branches, two tasks, two records between the branches, and a base on which
task 1 is open, done, abandoned or reopened.  Two branches are every way to be
behind the base; two records are every pair a candidate can bring, a reopening
with work included.  *As long as no candidate merges on a verdict given for an
earlier base, every task on the base reads* (`BaseReads`), *no implementation lands on
a closed task* (`NoWorkOnClosedTask`), *a completed task is reopened only beside
measurements and an abandoned one never* (`ReopeningTravelsAlone`).  *No number
lands under two contracts, even of openings judged together* (`OneContractEach`): two
texts of `contract.md` collide in git.  Base contracts are of a release that pinned
none, so that the two texts are interchangeable.  Once a candidate has merged on a
stale verdict the first three say nothing more, and an action constraint leaves the
branches their openings only.

### ReviewGate (`ReviewGate.cfg`)

Two identities, three commits, three records, two versions of the contract.  A gate run
requires a review or not.
Two findings, so that one can be accepted and the other not.  A third record
is what an objection, its acceptance and a review that changes the verdict
take.  `NoObjectionMergedUnanswered`, `NobodyApprovesTheirOwn`,
`MergedUnderAgreedContract`, `CompletionAnswersJudgedReview`.  An action
constraint separates questions: with agreement required there are no acceptances, and
reviews carry at most one finding and no advisory; without it there are no
agreements, amendments or commits out of scope.  The gate's checks of scope and
agreement read other records than its checks of verdicts, so no check sees a
combination that is left out.  Gate runs pass for merges or for the completion in
one behavior, and advisories come without second findings and merges: only the
completion reads them.  Runs without a review meet at most two records, an objection and
its answer, and the third commit is there for a range rebased twice, after which who rebased
it first may review it.  Where three records meet, or a review with two findings, one
person reviews: whose reviews count, and what they found, are read from different fields.
A behavior ends with its merge or its completion, which nothing changes afterwards.
The theorems have no such constraint.

What the properties say of a gate that was asked to judge without a review is what that
gate can promise: nothing there was to say against the commit went unanswered.

### StageRun (`StageRun.cfg`)

Two extensions, each with a stop stage, one with a post-gate stage; four
candidates: one that edits an extension (`plain`), one that also turns the
switches of its base round (`sly`), one whose base holds a switches file that
does not parse (`garbled`), and one that only switches an extension off over a
base where that extension's manifest does not parse (`operational`).  Any grants at the start, any trust or untrust
between, two acceptances or merges, of which the action constraint leaves one
at most to another candidate than the plain one.  `OnlyGrantedBaseCodeRuns`,
`NoPauseCompletedOver`, `SwitchingOffIsNeverBlocked`, and `EveryRunEnds`, the
one liveness property.

*Fairness.*  `WF_vars(Step)`, where `Step` is what the command does itself:
start a stage, collect it, give up on it at the time limit, end the drain, go on.
It is justified by the time limits of `communicate`: the operating system
schedules the command and its timers fire.  Nothing is asked of the stage (it
may hang), of its children (one may hold the pipe for ever), of the operator or
of the provider.  No other module assumes fairness: its properties are safety.

### ProcessLog (`ProcessLog.cfg`), ProcessLog_retry

Two writers, one payload, a reader; three events a writer, a rotation after each
event, two rotations kept in place of five, a cap of one line, one day that may
pass.  With two rotations kept the first, a middle and the last suffix are
different; with three events the last suffix is deleted; with a cap of one
every sweep has something to delete.  `WhatIsWrittenIsRead`, `RotationsInOrder`,
`YoungFilesAreLeftAlone`, `PublishedIsWhole`, `CalmReadFindsEachEventOnce` (of a read
no rotation runs beside, and that can open every file that is there).  An
action constraint keeps apart what meets in the sweep only: two writers write four events
between them; once a half line was
left, writers stop at two events with no reader or payload; beside a payload or a
reader a writer writes one event (a writer that ended counts anew, so beside a payload
two events in all); a read that a rotation ran beside, of which nothing is claimed, goes
on beside one writer only.

`ProcessLog_retry` is the finding below.

### OpenTask (`OpenTask.cfg`)

Three commands, two extensions, three numbers: two commands at the same number and
a third, or a pull, between.  `VisibleTaskIsWhole`, `NoTaskIsOverwritten`,
`OffByItsOwnTask`.

### TrustStore (`TrustStore.cfg`)

Two processes that run four commands between them over two shared and two
personal extensions with two versions: a grant and its removal overlapping with a
change of the other entry, in each of the files.  `LoggedChangesLanded`,
`OnlyTheNamedEntryChanges`.

### Outbox (`Outbox.cfg`)

Two sends, three runs, three changes by others, two files, four contents: one
fit to go, one unfilled, one unfilled that upstream claims, one leak.  Three runs
and three changes are a batch, a rename or an edit back, and another batch.  When
two sends overlap the constraint allows two of each.  `OnlyCheckedFilesAreSent`
holds unless somebody else stages after the send looked at the index,
`NoFindingIsSentTwice` unless two sends overlap or one left the manifest without a line it
had found there, `RefusalLeavesAsFound` unless
somebody else stages, two overlap, one is killed, or the way back itself fails.

### The finding (`ProcessLog_retry`)

**A retried rotation deletes again** (`process_log.py:313`).  The specification
keeps the five newest rotations (`src/openspec/specs/process-log/spec.md:85-87`).
The rotation deletes the last suffix before it renames the others; when a rename
fails it starts over at the next write and deletes the next one.

Other disagreements met while modelling, which have no run:

* Two commands that both loaded the open task write a completion and a review:
  both land and every later reader refuses the task (`journal/status.py:164`,
  `journal/records.py:2092`).  `src/docs/threat-model.md:53-57` says a review on a
  closed task is refused.  `CommandsLeaveJournalReadable` therefore names commands
  that did not overlap.
* Two candidates judged against the same base pass alone; merged one after
  the other they leave a task that does not project (`journal/gate.py:2210`).
  `src/docs/github-enforcement.md:89-92` says the required check enforces the
  lifecycle on every candidate.  MergeGate's first three properties
  therefore name merges on a verdict for the base as it is.
* Two openings of one number with the same arguments (two `extension switch off` of
  one extension for one reason, one `--contract-file`) write the same `contract.md`,
  byte for byte (`journal/open_task.py:274`), and records with names of their own.
  Git merges both, and the task has two `opened` records that no reader accepts.
  On fresh verdicts the gate stops the second (`BaseReads`); on stale ones
  `OneContractEach` is all that holds.
* A review that lands while another is launched becomes, by the comment in the
  launcher, that one's successor; by the order of identifiers, which is what every
  reader goes by, it stands before it.  `RecordSaysWhatTheReviewerSaw` therefore
  says "the last review there was when the launch loaded the task".
* `journal/gate.py:1404-1406` calls record names monotonic; they are so on one
  host only.  `LatestIsGreatestName` therefore names agreeing clocks.
* A writer idle for a day may have its current file swept while it is open
  (`process_log.py:295`; `src/openspec/specs/process-log/spec.md:109-112`).
  `YoungFilesAreLeftAlone` therefore says "while no day has passed".
* An event appended to half a line is lost with it (`process_log.py:145`;
  the same specification, 56-58).  `WhatIsWrittenIsRead` leaves such writers out by name.
* A read beside a rotation may miss an event or return it twice
  (`process_log.py:214`; the same specification, 163-164).
* `switch off` loses an entry written between its read and its write
  (`switch_off.py:718`; `src/openspec/specs/extension-stages/spec.md:703-707`),
  and `trust` and `untrust` that overlap undo each other
  (`extension_trust.py:575`; `src/openspec/specs/extension-trust/spec.md:109-110`).
* A send killed between manifest and commit leaves a manifest that counts
  unsent drafts as sent (`outbox.py:1116`), and two sends that overlap undo
  each other's index and manifest.  One killed, or out of disk, while the manifest is
  written in place leaves part of it (`outbox.py:1063`, `1116`), and if what is left parses,
  what the lost lines listed is a draft again and goes a second time, though the lines are
  there "so a later `check` skips them" (`src/openspec/specs/outbox/spec.md:462-466`).

## Proofs

What TLAPS proves, for all values of the constants that satisfy the modules'
named assumptions (each of which TLC evaluates in the module's run):

**RecordTypes_proofs.**  `AdmittedRecordKeepsProjectable`: to a journal that
projects, any record newer than all others that the task's state admits can be
added and the journal still projects.  It is the reason that loading before
writing is enough for commands that take turns.  `ClosedByNameIsClosed`: on a
journal that projects the gate's comparison of names and the projection agree
about closed.  No assumption but that records have integer ids, each its own.

`JoiningMovesAlongLifecycle`: wherever a record joins a journal that projects, and still
projects with it, the state a reader is told moves along the lifecycle; for a closing
or a reopening because it then sorts after every other (`JoiningClosingIsLast`), and
because nothing joins after an abandonment (`AbandonmentIsLast`).

**LogAndSteps_proofs.**

*The loop.*  `LoopIsTheProjection`, `RaisesCorrectly`, `ReturnsLastState`,
`AbandonmentIsFinal`, for journals of any length.  Three flags must summarise the whole
prefix, so the inductive invariant is `LoopInv`: ids are unique; while the loop has not
raised, what it read is *placed* (each record is admitted where it stands) and the locals
summarise it (`LocalsSummarise`: the state is the last lifecycle record's, the
flag says whether it is terminal); once it has raised, what it read is not placed,
and never will be again.

*Steps.*  `LandedRecordsProject`: the composition runs the loop (every step is a loop step
or leaves the loop alone), so the loop's theorem carries over.  `WorkClosesSteps` and
`ClosedStepsStayClosed` from `StepsInv`: every stamp, of a record or of an announcement, is
unreadable or within `Skew` of the moment it was given (`RecordsStamped`,
`StartsDated`), and a step is announced before anything else is logged of it, and once
(`StartsFirst`).  Without the last a sweep could drop an end and leave a second
announcement.  For the action property each kind of step is one lemma: what is closed
stays closed when the records only grow (`ClosedStays`), and when the log only loses
events from its old end (`SweepKeepsEnds`).

*The process log.*  `WrittenIsRead`, `SuffixesInOrder`, `PublishedPayloadIsWhole`,
`CalmReadIsComplete`, `YoungFilesStay`, for any number of writers, events, payloads, files
kept and commands between.  One invariant, `LogInv`, serves all five.  Its parts: a writer
that has not claimed its file has none, and a rotation under way has freed the suffix it
moves the next file to (`FreeNames`: no rename lands on a file); events stand in a writer's
files in the order of their numbers (`RotationsInOrder` across files, `LinesInOrder` within
one), which is also why no two files hold the same event; an event written and not shed
is in a file, unless its writer left half a line (`Kept`); a payload has one name at a time
and the final one only with content (`PayloadNames`); a read beside no rotation that could open what was there has
found an event once, or will find it in a file it has yet to read (`CalmRead`).
`OccursOnce` counts: a file in which an event stands once adds one to what the reader
found.

**JournalAndRules_proofs.**

*One task's directory.*  `TypeCorrect` from `NameInv`: each identifier is held by
one file or one running command, which is what makes the exclusive create
succeed.  `CrashTearsOne` from `SoleInv`: as long as commands did not overlap
at most one runs, and a torn file is either its own or the only one
(`AloneInv`); the load of the next command refuses a torn file, so no second one
comes.  `SerialCommandsLeaveReadable` and `SerialLatestIsGreatestName` from
`DisciplinedInv`: besides, all files' ids are below the next millisecond's, the
running command still knows what it loaded (`RunOK`: its type is admitted by
the journal as it is, its stamp is beyond every file), and the greatest closing
is `newest`.  The step of `WriteBody` is `AdmittedRecordKeepsProjectable`.

`JournalRefinesLifecycle`: TaskJournal implements `AbstractLifecycle`, with no discipline
assumed: commands overlap, clocks lag, processes die.  Only `WriteBody` changes the
records that are finished (`FinishedOnlyByWriteBody`), by one that is not among them;
`JoiningMovesAlongLifecycle` says what that does to a reader's state if both journals
project, and if one does not it is `Wedge` or `Heal`, which never brings an abandoned task back.

*The rules of records.*  `EnteredIsRead`, `StampsAreLeast`, for any tasks,
arguments and values, where TLC enumerates up to three arguments.  The first needs no
strengthening: what enters was checked (`OnlyCheckedEnters`), and a reader applies fewer
rules to it and knows less (`WrittenIsReadable`).  The second is the agreement of
two tables kept by hand, and has two halves: no schema below the stamp admits the record
(`StampIsNeeded`: each thing that asks for a schema is a field not allowed before it, or
a rule that applies from it), and what any schema admits the stamp admits
(`StampIsEnough`).

**GateAndOpening_proofs.**

*The merge gate.*  `TypeCorrect`, `SerialisedBaseReads`,
`SerialisedNoWorkOnClosedTask`, `SerialisedReopeningTravelsAlone`, from
`MergesInv`: identifiers are unique over the base and all branches (`UniqueIds`);
and as long as no merge overtook a verdict the base reads and each standing
verdict still stands (`VerdictsStand`: a passed candidate that is not stale
satisfies what the gate checked, over the base as it is).  That a verdict stands
is what `stale` is for: it is the strengthening without which `Merge` preserves
nothing.  The last two theorems are action properties and use
`ClosedByNameIsClosed` to turn the gate's name comparison into the state.

`OneContractLands` holds for stale verdicts too, and needs what such a verdict still says
when the base has grown (`OpensOnce` and `WellOpened`, in `OpenedInv`): the branch opens no
task twice and none that was on the base when it forked, and what it adds to is opened by
the time it lands.  A number opened meanwhile under another contract is on the base and not
in the fork: git refuses that merge, which is `Merge`'s guard.  One opened under the same
contract is let in, and the property holds because the texts are one.

*Opening tasks.*  `VisibleIsWhole`, `TasksStayTheirOpeners`, `OffByOwnTask`.
The invariant says of each command what it has made by its place (`Progress`), and
of each switches text, the file's and those that commands hold, that an entry is off by a task
that was opened for it (`OffByOwn`).  Tasks stay, so an old text put back loses
entries and never invents one.

**ReviewGate_proofs.**  `NoObjection`, `NobodysOwn`, `AgreedContract`,
`CompletionAnswers`, from `IInv`.  The properties speak of what the gate had read
when it judged, while journal and branch go on growing.  `Carries` is what a
judgement rested on: the last review of the commit among the records seen, an
acceptance of each of its findings, its author none of the range's authors and committers
(`Answered`), or no review at all where none was required (`Unreviewed`), and the scope
and the agreement.  A passing run has it of its commit (`PassedRun`), what merged has it
of some review (`MergedStands`).  It is kept because the journal and the branch
only grow (`Grows`, `CarriesStays`), and because no later run of the same kind
replaces the judgement (a merge run starts while nothing is merged, a completing
one on an open task): without the clauses `run.op # "merge"` and
`run.op # "complete"` the invariant is not inductive.  `WritersCount` is what
turns "none of the authors and committers" into "nobody who made a commit of it, and not who
rebased it last".
`Latest` is a CHOOSE; `LatestIsLast` gives it its property by well-founded
induction.

**StageRun_proofs.**  `GrantedBaseCodeRuns`, `PausesHold`, `SwitchingOffPasses`, for any
plan of stages, any trees and any interleaving with trust, acceptances and merges.
`StageRuns` says of a stage under way, from its launch to the end of its drain, that it is
the granted one of the merge base and switched on there, in terms of the grants the run
read at its beginning.  `PausesStand` says of a run that every stop stage it leaves
unchecked has a pause that stands or an acceptance that was given (acceptances only grow,
so an old reading of them stays true), and that it reached the gate over no pause but a
merged candidate's.  `OperationalPasses` is the third.  `TurnIsNext` gives the CHOOSE of the
next stage its property: of any set of stages still to run one comes first.

**TrustStore_proofs.**  `LogFollowsFile`, `NamedEntryOnly`.  What a command read of
the other entries is what the file still says of them, unless somebody overtook
it (`Current`); a grant about to be logged has landed (`Placed`).

**OutboxAndEvidence_proofs.**

*The outbox.*  `TypeCorrect`, `CheckedFilesOnly` from `IInv`.  From the check on, what a send
has pinned was fit to go and is listed in the next manifest (`PinsFit`, `Lists`), what
counts as sent was listed before or claimed upstream; and for a send nobody
disturbed the index outside is empty once looked at, and holds the pins and the
manifest once verified (`Undisturbed`).

`SentOnce` and `RefusalUndoes` are action properties of sends that did not overlap and did
not leave the manifest short, and rest
on a second invariant, `LoneInv`: at most one send is in flight; nothing has gone that the
manifest does not list, or, while a send is in flight, that the manifest it found does not
list (`Knows`); the tree holds that manifest before the write and the next one after it, and
anything in between.  So a killed send leaves a manifest that lists what
has gone, perhaps more, and the next send skips it, unless it is left `short`: that is the
whole of what a write in place gives away, and every other kill is covered.  What a send will put back is the
index of its first look, unless somebody staged since (`AsFound`): the refusal at each
place follows.

*The launches.*  `PaidOutputIsNamed`, `RecordsAreFaithful`, `MarkupCostsNothing`,
`OwnSweepTakesNothing`, from `EvidenceInv`, for any number of launches,
checks and changes by others.  `Stands` says of each launch what it has and may do at its
place, `Given` what its reviewer is given and which review was the last when it loaded the
task, `TellsTrue` that what its message has named is there (a payload may have fallen to a
sweep), `SaysAll` that its errors are named once their keep is over and its output when it
ends, `Records` that a check's output is published after its own sweep and that what a
check has named is there, `ReviewsAnswer`
that a launched review in the journal says what its launch still holds.  Processes touch
each other in few ways: the journal, the commits and the payloads only grow but for sweeps,
and a sweep takes payloads into `swept` (`Grows`, `SweepTakes`).  So one lemma
(`LaunchUndisturbed`) keeps the others' part of the invariant in every step, and each
action's lemma is about its own process.  `MarkupAlwaysFits` is about the constant
those definitions compute.

The assumptions are the modules' named ones: the constants are sets and naturals,
mostly.  `VerdictsAssumption` has verdicts over the findings and advisories,
`PlanAssumption` and `TreesAssumption` stages and trees over the extensions,
`NamesAssumption` and `ProcessesAssumption` say that names of different kinds differ (a
writer is no payload, a launch no recorder), `MaxTaskAssumption` that task numbers begin
at one.  Nothing is assumed of how many there are.

Only model-checked: the liveness property `EveryRunEnds` (liveness under fairness is out
of the prover's reach).  Every other property of the passing runs is a theorem.
`RotationDropsOnlyTheSixth` is false, and `ProcessLog_retry` shows it.  There is no
induction over data but for least elements of sets of numbers (`LeastNumber`,
`LatestIsLast`): the models have no recursive definition, a journal is a set or a
sequence and its order is that of its ids.

## Not modelled, and why

* Conversions: TOML, Markdown and JSON text, field schemas of records, masking,
  the contract's sections, the wording of every message.  They are functions of
  one text; where one decides something the models have its verdict (a
  manifest parses or not, a content is a leak or not).
* The leak scan's patterns, which are regular expressions.  Outbox has the verdict on each
  content.  What masking leaves of an excerpt or of an extension's payload, and the second
  scan that withholds it (`record_check.py:309-318`, `record_ext.py:248-253`), are
  functions of one text: a property of them would restate that scan.  The gate's use of it on added content, and acknowledgements, are not modelled.
* Isolation (`isolation.py`): a straight line of kernel calls in a child.
* The views, journal validation, doctor: they change nothing and print what the
  projection and the record rules say, each check by itself.
* Placement, settings, project: configuration is found and checked before
  anything else happens; `init` writes it once, by the exclusive create
  TaskJournal has.
* Migration: a parser of Markdown over a tree that nobody else writes, built in a
  staging directory that one rename puts in place.  A migration killed before the
  rename leaves its staging directory beside the target.  Backfill writes records through
  TaskJournal's exclusive create.
* Pruning: what it deletes is decided by git (an unmerged branch, a dirty
  worktree are refused); the records narrow the list only.
* The reviewer's sandbox, the prompt's text, the snapshot's files.
* In `run_gate`: the leak scan of added content, blocking checks, the checks of
  extension manifests, the walk over merges inside a range.

## Where it can grow

The two largest parts left are rows of checks in `run_gate`: blocking checks against
the check records of the judged commit, with the leak scan of added content and its
acknowledgements; they would join ReviewGate, whose verdict block they stand in.  Of
the proofs, what is left is an abstract specification of more components: TaskJournal
has one (`AbstractLifecycle`), and the log (a set of events that only a sweep thins)
and the outbox (contents that go once) could have theirs, from the invariants above.
