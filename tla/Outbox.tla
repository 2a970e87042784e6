------------------------------- MODULE Outbox -------------------------------
(***************************************************************************)
(* outbox send: the check that reads and pins every file, the manifest of  *)
(* what was sent, the staging, the verification of what was staged, the    *)
(* commit, and the way back when any of it fails.  Meanwhile drafts are    *)
(* edited, renamed and deleted, other work is staged and committed, and a  *)
(* second send may run.  git's index is locked by each git call only.      *)
(***************************************************************************)
EXTENDS Integers, FiniteSets

CONSTANTS Sends,      \* processes that run outbox send, one after the other
          Names,      \* names of files in the outbox
          Contents,   \* what a file may hold
          Unfilled,   \* contents with a field missing or left unfilled
          Leaks,      \* contents the leak scan reports
          Claimed,    \* contents the upstream index lists, if it is given
          MaxRuns,    \* bound on the sends that start
          MaxEdits    \* bound on the changes by others

ASSUME ContentsAssumption ==
  /\ Unfilled \subseteq Contents /\ Leaks \subseteq Contents
  /\ Claimed \subseteq Contents
  /\ "nothing" \notin Contents
ASSUME BoundsAssumption == MaxRuns \in Nat /\ MaxEdits \in Nat

Nothing == "nothing"  \* in place of a content: no such file

\* The outbox in the working tree, in the index, or in a commit: the files
\* and the lines of the manifest, which is absent while it has none.  A
\* line cut off in its digest does not parse; one cut off in its name keeps
\* the digest, which is all that counts.
Line == [content : Contents, name : Names]
CutLine == [content |-> Nothing, name |-> Nothing]
Outboxes == [files : [Names -> Contents \cup {Nothing}],
             sent : SUBSET (Line \cup {CutLine})]
Empty == [files |-> [n \in Names |-> Nothing], sent |-> {}]

Present(files) == {n \in Names : files[n] # Nothing}
Digests(lines) == {l.content : l \in lines}

VARIABLES tree,      \* the outbox in the working tree
          index,     \* the outbox in git's index
          outside,   \* something is staged outside the outbox
          head,      \* the outbox at HEAD
          cmds,      \* the sends in flight
          runs,      \* sends started
          edits,     \* changes made by others
          landed,    \* history: the contents the batches carried as drafts
          disturbed, \* history: the sends whose index another process
                     \* changed since they looked at it
          overlapped,\* history: two sends were in flight at once
          marred,    \* history: a send was killed, or failed to restore
          short      \* history: a send ended and left the manifest without
                     \* the content of a line it had found there

git == <<index, outside, head>>
others == <<runs, edits, landed, disturbed, overlapped>>
harm == <<marred, short>>
vars == <<tree, git, cmds, others, harm>>

(***************************************************************************)
(* A send: where it is; the manifest as the check found it and the next    *)
(* one; the entries still to read; the pins; the drafts among them; the    *)
(* contents that count as sent; and the index as send recorded it.  The    *)
(* last is a history: the index when send first looked at it.              *)
(***************************************************************************)
Idle == [pc |-> "idle", old |-> {}, new |-> {}, listed |-> {}, unread |-> {},
         pins |-> Empty.files, drafts |-> {}, skip |-> {},
         records |-> Empty, found |-> Empty]

At(c, pc) == cmds[c].pc = pc
Goto(c, pc) == cmds' = [cmds EXCEPT ![c].pc = pc]
Refuse(c) == cmds' = [cmds EXCEPT ![c] = Idle]
InFlight == {c \in Sends : ~At(c, "idle")}

\* The sends that have looked at the index.
Looked == {c \in Sends : cmds[c].pc \notin {"idle", "checking", "checked"}}
Disturbs(c) == disturbed' = disturbed \cup (Looked \ {c})
----------------------------------------------------------------------------
Init ==
  /\ tree = Empty /\ index = Empty /\ head = Empty
  /\ outside = FALSE
  /\ cmds = [c \in Sends |-> Idle]
  /\ runs = 0 /\ edits = 0
  /\ landed = {}
  /\ disturbed = {}
  /\ overlapped = FALSE
  /\ marred = FALSE /\ short = FALSE

(***************************************************************************)
(* The check: the manifest, then the directory, then file after file, each *)
(* pinned by the bytes read.                                               *)
(***************************************************************************)
\* Mutation: an upstream index is read in place of the manifest.
SkipEither(given) == IF given THEN Claimed ELSE Digests(tree.sent)

\* The contents that are no drafts any more: those the manifest lists, and
\* those the upstream index claims where it is given.
Skip(given) == Digests(tree.sent) \cup (IF given THEN Claimed ELSE {})

Start(c, given) ==
  /\ At(c, "idle")
  /\ CutLine \notin tree.sent
  /\ runs < MaxRuns
  /\ runs' = runs + 1
  /\ cmds' = [cmds EXCEPT ![c] =
       [Idle EXCEPT !.pc = "checking", !.old = tree.sent,
                    !.listed = Present(tree.files),
                    !.unread = Present(tree.files),
                    !.skip = Skip(given)]]
  /\ overlapped' = (overlapped \/ InFlight # {})
  /\ disturbed' = disturbed \ {c}
  /\ UNCHANGED <<tree, git, edits, landed, harm>>

\* A draft that does not conform, a leak in any file, or a file that cannot
\* be read refuses the run.
Fit(c, x) ==
  /\ x # Nothing
  /\ x \notin Leaks
  /\ x \in Unfilled => x \in cmds[c].skip

ReadEntry(c, n) ==
  LET x == tree.files[n]
  IN /\ At(c, "checking")
     /\ n \in cmds[c].unread
     /\ IF Fit(c, x)
          THEN cmds' = [cmds EXCEPT
                 ![c].unread = @ \ {n}, ![c].pins[n] = x,
                 ![c].drafts = IF x \in cmds[c].skip THEN @ ELSE @ \cup {n}]
          ELSE Refuse(c)
     /\ UNCHANGED <<tree, git, others, harm>>

\* A line whose name is gone follows its content to the one file with it.
Followed(c, line) ==
  LET now == {n \in cmds[c].listed : cmds[c].pins[n] = line.content}
  IN IF line.name \notin cmds[c].listed /\ Cardinality(now) = 1
       THEN [line EXCEPT !.name = CHOOSE n \in now : TRUE] ELSE line

\* The lines it had, followed, and one for each draft.
ManifestNext(c) ==
  {Followed(c, line) : line \in cmds[c].old}
    \cup {[content |-> cmds[c].pins[n], name |-> n] : n \in cmds[c].drafts}

CheckPasses(c) ==
  /\ At(c, "checking")
  /\ cmds[c].unread = {}
  /\ cmds' = [cmds EXCEPT ![c].pc = "checked", ![c].new = ManifestNext(c)]
  /\ UNCHANGED <<tree, git, others, harm>>

(***************************************************************************)
(* send.  The first look at the index, for work staged outside the outbox; *)
(* then the record of what the outbox has staged.                          *)
(***************************************************************************)
LookOutside(c) ==
  /\ At(c, "checked")
  /\ IF outside THEN Refuse(c)
     ELSE cmds' = [cmds EXCEPT ![c].pc = "looked", ![c].found = index]
  /\ UNCHANGED <<tree, git, others, harm>>

RecordIndex(c) ==
  /\ At(c, "looked")
  /\ cmds' = [cmds EXCEPT ![c].pc = "recorded", ![c].records = index]
  /\ UNCHANGED <<tree, git, others, harm>>

\* What a file holds while these lines are written over it: it is emptied
\* first, and a kill or a full disk stops it anywhere.
Parts(lines) == UNION {{part, part \cup {CutLine}} : part \in SUBSET lines}

\* Writing the manifest starts: the next one, or on the way back the one the
\* check found.
OpenManifest(c) ==
  /\ \/ /\ At(c, "recorded") /\ cmds[c].new # cmds[c].old
        /\ \E part \in Parts(cmds[c].new) : tree' = [tree EXCEPT !.sent = part]
        /\ Goto(c, "writing")
     \/ /\ At(c, "unstaged") /\ cmds[c].old # {}
        /\ \E part \in Parts(cmds[c].old) : tree' = [tree EXCEPT !.sent = part]
        /\ Goto(c, "restoring")
  /\ UNCHANGED <<git, others, harm>>

\* The next manifest is written, or is the one there is.
WriteManifest(c) ==
  /\ \/ At(c, "writing") /\ tree' = [tree EXCEPT !.sent = cmds[c].new]
     \/ At(c, "recorded") /\ cmds[c].new = cmds[c].old /\ UNCHANGED tree
  /\ Goto(c, "written")
  /\ UNCHANGED <<git, others, harm>>

\* git add stages the outbox as it is by now, deletions included.
StageOutbox(c) ==
  /\ At(c, "written")
  /\ index' = tree
  /\ Goto(c, "staged")
  /\ Disturbs(c)
  /\ UNCHANGED <<tree, outside, head, runs, edits, landed, overlapped, harm>>

Changed == {n \in Names : index.files[n] # head.files[n]}

(***************************************************************************)
(* Every change is a rename.  git pairs an added file with a deleted one   *)
(* of the same content, and may pair two that are merely alike.            *)
(***************************************************************************)
RenamesOnly ==
  LET added == {n \in Changed : head.files[n] = Nothing}
      deleted == {n \in Changed : index.files[n] = Nothing}
      Of(files, names, x) == {n \in names : files[n] = x}
      same == \A x \in Contents : Cardinality(Of(index.files, added, x))
                                    = Cardinality(Of(head.files, deleted, x))
  IN /\ added # {}
     /\ Changed = added \cup deleted
     /\ same \/ Cardinality(added) = Cardinality(deleted)

\* Drafts need a change of a file to go with; without one only renames of
\* files already sent go.
IsBatch(c) ==
  IF cmds[c].drafts = {} THEN RenamesOnly ELSE Changed # {}

LookForBatch(c) ==
  /\ At(c, "staged")
  /\ IsBatch(c)
  /\ Goto(c, "batched")
  /\ UNCHANGED <<tree, git, others, harm>>

\* Mutation: the files are verified, those that arrived since are not.
PinnedVerified(c) ==
  /\ \A n \in cmds[c].listed : index.files[n] = cmds[c].pins[n]
  /\ index.sent = cmds[c].new

\* What is staged is what the check read, and nothing else.
Verified(c) == index.files = cmds[c].pins /\ index.sent = cmds[c].new

Verify(c) ==
  /\ At(c, "batched")
  /\ Verified(c)
  /\ Goto(c, "verified")
  /\ UNCHANGED <<tree, git, others, harm>>

\* git commit: the whole index.
Commit(c) ==
  /\ At(c, "verified")
  /\ index # head \/ outside
  /\ head' = index
  /\ outside' = FALSE
  /\ landed' = landed \cup {cmds[c].pins[n] : n \in cmds[c].drafts}
  /\ cmds' = [cmds EXCEPT ![c] = Idle]
  /\ Disturbs(c)
  /\ UNCHANGED <<tree, index, runs, edits, overlapped, harm>>

\* A git call or a write fails, there is no batch, or it is not verified:
\* what was done since the record is undone.
Fail(c) ==
  /\ cmds[c].pc \notin {"idle", "checking", "refusing", "unstaged", "restoring"}
  /\ IF cmds[c].pc \in {"checked", "looked"} THEN Refuse(c)
                                             ELSE Goto(c, "refusing")
  /\ UNCHANGED <<tree, git, others, harm>>

\* Mutation: what the add rewrote stays, only additions go.
AdditionsDropped(c) ==
  [index EXCEPT !.files = [n \in Names |->
     IF cmds[c].records.files[n] = Nothing THEN Nothing ELSE index.files[n]]]

\* The entries recorded are put back, those that were not there are dropped.
Restored(c) == cmds[c].records

RestoreIndex(c) ==
  /\ At(c, "refusing")
  /\ index' = Restored(c)
  /\ Goto(c, "unstaged")
  /\ Disturbs(c)
  /\ UNCHANGED <<tree, outside, head, runs, edits, landed, overlapped, harm>>

\* The manifest is back; one that was absent is removed.
RestoreManifest(c) ==
  /\ At(c, IF cmds[c].old = {} THEN "unstaged" ELSE "restoring")
  /\ tree' = [tree EXCEPT !.sent = cmds[c].old]
  /\ Refuse(c)
  /\ UNCHANGED <<git, others, harm>>

\* A send that ends here leaves the manifest as it is by now.
LeavesManifest(c) ==
  short' = (short \/ ~(Digests(cmds[c].old) \subseteq Digests(tree.sent)))

\* Either may fail; send says so and goes on.
RestoreFails(c) ==
  /\ cmds[c].pc \in {"refusing", "unstaged", "restoring"}
  /\ IF At(c, "refusing") THEN Goto(c, "unstaged") /\ UNCHANGED short
                          ELSE Refuse(c) /\ LeavesManifest(c)
  /\ marred' = TRUE
  /\ UNCHANGED <<tree, git, others>>

Killed(c) ==
  /\ ~At(c, "idle")
  /\ Refuse(c)
  /\ LeavesManifest(c)
  /\ marred' = TRUE
  /\ UNCHANGED <<tree, git, others>>

----------------------------------------------------------------------------
\* What others do, one change at a time.
Edited ==
  /\ edits < MaxEdits
  /\ edits' = edits + 1
  /\ UNCHANGED <<cmds, runs, landed, overlapped, harm>>

\* A draft is written, edited or deleted.
Edit(n, x) ==
  /\ Edited
  /\ tree.files[n] # x
  /\ tree' = [tree EXCEPT !.files[n] = x]
  /\ UNCHANGED <<git, disturbed>>

Rename(m, n) ==
  /\ Edited
  /\ tree.files[m] # Nothing /\ tree.files[n] = Nothing
  /\ tree' = [tree EXCEPT !.files[n] = tree.files[m], !.files[m] = Nothing]
  /\ UNCHANGED <<git, disturbed>>

\* git add of one file in the outbox, or of work elsewhere.
StageFile(n) ==
  /\ Edited
  /\ index' = [index EXCEPT !.files[n] = tree.files[n]]
  /\ disturbed' = disturbed \cup Looked
  /\ UNCHANGED <<tree, outside, head>>

StageOutside ==
  /\ Edited
  /\ outside' = TRUE
  /\ disturbed' = disturbed \cup Looked
  /\ UNCHANGED <<tree, index, head>>

\* Somebody else's commit of what is staged.
CommitStaged ==
  /\ Edited
  /\ index # head \/ outside
  /\ head' = index
  /\ outside' = FALSE
  /\ disturbed' = disturbed \cup Looked
  /\ UNCHANGED <<tree, index>>

Next ==
  \/ \E c \in Sends :
       \/ \E given \in BOOLEAN : Start(c, given)
       \/ \E n \in Names : ReadEntry(c, n)
       \/ CheckPasses(c) \/ LookOutside(c) \/ RecordIndex(c)
       \/ OpenManifest(c) \/ WriteManifest(c) \/ StageOutbox(c) \/ LookForBatch(c)
       \/ Verify(c) \/ Commit(c) \/ Fail(c)
       \/ RestoreIndex(c) \/ RestoreManifest(c) \/ RestoreFails(c)
       \/ Killed(c)
  \/ \E n \in Names :
       StageFile(n) \/ (\E x \in Contents \cup {Nothing} : Edit(n, x))
  \/ \E m, n \in Names : Rename(m, n)
  \/ StageOutside \/ CommitStaged

Spec == Init /\ [][Next]_vars
----------------------------------------------------------------------------
\* The state has its types; a file is a draft only if it is pinned.
TypeOK ==
  /\ {tree, index, head} \subseteq Outboxes
  /\ outside \in BOOLEAN
  /\ landed \subseteq Contents
  /\ disturbed \subseteq Sends
  /\ \A c \in Sends :
       /\ {cmds[c].records, cmds[c].found} \subseteq Outboxes
       /\ cmds[c].old \cup cmds[c].new \subseteq Line
       /\ cmds[c].drafts \subseteq Present(cmds[c].pins)
       /\ Present(cmds[c].pins) \subseteq cmds[c].listed

\* The step commits the batch of c.
Commits(c) == At(c, "verified") /\ cmds'[c].pc = "idle" /\ head' # head

(***************************************************************************)
(* Whatever becomes of the files while a send is under way, a batch holds  *)
(* no leak, no unfilled draft that upstream has not claimed, nothing from  *)
(* outside the outbox, and a manifest that lists every file it holds: as   *)
(* long as nobody else stages after send has looked at the index.          *)
(***************************************************************************)
OnlyCheckedFilesAreSent ==
  [][\A c \in Sends \ disturbed : Commits(c) =>
       /\ ~outside
       /\ \A n \in Present(head'.files) :
            LET x == head'.files[n]
            IN /\ x \notin Leaks
               /\ x \in Digests(head'.sent) \cup Claimed
               /\ x \in Unfilled => x \in Claimed]_vars

(***************************************************************************)
(* A content that went as a finding in one batch goes as a finding in no   *)
(* later one, however it is renamed, edited and edited back, and whatever  *)
(* sends were killed or refused in between, in the middle of writing the   *)
(* manifest too: unless two sends overlapped, or one left the manifest     *)
(* short of what it had found in it.                                       *)
(***************************************************************************)
NoFindingIsSentTwice ==
  [][\A c \in Sends : Commits(c) /\ ~overlapped /\ ~short =>
       \A n \in cmds[c].drafts : cmds[c].pins[n] \notin landed]_vars

(***************************************************************************)
(* A send that refuses leaves the index and the manifest as it found them, *)
(* at whatever step it failed: unless somebody else staged, two sends      *)
(* overlapped, one was killed, or the way back failed.                     *)
(***************************************************************************)
RefusalLeavesAsFound ==
  [][\A c \in Looked \ disturbed :
       cmds'[c].pc = "idle" /\ head' = head /\ ~overlapped /\ ~marred'
         => index' = cmds[c].found /\ tree'.sent = cmds[c].old]_vars
=============================================================================
