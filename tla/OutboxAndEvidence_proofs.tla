------------------------ MODULE OutboxAndEvidence_proofs ------------------------
(***************************************************************************)
(* What leaves a machine and what comes back to it.                        *)
(*                                                                         *)
(* First Outbox: what outbox send puts into git, for any files, contents,  *)
(* sends and any number of changes by others.                              *)
(*                                                                         *)
(* OnlyCheckedFilesAreSent is about one step, the commit; the invariant    *)
(* behind it says what each send knows of what it holds from the check on: *)
(* every pin was fit, a pin is a draft unless its content counts as sent,  *)
(* what counts as sent was in the manifest or claimed upstream, and the    *)
(* next manifest lists both.  From the first look at the index on, nothing *)
(* is staged outside the outbox, and once verified the index holds the     *)
(* pins and the next manifest - unless somebody else staged meanwhile.     *)
(* What sends do one after another rests on a second invariant, LoneInv.   *)
(*                                                                         *)
(* Then EvidenceRuns: any number of review launches, record-check and      *)
(* record-ext runs beside any number of changes by others.  Its invariant  *)
(* says of each launch where it stands and what it holds there, what its   *)
(* reviewer was given, that it says of all its reviewer left where it is,  *)
(* and that what its message names is there; of each recorder the same,    *)
(* and that its output is published after its own sweep; and of each       *)
(* launched review in the journal that its launch still holds what it says. *)
(***************************************************************************)
EXTENDS Outbox, EvidenceRuns, RecordTypes_proofs, SequenceTheorems,
        FiniteSetTheorems

Places == {"idle", "checking", "checked", "looked", "recorded", "writing",
           "written", "staged", "batched", "verified", "refusing", "unstaged",
           "restoring"}
SendStates ==
  [pc : Places, old : SUBSET Line, new : SUBSET Line,
   listed : SUBSET Names, unread : SUBSET Names,
   pins : [Names -> Contents \cup {Nothing}], drafts : SUBSET Names,
   skip : SUBSET Contents, records : Outboxes, found : Outboxes]

\* An unfilled content is in a manifest only if upstream has claimed it.
Clean(lines) == \A l \in lines : l.content \in Unfilled => l.content \in Claimed

PinsFit(s) ==
  \A n \in Present(s.pins) :
    /\ s.pins[n] \notin Leaks
    /\ s.pins[n] \in Unfilled => s.pins[n] \in s.skip
    /\ n \in s.drafts <=> s.pins[n] \notin s.skip
Lists(s) ==
  /\ Digests(s.old) \subseteq Digests(s.new)
  /\ \A n \in s.drafts : s.pins[n] \in Digests(s.new)
Sound(s) ==
  /\ s \in SendStates
  /\ s.drafts \subseteq Present(s.pins)
  /\ Present(s.pins) \subseteq s.listed
  /\ s.unread \subseteq s.listed \ Present(s.pins)
  /\ PinsFit(s)
  /\ s.skip \subseteq Digests(s.old) \cup Claimed
  /\ Clean(s.old) /\ Clean(s.new)
  /\ s.pc \notin {"idle", "checking"} => Lists(s)

\* What the git state still is for a send that nobody disturbed.
Undisturbed(c) ==
  /\ c \in Looked => ~outside
  /\ At(c, "verified") => Verified(c)

IInv ==
  /\ {tree, index, head} \subseteq Outboxes
  /\ outside \in BOOLEAN
  /\ landed \subseteq Contents
  /\ disturbed \subseteq Sends
  /\ cmds \in [Sends -> SendStates]
  /\ Clean(tree.sent)
  /\ \A c \in Sends : Sound(cmds[c])
  /\ \A c \in Sends \ disturbed : Undisturbed(c)

----------------------------------------------------------------------------
\* A send that has ended holds nothing.
LEMMA IdleSound == Sound(Idle)
<1>1. Empty \in Outboxes
  BY DEF Empty, Outboxes
<1>2. Idle \in SendStates
  BY <1>1 DEF Idle, SendStates, Places, Empty, Outboxes
<1>3. Present(Idle.pins) = {}
  BY DEF Idle, Present, Empty
<1>4. QED
  BY <1>2, <1>3 DEF Sound, PinsFit, Idle, Clean

\* A send that moves on, its check passed, stays sound.
LEMMA MovesOn ==
  ASSUME NEW s, Sound(s), NEW p \in Places, Lists(s)
  PROVE  Sound([s EXCEPT !.pc = p])
<1> DEFINE t == [s EXCEPT !.pc = p]
<1>1. s \in SendStates
  BY DEF Sound
<1>2. /\ t \in SendStates
      /\ t.old = s.old /\ t.new = s.new
      /\ t.listed = s.listed /\ t.unread = s.unread
      /\ t.pins = s.pins /\ t.drafts = s.drafts /\ t.skip = s.skip
  BY <1>1 DEF SendStates
<1> HIDE DEF t
<1>3. PinsFit(t) /\ Lists(t)
  BY <1>2 DEF Sound, PinsFit, Lists
<1>4. Sound(t)
  BY <1>2, <1>3 DEF Sound
<1>5. QED
  BY <1>4 DEF t

\* The manifest of the next commit lists what the last one did, under the
\* names of now, and every draft.
LEMMA NextManifest ==
  ASSUME IInv, NEW c \in Sends
  PROVE  /\ ManifestNext(c) \subseteq Line
         /\ Digests(ManifestNext(c)) =
              Digests(cmds[c].old) \cup {cmds[c].pins[n] : n \in cmds[c].drafts}
         /\ Clean(ManifestNext(c))
<1> DEFINE s == cmds[c]
<1>1. Sound(s) /\ s \in SendStates
  BY DEF IInv, Sound
<1>2. ASSUME NEW l \in s.old
      PROVE  Followed(c, l) \in Line /\ Followed(c, l).content = l.content
  <2> DEFINE now == {n \in s.listed : s.pins[n] = l.content}
  <2>1. l \in Line /\ now \subseteq Names
    BY <1>1 DEF SendStates
  <2>2. CASE Followed(c, l) = l
    BY <2>1, <2>2
  <2>3. CASE /\ Followed(c, l) = [l EXCEPT !.name = CHOOSE n \in now : TRUE]
             /\ Cardinality(now) = 1
    <3>1. now # {}
      <4>1. Cardinality({}) = 0
        BY FS_EmptySet
      <4>2. QED
        BY <2>3, <4>1
    <3>2. (CHOOSE n \in now : TRUE) \in Names
      BY <2>1, <3>1
    <3>3. QED
      BY <2>1, <2>3, <3>2 DEF Line
  <2>4. QED
    BY <2>2, <2>3 DEF Followed
<1>3. ASSUME NEW n \in s.drafts
      PROVE  /\ [content |-> s.pins[n], name |-> n] \in Line
             /\ s.pins[n] \notin Unfilled
  <2>1. n \in Present(s.pins) /\ n \in Names
    BY <1>1 DEF Sound, SendStates
  <2>2. s.pins[n] \in Contents
    BY <1>1, <2>1 DEF SendStates, Present
  <2>3. s.pins[n] \notin s.skip
    BY <1>1, <2>1 DEF Sound, PinsFit
  <2>4. s.pins[n] \notin Unfilled
    BY <1>1, <2>1, <2>3 DEF Sound, PinsFit
  <2>5. QED
    BY <2>1, <2>2, <2>4 DEF Line
<1>4. Clean(s.old)
  BY <1>1 DEF Sound
<1>5. ManifestNext(c) \subseteq Line
  BY <1>2, <1>3 DEF ManifestNext
<1>6. Digests(ManifestNext(c)) =
        Digests(s.old) \cup {s.pins[n] : n \in s.drafts}
  <2> DEFINE kept == {Followed(c, line) : line \in s.old}
             added == {[content |-> s.pins[n], name |-> n] : n \in s.drafts}
  <2>1. {l.content : l \in kept} = {l.content : l \in s.old}
    BY <1>2
  <2>2. {l.content : l \in added} = {s.pins[n] : n \in s.drafts}
    <3>1. ASSUME NEW n \in s.drafts
          PROVE  \E l \in added : l.content = s.pins[n]
      <4>1. [content |-> s.pins[n], name |-> n] \in added
        OBVIOUS
      <4>2. QED
        BY <4>1
    <3>2. ASSUME NEW l \in added
          PROVE  \E n \in s.drafts : l.content = s.pins[n]
      <4>1. PICK n \in s.drafts : l = [content |-> s.pins[n], name |-> n]
        BY <3>2
      <4>2. QED
        BY <4>1
    <3> HIDE DEF added
    <3>3. ASSUME NEW x \in {l.content : l \in added}
          PROVE  x \in {s.pins[n] : n \in s.drafts}
      <4>1. PICK l \in added : x = l.content
        OBVIOUS
      <4>2. PICK n \in s.drafts : l.content = s.pins[n]
        BY <3>2
      <4>3. QED
        BY <4>1, <4>2
    <3>4. ASSUME NEW x \in {s.pins[n] : n \in s.drafts}
          PROVE  x \in {l.content : l \in added}
      <4>1. PICK n \in s.drafts : x = s.pins[n]
        OBVIOUS
      <4>2. PICK l \in added : l.content = s.pins[n]
        BY <3>1
      <4>3. QED
        BY <4>1, <4>2
    <3>5. QED
      BY <3>3, <3>4
  <2>3. ManifestNext(c) = kept \cup added
    BY DEF ManifestNext
  <2>4. {l.content : l \in kept \cup added}
          = {l.content : l \in kept} \cup {l.content : l \in added}
    OBVIOUS
  <2>5. QED
    BY <2>1, <2>2, <2>3, <2>4 DEF Digests
<1>7. Clean(ManifestNext(c))
  BY <1>2, <1>3, <1>4 DEF ManifestNext, Clean
<1>8. QED
  BY <1>5, <1>6, <1>7

----------------------------------------------------------------------------
\* What a manifest holds while clean lines are written over it.
LEMMA PartsAreClean ==
  ASSUME NEW lines \in SUBSET Line, Clean(lines), NEW part \in Parts(lines)
  PROVE  part \subseteq Line \cup {CutLine} /\ Clean(part)
<1>1. CutLine.content \notin Unfilled
  BY ContentsAssumption DEF CutLine, Nothing
<1>2. part \subseteq lines \cup {CutLine}
  BY DEF Parts
<1>3. QED
  BY <1>1, <1>2 DEF Clean

LEMMA IInvInit == Init => IInv
<1>1. SUFFICES ASSUME Init PROVE IInv
  OBVIOUS
<1>2. Empty \in Outboxes /\ Clean(Empty.sent)
  BY DEF Empty, Outboxes, Clean
<1>3. Idle \in SendStates /\ Sound(Idle)
  BY IdleSound DEF Sound
<1>4. \A c \in Sends : cmds[c] = Idle
  BY <1>1 DEF Init
<1>5. \A c \in Sends : Undisturbed(c)
  BY <1>4 DEF Undisturbed, Looked, At, Idle
<1>6. QED
  BY <1>1, <1>2, <1>3, <1>4, <1>5 DEF Init, IInv

\* A step of c that leaves c sound, and others their index if they look at it.
LEMMA StepKeeps ==
  ASSUME IInv, NEW c \in Sends, NEW s, Sound(s),
         cmds' = [cmds EXCEPT ![c] = s],
         {tree', index', head'} \subseteq Outboxes, Clean(tree'.sent),
         outside' \in BOOLEAN, landed' \subseteq Contents,
         disturbed' \subseteq Sends,
         c \notin disturbed' =>
           /\ s.pc \notin {"idle", "checking", "checked"} => ~outside'
           /\ s.pc = "verified" =>
                index'.files = s.pins /\ index'.sent = s.new,
         \A d \in Looked \ {c} : d \notin disturbed' =>
           d \notin disturbed /\ index' = index /\ outside' = outside
  PROVE  IInv'
<1>1. s \in SendStates
  BY DEF Sound
<1>2. cmds' \in [Sends -> SendStates] /\ cmds'[c] = s
  BY <1>1 DEF IInv
<1>3. \A d \in Sends \ {c} : cmds'[d] = cmds[d]
  BY DEF IInv
<1>4. \A d \in Sends : Sound(cmds'[d])
  BY <1>2, <1>3 DEF IInv
<1>5. ASSUME NEW d \in Sends \ disturbed' PROVE Undisturbed(d)'
  <2>1. CASE d = c
    BY <1>2, <1>5, <2>1 DEF Undisturbed, Looked, At, Verified
  <2>2. CASE d # c
    <3>1. cmds'[d] = cmds[d]
      BY <1>3, <2>2
    <3>2. CASE d \in Looked
      <4>1. Undisturbed(d) /\ index' = index /\ outside' = outside
        BY <1>5, <2>2, <3>2 DEF IInv
      <4>2. QED
        BY <3>1, <4>1 DEF Undisturbed, Looked, At, Verified
    <3>3. CASE d \notin Looked
      BY <3>1, <3>3 DEF Undisturbed, Looked, At
    <3>4. QED
      BY <3>2, <3>3
  <2>3. QED
    BY <2>1, <2>2
<1>6. QED
  BY <1>2, <1>4, <1>5 DEF IInv

\* A send that ends, the files and the index left as they are.
LEMMA EndingKeeps ==
  ASSUME IInv, NEW c \in Sends, Refuse(c),
         UNCHANGED <<tree, git, landed, disturbed>>
  PROVE  IInv'
<1>1. /\ {tree', index', head'} \subseteq Outboxes /\ Clean(tree'.sent)
      /\ outside' \in BOOLEAN /\ landed' \subseteq Contents
      /\ disturbed' \subseteq Sends
  BY DEF IInv, git
<1>2. Idle.pc = "idle"
  BY DEF Idle
<1>3. QED
  BY <1>1, <1>2, StepKeeps, IdleSound DEF Refuse, git

\* A send that moves on, its check passed, the git state left as it is.
LEMMA MovingKeeps ==
  ASSUME IInv, NEW c \in Sends, NEW p \in Places \ {"verified"}, Goto(c, p),
         cmds[c].pc \notin {"idle", "checking", "checked"},
         UNCHANGED <<git, landed, disturbed>>,
         tree' \in Outboxes, Clean(tree'.sent)
  PROVE  IInv'
<1> DEFINE s == [cmds[c] EXCEPT !.pc = p]
<1>1. Sound(cmds[c]) /\ Lists(cmds[c])
  BY DEF IInv, Sound
<1>2. Sound(s)
  BY <1>1, MovesOn
<1>3. s.pc = p
  BY <1>1 DEF Sound, SendStates
<1>4. cmds' = [cmds EXCEPT ![c] = s]
  BY DEF Goto
<1>5. /\ {tree', index', head'} \subseteq Outboxes
      /\ outside' \in BOOLEAN /\ landed' \subseteq Contents
      /\ disturbed' \subseteq Sends
  BY DEF IInv, git
<1>6. c \notin disturbed' => ~outside'
  BY DEF IInv, Undisturbed, Looked, git
<1> HIDE DEF s
<1>7. QED
  BY <1>2, <1>3, <1>4, <1>5, <1>6, StepKeeps DEF git

\* What others do leaves every send that looks at the index disturbed.
LEMMA OthersKeep ==
  ASSUME IInv, cmds' = cmds, UNCHANGED landed,
         {tree', index', head'} \subseteq Outboxes, Clean(tree'.sent),
         outside' \in BOOLEAN,
         \/ UNCHANGED <<git, disturbed>>
         \/ disturbed' = disturbed \cup Looked
  PROVE  IInv'
<1>1. disturbed' \subseteq Sends
  BY DEF IInv, Looked
<1>2. ASSUME NEW d \in Sends \ disturbed' PROVE Undisturbed(d)'
  <2>1. Undisturbed(d)
    BY <1>2 DEF IInv
  <2>2. CASE d \in Looked
    BY <1>2, <2>1, <2>2 DEF Undisturbed, Looked, At, Verified, git
  <2>3. CASE d \notin Looked
    BY <2>3 DEF Undisturbed, Looked, At
  <2>4. QED
    BY <2>2, <2>3
<1>3. QED
  BY <1>1, <1>2 DEF IInv

LEMMA IInvNext == IInv /\ [Next]_vars => IInv'
<1> SUFFICES ASSUME IInv, [Next]_vars PROVE IInv'
  OBVIOUS
<1> USE DEF git, others
<1>1. ASSUME NEW c \in Sends, NEW given \in BOOLEAN, Start(c, given)
      PROVE  IInv'
  <2> DEFINE s == [Idle EXCEPT !.pc = "checking", !.old = tree.sent,
                               !.listed = Present(tree.files),
                               !.unread = Present(tree.files),
                               !.skip = Skip(given)]
  <2>1. /\ tree.sent \subseteq Line
        /\ Present(tree.files) \subseteq Names
    BY <1>1 DEF IInv, Outboxes, Present, Start
  <2>2. Skip(given) \subseteq Contents \cap (Digests(tree.sent) \cup Claimed)
    BY <2>1, ContentsAssumption DEF Skip, Digests, Line
  <2>3. /\ s \in SendStates /\ s.pc = "checking"
        /\ s.old = tree.sent /\ s.new = {} /\ s.pins = Empty.files
        /\ s.drafts = {} /\ s.skip = Skip(given) /\ s.unread = s.listed
    BY <2>1, <2>2, IdleSound DEF Idle, Sound, SendStates, Places
  <2>4. Present(s.pins) = {}
    BY <2>3 DEF Present, Empty
  <2>5. Sound(s)
    BY <2>2, <2>3, <2>4 DEF Sound, PinsFit, IInv, Clean
  <2>6. cmds' = [cmds EXCEPT ![c] = s]
    BY <1>1 DEF Start
  <2> HIDE DEF s
  <2>7. /\ {tree', index', head'} \subseteq Outboxes /\ Clean(tree'.sent)
        /\ outside' \in BOOLEAN /\ landed' \subseteq Contents
        /\ disturbed' \subseteq Sends
    BY <1>1 DEF Start, IInv
  <2>8. \A d \in Looked \ {c} : d \notin disturbed' =>
          d \notin disturbed /\ index' = index /\ outside' = outside
    BY <1>1 DEF Start
  <2>9. QED
    BY <2>3, <2>5, <2>6, <2>7, <2>8, StepKeeps
<1>2. ASSUME NEW c \in Sends, NEW n \in Names, ReadEntry(c, n)
      PROVE  IInv'
  <2> DEFINE x == tree.files[n]
             s == [cmds[c] EXCEPT
                     !.unread = @ \ {n}, !.pins[n] = x,
                     !.drafts = IF x \in cmds[c].skip THEN @ ELSE @ \cup {n}]
  <2>1. CASE ~Fit(c, x)
    BY <1>2, <2>1, EndingKeeps DEF ReadEntry
  <2>2. CASE Fit(c, x)
    <3>1. cmds' = [cmds EXCEPT ![c] = s]
      BY <1>2, <2>2 DEF ReadEntry
    <3>2. Sound(cmds[c]) /\ cmds[c] \in SendStates
      BY DEF IInv, Sound
    <3>3. x \in Contents \cup {Nothing}
      BY DEF IInv, Outboxes
    <3>4. cmds[c].pins \in [Names -> Contents \cup {Nothing}]
      BY <3>2 DEF SendStates
    <3>5. /\ s \in SendStates
          /\ s.pc = cmds[c].pc /\ s.old = cmds[c].old /\ s.new = cmds[c].new
          /\ s.listed = cmds[c].listed /\ s.skip = cmds[c].skip
          /\ s.unread = cmds[c].unread \ {n}
          /\ s.pins = [cmds[c].pins EXCEPT ![n] = x]
          /\ s.drafts = IF x \in cmds[c].skip THEN cmds[c].drafts
                                               ELSE cmds[c].drafts \cup {n}
      BY <3>2, <3>3 DEF SendStates
    <3> HIDE DEF s
    <3>6. Present(s.pins) = Present(cmds[c].pins) \cup {n}
      BY <2>2, <3>4, <3>5 DEF Present, Fit
    <3>7. n \in cmds[c].unread /\ cmds[c].pc = "checking"
      BY <1>2 DEF ReadEntry, At
    <3>8. n \in cmds[c].listed /\ n \notin cmds[c].drafts
      BY <3>2, <3>7 DEF Sound
    <3>9. PinsFit(s)
      <4>1. ASSUME NEW m \in Present(cmds[c].pins), m # n
            PROVE  /\ s.pins[m] = cmds[c].pins[m]
                   /\ m \in s.drafts <=> m \in cmds[c].drafts
        BY <3>4, <3>5, <4>1 DEF Present
      <4>2. s.pins[n] = x /\ (n \in s.drafts <=> x \notin s.skip)
        BY <3>4, <3>5, <3>8
      <4>3. PinsFit(cmds[c])
        BY <3>2 DEF Sound
      <4>4. QED
        BY <2>2, <3>5, <3>6, <4>1, <4>2, <4>3 DEF PinsFit, Fit
    <3>10. Sound(s)
      BY <3>2, <3>5, <3>6, <3>7, <3>8, <3>9 DEF Sound
    <3>11. /\ {tree', index', head'} \subseteq Outboxes /\ Clean(tree'.sent)
           /\ outside' \in BOOLEAN /\ landed' \subseteq Contents
           /\ disturbed' \subseteq Sends
      BY <1>2 DEF ReadEntry, IInv
    <3>12. QED
      BY <1>2, <3>1, <3>5, <3>7, <3>10, <3>11, StepKeeps DEF ReadEntry
  <2>3. QED
    BY <2>1, <2>2
<1>3. ASSUME NEW c \in Sends, CheckPasses(c) PROVE IInv'
  <2> DEFINE s == [cmds[c] EXCEPT !.pc = "checked", !.new = ManifestNext(c)]
  <2>1. Sound(cmds[c]) /\ cmds[c] \in SendStates
    BY DEF IInv, Sound
  <2>2. /\ ManifestNext(c) \subseteq Line /\ Clean(ManifestNext(c))
        /\ Digests(ManifestNext(c)) =
             Digests(cmds[c].old) \cup {cmds[c].pins[n] : n \in cmds[c].drafts}
    BY NextManifest
  <2>3. /\ s \in SendStates
        /\ s.pc = "checked" /\ s.old = cmds[c].old /\ s.new = ManifestNext(c)
        /\ s.listed = cmds[c].listed /\ s.unread = cmds[c].unread
        /\ s.pins = cmds[c].pins /\ s.drafts = cmds[c].drafts
        /\ s.skip = cmds[c].skip
    BY <2>1, <2>2 DEF SendStates, Places
  <2>4. cmds' = [cmds EXCEPT ![c] = s]
    BY <1>3 DEF CheckPasses
  <2> HIDE DEF s
  <2>5. Lists(s)
    BY <2>2, <2>3 DEF Lists
  <2>6. PinsFit(s)
    BY <2>1, <2>3 DEF Sound, PinsFit
  <2>7. Sound(s)
    BY <2>1, <2>2, <2>3, <2>5, <2>6 DEF Sound
  <2>8. /\ {tree', index', head'} \subseteq Outboxes /\ Clean(tree'.sent)
        /\ outside' \in BOOLEAN /\ landed' \subseteq Contents
        /\ disturbed' \subseteq Sends
    BY <1>3 DEF CheckPasses, IInv
  <2>9. QED
    BY <1>3, <2>3, <2>4, <2>7, <2>8, StepKeeps DEF CheckPasses
<1>4. ASSUME NEW c \in Sends, LookOutside(c) PROVE IInv'
  <2>1. CASE outside
    BY <1>4, <2>1, EndingKeeps DEF LookOutside
  <2>2. CASE ~outside
    <3> DEFINE s == [cmds[c] EXCEPT !.pc = "looked", !.found = index]
    <3>1. Sound(cmds[c]) /\ cmds[c] \in SendStates /\ Lists(cmds[c])
      BY <1>4 DEF IInv, Sound, LookOutside, At
    <3>2. /\ s \in SendStates
          /\ s.pc = "looked" /\ s.old = cmds[c].old /\ s.new = cmds[c].new
          /\ s.listed = cmds[c].listed /\ s.unread = cmds[c].unread
          /\ s.pins = cmds[c].pins /\ s.drafts = cmds[c].drafts
          /\ s.skip = cmds[c].skip
      BY <3>1 DEF SendStates, Places, IInv
    <3>3. cmds' = [cmds EXCEPT ![c] = s]
      BY <1>4, <2>2 DEF LookOutside
    <3> HIDE DEF s
    <3>4. PinsFit(s) /\ Lists(s)
      BY <3>1, <3>2 DEF Sound, PinsFit, Lists
    <3>5. Sound(s)
      BY <3>1, <3>2, <3>4 DEF Sound
    <3>6. /\ {tree', index', head'} \subseteq Outboxes /\ Clean(tree'.sent)
          /\ outside' \in BOOLEAN /\ landed' \subseteq Contents
          /\ disturbed' \subseteq Sends
      BY <1>4 DEF LookOutside, IInv
    <3>7. QED
      BY <1>4, <2>2, <3>2, <3>3, <3>5, <3>6, StepKeeps DEF LookOutside
  <2>3. QED
    BY <2>1, <2>2
<1>5. ASSUME NEW c \in Sends, RecordIndex(c) PROVE IInv'
  <2> DEFINE s == [cmds[c] EXCEPT !.pc = "recorded", !.records = index]
  <2>1. /\ Sound(cmds[c]) /\ cmds[c] \in SendStates /\ Lists(cmds[c])
        /\ c \in Looked
    BY <1>5 DEF IInv, Sound, RecordIndex, At, Looked
  <2>2. /\ s \in SendStates
        /\ s.pc = "recorded" /\ s.old = cmds[c].old /\ s.new = cmds[c].new
        /\ s.listed = cmds[c].listed /\ s.unread = cmds[c].unread
        /\ s.pins = cmds[c].pins /\ s.drafts = cmds[c].drafts
        /\ s.skip = cmds[c].skip
    BY <2>1 DEF SendStates, Places, IInv
  <2>3. cmds' = [cmds EXCEPT ![c] = s]
    BY <1>5 DEF RecordIndex
  <2> HIDE DEF s
  <2>4. PinsFit(s) /\ Lists(s)
    BY <2>1, <2>2 DEF Sound, PinsFit, Lists
  <2>5. Sound(s)
    BY <2>1, <2>2, <2>4 DEF Sound
  <2>6. /\ {tree', index', head'} \subseteq Outboxes /\ Clean(tree'.sent)
        /\ outside' \in BOOLEAN /\ landed' \subseteq Contents
        /\ disturbed' \subseteq Sends
    BY <1>5 DEF RecordIndex, IInv
  <2>7. c \notin disturbed' => ~outside'
    BY <1>5, <2>1 DEF RecordIndex, IInv, Undisturbed
  <2>8. QED
    BY <1>5, <2>2, <2>3, <2>5, <2>6, <2>7, StepKeeps DEF RecordIndex
<1>6. ASSUME NEW c \in Sends, OpenManifest(c) \/ WriteManifest(c) PROVE IInv'
  <2>1. /\ Sound(cmds[c]) /\ cmds[c] \in SendStates
        /\ tree \in Outboxes /\ Clean(tree.sent)
    BY DEF IInv, Sound
  <2>2. /\ Clean(cmds[c].old) /\ cmds[c].old \subseteq Line
        /\ Clean(cmds[c].new) /\ cmds[c].new \subseteq Line
    BY <2>1 DEF Sound, SendStates
  <2>3. CASE OpenManifest(c)
    <3>1. PICK part, p :
            /\ part \in Parts(cmds[c].new) \/ part \in Parts(cmds[c].old)
            /\ tree' = [tree EXCEPT !.sent = part]
            /\ p \in {"writing", "restoring"} /\ Goto(c, p)
      BY <2>3 DEF OpenManifest
    <3>2. part \subseteq Line \cup {CutLine} /\ Clean(part)
      BY <2>2, <3>1, PartsAreClean
    <3>3. tree' \in Outboxes /\ Clean(tree'.sent)
      BY <2>1, <3>1, <3>2 DEF Outboxes
    <3>4. /\ cmds[c].pc \in {"recorded", "unstaged"}
          /\ UNCHANGED <<git, landed, disturbed>>
      BY <2>3 DEF OpenManifest, At
    <3>5. p \in Places \ {"verified"}
      BY <3>1 DEF Places
    <3>6. QED
      BY <3>1, <3>3, <3>4, <3>5, MovingKeeps
  <2>4. CASE WriteManifest(c)
    <3>1. tree' = tree \/ tree' = [tree EXCEPT !.sent = cmds[c].new]
      BY <2>4 DEF WriteManifest
    <3>2. tree' \in Outboxes /\ Clean(tree'.sent)
      BY <2>1, <2>2, <3>1 DEF Outboxes
    <3>3. Goto(c, "written") /\ cmds[c].pc \in {"recorded", "writing"}
          /\ UNCHANGED <<git, landed, disturbed>>
      BY <2>4 DEF WriteManifest, At
    <3>4. "written" \in Places \ {"verified"}
      BY DEF Places
    <3>5. QED
      BY <3>2, <3>3, <3>4, MovingKeeps
  <2>5. QED
    BY <1>6, <2>3, <2>4
<1>7. ASSUME NEW c \in Sends, StageOutbox(c) PROVE IInv'
  <2> DEFINE s == [cmds[c] EXCEPT !.pc = "staged"]
  <2>1. Sound(cmds[c]) /\ Lists(cmds[c]) /\ c \in Looked
    BY <1>7 DEF IInv, Sound, StageOutbox, At, Looked
  <2>2. "staged" \in Places
    BY DEF Places
  <2>3. Sound(s) /\ s.pc = "staged"
    BY <2>1, <2>2, MovesOn DEF Sound, SendStates
  <2>4. cmds' = [cmds EXCEPT ![c] = s]
    BY <1>7 DEF StageOutbox, Goto
  <2> HIDE DEF s
  <2>5. /\ {tree', index', head'} \subseteq Outboxes /\ Clean(tree'.sent)
        /\ outside' \in BOOLEAN /\ landed' \subseteq Contents
        /\ disturbed' \subseteq Sends
    BY <1>7 DEF StageOutbox, IInv, Disturbs, Looked
  <2>6. c \notin disturbed' => ~outside'
    BY <1>7, <2>1 DEF StageOutbox, Disturbs, IInv, Undisturbed
  <2>7. Looked \ {c} \subseteq disturbed'
    BY <1>7 DEF StageOutbox, Disturbs
  <2>8. QED
    BY <2>3, <2>4, <2>5, <2>6, <2>7, StepKeeps
<1>8. ASSUME NEW c \in Sends, LookForBatch(c) PROVE IInv'
  <2>1. /\ Goto(c, "batched") /\ cmds[c].pc = "staged"
        /\ UNCHANGED <<git, landed, disturbed>> /\ tree' = tree
    BY <1>8 DEF LookForBatch, At
  <2>2. "batched" \in Places \ {"verified"}
    BY DEF Places
  <2>3. tree' \in Outboxes /\ Clean(tree'.sent)
    BY <2>1 DEF IInv
  <2>4. QED
    BY <2>1, <2>2, <2>3, MovingKeeps
<1>9. ASSUME NEW c \in Sends, Verify(c) PROVE IInv'
  <2> DEFINE s == [cmds[c] EXCEPT !.pc = "verified"]
  <2>1. Sound(cmds[c]) /\ Lists(cmds[c]) /\ c \in Looked
    BY <1>9 DEF IInv, Sound, Verify, At, Looked
  <2>2. "verified" \in Places
    BY DEF Places
  <2>3. /\ Sound(s) /\ s.pc = "verified"
        /\ s.pins = cmds[c].pins /\ s.new = cmds[c].new
    BY <2>1, <2>2, MovesOn DEF Sound, SendStates
  <2>4. cmds' = [cmds EXCEPT ![c] = s]
    BY <1>9 DEF Verify, Goto
  <2> HIDE DEF s
  <2>5. /\ {tree', index', head'} \subseteq Outboxes /\ Clean(tree'.sent)
        /\ outside' \in BOOLEAN /\ landed' \subseteq Contents
        /\ disturbed' \subseteq Sends
    BY <1>9 DEF Verify, IInv
  <2>6. index'.files = s.pins /\ index'.sent = s.new
    BY <1>9, <2>3 DEF Verify, Verified
  <2>7. c \notin disturbed' => ~outside'
    BY <1>9, <2>1 DEF Verify, IInv, Undisturbed
  <2>8. QED
    BY <1>9, <2>3, <2>4, <2>5, <2>6, <2>7, StepKeeps DEF Verify
<1>10. ASSUME NEW c \in Sends, Commit(c) PROVE IInv'
  <2>1. Sound(cmds[c]) /\ cmds[c] \in SendStates
    BY DEF IInv, Sound
  <2>2. {cmds[c].pins[n] : n \in cmds[c].drafts} \subseteq Contents
    BY <2>1 DEF Sound, SendStates, Present
  <2>3. /\ {tree', index', head'} \subseteq Outboxes /\ Clean(tree'.sent)
        /\ outside' = FALSE /\ landed' \subseteq Contents
        /\ disturbed' \subseteq Sends
    BY <1>10, <2>2 DEF Commit, IInv, Disturbs, Looked
  <2>4. Looked \ {c} \subseteq disturbed'
    BY <1>10 DEF Commit, Disturbs
  <2>5. cmds' = [cmds EXCEPT ![c] = Idle] /\ Idle.pc = "idle"
    BY <1>10 DEF Commit, Idle
  <2>6. QED
    BY <2>3, <2>4, <2>5, IdleSound, StepKeeps
<1>11. ASSUME NEW c \in Sends, Fail(c) PROVE IInv'
  <2>1. CASE cmds[c].pc \in {"checked", "looked"}
    BY <1>11, <2>1, EndingKeeps DEF Fail
  <2>2. CASE cmds[c].pc \notin {"checked", "looked"}
    <3>1. /\ Goto(c, "refusing")
          /\ cmds[c].pc \notin {"idle", "checking", "checked"}
          /\ UNCHANGED <<git, landed, disturbed>> /\ tree' = tree
      BY <1>11, <2>2 DEF Fail
    <3>2. "refusing" \in Places \ {"verified"}
      BY DEF Places
    <3>3. tree' \in Outboxes /\ Clean(tree'.sent)
      BY <3>1 DEF IInv
    <3>4. QED
      BY <3>1, <3>2, <3>3, MovingKeeps
  <2>3. QED
    BY <2>1, <2>2
<1>12. ASSUME NEW c \in Sends, RestoreIndex(c) PROVE IInv'
  <2> DEFINE s == [cmds[c] EXCEPT !.pc = "unstaged"]
  <2>1. /\ Sound(cmds[c]) /\ Lists(cmds[c]) /\ c \in Looked
        /\ cmds[c].records \in Outboxes
    BY <1>12 DEF IInv, Sound, RestoreIndex, At, Looked, SendStates
  <2>2. "unstaged" \in Places
    BY DEF Places
  <2>3. Sound(s) /\ s.pc = "unstaged"
    BY <2>1, <2>2, MovesOn DEF Sound, SendStates
  <2>4. cmds' = [cmds EXCEPT ![c] = s]
    BY <1>12 DEF RestoreIndex, Goto
  <2> HIDE DEF s
  <2>5. /\ {tree', index', head'} \subseteq Outboxes /\ Clean(tree'.sent)
        /\ outside' \in BOOLEAN /\ landed' \subseteq Contents
        /\ disturbed' \subseteq Sends
    BY <1>12, <2>1 DEF RestoreIndex, Restored, IInv, Disturbs, Looked
  <2>6. c \notin disturbed' => ~outside'
    BY <1>12, <2>1 DEF RestoreIndex, Disturbs, IInv, Undisturbed
  <2>7. Looked \ {c} \subseteq disturbed'
    BY <1>12 DEF RestoreIndex, Disturbs
  <2>8. QED
    BY <2>3, <2>4, <2>5, <2>6, <2>7, StepKeeps
<1>13. ASSUME NEW c \in Sends, RestoreManifest(c) PROVE IInv'
  <2>1. /\ Sound(cmds[c]) /\ cmds[c] \in SendStates /\ tree \in Outboxes
        /\ {index, head} \subseteq Outboxes /\ outside \in BOOLEAN
        /\ landed \subseteq Contents /\ disturbed \subseteq Sends
    BY DEF IInv, Sound
  <2>2. tree' \in Outboxes /\ Clean(tree'.sent)
    BY <1>13, <2>1 DEF RestoreManifest, Outboxes, SendStates, Sound
  <2>3. /\ cmds' = [cmds EXCEPT ![c] = Idle] /\ Idle.pc = "idle"
        /\ UNCHANGED <<git, landed, disturbed>>
    BY <1>13 DEF RestoreManifest, Refuse, Idle
  <2>4. QED
    BY <2>1, <2>2, <2>3, IdleSound, StepKeeps
<1>14. ASSUME NEW c \in Sends, RestoreFails(c) PROVE IInv'
  <2>1. CASE At(c, "refusing")
    <3>1. /\ Goto(c, "unstaged") /\ cmds[c].pc = "refusing"
          /\ UNCHANGED <<git, landed, disturbed>> /\ tree' = tree
      BY <1>14, <2>1 DEF RestoreFails, At
    <3>2. "unstaged" \in Places \ {"verified"}
      BY DEF Places
    <3>3. tree' \in Outboxes /\ Clean(tree'.sent)
      BY <3>1 DEF IInv
    <3>4. QED
      BY <3>1, <3>2, <3>3, MovingKeeps
  <2>2. CASE ~At(c, "refusing")
    BY <1>14, <2>2, EndingKeeps DEF RestoreFails
  <2>3. QED
    BY <2>1, <2>2
<1>15. ASSUME NEW c \in Sends, Killed(c) PROVE IInv'
  BY <1>15, EndingKeeps DEF Killed
<1>16. ASSUME NEW n \in Names, NEW x \in Contents \cup {Nothing}, Edit(n, x)
       PROVE  IInv'
  <2>1. /\ tree \in Outboxes /\ {index, head} \subseteq Outboxes
        /\ outside \in BOOLEAN /\ Clean(tree.sent)
    BY DEF IInv
  <2>2. tree' \in Outboxes /\ tree'.sent = tree.sent
    BY <1>16, <2>1 DEF Edit, Outboxes
  <2>3. UNCHANGED <<cmds, landed, git, disturbed>>
    BY <1>16 DEF Edit, Edited
  <2>4. QED
    BY <2>1, <2>2, <2>3, OthersKeep
<1>17. ASSUME NEW m \in Names, NEW n \in Names, Rename(m, n) PROVE IInv'
  <2>1. /\ tree \in Outboxes /\ {index, head} \subseteq Outboxes
        /\ outside \in BOOLEAN /\ Clean(tree.sent)
    BY DEF IInv
  <2>2. tree' \in Outboxes /\ tree'.sent = tree.sent
    BY <1>17, <2>1 DEF Rename, Outboxes
  <2>3. UNCHANGED <<cmds, landed, git, disturbed>>
    BY <1>17 DEF Rename, Edited
  <2>4. QED
    BY <2>1, <2>2, <2>3, OthersKeep
<1>18. ASSUME \/ \E n \in Names : StageFile(n)
              \/ StageOutside
              \/ CommitStaged
       PROVE  IInv'
  <2>1. /\ tree \in Outboxes /\ {index, head} \subseteq Outboxes
        /\ outside \in BOOLEAN /\ Clean(tree.sent)
    BY DEF IInv
  <2>2. /\ {tree', index', head'} \subseteq Outboxes /\ tree' = tree
        /\ outside' \in BOOLEAN
    <3>1. CASE \E n \in Names : StageFile(n)
      <4>1. PICK n \in Names : StageFile(n)
        BY <3>1
      <4>2. /\ index' = [index EXCEPT !.files[n] = tree.files[n]]
            /\ UNCHANGED <<tree, outside, head>>
        BY <4>1 DEF StageFile
      <4>3. index' \in Outboxes
        BY <2>1, <4>2 DEF Outboxes
      <4>4. QED
        BY <2>1, <4>2, <4>3
    <3>2. CASE StageOutside \/ CommitStaged
      BY <2>1, <3>2 DEF StageOutside, CommitStaged
    <3>3. QED
      BY <1>18, <3>1, <3>2
  <2>3. /\ cmds' = cmds /\ UNCHANGED landed
        /\ disturbed' = disturbed \cup Looked
    BY <1>18 DEF StageFile, StageOutside, CommitStaged, Edited
  <2>4. QED
    BY <2>1, <2>2, <2>3, OthersKeep
<1>19. CASE UNCHANGED vars
  BY <1>19 DEF vars, IInv, Undisturbed, Looked, At, Verified
<1>20. QED
  BY <1>1, <1>2, <1>3, <1>4, <1>5, <1>6, <1>7, <1>8, <1>9, <1>10, <1>11,
     <1>12, <1>13, <1>14, <1>15, <1>16, <1>17, <1>18, <1>19 DEF Next

\* In every state the outbox, the index and HEAD hold contents and lines,
\* a file is a draft only if it is pinned, and pinned only if it is listed.
THEOREM TypeCorrect == Spec => []TypeOK
<1>1. IInv => TypeOK
  <2>1. SUFFICES ASSUME IInv PROVE TypeOK
    OBVIOUS
  <2>2. ASSUME NEW c \in Sends
        PROVE  /\ {cmds[c].records, cmds[c].found} \subseteq Outboxes
               /\ cmds[c].old \cup cmds[c].new \subseteq Line
               /\ cmds[c].drafts \subseteq Present(cmds[c].pins)
               /\ Present(cmds[c].pins) \subseteq cmds[c].listed
    <3>1. Sound(cmds[c]) /\ cmds[c] \in SendStates
      BY <2>1 DEF IInv, Sound
    <3>2. QED
      BY <3>1 DEF Sound, SendStates
  <2>3. QED
    BY <2>1, <2>2 DEF IInv, TypeOK
<1>2. QED
  BY <1>1, IInvInit, IInvNext, PTL DEF Spec

\* A send ends from its verified place with a new HEAD only by its commit,
\* and what it commits is what it verified.
LEMMA CommitsWhatItVerified ==
  ASSUME IInv, Next, NEW c \in Sends \ disturbed, Commits(c)
  PROVE  /\ ~outside
         /\ head'.files = cmds[c].pins
         /\ head'.sent = cmds[c].new
<1>1. /\ cmds[c].pc = "verified" /\ cmds'[c].pc = "idle" /\ head' # head
      /\ cmds \in [Sends -> SendStates]
  BY DEF Commits, At, IInv
<1>2. ~outside /\ Verified(c)
  BY <1>1 DEF IInv, Undisturbed, Looked, At
<1>3. \A d \in Sends :
        /\ \A given \in BOOLEAN : Start(d, given) => head' = head
        /\ \A n \in Names : ReadEntry(d, n) => head' = head
        /\ CheckPasses(d) \/ LookOutside(d) \/ RecordIndex(d) => head' = head
  BY DEF Start, ReadEntry, CheckPasses, LookOutside, RecordIndex, git
<1>4. \A d \in Sends :
        /\ OpenManifest(d) \/ WriteManifest(d) => head' = head
        /\ StageOutbox(d) \/ LookForBatch(d) => head' = head
        /\ Verify(d) \/ Fail(d) => head' = head
  BY DEF OpenManifest, WriteManifest, StageOutbox, LookForBatch, Verify, Fail,
    git
<1>5. \A d \in Sends :
        /\ RestoreIndex(d) \/ RestoreManifest(d) => head' = head
        /\ RestoreFails(d) \/ Killed(d) => head' = head
  BY DEF RestoreIndex, RestoreManifest, RestoreFails, Killed, git
<1>6. /\ \A n \in Names : StageFile(n) => head' = head
      /\ \A n \in Names, x \in Contents \cup {Nothing} :
           Edit(n, x) => head' = head
      /\ \A m, n \in Names : Rename(m, n) => head' = head
      /\ StageOutside => head' = head
  BY DEF StageFile, Edit, Rename, StageOutside, git
<1>7. /\ \A d \in Sends : Commit(d) => head' = index
      /\ CommitStaged => head' = index
  BY DEF Commit, CommitStaged
<1>8. head' = index
  BY <1>1, <1>3, <1>4, <1>5, <1>6, <1>7 DEF Next
<1>9. QED
  BY <1>2, <1>8 DEF Verified

\* Whatever becomes of the files during a send, what it commits holds no
\* leak, no unfilled draft that upstream has not claimed, nothing staged
\* elsewhere and no file the manifest misses, unless somebody else staged.
THEOREM CheckedFilesOnly == Spec => OnlyCheckedFilesAreSent
<1> DEFINE A == \A c \in Sends \ disturbed : Commits(c) =>
       /\ ~outside
       /\ \A n \in Present(head'.files) :
            LET x == head'.files[n]
            IN /\ x \notin Leaks
               /\ x \in Digests(head'.sent) \cup Claimed
               /\ x \in Unfilled => x \in Claimed
<1>1. IInv /\ [Next]_vars => [A]_vars
  <2>1. SUFFICES ASSUME IInv, Next, NEW c \in Sends \ disturbed, Commits(c)
                 PROVE  /\ ~outside
                        /\ \A n \in Present(head'.files) :
                             LET x == head'.files[n]
                             IN /\ x \notin Leaks
                                /\ x \in Digests(head'.sent) \cup Claimed
                                /\ x \in Unfilled => x \in Claimed
    OBVIOUS
  <2>2. /\ ~outside
        /\ head'.files = cmds[c].pins
        /\ head'.sent = cmds[c].new
    BY <2>1, CommitsWhatItVerified
  <2>3. /\ Sound(cmds[c]) /\ Lists(cmds[c]) /\ PinsFit(cmds[c])
    BY <2>1 DEF IInv, Sound, Commits, At
  <2>4. ASSUME NEW n \in Present(cmds[c].pins)
        PROVE  LET x == cmds[c].pins[n]
               IN /\ x \notin Leaks
                  /\ x \in Digests(cmds[c].new) \cup Claimed
                  /\ x \in Unfilled => x \in Claimed
    <3> DEFINE x == cmds[c].pins[n]
    <3>1. x \notin Leaks /\ (x \in Unfilled => x \in cmds[c].skip)
      BY <2>3 DEF PinsFit
    <3>2. CASE x \in cmds[c].skip
      <4>1. x \in Digests(cmds[c].old) \cup Claimed
        BY <2>3, <3>2 DEF Sound
      <4>2. x \in Digests(cmds[c].old) /\ x \in Unfilled => x \in Claimed
        BY <2>3 DEF Sound, Clean, Digests
      <4>3. Digests(cmds[c].old) \subseteq Digests(cmds[c].new)
        BY <2>3 DEF Lists
      <4>4. QED
        BY <3>1, <4>1, <4>2, <4>3
    <3>3. CASE x \notin cmds[c].skip
      <4>1. n \in cmds[c].drafts
        BY <2>3, <3>3 DEF PinsFit
      <4>2. x \in Digests(cmds[c].new)
        BY <2>3, <4>1 DEF Lists
      <4>3. QED
        BY <3>1, <3>3, <4>2
    <3>4. QED
      BY <3>2, <3>3
  <2>5. QED
    BY <2>2, <2>4
<1>2. QED
  BY <1>1, IInvInit, IInvNext, PTL DEF Spec, OnlyCheckedFilesAreSent

----------------------------------------------------------------------------
(***************************************************************************)
(* Sends that never overlapped, nor left the manifest short.  What one of  *)
(* them knows of the manifest in the tree and of the contents that have    *)
(* gone: nothing has gone that the manifest it found does not list, and    *)
(* the tree holds that manifest before it writes, and the next one after.  *)
(***************************************************************************)
BeforeWriting == {"checking", "checked", "looked", "recorded"}
AfterWriting == {"written", "staged", "batched", "verified"}
WayBack == {"unstaged", "restoring"}
Knows(s, sent, gone) ==
  /\ gone \subseteq Digests(s.old)
  /\ Digests(s.old) \subseteq s.skip
  /\ s.pc \in BeforeWriting => sent = s.old
  /\ s.pc \in AfterWriting => sent = s.new

\* What it will put back is the index as it was at the first look.
AsFound(s, staged) ==
  /\ s.pc \in {"looked"} \cup WayBack => staged = s.found
  /\ s.pc \in AfterWriting \cup {"recorded", "writing", "refusing"} =>
       s.records = s.found

Flags == /\ overlapped \in BOOLEAN /\ marred \in BOOLEAN /\ short \in BOOLEAN
         /\ short => marred
Lone == ~overlapped /\ ~short

LoneInv ==
  /\ Flags
  /\ Lone =>
       /\ \A c, d \in InFlight : c = d
       /\ InFlight = {} => landed \subseteq Digests(tree.sent)
       /\ \A c \in InFlight : Knows(cmds[c], tree.sent, landed)
       /\ ~marred =>
            \A c \in InFlight \ disturbed : AsFound(cmds[c], index)

LEMMA LoneInvInit == Init => LoneInv
<1>1. SUFFICES ASSUME Init PROVE LoneInv
  OBVIOUS
<1>2. InFlight = {} /\ landed = {}
  BY <1>1 DEF Init, InFlight, At, Idle
<1>3. QED
  BY <1>1, <1>2 DEF Init, LoneInv, Flags

\* A step that touches no history flag.
LEMMA FlagsStay ==
  ASSUME LoneInv, UNCHANGED <<overlapped, harm>>
  PROVE  Flags' /\ Lone' = Lone
BY DEF LoneInv, Flags, Lone, harm

\* A lone send that moves on.
LEMMA LoneMoves ==
  ASSUME IInv, LoneInv, NEW c \in InFlight, NEW s, s.pc # "idle",
         cmds' = [cmds EXCEPT ![c] = s],
         Flags', Lone' => Lone,
         Lone' => Knows(s, tree'.sent, landed'),
         Lone' /\ ~marred' /\ c \notin disturbed' => AsFound(s, index')
  PROVE  LoneInv'
<1>1. c \in Sends /\ cmds'[c] = s
  BY DEF InFlight, IInv
<1>2. ASSUME NEW d \in Sends, d # c PROVE cmds'[d] = cmds[d]
  BY <1>1, <1>2 DEF IInv
<1>3. InFlight' = InFlight
  BY <1>1, <1>2 DEF InFlight, At
<1>4. CASE ~Lone'
  BY <1>4 DEF LoneInv
<1>5. CASE Lone'
  <2>1. InFlight = {c}
    BY <1>5 DEF LoneInv
  <2>2. QED
    BY <1>1, <1>3, <1>5, <2>1 DEF LoneInv
<1>6. QED
  BY <1>4, <1>5

\* A lone send that ends.
LEMMA LoneEnds ==
  ASSUME IInv, LoneInv, NEW c \in InFlight, Refuse(c),
         Flags', Lone' => Lone,
         Lone' => landed' \subseteq Digests(tree'.sent)
  PROVE  LoneInv'
<1>1. c \in Sends /\ cmds'[c].pc = "idle"
  BY DEF InFlight, IInv, Refuse, Idle
<1>2. ASSUME NEW d \in Sends, d # c PROVE cmds'[d] = cmds[d]
  BY <1>1, <1>2 DEF IInv, Refuse
<1>3. InFlight' = InFlight \ {c}
  BY <1>1, <1>2 DEF InFlight, At
<1>4. CASE ~Lone'
  BY <1>4 DEF LoneInv
<1>5. CASE Lone'
  <2>1. InFlight' = {}
    BY <1>3, <1>5 DEF LoneInv
  <2>2. QED
    BY <1>5, <2>1 DEF LoneInv
<1>6. QED
  BY <1>4, <1>5

\* A lone send that is refused before it writes.
LEMMA LoneStops ==
  ASSUME IInv, LoneInv, NEW c \in InFlight, Refuse(c),
         cmds[c].pc \in BeforeWriting,
         UNCHANGED <<tree, landed, overlapped, harm>>
  PROVE  LoneInv'
<1>1. Flags' /\ Lone' = Lone
  BY FlagsStay
<1>2. ASSUME Lone PROVE landed' \subseteq Digests(tree'.sent)
  BY <1>2 DEF LoneInv, Knows
<1>3. QED
  BY <1>1, <1>2, LoneEnds

\* A lone send that is killed, or that cannot put the manifest back.
LEMMA LoneLeaves ==
  ASSUME IInv, LoneInv, NEW c \in InFlight, Refuse(c), LeavesManifest(c),
         UNCHANGED <<tree, landed, overlapped>>, marred' = TRUE
  PROVE  LoneInv'
<1>1. Flags' /\ (Lone' => Lone)
  BY DEF LoneInv, Flags, Lone, LeavesManifest
<1>2. ASSUME Lone' PROVE landed' \subseteq Digests(tree'.sent)
  <2>1. landed \subseteq Digests(cmds[c].old)
    BY <1>1, <1>2 DEF LoneInv, Knows
  <2>2. Digests(cmds[c].old) \subseteq Digests(tree.sent)
    BY <1>2 DEF Lone, LeavesManifest
  <2>3. QED
    BY <2>1, <2>2
<1>3. QED
  BY <1>1, <1>2, LoneEnds

\* A lone send that only moves to its next place.
LEMMA LoneGoes ==
  ASSUME IInv, LoneInv, NEW c \in InFlight,
         NEW p \in AfterWriting \cup {"writing", "refusing"} \cup WayBack,
         Goto(c, p),
         cmds[c].pc \notin {"checking", "checked", "looked", "restoring"},
         UNCHANGED <<landed, overlapped, harm>>,
         c \notin disturbed' => c \notin disturbed,
         p \in AfterWriting /\ Lone => tree'.sent = cmds[c].new,
         cmds[c].pc = "unstaged" => p = "restoring" /\ index' = index,
         p = "restoring" => cmds[c].pc = "unstaged",
         p = "unstaged" => index' = cmds[c].records
  PROVE  LoneInv'
<1> DEFINE s == [cmds[c] EXCEPT !.pc = p]
<1>1. /\ cmds[c] \in SendStates /\ c \in Sends
      /\ Flags' /\ Lone' = Lone /\ p # "idle"
  BY FlagsStay DEF IInv, InFlight, AfterWriting, WayBack
<1>2. /\ s.pc = p /\ s.old = cmds[c].old /\ s.new = cmds[c].new
      /\ s.skip = cmds[c].skip
      /\ s.records = cmds[c].records /\ s.found = cmds[c].found
  BY <1>1 DEF SendStates
<1>3. cmds' = [cmds EXCEPT ![c] = s]
  BY DEF Goto
<1> HIDE DEF s
<1>4. ASSUME Lone PROVE Knows(s, tree'.sent, landed')
  <2>1. Knows(cmds[c], tree.sent, landed)
    BY <1>4 DEF LoneInv
  <2>2. p \notin BeforeWriting
    BY DEF BeforeWriting, AfterWriting, WayBack
  <2>3. QED
    BY <1>2, <1>4, <2>1, <2>2 DEF Knows
<1>5. ASSUME Lone, ~marred', c \notin disturbed'
      PROVE  AsFound(s, index')
  <2>1. AsFound(cmds[c], index)
    BY <1>5 DEF LoneInv, harm
  <2>2. CASE cmds[c].pc = "unstaged"
    BY <1>2, <2>1, <2>2 DEF AsFound, AfterWriting, WayBack
  <2>3. CASE cmds[c].pc # "unstaged"
    <3>1. cmds[c].records = cmds[c].found
      BY <1>1, <2>1, <2>3
      DEF AsFound, AfterWriting, SendStates, Places, InFlight, At
    <3>2. p # "restoring"
      BY <2>3
    <3>3. QED
      BY <1>2, <3>1, <3>2 DEF AsFound, AfterWriting, WayBack
  <2>4. QED
    BY <2>2, <2>3
<1>6. QED
  BY <1>1, <1>2, <1>3, <1>4, <1>5, LoneMoves

\* Others change no manifest, and whom they disturb has looked.
LEMMA LoneAmongOthers ==
  ASSUME IInv, LoneInv, UNCHANGED <<cmds, landed, overlapped, harm>>,
         tree'.sent = tree.sent,
         \/ UNCHANGED <<index, disturbed>>
         \/ disturbed' = disturbed \cup Looked
  PROVE  LoneInv'
<1>1. InFlight' = InFlight /\ Flags' /\ Lone' = Lone
  BY FlagsStay DEF InFlight, At
<1>2. ASSUME Lone, ~marred, NEW c \in InFlight \ disturbed'
      PROVE  AsFound(cmds[c], index')
  <2>1. c \notin disturbed /\ AsFound(cmds[c], index)
    BY <1>2 DEF LoneInv
  <2>2. CASE UNCHANGED <<index, disturbed>>
    BY <2>1, <2>2
  <2>3. CASE disturbed' = disturbed \cup Looked
    <3>1. cmds[c].pc \in {"checking", "checked"}
      BY <1>2, <2>3 DEF Looked, InFlight, At
    <3>2. QED
      BY <3>1 DEF AsFound, AfterWriting, WayBack
  <2>4. QED
    BY <2>2, <2>3
<1>3. QED
  BY <1>1, <1>2 DEF LoneInv, harm

LEMMA LoneInvNext == IInv /\ LoneInv /\ [Next]_vars => LoneInv'
<1> SUFFICES ASSUME IInv, LoneInv, [Next]_vars PROVE LoneInv'
  OBVIOUS
<1> USE DEF git, others
<1>1. ASSUME NEW c \in Sends, NEW given \in BOOLEAN, Start(c, given)
      PROVE  LoneInv'
  <2> DEFINE s == [Idle EXCEPT !.pc = "checking", !.old = tree.sent,
                               !.listed = Present(tree.files),
                               !.unread = Present(tree.files),
                               !.skip = Skip(given)]
  <2>1. s.pc = "checking" /\ s.old = tree.sent /\ s.skip = Skip(given)
    BY DEF Idle
  <2>2. cmds' = [cmds EXCEPT ![c] = s]
    BY <1>1 DEF Start
  <2> HIDE DEF s
  <2>3. Digests(tree.sent) \subseteq Skip(given)
    BY DEF Skip
  <2>4. overlapped' = (overlapped \/ InFlight # {}) /\ UNCHANGED harm
        /\ landed' = landed /\ tree' = tree
    BY <1>1 DEF Start
  <2>5. Flags'
    BY <2>4 DEF LoneInv, Flags, harm
  <2>6. CASE ~Lone'
    BY <2>5, <2>6 DEF LoneInv
  <2>7. CASE Lone'
    <3>1. InFlight = {} /\ Lone
      BY <2>4, <2>7 DEF Lone, harm
    <3>2. cmds'[c] = s /\ \A d \in Sends \ {c} : cmds'[d] = cmds[d]
      BY <2>2 DEF IInv
    <3>3. InFlight' = {c}
      BY <2>1, <3>1, <3>2 DEF InFlight, At
    <3>4. Knows(s, tree'.sent, landed')
      BY <2>1, <2>3, <2>4, <3>1 DEF LoneInv, Knows, AfterWriting
    <3>5. AsFound(s, index')
      BY <2>1 DEF AsFound, AfterWriting, WayBack
    <3>6. QED
      BY <2>5, <3>2, <3>3, <3>4, <3>5 DEF LoneInv
  <2>8. QED
    BY <2>6, <2>7
<1>2. ASSUME NEW c \in Sends, NEW n \in Names, ReadEntry(c, n)
      PROVE  LoneInv'
  <2> DEFINE x == tree.files[n]
             s == [cmds[c] EXCEPT
                     !.unread = @ \ {n}, !.pins[n] = x,
                     !.drafts = IF x \in cmds[c].skip THEN @ ELSE @ \cup {n}]
  <2>1. /\ c \in InFlight /\ cmds[c].pc = "checking"
        /\ UNCHANGED <<tree, index, landed, disturbed, overlapped, harm>>
    BY <1>2 DEF ReadEntry, InFlight, At
  <2>2. CASE ~Fit(c, x)
    <3>1. Refuse(c) /\ cmds[c].pc \in BeforeWriting
      BY <1>2, <2>1, <2>2 DEF ReadEntry, BeforeWriting
    <3>2. QED
      BY <2>1, <3>1, LoneStops
  <2>3. CASE Fit(c, x)
    <3>1. cmds' = [cmds EXCEPT ![c] = s]
      BY <1>2, <2>3 DEF ReadEntry
    <3>2. cmds[c] \in SendStates
      BY DEF IInv
    <3>3. /\ s.pc = "checking" /\ s.old = cmds[c].old
          /\ s.new = cmds[c].new /\ s.skip = cmds[c].skip
      BY <2>1, <3>2 DEF SendStates
    <3> HIDE DEF s
    <3>4. Lone => Knows(s, tree'.sent, landed')
      BY <2>1, <3>3 DEF LoneInv, Knows, AfterWriting, BeforeWriting
    <3>5. AsFound(s, index')
      BY <3>3 DEF AsFound, AfterWriting, WayBack
    <3>6. Flags' /\ Lone' = Lone
      BY <2>1, FlagsStay
    <3>7. QED
      BY <2>1, <3>1, <3>3, <3>4, <3>5, <3>6, LoneMoves
  <2>4. QED
    BY <2>2, <2>3
<1>3. ASSUME NEW c \in Sends, CheckPasses(c) PROVE LoneInv'
  <2> DEFINE s == [cmds[c] EXCEPT !.pc = "checked", !.new = ManifestNext(c)]
  <2>1. /\ c \in InFlight /\ cmds[c].pc = "checking"
        /\ UNCHANGED <<tree, index, landed, disturbed, overlapped, harm>>
    BY <1>3 DEF CheckPasses, InFlight, At
  <2>2. cmds' = [cmds EXCEPT ![c] = s]
    BY <1>3 DEF CheckPasses
  <2>3. cmds[c] \in SendStates
    BY DEF IInv
  <2>4. /\ s.pc = "checked" /\ s.old = cmds[c].old
        /\ s.skip = cmds[c].skip
    BY <2>3 DEF SendStates
  <2> HIDE DEF s
  <2>5. Lone => Knows(s, tree'.sent, landed')
    BY <2>1, <2>4 DEF LoneInv, Knows, AfterWriting, BeforeWriting
  <2>6. AsFound(s, index')
    BY <2>4 DEF AsFound, AfterWriting, WayBack
  <2>7. Flags' /\ Lone' = Lone
    BY <2>1, FlagsStay
  <2>8. QED
    BY <2>1, <2>2, <2>4, <2>5, <2>6, <2>7, LoneMoves
<1>4. ASSUME NEW c \in Sends, LookOutside(c) PROVE LoneInv'
  <2>1. /\ c \in InFlight /\ cmds[c].pc = "checked"
        /\ UNCHANGED <<tree, index, landed, disturbed, overlapped, harm>>
    BY <1>4 DEF LookOutside, InFlight, At
  <2>0. Flags' /\ Lone' = Lone
    BY <2>1, FlagsStay
  <2>2. CASE outside
    <3>1. Refuse(c) /\ cmds[c].pc \in BeforeWriting
      BY <1>4, <2>1, <2>2 DEF LookOutside, BeforeWriting
    <3>2. QED
      BY <2>1, <3>1, LoneStops
  <2>3. CASE ~outside
    <3> DEFINE s == [cmds[c] EXCEPT !.pc = "looked", !.found = index]
    <3>1. cmds' = [cmds EXCEPT ![c] = s]
      BY <1>4, <2>3 DEF LookOutside
    <3>2. cmds[c] \in SendStates
      BY DEF IInv
    <3>3. /\ s.pc = "looked" /\ s.old = cmds[c].old /\ s.new = cmds[c].new
          /\ s.skip = cmds[c].skip /\ s.found = index
      BY <3>2 DEF SendStates
    <3> HIDE DEF s
    <3>4. Lone => Knows(s, tree'.sent, landed')
      BY <2>1, <3>3 DEF LoneInv, Knows, AfterWriting, BeforeWriting
    <3>5. AsFound(s, index')
      BY <2>1, <3>3 DEF AsFound, AfterWriting, WayBack
    <3>6. QED
      BY <2>0, <2>1, <3>1, <3>3, <3>4, <3>5, LoneMoves
  <2>4. QED
    BY <2>2, <2>3
<1>5. ASSUME NEW c \in Sends, RecordIndex(c) PROVE LoneInv'
  <2> DEFINE s == [cmds[c] EXCEPT !.pc = "recorded", !.records = index]
  <2>1. /\ c \in InFlight /\ cmds[c].pc = "looked"
        /\ UNCHANGED <<tree, index, landed, disturbed, overlapped, harm>>
    BY <1>5 DEF RecordIndex, InFlight, At
  <2>0. Flags' /\ Lone' = Lone
    BY <2>1, FlagsStay
  <2>2. cmds' = [cmds EXCEPT ![c] = s]
    BY <1>5 DEF RecordIndex
  <2>3. cmds[c] \in SendStates
    BY DEF IInv
  <2>4. /\ s.pc = "recorded" /\ s.old = cmds[c].old /\ s.new = cmds[c].new
        /\ s.skip = cmds[c].skip
        /\ s.records = index /\ s.found = cmds[c].found
    BY <2>3 DEF SendStates
  <2> HIDE DEF s
  <2>5. Lone => Knows(s, tree'.sent, landed')
    BY <2>1, <2>4 DEF LoneInv, Knows, AfterWriting, BeforeWriting
  <2>6. ASSUME Lone, ~marred', c \notin disturbed'
        PROVE  AsFound(s, index')
    <3>1. AsFound(cmds[c], index)
      BY <2>1, <2>6 DEF LoneInv, harm
    <3>2. QED
      BY <2>1, <2>4, <3>1 DEF AsFound, WayBack
  <2>7. QED
    BY <2>0, <2>1, <2>2, <2>4, <2>5, <2>6, LoneMoves
<1>6. ASSUME NEW c \in Sends, OpenManifest(c) PROVE LoneInv'
  <2>1. /\ c \in InFlight
        /\ UNCHANGED <<index, landed, disturbed, overlapped, harm>>
    BY <1>6 DEF OpenManifest, InFlight, At
  <2>2. CASE cmds[c].pc = "recorded"
    <3>1. Goto(c, "writing")
      BY <1>6, <2>2 DEF OpenManifest, At
    <3>2. "writing" \notin AfterWriting
      BY DEF AfterWriting
    <3>3. QED
      BY <2>1, <2>2, <3>1, <3>2, LoneGoes
  <2>3. CASE cmds[c].pc = "unstaged"
    <3>1. Goto(c, "restoring")
      BY <1>6, <2>3 DEF OpenManifest, At
    <3>2. "restoring" \notin AfterWriting /\ "restoring" \in WayBack
      BY DEF AfterWriting, WayBack
    <3>3. QED
      BY <2>1, <2>3, <3>1, <3>2, LoneGoes
  <2>4. QED
    BY <1>6, <2>2, <2>3 DEF OpenManifest, At
<1>20. ASSUME NEW c \in Sends, WriteManifest(c) PROVE LoneInv'
  <2>1. /\ c \in InFlight /\ cmds[c].pc \in {"recorded", "writing"}
        /\ Goto(c, "written")
        /\ UNCHANGED <<index, landed, disturbed, overlapped, harm>>
    BY <1>20 DEF WriteManifest, InFlight, At
  <2>2. "written" \in AfterWriting
    BY DEF AfterWriting
  <2>3. ASSUME Lone PROVE tree'.sent = cmds[c].new
    <3>1. CASE cmds[c].pc = "writing"
      BY <1>20, <3>1 DEF WriteManifest, At, IInv, Outboxes
    <3>2. CASE cmds[c].pc = "recorded"
      <4>1. tree.sent = cmds[c].old
        BY <2>1, <2>3, <3>2 DEF LoneInv, Knows, BeforeWriting
      <4>2. tree' = tree /\ cmds[c].new = cmds[c].old
        BY <1>20, <3>2 DEF WriteManifest, At
      <4>3. QED
        BY <4>1, <4>2
    <3>3. QED
      BY <2>1, <3>1, <3>2
  <2>4. QED
    BY <2>1, <2>2, <2>3, LoneGoes
<1>7. ASSUME NEW c \in Sends, StageOutbox(c) PROVE LoneInv'
  <2>1. /\ c \in InFlight /\ cmds[c].pc = "written" /\ Goto(c, "staged")
        /\ UNCHANGED <<tree, landed, overlapped, harm>>
        /\ c \notin disturbed' => c \notin disturbed
    BY <1>7 DEF StageOutbox, InFlight, At, Disturbs
  <2>2. "staged" \in AfterWriting
    BY DEF AfterWriting
  <2>3. Lone => tree.sent = cmds[c].new
    BY <2>1 DEF LoneInv, Knows, AfterWriting
  <2>4. QED
    BY <2>1, <2>2, <2>3, LoneGoes
<1>8. ASSUME NEW c \in Sends, NEW p \in {"batched", "verified"},
             cmds[c].pc \in AfterWriting, Goto(c, p),
             UNCHANGED <<tree, git, others, harm>>
      PROVE  LoneInv'
  <2>1. c \in InFlight
    BY <1>8 DEF InFlight, At, AfterWriting
  <2>2. p \in AfterWriting
    BY DEF AfterWriting
  <2>3. Lone => tree.sent = cmds[c].new
    BY <1>8, <2>1 DEF LoneInv, Knows
  <2>4. cmds[c].pc \notin {"checking", "checked", "looked", "unstaged",
                           "restoring"}
    BY <1>8 DEF AfterWriting
  <2>5. p \notin {"unstaged", "restoring"}
    OBVIOUS
  <2>6. QED
    BY <1>8, <2>1, <2>2, <2>3, <2>4, <2>5, LoneGoes
<1>9. ASSUME NEW c \in Sends, Commit(c) PROVE LoneInv'
  <2>1. /\ c \in InFlight /\ cmds[c].pc = "verified" /\ Refuse(c)
        /\ UNCHANGED <<tree, overlapped, harm>>
        /\ landed' = landed \cup {cmds[c].pins[n] : n \in cmds[c].drafts}
    BY <1>9 DEF Commit, InFlight, At, Refuse
  <2>0. Flags' /\ Lone' = Lone
    BY <2>1, FlagsStay
  <2>2. ASSUME Lone PROVE landed' \subseteq Digests(tree'.sent)
    <3>1. /\ landed \subseteq Digests(cmds[c].old)
          /\ tree.sent = cmds[c].new
      BY <2>1, <2>2 DEF LoneInv, Knows, AfterWriting
    <3>2. Lists(cmds[c])
      BY <1>9, <2>1 DEF IInv, Sound
    <3>3. QED
      BY <2>1, <3>1, <3>2 DEF Lists
  <2>3. QED
    BY <2>0, <2>1, <2>2, LoneEnds
<1>10. ASSUME NEW c \in Sends, Fail(c) PROVE LoneInv'
  <2>1. /\ c \in InFlight
        /\ UNCHANGED <<tree, index, landed, disturbed, overlapped, harm>>
        /\ cmds[c].pc \notin {"idle", "checking", "refusing", "unstaged",
                              "restoring"}
    BY <1>10 DEF Fail, InFlight, At
  <2>2. CASE cmds[c].pc \in {"checked", "looked"}
    <3>1. Refuse(c) /\ cmds[c].pc \in BeforeWriting
      BY <1>10, <2>2 DEF Fail, BeforeWriting
    <3>2. QED
      BY <2>1, <3>1, LoneStops
  <2>3. CASE cmds[c].pc \notin {"checked", "looked"}
    <3>1. Goto(c, "refusing")
      BY <1>10, <2>3 DEF Fail
    <3>2. "refusing" \notin AfterWriting
      BY DEF AfterWriting
    <3>3. QED
      BY <2>1, <2>3, <3>1, <3>2, LoneGoes
  <2>4. QED
    BY <2>2, <2>3
<1>11. ASSUME NEW c \in Sends, RestoreIndex(c) PROVE LoneInv'
  <2>1. /\ c \in InFlight /\ cmds[c].pc = "refusing" /\ Goto(c, "unstaged")
        /\ UNCHANGED <<tree, landed, overlapped, harm>>
        /\ c \notin disturbed' => c \notin disturbed
        /\ index' = cmds[c].records
    BY <1>11 DEF RestoreIndex, Restored, InFlight, At, Disturbs
  <2>2. "unstaged" \notin AfterWriting /\ "unstaged" \in WayBack
    BY DEF AfterWriting, WayBack
  <2>3. QED
    BY <2>1, <2>2, LoneGoes
<1>12. ASSUME NEW c \in Sends, RestoreManifest(c) PROVE LoneInv'
  <2>1. /\ c \in InFlight /\ Refuse(c)
        /\ UNCHANGED <<landed, overlapped, harm>>
        /\ tree' = [tree EXCEPT !.sent = cmds[c].old]
    BY <1>12 DEF RestoreManifest, InFlight, At
  <2>0. Flags' /\ Lone' = Lone
    BY <2>1, FlagsStay
  <2>2. tree'.sent = cmds[c].old
    BY <2>1 DEF IInv, Outboxes
  <2>3. Lone => landed' \subseteq Digests(tree'.sent)
    BY <2>1, <2>2 DEF LoneInv, Knows
  <2>4. QED
    BY <2>0, <2>1, <2>3, LoneEnds
<1>13. ASSUME NEW c \in Sends, RestoreFails(c) PROVE LoneInv'
  <2>1. /\ c \in InFlight
        /\ UNCHANGED <<tree, landed, overlapped>> /\ marred' = TRUE
    BY <1>13 DEF RestoreFails, InFlight, At
  <2>2. CASE ~At(c, "refusing")
    <3>1. Refuse(c) /\ LeavesManifest(c)
      BY <1>13, <2>2 DEF RestoreFails
    <3>2. QED
      BY <2>1, <3>1, LoneLeaves
  <2>3. CASE At(c, "refusing")
    <3> DEFINE s == [cmds[c] EXCEPT !.pc = "unstaged"]
    <3>1. cmds' = [cmds EXCEPT ![c] = s] /\ short' = short
      BY <1>13, <2>3 DEF RestoreFails, Goto
    <3>2. /\ s.pc = "unstaged" /\ s.old = cmds[c].old
          /\ s.new = cmds[c].new /\ s.skip = cmds[c].skip
      BY DEF IInv, InFlight, SendStates
    <3> HIDE DEF s
    <3>3. Lone => Knows(s, tree'.sent, landed')
      BY <2>1, <3>2 DEF LoneInv, Knows, AfterWriting, BeforeWriting
    <3>4. Flags' /\ Lone' = Lone
      BY <2>1, <3>1 DEF LoneInv, Flags, Lone
    <3>5. QED
      BY <2>1, <3>1, <3>2, <3>3, <3>4, LoneMoves
  <2>4. QED
    BY <2>2, <2>3
<1>14. ASSUME NEW c \in Sends, Killed(c) PROVE LoneInv'
  <2>1. /\ c \in InFlight /\ Refuse(c) /\ LeavesManifest(c) /\ marred' = TRUE
        /\ UNCHANGED <<tree, landed, overlapped>>
    BY <1>14 DEF Killed, InFlight
  <2>2. QED
    BY <2>1, LoneLeaves
<1>15. ASSUME \/ \E n \in Names : \E x \in Contents \cup {Nothing} : Edit(n, x)
              \/ \E m, n \in Names : Rename(m, n)
       PROVE  LoneInv'
  <2>1. UNCHANGED <<cmds, landed, overlapped, harm, index, disturbed>>
    BY <1>15 DEF Edit, Rename, Edited
  <2>2. tree'.sent = tree.sent
    BY <1>15 DEF Edit, Rename, IInv, Outboxes
  <2>3. QED
    BY <2>1, <2>2, LoneAmongOthers
<1>16. ASSUME \/ \E n \in Names : StageFile(n)
              \/ StageOutside
              \/ CommitStaged
       PROVE  LoneInv'
  <2>1. /\ UNCHANGED <<cmds, landed, overlapped, harm, tree>>
        /\ disturbed' = disturbed \cup Looked
    BY <1>16 DEF StageFile, StageOutside, CommitStaged, Edited
  <2>2. QED
    BY <2>1, LoneAmongOthers
<1>17. CASE UNCHANGED vars
  BY <1>17, LoneAmongOthers DEF vars
<1>18. ASSUME NEW c \in Sends, LookForBatch(c) \/ Verify(c)
       PROVE  LoneInv'
  BY <1>8, <1>18 DEF LookForBatch, Verify, At, AfterWriting
<1>19. QED
  BY <1>1, <1>2, <1>3, <1>4, <1>5, <1>6, <1>7, <1>9, <1>10, <1>11, <1>12,
     <1>13, <1>14, <1>15, <1>16, <1>17, <1>18, <1>20 DEF Next

\* A content that went as a finding in one batch goes as a finding in no
\* later one, whatever was renamed, edited, killed or refused in between,
\* as long as no two sends overlapped and none left the manifest short.
THEOREM SentOnce == Spec => NoFindingIsSentTwice
<1> DEFINE A == \A c \in Sends : Commits(c) /\ ~overlapped /\ ~short =>
                  \A n \in cmds[c].drafts : cmds[c].pins[n] \notin landed
<1>1. IInv /\ LoneInv /\ [Next]_vars => [A]_vars
  <2>1. SUFFICES ASSUME IInv, LoneInv, NEW c \in Sends,
                        Commits(c), Lone, NEW n \in cmds[c].drafts
                 PROVE  cmds[c].pins[n] \notin landed
    BY DEF Lone
  <2>2. c \in InFlight
    BY <2>1 DEF Commits, At, InFlight
  <2>3. landed \subseteq cmds[c].skip
    BY <2>1, <2>2 DEF LoneInv, Knows
  <2>4. cmds[c].pins[n] \notin cmds[c].skip
    BY <2>1 DEF IInv, Sound, PinsFit
  <2>5. QED
    BY <2>3, <2>4
<1>2. QED
  BY <1>1, IInvInit, IInvNext, LoneInvInit, LoneInvNext, PTL
  DEF Spec, NoFindingIsSentTwice

\* A send that refuses leaves the index and the manifest as it found them,
\* at whatever step it failed: unless somebody else staged, two sends
\* overlapped, one was killed, or the way back failed.
THEOREM RefusalUndoes == Spec => RefusalLeavesAsFound
<1> DEFINE A == \A c \in Looked \ disturbed :
       cmds'[c].pc = "idle" /\ head' = head /\ ~overlapped /\ ~marred'
         => index' = cmds[c].found /\ tree'.sent = cmds[c].old
<1>1. IInv /\ LoneInv /\ [Next]_vars => [A]_vars
  <2> SUFFICES ASSUME IInv, LoneInv, Next, NEW c \in Looked \ disturbed,
                      cmds'[c].pc = "idle", head' = head,
                      ~overlapped, ~marred'
               PROVE  index' = cmds[c].found /\ tree'.sent = cmds[c].old
    OBVIOUS
  <2>1. /\ c \in Sends /\ c \in InFlight
        /\ cmds[c].pc \notin {"idle", "checking", "checked"}
    BY DEF Looked, InFlight, At
  <2>0. ~marred => Lone
    BY DEF LoneInv, Flags, Lone
  <2>2. /\ ~marred => /\ Knows(cmds[c], tree.sent, landed)
                       /\ AsFound(cmds[c], index)
        /\ tree \in Outboxes /\ cmds[c] \in SendStates
    BY <2>0, <2>1 DEF LoneInv, IInv
  <2>3. ASSUME NEW d \in Sends, d # c, NEW s, cmds' = [cmds EXCEPT ![d] = s]
        PROVE  FALSE
    BY <2>1, <2>3
  <2>4. ASSUME cmds' = cmds PROVE FALSE
    BY <2>1, <2>4
  <2>5. ASSUME NEW p \in Places \ {"idle"}, Goto(c, p) PROVE FALSE
    BY <2>1, <2>2, <2>5 DEF Goto, IInv
  <2>6. ASSUME NEW d \in Sends,
               \/ \E given \in BOOLEAN : Start(d, given)
               \/ \E n \in Names : ReadEntry(d, n)
               \/ CheckPasses(d) \/ LookOutside(d) \/ RecordIndex(d)
               \/ OpenManifest(d) \/ WriteManifest(d)
               \/ StageOutbox(d) \/ LookForBatch(d) \/ Verify(d) \/ Commit(d) \/ Fail(d)
               \/ RestoreIndex(d) \/ RestoreManifest(d) \/ RestoreFails(d)
               \/ Killed(d)
        PROVE  d = c /\ (Fail(c) \/ RestoreManifest(c))
    <3>1. CASE d # c
      <4>1. \E s : cmds' = [cmds EXCEPT ![d] = s]
        BY <2>6 DEF Start, ReadEntry, CheckPasses, LookOutside, RecordIndex,
          OpenManifest, WriteManifest, StageOutbox, LookForBatch, Verify,
          Commit, Fail, RestoreIndex, RestoreManifest, RestoreFails, Killed, Refuse, Goto
      <4>2. QED
        BY <2>3, <3>1, <4>1
    <3>2. CASE d = c
      <4>1. ~\E given \in BOOLEAN : Start(c, given)
        BY <2>1 DEF Start, At
      <4>2. /\ ~\E n \in Names : ReadEntry(c, n)
            /\ ~CheckPasses(c) /\ ~LookOutside(c)
        BY <2>1 DEF ReadEntry, CheckPasses, LookOutside, At
      <4>3. ~RecordIndex(c)
        BY <2>1, <2>2 DEF RecordIndex, IInv, SendStates
      <4>8. ~OpenManifest(c)
        BY <2>5 DEF OpenManifest, Places
      <4>4. ~WriteManifest(c) /\ ~StageOutbox(c) /\ ~LookForBatch(c)
            /\ ~Verify(c) /\ ~RestoreIndex(c)
        BY <2>5 DEF WriteManifest, StageOutbox, LookForBatch, Verify,
          RestoreIndex, Places
      <4>5. ~Commit(c)
        BY <2>1 DEF Commit, IInv, Undisturbed
      <4>6. ~RestoreFails(c) /\ ~Killed(c)
        BY DEF RestoreFails, Killed
      <4>7. QED
        BY <2>6, <3>2, <4>1, <4>2, <4>3, <4>4, <4>5, <4>6, <4>8
    <3>3. QED
      BY <3>1, <3>2
  <2>7. Fail(c) \/ RestoreManifest(c)
    <3>1. CASE \/ \E n \in Names :
                    \/ StageFile(n)
                    \/ \E x \in Contents \cup {Nothing} : Edit(n, x)
               \/ \E m, n \in Names : Rename(m, n)
               \/ StageOutside \/ CommitStaged
      BY <2>4, <3>1 DEF StageFile, Edit, Rename, StageOutside, CommitStaged,
        Edited
    <3>2. QED
      BY <2>6, <3>1 DEF Next
  <2>8. CASE Fail(c)
    <3>1. /\ UNCHANGED <<tree, index, marred>>
          /\ cmds[c].pc \notin {"checked", "looked"} => Goto(c, "refusing")
      BY <2>8 DEF Fail, git, harm
    <3>2. cmds[c].pc = "looked"
      BY <2>1, <2>5, <3>1 DEF Places
    <3>3. QED
      BY <2>2, <3>1, <3>2 DEF Knows, AsFound, BeforeWriting
  <2>9. CASE RestoreManifest(c)
    <3>1. /\ UNCHANGED <<index, marred>> /\ cmds[c].pc \in WayBack
          /\ tree' = [tree EXCEPT !.sent = cmds[c].old]
      BY <2>9 DEF RestoreManifest, git, harm, At, WayBack
    <3>2. QED
      BY <2>2, <3>1 DEF AsFound, Outboxes
  <2>10. QED
    BY <2>7, <2>8, <2>9
<1>2. QED
  BY <1>1, IInvInit, IInvNext, LoneInvInit, LoneInvNext, PTL
  DEF Spec, RefusalLeavesAsFound

----------------------------------------------------------------------------
\* From here on EvidenceRuns, which shares no variable with Outbox.

----------------------------------------------------------------------------
\* A constant of the code: what is left of every markup.

LEMMA MarkupAlwaysFits == FALSE \notin MarkupFits
<1>1. ASSUME NEW c \in Keyed, NEW named \in {{}, {"f1", "f2"}}
      PROVE  KeyedFits(Classes(c, named), named)
  <2>1. CASE Classes(c, named) = None
    <3>1. DOMAIN None = {}
      BY DEF None
    <3>2. QED
      BY <2>1, <3>1 DEF KeyedFits
  <2>2. CASE Classes(c, named) # None
    BY <2>2 DEF KeyedFits, Classes
  <2>3. QED
    BY <2>1, <2>2
<1>2. ASSUME NEW c \in Keyed, NEW named \in {{}, {"f1", "f2"}}
      PROVE  KeyedFits(Evidence(c, named), named)
  BY DEF KeyedFits, Evidence
<1>3. ASSUME NEW v \in Sectioned
      PROVE  SectionsFit(Verification(v))
  BY DEF SectionsFit, Verification
<1>4. ASSUME NEW fits \in MarkupFits
      PROVE  fits = TRUE
  <2>1. CASE \E c \in Keyed, named \in {{}, {"f1", "f2"}} :
               fits = (/\ KeyedFits(Classes(c, named), named)
                       /\ KeyedFits(Evidence(c, named), named))
    BY <1>1, <1>2, <2>1
  <2>2. CASE \E v \in Sectioned : fits = SectionsFit(Verification(v))
    BY <1>3, <2>2
  <2>3. QED
    BY <1>4, <2>1, <2>2 DEF MarkupFits
<1>5. QED
  BY <1>4

----------------------------------------------------------------------------
\* Types.

Items == Processes \X {"output", "errors"}
Conditions == {"none", "whole", "torn"}
Plains == [type : {"opened", "finding", "review", "completed", "reopened"},
           by : {Others}]
Reviews == [type : {"review"}, by : Launches, prev : Nat, subject : Nat,
            contract : Nat, pinned : Conditions]
Measures == [type : {"check", "ext"}, by : Recorders]
Entries == Plains \cup Reviews \cup Measures

Early == {"idle", "resolve", "verify", "contract", "prompt", "run"}
KeepPlaces == {"payload", "open", "event"}
RunPlaces == Early \cup KeepPlaces
            \cup {"parse", "admit", "prose", "review", "write"}
            \cup {"refused", "recorded", "dry", "failed"}
Lanes == {"none", "commit", "sidecar", "finding", "dry", "check", "ext"}
Whereabouts == {"temp", "log", "artifact", "message", "nowhere"}
Told == SUBSET ({"output", "errors"} \X Whereabouts)
RunStates ==
  [pc : RunPlaces, lane : Lanes, level : {"none", "commit", "hash", "off"},
   prev : Nat, loaded : Nat, subject : Nat, contract : Nat,
   held : {"none", "pinned"},
   saw : [subject : Nat, contract : Nat, bytes : {"none", "pinned"}],
   wrote : SUBSET {"output", "errors"}, markup : {"none", "fits"}, told : Told]

Typed ==
  /\ journal \in Seq(Entries)
  /\ contract \in Nat
  /\ commits \in Seq(Nat)
  /\ bytes \in {"pinned", "drifted"}
  /\ artifacts \in [Launches -> Conditions]
  /\ payloads \in Seq(Items)
  /\ events \subseteq Items /\ IsFiniteSet(events)
  /\ temp \subseteq Items
  /\ run \in [Processes -> RunStates]
  /\ swept \subseteq Items \X (Processes \cup {Others})

\* The task has its finding, and the repository a commit, from the beginning.
FindingThere ==
  2 \in DOMAIN journal /\ journal[2].type = "finding" /\ Len(commits) >= 1

LEMMA LatestIsThere ==
  ASSUME NEW js \in Seq(Entries), NEW type
  PROVE  /\ Latest(js, type) \in Nat
         /\ (\E i \in DOMAIN js : js[i].type = type)
              => /\ Latest(js, type) \in DOMAIN js
                 /\ js[Latest(js, type)].type = type
<1> DEFINE at == {i \in DOMAIN js : js[i].type = type}
<1>1. CASE at = {}
  BY <1>1 DEF Latest
<1>2. CASE at # {}
  <2>1. DOMAIN js = 1 .. Len(js) /\ Len(js) \in Nat
    OBVIOUS
  <2> DEFINE below == {Len(js) - i : i \in at}
  <2>2. below \subseteq Nat /\ below # {}
    BY <1>2, <2>1
  <2> HIDE DEF below
  <2>3. PICK x \in below : \A y \in below : x <= y
    BY <2>2, LeastNumber
  <2>4. \E i \in at : \A k \in at : k <= i
    <3>1. PICK i \in at : x = Len(js) - i
      BY <2>3 DEF below
    <3>2. ASSUME NEW k \in at PROVE k <= i
      <4>1. x <= Len(js) - k
        BY <2>3 DEF below
      <4>2. QED
        BY <2>1, <3>1, <4>1
    <3>3. QED
      BY <3>2
  <2> HIDE DEF at
  <2>5. Latest(js, type) \in at
    BY <1>2, <2>4 DEF Latest, at
  <2>6. QED
    BY <2>1, <2>5 DEF at
<1>3. QED
  BY <1>1, <1>2

----------------------------------------------------------------------------
\* The item can be read, or fell to a sweep of the log.
KeptOrSwept(it) ==
  \/ it \in Range(payloads)
  \/ \E p \in Processes \cup {Others} : <<it, p>> \in swept

Recording == {"commit", "sidecar", "finding"}

\* Where a launch stands, and what it may therefore do.
Stands(l) ==
  /\ run[l].pc # "write"
  /\ run[l].pc \in Early =>
       run[l].wrote = {} /\ run[l].level = "none" /\ run[l].told = {}
  /\ run[l].pc \notin {"idle", "refused"} => run[l].lane \in Recording \cup {"dry"}
  /\ run[l].pc \in KeepPlaces =>
       \/ run[l].level = "none"
       \/ run[l].level = "hash" /\ run[l].lane \in Recording
  /\ run[l].pc = "parse" => run[l].level = "none"
  /\ run[l].pc \in {"admit", "prose", "review"} =>
       run[l].level # "none" /\ run[l].lane \in Recording
  /\ run[l].pc = "prose" => run[l].level = "commit"
  /\ run[l].pc = "review" /\ run[l].level = "commit" => artifacts[l] = "whole"

\* What its reviewer is given is what its record will name.
Given(l) ==
  /\ run[l].pc \notin {"resolve", "verify", "contract", "prompt"} =>
       /\ run[l].saw.subject = run[l].subject
       /\ run[l].saw.contract = run[l].contract
  /\ run[l].lane = "finding" =>
       /\ run[l].subject \in DOMAIN journal
       /\ journal[run[l].subject].type = "finding"
       /\ run[l].pc # "resolve"
       /\ run[l].pc \in {"contract", "prompt"} => run[l].held = "pinned"
       /\ run[l].pc \notin {"verify", "contract", "prompt"} =>
            run[l].saw.bytes = "pinned"
  /\ run[l].pc \in {"verify", "contract"} => run[l].lane = "finding"
  /\ run[l].loaded <= Len(journal)
  /\ run[l].lane \in Recording =>
       run[l].prev = Latest(SubSeq(journal, 1, run[l].loaded), "review")
  /\ run[l].pc = "prompt" /\ run[l].lane # "finding" =>
       run[l].subject \in DOMAIN commits

\* Where a process has said something is, it is.
ToldTrue(p) ==
  \A t \in run[p].told :
    /\ t[2] = "temp" => Item(p, t[1]) \in temp
    /\ t[2] = "log" => KeptOrSwept(Item(p, t[1]))

TellsTrue(l) ==
  /\ ToldTrue(l)
  /\ \A t \in run[l].told : t[2] = "artifact" =>
       artifacts[l] = "whole" /\ run[l].pc \in {"refused", "recorded"}
  /\ run[l].pc \in {"open", "event"} => KeptOrSwept(Keeping(l))

\* What the reviewer left is told of: its errors once their keep is over, its
\* output at the end, but for a dry run.
Says(l, what) == \E t \in run[l].told : t[1] = what
SaysAll(l) ==
  /\ "errors" \in run[l].wrote /\ run[l].pc # "failed" =>
       \/ run[l].pc \in KeepPlaces /\ run[l].level = "none"
       \/ Says(l, "errors")
  /\ Ended(l) /\ "output" \in run[l].wrote =>
       run[l].lane = "dry" \/ Says(l, "output")

\* A recorder's output is published once its own sweep is over.
Records(c) ==
  /\ run[c].pc \in {"idle", "write", "recorded", "refused"} \cup KeepPlaces
  /\ run[c].pc = "write" => run[c].lane \in {"check", "ext"}
  /\ run[c].pc \in KeepPlaces => run[c].lane = "check"
  /\ Item(c, "output") \in Range(payloads) =>
       run[c].pc \notin {"idle", "open", "payload"}
  /\ <<Item(c, "output"), c>> \notin swept
  /\ run[c].pc = "event" => KeptOrSwept(Item(c, "output"))
  /\ ToldTrue(c) /\ \A t \in run[c].told : t[2] # "artifact"

\* A launch's review in the journal says what the launch holds to the end.
Reviewed == KeepPlaces \cup {"recorded"}
Answers(r) ==
  /\ run[r.by].pc \in Reviewed /\ run[r.by].level # "none"
  /\ run[r.by].lane \in Recording
  /\ r.subject = run[r.by].saw.subject /\ r.contract = run[r.by].saw.contract
  /\ run[r.by].lane = "finding" => r.subject = run[r.by].subject
  /\ r.prev = run[r.by].prev
  /\ run[r.by].level = "commit" => r.pinned = "whole"
IsLaunched(r) == r.type = "review" /\ r.by \in Launches
ReviewsAnswer ==
  \A i \in DOMAIN journal : IsLaunched(journal[i]) => Answers(journal[i])

EvidenceInv ==
  /\ Typed /\ FindingThere
  /\ \A l \in Launches : Stands(l) /\ Given(l) /\ TellsTrue(l) /\ SaysAll(l)
  /\ \A c \in Recorders : Records(c)
  /\ ReviewsAnswer

----------------------------------------------------------------------------
\* The order of a keep.
LEMMA LaunchKeepOrder ==
  ASSUME NEW l \in Launches, StepAfter(l), run[l].pc \in KeepPlaces
  PROVE  /\ run[l].pc = "payload" => Goes(l, "open")
         /\ run[l].pc = "open" => Goes(l, "event")
         /\ run[l].pc = "event" => Kept(l, "log")
<1> DEFINE order == <<"payload", "open", "event">>
           i == CHOOSE k \in DOMAIN order : order[k] = run[l].pc
<1>1. KeepOrder(l) = order
  BY DEF KeepOrder, ReviewKeeps
<1>2. IF i = Len(order) THEN Kept(l, "log") ELSE Goes(l, order[i + 1])
  BY <1>1 DEF StepAfter
<1>3. i \in 1 .. 3 /\ order[i] = run[l].pc
  <2>1. \E k \in DOMAIN order : order[k] = run[l].pc
    BY DEF KeepPlaces
  <2>2. QED
    BY <2>1
<1> HIDE DEF i
<1>4. QED
  BY <1>2, <1>3

LEMMA RecorderKeepOrder ==
  ASSUME NEW c \in Recorders, StepAfter(c), run[c].pc \in KeepPlaces
  PROVE  /\ run[c].pc = "open" => Goes(c, "payload")
         /\ run[c].pc = "payload" => Goes(c, "event")
         /\ run[c].pc = "event" => Kept(c, "log")
<1> DEFINE order == <<"open", "payload", "event">>
           i == CHOOSE k \in DOMAIN order : order[k] = run[c].pc
<1>1. KeepOrder(c) = order
  BY ProcessesAssumption DEF KeepOrder, CheckKeeps
<1>2. IF i = Len(order) THEN Kept(c, "log") ELSE Goes(c, order[i + 1])
  BY <1>1 DEF StepAfter
<1>3. i \in 1 .. 3 /\ order[i] = run[c].pc
  <2>1. \E k \in DOMAIN order : order[k] = run[c].pc
    BY DEF KeepPlaces
  <2>2. QED
    BY <2>1
<1> HIDE DEF i
<1>4. QED
  BY <1>2, <1>3

LEMMA KeepsAt ==
  ASSUME NEW p \in Processes
  PROVE  Keeps(p) <=> run[p].pc \in KeepPlaces
<1>1. CASE p \in Launches
  <2>1. KeepOrder(p) = <<"payload", "open", "event">>
    BY <1>1 DEF KeepOrder, ReviewKeeps
  <2>2. QED
    BY <2>1 DEF Keeps, Range, KeepPlaces
<1>2. CASE p \notin Launches
  <2>1. KeepOrder(p) = <<"open", "payload", "event">>
    BY <1>2 DEF KeepOrder, CheckKeeps
  <2>2. QED
    BY <2>1 DEF Keeps, Range, KeepPlaces
<1>3. QED
  BY <1>1, <1>2

LEMMA SamePrefix ==
  ASSUME NEW js \in Seq(Entries), NEW ks \in Seq(Entries), NEW n \in Nat,
         n <= Len(js), n <= Len(ks), \A i \in 1 .. n : js[i] = ks[i]
  PROVE  SubSeq(js, 1, n) = SubSeq(ks, 1, n)
  BY SubSeqProperties

LEMMA WholePrefix ==
  ASSUME NEW js \in Seq(Entries)
  PROVE  SubSeq(js, 1, Len(js)) = js
  BY SubSeqProperties

----------------------------------------------------------------------------
\* What every step keeps of what is not its own.

Grows ==
  /\ Len(journal) <= Len(journal')
  /\ \A i \in DOMAIN journal : journal'[i] = journal[i]
  /\ Len(commits) <= Len(commits')
  /\ temp \subseteq temp'
  /\ \A it \in Items : KeptOrSwept(it) => KeptOrSwept(it)'

LEMMA ItemsOf ==
  ASSUME NEW p \in Processes, Typed
  PROVE  /\ Keeping(p) \in Items
         /\ \A what \in {"output", "errors"} : Item(p, what) \in Items
BY DEF Keeping, Item, Items

\* Where a process has said something is, it stays.
LEMMA StillThere ==
  ASSUME Typed, Grows, NEW p \in Processes, ToldTrue(p)
  PROVE  \A t \in run[p].told :
           /\ t[2] = "temp" => Item(p, t[1]) \in temp'
           /\ t[2] = "log" => KeptOrSwept(Item(p, t[1]))'
<1>1. run[p].told \in Told
  BY DEF Typed, RunStates
<1>2. ASSUME NEW t \in run[p].told
      PROVE  Item(p, t[1]) \in Items
  BY <1>1, ItemsOf DEF Told
<1>3. QED
  BY <1>2 DEF ToldTrue, Grows

LEMMA ToldNothingNew ==
  ASSUME Typed, Grows, NEW p \in Processes, ToldTrue(p), run'[p].told = run[p].told
  PROVE  ToldTrue(p)'
BY StillThere DEF ToldTrue, Item

LEMMA ToldOneMore ==
  ASSUME Typed, Grows, NEW p \in Processes, ToldTrue(p), NEW what, NEW where,
         run'[p].told = run[p].told \cup {<<what, where>>},
         where = "temp" => Item(p, what) \in temp',
         where = "log" => KeptOrSwept(Item(p, what))'
  PROVE  ToldTrue(p)'
<1>1. ASSUME NEW t \in run'[p].told
      PROVE  /\ t[2] = "temp" => Item(p, t[1]) \in temp'
             /\ t[2] = "log" => KeptOrSwept(Item(p, t[1]))'
  <2>1. CASE t \in run[p].told
    BY <2>1, StillThere
  <2>2. CASE t = <<what, where>>
    <3>1. t[1] = what /\ t[2] = where
      BY <2>2
    <3>2. QED
      BY <3>1
  <2>3. QED
    BY <2>1, <2>2
<1>2. QED
  BY <1>1 DEF ToldTrue, Item

\* What a process holds besides where it is and what its message names.
SameHeld(p) ==
  /\ run'[p].lane = run[p].lane /\ run'[p].level = run[p].level
  /\ run'[p].prev = run[p].prev /\ run'[p].loaded = run[p].loaded
  /\ run'[p].subject = run[p].subject /\ run'[p].contract = run[p].contract
  /\ run'[p].held = run[p].held /\ run'[p].saw = run[p].saw
  /\ run'[p].wrote = run[p].wrote /\ run'[p].markup = run[p].markup

\* What was given stays given while the journal grows.
LEMMA StillGiven ==
  ASSUME Typed, Typed', Grows, NEW l \in Launches, Given(l), SameHeld(l),
         \/ run'[l].pc = run[l].pc
         \/ {run[l].pc, run'[l].pc}
              \cap {"resolve", "verify", "contract", "prompt"} = {}
  PROVE  Given(l)'
<1>1. /\ Len(journal) \in Nat /\ Len(journal') \in Nat
      /\ DOMAIN journal = 1 .. Len(journal)
      /\ DOMAIN journal' = 1 .. Len(journal')
      /\ DOMAIN commits = 1 .. Len(commits)
      /\ DOMAIN commits' = 1 .. Len(commits')
      /\ Len(commits) \in Nat /\ Len(commits') \in Nat
  BY DEF Typed
<1>2. run[l].loaded \in Nat
  BY DEF Typed, RunStates, Processes
<1>3. SubSeq(journal', 1, run[l].loaded) = SubSeq(journal, 1, run[l].loaded)
  <2>1. journal \in Seq(Entries) /\ journal' \in Seq(Entries)
    BY DEF Typed
  <2>2. run[l].loaded <= Len(journal) /\ run[l].loaded <= Len(journal')
    BY <1>1, <1>2 DEF Given, Grows
  <2>3. \A i \in 1 .. run[l].loaded : journal'[i] = journal[i]
    BY <1>1, <1>2, <2>2 DEF Grows
  <2>4. QED
    BY <1>2, <2>1, <2>2, <2>3, SamePrefix
<1>4. run[l].loaded <= Len(journal')
  BY <1>1, <1>2 DEF Given, Grows
<1>5. run[l].lane = "finding" =>
        /\ run[l].subject \in DOMAIN journal'
        /\ journal'[run[l].subject].type = "finding"
  BY <1>1 DEF Given, Grows
<1>6. run[l].pc = "prompt" /\ run[l].lane # "finding" =>
        run[l].subject \in DOMAIN commits'
  BY <1>1 DEF Given, Grows
<1>7. QED
  BY <1>3, <1>4, <1>5, <1>6 DEF Given, SameHeld

LEMMA LaunchUndisturbed ==
  ASSUME Typed, Typed', Grows, NEW l \in Launches, run'[l] = run[l],
         artifacts'[l] = artifacts[l],
         Stands(l), Given(l), TellsTrue(l), SaysAll(l)
  PROVE  Stands(l)' /\ Given(l)' /\ TellsTrue(l)' /\ SaysAll(l)'
<1>1. Stands(l)' /\ SaysAll(l)'
  BY DEF Stands, SaysAll, Says, Ended
<1>2. Given(l)'
  BY StillGiven DEF SameHeld
<1>3. TellsTrue(l)'
  <2>1. Keeping(l)' = Keeping(l) /\ Keeping(l) \in Items
    BY ItemsOf DEF Keeping, Item, Processes
  <2>2. \A t \in run[l].told :
          /\ t[2] = "temp" => Item(l, t[1]) \in temp'
          /\ t[2] = "log" => KeptOrSwept(Item(l, t[1]))'
    BY StillThere DEF TellsTrue, Processes
  <2>3. run[l].pc \in {"open", "event"} => KeptOrSwept(Keeping(l))'
    BY <2>1 DEF TellsTrue, Grows
  <2>4. QED
    BY <2>2, <2>3 DEF TellsTrue, ToldTrue, Item
<1>4. QED
  BY <1>1, <1>2, <1>3

LEMMA RecorderUndisturbed ==
  ASSUME Typed, Grows, NEW c \in Recorders, run'[c] = run[c], Records(c),
         Item(c, "output") \in Range(payloads') =>
           Item(c, "output") \in Range(payloads),
         <<Item(c, "output"), c>> \in swept' => <<Item(c, "output"), c>> \in swept
  PROVE  Records(c)'
<1>1. c \in Processes /\ Item(c, "output") \in Items
  BY ItemsOf DEF Processes
<1>2. ToldTrue(c)'
  BY <1>1, StillThere DEF Records, ToldTrue, Item
<1>3. run[c].pc = "event" => KeptOrSwept(Item(c, "output"))'
  BY <1>1 DEF Records, Grows
<1>4. QED
  BY <1>2, <1>3 DEF Records, Item

\* What is in the journal goes on answering to the launch that wrote it.
LEMMA ReviewsGoOnAnswering ==
  ASSUME Typed, ReviewsAnswer,
         \A i \in DOMAIN journal' :
           IsLaunched(journal'[i]) =>
             i \in DOMAIN journal /\ journal'[i] = journal[i],
         \A l \in Launches :
           /\ run[l].pc \in Reviewed /\ run[l].level # "none"
           => /\ run'[l].pc \in Reviewed
              /\ run'[l].level = run[l].level /\ run'[l].lane = run[l].lane
              /\ run'[l].saw = run[l].saw /\ run'[l].prev = run[l].prev
              /\ run'[l].subject = run[l].subject
  PROVE  ReviewsAnswer'
<1>1. SUFFICES ASSUME NEW i \in DOMAIN journal', IsLaunched(journal'[i])
               PROVE  Answers(journal[i])'
  BY DEF ReviewsAnswer, IsLaunched
<1>2. journal'[i] = journal[i] /\ Answers(journal[i]) /\ journal[i].by \in Launches
  BY <1>1 DEF ReviewsAnswer, IsLaunched
<1>3. QED
  BY <1>2 DEF Answers

\* A step of p: the other processes and the prose of others stay.
StepOf(p) ==
  /\ Typed' /\ Grows
  /\ \A q \in Processes \ {p} : run'[q] = run[q]
  /\ \A l \in Launches \ {p} : artifacts'[l] = artifacts[l]
  /\ \A c \in Recorders \ {p} :
       /\ Item(c, "output") \in Range(payloads') =>
            Item(c, "output") \in Range(payloads)
       /\ <<Item(c, "output"), c>> \in swept' => <<Item(c, "output"), c>> \in swept

LEMMA OthersUndisturbed ==
  ASSUME EvidenceInv, NEW p, StepOf(p)
  PROVE  /\ Typed' /\ FindingThere'
         /\ \A l \in Launches \ {p} :
              Stands(l)' /\ Given(l)' /\ TellsTrue(l)' /\ SaysAll(l)'
         /\ \A c \in Recorders \ {p} : Records(c)'
<1>1. Typed /\ Typed' /\ Grows /\ FindingThere
  BY DEF EvidenceInv, StepOf
<1>2. FindingThere'
  BY <1>1 DEF FindingThere, Grows, Typed
<1>3. ASSUME NEW l \in Launches \ {p}
      PROVE  Stands(l)' /\ Given(l)' /\ TellsTrue(l)' /\ SaysAll(l)'
  BY <1>1, LaunchUndisturbed DEF EvidenceInv, StepOf, Processes
<1>4. ASSUME NEW c \in Recorders \ {p}
      PROVE  Records(c)'
  BY <1>1, RecorderUndisturbed DEF EvidenceInv, StepOf, Processes
<1>5. QED
  BY <1>1, <1>2, <1>3, <1>4

\* A step of a launch is one that leaves its own part of the invariant.
LEMMA LaunchSteps ==
  ASSUME EvidenceInv, NEW l \in Launches, StepOf(l),
         Stands(l)', Given(l)', TellsTrue(l)', SaysAll(l)', ReviewsAnswer'
  PROVE  EvidenceInv'
<1>1. l \notin Recorders
  BY ProcessesAssumption
<1>2. QED
  BY <1>1, OthersUndisturbed DEF EvidenceInv

LEMMA RecorderSteps ==
  ASSUME EvidenceInv, NEW c \in Recorders, StepOf(c), Records(c)', ReviewsAnswer'
  PROVE  EvidenceInv'
<1>1. c \notin Launches
  BY ProcessesAssumption
<1>2. QED
  BY <1>1, OthersUndisturbed DEF EvidenceInv

LEMMA OtherSteps ==
  ASSUME EvidenceInv, StepOf(Others), ReviewsAnswer'
  PROVE  EvidenceInv'
<1>1. Others \notin Launches /\ Others \notin Recorders
  BY ProcessesAssumption DEF Processes
<1>2. QED
  BY <1>1, OthersUndisturbed DEF EvidenceInv

----------------------------------------------------------------------------
\* A step that changes what is the process's own, and adds temporary files.

OwnStep(p) ==
  /\ run' \in [Processes -> RunStates]
  /\ \A q \in Processes \ {p} : run'[q] = run[q]
  /\ artifacts' \in [Launches -> Conditions]
  /\ \A l \in Launches \ {p} : artifacts'[l] = artifacts[l]
  /\ temp \subseteq temp' /\ temp' \subseteq Items
  /\ UNCHANGED <<journal, contract, commits, bytes, payloads, events, swept>>

LEMMA OwnStepIsStep ==
  ASSUME Typed, NEW p, OwnStep(p)
  PROVE  StepOf(p)
<1>1. UNCHANGED <<journal, contract, commits, bytes, payloads, events, swept>>
  BY DEF OwnStep
<1>2. Typed'
  BY <1>1 DEF Typed, OwnStep
<1>3. Grows
  <2>1. Len(journal) \in Nat /\ Len(commits) \in Nat
    BY DEF Typed
  <2>2. \A it : KeptOrSwept(it) <=> KeptOrSwept(it)'
    BY <1>1 DEF KeptOrSwept, Range
  <2>3. QED
    BY <1>1, <2>1, <2>2 DEF Grows, OwnStep
<1>4. QED
  BY <1>1, <1>2, <1>3 DEF StepOf, OwnStep

\* Before its record a launch has no review in the journal.
LEMMA OwnStepBeforeReview ==
  ASSUME EvidenceInv, NEW l \in Launches, OwnStep(l),
         run[l].pc \in Reviewed /\ run[l].level # "none"
           => /\ run'[l].pc \in Reviewed
              /\ run'[l].level = run[l].level /\ run'[l].lane = run[l].lane
              /\ run'[l].saw = run[l].saw /\ run'[l].prev = run[l].prev
              /\ run'[l].subject = run[l].subject
  PROVE  ReviewsAnswer'
<1>1. journal' = journal
  BY DEF OwnStep
<1>2. \A k \in Launches \ {l} : run'[k] = run[k]
  BY DEF OwnStep, Processes
<1>3. QED
  BY <1>1, <1>2, ReviewsGoOnAnswering DEF EvidenceInv

RunMoves(p) ==
  /\ run' \in [Processes -> RunStates]
  /\ \A q \in Processes \ {p} : run'[q] = run[q]

LEMMA Moved ==
  ASSUME Typed, NEW p \in Processes, NEW s \in RunStates,
         run' = [run EXCEPT ![p] = s]
  PROVE  RunMoves(p) /\ run'[p] = s
BY DEF Typed, RunMoves

LEMMA Went ==
  ASSUME Typed, NEW p \in Processes, NEW pc \in RunPlaces, Goes(p, pc)
  PROVE  /\ RunMoves(p) /\ SameHeld(p)
         /\ run'[p].pc = pc /\ run'[p].told = run[p].told
<1> DEFINE s == [run[p] EXCEPT !.pc = pc]
<1>1. run' = [run EXCEPT ![p] = s]
  BY DEF Goes
<1>2. run[p] \in RunStates
  BY DEF Typed
<1>3. s \in RunStates
  BY <1>2 DEF RunStates
<1>4. RunMoves(p) /\ run'[p] = s
  BY <1>1, <1>3, Moved
<1>5. QED
  BY <1>2, <1>4 DEF SameHeld, RunStates

LEMMA EndedSaying ==
  ASSUME Typed, NEW p \in Processes, NEW pc \in RunPlaces, NEW told \in Told,
         Ends(p, pc, told)
  PROVE  /\ RunMoves(p) /\ SameHeld(p)
         /\ run'[p].pc = pc /\ run'[p].told = run[p].told \cup told
<1> DEFINE s == [run[p] EXCEPT !.pc = pc, !.told = @ \cup told]
<1>1. run' = [run EXCEPT ![p] = s]
  BY DEF Ends
<1>2. run[p] \in RunStates
  BY DEF Typed
<1>3. s \in RunStates
  BY <1>2 DEF RunStates, Told
<1>4. RunMoves(p) /\ run'[p] = s
  BY <1>1, <1>3, Moved
<1>5. QED
  BY <1>2, <1>4 DEF SameHeld, RunStates

LEMMA NotStartedIs ==
  /\ NotStarted \in RunStates
  /\ NotStarted.pc = "idle" /\ NotStarted.lane = "none" /\ NotStarted.level = "none"
  /\ NotStarted.told = {} /\ NotStarted.wrote = {}
  /\ NotStarted.subject = 0 /\ NotStarted.contract = 0 /\ NotStarted.prev = 0
  /\ NotStarted.saw.subject = 0 /\ NotStarted.saw.contract = 0
  /\ NotStarted.loaded = 0
<1>1. NotGiven \in [subject : Nat, contract : Nat, bytes : {"none", "pinned"}]
  BY DEF NotGiven
<1>2. NotStarted \in RunStates
  BY <1>1 DEF NotStarted, RunStates, RunPlaces, Early, Lanes, Told
<1>3. QED
  BY <1>2 DEF NotStarted, NotGiven

\* What a launch has to show for a step of its own before its review.
LEMMA BeforeReview ==
  ASSUME EvidenceInv, NEW l \in Launches, OwnStep(l),
         run[l].pc \notin Reviewed \/ run[l].level = "none",
         Stands(l)', Given(l)', TellsTrue(l)', SaysAll(l)'
  PROVE  EvidenceInv'
BY OwnStepBeforeReview, OwnStepIsStep, LaunchSteps DEF EvidenceInv, Processes

LEMMA QuietStep ==
  ASSUME Typed, NEW p, RunMoves(p), UNCHANGED <<shared, moves, swept>>
  PROVE  OwnStep(p)
BY DEF Typed, RunMoves, OwnStep, shared

LEMMA LoadForReviewKeeps ==
  ASSUME EvidenceInv, NEW l \in Launches, LoadForReview(l)
  PROVE  EvidenceInv'
<1>1. run[l] \in RunStates /\ run[l].pc = "idle" /\ run \in [Processes -> RunStates]
  BY DEF EvidenceInv, Typed, Processes, LoadForReview, IsAt
<1>2. PICK lane \in {"commit", "sidecar", "finding", "dry"} :
        run' = [run EXCEPT ![l] =
          [NotStarted EXCEPT
             !.lane = lane,
             !.pc = CASE lane = "finding" -> "verify"
                      [] lane = "dry" -> "run"
                      [] OTHER -> "resolve",
             !.prev = IF lane = "dry" THEN 0 ELSE Latest(journal, "review"),
             !.loaded = Len(journal),
             !.subject = IF lane = "finding" THEN Latest(journal, "finding") ELSE 0]]
  BY DEF LoadForReview
<1> DEFINE pc == CASE lane = "finding" -> "verify"
                   [] lane = "dry" -> "run" [] OTHER -> "resolve"
           prev == IF lane = "dry" THEN 0 ELSE Latest(journal, "review")
           subject == IF lane = "finding" THEN Latest(journal, "finding") ELSE 0
           s == [NotStarted EXCEPT !.lane = lane, !.pc = pc, !.prev = prev,
                                   !.loaded = Len(journal), !.subject = subject]
<1>3. run' = [run EXCEPT ![l] = s]
  BY <1>2
<1>4. /\ Latest(journal, "review") \in Nat
      /\ Latest(journal, "finding") \in DOMAIN journal
      /\ journal[Latest(journal, "finding")].type = "finding"
      /\ Len(journal) \in Nat /\ DOMAIN journal = 1 .. Len(journal)
      /\ Latest(journal, "finding") \in Nat
  BY LatestIsThere DEF EvidenceInv, Typed, FindingThere
<1>5. /\ pc \in {"verify", "resolve", "run"} /\ (pc = "verify" <=> lane = "finding")
      /\ prev \in Nat /\ subject \in Nat
      /\ lane = "finding" =>
           subject \in DOMAIN journal /\ journal[subject].type = "finding"
      /\ lane # "finding" => subject = 0
      /\ lane \in Recording => prev = Latest(journal, "review")
      /\ pc = "run" => lane # "finding"
  BY <1>4 DEF Recording
<1> HIDE DEF pc, prev, subject
<1>6. /\ s \in RunStates
      /\ s.pc = pc /\ s.lane = lane /\ s.prev = prev /\ s.subject = subject
      /\ s.loaded = Len(journal)
      /\ s.level = NotStarted.level /\ s.told = NotStarted.told
      /\ s.wrote = NotStarted.wrote /\ s.saw = NotStarted.saw
      /\ s.contract = NotStarted.contract
  <2>1. s \in RunStates
    BY <1>4, <1>5, NotStartedIs DEF RunStates, RunPlaces, Early, Lanes
  <2>2. QED
    BY <2>1, NotStartedIs DEF RunStates
<1> HIDE DEF s
<1>7. OwnStep(l) /\ run'[l] = s
  BY <1>3, <1>6, Moved
     DEF OwnStep, LoadForReview, RunMoves, EvidenceInv, Typed, Processes, shared
<1>8. UNCHANGED <<journal, commits>>
  BY <1>7 DEF OwnStep
<1>9. Stands(l)'
  BY <1>5, <1>6, <1>7, NotStartedIs DEF Stands, Recording, KeepPlaces, Early
<1>10. Given(l)'
  <2>1. SubSeq(journal, 1, Len(journal)) = journal
    BY WholePrefix DEF EvidenceInv, Typed
  <2>2. s.pc \notin {"verify", "resolve"} => s.subject = 0
    BY <1>5, <1>6
  <2>3. s.saw.subject = 0 /\ s.saw.contract = 0 /\ s.contract = 0
    BY <1>6, NotStartedIs
  <2>4. s.lane = "finding" =>
          /\ s.subject \in DOMAIN journal /\ journal[s.subject].type = "finding"
          /\ s.pc = "verify"
    BY <1>5, <1>6
  <2>5. s.pc \in {"verify", "resolve", "run"}
        /\ (s.pc = "verify" => s.lane = "finding")
    BY <1>5, <1>6
  <2>6. s.loaded <= Len(journal)
    BY <1>4, <1>6
  <2>7. s.lane \in Recording =>
          s.prev = Latest(SubSeq(journal, 1, s.loaded), "review")
    BY <1>5, <1>6, <2>1
  <2>8. QED
    BY <1>7, <1>8, <2>2, <2>3, <2>4, <2>5, <2>6, <2>7 DEF Given
<1>11. TellsTrue(l)' /\ SaysAll(l)'
  BY <1>5, <1>6, <1>7, NotStartedIs DEF TellsTrue, ToldTrue, SaysAll, Ended
<1>12. QED
  BY <1>1, <1>7, <1>9, <1>10, <1>11, BeforeReview DEF Reviewed, KeepPlaces

LEMMA ResolveCommitKeeps ==
  ASSUME EvidenceInv, NEW l \in Launches, ResolveCommit(l)
  PROVE  EvidenceInv'
<1> DEFINE s == [run[l] EXCEPT !.subject = Len(commits), !.pc = "prompt"]
<1>1. run[l] \in RunStates /\ run[l].pc = "resolve" /\ Typed
  BY DEF EvidenceInv, Typed, Processes, ResolveCommit, IsAt
<1>2. Len(commits) \in DOMAIN commits /\ Len(commits) \in Nat
  BY DEF EvidenceInv, Typed, FindingThere
<1>3. run' = [run EXCEPT ![l] = s] /\ UNCHANGED <<shared, moves, swept>>
  BY DEF ResolveCommit
<1>4. s \in RunStates
  BY <1>1, <1>2 DEF RunStates, RunPlaces, Early
<1>5. OwnStep(l) /\ run'[l] = s
  BY <1>1, <1>3, <1>4, Moved, QuietStep DEF Processes
<1>6. /\ run'[l].pc = "prompt" /\ run'[l].subject = Len(commits)
      /\ run'[l].lane = run[l].lane /\ run'[l].level = run[l].level
      /\ run'[l].told = run[l].told /\ run'[l].wrote = run[l].wrote
      /\ run'[l].prev = run[l].prev /\ run'[l].loaded = run[l].loaded
  BY <1>1, <1>5 DEF RunStates
<1>7. UNCHANGED <<journal, commits>>
  BY <1>5 DEF OwnStep
<1>8. Stands(l) /\ Given(l) /\ TellsTrue(l)
  BY DEF EvidenceInv
<1>9. Stands(l)'
  BY <1>1, <1>6, <1>8 DEF Stands, Early, KeepPlaces
<1>10. Given(l)'
  BY <1>1, <1>2, <1>6, <1>7, <1>8 DEF Given
<1>11. TellsTrue(l)' /\ SaysAll(l)'
  BY <1>1, <1>6, <1>8
     DEF TellsTrue, ToldTrue, SaysAll, Ended, Stands, Early
<1>12. QED
  BY <1>1, <1>5, <1>9, <1>10, <1>11, BeforeReview DEF Reviewed, KeepPlaces

LEMMA VerifyArtifactsKeeps ==
  ASSUME EvidenceInv, NEW l \in Launches, VerifyArtifacts(l)
  PROVE  EvidenceInv'
<1> DEFINE s == [run[l] EXCEPT !.held = bytes, !.pc = "contract"]
<1>1. run[l] \in RunStates /\ run[l].pc = "verify" /\ Typed
  BY DEF EvidenceInv, Typed, Processes, VerifyArtifacts, IsAt
<1>2. bytes = "pinned"
  BY DEF VerifyArtifacts
<1>3. run' = [run EXCEPT ![l] = s] /\ UNCHANGED <<shared, moves, swept>>
  BY DEF VerifyArtifacts
<1>4. s \in RunStates
  BY <1>1, <1>2 DEF RunStates, RunPlaces, Early
<1>5. OwnStep(l) /\ run'[l] = s
  BY <1>1, <1>3, <1>4, Moved, QuietStep DEF Processes
<1>6. /\ run'[l].pc = "contract" /\ run'[l].held = "pinned"
      /\ run'[l].subject = run[l].subject
      /\ run'[l].lane = run[l].lane /\ run'[l].level = run[l].level
      /\ run'[l].told = run[l].told /\ run'[l].wrote = run[l].wrote
      /\ run'[l].prev = run[l].prev /\ run'[l].loaded = run[l].loaded
  BY <1>1, <1>2, <1>5 DEF RunStates
<1>7. UNCHANGED <<journal, commits>>
  BY <1>5 DEF OwnStep
<1>8. Stands(l) /\ Given(l) /\ TellsTrue(l)
  BY DEF EvidenceInv
<1>9. Stands(l)'
  BY <1>1, <1>6, <1>8 DEF Stands, Early, KeepPlaces
<1>10. Given(l)'
  BY <1>1, <1>6, <1>7, <1>8 DEF Given
<1>11. TellsTrue(l)' /\ SaysAll(l)'
  BY <1>1, <1>6, <1>8
     DEF TellsTrue, ToldTrue, SaysAll, Ended, Stands, Early
<1>12. QED
  BY <1>1, <1>5, <1>9, <1>10, <1>11, BeforeReview DEF Reviewed, KeepPlaces

LEMMA ReadContractKeeps ==
  ASSUME EvidenceInv, NEW l \in Launches, ReadContract(l)
  PROVE  EvidenceInv'
<1> DEFINE s == [run[l] EXCEPT !.contract = contract, !.pc = "prompt"]
<1>1. run[l] \in RunStates /\ run[l].pc = "contract" /\ Typed
  BY DEF EvidenceInv, Typed, Processes, ReadContract, IsAt
<1>2. contract \in Nat
  BY <1>1 DEF Typed
<1>3. run' = [run EXCEPT ![l] = s] /\ UNCHANGED <<shared, moves, swept>>
  BY DEF ReadContract
<1>4. s \in RunStates
  BY <1>1, <1>2 DEF RunStates, RunPlaces, Early
<1>5. OwnStep(l) /\ run'[l] = s
  BY <1>1, <1>3, <1>4, Moved, QuietStep DEF Processes
<1>6. /\ run'[l].pc = "prompt" /\ run'[l].held = run[l].held
      /\ run'[l].subject = run[l].subject
      /\ run'[l].lane = run[l].lane /\ run'[l].level = run[l].level
      /\ run'[l].told = run[l].told /\ run'[l].wrote = run[l].wrote
      /\ run'[l].prev = run[l].prev /\ run'[l].loaded = run[l].loaded
  BY <1>1, <1>5 DEF RunStates
<1>7. UNCHANGED <<journal, commits>>
  BY <1>5 DEF OwnStep
<1>8. Stands(l) /\ Given(l) /\ TellsTrue(l)
  BY DEF EvidenceInv
<1>9. Stands(l)'
  BY <1>1, <1>6, <1>8 DEF Stands, Early, KeepPlaces
<1>10. Given(l)'
  BY <1>1, <1>6, <1>7, <1>8 DEF Given
<1>11. TellsTrue(l)' /\ SaysAll(l)'
  BY <1>1, <1>6, <1>8
     DEF TellsTrue, ToldTrue, SaysAll, Ended, Stands, Early
<1>12. QED
  BY <1>1, <1>5, <1>9, <1>10, <1>11, BeforeReview DEF Reviewed, KeepPlaces

LEMMA BuildPromptKeeps ==
  ASSUME EvidenceInv, NEW l \in Launches, BuildPrompt(l)
  PROVE  EvidenceInv'
<1> DEFINE text == PromptContract(l)
           saw == [subject |-> run[l].subject, contract |-> text,
                   bytes |-> run[l].held]
           s == [run[l] EXCEPT !.contract = text, !.pc = "run", !.saw = saw]
<1>1. run[l] \in RunStates /\ run[l].pc = "prompt" /\ Typed
  BY DEF EvidenceInv, Typed, Processes, BuildPrompt, IsAt
<1>2. Stands(l) /\ Given(l) /\ TellsTrue(l)
  BY DEF EvidenceInv
<1>3. text \in Nat
  BY <1>1, <1>2 DEF PromptContract, Given, Typed, RunStates
<1>4. run' = [run EXCEPT ![l] = s] /\ UNCHANGED <<shared, moves, swept>>
  BY DEF BuildPrompt, SnapshotBytes
<1> HIDE DEF text
<1>5. saw \in [subject : Nat, contract : Nat, bytes : {"none", "pinned"}]
  BY <1>1, <1>3 DEF RunStates
<1>6. s \in RunStates
  BY <1>1, <1>3, <1>5 DEF RunStates, RunPlaces, Early
<1>7. OwnStep(l) /\ run'[l] = s
  BY <1>1, <1>4, <1>6, Moved, QuietStep DEF Processes
<1>8. /\ run'[l].pc = "run" /\ run'[l].saw = saw /\ run'[l].contract = text
      /\ run'[l].subject = run[l].subject
      /\ run'[l].lane = run[l].lane /\ run'[l].level = run[l].level
      /\ run'[l].told = run[l].told /\ run'[l].wrote = run[l].wrote
      /\ run'[l].prev = run[l].prev /\ run'[l].loaded = run[l].loaded
  BY <1>1, <1>7 DEF RunStates
<1>9. UNCHANGED <<journal, commits>>
  BY <1>7 DEF OwnStep
<1>10. Stands(l)'
  BY <1>1, <1>2, <1>8 DEF Stands, Early, KeepPlaces
<1>11. Given(l)'
  BY <1>1, <1>2, <1>8, <1>9 DEF Given
<1>12. TellsTrue(l)' /\ SaysAll(l)'
  BY <1>1, <1>2, <1>8
     DEF TellsTrue, ToldTrue, SaysAll, Ended, Stands, Early
<1>13. QED
  BY <1>1, <1>7, <1>10, <1>11, <1>12, BeforeReview DEF Reviewed, KeepPlaces

LEMMA RunReviewerKeeps ==
  ASSUME EvidenceInv, NEW l \in Launches, RunReviewer(l)
  PROVE  EvidenceInv'
<1>1. run[l] \in RunStates /\ run[l].pc = "run" /\ Typed
  BY DEF EvidenceInv, Typed, Processes, RunReviewer, IsAt
<1>2. PICK wrote \in {{"output"}, {"output", "errors"}} :
        run' = [run EXCEPT ![l].wrote = wrote,
                  ![l].pc = IF "errors" \in wrote THEN Head(KeepOrder(l)) ELSE "parse"]
  BY DEF RunReviewer
<1> DEFINE pc == IF "errors" \in wrote THEN "payload" ELSE "parse"
           s == [run[l] EXCEPT !.wrote = wrote, !.pc = pc]
<1>3. Head(KeepOrder(l)) = "payload"
  BY DEF KeepOrder, ReviewKeeps
<1>4. run' = [run EXCEPT ![l] = s] /\ UNCHANGED <<shared, moves, swept>>
  BY <1>2, <1>3 DEF RunReviewer
<1>5. pc \in {"payload", "parse"} /\ (pc = "parse" => "errors" \notin wrote)
  OBVIOUS
<1> HIDE DEF pc
<1>6. s \in RunStates
  BY <1>1, <1>5 DEF RunStates, RunPlaces, KeepPlaces
<1>7. OwnStep(l) /\ run'[l] = s
  BY <1>1, <1>4, <1>6, Moved, QuietStep DEF Processes
<1>8. /\ run'[l].pc = pc /\ run'[l].wrote = wrote /\ run'[l].saw = run[l].saw
      /\ run'[l].contract = run[l].contract
      /\ run'[l].subject = run[l].subject
      /\ run'[l].lane = run[l].lane /\ run'[l].level = run[l].level
      /\ run'[l].told = run[l].told
      /\ run'[l].prev = run[l].prev /\ run'[l].loaded = run[l].loaded
  BY <1>1, <1>7 DEF RunStates
<1>9. UNCHANGED <<journal, commits>>
  BY <1>7 DEF OwnStep
<1>10. Stands(l) /\ Given(l)
  BY DEF EvidenceInv
<1>11. Stands(l)'
  BY <1>1, <1>5, <1>8, <1>10 DEF Stands, Early, KeepPlaces
<1>12. Given(l)'
  BY <1>1, <1>5, <1>8, <1>9, <1>10 DEF Given
<1>13. TellsTrue(l)' /\ SaysAll(l)'
  BY <1>1, <1>5, <1>8, <1>10
     DEF TellsTrue, ToldTrue, SaysAll, Ended, Stands, Early, KeepPlaces
<1>14. QED
  BY <1>1, <1>7, <1>11, <1>12, <1>13, BeforeReview DEF Reviewed, KeepPlaces

LEMMA ReviewerFailsKeeps ==
  ASSUME EvidenceInv, NEW l \in Launches, ReviewerFails(l)
  PROVE  EvidenceInv'
<1>1. run[l] \in RunStates /\ run[l].pc = "run" /\ Typed
  BY DEF EvidenceInv, Typed, Processes, ReviewerFails, IsAt
<1>2. PICK wrote \in SUBSET {"output", "errors"} :
        run' = [run EXCEPT ![l].pc = "failed", ![l].wrote = wrote,
                  ![l].told = {<<what, "message">> :
                     what \in IF "errors" \in wrote THEN {"errors"} ELSE wrote}]
  BY DEF ReviewerFails
<1> DEFINE told == {<<what, "message">> :
                      what \in IF "errors" \in wrote THEN {"errors"} ELSE wrote}
           s == [run[l] EXCEPT !.pc = "failed", !.wrote = wrote, !.told = told]
<1>3. run' = [run EXCEPT ![l] = s] /\ UNCHANGED <<shared, moves, swept>>
  BY <1>2 DEF ReviewerFails
<1>4. told \in Told /\ \A t \in told : t[2] = "message"
  BY DEF Told, Whereabouts
<1> HIDE DEF told
<1>5. s \in RunStates
  BY <1>1, <1>4 DEF RunStates, RunPlaces
<1>6. OwnStep(l) /\ run'[l] = s
  BY <1>1, <1>3, <1>5, Moved, QuietStep DEF Processes
<1>7. /\ run'[l].pc = "failed" /\ run'[l].told = told /\ run'[l].saw = run[l].saw
      /\ run'[l].contract = run[l].contract
      /\ run'[l].subject = run[l].subject
      /\ run'[l].lane = run[l].lane /\ run'[l].level = run[l].level
      /\ run'[l].prev = run[l].prev /\ run'[l].loaded = run[l].loaded
  BY <1>1, <1>6 DEF RunStates
<1>8. UNCHANGED <<journal, commits>>
  BY <1>6 DEF OwnStep
<1>9. Stands(l) /\ Given(l)
  BY DEF EvidenceInv
<1>10. Stands(l)'
  BY <1>1, <1>7, <1>9 DEF Stands, Early, KeepPlaces
<1>11. Given(l)'
  BY <1>1, <1>7, <1>8, <1>9 DEF Given
<1>12. TellsTrue(l)' /\ SaysAll(l)'
  BY <1>4, <1>7 DEF TellsTrue, ToldTrue, SaysAll, Ended
<1>13. QED
  BY <1>1, <1>6, <1>10, <1>11, <1>12, BeforeReview DEF Reviewed, KeepPlaces

LEMMA ReadVerdictKeeps ==
  ASSUME EvidenceInv, NEW l \in Launches, ReadVerdict(l)
  PROVE  EvidenceInv'
<1>1. run[l] \in RunStates /\ run[l].pc = "parse" /\ run[l].lane # "dry" /\ Typed
  BY DEF EvidenceInv, Typed, Processes, ReadVerdict, IsAt
<1>2. PICK fits \in MarkupFits, level \in {"commit", "hash", "off"} :
        run' = [run EXCEPT ![l].pc = "admit", ![l].level = level,
                           ![l].markup = IF fits THEN "fits" ELSE "breaks"]
  BY DEF ReadVerdict
<1> DEFINE s == [run[l] EXCEPT !.pc = "admit", !.level = level, !.markup = "fits"]
<1>3. fits = TRUE
  BY <1>2, MarkupAlwaysFits DEF MarkupFits
<1>4. run' = [run EXCEPT ![l] = s] /\ UNCHANGED <<shared, moves, swept>>
  BY <1>2, <1>3 DEF ReadVerdict
<1>5. s \in RunStates
  BY <1>1 DEF RunStates, RunPlaces
<1>6. OwnStep(l) /\ run'[l] = s
  BY <1>1, <1>4, <1>5, Moved, QuietStep DEF Processes
<1>7. /\ run'[l].pc = "admit" /\ run'[l].saw = run[l].saw
      /\ run'[l].contract = run[l].contract
      /\ run'[l].subject = run[l].subject
      /\ run'[l].lane = run[l].lane /\ run'[l].level = level
      /\ run'[l].told = run[l].told /\ run'[l].wrote = run[l].wrote
      /\ run'[l].prev = run[l].prev /\ run'[l].loaded = run[l].loaded
  BY <1>1, <1>6 DEF RunStates
<1>8. UNCHANGED <<journal, commits>>
  BY <1>6 DEF OwnStep
<1>9. Stands(l) /\ Given(l) /\ TellsTrue(l) /\ SaysAll(l)
  BY DEF EvidenceInv
<1>10. Stands(l)'
  BY <1>1, <1>7, <1>9 DEF Stands, Early, KeepPlaces
<1>11. Given(l)'
  BY <1>1, <1>7, <1>8, <1>9 DEF Given
<1>12. TellsTrue(l)' /\ SaysAll(l)'
  <2>1. Grows
    BY <1>1, <1>6, OwnStepIsStep DEF StepOf, Processes
  <2>2. TellsTrue(l)'
    BY <1>1, <1>7, <1>9, <2>1, StillThere DEF TellsTrue, ToldTrue, Processes, Item
  <2>3. SaysAll(l)'
    BY <1>1, <1>7, <1>9 DEF SaysAll, Says, Ended, KeepPlaces
  <2>4. QED
    BY <2>2, <2>3
<1>13. QED
  BY <1>1, <1>6, <1>9, <1>10, <1>11, <1>12, BeforeReview DEF Reviewed, KeepPlaces

----------------------------------------------------------------------------
\* The launcher, once the reviewer has been paid for.

\* A launch ends before its review.  What it says of the output is true, and
\* only a dry run says nothing.
LEMMA StoppingKeeps ==
  ASSUME EvidenceInv, NEW l \in Launches, NEW pc \in {"refused", "dry"},
         NEW told, Ends(l, pc, told),
         \/ told = {<<"output", "temp">>} /\ Item(l, "output") \in temp'
         \/ told = {<<"output", "nowhere">>}
         \/ told = {} /\ run[l].lane = "dry",
         temp' \in {temp, temp \cup {Item(l, "output")}},
         run[l].pc \in {"parse", "admit", "prose", "review"},
         artifacts' \in [Launches -> Conditions],
         \A k \in Launches \ {l} : artifacts'[k] = artifacts[k],
         UNCHANGED <<journal, contract, commits, bytes, payloads, events, swept>>
  PROVE  EvidenceInv'
<1>1. Typed /\ l \in Processes
  BY DEF EvidenceInv, Processes
<1>2. /\ RunMoves(l) /\ SameHeld(l)
      /\ run'[l].pc = pc
      /\ run'[l].told = run[l].told \cup told
  <2>1. told \in Told
    BY DEF Told, Whereabouts
  <2>2. pc \in RunPlaces
    BY DEF RunPlaces
  <2>3. QED
    BY <1>1, <2>1, <2>2, EndedSaying
<1>3. OwnStep(l)
  BY <1>1, <1>2, ItemsOf DEF OwnStep, RunMoves, Typed
<1>4. Typed' /\ Grows
  BY <1>1, <1>3, OwnStepIsStep DEF StepOf
<1>5. Stands(l) /\ Given(l) /\ TellsTrue(l) /\ SaysAll(l)
  BY DEF EvidenceInv
<1>6. Stands(l)'
  BY <1>2, <1>5 DEF Stands, Early, KeepPlaces, SameHeld
<1>7. Given(l)'
  BY <1>1, <1>2, <1>4, <1>5, StillGiven
<1>8. TellsTrue(l)'
  <2>1. ASSUME NEW t \in run'[l].told
        PROVE  /\ t[2] = "temp" => Item(l, t[1]) \in temp'
               /\ t[2] = "log" => KeptOrSwept(Item(l, t[1]))'
               /\ t[2] # "artifact"
    <3>1. CASE t \in run[l].told
      BY <1>1, <1>4, <1>5, <3>1, StillThere DEF TellsTrue
    <3>2. CASE t = <<"output", "temp">> /\ t \in told
      BY <3>2
    <3>3. CASE t = <<"output", "nowhere">>
      BY <3>3
    <3>4. QED
      BY <1>2, <2>1, <3>1, <3>2, <3>3
  <2>2. QED
    BY <1>2, <2>1 DEF TellsTrue, ToldTrue, Item
<1>9. SaysAll(l)'
  <2>1. "errors" \in run[l].wrote => Says(l, "errors")
    BY <1>5 DEF SaysAll, KeepPlaces
  <2>2. "errors" \in run[l].wrote => Says(l, "errors")'
    BY <1>2, <2>1 DEF Says
  <2>3. run[l].lane = "dry" \/ Says(l, "output")'
    <3>1. told # {} => \E t \in told : t[1] = "output"
      OBVIOUS
    <3>2. QED
      BY <1>2, <3>1 DEF Says
  <2>4. QED
    BY <1>2, <2>2, <2>3 DEF SaysAll, SameHeld, Ended
<1>10. run[l].pc \notin Reviewed
  BY DEF Reviewed, KeepPlaces
<1>11. QED
  BY <1>3, <1>6, <1>7, <1>8, <1>9, <1>10, BeforeReview

LEMMA RejectsKeeps ==
  ASSUME EvidenceInv, NEW l \in Launches, Rejects(l),
         run[l].pc \in {"parse", "admit", "prose", "review"},
         artifacts' \in [Launches -> Conditions],
         \A k \in Launches \ {l} : artifacts'[k] = artifacts[k],
         UNCHANGED <<journal, contract, commits, bytes, payloads, events, swept>>
  PROVE  EvidenceInv'
<1>1. CASE /\ temp' = temp \cup {Item(l, "output")}
           /\ Ends(l, "refused", {<<"output", "temp">>})
  <2>1. Item(l, "output") \in temp'
    BY <1>1
  <2>2. QED
    BY <1>1, <2>1, StoppingKeeps
<1>2. CASE temp' = temp /\ Ends(l, "refused", {<<"output", "nowhere">>})
  BY <1>2, StoppingKeeps
<1>3. QED
  BY <1>1, <1>2 DEF Rejects

LEMMA RejectVerdictKeeps ==
  ASSUME EvidenceInv, NEW l \in Launches, RejectVerdict(l)
  PROVE  EvidenceInv'
<1>1. /\ run[l].pc = "parse" /\ artifacts' = artifacts
      /\ artifacts \in [Launches -> Conditions]
      /\ UNCHANGED <<journal, contract, commits, bytes, payloads, events, swept>>
  BY DEF RejectVerdict, IsAt, EvidenceInv, Typed
<1>2. CASE Rejects(l)
  BY <1>1, <1>2, RejectsKeeps
<1>3. CASE /\ temp' = temp \cup {Item(l, "output")}
           /\ Ends(l, "refused", {<<"output", "temp">>})
  <2>1. Item(l, "output") \in temp'
    BY <1>3
  <2>2. QED
    BY <1>1, <1>3, <2>1, StoppingKeeps
<1>4. CASE run[l].lane = "dry" /\ temp' = temp /\ Ends(l, "refused", {})
  BY <1>1, <1>4, StoppingKeeps
<1>5. QED
  BY <1>2, <1>3, <1>4 DEF RejectVerdict

LEMMA EndDryRunKeeps ==
  ASSUME EvidenceInv, NEW l \in Launches, EndDryRun(l)
  PROVE  EvidenceInv'
<1>1. PICK pc \in {"dry", "refused"} : Ends(l, pc, {})
  BY DEF EndDryRun
<1>2. /\ run[l].pc = "parse" /\ run[l].lane = "dry"
      /\ temp' = temp /\ artifacts' = artifacts
      /\ artifacts \in [Launches -> Conditions]
      /\ UNCHANGED <<journal, contract, commits, bytes, payloads, events, swept>>
  BY DEF EndDryRun, IsAt, EvidenceInv, Typed, shared
<1>3. QED
  BY <1>1, <1>2, StoppingKeeps

\* A step to another place before the review, which says nothing.
LEMMA GoesOn ==
  ASSUME EvidenceInv, NEW l \in Launches, NEW pc \in {"prose", "review"},
         Goes(l, pc), run[l].pc \in {"admit", "prose"},
         pc = "prose" => run[l].level = "commit",
         pc = "review" /\ run[l].level = "commit" => artifacts'[l] = "whole",
         artifacts' \in [Launches -> Conditions],
         \A k \in Launches \ {l} : artifacts'[k] = artifacts[k],
         UNCHANGED <<journal, contract, commits, bytes, payloads, events, temp,
                     swept>>
  PROVE  EvidenceInv'
<1>1. Typed /\ l \in Processes
  BY DEF EvidenceInv, Processes
<1>2. /\ RunMoves(l) /\ SameHeld(l)
      /\ run'[l].pc = pc /\ run'[l].told = run[l].told
  BY <1>1, Went DEF RunPlaces
<1>3. OwnStep(l)
  BY <1>1, <1>2 DEF OwnStep, RunMoves, Typed
<1>4. Typed' /\ Grows
  BY <1>1, <1>3, OwnStepIsStep DEF StepOf
<1>5. Stands(l) /\ Given(l) /\ TellsTrue(l) /\ SaysAll(l)
  BY DEF EvidenceInv
<1>6. Stands(l)'
  BY <1>1, <1>2, <1>5 DEF Stands, Early, KeepPlaces, SameHeld
<1>7. Given(l)'
  BY <1>1, <1>2, <1>4, <1>5, StillGiven
<1>8. TellsTrue(l)' /\ SaysAll(l)'
  <2>1. TellsTrue(l)'
    BY <1>1, <1>2, <1>4, <1>5, StillThere DEF TellsTrue, ToldTrue, Item
  <2>2. SaysAll(l)'
    BY <1>2, <1>5 DEF SaysAll, Says, SameHeld, KeepPlaces, Ended
  <2>3. QED
    BY <2>1, <2>2
<1>9. QED
  BY <1>1, <1>3, <1>6, <1>7, <1>8, BeforeReview DEF Reviewed, KeepPlaces

LEMMA AdmitReviewKeeps ==
  ASSUME EvidenceInv, NEW l \in Launches, AdmitReview(l)
  PROVE  EvidenceInv'
<1>1. /\ run[l].pc = "admit"
      /\ artifacts \in [Launches -> Conditions] /\ artifacts' = artifacts
      /\ UNCHANGED <<journal, contract, commits, bytes, payloads, events, swept>>
  BY DEF AdmitReview, IsAt, EvidenceInv, Typed
<1>2. CASE Rejects(l)
  BY <1>1, <1>2, RejectsKeeps
<1>3. CASE /\ Goes(l, IF run[l].level = "commit" THEN "prose" ELSE "review")
           /\ temp' = temp
  <2> DEFINE pc == IF run[l].level = "commit" THEN "prose" ELSE "review"
  <2>1. pc \in {"prose", "review"} /\ (pc = "prose" <=> run[l].level = "commit")
    OBVIOUS
  <2>2. Goes(l, pc)
    BY <1>3
  <2> HIDE DEF pc
  <2>3. QED
    BY <1>1, <1>3, <2>1, <2>2, GoesOn
<1>4. QED
  BY <1>2, <1>3 DEF AdmitReview

LEMMA WriteArtifactKeeps ==
  ASSUME EvidenceInv, NEW l \in Launches, WriteArtifact(l)
  PROVE  EvidenceInv'
<1>1. /\ run[l].pc = "prose" /\ artifacts \in [Launches -> Conditions]
      /\ UNCHANGED <<journal, contract, commits, bytes, payloads, events, swept>>
  BY DEF WriteArtifact, IsAt, EvidenceInv, Typed
<1>2. CASE /\ artifacts' = [artifacts EXCEPT ![l] = "whole"]
           /\ Goes(l, "review") /\ temp' = temp
  <2>1. /\ artifacts' \in [Launches -> Conditions] /\ artifacts'[l] = "whole"
        /\ \A k \in Launches \ {l} : artifacts'[k] = artifacts[k]
    BY <1>1, <1>2 DEF Conditions
  <2>2. QED
    BY <1>1, <1>2, <2>1, GoesOn
<1>3. CASE /\ artifacts' \in {artifacts, [artifacts EXCEPT ![l] = "torn"]}
           /\ Rejects(l)
  <2>1. /\ artifacts' \in [Launches -> Conditions]
        /\ \A k \in Launches \ {l} : artifacts'[k] = artifacts[k]
    BY <1>1, <1>3 DEF Conditions
  <2>2. QED
    BY <1>1, <1>3, <2>1, RejectsKeeps
<1>4. QED
  BY <1>2, <1>3 DEF WriteArtifact

LEMMA ReviewRefusedKeeps ==
  ASSUME EvidenceInv, NEW l \in Launches, ReviewRefused(l)
  PROVE  EvidenceInv'
<1>1. /\ run[l].pc = "review" /\ Typed /\ l \in Processes
      /\ artifacts \in [Launches -> Conditions] /\ artifacts' = artifacts
      /\ UNCHANGED <<journal, contract, commits, bytes, payloads, events, swept>>
  BY DEF ReviewRefused, IsAt, EvidenceInv, Typed, Processes
<1>2. CASE Rejects(l)
  BY <1>1, <1>2, RejectsKeeps
<1>3. CASE /\ LeavesArtifact(l) /\ temp' = temp
           /\ Ends(l, "refused", {<<"output", "artifact">>})
  <2>1. /\ RunMoves(l) /\ SameHeld(l) /\ run'[l].pc = "refused"
        /\ run'[l].told = run[l].told \cup {<<"output", "artifact">>}
    <3>1. {<<"output", "artifact">>} \in Told /\ "refused" \in RunPlaces
      BY DEF Told, Whereabouts, RunPlaces
    <3>2. QED
      BY <1>1, <1>3, <3>1, EndedSaying
  <2>2. OwnStep(l)
    BY <1>1, <1>3, <2>1 DEF OwnStep, RunMoves, Typed
  <2>3. Typed' /\ Grows
    BY <1>1, <2>2, OwnStepIsStep DEF StepOf
  <2>4. Stands(l) /\ Given(l) /\ TellsTrue(l) /\ SaysAll(l)
    BY DEF EvidenceInv
  <2>5. Stands(l)'
    BY <2>1 DEF Stands, Early, KeepPlaces, SameHeld
  <2>6. Given(l)'
    BY <1>1, <2>1, <2>3, <2>4, StillGiven
  <2>7. artifacts'[l] = "whole"
    BY <1>1, <1>3, <2>4 DEF LeavesArtifact, Stands
  <2>8. TellsTrue(l)'
    <3>1. ASSUME NEW t \in run'[l].told
          PROVE  /\ t[2] = "temp" => Item(l, t[1]) \in temp'
                 /\ t[2] = "log" => KeptOrSwept(Item(l, t[1]))'
      BY <1>1, <2>1, <2>3, <2>4, StillThere DEF TellsTrue
    <3>2. QED
      BY <2>1, <2>7, <3>1 DEF TellsTrue, ToldTrue, Item
  <2>9. SaysAll(l)'
    <3>1. Says(l, "output")'
      <4>1. <<"output", "artifact">> \in run'[l].told
        BY <2>1
      <4>2. <<"output", "artifact">>[1] = "output"
        OBVIOUS
      <4>3. QED
        BY <4>1, <4>2 DEF Says
    <3>2. "errors" \in run[l].wrote => Says(l, "errors")'
      BY <1>1, <2>1, <2>4 DEF SaysAll, Says, KeepPlaces
    <3>3. QED
      BY <2>1, <3>1, <3>2 DEF SaysAll, SameHeld
  <2>10. QED
    BY <1>1, <2>2, <2>5, <2>6, <2>8, <2>9, BeforeReview DEF Reviewed, KeepPlaces
<1>4. QED
  BY <1>2, <1>3 DEF ReviewRefused

\* A record written at the end leaves those before it.
LEMMA Appended ==
  ASSUME Typed, NEW e \in Entries, journal' = Append(journal, e)
  PROVE  /\ journal' \in Seq(Entries)
         /\ Len(journal') = Len(journal) + 1
         /\ journal'[Len(journal) + 1] = e
         /\ \A i \in DOMAIN journal : journal'[i] = journal[i]
         /\ \A i \in DOMAIN journal' : i \in DOMAIN journal \/ i = Len(journal) + 1
BY DEF Typed

\* A record written by a process: nothing else that is shared changes.
LEMMA WritingIsStep ==
  ASSUME Typed, NEW p \in Processes \cup {Others}, NEW e \in Entries,
         journal' = Append(journal, e), run' \in [Processes -> RunStates],
         \A q \in Processes \ {p} : run'[q] = run[q],
         UNCHANGED <<contract, commits, bytes, artifacts, payloads, events, temp,
                     swept>>
  PROVE  StepOf(p)
<1>1. Typed'
  BY Appended DEF Typed
<1>2. Grows
  <2>1. Len(journal) \in Nat /\ Len(commits) \in Nat
    BY DEF Typed
  <2>2. \A it : KeptOrSwept(it) <=> KeptOrSwept(it)'
    BY DEF KeptOrSwept, Range
  <2>3. QED
    BY <2>1, <2>2, Appended DEF Grows
<1>3. QED
  BY <1>1, <1>2 DEF StepOf

LEMMA WriteReviewKeeps ==
  ASSUME EvidenceInv, NEW l \in Launches, WriteReview(l)
  PROVE  EvidenceInv'
<1> DEFINE e == ReviewOf(l)
<1>1. Typed /\ l \in Processes /\ run[l].pc = "review" /\ run[l] \in RunStates
  BY DEF EvidenceInv, Typed, Processes, WriteReview, IsAt
<1>2. Stands(l) /\ Given(l) /\ TellsTrue(l) /\ SaysAll(l) /\ ReviewsAnswer
  BY DEF EvidenceInv
<1>3. run[l].level \in {"commit", "hash", "off"} /\ run[l].lane \in Recording
  BY <1>1, <1>2 DEF Stands, RunStates
<1>4. e \in Reviews
  BY <1>1 DEF ReviewOf, PreviousReview, Reviews, RunStates, Typed
<1>5. /\ journal' = Append(journal, e)
      /\ UNCHANGED <<contract, commits, bytes, artifacts, payloads, events, temp,
                     swept>>
  BY DEF WriteReview
<1>6. /\ RunMoves(l) /\ SameHeld(l)
      /\ \/ /\ run[l].level = "commit" /\ run'[l].pc = "recorded"
            /\ run'[l].told = run[l].told \cup {<<"output", "artifact">>}
         \/ /\ run[l].level = "hash" /\ run'[l].pc = "payload"
            /\ run'[l].told = run[l].told
         \/ /\ run[l].level = "off" /\ run'[l].pc = "recorded"
            /\ run'[l].told = run[l].told \cup {<<"output", "nowhere">>}
  <2>1. /\ {<<"output", "artifact">>} \in Told /\ {<<"output", "nowhere">>} \in Told
        /\ "recorded" \in RunPlaces /\ "payload" \in RunPlaces
    BY DEF Told, Whereabouts, RunPlaces, KeepPlaces
  <2>2. CASE run[l].level = "commit"
    <3>1. Ends(l, "recorded", {<<"output", "artifact">>})
      BY <2>2 DEF WriteReview
    <3>2. QED
      BY <1>1, <2>1, <2>2, <3>1, EndedSaying
  <2>3. CASE run[l].level = "hash"
    <3>1. Head(KeepOrder(l)) = "payload"
      BY DEF KeepOrder, ReviewKeeps
    <3>2. Goes(l, "payload")
      BY <2>3, <3>1 DEF WriteReview
    <3>3. QED
      BY <1>1, <2>1, <2>3, <3>2, Went
  <2>4. CASE run[l].level = "off"
    <3>1. Ends(l, "recorded", {<<"output", "nowhere">>})
      BY <2>4 DEF WriteReview
    <3>2. QED
      BY <1>1, <2>1, <2>4, <3>1, EndedSaying
  <2>5. QED
    BY <1>3, <2>2, <2>3, <2>4
<1> HIDE DEF e
<1>7. StepOf(l)
  <2>1. e \in Entries
    BY <1>4 DEF Entries
  <2>2. QED
    BY <1>1, <1>5, <1>6, <2>1, WritingIsStep DEF RunMoves
<1>8. Typed' /\ Grows
  BY <1>7 DEF StepOf
<1>9. Stands(l)'
  BY <1>2, <1>3, <1>5, <1>6 DEF Stands, Early, KeepPlaces, SameHeld
<1>10. Given(l)'
  <2>1. run'[l].pc \notin {"resolve", "verify", "contract", "prompt"}
    BY <1>6
  <2>2. QED
    BY <1>1, <1>2, <1>6, <1>8, <2>1, StillGiven
<1>11. TellsTrue(l)'
  <2>1. run[l].level = "commit" => artifacts'[l] = "whole"
    BY <1>1, <1>2, <1>5 DEF Stands
  <2>2. ASSUME NEW t \in run'[l].told
        PROVE  /\ t[2] = "temp" => Item(l, t[1]) \in temp'
               /\ t[2] = "log" => KeptOrSwept(Item(l, t[1]))'
               /\ t[2] = "artifact" =>
                    artifacts'[l] = "whole" /\ run'[l].pc \in {"refused", "recorded"}
    <3>1. CASE t \in run[l].told
      BY <1>1, <1>2, <1>8, <3>1, StillThere DEF TellsTrue
    <3>2. CASE t \notin run[l].told
      BY <1>6, <2>1, <2>2, <3>2
    <3>3. QED
      BY <3>1, <3>2
  <2>3. run'[l].pc \in {"payload", "recorded"}
    BY <1>6
  <2>4. QED
    BY <2>2, <2>3 DEF TellsTrue, ToldTrue, Item
<1>12. SaysAll(l)'
  <2>1. run'[l].pc = "recorded" => Says(l, "output")'
    <3>1. /\ <<"output", "artifact">>[1] = "output"
          /\ <<"output", "nowhere">>[1] = "output"
      OBVIOUS
    <3>2. run'[l].pc = "recorded" =>
            \/ <<"output", "artifact">> \in run'[l].told
            \/ <<"output", "nowhere">> \in run'[l].told
      BY <1>6
    <3>3. QED
      BY <3>1, <3>2 DEF Says
  <2>2. "errors" \in run[l].wrote => Says(l, "errors")'
    BY <1>1, <1>2, <1>6 DEF SaysAll, Says, KeepPlaces
  <2>3. run'[l].pc \in {"payload", "recorded"}
    BY <1>6
  <2>4. QED
    BY <1>6, <2>1, <2>2, <2>3 DEF SaysAll, SameHeld, Ended
<1>13. ASSUME NEW r, r = e
       PROVE  Answers(r)'
  <2>1. /\ r.by = l /\ r.subject = run[l].subject /\ r.contract = run[l].contract
        /\ r.prev = run[l].prev /\ r.pinned = artifacts[l]
    BY <1>13 DEF e, ReviewOf, PreviousReview
  <2>2. /\ run[l].saw.subject = run[l].subject
        /\ run[l].saw.contract = run[l].contract
    BY <1>1, <1>2 DEF Given
  <2>3. run[l].level = "commit" => artifacts[l] = "whole"
    BY <1>1, <1>2 DEF Stands
  <2>4. run'[l].pc \in Reviewed
    BY <1>6 DEF Reviewed, KeepPlaces
  <2>5. QED
    BY <1>3, <1>6, <2>1, <2>2, <2>3, <2>4 DEF Answers, SameHeld
<1>14. ReviewsAnswer'
  <2>1. SUFFICES ASSUME NEW i \in DOMAIN journal', IsLaunched(journal'[i])
                 PROVE  Answers(journal[i])'
    BY DEF ReviewsAnswer, IsLaunched
  <2>2. e \in Entries
    BY <1>4 DEF Entries
  <2>3. CASE i \in DOMAIN journal
    <3>1. journal'[i] = journal[i]
      BY <1>1, <1>5, <2>2, <2>3, Appended
    <3>2. Answers(journal[i]) /\ journal[i].by \in Launches
      BY <1>2, <2>1, <2>3, <3>1 DEF ReviewsAnswer, IsLaunched
    <3>3. journal[i].by # l
      BY <1>1, <3>2 DEF Answers, Reviewed, KeepPlaces
    <3>4. run'[journal[i].by] = run[journal[i].by]
      BY <1>6, <3>2, <3>3 DEF RunMoves, Processes
    <3>5. QED
      BY <3>1, <3>2, <3>4 DEF Answers
  <2>4. CASE i \notin DOMAIN journal
    <3>1. journal'[i] = e
      BY <1>1, <1>5, <2>1, <2>2, <2>4, Appended
    <3>2. PICK r : r = e
      OBVIOUS
    <3>3. Answers(r)'
      BY <1>13, <3>2
    <3>4. QED
      BY <3>1, <3>2, <3>3 DEF Answers
  <2>5. QED
    BY <2>3, <2>4
<1>15. QED
  BY <1>7, <1>9, <1>10, <1>11, <1>12, <1>14, LaunchSteps

----------------------------------------------------------------------------
\* Keeping output, by a launch or a recorder.

\* A sweep takes what it says it took, and only that.
LEMMA SweepTakes ==
  ASSUME Typed, NEW p \in Processes \cup {Others}, Swept(p)
  PROVE  /\ payloads' \in Seq(Items)
         /\ swept' \subseteq Items \X (Processes \cup {Others})
         /\ swept \subseteq swept'
         /\ \A it \in Range(payloads') : it \in Range(payloads)
         /\ \A it \in Range(payloads) : it \in Range(payloads')
              \/ <<it, p>> \in swept'
         /\ \A it, q : <<it, q>> \in swept' =>
              <<it, q>> \in swept \/ (q = p /\ it \in Range(payloads))
<1>1. payloads \in Seq(Items) /\ Len(payloads) \in Nat
      /\ DOMAIN payloads = 1 .. Len(payloads)
  BY DEF Typed
<1>2. Excess \in 0 .. Len(payloads)
  <2>1. Cardinality(events) \in Nat /\ Cap \in Nat
    BY FS_CardinalityType, EvidenceBoundsAssumption DEF Typed
  <2>2. QED
    BY <1>1, <2>1 DEF Excess
<1> DEFINE n == Excess
<1>3. /\ payloads' = SubSeq(payloads, n + 1, Len(payloads))
      /\ swept' = swept \cup {<<payloads[i], p>> : i \in 1 .. n}
  BY DEF Swept
<1> HIDE DEF n
<1>4. /\ payloads' \in Seq(Items) /\ Len(payloads') = Len(payloads) - n
      /\ DOMAIN payloads' = 1 .. (Len(payloads) - n)
      /\ \A i \in 1 .. (Len(payloads) - n) : payloads'[i] = payloads[n + i]
  <2>1. /\ n + 1 \in 1 .. (Len(payloads) + 1) /\ n \in 0 .. Len(payloads)
        /\ \A i \in n + 1 .. Len(payloads) : payloads[i] \in Items
    BY <1>1, <1>2 DEF n
  <2> DEFINE t == SubSeq(payloads, n + 1, Len(payloads))
  <2>2. /\ t \in Seq(Items) /\ Len(t) = Len(payloads) - n
        /\ \A i \in 1 .. (Len(payloads) - n) : t[i] = payloads[n + i]
    <3>1. /\ SubSeq(payloads, n + 1, Len(payloads)) \in Seq(Items)
          /\ Len(SubSeq(payloads, n + 1, Len(payloads)))
               = IF n + 1 <= Len(payloads) THEN Len(payloads) - (n + 1) + 1 ELSE 0
          /\ \A i \in 1 .. Len(payloads) - (n + 1) + 1 :
               SubSeq(payloads, n + 1, Len(payloads))[i] = payloads[n + 1 + i - 1]
      BY <1>1, <2>1, SubSeqProperties
    <3> HIDE DEF t
    <3>2. ASSUME NEW i \in 1 .. (Len(payloads) - n)
          PROVE  i \in 1 .. Len(payloads) - (n + 1) + 1 /\ n + 1 + i - 1 = n + i
      BY <1>1, <2>1
    <3>3. Len(t) = Len(payloads) - n
      <4>1. Len(t)
              = IF n + 1 <= Len(payloads) THEN Len(payloads) - (n + 1) + 1 ELSE 0
        BY <3>1 DEF t
      <4>2. Len(payloads) \in Nat /\ n \in 0 .. Len(payloads)
        BY <1>1, <2>1
      <4>3. QED
        BY <4>1, <4>2
    <3>4. \A i \in 1 .. (Len(payloads) - n) : t[i] = payloads[n + i]
      BY <3>1, <3>2 DEF t
    <3>5. QED
      BY <3>1, <3>3, <3>4 DEF t
  <2> HIDE DEF t
  <2>3. DOMAIN t = 1 .. Len(t)
    BY <2>2
  <2>4. QED
    BY <1>3, <2>2, <2>3 DEF t
<1>5. n \in 0 .. Len(payloads)
  BY <1>2 DEF n
<1>6. \A i \in 1 .. n : payloads[i] \in Items
  BY <1>1, <1>5
<1>7. swept' \subseteq Items \X (Processes \cup {Others})
  <2>1. swept \subseteq Items \X (Processes \cup {Others})
    BY DEF Typed
  <2>2. \A i \in 1 .. n : <<payloads[i], p>> \in Items \X (Processes \cup {Others})
    BY <1>6
  <2>3. QED
    BY <1>3, <2>1, <2>2
<1>8. ASSUME NEW it \in Range(payloads')
      PROVE  it \in Range(payloads)
  <2>1. PICK i \in 1 .. (Len(payloads) - n) : it = payloads'[i]
    BY <1>4 DEF Range
  <2>2. it = payloads[n + i] /\ n + i \in DOMAIN payloads
    BY <1>1, <1>4, <1>5, <2>1
  <2>3. QED
    BY <2>2 DEF Range
<1>9. ASSUME NEW it \in Range(payloads)
      PROVE  it \in Range(payloads') \/ <<it, p>> \in swept'
  <2>1. PICK i \in 1 .. Len(payloads) : it = payloads[i]
    BY <1>1 DEF Range
  <2>2. CASE i <= n
    BY <1>3, <1>5, <2>1, <2>2
  <2>3. CASE i > n
    <3>1. i - n \in 1 .. (Len(payloads) - n) /\ n + (i - n) = i
      BY <1>1, <1>5, <2>1, <2>3
    <3>2. payloads'[i - n] = it /\ i - n \in DOMAIN payloads'
      BY <1>4, <2>1, <3>1
    <3>3. QED
      BY <3>2 DEF Range
  <2>4. QED
    BY <1>1, <1>5, <2>1, <2>2, <2>3
<1>10. \A i \in 1 .. n : payloads[i] \in Range(payloads)
  BY <1>1, <1>5 DEF Range
<1>11. ASSUME NEW it, NEW q, <<it, q>> \in swept'
       PROVE  <<it, q>> \in swept \/ (q = p /\ it \in Range(payloads))
  BY <1>3, <1>10, <1>11
<1>12. QED
  BY <1>3, <1>4, <1>7, <1>8, <1>9, <1>11

\* What a keep or a sweep does to the log disturbs nobody else.
LEMMA SweepIsStep ==
  ASSUME Typed, NEW p \in Processes \cup {Others}, Swept(p),
         run' \in [Processes -> RunStates],
         \A q \in Processes \ {p} : run'[q] = run[q],
         UNCHANGED <<journal, contract, commits, bytes, artifacts, events, temp>>
  PROVE  StepOf(p)
<1>1. Typed'
  BY SweepTakes DEF Typed
<1>2. ASSUME NEW it, KeptOrSwept(it)
      PROVE  KeptOrSwept(it)'
  BY <1>2, SweepTakes DEF KeptOrSwept
<1>3. Grows
  <2>1. Len(journal) \in Nat /\ Len(commits) \in Nat
    BY DEF Typed
  <2>2. QED
    BY <1>2, <2>1 DEF Grows
<1>4. ASSUME NEW c \in Recorders \ {p}
      PROVE  /\ Item(c, "output") \in Range(payloads')
                  => Item(c, "output") \in Range(payloads)
             /\ <<Item(c, "output"), c>> \in swept'
                  => <<Item(c, "output"), c>> \in swept
  BY SweepTakes
<1>5. QED
  BY <1>1, <1>3, <1>4 DEF StepOf

LEMMA PublishIsStep ==
  ASSUME Typed, NEW p \in Processes, RunMoves(p),
         payloads' = Append(payloads, Keeping(p)),
         UNCHANGED <<journal, contract, commits, bytes, artifacts, events, temp,
                     swept>>
  PROVE  /\ StepOf(p)
         /\ KeptOrSwept(Keeping(p)) \/ Keeping(p) \in Range(payloads')
         /\ \A it \in Range(payloads') : it \in Range(payloads) \/ it = Keeping(p)
<1>1. Keeping(p) \in Items /\ payloads \in Seq(Items)
  BY ItemsOf DEF Typed
<1>2. /\ payloads' \in Seq(Items) /\ Len(payloads') = Len(payloads) + 1
      /\ payloads'[Len(payloads) + 1] = Keeping(p)
      /\ \A i \in 1 .. Len(payloads) : payloads'[i] = payloads[i]
      /\ DOMAIN payloads' = 1 .. (Len(payloads) + 1)
      /\ DOMAIN payloads = 1 .. Len(payloads) /\ Len(payloads) \in Nat
  BY <1>1
<1>3. Typed'
  BY <1>2 DEF Typed, RunMoves
<1>4. /\ \A it \in Range(payloads) : it \in Range(payloads')
      /\ Keeping(p) \in Range(payloads')
      /\ \A it \in Range(payloads') : it \in Range(payloads) \/ it = Keeping(p)
  <2>1. ASSUME NEW it \in Range(payloads) PROVE it \in Range(payloads')
    <3>1. PICK i \in 1 .. Len(payloads) : it = payloads[i]
      BY <1>2 DEF Range
    <3>2. it = payloads'[i] /\ i \in DOMAIN payloads'
      BY <1>2, <3>1
    <3>3. QED
      BY <3>2 DEF Range
  <2>2. Keeping(p) \in Range(payloads')
    <3>1. Len(payloads) + 1 \in DOMAIN payloads'
      BY <1>2
    <3>2. QED
      BY <1>2, <3>1 DEF Range
  <2>3. ASSUME NEW it \in Range(payloads'), it # Keeping(p)
        PROVE  it \in Range(payloads)
    <3>1. PICK i \in 1 .. (Len(payloads) + 1) : it = payloads'[i]
      BY <1>2 DEF Range
    <3>2. i \in 1 .. Len(payloads) /\ it = payloads[i]
      BY <1>2, <2>3, <3>1
    <3>3. QED
      BY <1>2, <3>2 DEF Range
  <2>4. QED
    BY <2>1, <2>2, <2>3
<1>5. \A it : KeptOrSwept(it) => KeptOrSwept(it)'
  BY <1>4 DEF KeptOrSwept
<1>6. Grows
  <2>1. Len(journal) \in Nat /\ Len(commits) \in Nat
    BY DEF Typed
  <2>2. QED
    BY <1>5, <2>1 DEF Grows
<1>7. ASSUME NEW c \in Recorders \ {p}, Item(c, "output") \in Range(payloads')
      PROVE  Item(c, "output") \in Range(payloads)
  <2>1. Item(c, "output") # Keeping(p)
    BY <1>7 DEF Item, Keeping
  <2>2. QED
    BY <1>4, <1>7, <2>1
<1>8. QED
  BY <1>3, <1>4, <1>6, <1>7 DEF StepOf, RunMoves

LEMMA EventIsStep ==
  ASSUME Typed, NEW p \in Processes, RunMoves(p), events' = events \cup {Keeping(p)},
         UNCHANGED <<journal, contract, commits, bytes, artifacts, payloads, temp,
                     swept>>
  PROVE  StepOf(p)
<1>1. IsFiniteSet(events')
  BY FS_AddElement DEF Typed
<1>2. Typed'
  BY <1>1, ItemsOf DEF Typed, RunMoves
<1>3. Grows
  <2>1. Len(journal) \in Nat /\ Len(commits) \in Nat
    BY DEF Typed
  <2>2. \A it : KeptOrSwept(it) <=> KeptOrSwept(it)'
    BY DEF KeptOrSwept, Range
  <2>3. QED
    BY <2>1, <2>2 DEF Grows
<1>4. QED
  BY <1>2, <1>3 DEF StepOf, RunMoves

LEMMA KeptSaying ==
  ASSUME Typed, NEW p \in Processes, NEW where \in Whereabouts, Kept(p, where)
  PROVE  /\ RunMoves(p) /\ SameHeld(p)
         /\ run'[p].pc = AfterKeep(p)
         /\ run'[p].told = run[p].told \cup {<<Keeping(p)[2], where>>}
<1>1. AfterKeep(p) \in RunPlaces
  BY DEF AfterKeep, RunPlaces
<1>2. {<<Keeping(p)[2], where>>} \in Told
  <2>1. Keeping(p)[2] \in {"output", "errors"}
    BY DEF Keeping, Item
  <2>2. QED
    BY <2>1 DEF Told
<1>3. Ends(p, AfterKeep(p), {<<Keeping(p)[2], where>>})
  BY DEF Kept, Ends
<1>4. QED
  BY <1>1, <1>2, <1>3, EndedSaying

\* A launch goes on, or is through, with what it keeps.
LEMMA LaunchKeepsOn ==
  ASSUME EvidenceInv, NEW l \in Launches, run[l].pc \in KeepPlaces, StepOf(l),
         SameHeld(l), artifacts' = artifacts, journal' = journal,
         \/ /\ run'[l].pc \in {"open", "event"} /\ run'[l].told = run[l].told
            /\ KeptOrSwept(Keeping(l))'
         \/ /\ run'[l].pc = AfterKeep(l)
            /\ \E where \in Whereabouts \ {"artifact"} :
                 /\ run'[l].told = run[l].told \cup {<<Keeping(l)[2], where>>}
                 /\ where = "temp" => Keeping(l) \in temp'
                 /\ where = "log" => KeptOrSwept(Keeping(l))'
  PROVE  EvidenceInv'
<1>1. Typed /\ Typed' /\ Grows /\ l \in Processes /\ l \notin Recorders
  BY ProcessesAssumption DEF EvidenceInv, StepOf, Processes
<1>2. Stands(l) /\ Given(l) /\ TellsTrue(l) /\ SaysAll(l)
  BY DEF EvidenceInv
<1>3. AfterKeep(l) = IF run[l].level = "none" THEN "parse" ELSE "recorded"
  BY <1>1 DEF AfterKeep
<1>4. run'[l].pc \in {"open", "event", "parse", "recorded"}
      /\ run'[l].pc = "parse" => run[l].level = "none"
  BY <1>3
<1>5. Stands(l)'
  BY <1>2, <1>3 DEF Stands, Early, KeepPlaces, SameHeld
<1>6. Given(l)'
  <2>1. {run[l].pc, run'[l].pc} \cap {"resolve", "verify", "contract", "prompt"} = {}
    BY <1>4 DEF KeepPlaces
  <2>2. QED
    BY <1>1, <1>2, <2>1, StillGiven
<1>7. /\ Keeping(l)' = Keeping(l) /\ Keeping(l) = Item(l, Keeping(l)[2])
      /\ Keeping(l)[2] = IF run[l].level = "none" THEN "errors" ELSE "output"
  BY DEF Keeping, Item, SameHeld
<1>8. ASSUME run'[l].pc \in {"open", "event"}, run'[l].told = run[l].told,
             KeptOrSwept(Keeping(l))'
      PROVE  TellsTrue(l)' /\ SaysAll(l)'
  <2>1. TellsTrue(l)'
    <3>1. ASSUME NEW t \in run'[l].told
          PROVE  /\ t[2] = "temp" => Item(l, t[1]) \in temp'
                 /\ t[2] = "log" => KeptOrSwept(Item(l, t[1]))'
                 /\ t[2] # "artifact"
      BY <1>1, <1>2, <1>8, StillThere DEF TellsTrue, KeepPlaces
    <3>2. QED
      BY <1>8, <3>1 DEF TellsTrue, ToldTrue, Item
  <2>2. SaysAll(l)'
    BY <1>2, <1>8 DEF SaysAll, Says, KeepPlaces, SameHeld, Ended
  <2>3. QED
    BY <2>1, <2>2
<1>9. ASSUME NEW where \in Whereabouts \ {"artifact"},
             run'[l].pc = AfterKeep(l),
             run'[l].told = run[l].told \cup {<<Keeping(l)[2], where>>},
             where = "temp" => Keeping(l) \in temp',
             where = "log" => KeptOrSwept(Keeping(l))'
      PROVE  TellsTrue(l)' /\ SaysAll(l)'
  <2>1. ASSUME NEW t \in run'[l].told
        PROVE  /\ t[2] = "temp" => Item(l, t[1]) \in temp'
               /\ t[2] = "log" => KeptOrSwept(Item(l, t[1]))'
               /\ t[2] # "artifact"
    <3>1. CASE t \in run[l].told
      BY <1>1, <1>2, <3>1, StillThere DEF TellsTrue, KeepPlaces
    <3>2. CASE t = <<Keeping(l)[2], where>>
      <4>1. t[1] = Keeping(l)[2] /\ t[2] = where
        BY <3>2
      <4>2. Item(l, t[1]) = Keeping(l)
        BY <1>7, <4>1
      <4>3. where = "log" => KeptOrSwept(Item(l, t[1]))'
        BY <1>7, <1>9, <4>2 DEF KeptOrSwept
      <4>4. QED
        BY <1>9, <4>1, <4>2, <4>3
    <3>3. QED
      BY <1>9, <3>1, <3>2
  <2>2. run'[l].pc \in {"parse", "recorded"}
    BY <1>3, <1>9
  <2>3. TellsTrue(l)'
    BY <2>1, <2>2 DEF TellsTrue, ToldTrue, Item
  <2>4. Says(l, Keeping(l)[2])'
    <3>1. <<Keeping(l)[2], where>> \in run'[l].told
      BY <1>9
    <3>2. <<Keeping(l)[2], where>>[1] = Keeping(l)[2]
      OBVIOUS
    <3>3. QED
      BY <1>7, <3>1, <3>2 DEF Says
  <2>5. ASSUME NEW what, Says(l, what)
        PROVE  Says(l, what)'
    BY <1>9, <2>5 DEF Says
  <2>6. CASE run[l].level = "none"
    <3>1. run'[l].pc = "parse" /\ Says(l, "errors")'
      BY <1>3, <1>7, <1>9, <2>4, <2>6 DEF Says
    <3>2. QED
      BY <2>3, <3>1 DEF SaysAll, Ended
  <2>7. CASE run[l].level # "none"
    <3>1. Says(l, "output")'
      BY <1>7, <2>4, <2>7 DEF Says
    <3>2. "errors" \in run[l].wrote => Says(l, "errors")'
      BY <1>2, <2>5, <2>7 DEF SaysAll, KeepPlaces
    <3>3. QED
      BY <2>3, <3>1, <3>2 DEF SaysAll, SameHeld
  <2>8. QED
    BY <2>3, <2>6, <2>7
<1>10. ReviewsAnswer'
  <2>1. \A k \in Launches \ {l} : run'[k] = run[k]
    BY DEF StepOf, Processes
  <2>2. run[l].level # "none" => run'[l].pc \in Reviewed
    BY <1>3 DEF Reviewed, KeepPlaces
  <2>3. QED
    BY <1>1, <2>1, <2>2, ReviewsGoOnAnswering DEF EvidenceInv, SameHeld
<1>11. QED
  BY <1>5, <1>6, <1>8, <1>9, <1>10, LaunchSteps

LEMMA LaunchKeepKeeps ==
  ASSUME EvidenceInv, NEW l \in Launches, Keep(l)
  PROVE  EvidenceInv'
<1>1. Typed /\ l \in Processes /\ run[l] \in RunStates
  BY DEF EvidenceInv, Typed, Processes
<1>2. run[l].pc \in KeepPlaces
  BY <1>1, KeepsAt DEF Keep, PublishPayload, OpenWriter, WriteEvent, KeepFails
<1>3. {"open", "event"} \subseteq RunPlaces
  BY DEF RunPlaces, KeepPlaces
<1>4. TellsTrue(l)
  BY DEF EvidenceInv
<1>5. CASE PublishPayload(l)
  <2>1. Goes(l, "open")
    BY <1>2, <1>5, LaunchKeepOrder DEF PublishPayload, IsAt
  <2>2. /\ RunMoves(l) /\ SameHeld(l)
        /\ run'[l].pc = "open" /\ run'[l].told = run[l].told
    BY <1>1, <1>3, <2>1, Went
  <2>3. /\ payloads' = Append(payloads, Keeping(l))
        /\ UNCHANGED <<journal, contract, commits, bytes, artifacts, events, temp,
                       swept>>
    BY <1>5 DEF PublishPayload
  <2>4. StepOf(l) /\ (KeptOrSwept(Keeping(l)) \/ Keeping(l) \in Range(payloads'))
    BY <1>1, <2>2, <2>3, PublishIsStep
  <2>5. KeptOrSwept(Keeping(l))'
    <3>1. Keeping(l)' = Keeping(l)
      BY <2>2 DEF Keeping, Item, SameHeld
    <3>2. Keeping(l) \in Items
      BY <1>1, ItemsOf
    <3>3. QED
      BY <2>4, <3>1, <3>2 DEF KeptOrSwept, StepOf, Grows
  <2>6. QED
    BY <1>2, <2>2, <2>3, <2>4, <2>5, LaunchKeepsOn DEF Whereabouts
<1>6. CASE OpenWriter(l)
  <2>1. run[l].pc = "open" /\ Goes(l, "event")
    BY <1>2, <1>6, LaunchKeepOrder DEF OpenWriter, IsAt
  <2>2. /\ RunMoves(l) /\ SameHeld(l)
        /\ run'[l].pc = "event" /\ run'[l].told = run[l].told
    BY <1>1, <1>3, <2>1, Went
  <2>3. /\ Swept(l)
        /\ UNCHANGED <<journal, contract, commits, bytes, artifacts, events, temp>>
    BY <1>6 DEF OpenWriter
  <2>4. StepOf(l)
    BY <1>1, <2>2, <2>3, SweepIsStep DEF RunMoves
  <2>5. KeptOrSwept(Keeping(l))'
    <3>1. Keeping(l)' = Keeping(l)
      BY <2>2 DEF Keeping, Item, SameHeld
    <3>2. Keeping(l) \in Items /\ KeptOrSwept(Keeping(l))
      BY <1>1, <1>4, <2>1, ItemsOf DEF TellsTrue
    <3>3. QED
      BY <2>4, <3>1, <3>2 DEF KeptOrSwept, StepOf, Grows
  <2>6. QED
    BY <1>2, <2>2, <2>3, <2>4, <2>5, LaunchKeepsOn DEF Whereabouts
<1>7. CASE WriteEvent(l)
  <2>1. run[l].pc = "event" /\ Kept(l, "log")
    BY <1>2, <1>7, LaunchKeepOrder DEF WriteEvent, IsAt
  <2>2. /\ RunMoves(l) /\ SameHeld(l) /\ run'[l].pc = AfterKeep(l)
        /\ run'[l].told = run[l].told \cup {<<Keeping(l)[2], "log">>}
    BY <1>1, <2>1, KeptSaying DEF Whereabouts
  <2>3. StepOf(l) /\ UNCHANGED <<artifacts, journal>>
    BY <1>1, <1>7, <2>2, EventIsStep DEF WriteEvent
  <2>4. KeptOrSwept(Keeping(l))'
    <3>1. Keeping(l)' = Keeping(l)
      BY <2>2 DEF Keeping, Item, SameHeld
    <3>2. Keeping(l) \in Items /\ KeptOrSwept(Keeping(l))
      BY <1>1, <1>4, <2>1, ItemsOf DEF TellsTrue
    <3>3. QED
      BY <2>3, <3>1, <3>2 DEF KeptOrSwept, StepOf, Grows
  <2>5. QED
    BY <1>2, <2>2, <2>3, <2>4, LaunchKeepsOn DEF Whereabouts
<1>8. CASE KeepFails(l)
  <2>1. PICK where \in {"temp", "message", "nowhere"} :
          /\ Kept(l, where)
          /\ temp' = IF where = "temp" THEN temp \cup {Keeping(l)} ELSE temp
    BY <1>8 DEF KeepFails, Unfiled
  <2>2. /\ RunMoves(l) /\ SameHeld(l) /\ run'[l].pc = AfterKeep(l)
        /\ run'[l].told = run[l].told \cup {<<Keeping(l)[2], where>>}
    BY <1>1, <2>1, KeptSaying DEF Whereabouts
  <2>3. UNCHANGED <<journal, contract, commits, bytes, artifacts, payloads, events,
                    swept>>
    BY <1>8 DEF KeepFails
  <2>4. OwnStep(l)
    BY <1>1, <2>1, <2>2, <2>3, ItemsOf DEF OwnStep, RunMoves, Typed
  <2>5. StepOf(l)
    BY <1>1, <2>4, OwnStepIsStep
  <2>6. QED
    BY <1>2, <2>1, <2>2, <2>3, <2>5, LaunchKeepsOn DEF Whereabouts
<1>9. QED
  BY <1>5, <1>6, <1>7, <1>8 DEF Keep

----------------------------------------------------------------------------
\* record-check and record-ext.

\* What a recorder has to show: no launch is touched, no review written.
LEMMA RecorderStep ==
  ASSUME EvidenceInv, NEW c \in Recorders, StepOf(c), Records(c)',
         \A i \in DOMAIN journal' :
           IsLaunched(journal'[i]) =>
             i \in DOMAIN journal /\ journal'[i] = journal[i]
  PROVE  EvidenceInv'
<1>1. \A l \in Launches : run'[l] = run[l]
  BY ProcessesAssumption DEF StepOf, Processes
<1>2. ReviewsAnswer'
  BY <1>1, ReviewsGoOnAnswering DEF EvidenceInv
<1>3. QED
  BY <1>2, RecorderSteps

LEMMA RecorderKeepKeeps ==
  ASSUME EvidenceInv, NEW c \in Recorders, Keep(c)
  PROVE  EvidenceInv'
<1>1. Typed /\ c \in Processes /\ run[c] \in RunStates /\ Records(c)
  BY DEF EvidenceInv, Typed, Processes
<1>2. run[c].pc \in KeepPlaces /\ run[c].lane = "check"
  BY <1>1, KeepsAt
     DEF Keep, PublishPayload, OpenWriter, WriteEvent, KeepFails, Records
<1>3. {"payload", "event"} \subseteq RunPlaces /\ AfterKeep(c) = "write"
  BY DEF RunPlaces, KeepPlaces, AfterKeep
<1>4. /\ Keeping(c) = Item(c, "output") /\ Keeping(c)[2] = "output"
      /\ c \notin Launches
  BY ProcessesAssumption DEF Keeping, Item
<1>5. CASE PublishPayload(c)
  <2>1. Goes(c, "event")
    BY <1>2, <1>5, RecorderKeepOrder DEF PublishPayload, IsAt
  <2>2. /\ RunMoves(c) /\ SameHeld(c) /\ run'[c].pc = "event"
        /\ run'[c].told = run[c].told
    BY <1>1, <1>3, <2>1, Went
  <2>3. /\ payloads' = Append(payloads, Keeping(c))
        /\ UNCHANGED <<journal, contract, commits, bytes, artifacts, events, temp,
                       swept>>
    BY <1>5 DEF PublishPayload
  <2>4. StepOf(c) /\ (KeptOrSwept(Keeping(c)) \/ Keeping(c) \in Range(payloads'))
    BY <1>1, <2>2, <2>3, PublishIsStep
  <2>5. KeptOrSwept(Item(c, "output"))'
    <3>1. Item(c, "output") \in Items
      BY <1>1, ItemsOf
    <3>2. KeptOrSwept(Item(c, "output")) => KeptOrSwept(Item(c, "output"))'
      BY <2>4, <3>1 DEF StepOf, Grows, KeptOrSwept, Item
    <3>3. QED
      BY <1>4, <2>4, <3>2 DEF KeptOrSwept, Item
  <2>6. ToldTrue(c)'
    BY <1>1, <2>2, <2>4, ToldNothingNew DEF Records, StepOf
  <2>7. Records(c)'
    BY <1>1, <1>2, <2>2, <2>3, <2>5, <2>6 DEF Records, SameHeld, KeepPlaces, Item
  <2>8. QED
    BY <2>3, <2>4, <2>7, RecorderStep
<1>6. CASE OpenWriter(c)
  <2>1. run[c].pc = "open" /\ Goes(c, "payload")
    BY <1>2, <1>6, RecorderKeepOrder DEF OpenWriter, IsAt
  <2>2. /\ RunMoves(c) /\ SameHeld(c) /\ run'[c].pc = "payload"
        /\ run'[c].told = run[c].told
    BY <1>1, <1>3, <2>1, Went
  <2>3. /\ Swept(c)
        /\ UNCHANGED <<journal, contract, commits, bytes, artifacts, events, temp>>
    BY <1>6 DEF OpenWriter
  <2>4. StepOf(c)
    BY <1>1, <2>2, <2>3, SweepIsStep DEF RunMoves
  <2>5. Item(c, "output") \notin Range(payloads)
    BY <1>1, <2>1 DEF Records
  <2>6. /\ Item(c, "output") \notin Range(payloads')
        /\ <<Item(c, "output"), c>> \notin swept'
    BY <1>1, <2>3, <2>5, SweepTakes DEF Records
  <2>7. ToldTrue(c)'
    BY <1>1, <2>2, <2>4, ToldNothingNew DEF Records, StepOf
  <2>8. Records(c)'
    BY <1>1, <1>2, <2>2, <2>6, <2>7 DEF Records, SameHeld, KeepPlaces, Item
  <2>9. QED
    BY <2>3, <2>4, <2>8, RecorderStep
<1>7. CASE WriteEvent(c)
  <2>1. run[c].pc = "event" /\ Kept(c, "log")
    BY <1>2, <1>7, RecorderKeepOrder DEF WriteEvent, IsAt
  <2>2. /\ RunMoves(c) /\ SameHeld(c) /\ run'[c].pc = "write"
        /\ run'[c].told = run[c].told \cup {<<"output", "log">>}
    BY <1>1, <1>3, <1>4, <2>1, KeptSaying DEF Whereabouts
  <2>3. StepOf(c) /\ UNCHANGED <<journal, payloads, swept>>
    BY <1>1, <1>7, <2>2, EventIsStep DEF WriteEvent
  <2>4. ToldTrue(c)'
    <3>1. Item(c, "output") \in Items /\ KeptOrSwept(Item(c, "output"))
      BY <1>1, <2>1, ItemsOf DEF Records
    <3>2. KeptOrSwept(Item(c, "output"))'
      BY <2>3, <3>1 DEF KeptOrSwept, Item
    <3>3. QED
      BY <1>1, <2>2, <2>3, <3>2, ToldOneMore DEF Records, StepOf
  <2>5. \A t \in run'[c].told : t[2] # "artifact"
    BY <1>1, <2>2 DEF Records
  <2>6. Records(c)'
    BY <1>1, <1>2, <2>2, <2>3, <2>4, <2>5 DEF Records, SameHeld, KeepPlaces, Item
  <2>7. QED
    BY <2>3, <2>6, RecorderStep
<1>8. CASE KeepFails(c)
  <2>1. PICK where \in {"temp", "nowhere"} :
          /\ Kept(c, where)
          /\ temp' = IF where = "temp" THEN temp \cup {Keeping(c)} ELSE temp
    BY <1>4, <1>8 DEF KeepFails, Unfiled
  <2>2. /\ RunMoves(c) /\ SameHeld(c) /\ run'[c].pc = "write"
        /\ run'[c].told = run[c].told \cup {<<"output", where>>}
    BY <1>1, <1>3, <1>4, <2>1, KeptSaying DEF Whereabouts
  <2>3. UNCHANGED <<journal, contract, commits, bytes, artifacts, payloads, events,
                    swept>>
    BY <1>8 DEF KeepFails
  <2>4. OwnStep(c)
    BY <1>1, <2>1, <2>2, <2>3, ItemsOf DEF OwnStep, RunMoves, Typed
  <2>5. StepOf(c)
    BY <1>1, <2>4, OwnStepIsStep
  <2>6. ToldTrue(c)'
    <3>1. where = "temp" => Item(c, "output") \in temp'
      BY <1>4, <2>1
    <3>2. QED
      BY <1>1, <2>1, <2>2, <2>5, <3>1, ToldOneMore DEF Records, StepOf
  <2>7. \A t \in run'[c].told : t[2] # "artifact"
    BY <1>1, <2>1, <2>2 DEF Records
  <2>8. Records(c)'
    BY <1>1, <1>2, <2>2, <2>3, <2>6, <2>7 DEF Records, SameHeld, KeepPlaces, Item
  <2>9. QED
    BY <2>3, <2>5, <2>8, RecorderStep
<1>9. QED
  BY <1>5, <1>6, <1>7, <1>8 DEF Keep

\* What a recorder takes up, as it loads the task.
LEMMA TakingUp ==
  ASSUME EvidenceInv, NEW c \in Recorders, run[c].pc = "idle",
         NEW lane \in {"check", "ext"}, NEW pc \in {"write", "open"},
         pc = "open" => lane = "check",
         run' = [run EXCEPT ![c].lane = lane, ![c].pc = pc],
         UNCHANGED <<shared, moves, swept>>
  PROVE  EvidenceInv'
<1>1. /\ Typed /\ c \in Processes /\ run[c] \in RunStates /\ Records(c)
  BY DEF EvidenceInv, Typed, Processes
<1> DEFINE s == [run[c] EXCEPT !.lane = lane, !.pc = pc]
<1>2. s \in RunStates
  BY <1>1 DEF RunStates, RunPlaces, KeepPlaces, Lanes
<1>3. s.lane = lane /\ s.pc = pc /\ s.told = run[c].told
  BY <1>1 DEF RunStates
<1>4. run' = [run EXCEPT ![c] = s]
  OBVIOUS
<1> HIDE DEF s
<1>5. /\ RunMoves(c) /\ run'[c].lane = lane /\ run'[c].pc = pc
      /\ run'[c].told = run[c].told
  BY <1>1, <1>2, <1>3, <1>4, Moved
<1>6. StepOf(c)
  BY <1>1, <1>5, QuietStep, OwnStepIsStep
<1>7. UNCHANGED <<journal, payloads, swept>>
  BY DEF shared
<1>8. ToldTrue(c)'
  BY <1>1, <1>5, <1>6, ToldNothingNew DEF Records, StepOf
<1>9. Records(c)'
  BY <1>1, <1>5, <1>7, <1>8 DEF Records, KeepPlaces, Item
<1>10. QED
  BY <1>6, <1>7, <1>9, RecorderStep

LEMMA LoadForCheckKeeps ==
  ASSUME EvidenceInv, NEW c \in Recorders, LoadForCheck(c)
  PROVE  EvidenceInv'
<1>1. Head(KeepOrder(c)) = "open"
  BY ProcessesAssumption DEF KeepOrder, CheckKeeps
<1>2. PICK pc \in {"write", "open"} :
        run' = [run EXCEPT ![c].lane = "check", ![c].pc = pc]
  BY <1>1 DEF LoadForCheck
<1>3. run[c].pc = "idle" /\ UNCHANGED <<shared, moves, swept>>
  BY DEF LoadForCheck, IsAt
<1>4. QED
  BY <1>2, <1>3, TakingUp

LEMMA LoadForExtKeeps ==
  ASSUME EvidenceInv, NEW c \in Recorders, LoadForExt(c)
  PROVE  EvidenceInv'
BY TakingUp DEF LoadForExt, IsAt

\* Ended without a record of the run's own: what was held is given up.
LEMMA Stopped ==
  ASSUME Typed, NEW p \in Processes, NEW pc \in {"refused", "recorded"},
         run' = [run EXCEPT ![p] = [NotStarted EXCEPT !.pc = pc]]
  PROVE  /\ RunMoves(p) /\ run'[p].pc = pc
         /\ run'[p].lane = "none" /\ run'[p].told = {} /\ run'[p].wrote = {}
         /\ run'[p].subject = 0 /\ run'[p].contract = 0 /\ run'[p].loaded = 0
         /\ run'[p].saw.subject = 0 /\ run'[p].saw.contract = 0
<1> DEFINE s == [NotStarted EXCEPT !.pc = pc]
<1>1. s \in RunStates
  BY NotStartedIs DEF RunStates, RunPlaces
<1>2. RunMoves(p) /\ run'[p] = s
  BY <1>1, Moved
<1>3. QED
  BY <1>2, NotStartedIs DEF RunStates

LEMMA WriteRecordKeeps ==
  ASSUME EvidenceInv, NEW c \in Recorders, WriteRecord(c)
  PROVE  EvidenceInv'
<1>1. /\ Typed /\ c \in Processes /\ run[c] \in RunStates /\ Records(c)
      /\ run[c].pc = "write" /\ run[c].lane \in {"check", "ext"}
  BY DEF EvidenceInv, Typed, Processes, WriteRecord, IsAt, Records
<1>2. UNCHANGED <<contract, commits, bytes, artifacts, payloads, events, temp,
                  swept>>
  BY DEF WriteRecord
<1> DEFINE e == Plain(run[c].lane, c)
<1>3. CASE journal' = Append(journal, e) /\ Goes(c, "recorded")
  <2>1. e \in Measures
    BY <1>1 DEF Plain, Measures
  <2>2. e \in Entries /\ ~IsLaunched(e)
    BY <1>1, <2>1 DEF Entries, IsLaunched, Measures
  <2> HIDE DEF e
  <2>3. /\ RunMoves(c) /\ run'[c].pc = "recorded"
        /\ run'[c].told = run[c].told
    BY <1>1, <1>3, Went DEF RunPlaces
  <2>4. StepOf(c)
    BY <1>1, <1>2, <1>3, <2>2, <2>3, WritingIsStep DEF RunMoves
  <2>5. ASSUME NEW i \in DOMAIN journal', IsLaunched(journal'[i])
        PROVE  i \in DOMAIN journal /\ journal'[i] = journal[i]
    BY <1>1, <1>3, <2>2, <2>5, Appended
  <2>6. ToldTrue(c)'
    BY <1>1, <2>3, <2>4, ToldNothingNew DEF Records, StepOf
  <2>7. Records(c)'
    BY <1>1, <1>2, <2>3, <2>6 DEF Records, KeepPlaces, Item
  <2>8. QED
    BY <2>4, <2>5, <2>7, RecorderStep
<1> DEFINE told == {t \in run[c].told : t[2] # "nowhere"}
           s == [run[c] EXCEPT !.pc = "refused", !.told = told]
<1>4. CASE journal' = journal /\ run' = [run EXCEPT ![c] = s]
  <2>1. s \in RunStates
    BY <1>1 DEF RunStates, RunPlaces, Told
  <2>2. s.pc = "refused" /\ s.told = told
    BY <1>1 DEF RunStates
  <2> HIDE DEF s
  <2>3. RunMoves(c) /\ run'[c].pc = "refused" /\ run'[c].told = told
    BY <1>1, <1>4, <2>1, <2>2, Moved
  <2>4. OwnStep(c)
    BY <1>1, <1>2, <1>4, <2>3 DEF OwnStep, RunMoves, Typed
  <2>5. StepOf(c)
    BY <1>1, <2>4, OwnStepIsStep
  <2>6. told \subseteq run[c].told
    OBVIOUS
  <2> HIDE DEF told
  <2>7. ToldTrue(c)'
    BY <1>1, <2>3, <2>5, <2>6, StillThere DEF Records, StepOf, ToldTrue, Item
  <2>8. Records(c)'
    BY <1>1, <1>2, <2>3, <2>6, <2>7 DEF Records, KeepPlaces, Item
  <2>9. QED
    BY <1>4, <2>5, <2>8, RecorderStep
<1>5. QED
  BY <1>3, <1>4 DEF WriteRecord

\* Refused before anything was written, by a launch or a recorder.
LEMMA RefuseEarlyKeeps ==
  ASSUME EvidenceInv, NEW p \in Processes, RefuseEarly(p)
  PROVE  EvidenceInv'
<1>1. /\ Typed /\ run[p].pc \in Early
      /\ run' = [run EXCEPT ![p] = [NotStarted EXCEPT !.pc = "refused"]]
      /\ UNCHANGED <<shared, moves, swept>>
  BY DEF EvidenceInv, RefuseEarly, Early
<1>2. /\ RunMoves(p) /\ run'[p].pc = "refused"
      /\ run'[p].lane = "none" /\ run'[p].told = {} /\ run'[p].wrote = {}
      /\ run'[p].subject = 0 /\ run'[p].contract = 0 /\ run'[p].loaded = 0
      /\ run'[p].saw.subject = 0 /\ run'[p].saw.contract = 0
  BY <1>1, Stopped
<1>3. OwnStep(p) /\ UNCHANGED <<journal, payloads, swept>>
  BY <1>1, <1>2, QuietStep DEF shared
<1>4. CASE p \in Launches
  <2>1. Stands(p)'
    BY <1>2 DEF Stands, Early, KeepPlaces
  <2>2. Len(journal) \in Nat
    BY <1>1 DEF Typed
  <2>3. Given(p)'
    BY <1>2, <1>3, <2>2 DEF Given, Recording
  <2>4. TellsTrue(p)'
    BY <1>2 DEF TellsTrue, ToldTrue
  <2>5. SaysAll(p)'
    BY <1>2 DEF SaysAll
  <2>6. QED
    BY <1>1, <1>3, <1>4, <2>1, <2>3, <2>4, <2>5, BeforeReview
       DEF Reviewed, KeepPlaces, Early
<1>5. CASE p \in Recorders
  <2>1. Records(p) /\ run[p].pc = "idle" /\ StepOf(p)
    BY <1>1, <1>3, <1>5, OwnStepIsStep DEF EvidenceInv, Records, Early, KeepPlaces
  <2>2. Records(p)'
    BY <1>2, <1>3, <2>1 DEF Records, ToldTrue, KeepPlaces, Item
  <2>3. QED
    BY <1>3, <1>5, <2>1, <2>2, RecorderStep
<1>6. QED
  BY <1>4, <1>5 DEF Processes

----------------------------------------------------------------------------
\* What others do.

LEMMA OthersMoveKeeps ==
  ASSUME EvidenceInv, OthersMove
  PROVE  EvidenceInv'
<1>1. /\ Typed /\ run' = run /\ run' \in [Processes -> RunStates]
      /\ artifacts' = artifacts
  BY DEF EvidenceInv, Typed, OthersMove, OthersRecord, EditContract, OthersCommit,
         ChangeArtifact, OthersSweep
<1>2. ASSUME StepOf(Others),
             \A i \in DOMAIN journal' :
               IsLaunched(journal'[i])
                 => i \in DOMAIN journal /\ journal'[i] = journal[i]
      PROVE  EvidenceInv'
  <2>1. ReviewsAnswer'
    BY <1>1, <1>2, ReviewsGoOnAnswering DEF EvidenceInv
  <2>2. QED
    BY <1>2, <2>1, OtherSteps
<1>3. ASSUME NEW type \in {"review", "finding", "completed", "reopened"},
             OthersRecord(type)
      PROVE  EvidenceInv'
  <2> DEFINE e == Plain(type, Others)
  <2>1. e \in Plains
    BY DEF Plain, Plains
  <2>2. e \in Entries /\ ~IsLaunched(e)
    BY <2>1, ProcessesAssumption DEF Entries, IsLaunched, Plains, Processes
  <2>3. /\ journal' = Append(journal, e)
        /\ UNCHANGED <<contract, commits, bytes, artifacts, payloads, events, temp,
                       swept>>
    BY <1>3 DEF OthersRecord
  <2> HIDE DEF e
  <2>4. StepOf(Others)
    BY <1>1, <2>2, <2>3, WritingIsStep
  <2>5. ASSUME NEW i \in DOMAIN journal', IsLaunched(journal'[i])
        PROVE  i \in DOMAIN journal /\ journal'[i] = journal[i]
    BY <1>1, <2>2, <2>3, <2>5, Appended
  <2>6. QED
    BY <1>2, <2>4, <2>5
<1>4. CASE OthersSweep
  <2>1. StepOf(Others) /\ journal' = journal
    BY <1>1, <1>4, SweepIsStep DEF OthersSweep
  <2>2. QED
    BY <1>2, <2>1
<1>5. CASE EditContract \/ OthersCommit \/ ChangeArtifact
  <2>1. UNCHANGED <<journal, payloads, events, temp, swept>>
    BY <1>5 DEF EditContract, OthersCommit, ChangeArtifact
  <2>2. /\ contract' \in Nat /\ commits' \in Seq(Nat)
        /\ bytes' \in {"pinned", "drifted"} /\ Len(commits) <= Len(commits')
    <3>1. contract \in Nat /\ commits \in Seq(Nat) /\ bytes \in {"pinned", "drifted"}
      BY <1>1 DEF Typed
    <3>2. CASE EditContract
      BY <3>1, <3>2 DEF EditContract
    <3>3. CASE OthersCommit
      BY <3>1, <3>3 DEF OthersCommit
    <3>4. CASE ChangeArtifact
      BY <3>1, <3>4 DEF ChangeArtifact
    <3>5. QED
      BY <1>5, <3>2, <3>3, <3>4
  <2>3. Typed'
    BY <1>1, <2>1, <2>2 DEF Typed
  <2>4. Grows
    <3>1. Len(journal) \in Nat
      BY <1>1 DEF Typed
    <3>2. \A it : KeptOrSwept(it) <=> KeptOrSwept(it)'
      BY <2>1 DEF KeptOrSwept, Range
    <3>3. QED
      BY <2>1, <2>2, <3>1, <3>2 DEF Grows
  <2>5. StepOf(Others)
    BY <1>1, <2>1, <2>3, <2>4 DEF StepOf
  <2>6. QED
    BY <1>2, <2>1, <2>5
<1>6. QED
  BY <1>3, <1>4, <1>5 DEF OthersMove

----------------------------------------------------------------------------
LEMMA EvidenceInvInit == EvidenceInit => EvidenceInv
<1> SUFFICES ASSUME EvidenceInit PROVE EvidenceInv
  OBVIOUS
<1>2. /\ journal = <<Plain("opened", Others), Plain("finding", Others)>>
      /\ Plain("opened", Others) \in Plains /\ Plain("finding", Others) \in Plains
  BY DEF EvidenceInit, Plain, Plains
<1>3. /\ journal \in Seq(Entries) /\ Len(journal) = 2 /\ DOMAIN journal = 1 .. 2
      /\ journal[1] = Plain("opened", Others)
      /\ journal[2] = Plain("finding", Others)
  BY <1>2 DEF Entries
<1>4. \A p \in Processes : run[p] = NotStarted
  BY DEF EvidenceInit
<1>5. Typed
  <2>1. run \in [Processes -> RunStates]
    BY NotStartedIs DEF EvidenceInit
  <2>2. IsFiniteSet(events)
    BY FS_EmptySet DEF EvidenceInit
  <2>3. artifacts \in [Launches -> Conditions]
    BY DEF EvidenceInit, Conditions
  <2>4. commits \in Seq(Nat) /\ payloads \in Seq(Items)
    BY DEF EvidenceInit
  <2>5. QED
    BY <1>3, <2>1, <2>2, <2>3, <2>4 DEF EvidenceInit, Typed
<1>6. FindingThere
  BY <1>3 DEF FindingThere, Plain, EvidenceInit
<1>7. ASSUME NEW l \in Launches
      PROVE  Stands(l) /\ Given(l) /\ TellsTrue(l) /\ SaysAll(l)
  <2>1. run[l] = NotStarted
    BY <1>4 DEF Processes
  <2>2. QED
    BY <1>3, <2>1, NotStartedIs
       DEF Stands, Given, TellsTrue, ToldTrue, SaysAll, Ended, Early, KeepPlaces,
           Recording
<1>8. ASSUME NEW c \in Recorders
      PROVE  Records(c)
  <2>1. run[c] = NotStarted /\ Range(payloads) = {} /\ swept = {}
    BY <1>4 DEF EvidenceInit, Processes, Range
  <2>2. QED
    BY <2>1, NotStartedIs DEF Records, ToldTrue, KeepPlaces
<1>9. ReviewsAnswer
  BY <1>3 DEF ReviewsAnswer, IsLaunched, Plain
<1>10. QED
  BY <1>5, <1>6, <1>7, <1>8, <1>9 DEF EvidenceInv

LEMMA EvidenceInvStep == EvidenceInv /\ [EvidenceNext]_evidenceVars => EvidenceInv'
<1> SUFFICES ASSUME EvidenceInv, [EvidenceNext]_evidenceVars
             PROVE  EvidenceInv'
  OBVIOUS
<1>1. ASSUME NEW l \in Launches, Launch(l)
      PROVE  EvidenceInv'
  BY <1>1, LoadForReviewKeeps, ResolveCommitKeeps, VerifyArtifactsKeeps,
     ReadContractKeeps, BuildPromptKeeps, RunReviewerKeeps, ReviewerFailsKeeps,
     RejectVerdictKeeps, EndDryRunKeeps, ReadVerdictKeeps, AdmitReviewKeeps, WriteArtifactKeeps,
     WriteReviewKeeps, ReviewRefusedKeeps
     DEF Launch
<1>2. ASSUME NEW c \in Recorders, Record(c)
      PROVE  EvidenceInv'
  BY <1>2, LoadForCheckKeeps, LoadForExtKeeps, WriteRecordKeeps DEF Record
<1>3. ASSUME NEW p \in Processes, Keep(p) \/ RefuseEarly(p)
      PROVE  EvidenceInv'
  BY <1>3, LaunchKeepKeeps, RecorderKeepKeeps, RefuseEarlyKeeps DEF Processes
<1>4. CASE OthersMove
  BY <1>4, OthersMoveKeeps
<1>5. CASE UNCHANGED evidenceVars
  <2>1. UNCHANGED <<journal, contract, commits, bytes, artifacts, payloads, events,
                    temp, run, swept>>
    BY <1>5 DEF evidenceVars, shared
  <2>2. Typed /\ run' \in [Processes -> RunStates] /\ temp \subseteq Items
        /\ artifacts \in [Launches -> Conditions]
    BY <2>1 DEF EvidenceInv, Typed
  <2>3. OwnStep(Others)
    BY <2>1, <2>2 DEF OwnStep
  <2>4. StepOf(Others)
    BY <2>2, <2>3, OwnStepIsStep
  <2>5. ReviewsAnswer'
    BY <2>1, <2>2, ReviewsGoOnAnswering DEF EvidenceInv
  <2>6. QED
    BY <2>4, <2>5, OtherSteps
<1>6. QED
  BY <1>1, <1>2, <1>3, <1>4, <1>5 DEF EvidenceNext

THEOREM EvidenceInvHolds == EvidenceSpec => []EvidenceInv
BY EvidenceInvInit, EvidenceInvStep, PTL DEF EvidenceSpec

THEOREM PaidOutputIsNamed == EvidenceSpec => []PaidOutputIsWhereItSays
<1>1. EvidenceInv => PaidOutputIsWhereItSays
  <2> SUFFICES ASSUME EvidenceInv PROVE PaidOutputIsWhereItSays
    OBVIOUS
  <2>1. ASSUME NEW l \in Launches, Ended(l), NEW what \in Owed(l)
        PROVE  \E t \in run[l].told : t[1] = what
    <3>1. SaysAll(l) /\ run[l].wrote \subseteq {"output", "errors"}
      BY DEF EvidenceInv, Typed, RunStates, Processes
    <3>2. run[l].pc \notin KeepPlaces \cup {"failed"}
      BY <2>1 DEF Ended, KeepPlaces
    <3>3. QED
      BY <2>1, <3>1, <3>2 DEF SaysAll, Says, Owed
  <2>2. ASSUME NEW p \in Processes, NEW t \in run[p].told
        PROVE  IsWhereItSays(p, t)
    <3>1. CASE p \in Launches
      <4>1. TellsTrue(p)
        BY <3>1 DEF EvidenceInv
      <4>2. QED
        BY <2>2, <4>1 DEF TellsTrue, ToldTrue, KeptOrSwept, IsWhereItSays
    <3>2. CASE p \in Recorders
      <4>1. Records(p)
        BY <3>2 DEF EvidenceInv
      <4>2. QED
        BY <2>2, <4>1 DEF Records, ToldTrue, KeptOrSwept, IsWhereItSays
    <3>3. QED
      BY <3>1, <3>2 DEF Processes
  <2>3. QED
    BY <2>1, <2>2 DEF PaidOutputIsWhereItSays
<1>2. QED
  BY <1>1, EvidenceInvHolds, PTL

THEOREM RecordsAreFaithful == EvidenceSpec => []RecordSaysWhatTheReviewerSaw
<1>1. EvidenceInv => RecordSaysWhatTheReviewerSaw
  <2>1. SUFFICES ASSUME EvidenceInv, NEW i \in DOMAIN journal,
                        journal[i].type = "review", journal[i].by \in Launches
                 PROVE  LET r == journal[i]  l == run[r.by]
                        IN /\ r.subject = l.saw.subject
                           /\ r.contract = l.saw.contract
                           /\ l.lane = "finding" =>
                                /\ journal[r.subject].type = "finding"
                                /\ l.saw.bytes = "pinned"
                           /\ r.prev = Latest(SubSeq(journal, 1, l.loaded), "review")
                           /\ l.level = "commit" => r.pinned = "whole"
    BY DEF RecordSaysWhatTheReviewerSaw
  <2> DEFINE r == journal[i]
             l == r.by
  <2>2. Answers(r) /\ Given(l)
    BY <2>1 DEF EvidenceInv, ReviewsAnswer, IsLaunched
  <2>3. run[l].pc \notin {"verify", "contract", "prompt"}
    BY <2>2 DEF Answers, Reviewed, KeepPlaces
  <2>4. run[l].lane = "finding" =>
          journal[r.subject].type = "finding" /\ run[l].saw.bytes = "pinned"
    BY <2>2, <2>3 DEF Answers, Given
  <2>5. r.prev = Latest(SubSeq(journal, 1, run[l].loaded), "review")
    BY <2>2 DEF Answers, Given
  <2>6. QED
    BY <2>2, <2>4, <2>5 DEF Answers
<1>2. QED
  BY <1>1, EvidenceInvHolds, PTL

THEOREM MarkupCostsNothing == EvidenceSpec => []MarkupNeverCostsTheVerdict
<1>1. EvidenceInv => MarkupNeverCostsTheVerdict
  BY DEF EvidenceInv, Typed, RunStates, MarkupNeverCostsTheVerdict, Processes
<1>2. QED
  BY <1>1, EvidenceInvHolds, PTL

THEOREM OwnSweepTakesNothing == EvidenceSpec => []CheckOutputOutlivesOwnSweep
<1>1. EvidenceInv => CheckOutputOutlivesOwnSweep
  BY DEF EvidenceInv, Records, CheckOutputOutlivesOwnSweep
<1>2. QED
  BY <1>1, EvidenceInvHolds, PTL
=================================================================================
