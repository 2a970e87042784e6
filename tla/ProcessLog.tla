----------------------------- MODULE ProcessLog -----------------------------
(***************************************************************************)
(* The process log: one file per writer, rotated when full; a directory    *)
(* that every opening writer sweeps down to its cap; payload files         *)
(* published by a rename; one reader over all of it.  No locks.            *)
(* Any file operation may fail, a process may end at any step, and a day   *)
(* may pass between any two sweeps.  Sizes count lines; a payload is one.  *)
(***************************************************************************)
EXTENDS Integers, FiniteSets, Sequences

CONSTANTS Writers,        \* processes that open a writer
          Payloads,       \* payload files
          MaxEvents,      \* write_event calls of one writer
          RotateAt,       \* ROTATE_AT_BYTES, in lines
          Keep,           \* ROTATED_KEEP
          Cap,            \* DIRECTORY_CAP_BYTES, in lines
          Days            \* bound on the days that pass

ASSUME BoundsAssumption ==
  /\ MaxEvents \in Nat /\ Cap \in Nat /\ Days \in Nat
  /\ RotateAt \in Nat \ {0} /\ Keep \in Nat \ {0}

\* Payload files live in a directory of their own.
ASSUME NamesAssumption == Writers \cap Payloads = {}

\* A name: <<w, 0>> is w's current file, <<w, k>> its k-th rotation;
\* <<p, 0>> is p's .part staging file, <<p, 1>> the published one.
Names == (Writers \X (0 .. Keep)) \cup (Payloads \X {0, 1})

\* Somebody may still be writing it, by its name.
Unfinished(name) == name[2] = 0

Events == Writers \X (1 .. MaxEvents)
Lost == << >>  \* in place of an event: a line that is no JSON object

VARIABLES files,    \* by name: [lines, torn, at, old]
          clock,    \* orders modification times
          days,     \* days that have passed
          writers,  \* by process: where it is in open_writer or write_event
          staged,   \* the payloads' progress
          reader,   \* a read in flight
          written,  \* history: the events write_event returned for
          shed,     \* history: the events whose file was deleted
          halved    \* history: the writers an append of which left half a line

vars == <<files, clock, days, writers, staged, reader, written, shed, halved>>

\* What reads back from a file: its terminated lines that parse.
EventsOf(file) == {file.lines[i] : i \in DOMAIN file.lines} \ {Lost}
Readable == UNION {EventsOf(files[f]) : f \in DOMAIN files}

Without(f) == [g \in DOMAIN files \ {f} |-> files[g]]
With(f, file) == [g \in DOMAIN files \cup {f} |->
                    IF g = f THEN file ELSE files[g]]
Renamed(f, g) == [h \in (DOMAIN files \ {f}) \cup {g} |->
                    IF h = g THEN files[f] ELSE files[h]]

Fresh == [lines |-> <<>>, torn |-> FALSE, at |-> clock, old |-> FALSE]
Tick == clock' = clock + 1

\* stat: the size counted and the time of last write.
Seen(f) == [name |-> f, size |-> Len(files[f].lines), at |-> files[f].at]

\* found: how often the read returned each event so far; calm: no rotation ran
\* beside it, and no file that was there could not be read.
NotReading == [listed |-> {}, found |-> [e \in Events |-> 0], before |-> {},
               on |-> FALSE, calm |-> TRUE]
NotOpen == [pc |-> "unopened", suffix |-> 0, count |-> 0,
            listed |-> {}, total |-> 0, candidates |-> {}]
----------------------------------------------------------------------------
Init ==
  /\ files = << >>
  /\ clock = 0
  /\ days = 0
  /\ writers = [w \in Writers |-> NotOpen]
  /\ staged = [p \in Payloads |-> "unwritten"]
  /\ reader = NotReading
  /\ written = {}
  /\ shed = {}
  /\ halved = {}

At(w, pc) == writers[w].pc = pc
Move(w, step) == writers' = [writers EXCEPT ![w] = step]

(***************************************************************************)
(* open_writer.  The sweep lists the directory, stats each entry, and      *)
(* deletes candidates oldest first while what it counted exceeds the cap.  *)
(***************************************************************************)
ListDirectory(w) ==
  /\ At(w, "unopened")
  /\ Move(w, [writers[w] EXCEPT !.pc = "sweeping", !.listed = DOMAIN files])
  /\ UNCHANGED <<files, clock, days, staged, reader, written, shed, halved>>

\* Mutation: age does not matter.
AnyFile(f) == TRUE

\* Rotations and published payloads at any age, the rest once abandoned.
Candidate(f) == Unfinished(f) => files[f].old

\* An entry gone by now is ignored.
StatEntry(w, f) ==
  /\ At(w, "sweeping")
  /\ f \in writers[w].listed
  /\ Move(w, IF f \in DOMAIN files
       THEN [writers[w] EXCEPT
              !.listed = @ \ {f}, !.total = @ + Seen(f).size,
              !.candidates = IF Candidate(f) THEN @ \cup {Seen(f)} ELSE @]
       ELSE [writers[w] EXCEPT !.listed = @ \ {f}])
  /\ UNCHANGED <<files, clock, days, staged, reader, written, shed, halved>>

OldestOf(candidates) ==
  CHOOSE c \in candidates : \A d \in candidates : c.at <= d.at

\* The deletion of one candidate; one that fails is skipped.
SweepOne(w) ==
  LET oldest == OldestOf(writers[w].candidates)
      f == oldest.name
      rest == [writers[w] EXCEPT !.candidates = @ \ {oldest}]
  IN /\ At(w, "sweeping")
     /\ writers[w].listed = {}
     /\ writers[w].candidates # {}
     /\ writers[w].total > Cap
     /\ \/ /\ f \in DOMAIN files
           /\ files' = Without(f)
           /\ shed' = shed \cup EventsOf(files[f])
           /\ Move(w, [rest EXCEPT !.total = @ - oldest.size])
        \/ /\ Move(w, rest)
           /\ UNCHANGED <<files, shed>>
     /\ UNCHANGED <<clock, days, staged, reader, written, halved>>

\* The writer's own file comes after its sweep; claiming it may fail.
ClaimFile(w) ==
  /\ At(w, "sweeping")
  /\ writers[w].listed = {}
  /\ writers[w].candidates = {} \/ writers[w].total <= Cap
  /\ \/ /\ files' = With(<<w, 0>>, Fresh)
        /\ Move(w, [NotOpen EXCEPT !.pc = "open"])
        /\ Tick
     \/ /\ Move(w, [NotOpen EXCEPT !.pc = "gone"])
        /\ UNCHANGED <<files, clock>>
  /\ UNCHANGED <<days, staged, reader, written, shed, halved>>

(***************************************************************************)
(* write_event: append one line, then rotate a file that is full.          *)
(***************************************************************************)
\* The file the append opens, created again if a sweep took it.
Opened(w) == IF <<w, 0>> \in DOMAIN files THEN files[<<w, 0>>] ELSE Fresh

\* A line appended to half a line is one line, and no JSON object.
Appended(file, event) ==
  [file EXCEPT !.lines = Append(@, IF file.torn THEN Lost ELSE event),
               !.torn = FALSE, !.at = clock, !.old = FALSE]

AppendEvent(w) ==
  LET event == <<w, writers[w].count + 1>>
      file == Appended(Opened(w), event)
  IN /\ At(w, "open")
     /\ writers[w].count < MaxEvents
     /\ files' = With(<<w, 0>>, file)
     /\ written' = written \cup {event}
     /\ Move(w, [writers[w] EXCEPT
          !.count = @ + 1, !.suffix = Keep,
          !.pc = IF Len(file.lines) < RotateAt THEN "open" ELSE "rotating"])
     /\ Tick
     /\ UNCHANGED <<days, staged, reader, shed, halved>>

\* The append fails, and the caller is told.
AppendFails(w) ==
  /\ At(w, "open")
  /\ writers[w].count < MaxEvents
  /\ \E torn \in BOOLEAN :
       /\ files' = With(<<w, 0>>,
            [Opened(w) EXCEPT !.torn = @ \/ torn, !.at = clock, !.old = FALSE])
       /\ halved' = IF torn THEN halved \cup {w} ELSE halved
  /\ Move(w, [writers[w] EXCEPT !.count = @ + 1])
  /\ Tick
  /\ UNCHANGED <<days, staged, reader, written, shed>>

\* Mutation: a rotation takes the first suffix that is free.
FreeSuffix(w, n) ==
  IF n > 0 THEN n
  ELSE LET free == {k \in 1 .. Keep : <<w, k>> \notin DOMAIN files}
       IN IF free = {} THEN Keep ELSE CHOOSE k \in free :
                                        \A l \in free : k <= l

\* The suffix that suffix n becomes.
NextSuffix(w, n) == n + 1

\* Mutation: the file is renamed straight onto .1.
OnlyTheFile == 0

\* The oldest rotation is deleted first, then the others move up.
FirstSuffix == Keep

Deleted(n) == n = Keep

\* _rotate_if_full, one file operation at a time.
RotateStep(w) ==
  LET n == IF writers[w].suffix = Keep THEN FirstSuffix ELSE writers[w].suffix
      f == <<w, n>>
      ended == [writers[w] EXCEPT !.pc = "open", !.suffix = 0]
  IN /\ At(w, "rotating")
     /\ files' = IF f \notin DOMAIN files THEN files
                 ELSE IF Deleted(n) THEN Without(f)
                 ELSE Renamed(f, <<w, NextSuffix(w, n)>>)
     /\ shed' = IF Deleted(n) /\ f \in DOMAIN files
                  THEN shed \cup EventsOf(files[f]) ELSE shed
     /\ Move(w, IF n = 0 THEN ended ELSE [writers[w] EXCEPT !.suffix = n - 1])
     /\ reader' = [reader EXCEPT !.calm = ~reader.on]
     /\ UNCHANGED <<clock, days, staged, written, halved>>

\* Any of them may fail; the rotation starts over at the next write.
RotationFails(w) ==
  /\ At(w, "rotating")
  /\ Move(w, [writers[w] EXCEPT !.pc = "open", !.suffix = 0])
  /\ UNCHANGED <<files, clock, days, staged, reader, written, shed, halved>>

\* The process ends, wherever it is.
WriterEnds(w) ==
  /\ ~At(w, "unopened") /\ ~At(w, "gone")
  /\ Move(w, [NotOpen EXCEPT !.pc = "gone"])
  /\ UNCHANGED <<files, clock, days, staged, reader, written, shed, halved>>

----------------------------------------------------------------------------
(***************************************************************************)
(* write_payload: a .part file, its content, the rename.                   *)
(***************************************************************************)
\* Mutation: the content is written under the final name.
InPlace(p) == <<p, 1>>

Staging(p) == <<p, 0>>

StagePayload(p) ==
  /\ staged[p] = "unwritten"
  /\ files' = With(Staging(p), Fresh)
  /\ staged' = [staged EXCEPT ![p] = "staged"]
  /\ Tick
  /\ UNCHANGED <<days, writers, reader, written, shed, halved>>

\* The content goes to the open file, whether or not it still has a name.
FillPayload(p) ==
  /\ staged[p] = "staged"
  /\ files' = IF Staging(p) \in DOMAIN files
       THEN With(Staging(p), [Fresh EXCEPT !.lines = << <<p, 1>> >>]) ELSE files
  /\ staged' = [staged EXCEPT ![p] = "filled"]
  /\ Tick
  /\ UNCHANGED <<days, writers, reader, written, shed, halved>>

\* The rename fails if a sweep took the staging file.
PublishPayload(p) ==
  /\ staged[p] = "filled"
  /\ IF Staging(p) \in DOMAIN files
       THEN /\ files' = Renamed(Staging(p), <<p, 1>>)
            /\ staged' = [staged EXCEPT ![p] = "published"]
       ELSE /\ staged' = [staged EXCEPT ![p] = "given up"]
            /\ UNCHANGED files
  /\ UNCHANGED <<clock, days, writers, reader, written, shed, halved>>

\* An error unlinks the staging file; a killed process leaves it.
GiveUpPayload(p) ==
  /\ staged[p] \in {"staged", "filled"}
  /\ files' \in {files, Without(Staging(p))}
  /\ staged' = [staged EXCEPT ![p] = "given up"]
  /\ UNCHANGED <<clock, days, writers, reader, written, shed, halved>>

----------------------------------------------------------------------------
(***************************************************************************)
(* read_events: list the directory, then read file after file in the order *)
(* of the names, a writer's current file before its rotations.             *)
(***************************************************************************)
\* Mutation: only the writers' current files.
OnlyCurrent(f) == f[1] \in Writers /\ f[2] = 0

\* Current and rotated files, not the payloads' subdirectory.
Read(f) == f[1] \in Writers

ReaderLists ==
  /\ ~reader.on
  /\ reader' = [NotReading EXCEPT !.on = TRUE, !.before = written,
                                  !.listed = {f \in DOMAIN files : Read(f)}]
  /\ UNCHANGED <<files, clock, days, writers, staged, written, shed, halved>>

\* The lines of a file that read back as e.
Occurrences(file, e) == Cardinality({i \in DOMAIN file.lines :
                                       file.lines[i] = e})

\* Files of one writer go in order; those of two writers never meet.  A file
\* that is gone, or cannot be read, yields nothing.
ReadFile(f) ==
  /\ f \in reader.listed
  /\ \A g \in reader.listed : g[1] = f[1] => g[2] >= f[2]
  /\ \/ /\ f \in DOMAIN files
        /\ reader' = [reader EXCEPT
             !.listed = @ \ {f},
             !.found = [e \in Events |-> @[e] + Occurrences(files[f], e)]]
     \/ reader' = [reader EXCEPT !.listed = @ \ {f},
                                 !.calm = @ /\ f \notin DOMAIN files]
  /\ UNCHANGED <<files, clock, days, writers, staged, written, shed, halved>>

ReaderReturns ==
  /\ reader.on /\ reader.listed = {}
  /\ reader' = NotReading
  /\ UNCHANGED <<files, clock, days, writers, staged, written, shed, halved>>

\* Everything in the directory is a day older.  No sweep takes a day.
DayPasses ==
  /\ days < Days
  /\ days' = days + 1
  /\ \A w \in Writers : ~At(w, "sweeping")
  /\ files' = [f \in DOMAIN files |-> [files[f] EXCEPT !.old = TRUE]]
  /\ UNCHANGED <<clock, writers, staged, reader, written, shed, halved>>

Next ==
  \/ \E w \in Writers :
       \/ ListDirectory(w) \/ (\E f \in Names : StatEntry(w, f))
       \/ SweepOne(w) \/ ClaimFile(w)
       \/ AppendEvent(w) \/ AppendFails(w)
       \/ RotateStep(w) \/ RotationFails(w)
       \/ WriterEnds(w)
  \/ \E p \in Payloads :
       \/ StagePayload(p) \/ FillPayload(p)
       \/ PublishPayload(p) \/ GiveUpPayload(p)
  \/ ReaderLists \/ (\E f \in Names : ReadFile(f)) \/ ReaderReturns
  \/ DayPasses

Spec == Init /\ [][Next]_vars
----------------------------------------------------------------------------
\* The state has its types; no rotation goes beyond the last suffix, and half
\* a line is left by a failed append only.
TypeOK ==
  /\ DOMAIN files \subseteq Names
  /\ \A f \in DOMAIN files :
       /\ f[1] \in Writers => EventsOf(files[f]) \subseteq Events
       /\ files[f].torn => f[1] \in halved
       /\ files[f].at < clock
  /\ \A w \in Writers :
       /\ writers[w].suffix \in 0 .. Keep
       /\ \A c \in writers[w].candidates : c.name \in Names
  /\ reader.listed \subseteq Names
  /\ written \subseteq Events
  /\ shed \subseteq Events \cup Payloads \X {1}
  /\ halved \subseteq Writers

(***************************************************************************)
(* Every event write_event returned for reads back until its file is       *)
(* deleted as the oldest rotation or by a sweep, whatever rotations failed *)
(* half way, whoever swept in between.  A writer an append of which left   *)
(* half a line has its next event glued to it and is not promised this.    *)
(***************************************************************************)
WhatIsWrittenIsRead ==
  /\ TypeOK
  /\ \A e \in written \ shed : e[1] \in halved \/ e \in Readable

(***************************************************************************)
(* A writer's files hold its events in order: a higher suffix is older,    *)
(* also after a rotation that failed half way and was started over.        *)
(***************************************************************************)
RotationsInOrder ==
  \A f, g \in DOMAIN files : f[1] \in Writers /\ f[1] = g[1] /\ f[2] > g[2] =>
    \A old \in EventsOf(files[f]), new \in EventsOf(files[g]) : old[2] < new[2]

(***************************************************************************)
(* While no day has passed, no sweep deletes what a writer's file held,    *)
(* not under its own name and not while it is being rotated.               *)
(***************************************************************************)
YoungFilesAreLeftAlone ==
  [][days = 0 => \A f \in DOMAIN files : Unfinished(f) =>
       EventsOf(files[f]) \cap shed' \subseteq shed]_vars

\* A payload under its final name is whole, at whatever step its process,
\* or the sweep of another, cut in.
PublishedIsWhole ==
  \A p \in Payloads : <<p, 1>> \in DOMAIN files => files[<<p, 1>>].lines # << >>

\* A rotation deletes a file only when every suffix is taken: the Keep
\* newest rotations stay.
RotationDropsOnlyTheSixth ==
  [][\A w \in Writers : At(w, "rotating") =>
       (<<w, Keep>> \in DOMAIN files /\ <<w, Keep>> \notin DOMAIN files'
          /\ shed' # shed
        => \A k \in 0 .. Keep : <<w, k>> \in DOMAIN files)]_vars

(***************************************************************************)
(* A read no rotation runs beside, and that can open what is there, returns *)
(* every event of the directory, each once, whatever else runs: those that *)
(* were written before it began and are not deleted meanwhile.             *)
(***************************************************************************)
CalmReadFindsEachEventOnce ==
  reader.on /\ reader.calm /\ reader.listed = {} =>
    \A e \in reader.before \ shed : e[1] \in halved \/ reader.found[e] = 1
=============================================================================
