---------------------- MODULE JournalAndRules_proofs ----------------------
(***************************************************************************)
(* The records and the journal they are in.  First TaskJournal, for any    *)
(* number of hosts and of commands: what every interleaving keeps (each    *)
(* identifier names one record), what commands run one at a time leave     *)
(* torn, and what they leave readable where clocks agree.  Then            *)
(* RecordRules, for any tasks, arguments and values: what the rules of a   *)
(* write let in and what the schema stamped on a record is worth.          *)
(***************************************************************************)
EXTENDS TaskJournal, RecordRules, RecordTypes_proofs, FiniteSetTheorems

\* The record a command has created and not written yet.
Torn(w) == [id |-> stamp[w], type |-> want[w], whole |-> FALSE]
Written(w) == [id |-> stamp[w], type |-> want[w], whole |-> TRUE]

(***************************************************************************)
(* Why identifiers stay unique: a command that has taken one holds it      *)
(* alone, and no file has it until the command creates its own.            *)
(***************************************************************************)
Holders ==
  /\ \A w \in Writers : pc[w] # "idle" => want[w] \in Types
  /\ \A w \in Writers : pc[w] = "stamped" => \A f \in files : f.id # stamp[w]
  /\ \A w \in Writers : pc[w] = "created" => Torn(w) \in files
  /\ \A v, w \in Writers :
       /\ pc[v] \in {"stamped", "created"}
       /\ pc[w] \in {"stamped", "created"}
       /\ stamp[v] = stamp[w]
       => v = w

NameInv == TypeOK /\ Holders

----------------------------------------------------------------------------
\* The identifiers of a host's millisecond are integers.
LEMMA IdsAreIntegers ==
  ASSUME now \in Nat, lag \in [Writers -> 0..MaxLag], NEW w \in Writers,
         NEW id \in IdsOfMs(now - lag[w])
  PROVE  id \in Int
BY BoundsAssumption DEF IdsOfMs

\* The opened record open_task left is alone.
LEMMA NameInvInit == Init => NameInv
<1>1. SUFFICES ASSUME Init PROVE NameInv
  OBVIOUS
<1>2. now \in Nat /\ lag \in [Writers -> 0..MaxLag]
  BY <1>1, BoundsAssumption DEF Init
<1>3. PICK w \in Writers : \E id \in IdsOfMs(now - lag[w]) :
        files = {[id |-> id, type |-> "opened", whole |-> TRUE]}
  BY <1>1 DEF Init
<1>4. PICK id \in IdsOfMs(now - lag[w]) :
        files = {[id |-> id, type |-> "opened", whole |-> TRUE]}
  BY <1>3
<1>5. files \subseteq File
  BY <1>2, <1>4, IdsAreIntegers DEF File, RecordTypes
<1>6. /\ pc = [v \in Writers |-> "idle"]
      /\ want = [v \in Writers |-> NoType]
      /\ stamp = [v \in Writers |-> 0]
      /\ newest = 0
      /\ overlapped \in BOOLEAN
  BY <1>1 DEF Init
<1>7. TypeOK
  BY <1>2, <1>4, <1>5, <1>6 DEF TypeOK, Steps
<1>8. Holders
  BY <1>6 DEF Holders
<1>9. QED
  BY <1>7, <1>8 DEF NameInv

\* A command that loads has no identifier yet.
LEMMA NameInvLoad ==
  ASSUME NameInv, NEW w \in Writers, NEW t \in Types, Load(w, t)
  PROVE  NameInv'
<1>1. /\ now \in Nat /\ now' = now + 1
      /\ pc' = [pc EXCEPT ![w] = "loaded"]
      /\ want' = [want EXCEPT ![w] = t]
      /\ overlapped' \in BOOLEAN
      /\ UNCHANGED <<lag, files, stamp, newest>>
      /\ pc \in [Writers -> Steps] /\ want \in [Writers -> Types \cup {NoType}]
  BY DEF Load, NameInv, TypeOK
<1>2. TypeOK'
  BY <1>1 DEF NameInv, TypeOK, Steps
<1>3. Holders'
  BY <1>1 DEF NameInv, Holders, Torn
<1>4. QED
  BY <1>2, <1>3 DEF NameInv

\* A new identifier is nobody's.
LEMMA NameInvStamp ==
  ASSUME NameInv, NEW w \in Writers, Stamp(w)
  PROVE  NameInv'
<1>1. PICK id \in IdsOfMs(now - lag[w]) :
        ~Taken(id) /\ stamp' = [stamp EXCEPT ![w] = id]
  BY DEF Stamp
<1>2. id \in Int
  BY <1>1, IdsAreIntegers DEF NameInv, TypeOK
<1>3. /\ pc[w] = "loaded" /\ pc' = [pc EXCEPT ![w] = "stamped"]
      /\ UNCHANGED <<now, lag, files, want, newest, overlapped>>
      /\ pc \in [Writers -> Steps] /\ stamp \in [Writers -> Int]
  BY DEF Stamp, NameInv, TypeOK
<1>4. TypeOK'
  BY <1>1, <1>2, <1>3 DEF NameInv, TypeOK, Steps
<1>5. \A v \in Writers : pc[v] \in {"stamped", "created"} => stamp[v] # id
  BY <1>1 DEF Taken, NameInv, Holders, Torn
<1>6. \A f \in files : f.id # id
  BY <1>1 DEF Taken
<1>7. Holders'
  BY <1>1, <1>3, <1>5, <1>6 DEF NameInv, Holders, Torn
<1>8. QED
  BY <1>4, <1>7 DEF NameInv

\* The exclusive create meets no file of its name.
LEMMA NameInvCreate ==
  ASSUME NameInv, NEW w \in Writers, Create(w)
  PROVE  NameInv'
<1>1. /\ pc[w] = "stamped" /\ pc' = [pc EXCEPT ![w] = "created"]
      /\ files' = files \cup {Torn(w)}
      /\ UNCHANGED <<now, lag, want, stamp, newest, overlapped>>
      /\ pc \in [Writers -> Steps] /\ stamp \in [Writers -> Int]
  BY DEF Create, NameInv, TypeOK, Torn
<1>2. Torn(w) \in File /\ \A f \in files : f.id # Torn(w).id
  BY <1>1, TypesAssumption DEF NameInv, Holders, Torn, File
<1>3. TypeOK'
  BY <1>1, <1>2 DEF NameInv, TypeOK, Steps
<1>4. \A v \in Writers : pc'[v] = "stamped"
        => v # w /\ pc[v] = "stamped" /\ stamp[v] # Torn(w).id
  BY <1>1 DEF NameInv, Holders, Torn
<1>5. \A v \in Writers : Torn(v)' = Torn(v)
  BY <1>1 DEF Torn
<1>6. Holders'
  <2>1. \A v \in Writers : pc'[v] # "idle" => want'[v] \in Types
    BY <1>1 DEF NameInv, Holders
  <2>2. \A v \in Writers : pc'[v] = "stamped"
          => \A f \in files' : f.id # stamp'[v]
    BY <1>1, <1>4 DEF NameInv, Holders
  <2>3. \A v \in Writers : pc'[v] = "created" => Torn(v)' \in files'
    BY <1>1, <1>5 DEF NameInv, Holders
  <2>4. \A v \in Writers : pc'[v] \in {"stamped", "created"}
          => pc[v] \in {"stamped", "created"} /\ stamp'[v] = stamp[v]
    BY <1>1
  <2>5. QED
    BY <2>1, <2>2, <2>3, <2>4 DEF NameInv, Holders
<1>7. QED
  BY <1>3, <1>6 DEF NameInv

\* The written record replaces the torn one under the same name.
LEMMA NameInvWriteBody ==
  ASSUME NameInv, NEW w \in Writers, WriteBody(w)
  PROVE  NameInv'
<1>1. /\ pc[w] = "created" /\ pc' = [pc EXCEPT ![w] = "idle"]
      /\ want' = [want EXCEPT ![w] = NoType]
      /\ stamp' = [stamp EXCEPT ![w] = 0]
      /\ files' = {f \in files : f.id # stamp[w]} \cup {Written(w)}
      /\ newest' \in {stamp[w], newest}
      /\ UNCHANGED <<now, lag, overlapped>>
      /\ pc \in [Writers -> Steps] /\ stamp \in [Writers -> Int]
      /\ want \in [Writers -> Types \cup {NoType}]
  BY DEF WriteBody, Exit, NameInv, TypeOK, Written
<1>2. Written(w) \in File
  BY <1>1, TypesAssumption DEF NameInv, Holders, Written, File
<1>3. TypeOK'
  <2>1. files' \subseteq File
    BY <1>1, <1>2 DEF NameInv, TypeOK
  <2>2. ASSUME NEW f \in files', NEW g \in files', f.id = g.id PROVE f = g
    <3>1. Written(w).id = stamp[w]
      BY DEF Written
    <3>2. \A h \in files' : h.id # stamp[w] => h \in files
      BY <1>1, <3>1
    <3>3. \A h \in files' : h.id = stamp[w] => h = Written(w)
      BY <1>1, <3>1
    <3>4. QED
      BY <2>2, <3>2, <3>3 DEF NameInv, TypeOK
  <2>3. /\ pc' \in [Writers -> Steps]
        /\ want' \in [Writers -> Types \cup {NoType}]
        /\ stamp' \in [Writers -> Int]
    BY <1>1 DEF Steps
  <2>4. newest' \in Int
    BY <1>1 DEF NameInv, TypeOK
  <2>5. QED
    BY <1>1, <2>1, <2>2, <2>3, <2>4 DEF NameInv, TypeOK
<1>4. \A v \in Writers : pc'[v] # "idle"
        => v # w /\ pc[v] = pc'[v] /\ want'[v] = want[v] /\ stamp'[v] = stamp[v]
  BY <1>1
<1>5. \A v \in Writers : pc'[v] \in {"stamped", "created"}
        => stamp[v] # stamp[w]
  BY <1>1, <1>4 DEF NameInv, Holders
<1>6. Holders'
  BY <1>1, <1>4, <1>5 DEF NameInv, Holders, Torn, Written
<1>7. QED
  BY <1>3, <1>6 DEF NameInv

\* A killed command holds nothing any more; its torn file stays.
LEMMA NameInvCrash ==
  ASSUME NameInv, NEW w \in Writers, Crash(w)
  PROVE  NameInv'
<1>1. /\ pc' = [pc EXCEPT ![w] = "idle"]
      /\ want' = [want EXCEPT ![w] = NoType]
      /\ stamp' = [stamp EXCEPT ![w] = 0]
      /\ UNCHANGED <<now, lag, files, newest, overlapped>>
      /\ pc \in [Writers -> Steps] /\ stamp \in [Writers -> Int]
      /\ want \in [Writers -> Types \cup {NoType}]
  BY DEF Crash, Exit, NameInv, TypeOK
<1>2. TypeOK'
  BY <1>1 DEF NameInv, TypeOK, Steps
<1>3. Holders'
  BY <1>1 DEF NameInv, Holders, Torn
<1>4. QED
  BY <1>2, <1>3 DEF NameInv

\* Every step keeps identifiers unique.
LEMMA NameInvNext == NameInv /\ [Next]_vars => NameInv'
<1>1. SUFFICES ASSUME NameInv, [Next]_vars PROVE NameInv'
  OBVIOUS
<1>2. CASE UNCHANGED vars
  BY <1>1, <1>2 DEF vars, NameInv, TypeOK, Holders, Torn
<1>3. CASE Next
  BY <1>1, <1>3, NameInvLoad, NameInvStamp, NameInvCreate, NameInvWriteBody,
     NameInvCrash DEF Next
<1>4. QED
  BY <1>1, <1>2, <1>3

\* The invariant holds under any interleaving.
THEOREM NameInvHolds == Spec => []NameInv
BY NameInvInit, NameInvNext, PTL DEF Spec

\* Whatever overlaps, lags or is killed, the state is well typed and no two
\* record files share an identifier.
THEOREM TypeCorrect == Spec => []TypeOK
<1>1. NameInv => TypeOK
  BY DEF NameInv
<1>2. QED
  BY <1>1, NameInvHolds, PTL

----------------------------------------------------------------------------
(***************************************************************************)
(* Commands one at a time, on any clocks: one runs, and the only torn file *)
(* is the one it is writing or the one a killed command left.              *)
(***************************************************************************)
AloneInv ==
  /\ \A v, w \in Writers : pc[v] # "idle" /\ pc[w] # "idle" => v = w
  /\ \A w \in Writers : pc[w] # "idle" =>
       \A f \in files : ~f.whole => pc[w] = "created" /\ f = Torn(w)
  /\ \A f, g \in files : ~f.whole /\ ~g.whole => f = g

SoleInv == NameInv /\ (~overlapped => AloneInv)

\* The opened record is whole and nothing runs.
LEMMA SoleInvInit == Init => SoleInv
<1>1. SUFFICES ASSUME Init PROVE SoleInv
  OBVIOUS
<1>2. NameInv
  BY <1>1, NameInvInit
<1>3. pc = [v \in Writers |-> "idle"] /\ \A f \in files : f.whole
  BY <1>1 DEF Init
<1>4. QED
  BY <1>2, <1>3 DEF SoleInv, AloneInv

\* Every step of commands that do not overlap keeps it.
LEMMA SoleInvNext == SoleInv /\ [Next]_vars => SoleInv'
<1>1. SUFFICES ASSUME SoleInv, [Next]_vars, ~overlapped' PROVE AloneInv'
  BY NameInvNext DEF SoleInv
<1>2. NameInv /\ NameInv'
  BY <1>1, NameInvNext DEF SoleInv
<1>3. CASE UNCHANGED vars
  BY <1>1, <1>3 DEF vars, SoleInv, AloneInv, Torn
<1>4. ASSUME NEW w \in Writers, NEW t \in Types, Load(w, t) PROVE AloneInv'
  <2>1. /\ \A v \in Writers : pc[v] = "idle"
        /\ pc' = [pc EXCEPT ![w] = "loaded"] /\ pc \in [Writers -> Steps]
        /\ \A f \in files : f.whole
        /\ UNCHANGED files
    BY <1>1, <1>2, <1>4 DEF Load, Running, Readable, NameInv, TypeOK
  <2>2. QED
    BY <2>1 DEF AloneInv
<1>5. ASSUME NEW w \in Writers, Stamp(w) PROVE AloneInv'
  <2>1. /\ pc[w] = "loaded" /\ pc' = [pc EXCEPT ![w] = "stamped"]
        /\ pc \in [Writers -> Steps]
        /\ UNCHANGED <<files, overlapped>>
    BY <1>2, <1>5 DEF Stamp, NameInv, TypeOK
  <2>2. \A f \in files : f.whole
    BY <1>1, <2>1 DEF SoleInv, AloneInv
  <2>3. QED
    BY <1>1, <2>1, <2>2 DEF SoleInv, AloneInv
<1>6. ASSUME NEW w \in Writers, Create(w) PROVE AloneInv'
  <2>1. /\ pc[w] = "stamped" /\ pc' = [pc EXCEPT ![w] = "created"]
        /\ pc \in [Writers -> Steps]
        /\ files' = files \cup {Torn(w)} /\ Torn(w)' = Torn(w)
        /\ UNCHANGED overlapped
    BY <1>2, <1>6 DEF Create, NameInv, TypeOK, Torn
  <2>2. \A f \in files : f.whole
    BY <1>1, <2>1 DEF SoleInv, AloneInv
  <2>3. \A f \in files' : ~f.whole => f = Torn(w)
    BY <2>1, <2>2
  <2>4. \A v \in Writers : pc'[v] # "idle" => v = w /\ pc'[v] = "created"
    BY <1>1, <2>1 DEF SoleInv, AloneInv
  <2>5. QED
    BY <2>1, <2>3, <2>4 DEF AloneInv
<1>7. ASSUME NEW w \in Writers, WriteBody(w) PROVE AloneInv'
  <2>1. /\ pc[w] = "created" /\ pc' = [pc EXCEPT ![w] = "idle"]
        /\ pc \in [Writers -> Steps]
        /\ files' = {f \in files : f.id # stamp[w]} \cup {Written(w)}
        /\ UNCHANGED overlapped
    BY <1>2, <1>7 DEF WriteBody, Exit, NameInv, TypeOK, Written
  <2>2. \A f \in files : ~f.whole => f.id = stamp[w]
    BY <1>1, <2>1 DEF SoleInv, AloneInv, Torn
  <2>3. \A f \in files' : f.whole
    BY <2>1, <2>2 DEF Written
  <2>4. \A v \in Writers : pc'[v] = "idle"
    BY <1>1, <2>1 DEF SoleInv, AloneInv
  <2>5. QED
    BY <2>3, <2>4 DEF AloneInv
<1>8. ASSUME NEW w \in Writers, Crash(w) PROVE AloneInv'
  <2>1. /\ pc[w] # "idle" /\ pc' = [pc EXCEPT ![w] = "idle"]
        /\ pc \in [Writers -> Steps]
        /\ UNCHANGED <<files, overlapped>>
    BY <1>2, <1>8 DEF Crash, Exit, NameInv, TypeOK
  <2>2. \A v \in Writers : pc'[v] = "idle"
    BY <1>1, <2>1 DEF SoleInv, AloneInv
  <2>3. QED
    BY <1>1, <2>1, <2>2 DEF SoleInv, AloneInv
<1>9. QED
  BY <1>1, <1>3, <1>4, <1>5, <1>6, <1>7, <1>8 DEF Next

(***************************************************************************)
(* However many commands are killed, on whatever clocks, those that do not *)
(* overlap leave at most one torn file.                                    *)
(***************************************************************************)
THEOREM CrashTearsOne == Spec => []CrashTearsOneRecord
<1>1. ASSUME SoleInv PROVE CrashTearsOneRecord
  <2> DEFINE T == {f \in files : ~f.whole}
  <2>1. SUFFICES ASSUME ~overlapped PROVE Cardinality(T) <= 1
    BY DEF CrashTearsOneRecord
  <2>2. CASE T = {}
    BY <2>2, FS_EmptySet
  <2>3. CASE T # {}
    <3>1. PICK f \in T : T = {f}
      BY <1>1, <2>1, <2>3 DEF SoleInv, AloneInv
    <3>2. Cardinality(T) = 1
      BY <3>1, FS_Singleton
    <3>3. QED
      BY <3>2
  <2>4. QED
    BY <2>2, <2>3
<1>2. QED
  BY <1>1, SoleInvInit, SoleInvNext, PTL DEF Spec

----------------------------------------------------------------------------
(***************************************************************************)
(* Commands one at a time on clocks that agree.  The invariant ties the    *)
(* running command to the journal it loaded: nothing else has been written *)
(* since, its identifier sorts after every record, and what the journal's  *)
(* state admitted at the load it admits still.                             *)
(***************************************************************************)
Start(m) == m * PerMs

RunOK(w) ==
  /\ Admits(StateOf(Whole(files)), want[w])
  /\ pc[w] = "loaded" => \A f \in files : f.id < Start(now)
  /\ pc[w] \in {"stamped", "created"}
       => /\ Start(now) <= stamp[w] /\ stamp[w] < Start(now + 1)
          /\ \A f \in Whole(files) : f.id < stamp[w]

NewestIsGreatest ==
  \A f \in Whole(files) : f.type \in ClosingTypes => f.id <= newest

SerialInv ==
  /\ NameInv
  /\ AloneInv
  /\ \A w \in Writers : lag[w] = 0
  /\ \A w \in Writers : pc[w] # "idle" => RunOK(w)
  /\ \A f \in files : f.id < Start(now + 1)
  /\ Projectable(Whole(files))
  /\ NewestIsGreatest

DisciplinedInv == SoleInv /\ (Disciplined => SerialInv)

\* The next millisecond's identifiers follow this one's.
LEMMA Milliseconds ==
  ASSUME NEW m \in Nat
  PROVE  /\ Start(m) \in Int /\ Start(m + 1) \in Int
         /\ Start(m) < Start(m + 1)
         /\ Start(m + 1) < Start(m + 2)
         /\ \A id \in IdsOfMs(m) :
              id \in Int /\ Start(m) <= id /\ id < Start(m + 1)
<1>1. PerMs \in Nat \ {0}
  BY BoundsAssumption
<1>2. Start(m) \in Int
  BY <1>1 DEF Start
<1>3. Start(m + 1) = Start(m) + PerMs
  BY <1>1 DEF Start
<1>4. Start(m + 2) = Start(m) + PerMs + PerMs
  BY <1>1 DEF Start
<1>5. IdsOfMs(m) = Start(m)..(Start(m) + PerMs - 1)
  BY DEF IdsOfMs, Start
<1>6. QED
  BY <1>1, <1>2, <1>3, <1>4, <1>5

\* The finished records are records with unique identifiers.
LEMMA WholeAreRecords ==
  ASSUME NameInv
  PROVE  AreRecords(Whole(files)) /\ UniqueIds(Whole(files))
BY DEF NameInv, TypeOK, File, Whole, AreRecords, UniqueIds

\* The opened record alone projects.
LEMMA SerialInvInit == Init /\ Disciplined => SerialInv
<1>1. SUFFICES ASSUME Init, Disciplined PROVE SerialInv
  OBVIOUS
<1>2. NameInv /\ AloneInv /\ now \in Nat
  BY <1>1, SoleInvInit, BoundsAssumption DEF SoleInv, Disciplined, Init
<1>3. pc = [v \in Writers |-> "idle"] /\ \A v \in Writers : lag[v] = 0
  BY <1>1 DEF Init, Disciplined
<1>4. PICK w \in Writers : \E id \in IdsOfMs(now - lag[w]) :
        files = {[id |-> id, type |-> "opened", whole |-> TRUE]}
  BY <1>1 DEF Init
<1>5. now - lag[w] = now
  BY <1>2, <1>3
<1>6. PICK id \in IdsOfMs(now) :
        files = {[id |-> id, type |-> "opened", whole |-> TRUE]}
  BY <1>4, <1>5
<1>7. id \in Int /\ id < Start(now + 1)
  BY <1>2, Milliseconds
<1>8. Whole(files) = files
  BY <1>6 DEF Whole
<1>9. \A s : ~TerminalBefore(files, id, s)
  BY <1>6, <1>7 DEF TerminalBefore
<1>10. Projectable(Whole(files))
  <2>1. \A r \in files : r.id = id /\ r.type = "opened"
    BY <1>6
  <2>2. OpenedOnce(files)
    BY <1>6, <2>1 DEF OpenedOnce
  <2>3. NothingAfterTerminal(files)
    BY <1>9, <2>1 DEF NothingAfterTerminal
  <2>4. ReopensClosed(files)
    BY <2>1 DEF ReopensClosed
  <2>5. QED
    BY <1>8, <2>2, <2>3, <2>4 DEF Projectable
<1>11. NewestIsGreatest
  BY <1>6, <1>8 DEF NewestIsGreatest, ClosingTypes
<1>12. QED
  BY <1>2, <1>3, <1>6, <1>7, <1>10, <1>11 DEF SerialInv

\* A command starts alone, on a journal that reads and admits its record.
LEMMA SerialInvLoad ==
  ASSUME SerialInv, NameInv', AloneInv', ~overlapped', NEW w \in Writers,
         NEW t \in Types, Load(w, t)
  PROVE  SerialInv'
<1>1. /\ \A v \in Writers : pc[v] = "idle"
      /\ now \in Nat /\ now' = now + 1
      /\ pc' = [pc EXCEPT ![w] = "loaded"] /\ pc \in [Writers -> Steps]
      /\ want' = [want EXCEPT ![w] = t]
      /\ want \in [Writers -> Types \cup {NoType}]
      /\ Readable(files) /\ Admits(StateOf(files), t)
      /\ UNCHANGED <<lag, files, newest>>
  BY DEF Load, Running, SerialInv, NameInv, TypeOK
<1>2. (\A f \in files : f.whole) /\ Whole(files) = files
  BY <1>1 DEF Readable, Whole
<1>3. \A f \in files : f.id \in Int
  BY DEF SerialInv, NameInv, TypeOK, File
<1>4. \A f \in files : f.id < Start(now') /\ f.id < Start(now' + 1)
  BY <1>1, <1>3, Milliseconds DEF SerialInv
<1>5. \A v \in Writers : pc'[v] # "idle" => v = w
  BY <1>1
<1>6. pc'[w] = "loaded" /\ want'[w] = t /\ Whole(files)' = files
  BY <1>1, <1>2 DEF Whole
<1>7. RunOK(w)'
  BY <1>1, <1>2, <1>4, <1>6 DEF RunOK
<1>8. NewestIsGreatest' /\ Projectable(Whole(files))'
  BY <1>1 DEF SerialInv, NewestIsGreatest, Whole
<1>9. QED
  BY <1>1, <1>4, <1>5, <1>7, <1>8 DEF SerialInv

\* Its identifier sorts after every record, for its clock has moved on.
LEMMA SerialInvStamp ==
  ASSUME SerialInv, NameInv', AloneInv', NEW w \in Writers, Stamp(w)
  PROVE  SerialInv'
<1>1. /\ pc[w] = "loaded" /\ pc' = [pc EXCEPT ![w] = "stamped"]
      /\ pc \in [Writers -> Steps] /\ stamp \in [Writers -> Int]
      /\ now \in Nat /\ lag[w] = 0
      /\ UNCHANGED <<now, lag, files, want, newest, overlapped>>
  BY DEF Stamp, SerialInv, NameInv, TypeOK
<1>2. PICK id \in IdsOfMs(now) : stamp' = [stamp EXCEPT ![w] = id]
  <2>1. now - lag[w] = now
    BY <1>1
  <2>2. QED
    BY <2>1 DEF Stamp
<1>3. id \in Int /\ Start(now) <= id /\ id < Start(now + 1)
      /\ Start(now) \in Int
  BY <1>1, Milliseconds
<1>4. RunOK(w)
  BY <1>1 DEF SerialInv
<1>5. \A f \in files : f.id \in Int /\ f.whole /\ f.id < id
  BY <1>1, <1>3, <1>4 DEF RunOK, SerialInv, AloneInv, NameInv, TypeOK, File
<1>6. pc'[w] = "stamped" /\ stamp'[w] = id /\ want'[w] = want[w]
      /\ Whole(files)' = Whole(files) /\ Whole(files) \subseteq files
  BY <1>1, <1>2 DEF Whole
<1>7. RunOK(w)'
  BY <1>1, <1>3, <1>4, <1>5, <1>6 DEF RunOK
<1>8. \A v \in Writers : pc'[v] # "idle" => v = w
  BY <1>1 DEF SerialInv, AloneInv
<1>9. NewestIsGreatest'
  BY <1>1, <1>6 DEF SerialInv, NewestIsGreatest
<1>10. QED
  BY <1>1, <1>6, <1>7, <1>8, <1>9 DEF SerialInv

\* Its file is the only torn one.
LEMMA SerialInvCreate ==
  ASSUME SerialInv, NameInv', AloneInv', NEW w \in Writers, Create(w)
  PROVE  SerialInv'
<1>1. /\ pc[w] = "stamped" /\ pc' = [pc EXCEPT ![w] = "created"]
      /\ pc \in [Writers -> Steps]
      /\ files' = files \cup {Torn(w)} /\ Torn(w)' = Torn(w)
      /\ UNCHANGED <<now, lag, want, stamp, newest, overlapped>>
  BY DEF Create, SerialInv, NameInv, TypeOK, Torn
<1>2. RunOK(w)
  BY <1>1 DEF SerialInv
<1>3. ~Torn(w).whole /\ Torn(w).id = stamp[w]
  BY DEF Torn
<1>4. Whole(files)' = Whole(files) /\ \A f \in files : f.whole
  BY <1>1, <1>3 DEF Whole, SerialInv, AloneInv
<1>5. pc'[w] = "created"
  BY <1>1
<1>6. RunOK(w)'
  BY <1>1, <1>2, <1>4, <1>5 DEF RunOK
<1>7. \A v \in Writers : pc'[v] # "idle" => v = w
  BY <1>1 DEF SerialInv, AloneInv
<1>8. \A f \in files' : f.id < Start(now' + 1)
  BY <1>1, <1>2, <1>3 DEF RunOK, SerialInv
<1>9. NewestIsGreatest'
  BY <1>1, <1>4 DEF SerialInv, NewestIsGreatest
<1>10. QED
  BY <1>1, <1>4, <1>6, <1>7, <1>8, <1>9 DEF SerialInv

\* The written record is the newest, and the state it joins admits it.
LEMMA SerialInvWriteBody ==
  ASSUME SerialInv, NameInv', AloneInv', NEW w \in Writers, WriteBody(w)
  PROVE  SerialInv'
<1> DEFINE n == Written(w)
           R == Whole(files)
<1>1. /\ pc[w] = "created" /\ pc' = [pc EXCEPT ![w] = "idle"]
      /\ pc \in [Writers -> Steps] /\ stamp[w] \in Int /\ newest \in Int
      /\ files' = {f \in files : f.id # stamp[w]} \cup {n}
      /\ newest' = IF want[w] \in ClosingTypes THEN stamp[w] ELSE newest
      /\ UNCHANGED <<now, lag>>
  BY DEF WriteBody, Exit, SerialInv, NameInv, TypeOK, Written
<1>2. RunOK(w) /\ want[w] \in Types
  BY <1>1 DEF SerialInv, NameInv, Holders
<1>3. n.whole /\ n.id = stamp[w] /\ n.type = want[w]
  BY DEF Written
<1>4. AreRecords(R) /\ UniqueIds(R) /\ \A f \in files : f.id \in Int
  BY WholeAreRecords DEF SerialInv, NameInv, TypeOK, File
<1>5. \A f \in R : f.id < stamp[w]
  BY <1>1, <1>2 DEF RunOK
<1>6. \A f \in files : ~f.whole => f.id = stamp[w]
  BY <1>1 DEF SerialInv, AloneInv, Torn
<1>7. files' = R \cup {n}
  BY <1>1, <1>3, <1>4, <1>5, <1>6 DEF Whole
<1>8. Whole(files)' = R \cup {n}
  BY <1>3, <1>7 DEF Whole
<1>9. IsNewest(n, R) /\ AreRecords({n}) /\ n.type # "opened"
  BY <1>1, <1>2, <1>3, <1>5, TypesAssumption DEF IsNewest, AreRecords
<1>10. Projectable(Whole(files))'
  BY <1>2, <1>3, <1>4, <1>8, <1>9, AdmittedRecordKeepsProjectable
     DEF SerialInv, RunOK
<1>11. NewestIsGreatest'
  <2>1. \A f \in R : f.type \in ClosingTypes
          => f.id <= newest /\ f.id < stamp[w] /\ f.id \in Int
    BY <1>4, <1>5 DEF SerialInv, NewestIsGreatest, AreRecords
  <2>2. QED
    BY <1>1, <1>3, <1>8, <2>1 DEF NewestIsGreatest
<1>12. \A v \in Writers : pc'[v] = "idle"
  BY <1>1 DEF SerialInv, AloneInv
<1>13. \A f \in files' : f.id < Start(now' + 1)
  <2>1. stamp[w] < Start(now + 1)
    BY <1>1, <1>2 DEF RunOK
  <2>2. QED
    BY <1>1, <1>3, <2>1 DEF SerialInv
<1>14. QED
  BY <1>1, <1>10, <1>11, <1>12, <1>13 DEF SerialInv

\* A killed command leaves the records as they were.
LEMMA SerialInvCrash ==
  ASSUME SerialInv, NameInv', AloneInv', NEW w \in Writers, Crash(w)
  PROVE  SerialInv'
<1>1. /\ pc[w] # "idle" /\ pc' = [pc EXCEPT ![w] = "idle"]
      /\ pc \in [Writers -> Steps]
      /\ UNCHANGED <<now, lag, files, newest, overlapped>>
  BY DEF Crash, Exit, SerialInv, NameInv, TypeOK
<1>2. \A v \in Writers : pc'[v] = "idle"
  BY <1>1 DEF SerialInv, AloneInv
<1>3. NewestIsGreatest' /\ Projectable(Whole(files))'
  BY <1>1 DEF SerialInv, NewestIsGreatest, Whole
<1>4. QED
  BY <1>1, <1>2, <1>3 DEF SerialInv

\* Every step of the discipline keeps the invariant.
LEMMA DisciplinedInvNext == DisciplinedInv /\ [Next]_vars => DisciplinedInv'
<1>1. SUFFICES ASSUME DisciplinedInv, [Next]_vars, Disciplined' PROVE SerialInv'
  BY SoleInvNext DEF DisciplinedInv
<1>2. overlapped \in BOOLEAN /\ lag' = lag /\ (overlapped => overlapped')
  BY <1>1 DEF DisciplinedInv, SoleInv, NameInv, TypeOK, Next, vars, Load, Stamp,
     Create, WriteBody, Crash
<1>3. SerialInv /\ NameInv' /\ AloneInv' /\ ~overlapped'
  BY <1>1, <1>2, SoleInvNext DEF DisciplinedInv, SoleInv, Disciplined
<1>4. CASE UNCHANGED vars
  BY <1>3, <1>4 DEF vars, SerialInv, RunOK, NewestIsGreatest, Whole
<1>5. CASE Next
  BY <1>3, <1>5, SerialInvLoad, SerialInvStamp, SerialInvCreate,
     SerialInvWriteBody, SerialInvCrash DEF Next
<1>6. QED
  BY <1>1, <1>4, <1>5

\* The invariant of every behavior; what it says of a disciplined one is the
\* point.
THEOREM DisciplinedInvHolds == Spec => []DisciplinedInv
<1>1. Init => DisciplinedInv
  BY SoleInvInit, SerialInvInit DEF DisciplinedInv
<1>2. QED
  BY <1>1, DisciplinedInvNext, PTL DEF Spec

(***************************************************************************)
(* Commands that do not overlap, on hosts whose clocks agree, leave a      *)
(* journal the next command can read, wherever they are killed.            *)
(***************************************************************************)
THEOREM SerialCommandsLeaveReadable == Spec => []CommandsLeaveJournalReadable
<1>1. DisciplinedInv => CommandsLeaveJournalReadable
  BY DEF DisciplinedInv, SerialInv, CommandsLeaveJournalReadable
<1>2. QED
  BY <1>1, DisciplinedInvHolds, PTL

(***************************************************************************)
(* Under the same discipline the closing or reopening written last is the  *)
(* one with the greatest file name.                                        *)
(***************************************************************************)
THEOREM SerialLatestIsGreatestName == Spec => []LatestIsGreatestName
<1>1. DisciplinedInv => LatestIsGreatestName
  BY DEF DisciplinedInv, SerialInv, LatestIsGreatestName, NewestIsGreatest
<1>2. QED
  BY <1>1, DisciplinedInvHolds, PTL
----------------------------------------------------------------------------
(***************************************************************************)
(* What a reader of the finished records sees refines AbstractLifecycle,   *)
(* whatever overlaps, lags or is killed.  Only WriteBody changes what is   *)
(* finished, and it adds one record under a new identifier, wherever that  *)
(* identifier sorts; RecordTypes_proofs says where the state can go.       *)
(***************************************************************************)
Abandoned == \E f \in Whole(files) : f.type = "abandoned"

\* A task just opened is open.
LEMMA OpenedLifecycle == Init => Lifecycle!Init
<1>1. SUFFICES ASSUME Init PROVE Visible = "open" /\ Abandoned = FALSE
  BY DEF Lifecycle!Init, Abandoned
<1>2. \E o : files = {o} /\ o.type = "opened" /\ o.whole
  <2>1. PICK w \in Writers : \E id \in IdsOfMs(now - lag[w]) :
          files = {[id |-> id, type |-> "opened", whole |-> TRUE]}
    BY <1>1 DEF Init
  <2>2. PICK id \in IdsOfMs(now - lag[w]) :
          files = {[id |-> id, type |-> "opened", whole |-> TRUE]}
    BY <2>1
  <2> DEFINE o == [id |-> id, type |-> "opened", whole |-> TRUE]
  <2>3. files = {o} /\ o.type = "opened" /\ o.whole
    BY <2>2
  <2>4. QED
    BY <2>3
<1>3. PICK o : files = {o} /\ o.type = "opened" /\ o.whole
  BY <1>2
<1>4. Whole(files) = {o}
  BY <1>3 DEF Whole
<1>5. AreRecords({o}) /\ UniqueIds({o})
  BY <1>1, <1>4, NameInvInit, WholeAreRecords
<1>6. Projectable({o})
  BY <1>3, <1>5 DEF AreRecords, Projectable, OpenedOnce, NothingAfterTerminal,
     ReopensClosed, TerminalBefore
<1>7. StateOf({o}) = "open"
  BY <1>3, Tables DEF StateOf, ClosedAs
<1>8. QED
  BY <1>3, <1>4, <1>6, <1>7 DEF Visible, Abandoned

\* No step but WriteBody changes what is finished.
LEMMA FinishedOnlyByWriteBody ==
  ASSUME NEW w \in Writers,
         (\E t \in Types : Load(w, t)) \/ Stamp(w) \/ Create(w) \/ Crash(w)
  PROVE  UNCHANGED Whole(files)
<1>1. CASE UNCHANGED files
  BY <1>1 DEF Whole
<1>2. CASE Create(w)
  BY <1>2 DEF Create, Whole
<1>3. QED
  BY <1>1, <1>2 DEF Load, Stamp, Crash

\* WriteBody finishes one record, under an identifier no finished record has.
LEMMA WriteBodyFinishesOne ==
  ASSUME NameInv, NEW w \in Writers, WriteBody(w)
  PROVE  /\ Whole(files)' = Whole(files) \cup {Written(w)}
         /\ Written(w) \notin Whole(files)
         /\ Written(w).type \in RecordTypes /\ Written(w).type # "opened"
<1>1. pc[w] = "created" /\ Torn(w) \in files /\ want[w] \in Types
  BY DEF WriteBody, NameInv, Holders
<1>2. \A f \in files : f.id = stamp[w] => ~f.whole
  BY <1>1 DEF NameInv, TypeOK, Torn
<1>3. files' = {f \in files : f.id # stamp[w]} \cup {Written(w)}
  BY DEF WriteBody, Written
<1>4. /\ Written(w).id = stamp[w] /\ Written(w).whole
      /\ Written(w).type = want[w]
  BY DEF Written
<1>5. Whole(files)' = Whole(files) \cup {Written(w)}
  BY <1>2, <1>3, <1>4 DEF Whole
<1>6. Written(w) \notin Whole(files)
  BY <1>2, <1>4 DEF Whole
<1>7. QED
  BY <1>1, <1>4, <1>5, <1>6, TypesAssumption

\* The record a command finishes moves the reader along the lifecycle.
LEMMA WriteBodyMovesAlongLifecycle ==
  ASSUME NameInv, NameInv', NEW w \in Writers, WriteBody(w)
  PROVE  [Lifecycle!Next]_<<Visible, Abandoned>>
<1> DEFINE R == Whole(files)
           S == Whole(files)'
           n == Written(w)
<1>1. /\ S = R \cup {n} /\ n \notin R
      /\ n.type \in RecordTypes /\ n.type # "opened"
  BY WriteBodyFinishesOne
<1>2. AreRecords(R) /\ UniqueIds(R) /\ AreRecords(S) /\ UniqueIds(S)
  BY WholeAreRecords DEF NameInv, TypeOK, File, Whole, AreRecords, UniqueIds
<1> HIDE DEF R, S, n
<1>3. /\ Visible = IF Projectable(R) THEN StateOf(R) ELSE "unreadable"
      /\ Visible' = IF Projectable(S) THEN StateOf(S) ELSE "unreadable"
      /\ Abandoned = \E f \in R : f.type = "abandoned"
      /\ Abandoned' = \E f \in S : f.type = "abandoned"
  BY DEF Visible, Abandoned, R, S
<1>4. Abandoned' \in {Abandoned, TRUE}
  BY <1>1, <1>3
<1>5. CASE ~Projectable(S)
  BY <1>3, <1>4, <1>5 DEF Lifecycle!Next, Lifecycle!Wedge, Abandoned
<1>6. CASE Projectable(S) /\ ~Projectable(R)
  <2>1. StateOf(S) \in States /\ (Abandoned' <=> StateOf(S) = "abandoned")
    BY <1>2, <1>3, <1>6, StateOfIsClosedAs, AbandonedIsRecorded
  <2>2. QED
    BY <1>3, <1>4, <1>6, <2>1, Tables
       DEF Lifecycle!Next, Lifecycle!Heal, Abandoned, States
<1>7. CASE Projectable(S) /\ Projectable(R)
  <2>1. /\ n.type \notin LifecycleTypes => StateOf(S) = StateOf(R)
        /\ n.type = "completed" => StateOf(R) = "open" /\ StateOf(S) = "done"
        /\ n.type = "abandoned"
             => StateOf(R) = "open" /\ StateOf(S) = "abandoned"
        /\ n.type = "reopened" => StateOf(R) = "done" /\ StateOf(S) = "open"
    BY <1>1, <1>2, <1>7, JoiningMovesAlongLifecycle
  <2>2. n.type # "abandoned" => Abandoned' = Abandoned
    BY <1>1, <1>3
  <2>3. n.type = "abandoned" => Abandoned' = TRUE
    BY <1>1, <1>3
  <2>4. QED
    BY <1>1, <1>3, <1>7, <2>1, <2>2, <2>3, Tables
       DEF Lifecycle!Next, Lifecycle!Complete, Lifecycle!Abandon,
           Lifecycle!Reopen, Abandoned
<1>8. QED
  BY <1>5, <1>6, <1>7

(***************************************************************************)
(* Any number of hosts and commands, overlapping, lagging and killed: what *)
(* a reader of the finished records is told moves only along the           *)
(* lifecycle.  A completion is undone by a reopening alone, an abandonment *)
(* by nothing, and a journal the race left senseless is refused.           *)
(***************************************************************************)
THEOREM JournalRefinesLifecycle == Spec => ImplementsLifecycle
<1>1. ASSUME NameInv, NameInv', [Next]_vars
      PROVE  [Lifecycle!Next]_<<Visible, Abandoned>>
  <2>1. CASE UNCHANGED vars
    BY <2>1 DEF vars, Visible, Abandoned, Whole
  <2>2. ASSUME NEW w \in Writers, WriteBody(w)
        PROVE  [Lifecycle!Next]_<<Visible, Abandoned>>
    BY <1>1, <2>2, WriteBodyMovesAlongLifecycle
  <2>3. ASSUME UNCHANGED Whole(files)
        PROVE  [Lifecycle!Next]_<<Visible, Abandoned>>
    BY <2>3 DEF Visible, Abandoned
  <2>4. QED
    BY <1>1, <2>1, <2>2, <2>3, FinishedOnlyByWriteBody DEF Next
<1>2. QED
  BY <1>1, OpenedLifecycle, NameInvHolds, PTL
     DEF Spec, ImplementsLifecycle, Lifecycle!Spec, Lifecycle!vars, Abandoned

----------------------------------------------------------------------------
(* From here on RecordRules, whose rules read nothing of TaskJournal's state. *)

\* The rules that look at nothing but the record.
Placed(r, c) == Placement(r, c) /\ c.finding # "missing"

(***************************************************************************)
(* What passes the rules of a write is read wherever it lies in its place: *)
(* a reader applies fewer rules and knows less.                            *)
(***************************************************************************)
LEMMA WrittenIsReadable ==
  ASSUME NEW r, NEW c, NEW d, Valid(r, TRUE, c), Placed(r, d)
  PROVE  Valid(r, FALSE, d)
<1>1. SUFFICES ASSUME NEW n \in Rules
               PROVE  Passes(n, r, d)
  BY DEF Valid
<1>2. Passes(n, r, c)
  BY DEF Valid
<1>3. CASE n = "placement"
  BY <1>3 DEF Passes, Placed
<1>4. CASE n = "binding-target"
  BY <1>4 DEF Passes, Placed, BindingTarget
<1>5. CASE n \notin {"placement", "binding-target"}
  BY <1>2, <1>5 DEF Passes, Rules
<1>6. QED
  BY <1>3, <1>4, <1>5

\* The record a journal may begin with is one its readers accept.
LEMMA FindingIsRead ==
  ASSUME NEW t
  PROVE  Valid(FindingOf(t), FALSE,
               [tasks |-> {t}, names |-> {"finding"}, finding |-> "unknown"])
<1> DEFINE r == FindingOf(t)
           c == [tasks |-> {t}, names |-> {"finding"}, finding |-> "unknown"]
           ks == {"created_at", "tool_version", "source", "summary",
                  "artifacts", "recorded_by", "recorded_by_source"}
<1>1. /\ r.schema = 4 /\ r.type = "finding" /\ r.task = t
      /\ DOMAIN r.f = ks /\ \A x \in ks : r.f[x] = "ok"
  BY DEF FindingOf, CreateFinding, Emitted, Common
<1>2. Keys(r) = ks
  BY <1>1 DEF Keys, Nested
<1>3. SUFFICES ASSUME NEW n \in Rules, FromSchema(n) <= r.schema
               PROVE  Passes(n, r, c)
  BY <1>1 DEF Valid, SupportedSchemas
<1> HIDE DEF r
<1>4. CASE n = "fields"
  <2>1. ks \subseteq AllowedFields("finding", 4)
    <3>1. /\ <<2, RecordTypes, ProvenanceFields>> \in FieldFamilies
          /\ "finding" \in RecordTypes
      BY DEF FieldFamilies, RecordTypes
    <3>2. ProvenanceFields \subseteq AllowedFields("finding", 4)
      BY <3>1 DEF AllowedFields
    <3>3. Common \cup {"summary"} \subseteq AllowedFields("finding", 4)
      BY <3>1 DEF AllowedFields, BaseFields
    <3>4. QED
      BY <3>2, <3>3 DEF ProvenanceFields, Common
  <2>2. QED
    BY <1>1, <1>2, <1>4, <2>1 DEF Passes
<1>5. CASE n \in {"created-at", "tool-version"}
  BY <1>1, <1>5 DEF Passes, Must, Has, String
<1>6. CASE n \in {"types", "type-schema"}
  <2>1. "summary" \in DOMAIN r.f /\ r.f["summary"] \in PlainText
    BY <1>1 DEF PlainText, Text, String, Forging
  <2>2. "artifacts" \in DOMAIN r.f /\ r.f["artifacts"] \in Shape
    BY <1>1 DEF Shape
  <2>3. FindingRule(r)
    BY <2>1, <2>2 DEF FindingRule, Must, Has
  <2>4. TypeRule(r) /\ TypeSchema(r)
    BY <1>1, <2>3 DEF TypeRule, TypeSchema, ReasonRule
  <2>5. QED
    BY <1>6, <2>4 DEF Passes
<1>7. CASE n = "recorded-by"
  BY <1>1, <1>7 DEF Passes, RecordedBy, May, Has, String, Shape
<1>8. CASE n \in {"placement", "binding-target"}
  BY <1>1, <1>8 DEF Passes, Placement, BindingTarget
<1>9. CASE n \in {"provenance", "finding-binding"}
  <2>1. Provenance(r)
    BY <1>1 DEF Provenance, Must, May, Has, Shape
  <2>2. FindingBinding(r)
    BY <1>1 DEF FindingBinding
  <2>3. QED
    BY <1>9, <2>1, <2>2 DEF Passes
<1>10. CASE n \in {"reviewed-contract", "coordination"}
  BY <1>1, <1>10 DEF Passes, FromSchema, Has
<1>11. CASE n \in {"fields-7", "bounded", "forgeable-text",
                   "artifact-ref-text", "timestamp-text"}
  BY <1>1, <1>3, <1>11 DEF FromSchema
<1>12. QED
  BY <1>4, <1>5, <1>6, <1>7, <1>8, <1>9, <1>10, <1>11 DEF Rules

Read(e) ==
  Valid(e.rec, FALSE, [tasks |-> {e.dir}, names |-> {e.name},
                       finding |-> "unknown"])

\* A record that enters passed every rule, under what was known of its place.
Checked(e) ==
  /\ \E c : Valid(e.rec, TRUE, c)
  /\ e.rec.task = e.dir /\ e.rec.type = e.name

\* The rule of the place is one of those a write applies.
LEMMA CheckedInPlace ==
  ASSUME NEW r, NEW c, Valid(r, TRUE, c)
  PROVE  Placement(r, c)
<1>1. "placement" \in Rules
  BY DEF Rules
<1>2. Passes("placement", r, c)
  BY <1>1 DEF Valid
<1>3. QED
  BY <1>2 DEF Passes

(***************************************************************************)
(* A command and a candidate add nothing but records that passed.          *)
(***************************************************************************)
LEMMA OnlyCheckedEnters ==
  ASSUME [RulesNext]_rulesVars, NEW e \in journal', e \notin journal
  PROVE  Checked(e)
<1>1. ASSUME NEW t, NEW task, NEW dest, NEW given, NEW os, NEW x, NEW v,
             NEW resolves, Write(t, task, dest, given, os, x, v, resolves)
      PROVE  Checked(e)
  <2> DEFINE r == Stamped(Build(t, task, given, os, x, v), resolves)
  <2> HIDE DEF r
  <2>1. /\ Valid(r, TRUE, WriteContext(dest))
        /\ e = [dir |-> dest, name |-> r.type, rec |-> r]
    BY <1>1 DEF Write, Writes, r
  <2>2. r.task = dest
    <3>1. Placement(r, WriteContext(dest))
      BY <2>1, CheckedInPlace
    <3>2. QED
      BY <3>1 DEF Placement, WriteContext
  <2>3. QED
    BY <2>1, <2>2 DEF Checked
<1>2. ASSUME NEW p, Submit(p)
      PROVE  Checked(e)
  <2>1. e = p /\ Accepted(p)
    BY <1>2 DEF Submit
  <2>2. p.rec.type = p.name
    <3>1. Placement(p.rec, [tasks |-> Tasks, names |-> {p.name},
                            finding |-> "unknown"])
      BY <2>1, CheckedInPlace DEF Accepted
    <3>2. QED
      BY <3>1 DEF Placement
  <2>3. QED
    BY <2>1, <2>2 DEF Accepted, Checked
<1>3. RulesNext
  BY DEF rulesVars
<1>4. \/ \E p : Submit(p)
      \/ \E t, task, dest, given, os, x, v, resolves :
           Write(t, task, dest, given, os, x, v, resolves)
  BY <1>3, Zenon DEF RulesNext
<1>5. QED
  BY <1>1, <1>2, <1>4

(***************************************************************************)
(* What a command wrote or the gate let in, a reader of the task loads.    *)
(***************************************************************************)
THEOREM EnteredIsRead == RulesSpec => []WhateverEntersIsRead
<1>1. RulesInit => WhateverEntersIsRead
  <2>1. SUFFICES ASSUME NEW t \in Tasks, NEW e,
                        e = [dir |-> t, name |-> "finding", rec |-> FindingOf(t)]
                 PROVE  Read(e)
    BY DEF RulesInit, WhateverEntersIsRead, Read
  <2>2. e.dir = t /\ e.name = "finding" /\ e.rec = FindingOf(t)
    BY <2>1
  <2>3. QED
    BY <2>2, FindingIsRead DEF Read
<1>2. WhateverEntersIsRead /\ [RulesNext]_rulesVars => WhateverEntersIsRead'
  <2>1. SUFFICES ASSUME WhateverEntersIsRead, [RulesNext]_rulesVars,
                        NEW e \in journal'
                 PROVE  Read(e)
    BY DEF WhateverEntersIsRead, Read
  <2>2. CASE e \in journal
    BY <2>1, <2>2 DEF WhateverEntersIsRead, Read
  <2>3. CASE e \notin journal
    <3>1. Checked(e)
      BY <2>1, <2>3, OnlyCheckedEnters
    <3>2. QED
      BY <3>1, WrittenIsReadable DEF Checked, Read, Placed, Placement
  <2>4. QED
    BY <2>2, <2>3
<1>3. QED
  BY <1>1, <1>2, PTL DEF RulesSpec

----------------------------------------------------------------------------
\* The stamp of a builder, schema by schema: what asks for it.
Asking(t, f) ==
  LET keys == DOMAIN f \ Nested IN
  {3} \cup {s \in {4} : t = "finding" \/ keys \cap BindingFields4 # {}}
    \cup {s \in {5} : "reviewed_contract" \in keys}
    \cup {s \in {6} : "activity" \in keys /\ f["activity"] = "other"}
    \cup {s \in {7} : \/ keys \cap (SessionFields7 \cup ContractFields7
                           \cup AcceptanceFields7 \cup ReviewFields7
                           \cup CompletedFields7) # {}
                      \/ "reviewer.actor" \in DOMAIN f
                      \/ t \in {"check", "agreement", "acknowledgement", "ext"}}

LEMMA HighestIsGreatest ==
  ASSUME NEW S \in SUBSET (3 .. 7), 3 \in S
  PROVE  Highest(S) \in S /\ \A q \in S : q <= Highest(S)
<1>1. \E s \in S : \A q \in S : q <= s
  <2>1. CASE 7 \in S
    BY <2>1
  <2>2. CASE 7 \notin S /\ 6 \in S
    BY <2>2
  <2>3. CASE 7 \notin S /\ 6 \notin S /\ 5 \in S
    BY <2>3
  <2>4. CASE 7 \notin S /\ 6 \notin S /\ 5 \notin S /\ 4 \in S
    BY <2>4
  <2>5. CASE 7 \notin S /\ 6 \notin S /\ 5 \notin S /\ 4 \notin S
    BY <2>5
  <2>6. QED
    BY <2>1, <2>2, <2>3, <2>4, <2>5
<1>2. QED
  BY <1>1 DEF Highest

LEMMA StampIsGreatest ==
  ASSUME NEW t, NEW f
  PROVE  /\ MinimumSchema(t, f) \in Asking(t, f) \cap (3 .. 7)
         /\ \A q \in Asking(t, f) : q <= MinimumSchema(t, f)
<1>1. Asking(t, f) \in SUBSET (3 .. 7) /\ 3 \in Asking(t, f)
  BY DEF Asking
<1>2. MinimumSchema(t, f) = Highest(Asking(t, f))
  BY DEF MinimumSchema, Asking
<1>3. QED
  BY <1>1, <1>2, HighestIsGreatest

\* A builder's record, apart from its schema: the key inside the reviewer is
\* a review's alone.
BuiltFields(r) ==
  r.type \in RecordTypes /\ ("reviewer.actor" \in DOMAIN r.f => r.type = "review")

\* The fields a schema adds are those of the families up to it.
LEMMA FamilyOf ==
  ASSUME NEW t, NEW s, NEW x \in AllowedFields(t, s)
  PROVE  \/ x \in BaseFields[t]
         \/ \E fam \in FieldFamilies : s >= fam[1] /\ t \in fam[2] /\ x \in fam[3]
BY DEF AllowedFields

FieldsOf7 == SessionFields7 \cup ContractFields7 \cup AcceptanceFields7
               \cup ReviewFields7 \cup CompletedFields7

\* No field of schema 7 that asks for it is allowed before.
LEMMA SevenNotBefore ==
  ASSUME NEW t \in RecordTypes, NEW s \in 3 .. 7,
         NEW x \in AllowedFields(t, s), x \in FieldsOf7, t # "check",
         t # "agreement", t # "acknowledgement", t # "ext"
  PROVE  s = 7
<1>1. x \notin BaseFields[t]
  BY DEF BaseFields, RecordTypes, FieldsOf7, Common, SessionFields7,
     ContractFields7, AcceptanceFields7, ReviewFields7, CompletedFields7
<1>2. PICK fam \in FieldFamilies : s >= fam[1] /\ t \in fam[2] /\ x \in fam[3]
  BY <1>1, FamilyOf
<1>3. CASE fam[1] = 7
  BY <1>2, <1>3
<1>4. CASE fam[1] # 7
  <2>1. fam[3] \in {ProvenanceFields, {"usage"}, {"reviewed_contract"}}
    BY <1>4 DEF FieldFamilies
  <2>2. QED
    BY <1>2, <2>1 DEF FieldsOf7, ProvenanceFields, SessionFields7,
       ContractFields7, AcceptanceFields7, ReviewFields7, CompletedFields7
<1>5. QED
  BY <1>3, <1>4

\* What the rules admit under s, s is at least the stamp for.
LEMMA StampIsNeeded ==
  ASSUME NEW r, NEW c, Valid(r, TRUE, c), r.schema \in 3 .. 7, BuiltFields(r)
  PROVE  MinimumSchema(r.type, r.f) <= r.schema
<1>1. ASSUME NEW n \in Rules
      PROVE  Passes(n, r, c)
  BY DEF Valid
<1>2. /\ Keys(r) \subseteq AllowedFields(r.type, r.schema)
      /\ FindingBinding(r) /\ TypeSchema(r) /\ TypeRule(r)
      /\ Has(r, "reviewed_contract") => r.schema >= 5
      /\ (r.type = "session" /\ r.f["activity"] = "other") => r.schema >= 6
  <2>1. {"fields", "finding-binding", "type-schema", "types",
         "reviewed-contract", "coordination"} \subseteq Rules
    BY DEF Rules
  <2>2. /\ Passes("fields", r, c) /\ Passes("finding-binding", r, c)
        /\ Passes("type-schema", r, c) /\ Passes("types", r, c)
        /\ Passes("reviewed-contract", r, c) /\ Passes("coordination", r, c)
    BY <1>1, <2>1
  <2>3. QED
    BY <2>2 DEF Passes
<1>3. SUFFICES ASSUME NEW q \in Asking(r.type, r.f)
               PROVE  q <= r.schema
  BY StampIsGreatest
<1>4. CASE q = 3
  BY <1>4
<1>5. CASE q = 4
  BY <1>2, <1>3, <1>5 DEF Asking, FindingBinding, Keys
<1>6. CASE q = 5
  BY <1>2, <1>3, <1>6 DEF Asking, Has
<1>7. CASE q = 6
  <2>1. "activity" \in Keys(r) /\ r.f["activity"] = "other"
    BY <1>3, <1>7 DEF Asking, Keys
  <2>2. r.type = "session"
    <3>1. "activity" \in AllowedFields(r.type, r.schema)
      BY <1>2, <2>1
    <3>2. ~ \E fam \in FieldFamilies : "activity" \in fam[3]
      BY DEF FieldFamilies, ProvenanceFields, SessionFields7, ContractFields7,
         CheckFields7, AcknowledgementFields7, AcceptanceFields7,
         ReviewFields7, CompletedFields7, ExtFields7
    <3>3. "activity" \in BaseFields[r.type]
      BY <3>1, <3>2, FamilyOf
    <3>4. QED
      BY <3>3 DEF BuiltFields, BaseFields, RecordTypes, Common
  <2>3. QED
    BY <1>2, <1>7, <2>1, <2>2
<1>8. CASE q = 7
  <2>1. CASE r.type \in {"check", "agreement", "acknowledgement", "ext"}
    BY <1>2, <1>8, <2>1 DEF TypeSchema
  <2>2. CASE "reviewer.actor" \in DOMAIN r.f
    BY <1>2, <1>8, <2>2 DEF BuiltFields, TypeRule, ReviewRule, Has
  <2>3. CASE /\ Keys(r) \cap FieldsOf7 # {}
             /\ r.type \notin {"check", "agreement", "acknowledgement", "ext"}
    <3>1. PICK x \in Keys(r) : x \in FieldsOf7
      BY <2>3
    <3>2. QED
      BY <1>2, <1>8, <2>3, <3>1, SevenNotBefore DEF BuiltFields
  <2>4. QED
    BY <1>3, <1>8, <2>1, <2>2, <2>3 DEF Asking, Keys, FieldsOf7
<1>9. QED
  BY <1>3, <1>4, <1>5, <1>6, <1>7, <1>8 DEF Asking

\* Two records that differ in their schema alone.
SameButSchema(p, r) == p.type = r.type /\ p.task = r.task /\ p.f = r.f

\* Of the rules that ask nothing of the schema both say the same.
LEMMA SameShapes ==
  ASSUME NEW p, NEW r, SameButSchema(p, r)
  PROVE  /\ Keys(p) = Keys(r)
         /\ \A x : Has(p, x) <=> Has(r, x)
         /\ \A xs, V : Must(p, xs, V) <=> Must(r, xs, V)
         /\ \A xs, V : May(p, xs, V) <=> May(r, xs, V)
         /\ \A xs : OneOf(p, xs) <=> OneOf(r, xs)
<1>1. \A x : Has(p, x) <=> Has(r, x)
  BY DEF SameButSchema, Has
<1>2. Keys(p) = Keys(r)
  BY DEF SameButSchema, Keys
<1>3. ASSUME NEW xs, NEW V PROVE Must(p, xs, V) <=> Must(r, xs, V)
  BY <1>1 DEF SameButSchema, Must
<1>4. ASSUME NEW xs, NEW V PROVE May(p, xs, V) <=> May(r, xs, V)
  BY <1>1 DEF SameButSchema, May
<1>5. ASSUME NEW xs PROVE OneOf(p, xs) <=> OneOf(r, xs)
  BY DEF SameButSchema, OneOf
<1>6. QED
  BY <1>1, <1>2, <1>3, <1>4, <1>5

LEMMA SameFieldsRule ==
  ASSUME NEW p, NEW r, SameButSchema(p, r), FieldsRule7(r)
  PROVE  FieldsRule7(p)
<1>1. p.type = r.type /\ p.f = r.f
  BY DEF SameButSchema
<1>2. p.type = "session" => SessionRule7(p)
  <2>1. SUFFICES ASSUME p.type = "session" PROVE SessionRule7(p)
    OBVIOUS
  <2>2. SessionRule7(r)
    BY <1>1, <2>1 DEF FieldsRule7
  <2>3. SessionTimes(p)
    BY <1>1, <2>2, SameShapes DEF SessionRule7, SessionTimes
  <2>4. QED
    BY <2>2, <2>3, SameShapes DEF SessionRule7, CostRule
<1>3. p.type = "check" => CheckRule7(p)
  BY <1>1, SameShapes DEF FieldsRule7, CheckRule7
<1>4. p.type = "acknowledgement" => AcknowledgementRule7(p)
  BY <1>1, SameShapes DEF FieldsRule7, AcknowledgementRule7
<1>5. p.type = "acceptance" => AcceptanceRule7(p)
  BY <1>1, SameShapes DEF FieldsRule7, AcceptanceRule7
<1>6. p.type = "review" => ReviewRule7(p)
  <2>1. SUFFICES ASSUME p.type = "review" PROVE ReviewRule7(p)
    OBVIOUS
  <2>2. ReviewRule7(r)
    BY <1>1, <2>1 DEF FieldsRule7
  <2>3. NamesItsFindings(p, "classes") /\ NamesItsFindings(p, "evidence")
    BY <1>1, <2>2, SameShapes DEF ReviewRule7, NamesItsFindings
  <2>4. QED
    BY <2>2, <2>3, SameShapes DEF ReviewRule7, VerificationRule
<1>7. p.type = "completed" => CompletedRule7(p)
  BY <1>1, SameShapes DEF FieldsRule7, CompletedRule7, DispositionRule
<1>8. p.type = "ext" => ExtRule7(p)
  BY <1>1, SameShapes DEF FieldsRule7, ExtRule7
<1>9. May(p, {"contract"}, Shape) /\ (p.type = "agreement" => Has(p, "contract"))
  BY <1>1, SameShapes DEF FieldsRule7
<1>10. QED
  BY <1>2, <1>3, <1>4, <1>5, <1>6, <1>7, <1>8, <1>9 DEF FieldsRule7

\* The rules of schema 1 ask for the schema only of a reviewer's actor.
LEMMA SameTypeRule ==
  ASSUME NEW p, NEW r, SameButSchema(p, r), TypeRule(r),
         Has(p, "reviewer.actor") => p.schema >= 7
  PROVE  TypeRule(p)
<1>1. p.type = r.type /\ p.f = r.f
  BY DEF SameButSchema
<1>2. p.type = "review" => ReviewRule(p)
  <2>1. SUFFICES ASSUME p.type = "review" PROVE ReviewRule(p)
    OBVIOUS
  <2>2. ReviewRule(r)
    BY <1>1, <2>1 DEF TypeRule
  <2>3. Binding(p, "reviewed_commit", "reviewed_finding")
    BY <2>2, SameShapes DEF ReviewRule, Binding
  <2>4. /\ Must(p, {"verdict"}, {"ok", "other"}) /\ Must(p, {"reviewer"}, String)
        /\ Must(p, {"findings"}, {"ok", "empty"})
        /\ May(p, {"advisory_findings"}, {"ok", "empty"})
        /\ May(p, {"reviewed_contract"}, Shape)
    BY <2>2, SameShapes DEF ReviewRule
  <2>5. (p.f["verdict"] = "other") <=> (p.f["findings"] = "empty")
    BY <1>1, <2>2 DEF ReviewRule
  <2>6. QED
    BY <2>3, <2>4, <2>5 DEF ReviewRule
<1>3. p.type = "acceptance" => AcceptanceRule(p)
  BY <1>1, SameShapes DEF TypeRule, AcceptanceRule, Binding
<1>4. p.type = "completed" => Binding(p, "completed_commit", "completed_finding")
  BY <1>1, SameShapes DEF TypeRule, Binding
<1>5. p.type = "finding" => FindingRule(p)
  BY <1>1, SameShapes DEF TypeRule, FindingRule
<1>6. p.type = "session" => SessionRule(p)
  BY <1>1, SameShapes DEF TypeRule, SessionRule
<1>7. ReasonRule(p)
  BY <1>1, SameShapes DEF TypeRule, ReasonRule
<1>8. QED
  BY <1>2, <1>3, <1>4, <1>5, <1>6, <1>7 DEF TypeRule

\* A field a schema allows asks for the schema that added it.
LEMMA StampCoversFields ==
  ASSUME NEW p, NEW s \in 3 .. 7, BuiltFields(p),
         p.schema = MinimumSchema(p.type, p.f),
         Keys(p) \subseteq AllowedFields(p.type, s)
  PROVE  Keys(p) \subseteq AllowedFields(p.type, p.schema)
<1>1. SUFFICES ASSUME NEW x \in Keys(p)
               PROVE  x \in AllowedFields(p.type, p.schema)
  OBVIOUS
<1>2. CASE x \in BaseFields[p.type]
  BY <1>2 DEF AllowedFields
<1>3. CASE x \notin BaseFields[p.type]
  <2>1. PICK fam \in FieldFamilies :
          s >= fam[1] /\ p.type \in fam[2] /\ x \in fam[3]
    BY <1>1, <1>3, FamilyOf
  <2>2. /\ p.schema \in 3 .. 7
        /\ \A q \in Asking(p.type, p.f) : q <= p.schema
    BY StampIsGreatest
  <2>3. p.schema >= fam[1]
    <3>1. CASE fam[1] = 2
      BY <2>2, <3>1
    <3>2. CASE fam[1] = 5
      <4>1. x = "reviewed_contract"
        BY <2>1, <3>2 DEF FieldFamilies
      <4>2. 5 \in Asking(p.type, p.f)
        BY <4>1 DEF Asking, Keys
      <4>3. QED
        BY <2>2, <3>2, <4>2
    <3>3. CASE fam[1] = 7
      <4>1. \/ x \in FieldsOf7
            \/ p.type \in {"check", "agreement", "acknowledgement", "ext"}
        BY <2>1, <3>3 DEF FieldFamilies, FieldsOf7
      <4>2. 7 \in Asking(p.type, p.f)
        BY <4>1 DEF Asking, Keys, FieldsOf7
      <4>3. QED
        BY <2>2, <3>3, <4>2
    <3>4. fam[1] \in {2, 5, 7}
      BY <2>1 DEF FieldFamilies
    <3>5. QED
      BY <3>1, <3>2, <3>3, <3>4
  <2>4. QED
    BY <2>1, <2>3 DEF AllowedFields
<1>4. QED
  BY <1>2, <1>3

\* What the rules admit under some schema they admit under the stamp.
LEMMA StampIsEnough ==
  ASSUME NEW p, NEW r, NEW c, Valid(r, TRUE, c), r.schema \in 3 .. 7,
         SameButSchema(p, r), BuiltFields(p),
         p.schema = MinimumSchema(p.type, p.f)
  PROVE  Valid(p, TRUE, c)
<1>1. ASSUME NEW n \in Rules
      PROVE  Passes(n, r, c)
  BY DEF Valid
<1>2. /\ p.schema \in 3 .. 7
      /\ \A q \in Asking(p.type, p.f) : q <= p.schema
  BY StampIsGreatest
<1>3. p.type = r.type /\ p.task = r.task /\ p.f = r.f
  BY DEF SameButSchema
<1>4. SUFFICES ASSUME NEW n \in Rules
               PROVE  Passes(n, p, c)
  BY <1>2 DEF Valid, SupportedSchemas
<1>5. Passes(n, r, c)
  BY <1>1
<1>6. CASE n = "fields"
  <2>1. Keys(p) \subseteq AllowedFields(p.type, r.schema)
    BY <1>3, <1>5, <1>6, SameShapes DEF Passes
  <2>2. QED
    BY <1>6, <2>1, StampCoversFields DEF Passes
<1>7. CASE n \in {"created-at", "tool-version", "artifact-ref-text"}
  BY <1>5, <1>7, SameShapes DEF Passes
<1>8. CASE n = "types"
  <2>1. Has(p, "reviewer.actor") => p.schema >= 7
    BY <1>2 DEF Asking, Has
  <2>2. QED
    BY <1>5, <1>8, <2>1, SameTypeRule DEF Passes
<1>9. CASE n = "type-schema"
  BY <1>2, <1>9 DEF Passes, TypeSchema, Asking
<1>10. CASE n = "recorded-by"
  BY <1>3, <1>5, <1>10, SameShapes DEF Passes, RecordedBy
<1>11. CASE n = "placement"
  BY <1>3, <1>5, <1>11 DEF Passes, Placement
<1>12. CASE n = "binding-target"
  BY <1>5, <1>12, SameShapes DEF Passes, BindingTarget
<1>13. CASE n = "provenance"
  <2>1. Provenance(r)
    BY <1>5, <1>13 DEF Passes
  <2>2. Provenance(p)
    BY <2>1, SameShapes DEF Provenance
  <2>3. QED
    BY <1>13, <2>2 DEF Passes
<1>14. CASE n = "finding-binding"
  BY <1>2, <1>14 DEF Passes, FindingBinding, Asking, Keys
<1>15. CASE n = "reviewed-contract"
  <2>1. Has(p, "reviewed_contract") => 5 \in Asking(p.type, p.f)
    BY DEF Asking, Has, Nested
  <2>2. QED
    BY <1>2, <1>15, <2>1 DEF Passes
<1>16. CASE n = "coordination"
  <2>1. SUFFICES ASSUME p.type = "session", p.f["activity"] = "other"
                 PROVE  p.schema >= 6
    BY <1>16 DEF Passes
  <2>2. "activity" \in DOMAIN p.f
    <3>1. "types" \in Rules
      BY DEF Rules
    <3>2. TypeRule(r)
      BY <1>1, <3>1 DEF Passes
    <3>3. QED
      BY <1>3, <2>1, <3>2 DEF TypeRule, SessionRule, Must, Has
  <2>3. 6 \in Asking(p.type, p.f)
    BY <2>1, <2>2 DEF Asking, Nested
  <2>4. QED
    BY <1>2, <2>3
<1>17. CASE n = "fields-7"
  BY <1>5, <1>17, SameFieldsRule DEF Passes
<1>18. CASE n = "bounded"
  BY <1>3, <1>5, <1>18 DEF Passes, BoundedRule
<1>19. CASE n = "forgeable-text"
  BY <1>3, <1>5, <1>19, SameShapes DEF Passes
<1>20. CASE n = "timestamp-text"
  BY <1>3, <1>5, <1>20, SameShapes DEF Passes, TimestampText
<1>21. QED
  BY <1>6, <1>7, <1>8, <1>9, <1>10, <1>11, <1>12, <1>13, <1>14, <1>15, <1>16,
     <1>17, <1>18, <1>19, <1>20 DEF Rules

\* A record with the schema its fields ask for; recorder and context aside.
WellStamped(r) ==
  /\ BuiltFields(r)
  /\ r.schema = MinimumSchema(r.type, r.f)
  /\ r = [schema |-> r.schema, type |-> r.type, task |-> r.task, f |-> r.f]

LEMMA CreatedForReviews ==
  ASSUME NEW t \in RecordTypes, NEW given, given \subseteq Arguments[t],
         "reviewer.actor" \in Created(t, given)
  PROVE  t = "review"
<1>1. SUFFICES ASSUME t # "review" PROVE "reviewer.actor" \notin Created(t, given)
  OBVIOUS
<1>2. "reviewer.actor" \notin Arguments[t]
  BY <1>1
     DEF Arguments, SessionFields7, AcceptanceFields7, ReviewFields7, RecordTypes
<1>3. QED
  BY <1>1, <1>2 DEF Created, Emitted, Common, CreateOpened, CreateCompleted,
     CreateFinding, CreateClosing, CreateAmendment, CreateSession,
     CreateAcceptance, CreateCheck, CreateAcknowledgement, CreateAgreement,
     CreateExt, RecordTypes

\* The recorder that is added to a built record asks for no schema.
LEMMA BuildersStamp ==
  ASSUME NEW t \in RecordTypes, NEW task, NEW given, given \subseteq Arguments[t],
         NEW os, NEW x, NEW v, NEW resolves
  PROVE  WellStamped(Stamped(Build(t, task, given, os, x, v), resolves))
<1> DEFINE b == Build(t, task, given, os, x, v)
           r == Stamped(b, resolves)
<1>1. PICK f : /\ b = [schema |-> MinimumSchema(t, f), type |-> t,
                       task |-> task, f |-> f]
               /\ DOMAIN f \subseteq Created(t, given)
  <2> DEFINE g == Values(Created(t, given), os, x, v)
             f == [y \in {z \in DOMAIN g : t = "review" => ~LeftOut(g, z)}
                     |-> g[y]]
  <2>1. DOMAIN g = Created(t, given)
    BY DEF Values
  <2>2. b = [schema |-> MinimumSchema(t, f), type |-> t, task |-> task, f |-> f]
    BY DEF Build
  <2> HIDE DEF g, b
  <2>3. DOMAIN f \subseteq Created(t, given)
    BY <2>1
  <2>4. QED
    BY <2>2, <2>3
<1> HIDE DEF b
<1>2. ASSUME r = b
      PROVE  WellStamped(r)
  <2>1. BuiltFields(b)
    BY <1>1, CreatedForReviews DEF BuiltFields
  <2>2. WellStamped(b)
    BY <1>1, <2>1 DEF WellStamped
  <2>3. QED
    BY <1>2, <2>2
<1>3. ASSUME r # b
      PROVE  WellStamped(r)
  <2> DEFINE g == [y \in DOMAIN f \cup Recorder |->
                     IF y \in DOMAIN f THEN f[y] ELSE "ok"]
  <2>1. r = [schema |-> MinimumSchema(t, f), type |-> t, task |-> task, f |-> g]
    BY <1>1, <1>3 DEF Stamped
  <2>2. /\ DOMAIN g = DOMAIN f \cup Recorder
        /\ \A y \in DOMAIN f : g[y] = f[y]
    OBVIOUS
  <2> HIDE DEF g, r
  <2>3. Asking(t, g) = Asking(t, f)
    BY <2>2 DEF Asking, Nested, BindingFields4, SessionFields7, ContractFields7,
       AcceptanceFields7, ReviewFields7, CompletedFields7, Recorder
  <2>4. MinimumSchema(t, g) = MinimumSchema(t, f)
    BY <2>3 DEF MinimumSchema, Asking
  <2>5. BuiltFields(r)
    BY <1>1, <2>1, <2>2, CreatedForReviews DEF BuiltFields, Recorder
  <2>6. r.schema = MinimumSchema(t, g) /\ r.type = t /\ r.task = task /\ r.f = g
    BY <2>1, <2>4
  <2>7. QED
    BY <2>1, <2>4, <2>5, <2>6 DEF WellStamped
<1>4. WellStamped(r)
  BY <1>2, <1>3
<1>5. QED
  BY <1>4 DEF b

(***************************************************************************)
(* The table of fields and the derivation of the stamp agree: whatever     *)
(* arguments and values a builder is given, it stamps the least schema     *)
(* that admits its record, if one does.                                    *)
(***************************************************************************)
THEOREM StampsAreLeast == RulesSpec => []StampIsLeastAdmitting
<1>1. RulesInit => StampIsLeastAdmitting
  BY DEF RulesInit, NotAsked, StampIsLeastAdmitting
<1>2. StampIsLeastAdmitting /\ [RulesNext]_rulesVars => StampIsLeastAdmitting'
  <2> SUFFICES ASSUME StampIsLeastAdmitting, [RulesNext]_rulesVars
               PROVE  StampIsLeastAdmitting'
    OBVIOUS
  <2>1. ASSUME NEW r, NEW c, WellStamped(r),
               asked' = [by |-> "command", rec |-> r, context |-> c]
        PROVE  StampIsLeastAdmitting'
    <3> DEFINE At(s) == [r EXCEPT !.schema = s]
               admitting == {s \in 3 .. 7 : Valid(At(s), TRUE, c)}
    <3>1. ASSUME NEW s
          PROVE  /\ At(s).schema = s
                 /\ SameButSchema(At(s), r)
      BY <2>1 DEF WellStamped, SameButSchema
    <3>2. asked'.rec = r /\ asked'.context = c
      BY <2>1
    <3> HIDE DEF At
    <3>3. ASSUME NEW s \in admitting
          PROVE  r.schema <= s /\ r.schema \in admitting
      <4>1. /\ BuiltFields(At(s)) /\ BuiltFields(At(r.schema))
            /\ MinimumSchema(At(s).type, At(s).f) = r.schema
            /\ MinimumSchema(At(r.schema).type, At(r.schema).f) = r.schema
        BY <2>1, <3>1 DEF WellStamped, BuiltFields, SameButSchema
      <4>2. r.schema <= s
        BY <3>1, <3>3, <4>1, StampIsNeeded
      <4>3. SameButSchema(At(r.schema), At(s))
        BY <3>1 DEF SameButSchema
      <4>4. Valid(At(r.schema), TRUE, c)
        BY <3>1, <3>3, <4>1, <4>3, StampIsEnough
      <4>5. r.schema \in 3 .. 7
        BY <2>1, StampIsGreatest DEF WellStamped
      <4>6. QED
        BY <4>2, <4>4, <4>5
    <3>4. QED
      BY <3>2, <3>3 DEF StampIsLeastAdmitting, At
  <2>2. ASSUME NEW t \in RuleTypes, NEW task, NEW dest,
               NEW given \in Givens(t, MaxGiven), NEW os, NEW x, NEW v,
               NEW resolves, Write(t, task, dest, given, os, x, v, resolves)
        PROVE  StampIsLeastAdmitting'
    <3> DEFINE r == Stamped(Build(t, task, given, os, x, v), resolves)
    <3>1. WellStamped(r)
      BY RuleTypesAssumption, BuildersStamp DEF Givens
    <3> HIDE DEF r
    <3>2. asked' = [by |-> "command", rec |-> r, context |-> WriteContext(dest)]
      BY <2>2 DEF Write, Writes, r
    <3>3. QED
      BY <2>1, <3>1, <3>2
  <2>3. ASSUME NEW p, Submit(p)
        PROVE  StampIsLeastAdmitting'
    <3>1. asked'.by = "candidate"
      BY <2>3 DEF Submit
    <3>2. QED
      BY <3>1 DEF StampIsLeastAdmitting
  <2>4. CASE UNCHANGED rulesVars
    BY <2>4 DEF rulesVars, StampIsLeastAdmitting
  <2>5. CASE RulesNext
    <3>1. \/ \E p : Submit(p)
          \/ \E t \in RuleTypes : \E given \in Givens(t, MaxGiven) :
               \E task, dest, os, x, v, resolves :
                 Write(t, task, dest, given, os, x, v, resolves)
      BY <2>5, Zenon DEF RulesNext
    <3>2. QED
      BY <2>2, <2>3, <3>1
  <2>6. QED
    BY <2>4, <2>5
<1>3. QED
  BY <1>1, <1>2, PTL DEF RulesSpec
=============================================================================
