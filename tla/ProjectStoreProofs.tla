-------------------------- MODULE ProjectStoreProofs --------------------------
(***************************************************************************)
(* Proofs about ProjectStore: rows, files, archives and execution sessions *)
(* tell one story, for any tasks, openings, revisions, faults and crashes. *)
(*                                                                         *)
(* The lock and the session need no condition.  The rest speaks of Profile *)
(* writes and exports that ran alone, and its inductive invariant says of  *)
(* each stage of a command what it has read, what it has written and what  *)
(* is still as it was.  At the end, the file of the Project lock as        *)
(* several processes see it (ProjectLock), and exports and imports         *)
(* (ProjectArchive).                                                       *)
(***************************************************************************)
EXTENDS ProjectStore, FiniteSetTheorems, TLAPS

\* The schemas are counted from one and an older build's is among them.
Constants ==
  /\ NoTask \notin Task
  /\ CurrentSchema \in Nat \ {0} /\ LegacySchema \in 1..CurrentSchema

-----------------------------------------------------------------------------
(***************************************************************************)
(* Types.                                                                  *)
(***************************************************************************)
Rev == {Unrevised} \cup ((Nat \ {0}) \X Task)
Described == [schema : Nat, rev : Rev]
Snapshots == [applied : Nat, metaSchema : Nat, ledger : Rev]
Memory == [epoch : Nat, manifest : Described, profile : Rev, rev : Rev, snapshot : Snapshots,
           collected : SUBSET {"profile", "manifest"}]

Rows ==
  /\ promoted \in BOOLEAN /\ applied \in 0..CurrentSchema /\ metaSchema \in Nat
  /\ ledger \in Rev /\ profileFile \in Rev /\ manifest \in Described
  /\ session \in [running : Nat, unclean : BOOLEAN]
InMemory == current \in Described /\ conn \in Nat /\ tx \in Rev /\ lock \in BOOLEAN
Tasks == pc \in [Task -> Stages] /\ mem \in [Task -> Memory]
Counted == opens \in Nat /\ faults \in Nat /\ crashes \in Nat /\ overlapped \in BOOLEAN

Typed == Rows /\ InMemory /\ Tasks /\ Counted

LEMMA RevParts ==
  ASSUME NEW r \in Rev
  PROVE /\ r[1] \in Nat
        /\ r[1] = 0 <=> r = Unrevised
BY DEF Rev, Unrevised

LEMMA NewRev ==
  ASSUME NEW n \in Nat, NEW t \in Task PROVE <<n + 1, t>> \in Rev
BY DEF Rev

LEMMA BlankIsMemory == Blank \in Memory
BY DEF Blank, Memory, Described, Snapshots, NotOpen, Rev, Unrevised

LEMMA Stored ==
  ASSUME NEW n \in Nat, NEW r \in Rev PROVE Manifest(n, r) \in Described
BY DEF Manifest, Described

LEMMA Nothing ==
  /\ NoTx = Unrevised /\ Unrevised \in Rev /\ Unrevised[1] = 0
  /\ NotOpen \in Described /\ NotOpen.rev = Unrevised /\ NotOpen.schema = 0
BY DEF NoTx, NotOpen, Unrevised, Rev, Described

LEMMA NoTxIsRev == NoTx \in Rev
BY DEF NoTx, Rev, Unrevised

LEMMA ShutTypes == ASSUME Shut PROVE conn' \in Nat /\ tx' \in Rev /\ lock' \in BOOLEAN
BY NoTxIsRev DEF Shut

LEMMA StoreTypes == ASSUME Constants, Init PROVE Typed
<1>1. Rows
  <2>1. [running |-> 0, unclean |-> FALSE] \in [running : Nat, unclean : BOOLEAN] OBVIOUS
  <2>2. 0 \in 0..CurrentSchema BY DEF Constants
  <2>3. QED BY <2>1, <2>2, Nothing DEF Init, Rows
<1>4. InMemory BY Nothing, NoTxIsRev DEF Init, InMemory
<1>2. Tasks BY BlankIsMemory DEF Init, Tasks, Stages
<1>3. QED BY <1>1, <1>2, <1>4 DEF Init, Typed, Counted

\* A task that goes on and may remember something keeps the types of tasks.
LEMMA GotoTypes ==
  ASSUME Typed, NEW t \in Task, NEW s \in Stages, Goto(t, s), NEW m \in Memory,
         UNCHANGED mem \/ Remember(t, m)
  PROVE Tasks'
BY DEF Typed, Tasks, Goto, Remember

LEMMA DoneTypes ==
  ASSUME Typed, NEW t \in Task, Done(t) PROVE Tasks'
BY BlankIsMemory DEF Typed, Tasks, Goto, Done, Stages

LEMMA AppearTypes ==
  ASSUME Constants, Typed, Create \/ Legacy PROVE Typed'
<1>1. PICK n \in 1..CurrentSchema : Appear(n) BY DEF Create, Legacy, Constants
<1>2. Manifest(n, Unrevised) \in Described BY Stored DEF Constants, Rev
<1>3. QED
  BY <1>1, <1>2
  DEF Constants, Typed, Rows, InMemory, Tasks, Counted, Appear, memory, Bounds

LEMMA StartTypes ==
  ASSUME Constants, Typed, NEW t \in Task,
         Open(t) \/ Close(t) \/ CreateProfile(t) \/ UpdateProfile(t) \/ Export(t)
  PROVE Typed'
<1> USE DEF Stages, Opening, Writing, Exporting, Alone
<1>1. mem[t] \in Memory BY DEF Typed, Tasks
<1>2. overlapped' \in BOOLEAN
  BY DEF Typed, Counted, Open, Close, CreateProfile, UpdateProfile, Export, Starts
<1>3. CASE Open(t)
  BY <1>2, <1>3 DEF Typed, Rows, InMemory, Tasks, Counted, Open, Starts, Goto, disk, memory
<1>4. CASE Close(t)
  <2>1. NotOpen \in Described BY DEF NotOpen, Described, Rev
  <2>2. EndSession(conn) \in [running : Nat, unclean : BOOLEAN]
    BY DEF Typed, Rows, EndSession
  <2>3. [mem[t] EXCEPT !.manifest = current] \in Memory
    BY <1>1 DEF Typed, InMemory, Memory
  <2>4. Tasks'
    BY <1>4, <2>3 DEF Typed, Tasks, Close, Starts, Goto, Remember
  <2>5. Rows'
    BY <1>4, <2>2 DEF Typed, Rows, Close
  <2>6. InMemory'
    BY <1>4, <2>1, ShutTypes DEF Typed, InMemory, Close
  <2>7. QED BY <1>2, <1>4, <2>4, <2>5, <2>6 DEF Typed, Counted, Close
<1>5. CASE CreateProfile(t)
  <2>1. [mem[t] EXCEPT !.epoch = conn] \in Memory
    BY <1>1 DEF Typed, InMemory, Memory
  <2>2. QED
    BY <1>2, <1>5, <2>1
    DEF Typed, Rows, InMemory, Tasks, Counted, CreateProfile, Starts, Goto, Remember, disk, memory
<1>6. CASE UpdateProfile(t)
  <2>1. [mem[t] EXCEPT !.epoch = conn, !.rev = profileFile] \in Memory
    BY <1>1 DEF Typed, Rows, InMemory, Memory
  <2>2. QED
    BY <1>2, <1>6, <2>1
    DEF Typed, Rows, InMemory, Tasks, Counted, UpdateProfile, Starts, Goto, Remember, disk, memory
<1>7. CASE Export(t)
  BY <1>2, <1>7 DEF Typed, Rows, InMemory, Tasks, Counted, Export, Starts, Goto, disk, memory
<1>8. QED BY <1>3, <1>4, <1>5, <1>6, <1>7

LEMMA OpeningTypes ==
  ASSUME Constants, Typed, NEW t \in Task,
         \/ Lock(t) \/ OpenDatabase(t) \/ BackupFails(t) \/ Migrate(t) \/ MigrationFails(t)
         \/ Opened(t) \/ OpenFails(t) \/ CloseManifest(t)
  PROVE Typed'
<1> USE DEF Constants, Bounds, disk, memory
<1>1. mem[t] \in Memory /\ mem[t].manifest \in Described BY DEF Typed, Tasks, Memory
<1>2. CASE Lock(t)
  <2>1. Tasks'
    <3>1. CASE lock \/ opens = MaxOpens BY <1>2, <3>1, DoneTypes DEF Lock
    <3>2. CASE ~(lock \/ opens = MaxOpens)
      <4>1. "locked" \in Stages BY DEF Stages, Opening
      <4>2. Goto(t, "locked") /\ UNCHANGED mem BY <1>2, <3>2 DEF Lock
      <4>3. QED BY <1>1, <4>1, <4>2, GotoTypes
    <3>3. QED BY <3>1, <3>2
  <2>2. Rows' BY <1>2 DEF Typed, Rows, Lock
  <2>3. InMemory' BY <1>2 DEF Typed, InMemory, Lock
  <2>4. opens' \in Nat BY <1>2 DEF Typed, Counted, Lock
  <2>5. QED BY <1>2, <2>1, <2>2, <2>3, <2>4 DEF Typed, Counted, Lock
<1>3. CASE OpenDatabase(t)
  <2>1. [mem[t] EXCEPT !.manifest = manifest, !.epoch = opens] \in Memory
    BY <1>1 DEF Typed, Rows, Counted, Memory
  <2>2. Tasks'
    BY <1>3, <2>1, GotoTypes DEF OpenDatabase, Stages, Opening
  <2>3. QED BY <1>3, <2>2 DEF Typed, Rows, InMemory, Counted, OpenDatabase
<1>4. CASE BackupFails(t)
  <2>1. Tasks' BY <1>4, DoneTypes DEF BackupFails
  <2>2. QED
    BY <1>4, <2>1, ShutTypes DEF Typed, Rows, InMemory, Counted, BackupFails, Fault
<1>5. CASE Migrate(t)
  <2>1. Tasks' BY <1>1, <1>5, GotoTypes DEF Migrate, Stages, Opening
  <2>2. QED BY <1>5, <2>1 DEF Typed, Rows, InMemory, Counted, Migrate
<1>6. CASE MigrationFails(t)
  <2>1. Tasks' BY <1>6, DoneTypes DEF MigrationFails
  <2>2. QED
    BY <1>6, <2>1, ShutTypes DEF Typed, Rows, InMemory, Counted, MigrationFails, Fault
<1>7. ForOpen(mem[t].manifest) \in Described
  BY <1>1, Stored DEF ForOpen, Described
<1>8. CASE Opened(t)
  <2>1. Tasks' BY <1>8, DoneTypes DEF Opened
  <2>2. session' \in [running : Nat, unclean : BOOLEAN]
    BY <1>1, <1>8 DEF Opened, BeginSession, Typed, Rows, Memory
  <2>3. QED BY <1>7, <1>8, <2>1, <2>2 DEF Typed, Rows, InMemory, Counted, Opened
<1>9. CASE OpenFails(t)
  <2>1. Tasks' BY <1>9, DoneTypes DEF OpenFails
  <2>2. QED
    BY <1>7, <1>9, <2>1, ShutTypes
    DEF Typed, Rows, InMemory, Counted, OpenFails, Written, Fault
<1>10. CASE CloseManifest(t)
  <2>1. Tasks' BY <1>10, DoneTypes DEF CloseManifest
  <2>2. QED
    BY <1>1, <1>10, <2>1, ShutTypes
    DEF Typed, Rows, InMemory, Counted, CloseManifest, Written, Fault, NoFault
<1>11. QED BY <1>2, <1>3, <1>4, <1>5, <1>6, <1>8, <1>9, <1>10

LEMMA UndoTypes ==
  ASSUME Typed, NEW t \in Task, Undo(t) PROVE Tasks' /\ tx' \in Rev
<1>1. mem[t] \in Memory BY DEF Typed, Tasks
<1>2. CASE conn = mem[t].epoch
  BY <1>1, <1>2, Nothing, GotoTypes DEF Undo, Stages, Writing
<1>3. CASE conn # mem[t].epoch
  BY <1>3, DoneTypes DEF Undo, Typed, InMemory
<1>4. QED BY <1>2, <1>3

LEMMA ReadingTypes ==
  ASSUME Constants, Typed, NEW t \in Task,
         \/ LookForFile(t) \/ CompareWithRow(t) \/ ReadOldManifest(t) \/ ReadOldProfile(t)
         \/ VerifyProfile(t)
  PROVE Typed'
<1> USE DEF Bounds, disk, memory, NoFault, Stages, Writing
<1>1. mem[t] \in Memory BY DEF Typed, Tasks
<1>2. Rows' /\ InMemory' /\ Counted'
  BY DEF Typed, Rows, InMemory, Counted, LookForFile, CompareWithRow, ReadOldManifest,
         ReadOldProfile, VerifyProfile
<1>3. CASE LookForFile(t)
  <2>1. Tasks' BY <1>1, <1>3, DoneTypes, GotoTypes DEF LookForFile
  <2>2. QED BY <1>2, <2>1 DEF Typed
<1>4. CASE CompareWithRow(t)
  <2>1. Tasks' BY <1>1, <1>4, DoneTypes, GotoTypes DEF CompareWithRow, OnlyRead
  <2>2. QED BY <1>2, <2>1 DEF Typed
<1>5. CASE ReadOldManifest(t)
  <2>1. [mem[t] EXCEPT !.manifest = manifest] \in Memory
    BY <1>1 DEF Typed, Rows, Memory
  <2>2. Tasks' BY <1>5, <2>1, GotoTypes DEF ReadOldManifest
  <2>3. QED BY <1>2, <2>2 DEF Typed
<1>6. CASE ReadOldProfile(t)
  <2>1. mem[t].rev[1] \in Nat BY <1>1, RevParts DEF Memory
  <2>2. <<mem[t].rev[1] + 1, t>> \in Rev BY <2>1, NewRev
  <2>3. [mem[t] EXCEPT !.profile = IF mem[t].rev = Unrevised THEN Unrevised ELSE profileFile,
                       !.rev = <<mem[t].rev[1] + 1, t>>] \in Memory
    BY <1>1, <2>2, Nothing DEF Typed, Rows, Memory
  <2>4. Tasks' BY <1>6, <2>3, GotoTypes DEF ReadOldProfile
  <2>5. QED BY <1>2, <2>4 DEF Typed
<1>7. CASE VerifyProfile(t)
  <2>1. [mem[t] EXCEPT !.collected = IF profileFile = mem[t].rev THEN {"profile"} ELSE {}]
          \in Memory
    BY <1>1 DEF Memory
  <2>2. Tasks' BY <1>7, <2>1, GotoTypes DEF VerifyProfile
  <2>3. QED BY <1>2, <2>2 DEF Typed
<1>8. QED BY <1>3, <1>4, <1>5, <1>6, <1>7

LEMMA WritingTypes ==
  ASSUME Constants, Typed, NEW t \in Task,
         \/ Begin(t) \/ WriteProfile(t) \/ WriteManifest(t) \/ Commit(t)
         \/ UndoManifest(t) \/ UndoProfile(t)
  PROVE Typed'
<1> USE DEF Constants, Bounds, disk, memory, NoFault, Fault, Stages, Writing
<1>1. /\ mem[t] \in Memory /\ mem[t].rev \in Rev /\ mem[t].profile \in Rev
      /\ mem[t].manifest \in Described
  BY DEF Typed, Tasks, Memory
<1>2. ForProfile(mem[t].rev) \in Described BY <1>1, Stored DEF ForProfile
<1>3. CASE Begin(t)
  <2>1. Tasks' /\ tx' \in Rev BY <1>1, <1>3, UndoTypes, GotoTypes DEF Begin
  <2>2. QED BY <1>3, <2>1 DEF Typed, Rows, InMemory, Counted, Begin
<1>4. CASE WriteProfile(t)
  <2>1. Tasks' /\ tx' \in Rev
    BY <1>1, <1>4, UndoTypes, GotoTypes DEF WriteProfile, Typed, InMemory
  <2>2. QED BY <1>1, <1>4, <2>1 DEF Typed, Rows, InMemory, Counted, WriteProfile, Written
<1>5. CASE WriteManifest(t)
  <2>1. Tasks' /\ tx' \in Rev
    BY <1>1, <1>5, UndoTypes, GotoTypes DEF WriteManifest, Typed, InMemory
  <2>2. QED BY <1>2, <1>5, <2>1 DEF Typed, Rows, InMemory, Counted, WriteManifest, Written
<1>6. CASE Commit(t)
  <2>1. Tasks' /\ tx' \in Rev BY <1>6, UndoTypes, DoneTypes, Nothing DEF Commit
  <2>2. ledger' \in Rev /\ metaSchema' \in Nat /\ current' \in Described
    BY <1>2, <1>6, Nothing DEF Commit, Typed, Rows, InMemory
  <2>3. QED BY <1>6, <2>1, <2>2 DEF Typed, Rows, InMemory, Counted, Commit
<1>7. CASE UndoManifest(t)
  <2>1. Tasks' BY <1>1, <1>7, GotoTypes DEF UndoManifest
  <2>2. QED BY <1>1, <1>7, <2>1 DEF Typed, Rows, InMemory, Counted, UndoManifest
<1>8. CASE UndoProfile(t)
  <2>1. Tasks' BY <1>8, DoneTypes DEF UndoProfile
  <2>2. QED BY <1>1, <1>8, <2>1 DEF Typed, Rows, InMemory, Counted, UndoProfile
<1>9. QED BY <1>3, <1>4, <1>5, <1>6, <1>7, <1>8

LEMMA ExportTypes ==
  ASSUME Constants, Typed, NEW t \in Task, ExportDatabase(t) \/ ExportSnapshot(t) \/ Collect(t)
  PROVE Typed'
<1> USE DEF Constants, Bounds, disk, memory, NoFault, Stages, Exporting
<1>1. mem[t] \in Memory BY DEF Typed, Tasks
<1>2. Rows' /\ InMemory' /\ Counted'
  BY DEF Typed, Rows, InMemory, Counted, ExportDatabase, ExportSnapshot, Collect
<1>3. CASE ExportDatabase(t)
  <2>1. [mem[t] EXCEPT !.epoch = conn] \in Memory BY <1>1 DEF Typed, InMemory, Memory
  <2>2. Tasks' BY <1>1, <1>3, <2>1, DoneTypes, GotoTypes DEF ExportDatabase
  <2>3. QED BY <1>2, <2>2 DEF Typed
<1>4. CASE ExportSnapshot(t)
  <2>1. [mem[t] EXCEPT !.snapshot = Database] \in Memory
    BY <1>1 DEF Typed, Rows, Memory, Database, Snapshots
  <2>2. Tasks' BY <1>4, <2>1, DoneTypes, GotoTypes DEF ExportSnapshot
  <2>3. QED BY <1>2, <2>2 DEF Typed
<1>5. CASE Collect(t)
  <2>1. /\ [mem[t] EXCEPT !.collected = @ \cup {"profile"}, !.profile = profileFile] \in Memory
        /\ [mem[t] EXCEPT !.collected = @ \cup {"manifest"}, !.manifest = manifest] \in Memory
    BY <1>1 DEF Typed, Rows, Memory
  <2>2. Tasks'
    BY <1>5, <2>1, DoneTypes DEF Collect, Remember, Typed, Tasks
  <2>3. QED BY <1>2, <2>2 DEF Typed
<1>6. QED BY <1>3, <1>4, <1>5

LEMMA OutsideTypes ==
  ASSUME Constants, Typed, OtherTransaction \/ Crash PROVE Typed'
<1>1. CASE OtherTransaction
  BY <1>1, Nothing DEF Typed, Rows, InMemory, Tasks, Counted, OtherTransaction, disk
<1>2. CASE Crash
  <2>1. Tasks' BY <1>2, BlankIsMemory DEF Crash, Tasks, Stages
  <2>2. QED
    BY <1>2, <2>1, ShutTypes, Nothing DEF Constants, Typed, Rows, InMemory, Counted, Crash
<1>3. QED BY <1>1, <1>2

LEMMA StepTypes == ASSUME Constants, Typed, [Next]_vars PROVE Typed'
<1>1. CASE UNCHANGED vars
  BY <1>1 DEF Typed, Rows, InMemory, Tasks, Counted, vars, disk, memory
<1>2. CASE Next
  BY <1>2, AppearTypes, StartTypes, OpeningTypes, ReadingTypes, WritingTypes, ExportTypes,
     OutsideTypes
  DEF Next
<1>3. QED BY <1>1, <1>2

-----------------------------------------------------------------------------
(***************************************************************************)
(* The Project lock: one task opens, closes or exports a Project that is   *)
(* not open, or the Project is open.                                       *)
(***************************************************************************)
Holder(t) ==
  \/ pc[t] \in Opening \cup {"closing"}
  \/ pc[t] \in {"export", "collect"} /\ mem[t].epoch = 0

\* A task that has not read anything yet remembers nothing.
Unread == \A t \in Task : pc[t] \in {"idle", "lock", "exportLock"} => mem[t] = Blank

Locked ==
  /\ \A t \in Task : Holder(t) => lock /\ current = NotOpen
  /\ \A t, u \in Task : Holder(t) /\ Holder(u) => t = u
  /\ current # NotOpen => lock /\ conn # 0

Connected ==
  \A t \in Task :
    /\ pc[t] \in Opening => opens # 0
    /\ pc[t] \in {"migrating", "opened"} => conn = opens /\ mem[t].epoch = opens

Exclusive == Unread /\ Locked /\ Connected

LEMMA ExclusiveAtFirst == Init => Exclusive
BY DEF Init, Exclusive, Unread, Locked, Connected, Holder, Opening

\* What a step leaves of the tasks that did not take it.
Rest(t) == \A u \in Task \ {t} : pc'[u] = pc[u] /\ mem'[u] = mem[u]

LEMMA Moves ==
  ASSUME Typed, NEW t \in Task, NEW s, NEW m
  PROVE /\ Goto(t, s) => pc'[t] = s /\ \A u \in Task \ {t} : pc'[u] = pc[u]
        /\ Remember(t, m) => mem'[t] = m /\ \A u \in Task \ {t} : mem'[u] = mem[u]
        /\ Done(t) => pc'[t] = "idle" /\ mem'[t] = Blank /\ Rest(t)
BY DEF Typed, Tasks, Goto, Remember, Done, Rest

LEMMA OpenedIsOpen ==
  ASSUME Constants, NEW r PROVE Manifest(CurrentSchema, r) # NotOpen
BY DEF Constants, Manifest, NotOpen

\* A step that changes neither the lock nor the connection, after which its task holds the
\* lock only if it did before.
LEMMA KeepsExclusive ==
  ASSUME Exclusive, NEW t \in Task, Rest(t), UNCHANGED <<lock, conn, opens>>,
         current' = NotOpen <=> current = NotOpen,
         pc'[t] \in {"idle", "lock", "exportLock"} => mem'[t] = Blank,
         Holder(t)' => Holder(t),
         pc'[t] \in Opening => pc[t] \in Opening,
         pc'[t] \in {"migrating", "opened"} =>
           pc[t] \in {"migrating", "opened"} /\ mem'[t].epoch = mem[t].epoch
  PROVE Exclusive'
<1>1. \A u \in Task : Holder(u)' => Holder(u) BY DEF Holder, Rest
<1>2. Unread' BY DEF Exclusive, Unread, Rest
<1>3. Locked' BY <1>1 DEF Exclusive, Locked
<1>4. Connected' BY DEF Exclusive, Connected, Rest
<1>5. QED BY <1>2, <1>3, <1>4 DEF Exclusive

\* The holder of the lock shuts the connection.
LEMMA ShutsExclusive ==
  ASSUME Exclusive, NEW t \in Task, Rest(t), Shut, UNCHANGED <<current, opens>>,
         Holder(t), pc'[t] = "idle", mem'[t] = Blank
  PROVE Exclusive'
<1>1. \A u \in Task \ {t} : ~Holder(u) BY DEF Exclusive, Locked
<1>2. \A u \in Task : ~Holder(u)' BY <1>1 DEF Holder, Rest, Opening
<1>3. current' = NotOpen BY DEF Exclusive, Locked
<1>4. Unread' BY DEF Exclusive, Unread, Rest
<1>5. \A u \in Task : pc'[u] \notin Opening BY <1>2 DEF Holder
<1>6. Connected' BY <1>5 DEF Connected, Opening
<1>7. QED BY <1>2, <1>3, <1>4, <1>6 DEF Exclusive, Locked

LEMMA StartsExclusive ==
  ASSUME Constants, Typed, Exclusive, NEW t \in Task,
         Open(t) \/ Close(t) \/ CreateProfile(t) \/ UpdateProfile(t) \/ Export(t)
  PROVE Exclusive'
<1> USE DEF Starts, memory, Opening
<1>1. CASE Open(t)
  <2>1. Rest(t) /\ pc'[t] = "lock" /\ pc[t] = "idle" /\ UNCHANGED mem
    BY <1>1, Moves DEF Open, Rest
  <2>2. QED BY <1>1, <2>1, KeepsExclusive DEF Open, Exclusive, Unread, Holder
<1>2. CASE Close(t)
  <2>1. current' = NotOpen /\ lock /\ pc[t] = "idle" /\ UNCHANGED opens /\ \A u \in Task : ~Holder(u)
    BY <1>2 DEF Close, Exclusive, Locked
  <2>2. CASE tx = NoTx
    <3>1. Rest(t) /\ pc'[t] = "closing" /\ UNCHANGED <<conn, lock>>
      BY <1>2, <2>2, Moves DEF Close, Rest
    <3>2. \A u \in Task \ {t} : ~Holder(u)' BY <2>1, <3>1 DEF Rest, Holder
    <3>3. Unread' BY <3>1 DEF Exclusive, Unread, Rest
    <3>4. Connected' BY <3>1, <2>1 DEF Exclusive, Connected, Rest
    <3>5. QED BY <2>1, <3>1, <3>2, <3>3, <3>4 DEF Exclusive, Locked
  <2>3. CASE tx # NoTx
    <3>1. Rest(t) /\ pc'[t] = "idle" /\ UNCHANGED mem BY <1>2, <2>3, Moves DEF Close, Rest
    <3>2. \A u \in Task : ~Holder(u)' BY <2>1, <3>1 DEF Rest, Holder
    <3>3. Unread' BY <2>1, <3>1 DEF Exclusive, Unread, Rest
    <3>4. Connected' BY <3>2 DEF Connected, Holder
    <3>5. QED BY <2>1, <3>2, <3>3, <3>4 DEF Exclusive, Locked
  <2>4. QED BY <2>2, <2>3
<1>3. CASE CreateProfile(t) \/ UpdateProfile(t)
  <2>1. Rest(t) /\ pc'[t] \in {"looking", "checking"}
    BY <1>3, Moves DEF CreateProfile, UpdateProfile, Rest
  <2>2. QED BY <1>3, <2>1, KeepsExclusive DEF CreateProfile, UpdateProfile, Holder
<1>4. CASE Export(t)
  <2>1. Rest(t) /\ pc'[t] = "exportLock" /\ pc[t] = "idle" /\ UNCHANGED mem
    BY <1>4, Moves DEF Export, Rest
  <2>2. QED BY <1>4, <2>1, KeepsExclusive DEF Export, Exclusive, Unread, Holder
<1>5. QED BY <1>1, <1>2, <1>3, <1>4

LEMMA OpeningExclusive ==
  ASSUME Constants, Typed, Exclusive, NEW t \in Task,
         \/ Lock(t) \/ OpenDatabase(t) \/ BackupFails(t) \/ Migrate(t) \/ MigrationFails(t)
         \/ Opened(t) \/ OpenFails(t) \/ CloseManifest(t)
  PROVE Exclusive'
<1> USE DEF memory, Bounds, Opening
<1>1. CASE Lock(t)
  <2>1. CASE lock \/ opens = MaxOpens
    <3>1. Rest(t) /\ pc'[t] = "idle" /\ mem'[t] = Blank BY <1>1, <2>1, Moves DEF Lock
    <3>2. QED BY <1>1, <2>1, <3>1, KeepsExclusive DEF Lock, Holder
  <2>2. CASE ~(lock \/ opens = MaxOpens)
    <3>1. Rest(t) /\ pc'[t] = "locked" /\ UNCHANGED <<mem, current, conn>> /\ lock'
          /\ opens' = opens + 1
      BY <1>1, <2>2, Moves DEF Lock, Rest
    <3>2. current = NotOpen /\ \A u \in Task : ~Holder(u)
      BY <2>2 DEF Exclusive, Locked
    <3>3. \A u \in Task \ {t} : ~Holder(u)' BY <3>1, <3>2 DEF Holder, Rest
    <3>4. Unread' BY <3>1 DEF Exclusive, Unread, Rest
    <3>5. Connected'
      <4>1. \A u \in Task : pc'[u] \notin {"migrating", "opened"}
        BY <3>1, <3>3 DEF Holder
      <4>2. opens' # 0 BY <3>1 DEF Typed, Counted
      <4>3. QED BY <4>1, <4>2 DEF Connected
    <3>6. QED BY <3>1, <3>2, <3>3, <3>4, <3>5 DEF Exclusive, Locked
  <2>3. QED BY <2>1, <2>2
<1>2. CASE OpenDatabase(t)
  <2>1. /\ Rest(t) /\ pc'[t] = "migrating" /\ mem'[t].epoch = opens /\ pc[t] = "locked"
        /\ conn' = opens /\ UNCHANGED <<opens, lock, current>>
    <3>1. Remember(t, [mem[t] EXCEPT !.manifest = manifest, !.epoch = opens])
      BY <1>2 DEF OpenDatabase
    <3>2. mem[t] \in Memory BY DEF Typed, Tasks
    <3>3. mem'[t] = [mem[t] EXCEPT !.manifest = manifest, !.epoch = opens]
          /\ \A u \in Task \ {t} : mem'[u] = mem[u]
      BY <3>1, Moves
    <3>4. mem'[t].epoch = opens BY <3>2, <3>3 DEF Memory
    <3>5. QED BY <1>2, <3>3, <3>4, Moves DEF OpenDatabase, Rest
  <2>2. Holder(t) BY <2>1 DEF Holder
  <2>3. lock /\ current = NotOpen /\ opens # 0 /\ \A u \in Task \ {t} : ~Holder(u)
    BY <2>1, <2>2 DEF Exclusive, Locked, Connected
  <2>4. \A u \in Task \ {t} : ~Holder(u)' BY <2>1, <2>3 DEF Holder, Rest
  <2>5. Unread' BY <2>1 DEF Exclusive, Unread, Rest
  <2>6. Connected'
    <3>1. \A u \in Task \ {t} : pc'[u] \notin Opening BY <2>4 DEF Holder
    <3>2. QED BY <2>1, <2>3, <3>1 DEF Connected
  <2>7. QED BY <2>1, <2>3, <2>4, <2>5, <2>6 DEF Exclusive, Locked
<1>3. CASE BackupFails(t) \/ MigrationFails(t) \/ OpenFails(t) \/ CloseManifest(t)
  <2>1. /\ Rest(t) /\ pc'[t] = "idle" /\ mem'[t] = Blank /\ Shut /\ UNCHANGED <<current, opens>>
        /\ pc[t] \in Opening \cup {"closing"}
    BY <1>3, Moves DEF BackupFails, MigrationFails, OpenFails, CloseManifest, disk
  <2>2. QED BY <2>1, ShutsExclusive DEF Holder
<1>4. CASE Migrate(t)
  <2>1. /\ Rest(t) /\ pc'[t] = "opened" /\ UNCHANGED mem /\ pc[t] = "migrating"
        /\ UNCHANGED <<lock, conn, opens, current>>
    BY <1>4, Moves DEF Migrate, Rest
  <2>2. QED BY <2>1, KeepsExclusive DEF Holder
<1>5. CASE Opened(t)
  <2>1. /\ Rest(t) /\ pc'[t] = "idle" /\ mem'[t] = Blank /\ pc[t] = "opened"
        /\ UNCHANGED <<lock, conn, opens>>
    BY <1>5, Moves DEF Opened
  <2>2. lock /\ conn # 0 /\ \A u \in Task \ {t} : ~Holder(u)
    BY <2>1 DEF Exclusive, Locked, Connected, Holder
  <2>3. \A u \in Task : ~Holder(u)' BY <2>1, <2>2 DEF Holder, Rest
  <2>4. Unread' BY <2>1 DEF Exclusive, Unread, Rest
  <2>5. Connected' BY <2>3 DEF Connected, Holder
  <2>6. QED BY <2>1, <2>2, <2>3, <2>4, <2>5 DEF Exclusive, Locked
<1>6. QED BY <1>1, <1>2, <1>3, <1>4, <1>5

\* The commands of a Profile neither take the lock nor close the connection.
LEMMA ProfileExclusive ==
  ASSUME Constants, Typed, Exclusive, NEW t \in Task,
         \/ LookForFile(t) \/ CompareWithRow(t) \/ ReadOldManifest(t) \/ ReadOldProfile(t)
         \/ VerifyProfile(t) \/ Begin(t) \/ WriteProfile(t) \/ WriteManifest(t) \/ Commit(t)
         \/ UndoManifest(t) \/ UndoProfile(t)
  PROVE Exclusive'
<1> USE DEF memory, Bounds, Opening
<1>1. /\ UNCHANGED <<lock, conn, opens>>
      /\ current' = NotOpen <=> current = NotOpen
  BY OpenedIsOpen
  DEF LookForFile, CompareWithRow, ReadOldManifest, ReadOldProfile, VerifyProfile, Begin,
      WriteProfile, WriteManifest, Commit, UndoManifest, UndoProfile, ForProfile
<1>2. /\ \A u \in Task \ {t} : pc'[u] = pc[u]
      /\ pc'[t] \in Writing \cup {"idle"}
      /\ pc'[t] = "idle" => mem'[t] = Blank
  <2>1. Done(t) \/ \E s \in Writing : Goto(t, s)
    BY DEF LookForFile, CompareWithRow, ReadOldManifest, ReadOldProfile, VerifyProfile, Begin,
           WriteProfile, WriteManifest, Commit, UndoManifest, UndoProfile, OnlyRead, Undo, Writing
  <2>2. QED BY <2>1, Moves DEF Rest, Writing
<1>3. \A u \in Task \ {t} : mem'[u] = mem[u]
  <2>1. UNCHANGED mem \/ Done(t) \/ \E m : Remember(t, m)
    BY DEF LookForFile, CompareWithRow, ReadOldManifest, ReadOldProfile, VerifyProfile, Begin,
           WriteProfile, WriteManifest, Commit, UndoManifest, UndoProfile, OnlyRead, Undo
  <2>2. QED BY <2>1, Moves DEF Rest
<1>4. QED BY <1>1, <1>2, <1>3, KeepsExclusive DEF Rest, Holder, Writing

LEMMA ExportExclusive ==
  ASSUME Constants, Typed, Exclusive, NEW t \in Task,
         ExportDatabase(t) \/ ExportSnapshot(t) \/ Collect(t)
  PROVE Exclusive'
<1> USE DEF memory, Bounds, Opening
<1>1. mem[t] \in Memory BY DEF Typed, Tasks
<1>2. CASE ExportDatabase(t)
  <2>1. pc[t] = "exportLock" /\ mem[t] = Blank /\ UNCHANGED <<current, conn, opens>>
    BY <1>2 DEF ExportDatabase, Exclusive, Unread
  <2>2. CASE current # NotOpen /\ Remember(t, [mem[t] EXCEPT !.epoch = conn])
             /\ Goto(t, "export") /\ UNCHANGED lock
    <3>1. Rest(t) /\ pc'[t] = "export" /\ mem'[t].epoch = conn
      BY <1>1, <2>2, Moves DEF Rest, Memory
    <3>2. conn # 0 BY <2>2 DEF Exclusive, Locked
    <3>3. QED BY <2>1, <2>2, <3>1, <3>2, KeepsExclusive DEF Holder
  <2>3. CASE current = NotOpen /\ ~lock /\ lock' = TRUE /\ Goto(t, "export") /\ UNCHANGED mem
    <3>1. Rest(t) /\ pc'[t] = "export" BY <2>3, Moves DEF Rest
    <3>2. \A u \in Task : ~Holder(u) BY <2>3 DEF Exclusive, Locked
    <3>3. \A u \in Task \ {t} : ~Holder(u)' BY <3>1, <3>2 DEF Holder, Rest
    <3>4. Unread' BY <3>1 DEF Exclusive, Unread, Rest
    <3>5. Connected' BY <2>1, <2>3, <3>1 DEF Exclusive, Connected, Rest
    <3>6. QED BY <2>1, <2>3, <3>3, <3>4, <3>5 DEF Exclusive, Locked
  <2>4. CASE Done(t) /\ UNCHANGED lock
    <3>1. Rest(t) /\ pc'[t] = "idle" /\ mem'[t] = Blank BY <2>4, Moves
    <3>2. QED BY <2>1, <2>4, <3>1, KeepsExclusive DEF Holder
  <2>5. QED BY <1>2, <2>2, <2>3, <2>4 DEF ExportDatabase
<1>3. CASE ExportSnapshot(t)
  <2>1. pc[t] = "export" /\ UNCHANGED <<lock, current, conn, opens>>
    BY <1>3 DEF ExportSnapshot
  <2>2. CASE Remember(t, [mem[t] EXCEPT !.snapshot = Database]) /\ Goto(t, "collect")
    <3>1. Rest(t) /\ pc'[t] = "collect" /\ mem'[t].epoch = mem[t].epoch
      BY <1>1, <2>2, Moves DEF Rest, Memory
    <3>2. QED BY <2>1, <3>1, KeepsExclusive DEF Holder
  <2>3. CASE Done(t)
    <3>1. Rest(t) /\ pc'[t] = "idle" /\ mem'[t] = Blank BY <2>3, Moves
    <3>2. QED BY <2>1, <3>1, KeepsExclusive DEF Holder
  <2>4. QED BY <1>3, <2>2, <2>3 DEF ExportSnapshot
<1>4. CASE Collect(t)
  <2>1. pc[t] = "collect" /\ UNCHANGED <<current, conn, opens>> BY <1>4 DEF Collect
  <2>2. CASE lock' = (lock /\ mem[t].epoch # 0) /\ Done(t)
    <3>1. Rest(t) /\ pc'[t] = "idle" /\ mem'[t] = Blank BY <2>2, Moves
    <3>2. CASE mem[t].epoch # 0
      <4>1. lock' = lock BY <2>2, <3>2 DEF Typed, InMemory
      <4>2. QED BY <2>1, <3>1, <4>1, KeepsExclusive DEF Holder
    <3>3. CASE mem[t].epoch = 0
      <4>1. current = NotOpen /\ \A u \in Task \ {t} : ~Holder(u)
        BY <2>1, <3>3 DEF Exclusive, Locked, Holder
      <4>2. \A u \in Task : ~Holder(u)' BY <3>1, <4>1 DEF Holder, Rest
      <4>3. Unread' BY <3>1 DEF Exclusive, Unread, Rest
      <4>4. Connected' BY <4>2 DEF Connected, Holder
      <4>5. QED BY <2>1, <4>1, <4>2, <4>3, <4>4 DEF Exclusive, Locked
    <3>4. QED BY <3>2, <3>3
  <2>3. CASE /\ UNCHANGED <<lock, pc>>
             /\ \/ Remember(t, [mem[t] EXCEPT !.collected = @ \cup {"profile"}, !.profile = profileFile])
                \/ Remember(t, [mem[t] EXCEPT !.collected = @ \cup {"manifest"}, !.manifest = manifest])
    <3>1. Rest(t) /\ mem'[t].epoch = mem[t].epoch
      <4>1. \A u \in Task \ {t} : mem'[u] = mem[u]
        BY <2>3 DEF Typed, Tasks, Remember
      <4>2. mem'[t].epoch = mem[t].epoch
        BY <1>1, <2>3 DEF Typed, Tasks, Remember, Memory
      <4>3. QED BY <2>3, <4>1, <4>2 DEF Rest
    <3>2. QED BY <2>1, <2>3, <3>1, KeepsExclusive DEF Holder
  <2>4. QED BY <1>4, <2>2, <2>3 DEF Collect
<1>5. QED BY <1>2, <1>3, <1>4

LEMMA StepExclusive == ASSUME Constants, Typed, Exclusive, [Next]_vars PROVE Exclusive'
<1>1. CASE UNCHANGED vars \/ Create \/ Legacy \/ OtherTransaction
  <2>1. UNCHANGED <<pc, mem, current, lock, conn, opens>>
    BY <1>1 DEF vars, memory, Create, Legacy, Appear, OtherTransaction, Bounds
  <2>2. QED BY <2>1 DEF Exclusive, Unread, Locked, Connected, Holder
<1>2. CASE Crash
  <2>1. current' = NotOpen /\ \A u \in Task : pc'[u] = "idle" /\ mem'[u] = Blank
    BY <1>2 DEF Crash
  <2>2. QED BY <2>1 DEF Exclusive, Unread, Locked, Connected, Holder, Opening
<1>3. QED
  BY <1>1, <1>2, StartsExclusive, OpeningExclusive, ProfileExclusive, ExportExclusive DEF Next

-----------------------------------------------------------------------------
(***************************************************************************)
(* Commands that Profile writes and exports did not overlap.               *)
(***************************************************************************)
\* Before it is created a Project has nothing and no command is under way.
Unmade ==
  ~promoted => /\ ledger = Unrevised /\ profileFile = Unrevised /\ current = NotOpen
             /\ \A t \in Task : pc[t] = "idle"

Committing == {"profile", "manifest", "verify", "commit"}
Undoing == {"undoManifest", "undoProfile"}
Calm == crashes = 0 /\ faults <= 1
Settled == manifest.rev = ledger /\ profileFile = ledger

Solo == \A t \in Task : pc[t] \in Alone => \A u \in Task \ {t} : pc[u] = "idle"
TxOwned == tx # NoTx => \E t \in Task : pc[t] \in Committing

Files ==
  /\ revisions = 1..ledger[1]
  /\ ledger[1] <= profileFile[1] /\ ledger[1] <= manifest.rev[1]
  /\ current # NotOpen => current.rev = ledger
  /\ Calm /\ (\A t \in Task : pc[t] \notin Writing) => Settled
  /\ \A a \in archives : Importable(a)

\* An open and a close find and write a manifest of the ledger's revision.
Opener(t) ==
  /\ pc[t] \in {"lock"} \cup Opening => manifest.rev = ledger
  /\ pc[t] \in {"migrating", "opened", "closing"} => mem[t].manifest.rev = ledger

\* A Profile write, stage by stage.
Writer(t) ==
  /\ pc[t] \in Writing => current # NotOpen /\ conn = mem[t].epoch
  /\ pc[t] \in Writing \ Committing => tx = NoTx
  /\ pc[t] \in Committing => tx = mem[t].rev
  /\ pc[t] = "looking" => mem[t].rev = Unrevised /\ ledger = Unrevised
  /\ pc[t] = "checking" => mem[t].rev = profileFile
  /\ pc[t] \in {"saving", "reading"} => mem[t].rev = ledger
  /\ pc[t] \in {"begin"} \cup Committing => mem[t].rev = <<ledger[1] + 1, t>>
  /\ pc[t] \in {"saving", "reading", "begin", "profile"} => profileFile = ledger
  /\ pc[t] \in {"begin"} \cup Committing \cup Undoing => mem[t].profile = ledger
  /\ pc[t] \in {"manifest", "verify", "commit"} => profileFile = mem[t].rev
  /\ pc[t] \in {"verify", "commit"} => manifest.rev = mem[t].rev
  /\ pc[t] = "commit" => mem[t].collected # {}
  /\ pc[t] \in {"reading", "begin"} \cup Committing \cup Undoing =>
       ledger[1] <= mem[t].manifest.rev[1]
  /\ pc[t] \in Undoing => faults # 0

\* What it can restore when nothing failed but the step it undoes.
Restores(t) ==
  Calm =>
    /\ pc[t] \in (Writing \ {"verify", "commit", "undoManifest"}) => manifest.rev = ledger
    /\ pc[t] \in {"looking", "checking"} => profileFile = ledger
    /\ pc[t] \in {"reading", "begin"} \cup Committing \cup Undoing => mem[t].manifest.rev = ledger

\* An export reads the Project as it was validated.
Exporter(t) ==
  /\ pc[t] \in Exporting => Agree(Database, manifest, profileFile)
  /\ pc[t] \in {"exportLock", "export"} => mem[t].collected = {}
  /\ pc[t] = "collect" =>
       /\ mem[t].snapshot = Database
       /\ "profile" \in mem[t].collected => mem[t].profile = profileFile
       /\ "manifest" \in mem[t].collected => mem[t].manifest = manifest

Orderly ==
  /\ Solo /\ TxOwned /\ Files
  /\ \A t \in Task : Opener(t) /\ Writer(t) /\ Restores(t) /\ Exporter(t)

LEMMA OrderlyAtFirst == ASSUME Constants, Init PROVE Unmade /\ Orderly
<1>1. \A t \in Task : pc[t] = "idle" BY DEF Init
<1>2. Unmade BY DEF Init, Unmade
<1>3. Solo /\ TxOwned BY <1>1 DEF Init, Solo, TxOwned, Alone, Writing, Exporting
<1>4. Files
  <2>1. 1..0 = {} OBVIOUS
  <2>2. QED BY <2>1, Nothing DEF Init, Files, Settled
<1>5. \A t \in Task : Opener(t) /\ Writer(t) /\ Restores(t) /\ Exporter(t)
  BY <1>1
  DEF Opener, Writer, Restores, Exporter, Opening, Writing, Exporting, Committing, Undoing
<1>6. QED BY <1>2, <1>3, <1>4, <1>5 DEF Orderly

\* Nothing is asked of an idle task.
LEMMA IdleIsOrderly ==
  ASSUME NEW t, pc[t] = "idle" PROVE Opener(t) /\ Writer(t) /\ Restores(t) /\ Exporter(t)
BY DEF Opener, Writer, Restores, Exporter, Opening, Writing, Exporting, Committing, Undoing

\* What a step leaves alone, by its kind: the start of a command, a step of one that has
\* begun, or a step of nobody's.
Begins(t) == Open(t) \/ Close(t) \/ CreateProfile(t) \/ UpdateProfile(t) \/ Export(t)
Works(t) ==
  \/ Lock(t) \/ OpenDatabase(t) \/ BackupFails(t) \/ Migrate(t) \/ MigrationFails(t)
  \/ Opened(t) \/ OpenFails(t) \/ CloseManifest(t)
  \/ LookForFile(t) \/ CompareWithRow(t) \/ ReadOldManifest(t) \/ ReadOldProfile(t)
  \/ Begin(t) \/ WriteProfile(t) \/ WriteManifest(t) \/ VerifyProfile(t) \/ Commit(t)
  \/ UndoManifest(t) \/ UndoProfile(t)
  \/ ExportDatabase(t) \/ ExportSnapshot(t) \/ Collect(t)

LEMMA StepsAre ==
  ASSUME Next
  PROVE  Create \/ Legacy \/ OtherTransaction \/ Crash \/ \E t \in Task : Begins(t) \/ Works(t)
BY DEF Next, Begins, Works

LEMMA BeginsLeaves ==
  ASSUME NEW t \in Task, Begins(t)
  PROVE /\ promoted /\ promoted' /\ UNCHANGED <<crashes, died>> /\ (overlapped => overlapped')
        /\ ~Close(t) => UNCHANGED <<session, current, conn>>
<1>1. CASE Open(t) BY <1>1 DEF Open, Starts, disk, memory
<1>2. CASE Close(t) BY <1>2 DEF Close, Starts
<1>3. CASE CreateProfile(t) BY <1>3 DEF CreateProfile, Starts, disk, memory
<1>4. CASE UpdateProfile(t) BY <1>4 DEF UpdateProfile, Starts, disk, memory
<1>5. CASE Export(t) BY <1>5 DEF Export, Starts, disk, memory
<1>6. QED BY <1>1, <1>2, <1>3, <1>4, <1>5 DEF Begins

LEMMA WorksLeaves ==
  ASSUME Constants, NEW t \in Task, Works(t)
  PROVE /\ pc[t] # "idle" /\ UNCHANGED <<promoted, crashes, overlapped, died>>
        /\ ~Opened(t) => session' = session /\ (current' = NotOpen <=> current = NotOpen)
        /\ conn' = conn \/ pc[t] \in Opening \cup {"closing"}
<1>1. CASE Lock(t) BY <1>1 DEF Lock, disk, memory
<1>2. CASE OpenDatabase(t) \/ BackupFails(t) \/ Migrate(t) \/ MigrationFails(t)
  BY <1>2 DEF OpenDatabase, BackupFails, Migrate, MigrationFails, disk, memory, Bounds, Opening
<1>3. CASE Opened(t) \/ OpenFails(t) \/ CloseManifest(t)
  BY <1>3 DEF Opened, OpenFails, CloseManifest, Bounds, Opening
<1>4. CASE LookForFile(t) \/ CompareWithRow(t) \/ ReadOldManifest(t) \/ ReadOldProfile(t)
  BY <1>4
  DEF LookForFile, CompareWithRow, ReadOldManifest, ReadOldProfile, disk, memory, Bounds
<1>5. CASE Begin(t) \/ VerifyProfile(t)
  BY <1>5 DEF Begin, VerifyProfile, disk, memory, Bounds
<1>6. CASE WriteProfile(t) \/ WriteManifest(t) BY <1>6 DEF WriteProfile, WriteManifest, Bounds
<1>7. CASE Commit(t) BY <1>7, OpenedIsOpen DEF Commit, Bounds, ForProfile
<1>8. CASE UndoManifest(t) \/ UndoProfile(t)
  BY <1>8 DEF UndoManifest, UndoProfile, memory, Bounds
<1>9. CASE ExportDatabase(t) \/ ExportSnapshot(t) \/ Collect(t)
  BY <1>9 DEF ExportDatabase, ExportSnapshot, Collect, disk, memory, Bounds
<1>10. QED BY <1>1, <1>2, <1>3, <1>4, <1>5, <1>6, <1>7, <1>8, <1>9 DEF Works

LEMMA OthersLeave ==
  ASSUME Create \/ Legacy \/ OtherTransaction
  PROVE /\ promoted => promoted'
        /\ UNCHANGED <<session, crashes, died, current, conn>>
        /\ overlapped' \/ overlapped' = overlapped
<1>1. CASE Create \/ Legacy BY <1>1 DEF Create, Legacy, Appear, memory, Bounds
<1>2. CASE OtherTransaction BY <1>2 DEF OtherTransaction, disk
<1>3. QED BY <1>1, <1>2

LEMMA UnmadeStays == ASSUME Constants, Typed, Unmade, [Next]_vars PROVE Unmade'
<1>1. CASE promoted
  <2>1. promoted'
    <3>1. CASE UNCHANGED vars BY <1>1, <3>1 DEF vars, disk
    <3>2. CASE Create \/ Legacy \/ OtherTransaction BY <1>1, <3>2, OthersLeave
    <3>3. CASE Crash BY <1>1, <3>3 DEF Crash
    <3>4. CASE \E t \in Task : Begins(t) \/ Works(t) BY <1>1, <3>4, BeginsLeaves, WorksLeaves
    <3>5. QED BY <3>1, <3>2, <3>3, <3>4, StepsAre
  <2>2. QED BY <2>1 DEF Unmade
<1>2. CASE ~promoted
  <2>1. /\ ledger = Unrevised /\ profileFile = Unrevised /\ current = NotOpen
        /\ \A t \in Task : pc[t] = "idle"
    BY <1>2 DEF Unmade
  <2>2. CASE UNCHANGED vars BY <2>1, <2>2 DEF Unmade, vars, disk, memory
  <2>3. CASE Create \/ Legacy BY <2>3 DEF Create, Legacy, Appear, Unmade
  <2>4. CASE Crash BY <2>1, <2>4 DEF Crash, Unmade
  <2>5. ~OtherTransaction BY <2>1 DEF OtherTransaction
  <2>6. ~\E t \in Task : Begins(t) \/ Works(t) BY <1>2, <2>1, BeginsLeaves, WorksLeaves
  <2>7. QED BY <2>2, <2>3, <2>4, <2>5, <2>6, StepsAre
<1>3. QED BY <1>1, <1>2 DEF Typed, Rows

\* A command that runs alone finds every other one idle, and another finds none that does.
LEMMA Loners ==
  ASSUME Solo, NEW t \in Task
  PROVE /\ pc[t] \in Alone => \A u \in Task \ {t} : pc[u] = "idle"
        /\ pc[t] \notin Alone \cup {"idle"} => \A u \in Task : pc[u] \notin Alone
BY DEF Solo, Alone, Writing, Exporting

\* Where no one runs alone, no transaction is open.
LEMMA NoLoners ==
  ASSUME TxOwned, \A u \in Task : pc[u] \notin Alone PROVE tx = NoTx
BY DEF TxOwned, Alone, Writing, Committing

\* After a step of a command that runs alone, the others are idle still, and what is left
\* to show is about the command itself and the files.
LEMMA LonerSteps ==
  ASSUME Solo, NEW t \in Task, Rest(t), \A u \in Task \ {t} : pc[u] = "idle",
         Opener(t)', Writer(t)', Restores(t)', Exporter(t)', Files',
         tx' # NoTx => pc'[t] \in Committing
  PROVE Orderly'
<1>1. \A u \in Task \ {t} : pc'[u] = "idle" BY DEF Rest
<1>2. Solo' BY <1>1 DEF Solo, Alone, Writing, Exporting
<1>3. TxOwned' BY DEF TxOwned
<1>4. \A u \in Task \ {t} : Opener(u)' /\ Writer(u)' /\ Restores(u)' /\ Exporter(u)'
  BY <1>1
  DEF Opener, Writer, Restores, Exporter, Opening, Writing, Exporting, Committing, Undoing
<1>5. QED BY <1>2, <1>3, <1>4 DEF Orderly

\* After a step of another command nobody runs alone, and every manifest at hand has the
\* revision of the ledger.
LEMMA OthersStep ==
  ASSUME \A u \in Task : pc'[u] \notin Alone, tx' = NoTx, \A u \in Task : Opener(u)', Files'
  PROVE Orderly'
<1>1. Solo' /\ TxOwned' BY DEF Solo, TxOwned
<1>2. \A u \in Task : Writer(u)' /\ Restores(u)' /\ Exporter(u)'
  BY DEF Writer, Restores, Exporter, Alone, Writing, Exporting, Committing, Undoing
<1>3. QED BY <1>1, <1>2 DEF Orderly

-----------------------------------------------------------------------------
\* Starts.
LEMMA StartsAlone ==
  ASSUME Typed, NEW t \in Task, NEW s, Starts(t, s), ~overlapped'
  PROVE /\ ~overlapped /\ pc[t] = "idle" /\ pc'[t] = s
        /\ \A u \in Task \ {t} : pc'[u] = pc[u]
        /\ \A u \in Task : pc[u] \notin Alone
        /\ s \in Alone => \A u \in Task : pc[u] = "idle"
<1>1. \A u \in Task : pc[u] \in Stages BY DEF Typed, Tasks
<1>2. ~overlapped /\ ~SomeTask(Alone) /\ (s \in Alone => ~SomeTask(Stages \ {"idle"}))
  BY DEF Starts
<1>3. pc[t] = "idle" /\ pc'[t] = s /\ \A u \in Task \ {t} : pc'[u] = pc[u]
  BY Moves DEF Starts
<1>4. QED BY <1>1, <1>2, <1>3 DEF SomeTask

LEMMA StartsOrderly ==
  ASSUME Constants, Typed, Exclusive, ~overlapped => Orderly, NEW t \in Task,
         Open(t) \/ Close(t) \/ CreateProfile(t) \/ UpdateProfile(t) \/ Export(t),
         ~overlapped'
  PROVE Orderly'
<1> USE DEF disk, memory
<1>1. PICK s : Starts(t, s)
  BY DEF Open, Close, CreateProfile, UpdateProfile, Export
<1>2. /\ pc[t] = "idle" /\ Orderly
      /\ \A u \in Task \ {t} : pc'[u] = pc[u]
      /\ \A u \in Task : pc[u] \notin Alone
  BY <1>1, StartsAlone
<1>3. tx = NoTx BY <1>2, NoLoners DEF Orderly
<1>4. mem[t] = Blank /\ mem[t] \in Memory
  BY <1>2 DEF Exclusive, Unread, Typed, Tasks
<1>5. CASE Open(t)
  <2>1. /\ pc'[t] = "lock" /\ manifest.rev = ledger
        /\ UNCHANGED <<mem, manifest, ledger, profileFile, tx, revisions, current, crashes,
                       faults, archives>>
    BY <1>5, StartsAlone DEF Open, Valid, Agree, Database
  <2>2. \A u \in Task : Opener(u)'
    BY <1>2, <2>1 DEF Orderly, Opener, Opening
  <2>3. \A u \in Task : pc'[u] \notin Alone
    BY <1>2, <2>1 DEF Alone, Writing, Exporting
  <2>4. \A u \in Task : pc[u] \notin Writing /\ pc'[u] \notin Writing
    BY <1>2, <2>3 DEF Alone
  <2>5. Files' BY <1>2, <2>1, <2>4 DEF Orderly, Files, Calm, Settled, Importable
  <2>6. QED BY <1>3, <2>1, <2>2, <2>3, <2>5, OthersStep
<1>6. CASE Close(t)
  <2>1. /\ current # NotOpen /\ current' = NotOpen /\ Starts(t, "closing")
        /\ mem' = [mem EXCEPT ![t] = [mem[t] EXCEPT !.manifest = current]]
        /\ UNCHANGED <<manifest, ledger, profileFile, tx, revisions, crashes, faults, archives>>
    BY <1>3, <1>6 DEF Close, Remember
  <2>2. pc'[t] = "closing" BY <2>1, StartsAlone
  <2>3. mem'[t].manifest.rev = ledger
    <3>1. mem'[t] = [mem[t] EXCEPT !.manifest = current] BY <2>1 DEF Typed, Tasks
    <3>2. mem'[t].manifest = current BY <1>4, <3>1 DEF Memory
    <3>3. QED BY <1>2, <2>1, <3>2 DEF Orderly, Files
  <2>4. \A u \in Task \ {t} : mem'[u] = mem[u] BY <2>1 DEF Typed, Tasks
  <2>5. \A u \in Task : Opener(u)'
    BY <1>2, <2>1, <2>2, <2>3, <2>4 DEF Orderly, Opener, Opening
  <2>6. \A u \in Task : pc'[u] \notin Alone
    BY <1>2, <2>2 DEF Alone, Writing, Exporting
  <2>7. \A u \in Task : pc[u] \notin Writing /\ pc'[u] \notin Writing
    BY <1>2, <2>6 DEF Alone
  <2>8. Files' BY <1>2, <2>1, <2>7 DEF Orderly, Files, Calm, Settled, Importable
  <2>9. QED BY <1>3, <2>1, <2>5, <2>6, <2>8, OthersStep
<1>7. CASE CreateProfile(t) \/ UpdateProfile(t)
  <2>1. /\ pc'[t] \in {"looking", "checking"} /\ current # NotOpen
        /\ \A u \in Task : pc[u] = "idle"
        /\ UNCHANGED <<manifest, ledger, profileFile, tx, conn, revisions, current, crashes,
                       faults, archives>>
    BY <1>7, StartsAlone DEF CreateProfile, UpdateProfile, Alone, Writing
  <2>2. /\ mem'[t].epoch = conn /\ \A u \in Task \ {t} : mem'[u] = mem[u]
        /\ pc'[t] = "looking" => mem'[t].rev = Unrevised /\ ledger = Unrevised
        /\ pc'[t] = "checking" => mem'[t].rev = profileFile
    <3>1. CASE CreateProfile(t)
      <4>1. pc'[t] = "looking" /\ View = Unrevised BY <3>1, StartsAlone DEF CreateProfile
      <4>2. mem'[t] = [mem[t] EXCEPT !.epoch = conn] /\ \A u \in Task \ {t} : mem'[u] = mem[u]
        BY <3>1, Moves DEF CreateProfile
      <4>3. mem'[t].epoch = conn /\ mem'[t].rev = Unrevised
        BY <1>4, <4>2 DEF Memory, Blank
      <4>4. ledger = Unrevised BY <1>3, <4>1 DEF View
      <4>5. QED BY <4>1, <4>2, <4>3, <4>4
    <3>2. CASE UpdateProfile(t)
      <4>1. pc'[t] = "checking" BY <3>2, StartsAlone DEF UpdateProfile
      <4>2. mem'[t] = [mem[t] EXCEPT !.epoch = conn, !.rev = profileFile]
            /\ \A u \in Task \ {t} : mem'[u] = mem[u]
        BY <3>2, Moves DEF UpdateProfile
      <4>3. mem'[t].epoch = conn /\ mem'[t].rev = profileFile BY <1>4, <4>2 DEF Memory
      <4>4. QED BY <4>1, <4>2, <4>3
    <3>3. QED BY <1>7, <3>1, <3>2
  <2>3. Calm => Settled
    BY <1>2, <2>1 DEF Orderly, Files, Writing
  <2>4. Opener(t)' /\ Exporter(t)' BY <2>1 DEF Opener, Exporter, Opening, Exporting
  <2>5. Writer(t)'
    BY <1>3, <2>1, <2>2 DEF Writer, Committing, Undoing
  <2>6. Restores(t)'
    BY <2>1, <2>3 DEF Restores, Calm, Settled, Committing, Undoing
  <2>7. Files' BY <1>2, <2>1 DEF Orderly, Files, Importable, Writing
  <2>8. QED BY <1>2, <1>3, <2>1, <2>2, <2>4, <2>5, <2>6, <2>7, LonerSteps DEF Orderly, Rest
<1>8. CASE Export(t)
  <2>1. /\ Starts(t, "exportLock") /\ Agree(Database, manifest, profileFile)
        /\ UNCHANGED <<mem, manifest, ledger, profileFile, tx, revisions, current, crashes,
                       faults, archives, applied, metaSchema>>
    BY <1>8 DEF Export, Valid
  <2>2. pc'[t] = "exportLock" /\ \A u \in Task : pc[u] = "idle"
    BY <2>1, StartsAlone DEF Alone, Exporting
  <2>3. mem'[t].collected = {} BY <1>4, <2>1 DEF Blank
  <2>4. Opener(t)' /\ Writer(t)' /\ Restores(t)'
    BY <2>2 DEF Opener, Writer, Restores, Opening, Writing, Committing, Undoing
  <2>5. Exporter(t)' BY <2>1, <2>2, <2>3 DEF Exporter, Database
  <2>6. \A u \in Task : pc[u] \notin Writing /\ pc'[u] \notin Writing
    BY <1>2, <2>2 DEF Writing
  <2>7. Files' BY <1>2, <2>1, <2>6 DEF Orderly, Files, Calm, Settled, Importable
  <2>8. QED BY <1>2, <1>3, <2>1, <2>2, <2>4, <2>5, <2>7, LonerSteps DEF Orderly, Rest
<1>9. QED BY <1>5, <1>6, <1>7, <1>8

-----------------------------------------------------------------------------
\* Opening and closing: whatever is written names the revision of the ledger.
LEMMA OpeningOrderly ==
  ASSUME Constants, Typed, Orderly, NEW t \in Task,
         \/ Lock(t) \/ OpenDatabase(t) \/ BackupFails(t) \/ Migrate(t) \/ MigrationFails(t)
         \/ Opened(t) \/ OpenFails(t) \/ CloseManifest(t)
  PROVE Orderly'
<1> USE DEF disk, memory, Bounds
<1>1. pc[t] \in {"lock", "closing"} \cup Opening
  BY DEF Lock, OpenDatabase, BackupFails, Migrate, MigrationFails, Opened, OpenFails,
         CloseManifest, Opening
<1>2. \A u \in Task : pc[u] \notin Alone
  BY <1>1, Loners DEF Orderly, Alone, Writing, Exporting, Opening
<1>3. tx = NoTx /\ tx' = NoTx
  BY <1>2, NoLoners
  DEF Orderly, Lock, OpenDatabase, BackupFails, Migrate, MigrationFails, Opened, OpenFails,
      CloseManifest, Shut
<1>4. /\ UNCHANGED <<ledger, profileFile, revisions, archives, crashes>>
      /\ faults' = faults \/ faults' = faults + 1
  BY DEF Lock, OpenDatabase, BackupFails, Migrate, MigrationFails, Opened, OpenFails,
         CloseManifest, Fault, NoFault
<1>5. Calm' => Calm BY <1>4 DEF Calm, Typed, Counted
<1>6. Opener(t) /\ mem[t] \in Memory BY DEF Orderly, Typed, Tasks
<1>7. manifest' = manifest \/ manifest'.rev = ledger
  <2>1. CASE Opened(t) \/ OpenFails(t)
    <3>1. mem[t].manifest.rev = ledger
      BY <1>6, <2>1 DEF Opener, Opened, OpenFails
    <3>2. ForOpen(mem[t].manifest).rev = ledger BY <3>1 DEF ForOpen, Manifest
    <3>3. QED BY <2>1, <3>2 DEF Opened, OpenFails, Written
  <2>2. CASE CloseManifest(t)
    BY <1>6, <2>2 DEF Opener, CloseManifest, Written
  <2>3. CASE ~(Opened(t) \/ OpenFails(t) \/ CloseManifest(t))
    BY <2>3 DEF Lock, OpenDatabase, BackupFails, Migrate, MigrationFails
  <2>4. QED BY <2>1, <2>2, <2>3
<1>8. current' = current \/ current'.rev = ledger
  <2>1. CASE Opened(t)
    <3>1. mem[t].manifest.rev = ledger BY <1>6, <2>1 DEF Opener, Opened
    <3>2. QED BY <2>1, <3>1 DEF Opened, ForOpen, Manifest
  <2>2. CASE ~Opened(t)
    BY <2>2 DEF Lock, OpenDatabase, BackupFails, Migrate, MigrationFails, OpenFails, CloseManifest
  <2>3. QED BY <2>1, <2>2
<1>9. \A u \in Task \ {t} : pc'[u] = pc[u] /\ mem'[u] = mem[u]
  <2>1. CASE Lock(t) BY <2>1, Moves DEF Lock, Rest
  <2>2. CASE OpenDatabase(t) \/ Migrate(t)
    <3>1. UNCHANGED mem \/ \E m : Remember(t, m) BY <2>2 DEF OpenDatabase, Migrate
    <3>2. \E s : Goto(t, s) BY <2>2 DEF OpenDatabase, Migrate
    <3>3. QED BY <3>1, <3>2, Moves
  <2>3. CASE Done(t) BY <2>3, Moves DEF Rest
  <2>4. QED BY <2>1, <2>2, <2>3 DEF BackupFails, MigrationFails, Opened, OpenFails, CloseManifest
<1>10. /\ pc'[t] \in {"idle"} \cup Opening
       /\ pc'[t] \in Opening => manifest'.rev = ledger
       /\ pc'[t] \in {"migrating", "opened"} => mem'[t].manifest.rev = ledger
  <2>1. CASE Lock(t)
    <3>1. pc'[t] \in {"idle", "locked"} BY <2>1, Moves DEF Lock
    <3>2. manifest' = manifest /\ manifest.rev = ledger BY <1>6, <2>1 DEF Lock, Opener
    <3>3. QED BY <3>1, <3>2 DEF Opening
  <2>2. CASE OpenDatabase(t)
    <3>1. pc'[t] = "migrating" /\ mem'[t] = [mem[t] EXCEPT !.manifest = manifest, !.epoch = opens]
      BY <2>2, Moves DEF OpenDatabase
    <3>2. mem'[t].manifest = manifest BY <1>6, <3>1 DEF Memory
    <3>3. manifest' = manifest /\ manifest.rev = ledger
      BY <1>6, <2>2 DEF OpenDatabase, Opener, Opening
    <3>4. QED BY <3>1, <3>2, <3>3 DEF Opening
  <2>3. CASE Migrate(t)
    <3>1. pc'[t] = "opened" /\ UNCHANGED <<mem, manifest>> BY <2>3, Moves DEF Migrate
    <3>2. manifest.rev = ledger /\ mem[t].manifest.rev = ledger
      BY <1>6, <2>3 DEF Migrate, Opener, Opening
    <3>3. QED BY <3>1, <3>2 DEF Opening
  <2>4. CASE Done(t) BY <2>4, Moves DEF Opening
  <2>5. QED
    BY <2>1, <2>2, <2>3, <2>4 DEF BackupFails, MigrationFails, Opened, OpenFails, CloseManifest
<1>11. \A u \in Task : Opener(u)'
  <2>1. Opener(t)' BY <1>4, <1>10 DEF Opener, Opening
  <2>2. ASSUME NEW u \in Task \ {t} PROVE Opener(u)'
    <3>1. Opener(u) BY DEF Orderly
    <3>2. QED BY <1>4, <1>7, <1>9, <3>1 DEF Opener
  <2>3. QED BY <2>1, <2>2
<1>12. \A u \in Task : pc'[u] \notin Alone
  BY <1>2, <1>9, <1>10 DEF Alone, Writing, Exporting, Opening
<1>13. Files'
  <2>1. \A u \in Task : pc[u] \notin Writing BY <1>2 DEF Alone
  <2>2. ledger[1] <= manifest'.rev[1]
    <3>1. ledger[1] \in Nat BY RevParts DEF Typed, Rows
    <3>2. QED BY <1>7, <3>1 DEF Orderly, Files
  <2>3. Calm' => Settled' BY <1>4, <1>5, <1>7, <2>1 DEF Orderly, Files, Settled
  <2>4. QED BY <1>4, <1>8, <2>2, <2>3 DEF Orderly, Files, Importable
<1>14. QED BY <1>3, <1>11, <1>12, <1>13, OthersStep

-----------------------------------------------------------------------------
\* Profile writes.
LEMMA WriterSteps ==
  ASSUME Orderly, NEW t \in Task, pc[t] \in Writing, Rest(t), pc'[t] \in Writing \cup {"idle"},
         Writer(t)', Restores(t)', Files', tx' # NoTx => pc'[t] \in Committing
  PROVE Orderly'
<1>1. \A u \in Task \ {t} : pc[u] = "idle" BY Loners DEF Orderly, Alone
<1>2. Opener(t)' /\ Exporter(t)' BY DEF Opener, Exporter, Opening, Exporting, Writing
<1>3. Solo BY DEF Orderly
<1>4. QED BY <1>1, <1>2, <1>3, LonerSteps

\* A step that only reads: the files are what they were.
LEMMA ReadsFiles ==
  ASSUME Orderly, NEW t \in Task,
         UNCHANGED <<revisions, ledger, profileFile, manifest, current, archives, crashes, faults>>,
         pc'[t] \notin Writing => (Calm => Settled)
  PROVE Files'
BY DEF Orderly, Files, Calm, Settled, Importable

LEMMA ReadingOrderly ==
  ASSUME Constants, Typed, Orderly, NEW t \in Task,
         \/ LookForFile(t) \/ CompareWithRow(t) \/ ReadOldManifest(t) \/ ReadOldProfile(t)
         \/ VerifyProfile(t)
  PROVE Orderly'
<1> USE DEF disk, memory, Bounds
<1>1. /\ UNCHANGED <<revisions, ledger, profileFile, manifest, current, archives, crashes, faults,
                     tx, conn>>
      /\ pc[t] \in Writing
  BY DEF LookForFile, CompareWithRow, ReadOldManifest, ReadOldProfile, VerifyProfile, NoFault,
         Writing
<1>2. Writer(t) /\ Restores(t) /\ Files /\ mem[t] \in Memory BY DEF Orderly, Typed, Tasks
<1>3. Calm' <=> Calm BY <1>1 DEF Calm
<1>4. CASE Done(t) /\ (LookForFile(t) \/ CompareWithRow(t))
  <2>1. pc'[t] = "idle" /\ Rest(t) BY <1>4, Moves
  <2>2. Calm => Settled
    BY <1>2, <1>4 DEF LookForFile, CompareWithRow, Restores, Settled, Writing
  <2>3. tx = NoTx BY <1>2, <1>4 DEF LookForFile, CompareWithRow, Writer, Writing, Committing
  <2>4. Writer(t)' /\ Restores(t)' BY <2>1 DEF Writer, Restores, Writing, Committing, Undoing
  <2>5. Files' BY <1>1, <2>2, ReadsFiles
  <2>6. QED BY <1>1, <2>1, <2>3, <2>4, <2>5, WriterSteps
<1>5. CASE LookForFile(t) /\ ~Done(t)
  <2>1. pc[t] = "looking" /\ pc'[t] = "saving" /\ UNCHANGED mem /\ Rest(t)
        /\ profileFile = Unrevised
    BY <1>5, Moves DEF LookForFile, Rest
  <2>2. Writer(t)' BY <1>1, <1>2, <2>1 DEF Writer, Writing, Committing, Undoing
  <2>3. Restores(t)'
    BY <1>1, <1>2, <1>3, <2>1 DEF Restores, Writing, Committing, Undoing
  <2>4. Files' BY <1>1, <2>1, ReadsFiles DEF Writing
  <2>5. tx = NoTx BY <1>2, <2>1 DEF Writer, Writing, Committing
  <2>6. QED BY <1>1, <2>1, <2>2, <2>3, <2>4, <2>5, WriterSteps DEF Writing
<1>6. CASE CompareWithRow(t) /\ ~Done(t)
  <2>1. pc[t] = "checking" /\ pc'[t] = "saving" /\ UNCHANGED mem /\ Rest(t) /\ View = mem[t].rev
    BY <1>6, Moves DEF CompareWithRow, OnlyRead, Rest
  <2>5. tx = NoTx BY <1>2, <2>1 DEF Writer, Writing, Committing
  <2>2. Writer(t)' BY <1>1, <1>2, <2>1, <2>5 DEF View, Writer, Writing, Committing, Undoing
  <2>3. Restores(t)'
    BY <1>1, <1>2, <1>3, <2>1 DEF Restores, Writing, Committing, Undoing
  <2>4. Files' BY <1>1, <2>1, ReadsFiles DEF Writing
  <2>6. QED BY <1>1, <2>1, <2>2, <2>3, <2>4, <2>5, WriterSteps DEF Writing
<1>7. CASE ReadOldManifest(t)
  <2>1. pc[t] = "saving" /\ pc'[t] = "reading" /\ Rest(t)
        /\ mem'[t] = [mem[t] EXCEPT !.manifest = manifest]
    BY <1>7, Moves DEF ReadOldManifest, Rest
  <2>2. mem'[t].manifest = manifest /\ mem'[t].rev = mem[t].rev /\ mem'[t].epoch = mem[t].epoch
    BY <1>2, <2>1 DEF Memory
  <2>5. tx = NoTx BY <1>2, <2>1 DEF Writer, Writing, Committing
  <2>3. Writer(t)' BY <1>1, <1>2, <2>1, <2>2 DEF Files, Writer, Writing, Committing, Undoing
  <2>4. Restores(t)'
    BY <1>1, <1>2, <1>3, <2>1, <2>2 DEF Restores, Writing, Committing, Undoing
  <2>6. Files' BY <1>1, <2>1, ReadsFiles DEF Writing
  <2>7. QED BY <1>1, <2>1, <2>3, <2>4, <2>5, <2>6, WriterSteps DEF Writing
<1>8. CASE ReadOldProfile(t)
  <2>1. pc[t] = "reading" /\ pc'[t] = "begin" /\ Rest(t)
        /\ mem'[t] = [mem[t] EXCEPT !.profile = IF mem[t].rev = Unrevised
                                                THEN Unrevised ELSE profileFile,
                                    !.rev = <<mem[t].rev[1] + 1, t>>]
    BY <1>8, Moves DEF ReadOldProfile, Rest
  <2>2. /\ mem'[t].manifest = mem[t].manifest /\ mem'[t].rev = <<mem[t].rev[1] + 1, t>>
        /\ mem'[t].epoch = mem[t].epoch
        /\ mem'[t].profile = IF mem[t].rev = Unrevised THEN Unrevised ELSE profileFile
    BY <1>2, <2>1 DEF Memory
  <2>3. mem[t].rev = ledger /\ profileFile = ledger BY <1>2, <2>1 DEF Writer
  <2>4. mem'[t].profile = ledger /\ mem'[t].rev = <<ledger[1] + 1, t>> BY <2>2, <2>3
  <2>5. tx = NoTx BY <1>2, <2>1 DEF Writer, Writing, Committing
  <2>6. Writer(t)'
    BY <1>1, <1>2, <2>1, <2>2, <2>3, <2>4 DEF Writer, Writing, Committing, Undoing
  <2>7. Restores(t)'
    BY <1>1, <1>2, <1>3, <2>1, <2>2 DEF Restores, Writing, Committing, Undoing
  <2>8. Files' BY <1>1, <2>1, ReadsFiles DEF Writing
  <2>9. QED BY <1>1, <2>1, <2>5, <2>6, <2>7, <2>8, WriterSteps DEF Writing
<1>9. CASE VerifyProfile(t)
  <2>1. pc[t] = "verify" /\ pc'[t] = "commit" /\ Rest(t)
        /\ mem'[t] = [mem[t] EXCEPT !.collected =
                        IF profileFile = mem[t].rev THEN {"profile"} ELSE {}]
    BY <1>9, Moves DEF VerifyProfile, Rest
  <2>2. profileFile = mem[t].rev BY <1>2, <2>1 DEF Writer
  <2>3. /\ mem'[t].manifest = mem[t].manifest /\ mem'[t].rev = mem[t].rev
        /\ mem'[t].epoch = mem[t].epoch /\ mem'[t].profile = mem[t].profile
        /\ mem'[t].collected = {"profile"}
    BY <1>2, <2>1, <2>2 DEF Memory
  <2>4. Writer(t)' BY <1>1, <1>2, <2>1, <2>3 DEF Writer, Writing, Committing, Undoing
  <2>5. Restores(t)'
    BY <1>1, <1>2, <1>3, <2>1, <2>3 DEF Restores, Writing, Committing, Undoing
  <2>6. Files' BY <1>1, <2>1, ReadsFiles DEF Writing
  <2>7. QED BY <1>1, <2>1, <2>4, <2>5, <2>6, WriterSteps DEF Writing, Committing
<1>10. QED BY <1>4, <1>5, <1>6, <1>7, <1>8, <1>9 DEF LookForFile

\* A failed step begins to undo: the old files are remembered and the ledger has not moved.
LEMMA UndoOrderly ==
  ASSUME Constants, Typed, Orderly, NEW t \in Task, pc[t] \in {"begin"} \cup Committing,
         Undo(t), Fault, UNCHANGED <<ledger, revisions, current, conn, archives, crashes>>,
         manifest' = manifest \/ manifest' = ForProfile(mem[t].rev),
         profileFile' = profileFile \/ profileFile' = mem[t].rev
  PROVE Orderly'
<1>1. Writer(t) /\ Restores(t) /\ Files BY DEF Orderly
<1>2. pc[t] \in Writing BY DEF Writing, Committing
<1>3. conn = mem[t].epoch /\ current # NotOpen /\ mem[t].rev = <<ledger[1] + 1, t>>
      /\ mem[t].profile = ledger /\ ledger[1] <= mem[t].manifest.rev[1]
  BY <1>1, <1>2 DEF Writer, Committing
<1>4. tx' = NoTx /\ pc'[t] = "undoManifest" /\ UNCHANGED mem /\ Rest(t)
  BY <1>3, Moves DEF Undo, Rest
<1>5. faults \in Nat /\ faults' = faults + 1 BY DEF Typed, Counted, Fault
<1>6. Writer(t)' BY <1>3, <1>4, <1>5 DEF Writer, Writing, Committing, Undoing
<1>7. Calm' => Calm BY <1>5 DEF Calm
<1>8. Restores(t)'
  <2>1. Calm => mem[t].manifest.rev = ledger
    <3>1. CASE pc[t] \in {"begin"} \cup Committing BY <1>1, <3>1 DEF Restores
    <3>2. QED BY <3>1
  <2>2. QED BY <1>4, <1>7, <2>1 DEF Restores, Writing, Committing, Undoing
<1>9. Files'
  <2>1. ledger[1] \in Nat BY RevParts DEF Typed, Rows
  <2>2. mem[t].rev[1] = ledger[1] + 1 BY <1>3
  <2>3. ledger[1] <= profileFile'[1] BY <1>1, <2>1, <2>2 DEF Files
  <2>4. ForProfile(mem[t].rev).rev = mem[t].rev BY DEF ForProfile, Manifest
  <2>5. ledger[1] <= manifest'.rev[1] BY <1>1, <2>1, <2>2, <2>4 DEF Files
  <2>6. pc'[t] \in Writing BY <1>4 DEF Writing
  <2>7. QED BY <1>1, <2>3, <2>5, <2>6 DEF Files, Importable
<1>10. QED BY <1>2, <1>4, <1>6, <1>8, <1>9, WriterSteps DEF Writing

\* Nobody else's row is in the way of a revision that ran alone.
LEMMA AloneIsFresh ==
  ASSUME Typed, Orderly, NEW t \in Task, pc[t] = "begin"
  PROVE conn = mem[t].epoch /\ tx = NoTx /\ FreshSequence(t)
<1>1. Writer(t) /\ revisions = 1..ledger[1] BY DEF Orderly, Files
<1>2. mem[t].rev = <<ledger[1] + 1, t>> BY <1>1 DEF Writer
<1>3. ledger[1] \in Nat /\ (ledger[1] = 0 <=> ledger = Unrevised)
  BY RevParts DEF Typed, Rows
<1>4. mem[t].rev[1] = ledger[1] + 1 BY <1>2
<1>5. FreshSequence(t) BY <1>1, <1>3, <1>4 DEF FreshSequence
<1>6. QED BY <1>1, <1>5 DEF Writer, Writing, Committing

LEMMA WritingOrderly ==
  ASSUME Constants, Typed, Orderly, NEW t \in Task,
         Begin(t) \/ WriteProfile(t) \/ WriteManifest(t)
  PROVE Orderly'
<1> USE DEF disk, Bounds, NoFault
<1>1. /\ UNCHANGED <<ledger, revisions, current, conn, archives, crashes>>
      /\ pc[t] \in {"begin"} \cup Committing /\ pc[t] \in Writing
  BY DEF Begin, WriteProfile, WriteManifest, Committing, Writing
<1>2. Writer(t) /\ Restores(t) /\ Files /\ mem[t].rev = <<ledger[1] + 1, t>>
  BY <1>1 DEF Orderly, Writer
<1>3. ledger[1] \in Nat /\ mem[t].rev[1] = ledger[1] + 1
      /\ (ledger[1] = 0 <=> ledger = Unrevised)
  BY <1>2, RevParts DEF Typed, Rows
<1>4. CASE Fault /\ Undo(t)
  <2>1. manifest' = manifest \/ manifest' = ForProfile(mem[t].rev)
    BY DEF Begin, WriteProfile, WriteManifest, Written
  <2>2. profileFile' = profileFile \/ profileFile' = mem[t].rev
    BY DEF Begin, WriteProfile, WriteManifest, Written
  <2>3. QED BY <1>1, <1>4, <2>1, <2>2, UndoOrderly
<1>5. CASE Begin(t) /\ ~(Fault /\ Undo(t))
  <2>1. pc[t] = "begin" BY <1>5 DEF Begin
  <2>2. conn = mem[t].epoch /\ tx = NoTx /\ FreshSequence(t) BY <2>1, AloneIsFresh
  <2>3. tx' = mem[t].rev /\ pc'[t] = "profile" /\ Rest(t)
        /\ UNCHANGED <<mem, faults, profileFile, manifest>>
    BY <1>5, <2>2, Moves DEF Begin, Rest
  <2>4. Writer(t)' BY <1>1, <1>2, <2>1, <2>3 DEF Writer, Writing, Committing, Undoing
  <2>5. Restores(t)'
    BY <1>1, <1>2, <2>1, <2>3 DEF Calm, Restores, Writing, Committing, Undoing
  <2>6. Files' BY <1>1, <2>3, ReadsFiles DEF Writing
  <2>7. QED BY <1>1, <2>3, <2>4, <2>5, <2>6, WriterSteps DEF Writing, Committing
<1>6. CASE WriteProfile(t) /\ ~(Fault /\ Undo(t))
  <2>1. pc[t] = "profile" /\ profileFile = ledger BY <1>2, <1>6 DEF WriteProfile, Writer
  <2>2. ~(mem[t].rev[1] = 1 /\ profileFile # Unrevised) BY <1>3, <2>1
  <2>3. profileFile' = mem[t].rev /\ pc'[t] = "manifest" /\ Rest(t)
        /\ UNCHANGED <<mem, faults, tx, manifest>>
    BY <1>6, <2>2, Moves DEF WriteProfile, Rest
  <2>4. Writer(t)' BY <1>1, <1>2, <2>1, <2>3 DEF Writer, Writing, Committing, Undoing
  <2>5. Restores(t)'
    BY <1>1, <1>2, <2>1, <2>3 DEF Calm, Restores, Writing, Committing, Undoing
  <2>6. Files' BY <1>1, <1>2, <1>3, <2>3 DEF Files, Importable, Writing
  <2>7. QED BY <1>1, <2>3, <2>4, <2>5, <2>6, WriterSteps DEF Writing, Committing
<1>7. CASE WriteManifest(t) /\ ~(Fault /\ Undo(t))
  <2>1. pc[t] = "manifest" BY <1>7 DEF WriteManifest
  <2>2. manifest' = ForProfile(mem[t].rev) /\ pc'[t] = "verify" /\ Rest(t)
        /\ UNCHANGED <<mem, faults, tx, profileFile>>
    BY <1>7, Moves DEF WriteManifest, Rest
  <2>3. manifest'.rev = mem[t].rev BY <2>2 DEF ForProfile, Manifest
  <2>4. Writer(t)' BY <1>1, <1>2, <2>1, <2>2, <2>3 DEF Writer, Writing, Committing, Undoing
  <2>5. Restores(t)'
    BY <1>1, <1>2, <2>1, <2>2 DEF Calm, Restores, Writing, Committing, Undoing
  <2>6. Files' BY <1>1, <1>2, <1>3, <2>2, <2>3 DEF Files, Importable, Writing
  <2>7. QED BY <1>1, <2>2, <2>4, <2>5, <2>6, WriterSteps DEF Writing, Committing
<1>8. QED BY <1>4, <1>5, <1>6, <1>7

\* The commit, which comes last, moves the ledger to what both files name.
LEMMA CommitOrderly ==
  ASSUME Constants, Typed, Orderly, NEW t \in Task, Commit(t) PROVE Orderly'
<1> USE DEF disk, Bounds
<1>1. Writer(t) /\ Restores(t) /\ Files /\ pc[t] = "commit" BY DEF Orderly, Commit
<1>2. /\ conn = mem[t].epoch /\ tx = mem[t].rev /\ manifest.rev = mem[t].rev
      /\ mem[t].collected # {} /\ profileFile = mem[t].rev /\ current # NotOpen
      /\ mem[t].rev = <<ledger[1] + 1, t>>
  BY <1>1 DEF Writer, Writing, Committing
<1>3. /\ ledger' = mem[t].rev /\ revisions' = revisions \cup {mem[t].rev[1]} /\ tx' = NoTx
      /\ current' = ForProfile(mem[t].rev) /\ pc'[t] = "idle" /\ Rest(t)
      /\ UNCHANGED <<manifest, profileFile, archives, conn>>
  BY <1>2, Moves DEF Commit
<1>4. ledger[1] \in Nat /\ mem[t].rev[1] = ledger[1] + 1
  BY <1>2, RevParts DEF Typed, Rows
<1>5. Writer(t)' /\ Restores(t)' BY <1>3 DEF Writer, Restores, Writing, Committing, Undoing
<1>6. Files'
  <2>1. revisions' = 1..ledger'[1] BY <1>1, <1>3, <1>4 DEF Files
  <2>2. current'.rev = ledger' BY <1>3 DEF ForProfile, Manifest
  <2>3. ledger'[1] <= profileFile'[1] /\ ledger'[1] <= manifest'.rev[1]
    BY <1>2, <1>3, <1>4
  <2>4. QED BY <1>1, <1>2, <1>3, <2>1, <2>2, <2>3 DEF Files, Settled, Importable
<1>7. QED BY <1>1, <1>3, <1>5, <1>6, WriterSteps DEF Writing

LEMMA UndoingOrderly ==
  ASSUME Constants, Typed, Orderly, NEW t \in Task, UndoManifest(t) \/ UndoProfile(t)
  PROVE Orderly'
<1> USE DEF disk, memory, Bounds, NoFault
<1>1. /\ UNCHANGED <<ledger, revisions, current, conn, archives, crashes, tx>>
      /\ pc[t] \in Undoing /\ pc[t] \in Writing
  BY DEF UndoManifest, UndoProfile, Undoing, Writing
<1>2. /\ Writer(t) /\ Restores(t) /\ Files /\ faults # 0 /\ tx = NoTx
      /\ mem[t].profile = ledger /\ ledger[1] <= mem[t].manifest.rev[1]
  BY <1>1 DEF Orderly, Writer, Undoing, Writing, Committing
<1>3. faults \in Nat /\ (faults' = faults \/ faults' = faults + 1)
  BY DEF Typed, Counted, UndoManifest, UndoProfile, Fault
<1>4. Calm' => Calm /\ faults' = faults BY <1>1, <1>2, <1>3 DEF Calm
<1>5. ledger[1] \in Nat BY RevParts DEF Typed, Rows
<1>6. CASE UndoManifest(t)
  <2>1. pc[t] = "undoManifest" /\ pc'[t] = "undoProfile" /\ Rest(t)
        /\ UNCHANGED <<mem, profileFile>>
    BY <1>6, Moves DEF UndoManifest, Rest
  <2>2. \/ manifest' = mem[t].manifest /\ faults' = faults
        \/ manifest' = manifest /\ faults' = faults + 1
    BY <1>6 DEF UndoManifest, Fault
  <2>3. Writer(t)' BY <1>1, <1>2, <1>3, <2>1 DEF Writer, Writing, Committing, Undoing
  <2>4. Calm => mem[t].manifest.rev = ledger BY <1>2, <2>1 DEF Restores, Undoing
  <2>5. Calm' => manifest'.rev = ledger BY <1>3, <1>4, <2>2, <2>4
  <2>6. Restores(t)' BY <1>1, <1>4, <2>1, <2>4, <2>5 DEF Restores, Writing, Committing, Undoing
  <2>7. Files' BY <1>1, <1>2, <2>1, <2>2 DEF Files, Importable, Writing
  <2>8. QED BY <1>1, <1>2, <2>1, <2>3, <2>6, <2>7, WriterSteps DEF Writing
<1>7. CASE UndoProfile(t)
  <2>1. pc[t] = "undoProfile" /\ pc'[t] = "idle" /\ Rest(t) /\ UNCHANGED manifest
    BY <1>7, Moves DEF UndoProfile
  <2>2. \/ profileFile' = ledger /\ faults' = faults
        \/ profileFile' = profileFile /\ faults' = faults + 1
    BY <1>2, <1>7 DEF UndoProfile, Fault
  <2>3. Writer(t)' /\ Restores(t)' BY <2>1 DEF Writer, Restores, Writing, Committing, Undoing
  <2>4. Calm' => Settled'
    BY <1>1, <1>2, <1>3, <1>4, <2>1, <2>2 DEF Restores, Settled, Writing
  <2>5. Files' BY <1>1, <1>2, <1>5, <2>1, <2>2, <2>4 DEF Files, Importable
  <2>6. QED BY <1>1, <1>2, <2>1, <2>3, <2>5, WriterSteps DEF Writing
<1>8. QED BY <1>6, <1>7

-----------------------------------------------------------------------------
\* Exports.
LEMMA ExportOrderly ==
  ASSUME Constants, Typed, Orderly, NEW t \in Task,
         ExportDatabase(t) \/ ExportSnapshot(t) \/ Collect(t)
  PROVE Orderly'
<1> USE DEF disk, memory, Bounds, NoFault
<1>1. /\ UNCHANGED <<promoted, applied, metaSchema, ledger, revisions, manifest, profileFile, current,
                     conn, tx, crashes, faults>>
      /\ pc[t] \in Exporting
  BY DEF ExportDatabase, ExportSnapshot, Collect, Exporting
<1>2. /\ Exporter(t) /\ Files /\ mem[t] \in Memory
      /\ Agree(Database, manifest, profileFile)
      /\ Agree(Database, manifest, profileFile)'
      /\ Database' = Database
  BY <1>1 DEF Orderly, Typed, Tasks, Exporter, Database, Agree
<1>3. \A u \in Task \ {t} : pc[u] = "idle" BY <1>1, Loners DEF Orderly, Alone
<1>4. \A u \in Task : pc[u] \notin Writing BY <1>1, <1>3 DEF Exporting, Writing
<1>5. tx' = NoTx BY <1>1, <1>4 DEF Orderly, TxOwned, Writing, Committing
<1>6. pc'[t] \in Exporting \cup {"idle"} /\ Rest(t)
  <2>1. Done(t) \/ UNCHANGED pc \/ \E s \in Exporting : Goto(t, s)
    BY DEF ExportDatabase, ExportSnapshot, Collect, Exporting
  <2>2. \A u \in Task \ {t} : mem'[u] = mem[u]
    <3>1. UNCHANGED mem \/ Done(t) \/ \E m : Remember(t, m)
      BY DEF ExportDatabase, ExportSnapshot, Collect
    <3>2. QED BY <3>1, Moves DEF Rest
  <2>3. QED BY <1>1, <2>1, <2>2, Moves DEF Rest
<1>7. Opener(t)' /\ Writer(t)' /\ Restores(t)'
  BY <1>6 DEF Opener, Writer, Restores, Exporting, Opening, Writing, Committing, Undoing
<1>8. Exporter(t)'
  <2>1. CASE ExportDatabase(t)
    <3>1. mem[t].collected = {} BY <1>2, <2>1 DEF ExportDatabase, Exporter
    <3>2. pc'[t] = "export" => mem'[t].collected = {}
      <4>1. CASE UNCHANGED mem BY <3>1, <4>1
      <4>2. CASE Remember(t, [mem[t] EXCEPT !.epoch = conn])
        <5>1. mem'[t] = [mem[t] EXCEPT !.epoch = conn] BY <4>2, Moves
        <5>2. QED BY <1>2, <3>1, <5>1 DEF Memory
      <4>3. CASE Done(t) BY <4>3, Moves
      <4>4. QED BY <2>1, <4>1, <4>2, <4>3 DEF ExportDatabase
    <3>3. pc'[t] \in {"export", "idle"} BY <2>1, Moves DEF ExportDatabase
    <3>4. QED BY <1>2, <3>2, <3>3 DEF Exporter, Exporting
  <2>2. CASE ExportSnapshot(t)
    <3>1. CASE Done(t)
      <4>1. pc'[t] = "idle" BY <3>1, Moves
      <4>2. QED BY <4>1 DEF Exporter, Exporting
    <3>2. CASE ~Done(t)
      <4>1. mem[t].collected = {} BY <1>2, <2>2 DEF ExportSnapshot, Exporter
      <4>2. pc'[t] = "collect" /\ mem'[t] = [mem[t] EXCEPT !.snapshot = Database]
        BY <2>2, <3>2, Moves DEF ExportSnapshot
      <4>3. mem'[t].collected = {} /\ mem'[t].snapshot = Database
        BY <1>2, <4>1, <4>2 DEF Memory
      <4>4. QED BY <1>2, <4>2, <4>3 DEF Exporter
    <3>3. QED BY <3>1, <3>2
  <2>3. CASE Collect(t)
    <3>1. /\ mem[t].snapshot = Database /\ pc[t] = "collect"
          /\ "profile" \in mem[t].collected => mem[t].profile = profileFile
          /\ "manifest" \in mem[t].collected => mem[t].manifest = manifest
      BY <1>2, <2>3 DEF Collect, Exporter
    <3>2. CASE UNCHANGED pc
               /\ Remember(t, [mem[t] EXCEPT !.collected = @ \cup {"profile"},
                                             !.profile = profileFile])
      <4>1. /\ mem'[t].snapshot = mem[t].snapshot /\ mem'[t].profile = profileFile
            /\ mem'[t].manifest = mem[t].manifest
            /\ mem'[t].collected = mem[t].collected \cup {"profile"}
        BY <1>2, <3>2 DEF Remember, Typed, Tasks, Memory
      <4>2. QED BY <1>1, <1>2, <3>1, <3>2, <4>1 DEF Exporter
    <3>3. CASE UNCHANGED pc
               /\ Remember(t, [mem[t] EXCEPT !.collected = @ \cup {"manifest"},
                                             !.manifest = manifest])
      <4>1. /\ mem'[t].snapshot = mem[t].snapshot /\ mem'[t].profile = mem[t].profile
            /\ mem'[t].manifest = manifest
            /\ mem'[t].collected = mem[t].collected \cup {"manifest"}
        BY <1>2, <3>3 DEF Remember, Typed, Tasks, Memory
      <4>2. QED BY <1>1, <1>2, <3>1, <3>3, <4>1 DEF Exporter
    <3>4. CASE Done(t)
      <4>1. pc'[t] = "idle" BY <3>4, Moves
      <4>2. QED BY <4>1 DEF Exporter, Exporting
    <3>5. QED BY <2>3, <3>2, <3>3, <3>4 DEF Collect
  <2>4. QED BY <2>1, <2>2, <2>3
<1>9. Files'
  <2>1. \A a \in archives' : Importable(a)
    <3>1. CASE archives' = archives BY <1>2, <3>1 DEF Files
    <3>2. CASE archives' # archives
      <4>1. /\ mem[t].collected = {"profile", "manifest"} /\ pc[t] = "collect"
            /\ archives' = {[database |-> mem[t].snapshot, manifest |-> mem[t].manifest,
                             profile |-> mem[t].profile]}
        BY <3>2 DEF ExportDatabase, ExportSnapshot, Collect
      <4>2. mem[t].snapshot = Database /\ mem[t].manifest = manifest /\ mem[t].profile = profileFile
        BY <1>2, <4>1 DEF Exporter
      <4>3. QED BY <1>2, <4>1, <4>2 DEF Importable
    <3>3. QED BY <3>1, <3>2
  <2>2. \A a : Importable(a)' <=> Importable(a) BY DEF Importable, Agree
  <2>3. QED BY <1>1, <1>2, <1>4, <2>1, <2>2 DEF Files, Calm, Settled
<1>10. QED BY <1>3, <1>5, <1>6, <1>7, <1>8, <1>9, LonerSteps DEF Orderly

\* A Project appears with nothing in it; a crash leaves nobody at work.
LEMMA OutsideOrderly ==
  ASSUME Constants, Typed, Orderly, Unmade, Create \/ Legacy \/ Crash PROVE Orderly'
<1>1. tx' = NoTx /\ \A u \in Task : pc'[u] = "idle"
  <2>1. CASE Create \/ Legacy
    <3>1. \A u \in Task : pc[u] = "idle" BY <2>1 DEF Create, Legacy, Appear, Unmade
    <3>2. tx = NoTx BY <3>1, NoLoners DEF Orderly, Alone, Writing, Exporting
    <3>3. QED BY <2>1, <3>1, <3>2 DEF Create, Legacy, Appear, memory
  <2>2. CASE Crash BY <2>2 DEF Crash, Shut
  <2>3. QED BY <2>1, <2>2
<1>2. \A u \in Task : pc'[u] \notin Alone /\ Opener(u)'
  BY <1>1 DEF Alone, Writing, Exporting, Opener, Opening
<1>3. Files'
  <2>1. CASE Create \/ Legacy
    <3>1. /\ ledger = Unrevised /\ profileFile = Unrevised /\ current = NotOpen
          /\ UNCHANGED <<ledger, profileFile, current, revisions, archives>>
          /\ manifest'.rev = Unrevised
      BY <2>1 DEF Create, Legacy, Appear, Unmade, Manifest, memory
    <3>2. QED BY <3>1, Nothing DEF Orderly, Files, Settled, Importable
  <2>2. CASE Crash
    <3>1. UNCHANGED <<ledger, profileFile, manifest, revisions, archives>> /\ current' = NotOpen
          /\ crashes' # 0
      BY <2>2 DEF Crash, Typed, Counted
    <3>2. QED BY <3>1 DEF Orderly, Files, Calm, Importable
  <2>3. QED BY <2>1, <2>2
<1>4. QED BY <1>1, <1>2, <1>3, OthersStep

LEMMA StepOrderly ==
  ASSUME Constants, Typed, Exclusive, Unmade, ~overlapped => Orderly, [Next]_vars, ~overlapped'
  PROVE Orderly'
<1>1. CASE UNCHANGED vars
  <2> USE <1>1 DEF vars, disk, memory
  <2>1. Orderly OBVIOUS
  <2>2. Solo' /\ TxOwned' BY <2>1 DEF Orderly, Solo, TxOwned
  <2>3. Files' BY <2>1 DEF Orderly, Files, Calm, Settled, Importable
  <2>4. ASSUME NEW t \in Task PROVE Opener(t)' /\ Writer(t)' /\ Restores(t)' /\ Exporter(t)'
    BY <2>1 DEF Orderly, Opener, Writer, Restores, Exporter, Calm, Settled, Agree, Database
  <2>5. QED BY <2>2, <2>3, <2>4 DEF Orderly
<1>2. CASE \E t \in Task :
             Open(t) \/ Close(t) \/ CreateProfile(t) \/ UpdateProfile(t) \/ Export(t)
  BY <1>2, StartsOrderly
<1>3. CASE Next /\ ~\E t \in Task :
             Open(t) \/ Close(t) \/ CreateProfile(t) \/ UpdateProfile(t) \/ Export(t)
  <2>1. overlapped' = overlapped
    <3>1. CASE Create \/ Legacy \/ OtherTransaction BY <3>1, OthersLeave
    <3>2. CASE Crash BY <3>2 DEF Crash
    <3>3. ASSUME NEW t \in Task, Works(t) PROVE overlapped' = overlapped BY <3>3, WorksLeaves
    <3>4. QED BY <1>3, <3>1, <3>2, <3>3, StepsAre DEF Begins
  <2>2. Orderly BY <2>1
  <2>3. ~OtherTransaction BY DEF OtherTransaction
  <2>4. QED
    BY <1>3, <2>2, <2>3, OpeningOrderly, ReadingOrderly, WritingOrderly, CommitOrderly,
       UndoingOrderly, ExportOrderly, OutsideOrderly
    DEF Next
<1>4. QED BY <1>1, <1>2, <1>3

-----------------------------------------------------------------------------
(***************************************************************************)
(* Execution sessions: one that nobody ended is that of the open Project,  *)
(* unless the process died or commands overlapped.                         *)
(***************************************************************************)
Interrupted == crashes > 0 \/ overlapped

Sessions ==
  /\ died => session.unclean \/ (session.running # 0 /\ current = NotOpen)
  /\ session.unclean => Interrupted
  /\ session.running # 0 => Interrupted \/ (current # NotOpen /\ conn = session.running)

LEMMA StepSessions ==
  ASSUME Constants, Typed, Exclusive, ~overlapped => Orderly, Sessions, [Next]_vars
  PROVE Sessions'
<1>1. crashes \in Nat /\ session.running \in Nat /\ overlapped \in BOOLEAN
  BY DEF Typed, Counted, Rows
<1>2. CASE Crash
  <2>1. crashes' > 0 /\ session' = session /\ current' = NotOpen
        /\ died' = (died \/ session.running # 0)
    BY <1>1, <1>2 DEF Crash
  <2>2. QED BY <2>1 DEF Sessions, Interrupted
<1>3. CASE \E t \in Task : Opened(t)
  <2>1. PICK t \in Task : Opened(t) BY <1>3
  <2>2. /\ current = NotOpen /\ conn = mem[t].epoch
    BY <2>1 DEF Opened, Exclusive, Locked, Connected, Holder, Opening
  <2>3. /\ session'.running = conn /\ conn' = conn /\ current' # NotOpen
        /\ session'.unclean = (session.unclean \/ session.running # 0)
        /\ UNCHANGED <<crashes, overlapped, died>>
    BY <2>1, <2>2, OpenedIsOpen DEF Opened, BeginSession, ForOpen, Bounds
  <2>4. QED BY <2>2, <2>3 DEF Sessions, Interrupted
<1>4. CASE \E t \in Task : Close(t)
  <2>1. PICK t \in Task : Close(t) BY <1>4
  <2>2. /\ current # NotOpen /\ current' = NotOpen /\ UNCHANGED <<crashes, died>>
        /\ overlapped => overlapped'
    BY <2>1 DEF Close, Starts
  <2>3. CASE tx = NoTx
    <3>1. session'.unclean = session.unclean
          /\ session'.running = IF session.running = conn THEN 0 ELSE session.running
      BY <2>1, <2>3 DEF Close, EndSession, Typed, Rows
    <3>2. QED BY <2>2, <3>1 DEF Sessions, Interrupted
  <2>4. CASE tx # NoTx
    <3>1. session' = session /\ Starts(t, "idle") BY <2>1, <2>4 DEF Close
    <3>2. overlapped'
      <4>1. CASE overlapped BY <2>2, <4>1
      <4>2. CASE ~overlapped
        <5>1. PICK u \in Task : pc[u] \in Committing BY <2>4, <4>2 DEF Orderly, TxOwned
        <5>2. SomeTask(Alone) BY <5>1 DEF SomeTask, Alone, Writing, Committing
        <5>3. QED BY <3>1, <5>2 DEF Starts
      <4>3. QED BY <4>1, <4>2
    <3>3. QED BY <2>2, <3>1, <3>2 DEF Sessions, Interrupted
  <2>5. QED BY <2>3, <2>4
<1>5. CASE [Next]_vars /\ ~Crash /\ ~\E t \in Task : Opened(t) \/ Close(t)
  <2>1. /\ session' = session /\ crashes' = crashes /\ died' = died
        /\ overlapped => overlapped'
        /\ current' = NotOpen <=> current = NotOpen
        /\ conn' = conn \/ \E t \in Task : pc[t] \in Opening \cup {"closing"}
    <3>1. CASE UNCHANGED vars BY <3>1 DEF vars, disk, memory
    <3>2. CASE Create \/ Legacy \/ OtherTransaction BY <3>2, OthersLeave
    <3>3. CASE \E t \in Task : Begins(t) /\ ~Close(t) BY <3>3, BeginsLeaves
    <3>4. CASE \E t \in Task : Works(t) /\ ~Opened(t) BY <3>4, WorksLeaves
    <3>5. QED BY <1>5, <3>1, <3>2, <3>3, <3>4, StepsAre
  <2>2. current = NotOpen \/ conn' = conn
    <3>1. ASSUME NEW t \in Task, pc[t] \in Opening \cup {"closing"} PROVE current = NotOpen
      BY <3>1 DEF Exclusive, Locked, Holder
    <3>2. QED BY <2>1, <3>1
  <2>3. QED BY <2>1, <2>2 DEF Sessions, Interrupted
<1>6. QED BY <1>2, <1>3, <1>4, <1>5

-----------------------------------------------------------------------------
(***************************************************************************)
(* The invariant, and what it says.                                        *)
(***************************************************************************)
StoreInv ==
  Typed /\ Exclusive /\ Unmade /\ Sessions /\ (~overlapped => Orderly)

\* What the tasks remember, who holds the Project lock, what an execution session that
\* nobody ended means, and, as long as no Profile write or export ran beside another command,
\* what each stage has read and written: in every state, for any number of tasks, openings,
\* revisions, faults and crashes.
THEOREM StoreIsInvariant == ASSUME Constants PROVE Spec => []StoreInv
<1>1. Init => StoreInv
  <2> SUFFICES ASSUME Init PROVE StoreInv OBVIOUS
  <2>1. Sessions BY DEF Init, Sessions
  <2>2. QED BY <2>1, StoreTypes, ExclusiveAtFirst, OrderlyAtFirst DEF StoreInv
<1>2. StoreInv /\ [Next]_vars => StoreInv'
  <2> SUFFICES ASSUME StoreInv, [Next]_vars PROVE StoreInv' OBVIOUS
  <2>1. Typed' /\ Exclusive' /\ Unmade' BY StepTypes, StepExclusive, UnmadeStays DEF StoreInv
  <2>2. Sessions' BY StepSessions DEF StoreInv
  <2>3. ~overlapped' => Orderly' BY StepOrderly DEF StoreInv
  <2>4. QED BY <2>1, <2>2, <2>3 DEF StoreInv
<1>3. QED BY <1>1, <1>2, PTL DEF Spec

LEMMA InvIsSound == ASSUME Constants, StoreInv PROVE StoreIsSound
<1>1. ProfileAgrees
  <2>1. Quiet => \A t \in Task : pc[t] \notin Writing BY DEF Quiet, Writing
  <2>2. QED BY <2>1 DEF StoreInv, Orderly, Files, Calm, Settled, ProfileAgrees
<1>2. ArchivesImport BY DEF StoreInv, Orderly, Files, ArchivesImport
<1>3. DeathsAreNoticed
  <2>1. died /\ current # NotOpen => session.unclean BY DEF StoreInv, Sessions
  <2>2. session.unclean => crashes > 0 \/ overlapped BY DEF StoreInv, Sessions, Interrupted
  <2>3. session.unclean \in BOOLEAN BY DEF StoreInv, Typed, Rows
  <2>4. QED BY <2>1, <2>2, <2>3 DEF DeathsAreNoticed, RecoveryStatus
<1>4. HistoryIsWhole
  <2> SUFFICES ASSUME ~overlapped, NEW to \in 1..ledger[1] PROVE Comparable(1, to)
    BY DEF HistoryIsWhole
  <2>1. revisions = 1..ledger[1] BY DEF StoreInv, Orderly, Files
  <2>2. ledger[1] \in Nat BY RevParts DEF StoreInv, Typed, Rows
  <2>3. QED BY <2>1, <2>2 DEF Comparable
<1>5. QED BY <1>1, <1>2, <1>3, <1>4 DEF StoreIsSound

\* SITE_PROFILE.md and PROJECT_LIFECYCLE.md: when a step of a Profile write fails, the manifest,
\* the Profile file and the ledger name one revision again; files are never behind the ledger,
\* every revision up to it has its row, what an export makes is accepted by an import, and an
\* open reports a session that was not ended when the process had died, and not otherwise.
THEOREM StoreStaysSound == ASSUME Constants PROVE Spec => []StoreIsSound
<1>1. StoreInv => StoreIsSound BY InvIsSound
<1>2. QED BY <1>1, StoreIsInvariant, PTL

-----------------------------------------------------------------------------
(***************************************************************************)
(* The file of the Project lock, for any number of processes, hosts and    *)
(* acquisitions: an owner finds its own file in place, unless two          *)
(* processes of a dead owner's host can have judged that owner.            *)
(***************************************************************************)
CONSTANTS Process, NoFile, HostOf, MaxInstances
VARIABLES lockFile, written, lockPc, count

LockFile == INSTANCE ProjectLock WITH pc <- lockPc

\* NoFile is no lock file.
LockConstants == NoFile \notin LockFile!Instance /\ MaxInstances \in Nat

-----------------------------------------------------------------------------
(***************************************************************************)
(* The inductive invariant.                                                *)
(***************************************************************************)
\* A process of the stages in which the file is its own.
Owns(p) == lockPc[p] \in {"writing", "held", "releasing", "removing"}

\* The lock's file is one of a dead process of p's host.
SeesDead(p) ==
  lockFile # NoFile /\ ~LockFile!Alive(lockFile[1]) /\ HostOf[lockFile[1]] = HostOf[p]

\* A dead process and two others of its host: the window that the code leaves open.
TwoJudges ==
  \E d \in Process : ~LockFile!Alive(d) /\ \E q, r \in Process \ {d} :
    q # r /\ HostOf[q] = HostOf[d] /\ HostOf[r] = HostOf[d]

\* A process that has judged a lock stale still finds a lock that is: as long as it is
\* the only one to have judged, nobody but itself removes the dead owner's file.
JudgementHolds == \A p \in Process : lockPc[p] = "stale" => SeesDead(p)

\* Whoever is at work has drawn an instance.
InstancesDrawn == \A p \in Process : lockPc[p] \notin {"idle", "dead"} => count[p] >= 1

LockInv ==
  /\ LockFile!TypeOK /\ InstancesDrawn
  /\ TwoJudges \/ (JudgementHolds /\ \A p \in Process : Owns(p) => lockFile = LockFile!Mine(p))

-----------------------------------------------------------------------------
(***************************************************************************)
(* What a step does to the processes.                                      *)
(***************************************************************************)
\* One process moves; nobody else's stage or instance changes, and no process comes
\* back to life.
Moved(p) ==
  /\ lockPc[p] # "dead"
  /\ \A q \in Process \ {p} : lockPc'[q] = lockPc[q] /\ LockFile!Mine(q)' = LockFile!Mine(q)

LEMMA OneMoves ==
  ASSUME LockFile!TypeOK, NEW p \in Process,
         \/ LockFile!Acquire(p) \/ LockFile!Create(p) \/ LockFile!WriteRecord(p)
         \/ LockFile!WriteFails(p)
         \/ LockFile!ReadOwner(p) \/ LockFile!RemoveStale(p)
         \/ LockFile!Release(p) \/ LockFile!ReadOwn(p) \/ LockFile!RemoveOwn(p)
         \/ LockFile!Die(p)
  PROVE  Moved(p)
<1>1. lockPc[p] # "dead"
  BY DEF LockFile!Acquire, LockFile!Create, LockFile!WriteRecord, LockFile!WriteFails,
         LockFile!ReadOwner, LockFile!RemoveStale, LockFile!Release, LockFile!ReadOwn,
         LockFile!RemoveOwn, LockFile!Die, LockFile!Alive
<1>2. ASSUME NEW q \in Process, q # p PROVE lockPc'[q] = lockPc[q] /\ count'[q] = count[q]
  BY <1>2 DEF LockFile!TypeOK, LockFile!Goto, LockFile!Acquire, LockFile!Create,
              LockFile!WriteRecord, LockFile!WriteFails, LockFile!ReadOwner,
              LockFile!RemoveStale,
              LockFile!Release, LockFile!ReadOwn, LockFile!RemoveOwn, LockFile!Die
<1>3. QED
  BY <1>1, <1>2 DEF Moved, LockFile!Mine

\* The types, and the instances that are drawn.
LEMMA LockStepTypes ==
  ASSUME LockConstants, LockFile!TypeOK, InstancesDrawn, [LockFile!Next]_(LockFile!vars)
  PROVE  LockFile!TypeOK' /\ InstancesDrawn'
<1>1. CASE UNCHANGED LockFile!vars
  BY <1>1 DEF LockFile!TypeOK, InstancesDrawn, LockFile!vars
<1>2. ASSUME NEW p \in Process, lockPc[p] \notin {"idle", "dead"}
      PROVE  LockFile!Mine(p) \in LockFile!Instance
  BY <1>2 DEF LockFile!Mine, LockFile!Instance, LockFile!TypeOK, InstancesDrawn, LockConstants
<1>3. ASSUME NEW p \in Process, LockFile!Acquire(p) \/ LockFile!RemoveStale(p)
      PROVE  LockFile!TypeOK' /\ InstancesDrawn'
  <2>1. count' \in [Process -> 0..MaxInstances]
    BY <1>3 DEF LockFile!Acquire, LockFile!RemoveStale, LockFile!TypeOK, LockConstants
  <2>2. lockPc' \in [Process -> LockFile!Stages]
    BY <1>3 DEF LockFile!Acquire, LockFile!RemoveStale, LockFile!TypeOK, LockFile!Goto,
                LockFile!Stages
  <2>3. lockFile' \in LockFile!Instance \cup {NoFile} /\ written' \subseteq LockFile!Instance
    BY <1>3 DEF LockFile!Acquire, LockFile!RemoveStale, LockFile!TypeOK
  <2>4. ASSUME NEW q \in Process, lockPc'[q] \notin {"idle", "dead"} PROVE count'[q] >= 1
    BY <1>3, <2>4 DEF LockFile!Acquire, LockFile!RemoveStale, LockFile!TypeOK, LockFile!Goto,
                      InstancesDrawn, LockConstants
  <2>5. QED
    BY <2>1, <2>2, <2>3, <2>4 DEF LockFile!TypeOK, InstancesDrawn
<1>4. ASSUME NEW p \in Process,
             \/ LockFile!Create(p) \/ LockFile!WriteRecord(p) \/ LockFile!WriteFails(p)
             \/ LockFile!ReadOwner(p)
             \/ LockFile!Release(p) \/ LockFile!ReadOwn(p) \/ LockFile!RemoveOwn(p)
             \/ LockFile!Die(p)
      PROVE  LockFile!TypeOK' /\ InstancesDrawn'
  <2>1. /\ count' = count /\ lockPc' \in [Process -> LockFile!Stages]
        /\ \A q \in Process : lockPc[q] \in {"idle", "dead"} => lockPc'[q] \in {"idle", "dead"}
    BY <1>4 DEF LockFile!Create, LockFile!WriteRecord, LockFile!WriteFails,
                LockFile!ReadOwner, LockFile!Release, LockFile!ReadOwn, LockFile!RemoveOwn,
                LockFile!Die,
                LockFile!TypeOK, LockFile!Goto, LockFile!Stages, LockFile!Alive
  <2>2. lockFile' \in LockFile!Instance \cup {NoFile} /\ written' \subseteq LockFile!Instance
    BY <1>2, <1>4 DEF LockFile!Create, LockFile!WriteRecord, LockFile!WriteFails,
                      LockFile!ReadOwner, LockFile!Release, LockFile!ReadOwn,
                      LockFile!RemoveOwn,
                      LockFile!Die, LockFile!TypeOK
  <2>3. QED
    BY <2>1, <2>2 DEF LockFile!TypeOK, InstancesDrawn
<1>5. QED
  BY <1>1, <1>3, <1>4 DEF LockFile!Next

\* The dead stay dead, and so does the window.
LEMMA WindowStays ==
  ASSUME LockFile!TypeOK, [LockFile!Next]_(LockFile!vars)
  PROVE  /\ \A d \in Process : ~LockFile!Alive(d) => ~LockFile!Alive(d)'
         /\ TwoJudges => TwoJudges'
<1>1. CASE UNCHANGED LockFile!vars
  BY <1>1 DEF LockFile!vars, LockFile!Alive, TwoJudges
<1>2. ASSUME NEW p \in Process, Moved(p)
      PROVE  \A d \in Process : ~LockFile!Alive(d) => ~LockFile!Alive(d)'
  BY <1>2 DEF Moved, LockFile!Alive
<1>3. \A d \in Process : ~LockFile!Alive(d) => ~LockFile!Alive(d)'
  BY <1>1, <1>2, OneMoves DEF LockFile!Next
<1>4. QED
  BY <1>3 DEF TwoJudges

-----------------------------------------------------------------------------
(***************************************************************************)
(* The owners and the judge.                                               *)
(***************************************************************************)
\* As long as the window is closed, the invariant of owners and judgements.
OwnersOrderly == JudgementHolds /\ \A p \in Process : Owns(p) => lockFile = LockFile!Mine(p)

\* An owner's file is its own, so no other process owns it and no judge sees a dead one.
LEMMA OwnerIsAlone ==
  ASSUME LockConstants, LockFile!TypeOK, InstancesDrawn, OwnersOrderly, NEW p \in Process,
         Owns(p)
  PROVE  /\ lockFile = LockFile!Mine(p) /\ lockFile # NoFile
         /\ \A q \in Process : Owns(q) => q = p
         /\ \A q \in Process : lockPc[q] # "stale"
<1>1. lockFile = LockFile!Mine(p) /\ LockFile!Mine(p) \in LockFile!Instance
  BY DEF OwnersOrderly, Owns, LockFile!Mine, LockFile!Instance, LockFile!TypeOK,
     InstancesDrawn, LockConstants
<1>2. ASSUME NEW q \in Process, Owns(q) PROVE q = p
  BY <1>1, <1>2 DEF OwnersOrderly, LockFile!Mine
<1>3. ASSUME NEW q \in Process, lockPc[q] = "stale" PROVE FALSE
  <2>1. ~LockFile!Alive(lockFile[1]) /\ lockFile[1] = p
    BY <1>1, <1>3 DEF OwnersOrderly, JudgementHolds, SeesDead, LockFile!Mine
  <2>2. QED
    BY <2>1 DEF LockFile!Alive, Owns
<1>4. QED
  BY <1>1, <1>2, <1>3 DEF LockConstants

\* Two processes that have judged are of the host of one dead owner.
LEMMA JudgesMakeWindow ==
  ASSUME LockConstants, LockFile!TypeOK, OwnersOrderly, ~TwoJudges,
         NEW p \in Process, NEW q \in Process, lockPc[p] = "stale", lockPc[q] = "stale"
  PROVE  p = q
<1>1. lockFile \in LockFile!Instance /\ ~LockFile!Alive(lockFile[1]) /\ SeesDead(p) /\ SeesDead(q)
  BY DEF OwnersOrderly, JudgementHolds, SeesDead, LockFile!TypeOK
<1>2. lockFile[1] \in Process
  BY <1>1 DEF LockFile!Instance
<1>3. p # lockFile[1] /\ q # lockFile[1]
  BY <1>1 DEF LockFile!Alive
<1>4. QED
  BY <1>1, <1>2, <1>3 DEF TwoJudges, SeesDead

\* Each step of one process, while the window stays closed.
LEMMA OwnersStayOrderly ==
  ASSUME LockConstants, LockFile!TypeOK, InstancesDrawn, OwnersOrderly, ~TwoJudges,
         [LockFile!Next]_(LockFile!vars)
  PROVE  OwnersOrderly'
<1>1. CASE UNCHANGED LockFile!vars
  BY <1>1 DEF LockFile!vars, OwnersOrderly, JudgementHolds, SeesDead, LockFile!Alive, Owns,
              LockFile!Mine
<1> SUFFICES ASSUME NEW p \in Process,
                    \/ LockFile!Acquire(p) \/ LockFile!Create(p) \/ LockFile!WriteRecord(p)
                    \/ LockFile!WriteFails(p)
                    \/ LockFile!ReadOwner(p) \/ LockFile!RemoveStale(p)
                    \/ LockFile!Release(p) \/ LockFile!ReadOwn(p) \/ LockFile!RemoveOwn(p)
                    \/ LockFile!Die(p)
             PROVE  OwnersOrderly'
  BY <1>1 DEF LockFile!Next
<1>2. Moved(p)
  BY OneMoves
<1>3. \A d \in Process : ~LockFile!Alive(d) => ~LockFile!Alive(d)'
  BY WindowStays DEF LockFile!Next
<1>4. ASSUME lockFile' = lockFile, lockPc'[p] = "stale" => SeesDead(p),
             Owns(p)' => lockFile = LockFile!Mine(p)'
      PROVE  OwnersOrderly'
  <2>1. ASSUME NEW q \in Process, lockPc'[q] = "stale" PROVE SeesDead(q)'
    <3>1. SeesDead(q)
      BY <1>2, <1>4, <2>1 DEF Moved, OwnersOrderly, JudgementHolds
    <3>2. lockFile[1] \in Process
      BY <3>1 DEF SeesDead, LockFile!TypeOK, LockFile!Instance
    <3>3. QED
      BY <1>3, <1>4, <3>1, <3>2 DEF SeesDead
  <2>2. ASSUME NEW q \in Process, Owns(q)' PROVE lockFile' = LockFile!Mine(q)'
    BY <1>2, <1>4, <2>2 DEF Moved, OwnersOrderly, Owns
  <2>3. QED
    BY <2>1, <2>2 DEF OwnersOrderly, JudgementHolds
<1>5. CASE LockFile!Acquire(p)
  BY <1>4, <1>5 DEF LockFile!Acquire, LockFile!Goto, LockFile!TypeOK, Owns
<1>6. CASE LockFile!WriteRecord(p) \/ LockFile!WriteFails(p) \/ LockFile!Release(p) \/ LockFile!Die(p)
  BY <1>4, <1>6 DEF LockFile!WriteRecord, LockFile!WriteFails, LockFile!Release,
                    LockFile!Die, LockFile!Goto, LockFile!TypeOK, Owns, LockFile!Mine,
                    OwnersOrderly
<1>7. CASE LockFile!ReadOwn(p)
  BY <1>4, <1>7 DEF LockFile!ReadOwn, LockFile!Goto, LockFile!TypeOK, Owns, LockFile!Mine
<1>8. CASE LockFile!ReadOwner(p)
  <2>1. lockPc'[p] = "stale" => SeesDead(p)
    BY <1>8 DEF LockFile!ReadOwner, LockFile!Goto, LockFile!TypeOK, LockFile!Stale, SeesDead
  <2>2. QED
    BY <1>4, <1>8, <2>1 DEF LockFile!ReadOwner, LockFile!Goto, LockFile!TypeOK, Owns
<1>9. CASE LockFile!Create(p) /\ lockFile # NoFile
  BY <1>4, <1>9 DEF LockFile!Create, LockFile!Goto, LockFile!TypeOK, Owns
<1>10. CASE LockFile!Create(p) /\ lockFile = NoFile
  <2>1. lockFile' = LockFile!Mine(p)' /\ lockPc'[p] = "writing"
    BY <1>10 DEF LockFile!Create, LockFile!Goto, LockFile!TypeOK, LockFile!Mine
  <2>2. ASSUME NEW q \in Process PROVE ~Owns(q) /\ lockPc[q] # "stale"
    BY <1>10, OwnerIsAlone DEF OwnersOrderly, JudgementHolds, SeesDead
  <2>3. ASSUME NEW q \in Process, q # p PROVE ~Owns(q)' /\ lockPc'[q] # "stale"
    BY <1>2, <2>2, <2>3 DEF Moved, Owns
  <2>4. QED
    BY <2>1, <2>3 DEF OwnersOrderly, JudgementHolds
<1>11. CASE LockFile!RemoveStale(p)
  <2>1. ASSUME NEW q \in Process PROVE ~Owns(q)
    BY <1>11, <2>1, OwnerIsAlone DEF LockFile!RemoveStale
  <2>2. ASSUME NEW q \in Process, q # p PROVE lockPc[q] # "stale"
    BY <1>11, <2>2, JudgesMakeWindow DEF LockFile!RemoveStale
  <2>3. lockPc'[p] \in {"idle", "again"}
    BY <1>11 DEF LockFile!RemoveStale, LockFile!Goto, LockFile!TypeOK
  <2>4. ASSUME NEW q \in Process PROVE ~Owns(q)' /\ lockPc'[q] # "stale"
    BY <1>2, <2>1, <2>2, <2>3 DEF Moved, Owns
  <2>5. QED
    BY <2>4 DEF OwnersOrderly, JudgementHolds
<1>12. CASE LockFile!RemoveOwn(p)
  <2>1. Owns(p) /\ lockPc'[p] = "idle"
    BY <1>12 DEF LockFile!RemoveOwn, Owns, LockFile!Goto, LockFile!TypeOK
  <2>2. ASSUME NEW q \in Process, q # p PROVE ~Owns(q) /\ lockPc[q] # "stale"
    BY <2>1, <2>2, OwnerIsAlone
  <2>3. ASSUME NEW q \in Process PROVE ~Owns(q)' /\ lockPc'[q] # "stale"
    BY <1>2, <2>1, <2>2 DEF Moved, Owns
  <2>4. QED
    BY <2>3 DEF OwnersOrderly, JudgementHolds
<1>13. QED
  BY <1>5, <1>6, <1>7, <1>8, <1>9, <1>10, <1>11, <1>12

-----------------------------------------------------------------------------
LEMMA InitLock == LockConstants /\ LockFile!Init => LockInv
BY DEF LockConstants, LockFile!Init, LockInv, LockFile!TypeOK, InstancesDrawn,
   JudgementHolds, Owns, LockFile!Stages

LEMMA StepLock == LockConstants /\ LockInv /\ [LockFile!Next]_(LockFile!vars) => LockInv'
<1> SUFFICES ASSUME LockConstants, LockInv, [LockFile!Next]_(LockFile!vars) PROVE LockInv'
  OBVIOUS
<1>1. LockFile!TypeOK' /\ InstancesDrawn'
  BY LockStepTypes DEF LockInv
<1>2. CASE TwoJudges
  BY <1>1, <1>2, WindowStays DEF LockInv
<1>3. CASE ~TwoJudges
  <2>1. OwnersOrderly
    BY <1>3 DEF LockInv, OwnersOrderly
  <2>2. OwnersOrderly'
    BY <1>3, <2>1, OwnersStayOrderly DEF LockInv
  <2>3. QED
    BY <1>1, <2>2 DEF LockInv, OwnersOrderly
<1>4. QED
  BY <1>2, <1>3

\* acquireProjectLock and release: a process that makes the lock's file, holds the lock
\* or releases it finds its own file in place, whatever the others do and whoever dies,
\* unless a dead process has two others on its host.
THEOREM OwnersAreSafe ==
  ASSUME LockConstants
  PROVE  LockFile!Spec => []LockFile!OwnersKeepTheirLock
<1>1. LockInv => LockFile!OwnersKeepTheirLock
  BY DEF LockInv, LockFile!OwnersKeepTheirLock, TwoJudges, Owns
<1>2. LockFile!Init => LockInv
  BY InitLock
<1>3. LockInv /\ [LockFile!Next]_(LockFile!vars) => LockInv'
  BY StepLock
<1>4. QED
  BY <1>1, <1>2, <1>3, PTL DEF LockFile!Spec

\* "The application policy is one Project writer" (PROJECT_LOCKING.md), where it holds:
\* without that window at most one process has the lock.
THEOREM OneWriter ==
  ASSUME LockConstants
  PROVE  LockFile!Spec => [](LockFile!OneProjectWriter \/ TwoJudges)
<1>1. LockInv => LockFile!OneProjectWriter \/ TwoJudges
  <2> SUFFICES ASSUME LockInv, ~TwoJudges PROVE LockFile!OneProjectWriter
    OBVIOUS
  <2>1. \A p \in LockFile!Holders : lockFile = <<p, count[p]>>
    BY DEF LockInv, Owns, LockFile!Mine, LockFile!Holders
  <2>2. QED
    BY <2>1 DEF LockFile!OneProjectWriter
<1>2. LockFile!Init => LockInv
  BY InitLock
<1>3. LockInv /\ [LockFile!Next]_(LockFile!vars) => LockInv'
  BY StepLock
<1>4. QED
  BY <1>1, <1>2, <1>3, PTL DEF LockFile!Spec

-----------------------------------------------------------------------------
(***************************************************************************)
(* Archives of a Project and the directories made from them                *)
(* (ProjectArchive), for any tasks, archives, pages, faults and crashes:   *)
(* an import is whole or is not, and an export comes back.                 *)
(***************************************************************************)
CONSTANTS Key, Portable, Given, Pages, MaxEntries
VARIABLES source, archive, destination, staging, transferPc, transferMem, answers, exported,
          transfers, transferFaults, transferCrashes

Transfer == INSTANCE ProjectArchive WITH
  pc <- transferPc, mem <- transferMem, commands <- transfers, faults <- transferFaults,
  crashes <- transferCrashes

GivenFiles == UNION {a.files \cup a.metadata.listed : a \in Given}
File ==
  Pages \cup GivenFiles
    \cup Transfer!ProjectFiles("p") \cup Transfer!ProjectFiles("q")
    \cup {<<"secrets/vault.json", "text">>, <<"temp/part", "text">>}
Identity == {"p", "q", "none"} \cup {a.metadata.id : a \in Given}
Archive ==
  [sound : BOOLEAN, files : SUBSET File, metadata : [id : Identity, listed : SUBSET File]]

\* The store writes portable names, of which no two are one to a file system that ignores
\* case.
TransferConstants ==
  /\ NoTask \notin Task /\ MaxEntries \in Nat
  /\ Given \subseteq Archive
  /\ Transfer!Names(Pages \cup Transfer!ProjectFiles("p")) \subseteq Portable
  /\ \A f, g \in Pages \cup Transfer!ProjectFiles("p") : Key[f[1]] = Key[g[1]] => f[1] = g[1]

TransferPlace ==
  {"idle", "collecting", "looking", "writing", "reading", "staging", "filling", "validated",
   "promoting", "syncing", "cleaning"}
TransferOutcome ==
  {"none", "exists", "too large", "exported", "refused", "imported", "unsynced", "failed"}
TransferMemory ==
  [archive : Archive, todo : SUBSET File, had : SUBSET File, outcome : TransferOutcome]

TransferTyped ==
  /\ archive \in Archive
  /\ destination \in [files : SUBSET File, by : Task \cup {NoTask}, listed : SUBSET File]
  /\ staging \in [Task -> SUBSET SUBSET File]
  /\ transferPc \in [Task -> TransferPlace] /\ transferMem \in [Task -> TransferMemory]
  /\ answers \subseteq [task : Task, archive : Archive, outcome : TransferOutcome]
  /\ exported \subseteq [archive : Archive, had : SUBSET File]

\* The Project that exports read: a file of its own for each name.
SourceIsSound ==
  /\ source \subseteq File /\ IsFiniteSet(source) /\ Transfer!ProjectFiles("p") \subseteq source
  /\ \A f, g \in source : f[1] = g[1] => f = g
  /\ \A f \in source : Transfer!exportPathIsAllowed(f[1]) =>
       f \in Pages \cup Transfer!ProjectFiles("p")

\* No two files are one to a file system that ignores case.
NoClash(files) == \A f, g \in files : Key[f[1]] = Key[g[1]] => f = g

\* What an import accepts in the end, and what an export writes.
Acceptable(a) ==
  Transfer!extractAndVerify(a) /\ Transfer!Valid(a.metadata.listed, a.metadata.id)
PagesOf(files) == {f \in files : f[1] \in {"pages/a", "pages/b", "pages/B"}}
Exports(a, had) ==
  /\ PagesOf(had) \subseteq a.files
  /\ \A f \in a.files : f[1] \notin {"secrets/vault.json", "temp/part"}
  /\ Acceptable(a) \/ \E f \in a.files : f[2] = "blanks"

\* What a command has done at each of its places.
Listed(t) == transferMem[t].archive.metadata.listed
Made(t) == destination # Transfer!Nothing /\ destination.by = t
OnItsWay(t) ==
  /\ transferPc[t] = "collecting" => transferMem[t].had \subseteq source
  /\ transferPc[t] \in {"looking", "writing"} =>
       Exports(transferMem[t].archive, transferMem[t].had)
  /\ transferPc[t] \in {"staging", "filling", "validated", "promoting"} => NoClash(Listed(t))
  /\ transferPc[t] = "filling" => (UNION staging[t]) \cup transferMem[t].todo = Listed(t)
  /\ transferPc[t] \in {"validated", "promoting"} =>
       /\ UNION staging[t] = Listed(t)
       /\ Transfer!Valid(Listed(t), transferMem[t].archive.metadata.id)
  /\ transferPc[t] = "syncing" => Made(t)
  /\ transferPc[t] = "cleaning" =>
       /\ transferMem[t].outcome # "imported"
       /\ transferMem[t].outcome = "unsynced" => Made(t)
       /\ transferMem[t].outcome = "refused" => ~Acceptable(transferMem[t].archive)
  /\ staging[t] # {} => transferPc[t] \in {"filling", "validated", "promoting", "cleaning"}

AnswersAreKept ==
  \A r \in answers :
    /\ r.outcome \in {"imported", "unsynced"} => Made(r.task)
    /\ r.outcome = "refused" => ~Acceptable(r.archive)
ExportsAreSound == \A e \in exported : Exports(e.archive, e.had)
DestinationIsWhole ==
  destination # Transfer!Nothing =>
    /\ destination.files = destination.listed
    /\ \E id \in {"p", "q"} : Transfer!Valid(destination.files, id)
    /\ NoClash(destination.files)

TransferInv ==
  /\ TransferTyped /\ SourceIsSound /\ (\A t \in Task : OnItsWay(t))
  /\ AnswersAreKept /\ ExportsAreSound /\ DestinationIsWhole

-----------------------------------------------------------------------------
(***************************************************************************)
(* What an export writes.                                                  *)
(***************************************************************************)
LEMMA SameCardinality == ASSUME NEW S PROVE Transfer!Cardinality(S) = Cardinality(S)
BY DEF Transfer!Cardinality, Cardinality

\* One name for each file: as many names as files.
LEMMA NamesCount ==
  ASSUME NEW files, IsFiniteSet(files), \A f, g \in files : f[1] = g[1] => f = g
  PROVE  Cardinality(Transfer!Names(files)) = Cardinality(files)
<1> DEFINE names == Transfer!Names(files)
           of == [f \in files |-> f[1]]
<1>1. names = {f[1] : f \in files} BY DEF Transfer!Names
<1>2. of \in Bijection(files, names)
  BY <1>1 DEF Bijection, Injection, Surjection, IsInjective
<1>3. QED BY <1>2, FS_Bijection DEF ExistsBijection

\* An export that has room, of files an import accepts, is acceptable.
LEMMA ExportIsSound ==
  ASSUME TransferConstants, SourceIsSound, Transfer!Exportable(source), NEW had \in SUBSET source
  PROVE  /\ Transfer!createProjectArchive(source, "p") \in Archive
         /\ Exports(Transfer!createProjectArchive(source, "p"), had)
<1> DEFINE collected == Transfer!Collected(source)
           db == <<Transfer!Database, "p">>
           all == collected \cup {db}
           a == Transfer!createProjectArchive(source, "p")
<1>1. /\ a.sound /\ a.files = all /\ a.metadata.id = "p" /\ a.metadata.listed = all
      /\ a.metadata = [id |-> "p", listed |-> all]
      /\ a = [sound |-> TRUE, files |-> all, metadata |-> [id |-> "p", listed |-> all]]
  BY DEF Transfer!createProjectArchive
<1>2. collected = {f \in source : Transfer!exportPathIsAllowed(f[1]) /\ f[1] # Transfer!Database}
  BY DEF Transfer!Collected
<1>3. /\ Transfer!Manifest = "project.json" /\ Transfer!Database = "database/crawl.db"
      /\ Transfer!exportPathIsAllowed("project.json")
      /\ Transfer!exportPathIsAllowed("database/crawl.db")
  BY DEF Transfer!Manifest, Transfer!Database, Transfer!exportPathIsAllowed
<1>4. <<"project.json", "p">> \in source /\ db \in source
      /\ db = <<"database/crawl.db", "p">> /\ db[1] = "database/crawl.db" /\ db[2] = "p"
  BY <1>3 DEF SourceIsSound, Transfer!ProjectFiles
<1> HIDE DEF a, collected, db
<1>5. all \subseteq source /\ <<"project.json", "p">> \in all BY <1>2, <1>3, <1>4
<1>6. \A f, g \in all : f[1] = g[1] => f = g BY <1>5 DEF SourceIsSound
<1>7. \A f \in all : Transfer!exportPathIsAllowed(f[1]) BY <1>2, <1>3, <1>4
<1>8. \A f \in all : f \in Pages \cup Transfer!ProjectFiles("p") BY <1>5, <1>7 DEF SourceIsSound
<1>9. IsFiniteSet(all) /\ IsFiniteSet(collected)
  BY <1>2, <1>5, FS_Subset DEF SourceIsSound
<1>10. a \in Archive
  <2>1. all \in SUBSET File BY <1>5 DEF SourceIsSound
  <2>2. HIDE DEF all
  <2>3. "p" \in Identity BY DEF Identity
  <2>4. [id |-> "p", listed |-> all] \in [id : Identity, listed : SUBSET File] BY <2>1, <2>3
  <2>5. [sound |-> TRUE, files |-> all, metadata |-> [id |-> "p", listed |-> all]] \in Archive
    BY <2>1, <2>4 DEF Archive
  <2>6. QED BY <1>1, <2>5
<1>11. PagesOf(had) \subseteq all
  <2>1. SUFFICES ASSUME NEW f \in had, f[1] \in {"pages/a", "pages/b", "pages/B"} PROVE f \in collected
    BY DEF PagesOf
  <2>2. QED BY <1>2, <1>3, <2>1 DEF Transfer!exportPathIsAllowed
<1>12. \A f \in all : f[1] \notin {"secrets/vault.json", "temp/part"}
  BY <1>7, <1>3 DEF Transfer!exportPathIsAllowed
<1>13. ASSUME \A f \in all : f[2] # "blanks" PROVE Acceptable(a)
  <2>1. Transfer!Cardinality(all) < MaxEntries
    <3>1. db \notin collected BY <1>2, <1>3, <1>4
    <3>2. Cardinality(all) = Cardinality(collected) + 1 /\ Cardinality(collected) \in Nat
      BY <1>9, <3>1, FS_AddElement, FS_CardinalityType
    <3>3. Cardinality(collected) + 2 <= MaxEntries
      BY SameCardinality DEF Transfer!Exportable, collected
    <3>4. Cardinality(all) < MaxEntries BY <3>2, <3>3 DEF TransferConstants
    <3>5. QED BY <3>4, SameCardinality
  <2>2. \A f \in all : f[1] \in Portable /\ f[2] \notin {"huge", "blanks"}
    <3>1. \A f \in collected : f[2] # "huge" BY DEF Transfer!Exportable, collected
    <3>2. \A f \in all : f[1] \in Portable BY <1>8 DEF TransferConstants, Transfer!Names
    <3>3. QED BY <1>4, <1>13, <3>1, <3>2
  <2>3. NoClash(all) BY <1>6, <1>8 DEF NoClash, TransferConstants
  <2>4. Transfer!inspectZipArchive(a)
    BY <1>1, <2>1, <2>2, <2>3 DEF Transfer!inspectZipArchive, NoClash
  <2>5. a.metadata # Transfer!NoMetadata BY <1>1 DEF Transfer!NoMetadata
  <2>6. Transfer!Cardinality(Transfer!Names(all)) = Transfer!Cardinality(all)
    BY <1>6, <1>9, NamesCount, SameCardinality
  <2>7. {Transfer!Manifest, Transfer!Database} \subseteq Transfer!Names(all)
    <3>1. Transfer!Names(all) = {f[1] : f \in all} BY DEF Transfer!Names
    <3>2. <<"project.json", "p">>[1] = "project.json" OBVIOUS
    <3>3. QED BY <1>3, <1>4, <1>5, <3>1, <3>2
  <2>8. Transfer!extractAndVerify(a)
    BY <1>1, <1>7, <2>2, <2>4, <2>5, <2>6, <2>7 DEF Transfer!extractAndVerify
  <2>9. Transfer!ContentOf(all, Transfer!Manifest) = {"p"}
        /\ Transfer!ContentOf(all, Transfer!Database) = {"p"}
    <3>1. <<"project.json", "p">>[1] = "project.json" /\ <<"project.json", "p">>[2] = "p" OBVIOUS
    <3>2. QED BY <1>3, <1>4, <1>5, <1>6, <3>1 DEF Transfer!ContentOf
  <2>10. Transfer!Valid(all, "p") BY <2>9 DEF Transfer!Valid
  <2>11. QED BY <1>1, <2>8, <2>10 DEF Acceptable
<1>14. QED BY <1>1, <1>10, <1>11, <1>12, <1>13 DEF Exports, a

\* What a creation stages.
LEMMA CreationIsSound ==
  ASSUME TransferConstants
  PROVE  /\ Transfer!createProjectArchive(Transfer!ProjectFiles("q"), "q") \in Archive
         /\ NoClash(Transfer!createProjectArchive(Transfer!ProjectFiles("q"), "q").metadata.listed)
<1> DEFINE a == Transfer!createProjectArchive(Transfer!ProjectFiles("q"), "q")
           all == Transfer!Collected(Transfer!ProjectFiles("q")) \cup {<<Transfer!Database, "q">>}
<1>1. a = [sound |-> TRUE, files |-> all, metadata |-> [id |-> "q", listed |-> all]]
  BY DEF Transfer!createProjectArchive
<1>2. all \subseteq Transfer!ProjectFiles("q")
  BY DEF Transfer!Collected, Transfer!ProjectFiles
<1> HIDE DEF a, all
<1>3. a \in Archive
  <2>1. all \in SUBSET File
    <3>1. Transfer!ProjectFiles("q") \subseteq File BY DEF File
    <3>2. QED BY <1>2, <3>1
  <2>2. "q" \in Identity BY DEF Identity
  <2>3. [id |-> "q", listed |-> all] \in [id : Identity, listed : SUBSET File] BY <2>1, <2>2
  <2>4. QED BY <1>1, <2>1, <2>3 DEF Archive
<1>4. NoClash(all)
  <2>1. <<Transfer!Manifest, "p">> \in Transfer!ProjectFiles("p")
        /\ <<Transfer!Database, "p">> \in Transfer!ProjectFiles("p")
        /\ <<Transfer!Manifest, "p">>[1] = Transfer!Manifest
        /\ <<Transfer!Database, "p">>[1] = Transfer!Database
    BY DEF Transfer!ProjectFiles
  <2>2. Key[Transfer!Manifest] # Key[Transfer!Database]
    BY <2>1 DEF TransferConstants, Transfer!Manifest, Transfer!Database
  <2>3. \A f \in all : \/ f = <<Transfer!Manifest, "q">> /\ f[1] = Transfer!Manifest
                       \/ f = <<Transfer!Database, "q">> /\ f[1] = Transfer!Database
    BY <1>2 DEF Transfer!ProjectFiles
  <2>4. QED BY <2>2, <2>3 DEF NoClash
<1>5. QED BY <1>1, <1>3, <1>4 DEF a

\* The listed files of an archive that was read are files of it, of which no two clash.
LEMMA VerifiedIsSound ==
  ASSUME NEW a \in Archive, Transfer!extractAndVerify(a) PROVE NoClash(a.metadata.listed)
BY DEF Transfer!extractAndVerify, Transfer!inspectZipArchive, NoClash

LEMMA NoArchiveIsRefused ==
  /\ Transfer!NoArchive \in Archive /\ ~Acceptable(Transfer!NoArchive)
  /\ Transfer!Blank \in TransferMemory
<1>1. ~Transfer!extractAndVerify(Transfer!NoArchive)
  BY DEF Transfer!extractAndVerify, Transfer!inspectZipArchive, Transfer!NoArchive
<1>2. Transfer!NoArchive \in Archive
  <2>1. Transfer!NoMetadata \in [id : Identity, listed : SUBSET File]
    BY DEF Transfer!NoMetadata, Identity
  <2>2. QED BY <2>1 DEF Transfer!NoArchive, Archive
<1>3. Transfer!Blank \in TransferMemory
  BY <1>2 DEF Transfer!Blank, TransferMemory, TransferOutcome
<1>4. QED BY <1>1, <1>2, <1>3 DEF Acceptable

-----------------------------------------------------------------------------
(***************************************************************************)
(* One step of one command.                                                *)
(***************************************************************************)
OthersRest(t) ==
  \A u \in Task \ {t} :
    transferPc'[u] = transferPc[u] /\ transferMem'[u] = transferMem[u] /\ staging'[u] = staging[u]

LEMMA OthersStay ==
  ASSUME NEW t \in Task, NEW u \in Task \ {t}, OthersRest(t), OnItsWay(u), source \subseteq source',
         Made(u) => Made(u)'
  PROVE  OnItsWay(u)'
BY DEF OthersRest, OnItsWay, Listed

\* Whoever made a directory still has, while the directory is as it was.
LEMMA MadeStays ==
  ASSUME UNCHANGED destination, NEW u PROVE Made(u)' <=> Made(u)
BY DEF Made

\* A command that neither touches the directory nor the archive, and answers at most what is
\* true of it.
LEMMA CommandKeeps ==
  ASSUME TransferInv, NEW t \in Task, TransferTyped', OthersRest(t), OnItsWay(t)',
         UNCHANGED <<source, destination, exported>>,
         \A r \in answers' \ answers :
           /\ r.outcome \in {"imported", "unsynced"} => Made(r.task)
           /\ r.outcome = "refused" => ~Acceptable(r.archive)
  PROVE  TransferInv'
<1>1. \A u \in Task : OnItsWay(u)'
  BY OthersStay, MadeStays DEF TransferInv
<1>2. AnswersAreKept' BY MadeStays DEF TransferInv, AnswersAreKept
<1>3. SourceIsSound' /\ ExportsAreSound' /\ DestinationIsWhole'
  BY DEF TransferInv, SourceIsSound, ExportsAreSound, DestinationIsWhole
<1>4. QED BY <1>1, <1>2, <1>3 DEF TransferInv

\* What Goto, Remember and Answer write.
LEMMA Going ==
  ASSUME TransferTyped, NEW t \in Task, NEW s \in TransferPlace, Transfer!Goto(t, s)
  PROVE  /\ transferPc' \in [Task -> TransferPlace] /\ transferPc'[t] = s
         /\ \A u \in Task \ {t} : transferPc'[u] = transferPc[u]
BY DEF Transfer!Goto, TransferTyped

LEMMA Remembering ==
  ASSUME TransferTyped, NEW t \in Task, NEW m \in TransferMemory, Transfer!Remember(t, m)
  PROVE  /\ transferMem' \in [Task -> TransferMemory] /\ transferMem'[t] = m
         /\ \A u \in Task \ {t} : transferMem'[u] = transferMem[u]
BY DEF Transfer!Remember, TransferTyped

\* A step inside a command: where it goes, what it remembers and what it stages.
LEMMA WorkKeeps ==
  ASSUME TransferInv, NEW t \in Task, NEW s \in TransferPlace, NEW m \in TransferMemory,
         Transfer!Goto(t, s), Transfer!Remember(t, m),
         staging' \in [Task -> SUBSET SUBSET File], \A u \in Task \ {t} : staging'[u] = staging[u],
         UNCHANGED <<source, archive, destination, answers, exported>>,
         transferPc'[t] = s /\ transferMem'[t] = m => OnItsWay(t)'
  PROVE  TransferInv'
<1>1. TransferTyped BY DEF TransferInv
<1>2. /\ transferPc' \in [Task -> TransferPlace] /\ transferPc'[t] = s
      /\ \A u \in Task \ {t} : transferPc'[u] = transferPc[u]
  BY <1>1, Going
<1>3. /\ transferMem' \in [Task -> TransferMemory] /\ transferMem'[t] = m
      /\ \A u \in Task \ {t} : transferMem'[u] = transferMem[u]
  BY <1>1, Remembering
<1>4. TransferTyped' BY <1>1, <1>2, <1>3 DEF TransferTyped
<1>5. OthersRest(t) BY <1>2, <1>3 DEF OthersRest
<1>6. QED BY <1>2, <1>3, <1>4, <1>5, CommandKeeps

\* The end of a command that leaves no staging directory.
LEMMA AnswerGoes ==
  ASSUME TransferInv, NEW t \in Task, NEW o \in TransferOutcome, Transfer!Answer(t, o),
         staging' \in [Task -> SUBSET SUBSET File], \A u \in Task \ {t} : staging'[u] = staging[u],
         staging'[t] = {}, UNCHANGED destination
  PROVE  /\ transferPc' \in [Task -> TransferPlace] /\ transferMem' \in [Task -> TransferMemory]
         /\ answers' \subseteq [task : Task, archive : Archive, outcome : TransferOutcome]
         /\ OthersRest(t) /\ OnItsWay(t)'
<1>1. TransferTyped BY DEF TransferInv
<1>2. /\ transferPc' \in [Task -> TransferPlace] /\ transferPc'[t] = "idle"
      /\ \A u \in Task \ {t} : transferPc'[u] = transferPc[u]
  BY <1>1, Going DEF Transfer!Answer, TransferPlace
<1>3. /\ transferMem' \in [Task -> TransferMemory] /\ transferMem'[t] = Transfer!Blank
      /\ \A u \in Task \ {t} : transferMem'[u] = transferMem[u]
  BY <1>1, NoArchiveIsRefused, Remembering DEF Transfer!Answer
<1>4. answers' \subseteq [task : Task, archive : Archive, outcome : TransferOutcome]
  <2>1. transferMem[t].archive \in Archive BY <1>1 DEF TransferTyped, TransferMemory
  <2>2. QED BY <1>1, <2>1 DEF Transfer!Answer, TransferTyped
<1>5. QED BY <1>2, <1>3, <1>4 DEF OthersRest, OnItsWay

LEMMA AnswerKeeps ==
  ASSUME TransferInv, NEW t \in Task, NEW o \in TransferOutcome, Transfer!Answer(t, o),
         staging' \in [Task -> SUBSET SUBSET File], \A u \in Task \ {t} : staging'[u] = staging[u],
         staging'[t] = {}, UNCHANGED <<source, archive, destination, exported>>,
         o \in {"imported", "unsynced"} => Made(t),
         o = "refused" => ~Acceptable(transferMem[t].archive)
  PROVE  TransferInv'
<1>1. TransferTyped' BY AnswerGoes DEF TransferInv, TransferTyped
<1>2. \A r \in answers' \ answers :
        r = [task |-> t, archive |-> transferMem[t].archive, outcome |-> o]
  BY DEF Transfer!Answer
<1>3. \A r \in answers' \ answers :
        /\ r.outcome \in {"imported", "unsynced"} => Made(r.task)
        /\ r.outcome = "refused" => ~Acceptable(r.archive)
  BY <1>2
<1>4. QED BY <1>1, <1>3, AnswerGoes, CommandKeeps

\* The catch block.
LEMMA GiveUpKeeps ==
  ASSUME TransferInv, NEW t \in Task, NEW o \in {"exists", "refused", "failed", "unsynced"},
         Transfer!GiveUp(t, o),
         UNCHANGED <<source, archive, destination, staging, answers, exported>>,
         o = "unsynced" => Made(t), o = "refused" => ~Acceptable(transferMem[t].archive)
  PROVE  TransferInv'
<1> DEFINE m == [transferMem[t] EXCEPT !.outcome = o]
<1>1. /\ m \in TransferMemory /\ m.outcome = o /\ m.archive = transferMem[t].archive
  <2>1. transferMem[t] \in TransferMemory /\ o \in TransferOutcome
    BY DEF TransferInv, TransferTyped, TransferOutcome
  <2>2. QED BY <2>1 DEF TransferMemory
<1>2. "cleaning" \in TransferPlace BY DEF TransferPlace
<1>3. Transfer!Goto(t, "cleaning") /\ Transfer!Remember(t, m) BY DEF Transfer!GiveUp
<1> HIDE DEF m
<1>4. transferPc'[t] = "cleaning" /\ transferMem'[t] = m => OnItsWay(t)'
  BY <1>1, MadeStays DEF OnItsWay
<1>5. QED BY <1>1, <1>2, <1>3, <1>4, WorkKeeps DEF TransferInv, TransferTyped

-----------------------------------------------------------------------------
(***************************************************************************)
(* The steps of an export.                                                 *)
(***************************************************************************)
LEMMA PagesGrow ==
  ASSUME TransferConstants, TransferInv, Transfer!WritePage PROVE TransferInv'
<1>1. PICK f \in Pages : f[1] \notin Transfer!Names(source) /\ source' = source \cup {f}
  BY DEF Transfer!WritePage
<1>2. /\ f \in File /\ \A g \in source : g[1] # f[1]
  BY <1>1 DEF File, Transfer!Names
<1>3. SourceIsSound'
  <2>1. IsFiniteSet(source') BY <1>1, FS_AddElement DEF TransferInv, SourceIsSound
  <2>2. QED BY <1>1, <1>2, <2>1 DEF TransferInv, SourceIsSound
<1>4. \A t \in Task : OnItsWay(t)'
  <2>1. SUFFICES ASSUME NEW t \in Task PROVE OnItsWay(t)' OBVIOUS
  <2>2. OnItsWay(t) /\ source \subseteq source' BY <1>1 DEF TransferInv
  <2>3. QED BY <2>2, MadeStays DEF Transfer!WritePage, OnItsWay, Listed
<1>5. QED
  BY <1>3, <1>4, MadeStays DEF Transfer!WritePage, TransferInv, TransferTyped, AnswersAreKept,
     ExportsAreSound, DestinationIsWhole

LEMMA StagingIsEmpty ==
  ASSUME TransferInv, NEW t \in Task,
         transferPc[t] \notin {"filling", "validated", "promoting", "cleaning"}
  PROVE  staging[t] = {} /\ staging \in [Task -> SUBSET SUBSET File]
BY DEF TransferInv, OnItsWay, TransferTyped

LEMMA ExportKeeps ==
  ASSUME TransferConstants, TransferInv, NEW t \in Task,
         Transfer!Export(t) \/ Transfer!Collect(t) \/ Transfer!LookForArchive(t)
  PROVE  TransferInv'
<1>1. staging[t] = {} /\ staging \in [Task -> SUBSET SUBSET File]
  BY StagingIsEmpty DEF Transfer!Export, Transfer!Starts, Transfer!Collect, Transfer!LookForArchive
<1>2. UNCHANGED <<source, archive, destination, staging, exported>>
  BY DEF Transfer!Export, Transfer!Collect, Transfer!LookForArchive
<1>3. ASSUME NEW o \in {"exists", "too large"}, Transfer!Answer(t, o) PROVE TransferInv'
  BY <1>1, <1>2, <1>3, AnswerKeeps DEF TransferOutcome
<1>4. CASE Transfer!Export(t) /\ archive = Transfer!NoArchive
  <2> DEFINE m == [Transfer!Blank EXCEPT !.had = source]
  <2>1. m \in TransferMemory /\ m.had = source
    <3>1. source \in SUBSET File BY DEF TransferInv, SourceIsSound
    <3>2. QED BY <3>1, NoArchiveIsRefused DEF Transfer!Blank, TransferMemory
  <2>2. /\ Transfer!Goto(t, "collecting") /\ Transfer!Remember(t, m) /\ UNCHANGED answers
    BY <1>4 DEF Transfer!Export
  <2> HIDE DEF m
  <2>3. transferPc'[t] = "collecting" /\ transferMem'[t] = m => OnItsWay(t)'
    BY <1>1, <1>2, <2>1 DEF OnItsWay
  <2>4. QED BY <1>1, <1>2, <2>1, <2>2, <2>3, WorkKeeps DEF TransferPlace
<1>5. CASE Transfer!Collect(t) /\ Transfer!Exportable(source)
  <2> DEFINE a == Transfer!createProjectArchive(source, "p")
             m == [transferMem[t] EXCEPT !.archive = a]
  <2>1. transferMem[t] \in TransferMemory /\ transferMem[t].had \in SUBSET source
    BY <1>5 DEF Transfer!Collect, TransferInv, TransferTyped, OnItsWay
  <2>2. a \in Archive /\ Exports(a, transferMem[t].had)
    BY <1>5, <2>1, ExportIsSound DEF TransferInv
  <2>3. /\ Transfer!Goto(t, "looking") /\ Transfer!Remember(t, m) /\ UNCHANGED answers
    BY <1>5 DEF Transfer!Collect
  <2> HIDE DEF a
  <2>4. m \in TransferMemory /\ m.archive = a /\ m.had = transferMem[t].had
    BY <2>1, <2>2 DEF TransferMemory
  <2> HIDE DEF m
  <2>5. transferPc'[t] = "looking" /\ transferMem'[t] = m => OnItsWay(t)'
    BY <1>1, <1>2, <2>2, <2>4 DEF OnItsWay
  <2>6. QED BY <1>1, <1>2, <2>3, <2>4, <2>5, WorkKeeps DEF TransferPlace
<1>6. CASE Transfer!LookForArchive(t) /\ archive = Transfer!NoArchive
  <2>1. /\ Transfer!Goto(t, "writing") /\ transferMem' = transferMem /\ UNCHANGED answers
        /\ transferPc[t] = "looking"
    BY <1>6 DEF Transfer!LookForArchive
  <2>2. transferMem[t] \in TransferMemory /\ Transfer!Remember(t, transferMem[t])
    BY <2>1 DEF TransferInv, TransferTyped, Transfer!Remember
  <2>3. transferPc'[t] = "writing" /\ transferMem'[t] = transferMem[t] => OnItsWay(t)'
    BY <1>1, <1>2, <2>1 DEF TransferInv, OnItsWay
  <2>4. QED BY <1>1, <1>2, <2>1, <2>2, <2>3, WorkKeeps DEF TransferPlace
<1>7. QED
  BY <1>3, <1>4, <1>5, <1>6 DEF Transfer!Export, Transfer!Collect, Transfer!LookForArchive

LEMMA WriteKeeps ==
  ASSUME TransferInv, NEW t \in Task, Transfer!WriteArchive(t) PROVE TransferInv'
<1>1. staging[t] = {} /\ staging \in [Task -> SUBSET SUBSET File]
  BY StagingIsEmpty DEF Transfer!WriteArchive
<1>2. /\ transferPc[t] = "writing" /\ Transfer!Answer(t, "exported")
      /\ archive' = transferMem[t].archive
      /\ exported' = exported \cup
           {[archive |-> transferMem[t].archive, had |-> transferMem[t].had]}
      /\ UNCHANGED <<source, destination, staging>>
  BY DEF Transfer!WriteArchive
<1>3. /\ transferPc' \in [Task -> TransferPlace] /\ transferMem' \in [Task -> TransferMemory]
      /\ answers' \subseteq [task : Task, archive : Archive, outcome : TransferOutcome]
      /\ OthersRest(t) /\ OnItsWay(t)'
  BY <1>1, <1>2, AnswerGoes DEF TransferOutcome
<1>4. transferMem[t] \in TransferMemory BY DEF TransferInv, TransferTyped
<1>5. TransferTyped' /\ ExportsAreSound'
  <2>1. Exports(transferMem[t].archive, transferMem[t].had)
    BY <1>2 DEF TransferInv, OnItsWay
  <2>2. transferMem[t].archive \in Archive /\ transferMem[t].had \in SUBSET File
    BY <1>4 DEF TransferMemory
  <2>3. TransferTyped' BY <1>2, <1>3, <2>2 DEF TransferInv, TransferTyped
  <2>4. QED BY <1>2, <2>1, <2>3 DEF TransferInv, ExportsAreSound
<1>6. AnswersAreKept'
  <2>1. \A r \in answers' \ answers : r.outcome = "exported" BY <1>2 DEF Transfer!Answer
  <2>2. QED BY <1>2, <2>1, MadeStays DEF TransferInv, AnswersAreKept
<1>7. \A u \in Task : OnItsWay(u)' BY <1>2, <1>3, OthersStay, MadeStays DEF TransferInv
<1>8. QED
  BY <1>2, <1>5, <1>6, <1>7 DEF TransferInv, SourceIsSound, DestinationIsWhole

-----------------------------------------------------------------------------
(***************************************************************************)
(* The steps of a creation or an import.                                   *)
(***************************************************************************)
LEMMA BeginKeeps ==
  ASSUME TransferConstants, TransferInv, NEW t \in Task, Transfer!Begin(t) PROVE TransferInv'
<1>1. staging[t] = {} /\ staging \in [Task -> SUBSET SUBSET File]
  BY StagingIsEmpty DEF Transfer!Begin, Transfer!Starts
<1>2. UNCHANGED <<source, archive, destination, staging, exported>> BY DEF Transfer!Begin
<1>3. CASE Transfer!Answer(t, "exists")
  BY <1>1, <1>2, <1>3, AnswerKeeps DEF TransferOutcome
<1>4. CASE Transfer!Goto(t, "reading") /\ UNCHANGED <<transferMem, answers>>
  <2>1. transferMem[t] \in TransferMemory /\ Transfer!Remember(t, transferMem[t])
    BY <1>4 DEF TransferInv, TransferTyped, Transfer!Remember
  <2>2. transferPc'[t] = "reading" => OnItsWay(t)' BY <1>1, <1>2 DEF OnItsWay
  <2>3. QED BY <1>1, <1>2, <1>4, <2>1, <2>2, WorkKeeps DEF TransferPlace
<1>5. ASSUME NEW a, a = Transfer!createProjectArchive(Transfer!ProjectFiles("q"), "q"),
             Transfer!Goto(t, "staging"), UNCHANGED answers,
             Transfer!Remember(t, [Transfer!Blank EXCEPT !.archive = a])
      PROVE  TransferInv'
  <2> DEFINE m == [Transfer!Blank EXCEPT !.archive = a]
  <2>1. a \in Archive /\ NoClash(a.metadata.listed) BY <1>5, CreationIsSound
  <2>2. m \in TransferMemory /\ m.archive = a
    BY <2>1, NoArchiveIsRefused DEF TransferMemory
  <2> HIDE DEF m
  <2>3. transferPc'[t] = "staging" /\ transferMem'[t] = m => OnItsWay(t)'
    BY <1>1, <1>2, <2>1, <2>2 DEF OnItsWay, Listed
  <2>4. QED BY <1>1, <1>2, <1>5, <2>2, <2>3, WorkKeeps DEF TransferPlace, m
<1>6. QED BY <1>3, <1>4, <1>5 DEF Transfer!Begin

LEMMA ReadKeeps ==
  ASSUME TransferConstants, TransferInv, NEW t \in Task, Transfer!ReadArchive(t)
  PROVE  TransferInv'
<1>1. staging[t] = {} /\ staging \in [Task -> SUBSET SUBSET File]
  BY StagingIsEmpty DEF Transfer!ReadArchive
<1>2. UNCHANGED <<source, archive, destination, staging, answers, exported>>
  BY DEF Transfer!ReadArchive
<1>3. PICK a \in Given \cup {archive} :
        IF Transfer!extractAndVerify(a)
        THEN Transfer!Goto(t, "staging")
             /\ Transfer!Remember(t, [transferMem[t] EXCEPT !.archive = a])
        ELSE /\ Transfer!Goto(t, "cleaning")
             /\ Transfer!Remember(t, [Transfer!Blank EXCEPT
                  !.archive = IF a \in Given THEN Transfer!NoArchive ELSE a,
                  !.outcome = "refused"])
  BY DEF Transfer!ReadArchive
<1>4. a \in Archive BY DEF TransferInv, TransferTyped, TransferConstants
<1>5. CASE Transfer!extractAndVerify(a)
  <2> DEFINE m == [transferMem[t] EXCEPT !.archive = a]
  <2>1. m \in TransferMemory /\ m.archive = a
    BY <1>4 DEF TransferInv, TransferTyped, TransferMemory
  <2>2. NoClash(a.metadata.listed) BY <1>4, <1>5, VerifiedIsSound
  <2>3. Transfer!Goto(t, "staging") /\ Transfer!Remember(t, m) BY <1>3, <1>5
  <2> HIDE DEF m
  <2>4. transferPc'[t] = "staging" /\ transferMem'[t] = m => OnItsWay(t)'
    BY <1>1, <1>2, <2>1, <2>2 DEF OnItsWay, Listed
  <2>5. QED BY <1>1, <1>2, <2>1, <2>3, <2>4, WorkKeeps DEF TransferPlace
<1>6. CASE ~Transfer!extractAndVerify(a)
  <2> DEFINE b == IF a \in Given THEN Transfer!NoArchive ELSE a
             m == [Transfer!Blank EXCEPT !.archive = b, !.outcome = "refused"]
  <2>1. b \in Archive /\ ~Acceptable(b)
    BY <1>4, <1>6, NoArchiveIsRefused DEF Acceptable
  <2>2. Transfer!Goto(t, "cleaning") /\ Transfer!Remember(t, m) BY <1>3, <1>6
  <2> HIDE DEF b
  <2>3. m \in TransferMemory /\ m.archive = b /\ m.outcome = "refused"
    BY <2>1, NoArchiveIsRefused DEF TransferMemory, TransferOutcome
  <2> HIDE DEF m
  <2>4. transferPc'[t] = "cleaning" /\ transferMem'[t] = m => OnItsWay(t)'
    BY <1>1, <1>2, <2>1, <2>3 DEF OnItsWay
  <2>5. QED BY <1>1, <1>2, <2>2, <2>3, <2>4, WorkKeeps DEF TransferPlace
<1>7. QED BY <1>5, <1>6

LEMMA StagingKeeps ==
  ASSUME TransferInv, NEW t \in Task, Transfer!MakeStaging(t) PROVE TransferInv'
<1> DEFINE m == [transferMem[t] EXCEPT !.todo = transferMem[t].archive.metadata.listed]
<1>1. /\ transferPc[t] = "staging" /\ Transfer!Goto(t, "filling") /\ Transfer!Remember(t, m)
      /\ staging' = [staging EXCEPT ![t] = {{}}]
      /\ UNCHANGED <<source, archive, destination, answers, exported>>
  BY DEF Transfer!MakeStaging
<1>2. /\ staging' \in [Task -> SUBSET SUBSET File] /\ staging'[t] = {{}}
      /\ \A u \in Task \ {t} : staging'[u] = staging[u]
  BY <1>1 DEF TransferInv, TransferTyped
<1>3. /\ m \in TransferMemory /\ m.archive = transferMem[t].archive
      /\ m.todo = Listed(t)
  <2>1. transferMem[t] \in TransferMemory BY DEF TransferInv, TransferTyped
  <2>2. Listed(t) \in SUBSET File BY <2>1 DEF TransferMemory, Archive, Listed
  <2>3. QED BY <2>1, <2>2 DEF TransferMemory, Listed
<1> HIDE DEF m
<1>4. transferPc'[t] = "filling" /\ transferMem'[t] = m => OnItsWay(t)'
  <2> SUFFICES ASSUME transferPc'[t] = "filling", transferMem'[t] = m PROVE OnItsWay(t)'
    OBVIOUS
  <2>1. NoClash(Listed(t)) BY <1>1 DEF TransferInv, OnItsWay
  <2>2. Listed(t)' = Listed(t) BY <1>3 DEF Listed
  <2>3. (UNION staging'[t]) \cup transferMem'[t].todo = Listed(t)' BY <1>2, <1>3, <2>2
  <2>4. QED BY <2>1, <2>2, <2>3 DEF OnItsWay
<1>5. QED BY <1>1, <1>2, <1>3, <1>4, WorkKeeps DEF TransferPlace

LEMMA FilesKeep ==
  ASSUME TransferInv, NEW t \in Task, Transfer!WriteFile(t) PROVE TransferInv'
<1>1. PICK f \in transferMem[t].todo :
        /\ staging' = [staging EXCEPT ![t] = {(UNION staging[t]) \cup {f}}]
        /\ Transfer!Remember(t, [transferMem[t] EXCEPT !.todo = transferMem[t].todo \ {f}])
  BY DEF Transfer!WriteFile, TransferInv, TransferTyped
<1> DEFINE m == [transferMem[t] EXCEPT !.todo = transferMem[t].todo \ {f}]
<1>2. /\ transferPc[t] = "filling" /\ transferPc' = transferPc
      /\ UNCHANGED <<source, archive, destination, answers, exported>>
  BY DEF Transfer!WriteFile
<1>3. transferMem[t] \in TransferMemory /\ staging[t] \in SUBSET SUBSET File
  BY DEF TransferInv, TransferTyped
<1>4. /\ staging' \in [Task -> SUBSET SUBSET File]
      /\ staging'[t] = {(UNION staging[t]) \cup {f}}
      /\ \A u \in Task \ {t} : staging'[u] = staging[u]
  <2>1. f \in File BY <1>3 DEF TransferMemory
  <2>2. (UNION staging[t]) \cup {f} \in SUBSET File BY <1>3, <2>1
  <2>3. QED BY <1>1, <2>2 DEF TransferInv, TransferTyped
<1>5. /\ m \in TransferMemory /\ m.archive = transferMem[t].archive
      /\ m.todo = transferMem[t].todo \ {f}
  BY <1>3 DEF TransferMemory
<1>6. Transfer!Remember(t, m) BY <1>1
<1>7. Transfer!Goto(t, "filling")
  BY <1>2 DEF Transfer!Goto, TransferInv, TransferTyped
<1> HIDE DEF m
<1>8. transferPc'[t] = "filling" /\ transferMem'[t] = m => OnItsWay(t)'
  <2> SUFFICES ASSUME transferPc'[t] = "filling", transferMem'[t] = m PROVE OnItsWay(t)'
    OBVIOUS
  <2>1. /\ NoClash(Listed(t)) /\ (UNION staging[t]) \cup transferMem[t].todo = Listed(t)
    BY <1>2 DEF TransferInv, OnItsWay
  <2>2. Listed(t)' = Listed(t) BY <1>5 DEF Listed
  <2>3. UNION staging'[t] = (UNION staging[t]) \cup {f} BY <1>4
  <2>4. (UNION staging'[t]) \cup transferMem'[t].todo = Listed(t)'
    BY <1>5, <2>1, <2>2, <2>3
  <2>5. QED BY <2>1, <2>2, <2>4 DEF OnItsWay
<1>9. QED BY <1>2, <1>4, <1>5, <1>6, <1>7, <1>8, WorkKeeps DEF TransferPlace

\* Steps that look and go on, or give up.
LEMMA LooksKeep ==
  ASSUME TransferInv, NEW t \in Task, Transfer!Validate(t) \/ Transfer!LookForDestination(t)
  PROVE  TransferInv'
<1>1. UNCHANGED <<source, archive, destination, staging, answers, exported>>
  BY DEF Transfer!Validate, Transfer!LookForDestination
<1>2. transferMem[t] \in TransferMemory /\ staging \in [Task -> SUBSET SUBSET File]
  BY DEF TransferInv, TransferTyped
<1>3. CASE Transfer!GiveUp(t, "exists") BY <1>1, <1>3, GiveUpKeeps
<1>4. CASE Transfer!Validate(t) /\ Transfer!GiveUp(t, "refused")
           /\ ~Transfer!Valid(UNION staging[t], transferMem[t].archive.metadata.id)
  <2>1. UNION staging[t] = transferMem[t].archive.metadata.listed
    BY <1>4 DEF Transfer!Validate, TransferInv, OnItsWay, Listed
  <2>2. ~Acceptable(transferMem[t].archive) BY <1>4, <2>1 DEF Acceptable
  <2>3. QED BY <1>1, <1>4, <2>2, GiveUpKeeps
<1>5. ASSUME NEW s \in {"validated", "promoting"}, Transfer!Goto(t, s), UNCHANGED transferMem,
             UNION staging[t] = Listed(t), NoClash(Listed(t)),
             Transfer!Valid(Listed(t), transferMem[t].archive.metadata.id)
      PROVE  TransferInv'
  <2>1. Transfer!Remember(t, transferMem[t])
    BY <1>5 DEF Transfer!Remember, TransferInv, TransferTyped
  <2>2. transferPc'[t] = s /\ transferMem'[t] = transferMem[t] => OnItsWay(t)'
    BY <1>1, <1>5 DEF OnItsWay, Listed
  <2>3. QED BY <1>1, <1>2, <1>5, <2>1, <2>2, WorkKeeps DEF TransferPlace
<1>6. CASE Transfer!Validate(t)
           /\ Transfer!Valid(UNION staging[t], transferMem[t].archive.metadata.id)
  <2>1. UNION staging[t] = Listed(t) /\ NoClash(Listed(t))
    BY <1>6 DEF Transfer!Validate, TransferInv, OnItsWay
  <2>2. QED BY <1>5, <1>6, <2>1 DEF Transfer!Validate
<1>7. CASE Transfer!LookForDestination(t) /\ destination = Transfer!Nothing
  <2>1. /\ UNION staging[t] = Listed(t) /\ NoClash(Listed(t))
        /\ Transfer!Valid(Listed(t), transferMem[t].archive.metadata.id)
    BY <1>7 DEF Transfer!LookForDestination, TransferInv, OnItsWay
  <2>2. QED BY <1>5, <1>7, <2>1 DEF Transfer!LookForDestination
<1>8. QED BY <1>3, <1>4, <1>6, <1>7 DEF Transfer!Validate, Transfer!LookForDestination

LEMMA PromoteKeeps ==
  ASSUME TransferConstants, TransferInv, NEW t \in Task, Transfer!Promote(t) PROVE TransferInv'
<1>1. CASE destination # Transfer!Nothing
  BY <1>1, GiveUpKeeps DEF Transfer!Promote
<1>2. CASE destination = Transfer!Nothing
  <2>1. /\ transferPc[t] = "promoting" /\ Transfer!Goto(t, "syncing")
        /\ UNCHANGED <<transferMem, source, archive, answers, exported>>
        /\ destination' = [files |-> UNION staging[t], by |-> t, listed |-> Listed(t)]
        /\ staging' = [staging EXCEPT ![t] = {}]
    BY <1>2 DEF Transfer!Promote, Listed
  <2>2. /\ UNION staging[t] = Listed(t) /\ NoClash(Listed(t))
        /\ Transfer!Valid(Listed(t), transferMem[t].archive.metadata.id)
    BY <2>1 DEF TransferInv, OnItsWay
  <2>3. /\ transferPc' \in [Task -> TransferPlace] /\ transferPc'[t] = "syncing"
        /\ \A u \in Task \ {t} : transferPc'[u] = transferPc[u]
    BY <2>1, Going DEF TransferInv, TransferPlace
  <2>4. /\ staging' \in [Task -> SUBSET SUBSET File] /\ staging'[t] = {}
        /\ \A u \in Task \ {t} : staging'[u] = staging[u]
    BY <2>1 DEF TransferInv, TransferTyped
  <2>5. Listed(t) \in SUBSET File
    BY DEF TransferInv, TransferTyped, TransferMemory, Archive, Listed
  <2>6. /\ destination'.files = Listed(t) /\ destination'.listed = Listed(t)
        /\ destination'.by = t
        /\ destination' \in
             [files : SUBSET File, by : Task \cup {NoTask}, listed : SUBSET File]
    BY <2>1, <2>2, <2>5
  <2>7. Made(t)'
    <3>1. Transfer!Nothing.by = NoTask BY DEF Transfer!Nothing
    <3>2. QED BY <2>6, <3>1 DEF Made, TransferConstants
  <2>8. \A u : ~Made(u) BY <1>2 DEF Made
  <2>9. TransferTyped' BY <2>1, <2>3, <2>4, <2>6 DEF TransferInv, TransferTyped
  <2>10. OnItsWay(t)' BY <2>3, <2>4, <2>7 DEF OnItsWay
  <2>11. OthersRest(t) BY <2>1, <2>3, <2>4 DEF OthersRest
  <2>12. \A u \in Task : OnItsWay(u)'
    BY <2>1, <2>8, <2>10, <2>11, OthersStay DEF TransferInv
  <2>13. AnswersAreKept' BY <2>1, <2>8 DEF TransferInv, AnswersAreKept
  <2>14. DestinationIsWhole'
    BY <2>2, <2>6 DEF DestinationIsWhole, Transfer!Valid
  <2>15. QED
    BY <2>1, <2>9, <2>12, <2>13, <2>14 DEF TransferInv, SourceIsSound, ExportsAreSound
<1>3. QED BY <1>1, <1>2

LEMMA EndsKeep ==
  ASSUME TransferInv, NEW t \in Task, Transfer!Promoted(t) \/ Transfer!CleanUp(t)
  PROVE  TransferInv'
<1>1. UNCHANGED <<source, archive, destination, exported>>
  BY DEF Transfer!Promoted, Transfer!CleanUp
<1>2. CASE Transfer!Promoted(t)
  <2>1. staging[t] = {} /\ staging \in [Task -> SUBSET SUBSET File]
    BY <1>2, StagingIsEmpty DEF Transfer!Promoted
  <2>2. Made(t) BY <1>2 DEF Transfer!Promoted, TransferInv, OnItsWay
  <2>3. QED BY <1>1, <1>2, <2>1, <2>2, AnswerKeeps DEF Transfer!Promoted, TransferOutcome
<1>3. CASE Transfer!CleanUp(t)
  <2>1. /\ staging' \in [Task -> SUBSET SUBSET File] /\ staging'[t] = {}
        /\ \A u \in Task \ {t} : staging'[u] = staging[u]
    BY <1>3 DEF Transfer!CleanUp, TransferInv, TransferTyped
  <2>2. transferMem[t].outcome \in TransferOutcome
    BY DEF TransferInv, TransferTyped, TransferMemory
  <2>3. /\ transferMem[t].outcome # "imported"
        /\ transferMem[t].outcome = "unsynced" => Made(t)
        /\ transferMem[t].outcome = "refused" => ~Acceptable(transferMem[t].archive)
    BY <1>3 DEF Transfer!CleanUp, TransferInv, OnItsWay
  <2>4. QED BY <1>1, <1>3, <2>1, <2>2, <2>3, AnswerKeeps DEF Transfer!CleanUp
<1>4. QED BY <1>2, <1>3

LEMMA FailuresKeep ==
  ASSUME TransferInv, NEW t \in Task, Transfer!Fails(t) PROVE TransferInv'
<1>1. UNCHANGED <<source, archive, destination, staging, exported>> BY DEF Transfer!Fails
<1>2. CASE transferPc[t] \in {"collecting", "looking", "writing"} /\ Transfer!Answer(t, "failed")
  BY <1>1, <1>2, StagingIsEmpty, AnswerKeeps DEF TransferOutcome
<1>3. CASE transferPc[t] = "syncing" /\ Transfer!GiveUp(t, "unsynced") /\ UNCHANGED answers
  <2>1. Made(t) BY <1>3 DEF TransferInv, OnItsWay
  <2>2. QED BY <1>1, <1>3, <2>1, GiveUpKeeps
<1>4. CASE Transfer!GiveUp(t, "failed") /\ UNCHANGED answers
  BY <1>1, <1>4, GiveUpKeeps
<1>5. QED BY <1>2, <1>3, <1>4 DEF Transfer!Fails

LEMMA CrashesKeep == ASSUME TransferInv, Transfer!Crash PROVE TransferInv'
<1>1. /\ \A t \in Task : transferPc'[t] = "idle" /\ staging'[t] = {}
      /\ UNCHANGED <<source, archive, destination, answers, exported>>
  BY DEF Transfer!Crash
<1>2. TransferTyped'
  BY NoArchiveIsRefused DEF Transfer!Crash, TransferInv, TransferTyped, TransferPlace
<1>3. \A t \in Task : OnItsWay(t)' BY <1>1 DEF OnItsWay
<1>4. QED
  BY <1>1, <1>2, <1>3, MadeStays DEF TransferInv, SourceIsSound, AnswersAreKept, ExportsAreSound,
     DestinationIsWhole

LEMMA TransferStarts == ASSUME TransferConstants, Transfer!Init PROVE TransferInv
<1>1. source = Transfer!ProjectFiles("p")
        \cup {<<"secrets/vault.json", "text">>, <<"temp/part", "text">>}
  BY DEF Transfer!Init
<1>2. SourceIsSound
  <2>1. source \subseteq File BY <1>1 DEF File
  <2>2. IsFiniteSet(source)
    <3>1. ASSUME NEW x PROVE IsFiniteSet({x})
      <4>1. IsFiniteSet({} \cup {x}) BY FS_EmptySet, FS_AddElement
      <4>2. QED BY <4>1
    <3>2. source = ({<<Transfer!Manifest, "p">>} \cup {<<Transfer!Database, "p">>})
                    \cup ({<<"secrets/vault.json", "text">>} \cup {<<"temp/part", "text">>})
      BY <1>1 DEF Transfer!ProjectFiles
    <3>3. QED BY <3>1, <3>2, FS_Union
  <2>3. \A f \in source :
          \/ f = <<"project.json", "p">> /\ f[1] = "project.json"
          \/ f = <<"database/crawl.db", "p">> /\ f[1] = "database/crawl.db"
          \/ f = <<"secrets/vault.json", "text">> /\ f[1] = "secrets/vault.json"
          \/ f = <<"temp/part", "text">> /\ f[1] = "temp/part"
    BY <1>1 DEF Transfer!ProjectFiles, Transfer!Manifest, Transfer!Database
  <2>4. \A f, g \in source : f[1] = g[1] => f = g BY <2>3
  <2>5. \A f \in source : Transfer!exportPathIsAllowed(f[1]) => f \in Transfer!ProjectFiles("p")
    BY <2>3 DEF Transfer!ProjectFiles, Transfer!Manifest, Transfer!Database,
                Transfer!exportPathIsAllowed
  <2>6. QED BY <1>1, <2>1, <2>2, <2>4, <2>5 DEF SourceIsSound
<1>3. TransferTyped
  <2>1. Transfer!Nothing \in
          [files : SUBSET File, by : Task \cup {NoTask}, listed : SUBSET File]
    BY DEF Transfer!Nothing
  <2>2. QED
    BY <2>1, NoArchiveIsRefused DEF Transfer!Init, TransferTyped, TransferPlace
<1>4. \A t \in Task : OnItsWay(t) BY DEF Transfer!Init, OnItsWay
<1>5. QED
  BY <1>2, <1>3, <1>4 DEF Transfer!Init, TransferInv, AnswersAreKept, ExportsAreSound,
     DestinationIsWhole

LEMMA TransferSteps ==
  ASSUME TransferConstants, TransferInv, [Transfer!Next]_(Transfer!vars) PROVE TransferInv'
<1>1. CASE UNCHANGED Transfer!vars
  BY <1>1 DEF Transfer!vars, Transfer!bounds, TransferInv, TransferTyped, SourceIsSound, OnItsWay,
     Listed, Made, AnswersAreKept, ExportsAreSound, DestinationIsWhole
<1>2. CASE Transfer!Next
  BY <1>2, PagesGrow, ExportKeeps, WriteKeeps, BeginKeeps, ReadKeeps, StagingKeeps, FilesKeep,
     LooksKeep, PromoteKeeps, EndsKeep, FailuresKeep, CrashesKeep DEF Transfer!Next
<1>3. QED BY <1>1, <1>2

\* Of each command what it has verified, staged or collected at its stage; of what is written
\* what it was made from.
THEOREM TransferIsInvariant ==
  ASSUME TransferConstants PROVE Transfer!Spec => []TransferInv
<1>1. Transfer!Init => TransferInv BY TransferStarts
<1>2. TransferInv /\ [Transfer!Next]_(Transfer!vars) => TransferInv' BY TransferSteps
<1>3. QED BY <1>1, <1>2, PTL DEF Transfer!Spec

\* importProject and create: whatever fails, dies or runs beside them, a destination that
\* exists is everything its archive lists and validates; one command makes it and only that
\* one says so; the others remove what they staged.
THEOREM ImportsAreWhole ==
  ASSUME TransferConstants PROVE Transfer!Spec => []Transfer!ImportIsAllOrNothing
<1>1. TransferInv => Transfer!ImportIsAllOrNothing
  <2> SUFFICES ASSUME TransferInv PROVE Transfer!ImportIsAllOrNothing OBVIOUS
  <2>1. (\A t \in Task : transferPc[t] = "idle") => \A t \in Task : staging[t] = {}
    BY DEF TransferInv, OnItsWay
  <2>2. QED
    BY <2>1 DEF TransferInv, AnswersAreKept, DestinationIsWhole, NoClash, Made,
       Transfer!ImportIsAllOrNothing
<1>2. QED BY <1>1, TransferIsInvariant, PTL

\* exportProject: what it wrote is imported unless one of its files compresses better than
\* imports accept; it has the pages there were when it began and nothing of the secrets.
THEOREM ExportsAreAccepted ==
  ASSUME TransferConstants PROVE Transfer!Spec => []Transfer!ExportsComeBack
<1>1. TransferInv => Transfer!ExportsComeBack
  BY DEF TransferInv, AnswersAreKept, ExportsAreSound, Exports, PagesOf, Transfer!ExportsComeBack
<1>2. QED BY <1>1, TransferIsInvariant, PTL
=============================================================================
