----------------------------- MODULE ProjectStore -----------------------------
(***************************************************************************)
(* The store of a Project (packages/persistence-sqlite/src/index.ts): a    *)
(* database, the manifest project.json and the Profile file, written one   *)
(* after the other, by commands of one process that wait for the file      *)
(* system between their steps and are not serialised against each other.   *)
(*                                                                         *)
(* One connection serves them all, so a transaction that a command leaves  *)
(* open while it waits is the transaction of every other command: their    *)
(* BEGIN fails and their handler rolls it back.                            *)
(*                                                                         *)
(* A revision is <<sequence, task>>; a task that tries a sequence again    *)
(* after a failure uses the same revision.                                 *)
(***************************************************************************)
EXTENDS Naturals

CONSTANTS Task, NoTask,
          CurrentSchema,  \* number of migrations this build knows
          LegacySchema,   \* number an older build had applied
          MaxCommands, MaxOpens, MaxSeq, MaxFaults, MaxCrashes

VARIABLES
  promoted,                        \* the Project directory has been promoted
  applied, metaSchema, ledger,   \* database: migrations, metadata's schema, current revision
  revisions,                     \* database: sequences in site_profile_revisions
  manifest, profileFile,         \* project.json: [schema, rev]; profile/config.json: a revision
  backups,                       \* schemas of which a backup was made
  archives,                      \* exported archives
  session,                       \* database: execution_sessions
  current,                       \* the open Project's manifest, in memory
  conn,                          \* number of the open connection, 0 when closed
  tx,                            \* the revision in the open transaction
  lock,                          \* the Project lock is taken
  pc, mem,                       \* where each command is, and what it remembers
  commands, opens, faults, crashes, \* bounds
  overlapped,                    \* a Profile write or export ran beside another command
  died                           \* the process ended with the Project open

disk == <<promoted, applied, metaSchema, ledger, revisions, manifest, profileFile, backups,
          archives, session>>
memory == <<current, conn, tx, lock>>
vars == <<disk, memory, pc, mem, commands, opens, faults, crashes, overlapped, died>>

Unrevised == <<0, NoTask>>
Revision == {Unrevised} \cup ((1..MaxSeq) \X Task)
NotOpen == [schema |-> 0, rev |-> Unrevised]
NoTx == <<0, NoTask>>

Manifest(schema, rev) == [schema |-> schema, rev |-> rev]
Manifests == [schema : 0..CurrentSchema, rev : Revision]

Opening == {"locked", "migrating", "opened"}
Writing == {"looking", "checking", "saving", "reading", "begin", "profile", "manifest",
            "verify", "commit", "undoManifest", "undoProfile"}
Exporting == {"exportLock", "export", "collect"}
Alone == Writing \cup Exporting  \* commands of which the properties ask that they run alone
Stages == {"idle", "lock", "closing"} \cup Opening \cup Writing \cup Exporting

Blank == [epoch |-> 0, manifest |-> NotOpen, profile |-> Unrevised, rev |-> Unrevised,
          snapshot |-> [applied |-> 0, metaSchema |-> 0, ledger |-> Unrevised],
          collected |-> {}]

\* The types of the rows, the files, the manifest and the open connections of
\* persistence-sqlite/src/index.ts, and of what a command holds in memory.
TypeOK ==
  /\ promoted \in BOOLEAN /\ lock \in BOOLEAN /\ overlapped \in BOOLEAN
  /\ applied \in 0..CurrentSchema /\ metaSchema \in 0..CurrentSchema
  /\ ledger \in Revision /\ profileFile \in Revision /\ tx \in Revision
  /\ manifest \in Manifests /\ current \in Manifests
  /\ revisions \subseteq 1..MaxSeq
  /\ backups \subseteq 1..CurrentSchema
  /\ conn \in 0..MaxOpens /\ opens \in 0..MaxOpens
  /\ pc \in [Task -> Stages]
  /\ \A t \in Task : DOMAIN mem[t] = DOMAIN Blank
  /\ faults \in 0..MaxFaults /\ crashes \in 0..MaxCrashes /\ died \in BOOLEAN
  /\ session \in [running : 0..MaxOpens, unclean : BOOLEAN]

Init ==
  /\ promoted = FALSE /\ applied = 0 /\ metaSchema = 0 /\ ledger = Unrevised
  /\ revisions = {}
  /\ manifest = NotOpen /\ profileFile = Unrevised /\ backups = {} /\ archives = {}
  /\ current = NotOpen /\ conn = 0 /\ tx = NoTx /\ lock = FALSE
  /\ pc = [t \in Task |-> "idle"] /\ mem = [t \in Task |-> Blank]
  /\ commands = 0 /\ opens = 0 /\ faults = 0 /\ crashes = 0 /\ overlapped = FALSE
  /\ session = [running |-> 0, unclean |-> FALSE] /\ died = FALSE

-----------------------------------------------------------------------------
Goto(t, s) == pc' = [pc EXCEPT ![t] = s]
Done(t) == Goto(t, "idle") /\ mem' = [mem EXCEPT ![t] = Blank]
Remember(t, m) == mem' = [mem EXCEPT ![t] = m]

SomeTask(stages) == \E u \in Task : pc[u] \in stages

\* A command starts, perhaps while a Profile write or an export waits for the disk.
Starts(t, s) ==
  /\ promoted /\ pc[t] = "idle"
  /\ commands < MaxCommands /\ commands' = commands + 1
  /\ Goto(t, s)
  /\ overlapped' = (overlapped \/ SomeTask(Alone)
                     \/ (s \in Alone /\ SomeTask(Stages \ {"idle"})))

Fault == faults < MaxFaults /\ faults' = faults + 1
NoFault == UNCHANGED faults
Bounds == <<commands, opens, crashes, overlapped, died>>

\* What a statement sees of the current revision: the open transaction's.
View == IF tx # NoTx THEN tx ELSE ledger

Pending == applied < CurrentSchema
Compatible(schema) == schema \in 1..CurrentSchema

\* validateProjectAt, with no error: the migration versions agree, the manifest names
\* the metadata's revision, and a Profile file is the ledger's.  Pending migrations are a
\* warning.  It reads through a connection of its own: committed data.
Agree(d, m, p) ==
  /\ m.schema = d.applied /\ d.metaSchema = d.applied
  /\ m.rev = d.ledger
  /\ m.rev # Unrevised => p = d.ledger

Database == [applied |-> applied, metaSchema |-> metaSchema, ledger |-> ledger]
Valid == promoted /\ Compatible(applied) /\ Agree(Database, manifest, profileFile)

\* The failure of an open, a close or an export: the connection is closed, which rolls
\* back what it had begun, and the lock is released.
Shut == conn' = 0 /\ tx' = NoTx /\ lock' = FALSE

-----------------------------------------------------------------------------
(***************************************************************************)
(* create, and a Project of an older build.                                *)
(***************************************************************************)
\* Everything is built and validated in a staging directory, which a rename promotes:
\* a failure leaves no Project.
Appear(schema) ==
  /\ ~promoted
  /\ promoted' = TRUE
  /\ applied' = schema /\ metaSchema' = schema /\ manifest' = Manifest(schema, Unrevised)
  /\ UNCHANGED <<ledger, revisions, profileFile, backups, archives, session, memory, pc, mem, faults, Bounds>>

Create == Appear(CurrentSchema)
Legacy == Appear(LegacySchema)

-----------------------------------------------------------------------------
(***************************************************************************)
(* open.                                                                   *)
(***************************************************************************)
\* Validation precedes the lock.
Open(t) ==
  /\ current = NotOpen /\ Valid
  /\ Starts(t, "lock")
  /\ UNCHANGED <<disk, memory, mem, opens, faults, crashes, died>>

Lock(t) ==
  /\ pc[t] = "lock"
  /\ IF lock \/ opens = MaxOpens
     THEN Done(t) /\ UNCHANGED <<memory, opens>>
     ELSE /\ lock' = TRUE /\ opens' = opens + 1
          /\ Goto(t, "locked")
          /\ UNCHANGED <<current, conn, tx, mem>>
  /\ UNCHANGED <<disk, commands, faults, crashes, overlapped, died>>

\* readManifest, openDatabase, and a backup when migrations are pending.
OpenDatabase(t) ==
  /\ pc[t] = "locked"
  /\ conn' = opens
  /\ Remember(t, [mem[t] EXCEPT !.manifest = manifest, !.epoch = opens])
  /\ Goto(t, "migrating")
  /\ backups' = IF Pending THEN backups \cup {applied} ELSE backups
  /\ UNCHANGED <<promoted, applied, metaSchema, ledger, revisions, manifest, profileFile, archives, session,
                 current, tx, lock, faults, Bounds>>

BackupFails(t) ==
  /\ pc[t] = "locked" /\ Pending /\ Fault
  /\ Shut /\ Done(t)
  /\ UNCHANGED <<disk, current, Bounds>>

\* applyPendingMigrations, one transaction each, then the metadata's schema version:
\* all without a wait.
Migrate(t) ==
  /\ pc[t] = "migrating"
  /\ applied' = CurrentSchema /\ metaSchema' = CurrentSchema
  /\ Goto(t, "opened")
  /\ UNCHANGED <<promoted, ledger, revisions, manifest, profileFile, backups, archives, session, memory, mem,
                 faults, Bounds>>

\* The migrations before the one that fails stay.
MigrationFails(t) ==
  /\ pc[t] = "migrating" /\ Fault
  /\ \E n \in applied..(CurrentSchema - 1) : applied' = n
  /\ Shut /\ Done(t)
  /\ UNCHANGED <<promoted, metaSchema, ledger, revisions, manifest, profileFile, backups, archives, session,
                 current, Bounds>>

ForOpen(m) == Manifest(CurrentSchema, m.rev)

\* beginExecutionSession: a session that nobody ended was not closed cleanly.
BeginSession(epoch) ==
  session' = [running |-> epoch, unclean |-> session.unclean \/ session.running # 0]

\* endExecutionSession
EndSession(epoch) == [session EXCEPT !.running = IF @ = epoch THEN 0 ELSE @]

RecoveryStatus == IF session.unclean THEN "recovery-available" ELSE "clean"

\* The manifest is written, the execution session begun and the Project current.
Opened(t) ==
  /\ pc[t] = "opened"
  /\ manifest' = ForOpen(mem[t].manifest)
  /\ BeginSession(mem[t].epoch)
  /\ current' = manifest'
  /\ Done(t)
  /\ UNCHANGED <<promoted, applied, metaSchema, ledger, revisions, profileFile, backups, archives,
                 conn, tx, lock, faults, Bounds>>

\* A write may fail before or after the rename that replaces the file.
Written(new, old) == {new, old}

OpenFails(t) ==
  /\ pc[t] = "opened" /\ Fault
  /\ manifest' \in Written(ForOpen(mem[t].manifest), manifest)
  /\ Shut /\ Done(t)
  /\ UNCHANGED <<promoted, applied, metaSchema, ledger, revisions, profileFile, backups, archives, session,
                 current, Bounds>>

-----------------------------------------------------------------------------
(***************************************************************************)
(* close.                                                                  *)
(***************************************************************************)
\* current is cleared first, then the execution session ended in a transaction: inside
\* another one its BEGIN fails, its handler rolls that back, and the close goes on to
\* its end without a manifest.
Close(t) ==
  /\ current # NotOpen
  /\ current' = NotOpen
  /\ IF tx = NoTx
     THEN /\ Starts(t, "closing")
          /\ Remember(t, [mem[t] EXCEPT !.manifest = current])
          /\ session' = EndSession(conn)
          /\ UNCHANGED <<conn, tx, lock>>
     ELSE Starts(t, "idle") /\ Shut /\ UNCHANGED <<mem, session>>
  /\ UNCHANGED <<promoted, applied, metaSchema, ledger, revisions, manifest, profileFile, backups,
                 archives, opens, faults, crashes, died>>

CloseManifest(t) ==
  /\ pc[t] = "closing"
  /\ \/ NoFault /\ manifest' = mem[t].manifest
     \/ Fault /\ manifest' \in Written(mem[t].manifest, manifest)
  /\ Shut /\ Done(t)
  /\ UNCHANGED <<promoted, applied, metaSchema, ledger, revisions, profileFile, backups, archives, session,
                 current, Bounds>>

-----------------------------------------------------------------------------
(***************************************************************************)
(* createProfile, updateProfile and persistProfileRevision.                *)
(***************************************************************************)
CreateProfile(t) ==
  /\ current # NotOpen /\ View = Unrevised
  /\ Starts(t, "looking")
  /\ Remember(t, [mem[t] EXCEPT !.epoch = conn])
  /\ UNCHANGED <<disk, memory, opens, faults, crashes, died>>

\* A Profile file without a row refuses the creation.
LookForFile(t) ==
  /\ pc[t] = "looking"
  /\ IF profileFile = Unrevised THEN Goto(t, "saving") /\ UNCHANGED mem ELSE Done(t)
  /\ UNCHANGED <<disk, memory, faults, Bounds>>

\* readCurrentProfile reads the file, waits, then compares it with the row.
UpdateProfile(t) ==
  /\ current # NotOpen /\ profileFile # Unrevised
  /\ Starts(t, "checking")
  /\ Remember(t, [mem[t] EXCEPT !.epoch = conn, !.rev = profileFile])
  /\ UNCHANGED <<disk, memory, opens, faults, crashes, died>>

\* getProfile and validateStoredProfile end here: they only read.  So do an update that
\* changes nothing and one from another revision than the one expected.
OnlyRead(t) == Done(t)

CompareWithRow(t) ==
  /\ pc[t] = "checking"
  /\ \/ /\ conn = mem[t].epoch /\ View = mem[t].rev /\ View[1] < MaxSeq
        /\ Goto(t, "saving") /\ UNCHANGED mem
     \/ OnlyRead(t)
  /\ UNCHANGED <<disk, memory, faults, Bounds>>

\* The bytes to restore if the commit fails; mem.rev becomes the new revision.
ReadOldManifest(t) ==
  /\ pc[t] = "saving"
  /\ Goto(t, "reading")
  /\ Remember(t, [mem[t] EXCEPT !.manifest = manifest])
  /\ UNCHANGED <<disk, memory, faults, Bounds>>

ReadOldProfile(t) ==
  /\ pc[t] = "reading"
  /\ Goto(t, "begin")
  /\ Remember(t, [mem[t] EXCEPT !.profile = IF mem[t].rev = Unrevised
                                            THEN Unrevised ELSE profileFile,
                                !.rev = <<mem[t].rev[1] + 1, t>>])
  /\ UNCHANGED <<disk, memory, faults, Bounds>>

\* The catch of persistProfileRevision: whatever transaction is open is rolled back; on a
\* closed database the question itself throws, and no file is restored.
Undo(t) ==
  IF conn = mem[t].epoch
  THEN tx' = NoTx /\ Goto(t, "undoManifest") /\ UNCHANGED mem
  ELSE UNCHANGED tx /\ Done(t)

\* UNIQUE(profile_id, sequence); the row of an update refers to the Project's Profile.
FreshSequence(t) ==
  /\ mem[t].rev[1] \notin revisions
  /\ mem[t].rev[1] > 1 => ledger # Unrevised

\* BEGIN IMMEDIATE and the inserts.
Begin(t) ==
  /\ pc[t] = "begin"
  /\ \/ /\ conn = mem[t].epoch /\ tx = NoTx /\ FreshSequence(t)
        /\ tx' = mem[t].rev
        /\ Goto(t, "profile") /\ NoFault /\ UNCHANGED mem
     \/ /\ conn # mem[t].epoch \/ tx # NoTx \/ ~FreshSequence(t)
        /\ Undo(t) /\ NoFault
     \/ Fault /\ Undo(t)
  /\ UNCHANGED <<disk, current, conn, lock, Bounds>>

\* A creation does not overwrite a file that is there by now.
WriteProfile(t) ==
  /\ pc[t] = "profile"
  /\ \/ /\ mem[t].rev[1] > 1 \/ profileFile = Unrevised
        /\ profileFile' = mem[t].rev
        /\ Goto(t, "manifest") /\ NoFault /\ UNCHANGED <<tx, mem>>
     \/ /\ mem[t].rev[1] = 1 /\ profileFile # Unrevised
        /\ Undo(t) /\ NoFault /\ UNCHANGED profileFile
     \/ /\ Fault /\ Undo(t)
        /\ profileFile' \in Written(mem[t].rev, profileFile)
  /\ UNCHANGED <<promoted, applied, metaSchema, ledger, revisions, manifest, backups, archives, session,
                 current, conn, lock, Bounds>>

ForProfile(rev) == Manifest(CurrentSchema, rev)

WriteManifest(t) ==
  /\ pc[t] = "manifest"
  /\ LET new == ForProfile(mem[t].rev) IN
     \/ manifest' = new /\ Goto(t, "verify") /\ NoFault /\ UNCHANGED <<tx, mem>>
     \/ Fault /\ Undo(t) /\ manifest' \in Written(new, manifest)
  /\ UNCHANGED <<promoted, applied, metaSchema, ledger, revisions, profileFile, backups, archives, session,
                 current, conn, lock, Bounds>>

\* Both files are read back, then the row; only then the transaction commits.
VerifyProfile(t) ==
  /\ pc[t] = "verify"
  /\ Goto(t, "commit")
  /\ Remember(t, [mem[t] EXCEPT !.collected = IF profileFile = mem[t].rev THEN {"profile"} ELSE {}])
  /\ UNCHANGED <<disk, memory, faults, Bounds>>

Commit(t) ==
  /\ pc[t] = "commit"
  /\ IF conn = mem[t].epoch /\ tx = mem[t].rev /\ manifest.rev = mem[t].rev
        /\ mem[t].collected # {}
     THEN /\ ledger' = tx /\ revisions' = revisions \cup {tx[1]}
          /\ metaSchema' = CurrentSchema /\ tx' = NoTx
          /\ current' = IF current = NotOpen THEN NotOpen ELSE ForProfile(mem[t].rev)
          /\ Done(t)
     ELSE Undo(t) /\ UNCHANGED <<ledger, revisions, metaSchema, current>>
  /\ UNCHANGED <<promoted, applied, manifest, profileFile, backups, archives, session, conn, lock,
                 faults, Bounds>>

\* A bug: the restoration stops after the manifest.
StopAfterManifest(t) ==
  /\ pc[t] = "undoManifest"
  /\ manifest' = mem[t].manifest /\ Done(t) /\ NoFault
  /\ UNCHANGED <<promoted, applied, metaSchema, ledger, revisions, profileFile, backups, archives, session,
                 memory, Bounds>>

\* The old files are put back, the manifest first; an error here is swallowed.
UndoManifest(t) ==
  /\ pc[t] = "undoManifest"
  /\ \/ manifest' = mem[t].manifest /\ NoFault
     \/ Fault /\ UNCHANGED manifest
  /\ Goto(t, "undoProfile")
  /\ UNCHANGED <<promoted, applied, metaSchema, ledger, revisions, profileFile, backups, archives, session,
                 memory, mem, Bounds>>

UndoProfile(t) ==
  /\ pc[t] = "undoProfile"
  /\ \/ profileFile' = mem[t].profile /\ NoFault
     \/ Fault /\ UNCHANGED profileFile
  /\ Done(t)
  /\ UNCHANGED <<promoted, applied, metaSchema, ledger, revisions, manifest, backups, archives, session,
                 memory, Bounds>>

\* Any other command with a transaction of its own (queue, recovery, render, assets,
\* proxies...), while this one is open: BEGIN fails and the handler rolls back.
OtherTransaction ==
  /\ current # NotOpen /\ tx # NoTx
  /\ tx' = NoTx
  /\ overlapped' = TRUE
  /\ UNCHANGED <<disk, current, conn, lock, pc, mem, commands, opens, faults, crashes, died>>

-----------------------------------------------------------------------------
(***************************************************************************)
(* exportProject and importProject.                                        *)
(***************************************************************************)

Export(t) ==
  /\ Valid
  /\ Starts(t, "exportLock")
  /\ UNCHANGED <<disk, memory, mem, opens, faults, crashes, died>>

\* The open Project is exported through its own connection, another one under its lock
\* (epoch 0 stands for that connection).
ExportDatabase(t) ==
  /\ pc[t] = "exportLock"
  /\ \/ /\ current # NotOpen
        /\ Remember(t, [mem[t] EXCEPT !.epoch = conn])
        /\ Goto(t, "export") /\ UNCHANGED lock
     \/ /\ current = NotOpen /\ ~lock
        /\ lock' = TRUE
        /\ Goto(t, "export") /\ UNCHANGED mem
     \/ current = NotOpen /\ lock /\ Done(t) /\ UNCHANGED lock
  /\ UNCHANGED <<disk, current, conn, tx, faults, Bounds>>

\* The backup of a connection waits for its transaction to end; a closed one fails.
ExportSnapshot(t) ==
  /\ pc[t] = "export"
  /\ IF mem[t].epoch = 0 \/ mem[t].epoch = conn
     THEN /\ mem[t].epoch = 0 \/ tx = NoTx
          /\ Remember(t, [mem[t] EXCEPT !.snapshot = Database])
          /\ Goto(t, "collect")
     ELSE Done(t)
  /\ UNCHANGED <<disk, memory, faults, Bounds>>

\* collectFiles reads the two files in the order of the directory; then the archive is
\* written and a lock of the export's own released.
Collect(t) ==
  /\ pc[t] = "collect"
  /\ LET m == mem[t] IN
     \/ /\ "profile" \notin m.collected
        /\ Remember(t, [m EXCEPT !.collected = @ \cup {"profile"}, !.profile = profileFile])
        /\ UNCHANGED <<archives, lock, pc>>
     \/ /\ "manifest" \notin m.collected
        /\ Remember(t, [m EXCEPT !.collected = @ \cup {"manifest"}, !.manifest = manifest])
        /\ UNCHANGED <<archives, lock, pc>>
     \/ /\ m.collected = {"profile", "manifest"} /\ archives = {}
        /\ archives' = {[database |-> m.snapshot, manifest |-> m.manifest, profile |-> m.profile]}
        /\ lock' = (lock /\ m.epoch # 0)
        /\ Done(t)
  /\ UNCHANGED <<promoted, applied, metaSchema, ledger, revisions, manifest, profileFile, backups, session,
                 current, conn, tx, faults, Bounds>>

\* importProject accepts what extracts and verifies and then validates.
Importable(a) == Agree(a.database, a.manifest, a.profile)

-----------------------------------------------------------------------------
\* The process ends: memory and transaction are gone, and the lock of a dead owner is
\* taken over by the next.
Crash ==
  /\ crashes < MaxCrashes /\ crashes' = crashes + 1
  /\ died' = (died \/ session.running # 0)
  /\ current' = NotOpen /\ Shut
  /\ pc' = [t \in Task |-> "idle"] /\ mem' = [t \in Task |-> Blank]
  /\ UNCHANGED <<ledger, revisions, profileFile, manifest, backups, archives, session, promoted, metaSchema,
                 commands, opens, faults, overlapped>>
  /\ \/ UNCHANGED applied
     \/ /\ \E t \in Task : pc[t] = "migrating"
        /\ \E n \in applied..CurrentSchema : applied' = n

Next ==
  \/ Create \/ Legacy
  \/ OtherTransaction \/ Crash
  \/ \E t \in Task :
       \/ Open(t) \/ Lock(t) \/ OpenDatabase(t) \/ BackupFails(t) \/ Migrate(t)
       \/ MigrationFails(t) \/ Opened(t) \/ OpenFails(t)
       \/ Close(t) \/ CloseManifest(t)
       \/ CreateProfile(t) \/ LookForFile(t) \/ UpdateProfile(t) \/ CompareWithRow(t)
       \/ ReadOldManifest(t) \/ ReadOldProfile(t) \/ Begin(t) \/ WriteProfile(t)
       \/ WriteManifest(t) \/ VerifyProfile(t) \/ Commit(t)
       \/ UndoManifest(t) \/ UndoProfile(t)
       \/ Export(t) \/ ExportDatabase(t) \/ ExportSnapshot(t) \/ Collect(t)

Spec == Init /\ [][Next]_vars

-----------------------------------------------------------------------------
(***************************************************************************)
(* Properties.                                                             *)
(***************************************************************************)
Quiet == \A t \in Task : pc[t] = "idle"

\* persistProfileRevision compensates a failure at any of its steps: as long as no
\* Profile write ran beside another command, the process did not die in one and the undoing
\* did not fail as well, the manifest, the Profile file and the ledger name the same
\* revision whenever no command is under way (SITE_PROFILE.md: "Injected ordinary failures
\* restore both files and roll back SQLite").  The commit comes last: whatever fails, files
\* are at the ledger's revision or ahead of it, and no ledger names a revision no file has.
ProfileAgrees ==
  ~overlapped =>
    /\ Quiet /\ crashes = 0 /\ faults <= 1 => manifest.rev = ledger /\ profileFile = ledger
    /\ ledger[1] <= profileFile[1] /\ ledger[1] <= manifest.rev[1]

\* An archive is taken in three steps from a Project that may have been damaged before;
\* what an export beside no Profile write makes, an import accepts.
ArchivesImport ==
  ~overlapped => \A a \in archives : Importable(a)

\* PROJECT_LIFECYCLE.md: "Clean close ends the session; a killed process leaves it
\* discoverable on the next open."  The session is ended before the manifest is written
\* and the connection closed, so the report must neither miss a process that died with
\* the Project open nor blame one that closed it in order.
DeathsAreNoticed ==
  /\ died /\ current # NotOpen => RecoveryStatus = "recovery-available"
  /\ RecoveryStatus # "clean" => crashes > 0 \/ faults > 0 \/ overlapped

\* compareProfiles: any two revisions up to the current one have their rows.  An update that
\* ran beside another one may have read the other's revision before it was rolled back, and
\* commits the one after it.
Comparable(from, to) == {from, to} \subseteq revisions
HistoryIsWhole == ~overlapped => \A to \in 1..ledger[1] : Comparable(1, to)

\* What the database, the two files, the archives and the execution sessions say of the
\* Project stays one story through every failure of a step.
StoreIsSound == ProfileAgrees /\ ArchivesImport /\ DeathsAreNoticed /\ HistoryIsWhole

\* PROJECT_LIFECYCLE.md: "An older supported schema is valid with a migration warning."
OlderSchemaIsValid ==
  promoted /\ Quiet /\ crashes = 0 /\ Pending => Valid

\* The same of a Project whose process died: between the first migration and the manifest of an
\* open nothing restores the one or writes the other, and the next open validates first.
MigratedProjectIsValid ==
  promoted /\ Quiet /\ faults = 0 /\ ~overlapped /\ ledger = Unrevised /\ profileFile = Unrevised => Valid
=============================================================================
