---------------------------- MODULE ProjectArchive ----------------------------
(***************************************************************************)
(* Archives of a Project and directories that become one                   *)
(* (packages/persistence-sqlite/src: index.ts create, exportProject,       *)
(* importProject; archive.ts; atomic.ts).  An export copies the files of a *)
(* Project that is in use into one archive; an import, like a creation,    *)
(* fills a staging directory next to the destination and renames it.       *)
(*                                                                         *)
(* A directory is a set of files, a file is <<name, content>>.  Content is *)
(* what the checks tell apart: the Project a manifest or a database names, *)
(* "text", "blanks" (compresses more than a hundredfold), "huge" (over the *)
(* limit of one file).  The metadata entry is kept apart from the files.   *)
(***************************************************************************)
EXTENDS FiniteSets, Naturals

CONSTANTS
  Task, NoTask,
  Key,          \* names -> what a file system that ignores case makes of them
  Portable,     \* names that are canonical relative paths
  Given,        \* archives that others made
  Pages,        \* files the renders of the source Project may add
  MaxEntries, MaxCommands, MaxFaults, MaxCrashes

VARIABLES
  source,       \* files of the Project "p", which exports read
  archive,      \* the file at the export's path
  destination,  \* the directory where imports and creations go: its files,
                \*   and, for the record, who put it there and from what
  staging,      \* of each task: no directory, or the set of one, its files
  pc, mem,
  answers,      \* what commands have answered
  exported,     \* archives written, with the pages there were when it began
  commands, faults, crashes

vars == <<source, archive, destination, staging, pc, mem, answers, exported, commands,
          faults, crashes>>
bounds == <<commands, faults, crashes>>

Nothing == [files |-> {}, by |-> NoTask, listed |-> {}]
NoMetadata == [id |-> "none", listed |-> {}]
NoArchive == [sound |-> FALSE, files |-> {}, metadata |-> NoMetadata]
Blank == [archive |-> NoArchive, todo |-> {}, had |-> {}, outcome |-> "none"]

Names(files) == {f[1] : f \in files}
ContentOf(files, name) == {f[2] : f \in {g \in files : g[1] = name}}
Manifest == "project.json"
Database == "database/crawl.db"

\* What a Project that was just created holds.
ProjectFiles(id) == {<<Manifest, id>>, <<Database, id>>}

Init ==
  /\ source = ProjectFiles("p") \cup {<<"secrets/vault.json", "text">>, <<"temp/part", "text">>}
  /\ archive = NoArchive /\ destination = Nothing
  /\ staging = [t \in Task |-> {}]
  /\ pc = [t \in Task |-> "idle"] /\ mem = [t \in Task |-> Blank]
  /\ answers = {} /\ exported = {}
  /\ commands = 0 /\ faults = 0 /\ crashes = 0

Goto(t, s) == pc' = [pc EXCEPT ![t] = s]
Remember(t, m) == mem' = [mem EXCEPT ![t] = m]

Answer(t, outcome) ==
  /\ answers' = answers \cup {[task |-> t, archive |-> mem[t].archive, outcome |-> outcome]}
  /\ Goto(t, "idle") /\ Remember(t, Blank)

\* The catch block of an import or a creation: the staging directory goes first.
GiveUp(t, outcome) == Goto(t, "cleaning") /\ Remember(t, [mem[t] EXCEPT !.outcome = outcome])

-----------------------------------------------------------------------------
(***************************************************************************)
(* What an archive may hold.                                               *)
(***************************************************************************)
exportPathIsAllowed(name) ==
  name \in {Manifest, Database, "profile/config.json", "pages/a", "pages/b", "pages/B"}

\* The container's own directory: bounds, names, collisions and ratios.
inspectZipArchive(a) ==
  /\ a.sound
  /\ Cardinality(a.files) < MaxEntries
  /\ \A f \in a.files :
       /\ f[1] \in Portable /\ f[2] \notin {"huge", "blanks"}
       /\ \A g \in a.files : Key[f[1]] = Key[g[1]] => f = g

\* The inventory lists every payload once, with its size and hash, and nothing else.
extractAndVerify(a) ==
  /\ inspectZipArchive(a)
  /\ a.metadata # NoMetadata
  /\ \A f \in a.metadata.listed :
       /\ f[1] \in Portable /\ exportPathIsAllowed(f[1])
       /\ f \in a.files
  /\ Cardinality(Names(a.metadata.listed)) = Cardinality(a.metadata.listed)
  /\ Names(a.files) = Names(a.metadata.listed)
  /\ {Manifest, Database} \subseteq Names(a.files)

\* validateProjectAt: manifest and database name the same Project.
Valid(files, id) ==
  /\ ContentOf(files, Manifest) = {id} /\ ContentOf(files, Database) = {id}
  /\ id \in {"p", "q"}

\* Mutant: an export that takes the secrets and the working files along.
CollectedAll(files) == {f \in files : f[1] # Database}

\* collectFiles leaves out what exportPathIsAllowed refuses; the database is the snapshot.
Collected(files) == {f \in files : exportPathIsAllowed(f[1]) /\ f[1] # Database}

createProjectArchive(files, id) ==
  LET all == Collected(files) \cup {<<Database, id>>}
  IN  [sound |-> TRUE, files |-> all, metadata |-> [id |-> id, listed |-> all]]

Exportable(files) ==
  /\ Cardinality(Collected(files)) + 2 <= MaxEntries
  /\ \A f \in Collected(files) : f[2] # "huge"

-----------------------------------------------------------------------------
(***************************************************************************)
(* exportProject.                                                          *)
(***************************************************************************)
\* A render that is not the export's own adds a page while it runs.
WritePage ==
  /\ \E f \in Pages : f[1] \notin Names(source) /\ source' = source \cup {f}
  /\ UNCHANGED <<archive, destination, staging, pc, mem, answers, exported, bounds>>

Starts(t) == pc[t] = "idle" /\ commands < MaxCommands /\ commands' = commands + 1

Export(t) ==
  /\ Starts(t)
  /\ IF archive # NoArchive
     THEN Answer(t, "exists")
     ELSE /\ Goto(t, "collecting") /\ UNCHANGED answers
          /\ Remember(t, [Blank EXCEPT !.had = source])
  /\ UNCHANGED <<source, archive, destination, staging, exported, faults, crashes>>

\* The snapshot of the database was taken before the files are read.
Collect(t) ==
  /\ pc[t] = "collecting"
  /\ IF Exportable(source)
     THEN /\ Remember(t, [mem[t] EXCEPT !.archive = createProjectArchive(source, "p")])
          /\ Goto(t, "looking") /\ UNCHANGED answers
     ELSE Answer(t, "too large")
  /\ UNCHANGED <<source, archive, destination, staging, exported, bounds>>

\* atomicWriteFile without overwrite looks once; its rename replaces what came since.
LookForArchive(t) ==
  /\ pc[t] = "looking"
  /\ IF archive # NoArchive
     THEN Answer(t, "exists")
     ELSE Goto(t, "writing") /\ UNCHANGED <<mem, answers>>
  /\ UNCHANGED <<source, archive, destination, staging, exported, bounds>>

WriteArchive(t) ==
  /\ pc[t] = "writing"
  /\ archive' = mem[t].archive
  /\ exported' = exported \cup {[archive |-> mem[t].archive, had |-> mem[t].had]}
  /\ Answer(t, "exported")
  /\ UNCHANGED <<source, destination, staging, bounds>>

-----------------------------------------------------------------------------
(***************************************************************************)
(* create and importProject.                                               *)
(***************************************************************************)
\* Both look for the destination first; a creation needs no archive.
Begin(t) ==
  /\ Starts(t)
  /\ \/ /\ destination # Nothing /\ Answer(t, "exists")
     \/ /\ destination = Nothing /\ Goto(t, "reading") /\ UNCHANGED <<mem, answers>>
     \/ /\ destination = Nothing /\ Goto(t, "staging") /\ UNCHANGED answers
        /\ Remember(t, [Blank EXCEPT !.archive = createProjectArchive(ProjectFiles("q"), "q")])
  /\ UNCHANGED <<source, archive, destination, staging, exported, faults, crashes>>

\* Of the archives it refuses, the export's own is put on record.
ReadArchive(t) ==
  /\ pc[t] = "reading"
  /\ \E a \in Given \cup {archive} :
       IF extractAndVerify(a)
       THEN Goto(t, "staging") /\ Remember(t, [mem[t] EXCEPT !.archive = a])
       ELSE /\ Goto(t, "cleaning")
            /\ Remember(t, [Blank EXCEPT !.archive = IF a \in Given THEN NoArchive ELSE a,
                                         !.outcome = "refused"])
  /\ UNCHANGED <<source, archive, destination, staging, answers, exported, bounds>>

\* Each command has a staging directory of its own name.
MakeStaging(t) ==
  /\ pc[t] = "staging" /\ staging' = [staging EXCEPT ![t] = {{}}]
  /\ Goto(t, "filling")
  /\ Remember(t, [mem[t] EXCEPT !.todo = mem[t].archive.metadata.listed])
  /\ UNCHANGED <<source, archive, destination, answers, exported, bounds>>

WriteFile(t) ==
  /\ pc[t] = "filling"
  /\ \E f \in mem[t].todo :
       /\ staging' = [staging EXCEPT ![t] = {(UNION @) \cup {f}}]
       /\ Remember(t, [mem[t] EXCEPT !.todo = @ \ {f}])
  /\ UNCHANGED <<source, archive, destination, pc, answers, exported, bounds>>

\* The required directories are made, and the whole is validated before it is promoted.
Validate(t) ==
  /\ pc[t] = "filling" /\ mem[t].todo = {}
  /\ IF Valid(UNION staging[t], mem[t].archive.metadata.id)
     THEN Goto(t, "validated") /\ UNCHANGED mem
     ELSE GiveUp(t, "refused")
  /\ UNCHANGED <<source, archive, destination, staging, answers, exported, bounds>>

\* atomicPromoteDirectory looks again, ...
LookForDestination(t) ==
  /\ pc[t] = "validated"
  /\ IF destination # Nothing
     THEN GiveUp(t, "exists")
     ELSE Goto(t, "promoting") /\ UNCHANGED mem
  /\ UNCHANGED <<source, archive, destination, staging, answers, exported, bounds>>

\* ... and a rename onto a directory that is not empty fails.
Promote(t) ==
  /\ pc[t] = "promoting"
  /\ IF destination # Nothing
     THEN GiveUp(t, "failed") /\ UNCHANGED <<destination, staging>>
     ELSE /\ destination' = [files |-> UNION staging[t], by |-> t,
                             listed |-> mem[t].archive.metadata.listed]
          /\ staging' = [staging EXCEPT ![t] = {}]
          /\ Goto(t, "syncing") /\ UNCHANGED mem
  /\ UNCHANGED <<source, archive, answers, exported, bounds>>

Promoted(t) ==
  /\ pc[t] = "syncing"
  /\ Answer(t, "imported")
  /\ UNCHANGED <<source, archive, destination, staging, exported, bounds>>

CleanUp(t) ==
  /\ pc[t] = "cleaning"
  /\ staging' = [staging EXCEPT ![t] = {}]
  /\ Answer(t, mem[t].outcome)
  /\ UNCHANGED <<source, archive, destination, exported, bounds>>

\* The file system refuses one step.  Only the failure of the last directory sync comes
\* after the rename.
Fails(t) ==
  /\ faults < MaxFaults /\ faults' = faults + 1
  /\ \/ pc[t] \in {"collecting", "looking", "writing"} /\ Answer(t, "failed")
     \/ /\ pc[t] \in {"reading", "staging", "filling", "validated", "promoting", "syncing"}
        /\ GiveUp(t, IF pc[t] = "syncing" THEN "unsynced" ELSE "failed")
        /\ UNCHANGED answers
  /\ UNCHANGED <<source, archive, destination, staging, exported, commands, crashes>>

\* The process ends; what it was staging stays beside the destination and nobody looks there.
Crash ==
  /\ crashes < MaxCrashes /\ crashes' = crashes + 1
  /\ staging' = [t \in Task |-> {}]
  /\ pc' = [t \in Task |-> "idle"] /\ mem' = [t \in Task |-> Blank]
  /\ UNCHANGED <<source, archive, destination, answers, exported, commands, faults>>

Next ==
  \/ WritePage \/ Crash
  \/ \E t \in Task :
       \/ Export(t) \/ Collect(t) \/ LookForArchive(t) \/ WriteArchive(t)
       \/ Begin(t) \/ ReadArchive(t) \/ MakeStaging(t) \/ WriteFile(t) \/ Validate(t)
       \/ LookForDestination(t) \/ Promote(t) \/ Promoted(t) \/ CleanUp(t) \/ Fails(t)

Spec == Init /\ [][Next]_vars

-----------------------------------------------------------------------------
(***************************************************************************)
(* Properties.                                                             *)
(***************************************************************************)
\* importProject and create stage, validate and rename.  Whatever fails, dies or runs beside
\* them, a destination that exists is everything its archive lists and a Project that
\* validates; of several commands one makes it, and only that one says so; the others
\* remove what they staged.
ImportIsAllOrNothing ==
  /\ destination # Nothing =>
       /\ destination.files = destination.listed
       /\ \E id \in {"p", "q"} : Valid(destination.files, id)
       /\ \A f, g \in destination.files : Key[f[1]] = Key[g[1]] => f = g
  /\ \A r \in answers : r.outcome \in {"imported", "unsynced"} => r.task = destination.by
  /\ (\A t \in Task : pc[t] = "idle") => \A t \in Task : staging[t] = {}

\* What an export wrote is imported, unless one of its files compresses better than imports
\* accept: nothing else in it is refused.  It has every page there was when it began, and
\* nothing of the store's secrets or of its working files.
ExportsComeBack ==
  \A e \in exported :
    /\ {f \in e.had : f[1] \in {"pages/a", "pages/b", "pages/B"}} \subseteq e.archive.files
    /\ \A f \in e.archive.files : f[1] \notin {"secrets/vault.json", "temp/part"}
    /\ \A r \in answers :
         r.outcome = "refused" /\ r.archive = e.archive
           => \E f \in e.archive.files : f[2] = "blanks"
=============================================================================
