----------------------------- MODULE ProjectLock -----------------------------
(***************************************************************************)
(* The lock file of a Project (packages/persistence-sqlite/src/locking.ts) *)
(* as several processes see it.  The file is created exclusively, then     *)
(* written; a lock whose owner's process is gone is read, judged, removed  *)
(* and made anew; a release reads the file again before it removes it.     *)
(* Each of these is a call to the file system of its own, and a process    *)
(* may die between any two.                                                *)
(*                                                                         *)
(* A file is the instance that created it: what is written goes to that    *)
(* file even if another has its name by then.  A process id is not given   *)
(* to another process (PROJECT_LOCKING.md excludes that).                  *)
(***************************************************************************)
EXTENDS Naturals

CONSTANTS Process, NoFile,
          HostOf,       \* [Process -> hosts]
          MaxInstances  \* acquisitions that one process tries

Instance == Process \X (1..MaxInstances)

VARIABLES
  lockFile, \* .project.lock: the instance that created it
  written,  \* instances whose record is in their file
  pc,       \* where each process is
  count     \* instances each process has drawn

vars == <<lockFile, written, pc, count>>

\* "creating": the first try; "again": the second, after a stale lock was removed;
\* "writing": the file is made, the record not yet in it.
Stages == {"idle", "creating", "again", "writing", "reading", "stale", "held",
           "releasing", "removing", "dead"}

Mine(p) == <<p, count[p]>>

\* Types of the file, its records and the processes of acquireProjectLock.
TypeOK ==
  /\ lockFile \in Instance \cup {NoFile}
  /\ written \subseteq Instance
  /\ pc \in [Process -> Stages]
  /\ count \in [Process -> 0..MaxInstances]

Init ==
  /\ lockFile = NoFile /\ written = {}
  /\ pc = [p \in Process |-> "idle"]
  /\ count = [p \in Process |-> 0]

Goto(p, s) == pc' = [pc EXCEPT ![p] = s]

-----------------------------------------------------------------------------
(***************************************************************************)
(* acquireProjectLock.                                                     *)
(***************************************************************************)
\* createLock draws a new instance before it opens the file.
Acquire(p) ==
  /\ pc[p] = "idle" /\ count[p] < MaxInstances
  /\ Goto(p, "creating")
  /\ count' = [count EXCEPT ![p] = @ + 1]
  /\ UNCHANGED <<lockFile, written>>

\* A bug: the open truncates an existing file instead of failing.
CreateAnyway(p) ==
  /\ pc[p] \in {"creating", "again"}
  /\ lockFile' = Mine(p) /\ Goto(p, "writing")
  /\ UNCHANGED <<written, count>>

\* open(lockPath, "wx").  The first EEXIST leads to a look at the owner, the
\* second one is PROJECT_LOCKED.
Create(p) ==
  /\ pc[p] \in {"creating", "again"}
  /\ IF lockFile = NoFile
     THEN lockFile' = Mine(p) /\ Goto(p, "writing")
     ELSE /\ Goto(p, IF pc[p] = "creating" THEN "reading" ELSE "idle")
          /\ UNCHANGED lockFile
  /\ UNCHANGED <<written, count>>

WriteRecord(p) ==
  /\ pc[p] = "writing"
  /\ written' = written \cup {Mine(p)}
  /\ Goto(p, "held")
  /\ UNCHANGED <<lockFile, count>>

\* The write or the sync fails: the handle is closed, the file stays.
WriteFails(p) ==
  /\ pc[p] = "writing"
  /\ Goto(p, "idle")
  /\ UNCHANGED <<lockFile, written, count>>

Alive(p) == pc[p] # "dead"

Stale(p, owner) == HostOf[owner] = HostOf[p] /\ ~Alive(owner)

\* The existing record is read and its owner looked up: no file (ENOENT), no record
\* (PROJECT_LOCK_INVALID) and a lock that is not stale (PROJECT_LOCKED) end the try.
ReadOwner(p) ==
  /\ pc[p] = "reading"
  /\ Goto(p, IF lockFile # NoFile /\ lockFile \in written /\ Stale(p, lockFile[1])
             THEN "stale" ELSE "idle")
  /\ UNCHANGED <<lockFile, written, count>>

\* unlink(lockPath), whatever file has that name now; ENOENT ends the try.
\* createLock then draws another instance.
RemoveStale(p) ==
  /\ pc[p] = "stale"
  /\ \/ /\ lockFile = NoFile
        /\ Goto(p, "idle") /\ UNCHANGED count
     \/ /\ lockFile # NoFile /\ count[p] < MaxInstances
        /\ Goto(p, "again") /\ count' = [count EXCEPT ![p] = @ + 1]
  /\ lockFile' = NoFile
  /\ UNCHANGED written

-----------------------------------------------------------------------------
(***************************************************************************)
(* release, and the end of a process.                                      *)
(***************************************************************************)
Release(p) ==
  /\ pc[p] = "held"
  /\ Goto(p, "releasing")
  /\ UNCHANGED <<lockFile, written, count>>

\* Only a file with the owner's own record is removed.
ReadOwn(p) ==
  /\ pc[p] = "releasing"
  /\ Goto(p, IF lockFile = Mine(p) THEN "removing" ELSE "idle")
  /\ UNCHANGED <<lockFile, written, count>>

RemoveOwn(p) ==
  /\ pc[p] = "removing"
  /\ lockFile' = NoFile
  /\ Goto(p, "idle")
  /\ UNCHANGED <<written, count>>

Die(p) ==
  /\ Alive(p)
  /\ Goto(p, "dead")
  /\ UNCHANGED <<lockFile, written, count>>

Next == \E p \in Process :
  \/ Acquire(p) \/ Create(p) \/ WriteRecord(p) \/ WriteFails(p)
  \/ ReadOwner(p) \/ RemoveStale(p)
  \/ Release(p) \/ ReadOwn(p) \/ RemoveOwn(p)
  \/ Die(p)

Spec == Init /\ [][Next]_vars

-----------------------------------------------------------------------------
(***************************************************************************)
(* Properties.                                                             *)
(***************************************************************************)
Holders == {p \in Process : pc[p] = "held"}

\* PROJECT_LOCKING.md: "The application policy is one Project writer."
OneProjectWriter == \A p, q \in Holders : p = q

\* Creation, reading, takeover and removal exclude each other whatever their order
\* and whoever dies: a process that has the lock, or is about to, finds its own file
\* in place.  The exception is the one the code leaves open: two processes may judge
\* the same dead owner's lock stale, and the later one then removes the file of the
\* earlier.  So there are a dead process and two others of its host.
OwnersKeepTheirLock ==
  \A p \in Process : pc[p] \in {"writing", "held", "releasing", "removing"} =>
    \/ lockFile = Mine(p)
    \/ \E d \in Process : ~Alive(d) /\ \E q, r \in Process \ {d} :
         q # r /\ HostOf[q] = HostOf[d] /\ HostOf[r] = HostOf[d]
=============================================================================
