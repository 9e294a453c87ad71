--------------------------- MODULE ServiceCommands ---------------------------
(***************************************************************************)
(* One process of the application service over its one Project store:      *)
(* application-service index.ts executeProjectCommand, and `current` of    *)
(* persistence-sqlite index.ts.  A command names a Project by its path and *)
(* mostly a Run by its id; it opens the Project for itself when none is    *)
(* open and closes it again at its end.  Nothing keeps two commands apart, *)
(* and each storage call works on the Project that is current by then.     *)
(*                                                                         *)
(* What a call does to the rows of its Project is of the other modules:    *)
(* here a call is refused, for want of a Project, of the right one, or for *)
(* a reason of its own, or it changes that Project.  A Run is named by the *)
(* Project it belongs to.                                                  *)
(***************************************************************************)
EXTENDS Naturals, Sequences

CONSTANTS Task, Project, Nobody, MaxCommands, MaxConnections

VARIABLES
  current,         \* the connection in use, 0 when no Project is open
  connections,     \* the connections made so far: their Project and database
  lock,            \* who has the lock of a Project: a connection or 0
  vaults,          \* secretStores
  authentications, \* activeAuthentications: the Projects a login browser is open for
  pc, mem,
  strayed,         \* history: kinds of change made in another Project than was named
  unheld,          \* history: kinds of change made without the lock
  overlapped,      \* history: two commands ran side by side
  commands         \* bound

vars == <<current, connections, lock, vaults, authentications, pc, mem, strayed, unheld,
          overlapped, commands>>
history == <<strayed, unheld>>
store == <<current, connections, lock>>

Blank == [path |-> Nobody, run |-> Nobody, openedHere |-> FALSE, keepOpen |-> FALSE,
          project |-> Nobody, connection |-> 0, rest |-> <<>>, forGood |-> FALSE, visited |-> {}]

-----------------------------------------------------------------------------
(***************************************************************************)
(* What the commands do, as the storage calls they make one after another. *)
(***************************************************************************)
\* complete looks at the job, beats for its Lease and saves outputs before it completes.
QueuePrograms ==
  [queue |-> <<"queue">>, complete |-> <<"queue", "recovery", "recovery", "queue">>,
   fail |-> <<"queue", "recovery", "queue">>]

\* recovery, checkpoint, run and lease commands.
RecoveryPrograms == [control |-> <<"recovery">>]

\* enqueue compares the Profile and the Run with the current ones before it enters rows.
EnqueuePrograms == [enqueue |-> <<"profile", "thisRun", "queue", "queue">>]

\* executeRenderStart: the Run, the Profile, an earlier result, the claim with Heartbeats and
\* stages; the last stage and, in the same turn, the commit, which writes files, then rows.
RenderPrograms ==
  [render |-> <<"thisRun", "profile", "render", "recovery", "commit", "file", "rows">>,
   results |-> <<"render">>]

\* executeInteractionRun: both Profiles, claim and Checkpoint, trace, release of the Lease.
InteractionPrograms ==
  [interaction |-> <<"thisRun", "interactionProfile", "profile", "recovery", "recovery",
                     "interaction", "recovery">>,
   interactionProfile |-> <<"interactionProfile">>]

\* Site Profile and scope commands.
ProfilePrograms == [profile |-> <<"profile">>]

\* Secret commands work on the store of the Project that is open.
SecretPrograms == [secret |-> <<"vault", "secrets">>]

ProxyPrograms == [proxy |-> <<"vault", "proxy", "proxy">>]

\* open and reauthenticate; save, which ends the authentication; list, get, validate, delete.
SessionPrograms ==
  [login |-> <<"profile", "session", "session", "browser">>,
   save |-> <<"session", "vault", "session", "end">>,
   sessions |-> <<"session", "session">>]

Merge(a, b) == [k \in DOMAIN a \cup DOMAIN b |-> IF k \in DOMAIN a THEN a[k] ELSE b[k]]
Program ==
  Merge(QueuePrograms, Merge(RecoveryPrograms, Merge(EnqueuePrograms, Merge(RenderPrograms,
    Merge(InteractionPrograms, Merge(ProfilePrograms, Merge(SecretPrograms,
      Merge(ProxyPrograms, SessionPrograms))))))))

OfSession == DOMAIN SessionPrograms

-----------------------------------------------------------------------------
Goto(t, s) == pc' = [pc EXCEPT ![t] = s]
Done(t) == Goto(t, "idle") /\ mem' = [mem EXCEPT ![t] = Blank]
Here == connections[current].project
Lock(p, holder) == lock' = [lock EXCEPT ![p] = holder]

\* A change that connection c makes for a caller who named Project p.
Changed(rule, p, c) ==
  LET project == connections[c].project IN
  /\ strayed' = strayed \cup {r \in {rule} : p # project}
  /\ unheld' = unheld \cup {r \in {rule} : lock[project] # c}

Stages == {"idle", "opening", "opened", "operation", "closing", "leaving", "restoring", "locking",
           "close", "ending", "releasing"}

\* Types; an open Project has a connection.
TypeOK ==
  /\ current \in 0..Len(connections) /\ Len(connections) <= MaxConnections
  /\ \A c \in DOMAIN connections : connections[c] \in [project : Project, open : BOOLEAN]
  /\ lock \in [Project -> 0..MaxConnections]
  /\ vaults \in [Project -> {"none", "locked", "unlocked"}]
  /\ authentications \subseteq Project
  /\ pc \in [Task -> Stages]
  /\ \A t \in Task : mem[t].connection \in 0..MaxConnections
  /\ overlapped \in BOOLEAN

Init ==
  /\ current = 0 /\ connections = <<>> /\ lock = [p \in Project |-> 0]
  /\ vaults = [p \in Project |-> "none"] /\ authentications = {}
  /\ pc = [t \in Task |-> "idle"] /\ mem = [t \in Task |-> Blank]
  /\ strayed = {} /\ unheld = {} /\ overlapped = FALSE /\ commands = 0

-----------------------------------------------------------------------------
(***************************************************************************)
(* Beginning: everything up to the first await.                            *)
(***************************************************************************)
Enter(t, m) ==
  /\ commands' = commands + 1
  /\ mem' = [mem EXCEPT ![t] = m]
  /\ overlapped' = (overlapped \/ \E u \in Task : pc[u] # "idle")
  /\ UNCHANGED <<store, history>>

Start(t, p, r, calls, keep) ==
  Enter(t, [Blank EXCEPT !.path = p, !.run = r, !.rest = calls, !.keepOpen = keep,
                         !.openedHere = (current = 0),
                         !.project = IF current = 0 \/ calls = <<>> THEN Nobody ELSE Here])

\* withOpenProject: whichever Project is open will do.
WithOpenProject(t, kind, p, r) ==
  /\ kind \in DOMAIN Program \ OfSession
  /\ (r = Nobody) = (kind \in {"profile", "secret", "proxy", "interactionProfile"})
  /\ Start(t, p, r, Program[kind], FALSE)
  /\ Goto(t, IF current = 0 THEN "opening" ELSE "operation")
  /\ UNCHANGED <<vaults, authentications>>

\* A bug: no comparison with the Project that is open.
AnyProject(p) == TRUE

\* withSessionProject refuses when another Project is open.
SameProject(p) == current # 0 => Here = p

\* One login browser at a time; what is saved is the authentication of this Project.
WithSessionProject(t, kind, p) ==
  /\ kind \in OfSession
  /\ kind = "login" => authentications = {}
  /\ kind = "save" => p \in authentications
  /\ SameProject(p)
  /\ Start(t, p, Nobody, Program[kind], kind \in {"login", "save"})
  /\ Goto(t, IF current = 0 THEN "opening" ELSE "operation")
  /\ UNCHANGED <<vaults, authentications>>

\* project.open of the Project that is open, or of another while one is, changes nothing.
OpenProject(t, p) ==
  /\ current = 0
  /\ Start(t, p, Nobody, <<>>, TRUE)
  /\ Goto(t, "opening")
  /\ UNCHANGED <<vaults, authentications>>

\* A bug: the login browsers stay.
CloseKeepsBrowsers(t) ==
  /\ Enter(t, Blank) /\ Goto(t, "locking")
  /\ UNCHANGED <<vaults, authentications>>

\* project.close: the login browsers, then every secret store, then the Project.
CloseProject(t) ==
  /\ Enter(t, Blank) /\ Goto(t, "closing")
  /\ UNCHANGED <<vaults, authentications>>

\* close of the service: login browsers, secret stores for good, and the Project if any.
Shutdown(t) ==
  /\ Enter(t, [Blank EXCEPT !.forGood = TRUE]) /\ Goto(t, "closing")
  /\ UNCHANGED <<vaults, authentications>>

-----------------------------------------------------------------------------
(***************************************************************************)
(* storage.open, after its look at current.                                *)
(***************************************************************************)
\* The Project is valid and nobody has its lock, here or in another process; else the
\* command ends here.
AcquireLock(t) ==
  /\ pc[t] = "opening"
  /\ \/ /\ lock[mem[t].path] = 0 /\ Len(connections) < MaxConnections
        /\ connections' = Append(connections, [project |-> mem[t].path, open |-> TRUE])
        /\ Lock(mem[t].path, Len(connections'))
        /\ mem' = [mem EXCEPT ![t].connection = Len(connections')]
        /\ Goto(t, "opened")
     \/ Done(t) /\ UNCHANGED <<connections, lock>>
  /\ UNCHANGED <<current, vaults, authentications, history, overlapped, commands>>

\* current is set last of all, and the operation begins in the same turn of the event loop
\* with a look at it; a failure closes the database and releases the lock.
Opened(t) ==
  /\ pc[t] = "opened"
  /\ LET c == mem[t].connection IN
     \/ /\ current' = c
        /\ IF mem[t].rest = <<>> THEN Done(t)
           ELSE /\ Goto(t, "operation")
                /\ mem' = [mem EXCEPT ![t].connection = 0, ![t].project = mem[t].path]
        /\ UNCHANGED <<connections, lock>>
     \/ /\ connections' = [connections EXCEPT ![c].open = FALSE]
        /\ Lock(mem[t].path, 0)
        /\ Done(t)
        /\ UNCHANGED current
  /\ UNCHANGED <<vaults, authentications, history, overlapped, commands>>

-----------------------------------------------------------------------------
(***************************************************************************)
(* The operation, one storage call per step.                               *)
(***************************************************************************)
\* Every repository is made for the Project that is open at the time of the call.
IsOpen == current # 0

\* Rows of a Run are found by the Project and the Run the caller tells.
OwnsRun(t) == mem[t].project = Here /\ mem[t].run = Here
OwnsRows(t) == mem[t].project = Here

\* The calls of storage, by the repository they are forwarded to.
QueueCall(t, rule) == rule = "queue" /\ OwnsRun(t)
RecoveryCall(t, rule) == rule = "recovery" /\ OwnsRun(t)
RenderCall(t, rule) == rule \in {"render", "commit"} /\ OwnsRun(t)

\* A trace is saved for the job of a Run and under its Lease, a Profile for a Project.
OwnsTrace(t) == OwnsRun(t)
SavesTrace(t, rule) == rule = "interaction" /\ OwnsTrace(t)
SavesProfile(t, rule) == rule = "interactionProfile" /\ OwnsRows(t)
InteractionCall(t, rule) == SavesTrace(t, rule) \/ SavesProfile(t, rule)

SessionCall(t, rule) == rule = "session" /\ OwnsRows(t)
ProxyCall(t, rule) == rule = "proxy" /\ OwnsRows(t)

\* requireCurrent of the Profile commands compares the path.
IsCurrent(t, rule) == rule = "profile" /\ mem[t].path = Here

OnProject(t, rule) ==
  \/ QueueCall(t, rule) \/ RecoveryCall(t, rule) \/ RenderCall(t, rule) \/ InteractionCall(t, rule)
  \/ SessionCall(t, rule) \/ ProxyCall(t, rule) \/ IsCurrent(t, rule)

Granted(t, rule) ==
  CASE rule = "thisRun" -> mem[t].run = mem[t].project
    [] rule = "rows" -> connections[mem[t].connection].open
    [] rule \in {"file", "vault", "secrets", "browser", "end"} -> TRUE
    [] OTHER -> IsOpen /\ OnProject(t, rule)

\* The finally clauses: the store of the path is locked, then the Project closed, if the
\* command opened it and is not to keep it open.
Leave(t, failed) ==
  IF mem[t].openedHere /\ (mem[t].keepOpen => failed)
  THEN /\ Goto(t, "close")
       /\ vaults' = [vaults EXCEPT ![mem[t].path] = IF @ = "none" THEN "none" ELSE "locked"]
       /\ mem' = [mem EXCEPT ![t] = Blank]
  ELSE Done(t) /\ UNCHANGED vaults

\* What the next call changes; the row of a captured repository, a file, a secret store, the
\* table of login browsers.
Effect(t, rule) ==
  /\ CASE rule \in {"queue", "recovery", "render", "interaction", "commit"} ->
              Changed(rule, mem[t].run, current)
       [] rule \in {"profile", "session", "proxy", "interactionProfile"} ->
              Changed(rule, mem[t].path, current)
       [] rule \in {"file", "rows"} -> Changed(rule, mem[t].run, mem[t].connection)
       [] OTHER -> UNCHANGED history
  /\ authentications' = CASE rule = "browser" -> authentications \cup {mem[t].project}
                          [] rule = "end" -> authentications \ {mem[t].project}
                          [] OTHER -> authentications

\* getOrCreateSecretStore: the host's factory hands out a store as it likes.
SecretStore(t) ==
  IF vaults[mem[t].project] # "none" THEN UNCHANGED vaults
  ELSE \E s \in {"locked", "unlocked"} : vaults' = [vaults EXCEPT ![mem[t].project] = s]

Call(t) ==
  /\ pc[t] = "operation"
  /\ LET rule == Head(mem[t].rest) IN
     \/ /\ Granted(t, rule)
        /\ Effect(t, rule)
        /\ IF Len(mem[t].rest) = 1
           THEN Leave(t, FALSE)
           ELSE /\ mem' = [mem EXCEPT ![t].rest = Tail(@),
                                      ![t].connection = IF rule = "commit" THEN current ELSE @]
                /\ IF rule = "vault" THEN SecretStore(t) ELSE UNCHANGED vaults
                /\ UNCHANGED pc
     \/ Leave(t, TRUE) /\ UNCHANGED <<authentications, history>>
  /\ UNCHANGED <<store, overlapped, commands>>

-----------------------------------------------------------------------------
(***************************************************************************)
(* What project.close and the close of the service do before storage.close *)
(* runs, from one await to the next, while other commands go on.           *)
(***************************************************************************)
\* project.close takes each out of the table, the close of the service clears it in the end.
ToLeave(t) ==
  IF mem[t].forGood THEN authentications \ mem[t].visited ELSE authentications

NextBrowser(t) ==
  /\ pc[t] = "closing"
  /\ \/ \E p \in ToLeave(t) :
          /\ mem' = [mem EXCEPT ![t].project = p]
          /\ Goto(t, "leaving")
          /\ UNCHANGED authentications
     \/ /\ ToLeave(t) = {} /\ authentications' = {}
        /\ mem' = [mem EXCEPT ![t].visited = {}]
        /\ Goto(t, "locking")
  /\ UNCHANGED <<store, vaults, history, overlapped, commands>>

\* closeAuthentication: the browser has closed.  The Session of a reauthentication gets its
\* earlier metadata back if its Project is open by now.
LeaveBrowser(t) ==
  /\ pc[t] = "leaving"
  /\ IF mem[t].forGood
     THEN mem' = [mem EXCEPT ![t].visited = @ \cup {mem[t].project}] /\ UNCHANGED authentications
     ELSE authentications' = authentications \ {mem[t].project} /\ UNCHANGED mem
  /\ \/ Goto(t, "closing")
     \/ IsOpen /\ Here = mem[t].project /\ Goto(t, "restoring")
  /\ UNCHANGED <<store, vaults, history, overlapped, commands>>

\* restorePreviousMetadata, whose failure is swallowed.
RestoreSession(t) ==
  /\ pc[t] = "restoring"
  /\ \/ IsOpen /\ OwnsRows(t) /\ Changed("session", mem[t].project, current)
     \/ UNCHANGED history
  /\ Goto(t, "closing")
  /\ UNCHANGED <<store, vaults, authentications, mem, overlapped, commands>>

\* lockAllSecretStores, store by store; the close of the service forgets them then.
LockStores(t) ==
  /\ pc[t] = "locking"
  /\ \/ \E p \in Project \ mem[t].visited :
          /\ vaults[p] # "none"
          /\ vaults' = [vaults EXCEPT ![p] = "locked"]
          /\ mem' = [mem EXCEPT ![t].visited = @ \cup {p}]
          /\ UNCHANGED pc
     \/ /\ \A p \in Project \ mem[t].visited : vaults[p] = "none"
        /\ vaults' = IF mem[t].forGood THEN [p \in Project |-> "none"] ELSE vaults
        /\ Goto(t, "close") /\ mem' = [mem EXCEPT ![t] = Blank]
  /\ UNCHANGED <<store, authentications, history, overlapped, commands>>

-----------------------------------------------------------------------------
(***************************************************************************)
(* storage.close.                                                          *)
(***************************************************************************)
\* current goes first; then the execution session ends and the manifest is written.
Close(t) ==
  /\ pc[t] = "close"
  /\ \/ current = 0 /\ Done(t) /\ UNCHANGED <<current, history>>
     \/ /\ current # 0
        /\ Changed("close", Here, current)
        /\ current' = 0
        /\ Goto(t, "ending")
        /\ mem' = [mem EXCEPT ![t].connection = current]
  /\ UNCHANGED <<connections, lock, vaults, authentications, overlapped, commands>>

\* A bug: the lock is released before the database is closed.
ReleaseFirst(t) ==
  /\ pc[t] \in {"ending", "releasing"}
  /\ LET c == mem[t].connection IN
     IF pc[t] = "ending"
     THEN Goto(t, "releasing") /\ Lock(connections[c].project, 0) /\ UNCHANGED <<mem, connections>>
     ELSE connections' = [connections EXCEPT ![c].open = FALSE] /\ Done(t) /\ UNCHANGED lock
  /\ UNCHANGED <<current, vaults, authentications, history, overlapped, commands>>

\* The database is closed, then the lock released.
Release(t) ==
  /\ pc[t] \in {"ending", "releasing"}
  /\ LET c == mem[t].connection IN
     IF pc[t] = "ending"
     THEN Goto(t, "releasing") /\ connections' = [connections EXCEPT ![c].open = FALSE]
          /\ UNCHANGED <<mem, lock>>
     ELSE Lock(connections[c].project, 0) /\ Done(t) /\ UNCHANGED connections
  /\ UNCHANGED <<current, vaults, authentications, history, overlapped, commands>>

\* execute: a command of an unauthorised caller, or one that does not parse, is answered and
\* changes nothing, like system.describe.
Begin(t) ==
  \/ \E kind \in DOMAIN Program, p \in Project :
       \/ \E r \in Project \cup {Nobody} : WithOpenProject(t, kind, p, r)
       \/ WithSessionProject(t, kind, p)
  \/ \E p \in Project : OpenProject(t, p)
  \/ CloseProject(t) \/ Shutdown(t)

Next ==
  \E t \in Task :
    \/ pc[t] = "idle" /\ commands < MaxCommands /\ Begin(t)
    \/ AcquireLock(t) \/ Opened(t)
    \/ Call(t)
    \/ NextBrowser(t) \/ LeaveBrowser(t) \/ RestoreSession(t) \/ LockStores(t)
    \/ Close(t) \/ Release(t)

Spec == Init /\ [][Next]_vars

-----------------------------------------------------------------------------
\* A command changes the Project whose Run, path or Session it names, and no other, however
\* Projects are closed and opened under it.  Not so the commands on proxies and on Interaction
\* Profiles, which look at no path once a Project is open (StrictlyTheirProject).
ChangesStayInTheirProject == strayed \subseteq {"proxy", "interactionProfile"}

\* A row is changed only under the lock of its Project, also by a call that was in flight
\* when the Project was closed, and a Project that is open is locked.
ChangesAreMadeUnderTheLock ==
  /\ unheld \subseteq {"file"}
  /\ current # 0 => lock[Here] = current /\ connections[current].open

\* Nothing of a Project is left when commands came one at a time and all have ended: no
\* lock, database or unlocked secret store unless it is open, and a login browser has its
\* Project open.
QuietServiceIsTidy ==
  ~overlapped /\ (\A t \in Task : pc[t] = "idle") =>
    /\ \A c \in DOMAIN connections : c # current => ~connections[c].open
    /\ \A p \in Project : lock[p] \in {0, current}
    /\ \A p \in Project :
         vaults[p] = "unlocked" \/ p \in authentications => current # 0 /\ Here = p

(***************************************************************************)
(* Statements the program does not keep (see the README).                  *)
(***************************************************************************)
\* No command at all changes a Project its caller did not name: a proxy command does.
StrictlyTheirProject == strayed = {}

\* Files of a Project are written under its lock: a commit in flight writes its HTML after
\* the Project was closed.
FilesAreWrittenUnderTheLock == unheld = {}

\* The same when commands overlapped: two opens side by side leave the lock of one for good.
OverlappedServiceIsTidy ==
  (\A t \in Task : pc[t] = "idle") =>
    \A c \in DOMAIN connections : c # current => ~connections[c].open
==============================================================================
