---------------------------- MODULE ServiceProofs ----------------------------
(***************************************************************************)
(* What the commands of the application service keep, for any number of    *)
(* tasks, Projects, commands and connections: a command changes the        *)
(* Project it named, rows change under the lock of their Project, and      *)
(* commands that came one at a time leave nothing of a Project behind.     *)
(* The last part is about the commands that enter addresses into the       *)
(* queue, ScopeQueue.                                                      *)
(***************************************************************************)
EXTENDS ServiceCommands, TLAPS

\* "Nobody" is no Project.
Constants == Nobody \notin Project /\ MaxConnections \in Nat

-----------------------------------------------------------------------------
(***************************************************************************)
(* What the programs of the commands have in common.                       *)
(***************************************************************************)
Rules == {"queue", "recovery", "profile", "thisRun", "render", "commit", "file", "rows",
          "interaction", "interactionProfile", "vault", "secrets", "proxy", "session", "browser",
          "end"}

Mentions(calls, rule) == \E n \in 1..Len(calls) : calls[n] = rule

\* What a render writes last goes to what its commit found open, and a login browser is
\* opened by the last call.
Continues(calls) ==
  /\ calls \in Seq(Rules) /\ Len(calls) >= 1
  /\ \A n \in 1..Len(calls) :
       /\ n > 1 /\ calls[n] \in {"file", "rows"} => calls[n - 1] \in {"commit", "file"}
       /\ calls[n] = "browser" => n = Len(calls)

\* Only session commands, which have compared the Project with the one that is open, work on
\* Session rows, and only login opens a browser.
Fine(programs) ==
  \A kind \in DOMAIN programs :
    /\ Continues(programs[kind]) /\ programs[kind][1] \notin {"file", "rows"}
    /\ Mentions(programs[kind], "session") => kind \in OfSession
    /\ Mentions(programs[kind], "browser") => kind = "login"

-----------------------------------------------------------------------------
(***************************************************************************)
(* The inductive invariant: types, the lock and the database of each       *)
(* connection, where a command's calls go, and what is left of a Project   *)
(* while commands came one at a time.                                      *)
(***************************************************************************)
Connection == [project : Project, open : BOOLEAN]
Memory == [path : Project \cup {Nobody}, run : Project \cup {Nobody}, openedHere : BOOLEAN,
           keepOpen : BOOLEAN, project : Project \cup {Nobody}, connection : Nat, rest : Seq(Rules),
           forGood : BOOLEAN, visited : SUBSET Project]

\* What a command knows at its stage.
Knows(t) ==
  /\ pc[t] \in {"opening", "opened", "operation"} => mem[t].path \in Project
  /\ pc[t] = "operation" => mem[t].project \in Project /\ Continues(mem[t].rest)
  /\ pc[t] \in {"opening", "opened"} /\ mem[t].rest # <<>> =>
       Continues(mem[t].rest) /\ mem[t].rest[1] \notin {"file", "rows"}
  /\ pc[t] = "leaving" => mem[t].project \in Project

CommandsTyped ==
  pc \in [Task -> Stages] /\ mem \in [Task -> Memory] /\ \A t \in Task : Knows(t)

Typed ==
  /\ connections \in Seq(Connection) /\ current \in 0..Len(connections)
  /\ lock \in [Project -> 0..Len(connections)]
  /\ vaults \in [Project -> {"none", "locked", "unlocked"}] /\ authentications \subseteq Project
  /\ CommandsTyped

\* The stages at which a connection is in the hands of a command.
Handles == {"opened", "ending", "releasing"}

\* Whoever has the lock of a Project is its open connection, or is about to release it.
InHand(t) ==
  LET c == mem[t].connection IN
  /\ pc[t] \in Handles => c \in DOMAIN connections /\ lock[connections[c].project] = c
  /\ pc[t] \in {"opened", "ending"} => connections[c].open /\ c # current
  /\ pc[t] = "opened" => connections[c].project = mem[t].path
  /\ pc[t] = "releasing" => ~connections[c].open

Locked ==
  /\ \A c \in DOMAIN connections : connections[c].open => lock[connections[c].project] = c
  /\ current # 0 => connections[current].open
  /\ \A t \in Task : InHand(t)
  /\ \A t, u \in Task : pc[t] \in Handles /\ pc[u] \in Handles /\ t # u =>
       mem[t].connection # mem[u].connection

\* The lock of a Project is in the name of a connection to it.
Owned == \A p \in Project : lock[p] # 0 => connections[lock[p]].project = p

\* Session commands work on their own Project, and a render ends in its Run's.
Aims(t) ==
  pc[t] = "operation" =>
    /\ Mentions(mem[t].rest, "session") => mem[t].path = mem[t].project
    /\ mem[t].rest[1] \in {"file", "rows"} =>
         /\ mem[t].connection \in DOMAIN connections
         /\ connections[mem[t].connection].project = mem[t].run

Aimed == \A t \in Task : Aims(t)

Held ==
  /\ strayed \subseteq {"proxy", "interactionProfile"}
  /\ unheld \subseteq {"file"}

Alone == \A t, u \in Task : pc[t] # "idle" /\ pc[u] # "idle" => t = u

\* A Project that has an unlocked secret store or a login browser is open.
NothingElseUnlocked ==
  \A p \in Project : vaults[p] = "unlocked" \/ p \in authentications => current # 0 /\ Here = p

NothingUnlocked ==
  authentications = {} /\ \A p \in Project : vaults[p] # "unlocked"

\* What the only command at work leaves to be closed, and what it has closed already.
Works(t) ==
  /\ pc[t] \in {"opening"} \cup Handles => current = 0
  /\ pc[t] \in {"opening", "opened"} => mem[t].openedHere
  /\ pc[t] = "operation" =>
       /\ current # 0 /\ mem[t].project = Here
       /\ mem[t].openedHere => mem[t].path = Here /\ authentications = {}
  /\ pc[t] \in {"opening", "opened", "operation"} /\ Mentions(mem[t].rest, "browser") =>
       mem[t].keepOpen
  /\ pc[t] = "locking" =>
       authentications = {} /\ \A p \in mem[t].visited : vaults[p] # "unlocked"
  /\ pc[t] = "close" => NothingUnlocked

Tidy ==
  /\ Alone /\ NothingElseUnlocked /\ \A t \in Task : Works(t)
  /\ \A c \in DOMAIN connections : connections[c].open /\ c # current =>
       \E t \in Task : pc[t] \in {"opened", "ending"} /\ mem[t].connection = c
  /\ \A p \in Project : lock[p] \notin {0, current} =>
       \E t \in Task : pc[t] \in Handles /\ mem[t].connection = lock[p]

ServiceInv == Typed /\ Locked /\ Owned /\ Aimed /\ Held /\ (~overlapped => Tidy)

-----------------------------------------------------------------------------
(***************************************************************************)
(* Programs.                                                               *)
(***************************************************************************)
LEMMA MergeFine ==
  ASSUME NEW a, NEW b, Fine(a), Fine(b) PROVE Fine(Merge(a, b))
<1>1. DOMAIN Merge(a, b) = DOMAIN a \cup DOMAIN b BY DEF Merge
<1>2. ASSUME NEW k \in DOMAIN Merge(a, b)
      PROVE  \/ k \in DOMAIN a /\ Merge(a, b)[k] = a[k]
             \/ k \in DOMAIN b /\ Merge(a, b)[k] = b[k]
  BY DEF Merge
<1>3. QED BY <1>2 DEF Fine

\* A group of programs, none of which opens a browser or works on Session rows.
PlainCalls(calls) ==
  calls[1] \notin {"file", "rows"} /\ ~Mentions(calls, "session") /\ ~Mentions(calls, "browser")

Plain(programs) ==
  \A kind \in DOMAIN programs : Continues(programs[kind]) /\ PlainCalls(programs[kind])

LEMMA PlainIsFine ==
  ASSUME NEW programs, Plain(programs) PROVE Fine(programs)
BY DEF Plain, PlainCalls, Fine

LEMMA ProgramsAreFine == Fine(Program)
<1>1. Fine(QueuePrograms)
  <2>1. DOMAIN QueuePrograms = {"queue", "complete", "fail"} BY DEF QueuePrograms
  <2>2. Continues(QueuePrograms.queue) /\ PlainCalls(QueuePrograms.queue)
    <3>1. Continues(QueuePrograms.queue) BY DEF QueuePrograms, Continues, Rules
    <3>2. PlainCalls(QueuePrograms.queue) BY DEF QueuePrograms, PlainCalls, Mentions
    <3>3. QED BY <3>1, <3>2
  <2>3. Continues(QueuePrograms.complete) /\ PlainCalls(QueuePrograms.complete)
    <3>1. Continues(QueuePrograms.complete) BY DEF QueuePrograms, Continues, Rules
    <3>2. PlainCalls(QueuePrograms.complete) BY DEF QueuePrograms, PlainCalls, Mentions
    <3>3. QED BY <3>1, <3>2
  <2>4. Continues(QueuePrograms.fail) /\ PlainCalls(QueuePrograms.fail)
    <3>1. Continues(QueuePrograms.fail) BY DEF QueuePrograms, Continues, Rules
    <3>2. PlainCalls(QueuePrograms.fail) BY DEF QueuePrograms, PlainCalls, Mentions
    <3>3. QED BY <3>1, <3>2
  <2>5. QED BY <2>1, <2>2, <2>3, <2>4, PlainIsFine DEF Plain
<1>2. Fine(RecoveryPrograms)
  <2>1. DOMAIN RecoveryPrograms = {"control"} BY DEF RecoveryPrograms
  <2>2. Continues(RecoveryPrograms.control) /\ PlainCalls(RecoveryPrograms.control)
    <3>1. Continues(RecoveryPrograms.control) BY DEF RecoveryPrograms, Continues, Rules
    <3>2. PlainCalls(RecoveryPrograms.control) BY DEF RecoveryPrograms, PlainCalls, Mentions
    <3>3. QED BY <3>1, <3>2
  <2>3. QED BY <2>1, <2>2, PlainIsFine DEF Plain
<1>3. Fine(EnqueuePrograms)
  <2>1. DOMAIN EnqueuePrograms = {"enqueue"} BY DEF EnqueuePrograms
  <2>2. Continues(EnqueuePrograms.enqueue) /\ PlainCalls(EnqueuePrograms.enqueue)
    <3>1. Continues(EnqueuePrograms.enqueue) BY DEF EnqueuePrograms, Continues, Rules
    <3>2. PlainCalls(EnqueuePrograms.enqueue) BY DEF EnqueuePrograms, PlainCalls, Mentions
    <3>3. QED BY <3>1, <3>2
  <2>3. QED BY <2>1, <2>2, PlainIsFine DEF Plain
<1>4. Fine(RenderPrograms)
  <2>1. DOMAIN RenderPrograms = {"render", "results"} BY DEF RenderPrograms
  <2>2. Continues(RenderPrograms.render) /\ PlainCalls(RenderPrograms.render)
    <3>1. Continues(RenderPrograms.render) BY DEF RenderPrograms, Continues, Rules
    <3>2. PlainCalls(RenderPrograms.render) BY DEF RenderPrograms, PlainCalls, Mentions
    <3>3. QED BY <3>1, <3>2
  <2>3. Continues(RenderPrograms.results) /\ PlainCalls(RenderPrograms.results)
    <3>1. Continues(RenderPrograms.results) BY DEF RenderPrograms, Continues, Rules
    <3>2. PlainCalls(RenderPrograms.results) BY DEF RenderPrograms, PlainCalls, Mentions
    <3>3. QED BY <3>1, <3>2
  <2>4. QED BY <2>1, <2>2, <2>3, PlainIsFine DEF Plain
<1>5. Fine(InteractionPrograms)
  <2>1. DOMAIN InteractionPrograms = {"interaction", "interactionProfile"} BY DEF InteractionPrograms
  <2>2. Continues(InteractionPrograms.interaction) /\ PlainCalls(InteractionPrograms.interaction)
    <3>1. Continues(InteractionPrograms.interaction) BY DEF InteractionPrograms, Continues, Rules
    <3>2. PlainCalls(InteractionPrograms.interaction)
      BY DEF InteractionPrograms, PlainCalls, Mentions
    <3>3. QED BY <3>1, <3>2
  <2>3. /\ Continues(InteractionPrograms.interactionProfile)
        /\ PlainCalls(InteractionPrograms.interactionProfile)
    <3>1. Continues(InteractionPrograms.interactionProfile)
      BY DEF InteractionPrograms, Continues, Rules
    <3>2. PlainCalls(InteractionPrograms.interactionProfile)
      BY DEF InteractionPrograms, PlainCalls, Mentions
    <3>3. QED BY <3>1, <3>2
  <2>4. QED BY <2>1, <2>2, <2>3, PlainIsFine DEF Plain
<1>6. Fine(ProfilePrograms)
  <2>1. DOMAIN ProfilePrograms = {"profile"} BY DEF ProfilePrograms
  <2>2. Continues(ProfilePrograms.profile) /\ PlainCalls(ProfilePrograms.profile)
    <3>1. Continues(ProfilePrograms.profile) BY DEF ProfilePrograms, Continues, Rules
    <3>2. PlainCalls(ProfilePrograms.profile) BY DEF ProfilePrograms, PlainCalls, Mentions
    <3>3. QED BY <3>1, <3>2
  <2>3. QED BY <2>1, <2>2, PlainIsFine DEF Plain
<1>7. Fine(SecretPrograms)
  <2>1. DOMAIN SecretPrograms = {"secret"} BY DEF SecretPrograms
  <2>2. Continues(SecretPrograms.secret) /\ PlainCalls(SecretPrograms.secret)
    <3>1. Continues(SecretPrograms.secret) BY DEF SecretPrograms, Continues, Rules
    <3>2. PlainCalls(SecretPrograms.secret) BY DEF SecretPrograms, PlainCalls, Mentions
    <3>3. QED BY <3>1, <3>2
  <2>3. QED BY <2>1, <2>2, PlainIsFine DEF Plain
<1>8. Fine(ProxyPrograms)
  <2>1. DOMAIN ProxyPrograms = {"proxy"} BY DEF ProxyPrograms
  <2>2. Continues(ProxyPrograms.proxy) /\ PlainCalls(ProxyPrograms.proxy)
    <3>1. Continues(ProxyPrograms.proxy) BY DEF ProxyPrograms, Continues, Rules
    <3>2. PlainCalls(ProxyPrograms.proxy) BY DEF ProxyPrograms, PlainCalls, Mentions
    <3>3. QED BY <3>1, <3>2
  <2>3. QED BY <2>1, <2>2, PlainIsFine DEF Plain
<1>9. Fine(SessionPrograms)
  <2>1. DOMAIN SessionPrograms = {"login", "save", "sessions"} BY DEF SessionPrograms
  <2>2. /\ Continues(SessionPrograms.login)
        /\ Continues(SessionPrograms.save)
        /\ Continues(SessionPrograms.sessions)
    BY DEF SessionPrograms, Continues, Rules
  <2>3. \A kind \in DOMAIN SessionPrograms : Continues(SessionPrograms[kind]) BY <2>1, <2>2
  <2>4. ASSUME NEW kind \in DOMAIN SessionPrograms
        PROVE  /\ SessionPrograms[kind][1] \notin {"file", "rows"}
               /\ Mentions(SessionPrograms[kind], "browser") => kind = "login"
    BY DEF SessionPrograms, Mentions
  <2>5. QED BY <2>3, <2>4 DEF Fine, OfSession
<1>10. QED
  BY <1>1, <1>2, <1>3, <1>4, <1>5, <1>6, <1>7, <1>8, <1>9, MergeFine DEF Program

\* The rest of a program after its first call.
LEMMA TailContinues ==
  ASSUME NEW calls, Continues(calls), Len(calls) # 1
  PROVE  /\ Continues(Tail(calls)) /\ Head(calls) = calls[1]
         /\ \A rule : Mentions(Tail(calls), rule) => Mentions(calls, rule)
         /\ Tail(calls)[1] \in {"file", "rows"} => calls[1] \in {"commit", "file"}
         /\ calls[1] # "browser"
<1>1. calls \in Seq(Rules) /\ Len(calls) \in Nat /\ Len(calls) >= 2 BY DEF Continues
<1> DEFINE rest == Tail(calls)
<1>2. /\ rest \in Seq(Rules) /\ Len(rest) = Len(calls) - 1 /\ Head(calls) = calls[1]
      /\ \A n \in 1..Len(rest) : rest[n] = calls[n + 1]
  BY <1>1
<1> HIDE DEF rest
<1>3. Continues(rest)
  <2>1. ASSUME NEW n \in 1..Len(rest)
        PROVE  /\ n > 1 /\ rest[n] \in {"file", "rows"} => rest[n - 1] \in {"commit", "file"}
               /\ rest[n] = "browser" => n = Len(rest)
    <3>1. n + 1 \in 1..Len(calls) /\ rest[n] = calls[n + 1] BY <1>1, <1>2
    <3>2. n > 1 => n - 1 \in 1..Len(rest) /\ rest[n - 1] = calls[n] BY <1>1, <1>2
    <3>3. calls[n + 1] \in {"file", "rows"} => calls[n] \in {"commit", "file"}
      BY <1>1, <3>1 DEF Continues
    <3>4. calls[n + 1] = "browser" => n + 1 = Len(calls) BY <3>1 DEF Continues
    <3>5. QED BY <1>1, <1>2, <3>1, <3>2, <3>3, <3>4
  <2>2. QED BY <1>1, <1>2, <2>1 DEF Continues
<1>4. ASSUME NEW rule, Mentions(rest, rule) PROVE Mentions(calls, rule)
  <2>1. PICK n \in 1..Len(rest) : rest[n] = rule BY <1>4 DEF Mentions
  <2>2. n + 1 \in 1..Len(calls) /\ calls[n + 1] = rule BY <1>1, <1>2, <2>1
  <2>3. QED BY <2>2 DEF Mentions
<1>5. rest[1] = calls[2] /\ 1 \in 1..Len(calls) /\ 2 \in 1..Len(calls) BY <1>1, <1>2
<1>6. /\ calls[2] \in {"file", "rows"} => calls[1] \in {"commit", "file"}
      /\ calls[1] = "browser" => 1 = Len(calls)
  BY <1>5 DEF Continues
<1>7. QED BY <1>1, <1>2, <1>3, <1>4, <1>5, <1>6 DEF rest

-----------------------------------------------------------------------------
(***************************************************************************)
(* Types.                                                                  *)
(***************************************************************************)
LEMMA BlankTyped == Blank \in Memory
<1>1. <<>> \in Seq(Rules) OBVIOUS
<1>2. QED BY <1>1 DEF Blank, Memory

\* The stage and the memory of one command change.
Moves(t, s, m) == pc' = [pc EXCEPT ![t] = s] /\ mem' = [mem EXCEPT ![t] = m]

\* What is known at a stage, as an operator of stage and memory.
KnowsAt(m, s) ==
  /\ s \in {"opening", "opened", "operation"} => m.path \in Project
  /\ s = "operation" => m.project \in Project /\ Continues(m.rest)
  /\ s \in {"opening", "opened"} /\ m.rest # <<>> =>
       Continues(m.rest) /\ m.rest[1] \notin {"file", "rows"}
  /\ s = "leaving" => m.project \in Project

LEMMA MovesTyped ==
  ASSUME CommandsTyped, NEW t \in Task, NEW s \in Stages, NEW m \in Memory, Moves(t, s, m),
         KnowsAt(m, s)
  PROVE  CommandsTyped'
<1>1. pc' \in [Task -> Stages] /\ mem' \in [Task -> Memory] BY DEF CommandsTyped, Moves
<1>2. ASSUME NEW u \in Task PROVE Knows(u)'
  <2>1. CASE u = t
    <3>1. pc'[u] = s /\ mem'[u] = m BY <2>1 DEF CommandsTyped, Moves
    <3>2. QED BY <3>1 DEF KnowsAt, Knows
  <2>2. CASE u # t
    <3>1. pc'[u] = pc[u] /\ mem'[u] = mem[u] /\ Knows(u) BY <2>2 DEF CommandsTyped, Moves
    <3>2. QED BY <3>1 DEF Knows
  <2>3. QED BY <2>1, <2>2
<1>3. QED BY <1>1, <1>2 DEF CommandsTyped

LEMMA DoneTyped ==
  ASSUME CommandsTyped, NEW t \in Task, NEW s \in {"idle", "close"}, Moves(t, s, Blank)
  PROVE  CommandsTyped'
BY MovesTyped, BlankTyped DEF KnowsAt, Stages

\* The connections, of which one closes or is made.
LEMMA ClosedConnections ==
  ASSUME NEW s \in Seq(Connection), NEW c \in 1..Len(s)
  PROVE  LET r == [s EXCEPT ![c].open = FALSE] IN
         /\ r \in Seq(Connection) /\ Len(r) = Len(s) /\ ~r[c].open
         /\ \A d \in 1..Len(s) : r[d].project = s[d].project /\ (d # c => r[d] = s[d])
<1> DEFINE r == [s EXCEPT ![c].open = FALSE]
<1>1. s \in [1..Len(s) -> Connection] /\ Len(s) \in Nat OBVIOUS
<1>2. s[c] \in Connection OBVIOUS
<1>3. [s[c] EXCEPT !.open = FALSE] \in Connection BY <1>2 DEF Connection
<1>4. r = [s EXCEPT ![c] = [s[c] EXCEPT !.open = FALSE]] OBVIOUS
<1>5. r \in [1..Len(s) -> Connection] BY <1>1, <1>3, <1>4
<1>6. r \in Seq(Connection) /\ Len(r) = Len(s) BY <1>1, <1>5
<1>7. /\ \A d \in 1..Len(s) : d # c => r[d] = s[d]
      /\ r[c] = [s[c] EXCEPT !.open = FALSE]
  BY <1>1, <1>4
<1>8. r[c].project = s[c].project /\ ~r[c].open BY <1>2, <1>7 DEF Connection
<1>9. QED BY <1>6, <1>7, <1>8

LEMMA MadeConnection ==
  ASSUME NEW s \in Seq(Connection), NEW x \in Connection
  PROVE  LET r == Append(s, x) IN
         /\ r \in Seq(Connection) /\ Len(r) = Len(s) + 1 /\ r[Len(s) + 1] = x
         /\ \A d \in 1..Len(s) : r[d] = s[d]
OBVIOUS

-----------------------------------------------------------------------------
(***************************************************************************)
(* The steps, each as what it does to the stage and memory of its command. *)
(***************************************************************************)
Begun(p, r, calls, keep) ==
  [Blank EXCEPT !.path = p, !.run = r, !.rest = calls, !.keepOpen = keep,
                !.openedHere = (current = 0),
                !.project = IF current = 0 \/ calls = <<>> THEN Nobody ELSE Here]

LEMMA BegunHas ==
  ASSUME NEW p, NEW r, NEW calls, NEW keep
  PROVE  LET m == Begun(p, r, calls, keep) IN
         /\ m.path = p /\ m.run = r /\ m.rest = calls /\ m.keepOpen = keep
         /\ m.openedHere = (current = 0) /\ m.connection = 0
         /\ m.project = IF current = 0 \/ calls = <<>> THEN Nobody ELSE Here
BY DEF Begun, Blank

\* A command that works on a Project begins.
BeginsWork(t, p, r, calls, keep) ==
  /\ Moves(t, IF current = 0 THEN "opening" ELSE "operation", Begun(p, r, calls, keep))
  /\ p \in Project /\ r \in Project \cup {Nobody} /\ keep \in BOOLEAN
  /\ \/ calls = <<>> /\ current = 0
     \/ Continues(calls) /\ calls[1] \notin {"file", "rows"}
  /\ Mentions(calls, "session") => SameProject(p)
  /\ Mentions(calls, "browser") => keep
  /\ UNCHANGED <<store, vaults, authentications, history>>

\* A command that closes whatever is open begins.
BeginsClose(t) ==
  /\ \E m \in Memory : Moves(t, "closing", m)
  /\ UNCHANGED <<store, vaults, authentications, history>>

Begins(t) == pc[t] = "idle" /\ commands < MaxCommands /\ Begin(t)

LEMMA EmptyMentions == \A rule : ~Mentions(<<>>, rule)
BY DEF Mentions

LEMMA BeginCases ==
  ASSUME Typed, NEW t \in Task, Begins(t)
  PROVE  /\ (\E p, r, calls, keep : BeginsWork(t, p, r, calls, keep)) \/ BeginsClose(t)
         /\ overlapped' = (overlapped \/ \E u \in Task : pc[u] # "idle")
         /\ pc[t] = "idle"
<1>1. overlapped' = (overlapped \/ \E u \in Task : pc[u] # "idle") /\ pc[t] = "idle"
  BY DEF Begins, Begin, WithOpenProject, WithSessionProject, OpenProject, CloseProject, Shutdown,
         Start, Enter
<1>2. ASSUME NEW p, NEW r, NEW calls, NEW keep, Start(t, p, r, calls, keep)
      PROVE  /\ mem' = [mem EXCEPT ![t] = Begun(p, r, calls, keep)] /\ UNCHANGED <<store, history>>
  BY <1>2 DEF Start, Enter, Begun
<1>3. ASSUME NEW kind \in DOMAIN Program, NEW p \in Project, NEW r \in Project \cup {Nobody},
             WithOpenProject(t, kind, p, r)
      PROVE  BeginsWork(t, p, r, Program[kind], FALSE)
  <2>1. /\ Continues(Program[kind]) /\ Program[kind][1] \notin {"file", "rows"}
        /\ Mentions(Program[kind], "session") => kind \in OfSession
        /\ Mentions(Program[kind], "browser") => kind = "login"
    BY ProgramsAreFine DEF Fine
  <2>2. kind \notin OfSession /\ "login" \in OfSession
    BY <1>3 DEF WithOpenProject, OfSession, SessionPrograms
  <2>3. ~Mentions(Program[kind], "session") /\ ~Mentions(Program[kind], "browser")
    BY <2>1, <2>2
  <2>4. Start(t, p, r, Program[kind], FALSE) BY <1>3 DEF WithOpenProject
  <2>5. pc' = [pc EXCEPT ![t] = IF current = 0 THEN "opening" ELSE "operation"]
        /\ UNCHANGED <<vaults, authentications>>
    BY <1>3 DEF WithOpenProject, Goto
  <2>6. QED BY <1>2, <2>1, <2>3, <2>4, <2>5 DEF BeginsWork, Moves
<1>4. ASSUME NEW kind \in DOMAIN Program, NEW p \in Project, WithSessionProject(t, kind, p)
      PROVE  BeginsWork(t, p, Nobody, Program[kind], kind \in {"login", "save"})
  <2>1. /\ Continues(Program[kind]) /\ Program[kind][1] \notin {"file", "rows"}
        /\ Mentions(Program[kind], "browser") => kind = "login"
    BY ProgramsAreFine DEF Fine
  <2>2. Mentions(Program[kind], "browser") => kind \in {"login", "save"} BY <2>1
  <2>3. QED BY <1>2, <1>4, <2>1, <2>2 DEF WithSessionProject, BeginsWork, Moves, Goto
<1>5. ASSUME NEW p \in Project, OpenProject(t, p) PROVE BeginsWork(t, p, Nobody, <<>>, TRUE)
  BY <1>2, <1>5, EmptyMentions DEF OpenProject, BeginsWork, Moves, Goto
<1>6. ASSUME CloseProject(t) \/ Shutdown(t) PROVE BeginsClose(t)
  <2>1. PICK m \in Memory : Enter(t, m) /\ Goto(t, "closing")
    <3>1. [Blank EXCEPT !.forGood = TRUE] \in Memory BY BlankTyped DEF Memory
    <3>2. QED BY <1>6, <3>1, BlankTyped DEF CloseProject, Shutdown
  <2>2. Moves(t, "closing", m) /\ UNCHANGED <<store, history>>
    BY <2>1 DEF Enter, Goto, Moves
  <2>3. UNCHANGED <<vaults, authentications>> BY <1>6 DEF CloseProject, Shutdown
  <2>4. QED BY <2>2, <2>3 DEF BeginsClose
<1>7. QED BY <1>1, <1>3, <1>4, <1>5, <1>6 DEF Begins, Begin

Bound(t, c) == [mem[t] EXCEPT !.connection = c]
Entered(t) == [mem[t] EXCEPT !.connection = 0, !.project = mem[t].path]
Further(t) ==
  [mem[t] EXCEPT !.rest = Tail(mem[t].rest),
                 !.connection = IF Head(mem[t].rest) = "commit" THEN current
                                ELSE mem[t].connection]
Stops(t) == Moves(t, "idle", Blank)

Acquires(t) ==
  LET c == Len(connections) + 1 IN
  /\ lock[mem[t].path] = 0
  /\ connections' = Append(connections, [project |-> mem[t].path, open |-> TRUE])
  /\ lock' = [lock EXCEPT ![mem[t].path] = c] /\ Moves(t, "opened", Bound(t, c))

LEMMA AcquireCases ==
  ASSUME Typed, NEW t \in Task, AcquireLock(t)
  PROVE  /\ pc[t] = "opening" /\ UNCHANGED <<current, vaults, authentications, history, overlapped>>
         /\ \/ Acquires(t)
            \/ Stops(t) /\ UNCHANGED <<connections, lock>>
<1>1. CASE Done(t) /\ UNCHANGED <<connections, lock>>
  BY <1>1 DEF AcquireLock, Done, Goto, Stops, Moves
<1>2. CASE /\ lock[mem[t].path] = 0
           /\ connections' = Append(connections, [project |-> mem[t].path, open |-> TRUE])
           /\ Lock(mem[t].path, Len(connections'))
           /\ mem' = [mem EXCEPT ![t].connection = Len(connections')]
           /\ Goto(t, "opened")
  <2>1. mem[t].path \in Project BY DEF AcquireLock, Typed, CommandsTyped, Knows
  <2>2. [project |-> mem[t].path, open |-> TRUE] \in Connection BY <2>1 DEF Connection
  <2>3. Len(connections') = Len(connections) + 1 BY <1>2, <2>2, MadeConnection DEF Typed
  <2>4. mem' = [mem EXCEPT ![t] = Bound(t, Len(connections) + 1)] BY <1>2, <2>3 DEF Bound
  <2>5. lock' = [lock EXCEPT ![mem[t].path] = Len(connections) + 1] BY <1>2, <2>3 DEF Lock
  <2>6. Moves(t, "opened", Bound(t, Len(connections) + 1)) BY <1>2, <2>4 DEF Moves, Goto
  <2>7. Acquires(t) BY <1>2, <2>5, <2>6 DEF Acquires
  <2>8. QED BY <2>7 DEF AcquireLock
<1>3. QED BY <1>1, <1>2 DEF AcquireLock

LEMMA OpenedCases ==
  ASSUME Typed, NEW t \in Task, Opened(t)
  PROVE  /\ pc[t] = "opened" /\ UNCHANGED <<vaults, authentications, history, overlapped>>
         /\ \/ /\ current' = mem[t].connection /\ UNCHANGED <<connections, lock>>
               /\ \/ Stops(t)
                  \/ mem[t].rest # <<>> /\ Moves(t, "operation", Entered(t))
            \/ /\ connections' = [connections EXCEPT ![mem[t].connection].open = FALSE]
               /\ lock' = [lock EXCEPT ![mem[t].path] = 0]
               /\ Stops(t) /\ UNCHANGED current
<1>1. ASSUME mem' = [mem EXCEPT ![t].connection = 0, ![t].project = mem[t].path]
      PROVE  mem' = [mem EXCEPT ![t] = Entered(t)]
  BY <1>1 DEF Entered, Typed, CommandsTyped
<1>2. QED BY <1>1 DEF Opened, Stops, Moves, Goto, Done, Lock

Leaves(t, failed) ==
  \/ /\ mem[t].openedHere /\ (mem[t].keepOpen => failed)
     /\ Moves(t, "close", Blank)
     /\ vaults' = [vaults EXCEPT ![mem[t].path] = IF @ = "none" THEN "none" ELSE "locked"]
  \/ /\ ~(mem[t].openedHere /\ (mem[t].keepOpen => failed))
     /\ Stops(t) /\ UNCHANGED vaults

LEMMA CallCases ==
  ASSUME Typed, NEW t \in Task, Call(t)
  PROVE  LET rule == mem[t].rest[1] IN
         /\ pc[t] = "operation" /\ UNCHANGED <<store, overlapped>>
         /\ Continues(mem[t].rest) /\ rule \in Rules
         /\ \/ Leaves(t, TRUE) /\ UNCHANGED <<authentications, history>>
            \/ /\ Granted(t, rule) /\ Effect(t, rule)
               /\ \/ Len(mem[t].rest) = 1 /\ Leaves(t, FALSE)
                  \/ /\ Len(mem[t].rest) # 1 /\ Moves(t, "operation", Further(t))
                     /\ \/ rule = "vault" /\ SecretStore(t)
                        \/ UNCHANGED vaults
<1>1. pc[t] = "operation" /\ UNCHANGED <<store, overlapped>> BY DEF Call
<1>2. Continues(mem[t].rest) BY <1>1 DEF Typed, CommandsTyped, Knows
<1>3. Head(mem[t].rest) = mem[t].rest[1] /\ mem[t].rest[1] \in Rules
  BY <1>2 DEF Continues
<1>4. ASSUME NEW failed, Leave(t, failed) PROVE Leaves(t, failed)
  BY <1>4 DEF Leave, Leaves, Stops, Moves, Goto, Done
<1>5. ASSUME mem' = [mem EXCEPT ![t].rest = Tail(@),
                                ![t].connection = IF Head(mem[t].rest) = "commit" THEN current ELSE @],
             UNCHANGED pc
      PROVE  Moves(t, "operation", Further(t))
  BY <1>1, <1>5 DEF Moves, Further, Typed, CommandsTyped
<1>6. QED BY <1>1, <1>2, <1>3, <1>4, <1>5 DEF Call

\* What comes before storage.close.
Clears(t) == NextBrowser(t) \/ LeaveBrowser(t) \/ RestoreSession(t) \/ LockStores(t)
Clearing == {"closing", "leaving", "restoring", "locking"}

LEMMA ClearMoves ==
  ASSUME Typed, NEW t \in Task, Clears(t)
  PROVE  /\ pc[t] \in Clearing /\ UNCHANGED <<store, overlapped>>
         /\ \E s \in Clearing \cup {"close"}, m \in Memory :
              Moves(t, s, m) /\ (s = "leaving" => m.project \in Project)
<1>1. mem[t] \in Memory /\ mem[t].visited \subseteq Project BY DEF Typed, CommandsTyped, Memory
<1>2. CASE NextBrowser(t)
  <2>1. CASE \E p \in authentications : mem' = [mem EXCEPT ![t].project = p] /\ Goto(t, "leaving")
    <3>1. PICK p \in Project : mem' = [mem EXCEPT ![t].project = p] /\ Goto(t, "leaving")
      BY <2>1 DEF Typed
    <3>2. [mem[t] EXCEPT !.project = p] \in Memory /\ [mem[t] EXCEPT !.project = p].project = p
      BY <1>1 DEF Memory
    <3>3. Moves(t, "leaving", [mem[t] EXCEPT !.project = p]) BY <3>1 DEF Moves, Goto
    <3>4. QED BY <1>2, <3>2, <3>3 DEF NextBrowser, Clearing
  <2>2. CASE mem' = [mem EXCEPT ![t].visited = {}] /\ Goto(t, "locking")
    <3>1. [mem[t] EXCEPT !.visited = {}] \in Memory BY <1>1 DEF Memory
    <3>2. Moves(t, "locking", [mem[t] EXCEPT !.visited = {}]) BY <2>2 DEF Moves, Goto
    <3>3. QED BY <1>2, <3>1, <3>2 DEF NextBrowser, Clearing
  <2>3. QED BY <1>2, <2>1, <2>2 DEF NextBrowser, ToLeave
<1>3. CASE LeaveBrowser(t) \/ RestoreSession(t)
  <2>1. pc[t] \in Clearing /\ UNCHANGED <<store, overlapped>>
    BY <1>3 DEF LeaveBrowser, RestoreSession, Clearing
  <2>2. PICK s \in {"closing", "restoring"} : pc' = [pc EXCEPT ![t] = s]
    BY <1>3 DEF LeaveBrowser, RestoreSession, Goto
  <2>3. CASE UNCHANGED mem
    <3>1. Moves(t, s, mem[t]) BY <2>2, <2>3 DEF Moves, Typed, CommandsTyped
    <3>2. QED BY <1>1, <2>1, <2>2, <3>1 DEF Clearing
  <2>4. CASE LeaveBrowser(t) /\ ~UNCHANGED mem
    <3>1. mem' = [mem EXCEPT ![t].visited = @ \cup {mem[t].project}]
      BY <2>4 DEF LeaveBrowser
    <3>2. [mem[t] EXCEPT !.visited = @ \cup {mem[t].project}] \in Memory
      BY <1>1, <2>4 DEF LeaveBrowser, Typed, CommandsTyped, Knows, Memory
    <3>3. Moves(t, s, [mem[t] EXCEPT !.visited = @ \cup {mem[t].project}])
      BY <2>2, <3>1 DEF Moves
    <3>4. QED BY <2>1, <2>2, <3>2, <3>3 DEF Clearing
  <2>5. QED BY <1>3, <2>3, <2>4 DEF RestoreSession
<1>4. CASE LockStores(t)
  <2>1. pc[t] \in Clearing /\ UNCHANGED <<store, overlapped>> BY <1>4 DEF LockStores, Clearing
  <2>2. CASE Goto(t, "close") /\ mem' = [mem EXCEPT ![t] = Blank]
    <3>1. Moves(t, "close", Blank) BY <2>2 DEF Moves, Goto
    <3>2. QED BY <2>1, <3>1, BlankTyped
  <2>3. CASE \E p \in Project : mem' = [mem EXCEPT ![t].visited = @ \cup {p}] /\ UNCHANGED pc
    <3>1. PICK p \in Project : mem' = [mem EXCEPT ![t].visited = @ \cup {p}] /\ UNCHANGED pc
      BY <2>3
    <3>2. [mem[t] EXCEPT !.visited = @ \cup {p}] \in Memory BY <1>1 DEF Memory
    <3>3. Moves(t, pc[t], [mem[t] EXCEPT !.visited = @ \cup {p}])
      BY <3>1 DEF Moves, Typed, CommandsTyped
    <3>4. pc[t] = "locking" BY <1>4 DEF LockStores
    <3>5. QED BY <2>1, <3>2, <3>3, <3>4 DEF Clearing
  <2>4. QED BY <1>4, <2>2, <2>3 DEF LockStores
<1>5. QED BY <1>2, <1>3, <1>4 DEF Clears

\* No login browser comes and no secret store is unlocked.
LEMMA ClearCloses ==
  ASSUME Typed, NEW t \in Task, Clears(t)
  PROVE  /\ authentications' \subseteq authentications
         /\ vaults' \in [Project -> {"none", "locked", "unlocked"}]
         /\ \A p \in Project : vaults'[p] = "unlocked" => vaults[p] = "unlocked"
<1>1. CASE NextBrowser(t) \/ LeaveBrowser(t) \/ RestoreSession(t)
  BY <1>1 DEF NextBrowser, LeaveBrowser, RestoreSession, Typed
<1>2. CASE LockStores(t) BY <1>2 DEF LockStores, Typed
<1>3. QED BY <1>1, <1>2 DEF Clears

\* What a Session that is restored changes is in the Project it belongs to.
LEMMA ClearChanges ==
  ASSUME Typed, NEW t \in Task, Clears(t)
  PROVE  UNCHANGED history \/ (current # 0 /\ Changed("session", Here, current))
BY DEF Clears, NextBrowser, LeaveBrowser, RestoreSession, LockStores, IsOpen, OwnsRows

LEMMA CloseCases ==
  ASSUME Typed, NEW t \in Task, Close(t)
  PROVE  /\ pc[t] = "close" /\ UNCHANGED <<connections, lock, vaults, authentications, overlapped>>
         /\ \/ current = 0 /\ Stops(t) /\ UNCHANGED <<current, history>>
            \/ /\ current # 0 /\ Changed("close", Here, current) /\ current' = 0
               /\ Moves(t, "ending", Bound(t, current))
BY DEF Close, Stops, Moves, Goto, Done, Bound

LEMMA ReleaseCases ==
  ASSUME Typed, NEW t \in Task, Release(t)
  PROVE  LET c == mem[t].connection IN
         /\ UNCHANGED <<current, vaults, authentications, history, overlapped>>
         /\ \/ /\ pc[t] = "ending" /\ Moves(t, "releasing", mem[t])
               /\ connections' = [connections EXCEPT ![c].open = FALSE] /\ UNCHANGED lock
            \/ /\ pc[t] = "releasing" /\ Stops(t)
               /\ lock' = [lock EXCEPT ![connections[c].project] = 0] /\ UNCHANGED connections
BY DEF Release, Stops, Moves, Goto, Done, Lock, Typed, CommandsTyped

-----------------------------------------------------------------------------
(***************************************************************************)
(* Types and locks.                                                        *)
(***************************************************************************)
\* Where a command and the others are after it moved.
LEMMA Arrives ==
  ASSUME CommandsTyped, NEW t \in Task, NEW s, NEW m, Moves(t, s, m)
  PROVE  /\ pc'[t] = s /\ mem'[t] = m
         /\ \A u \in Task : u # t => pc'[u] = pc[u] /\ mem'[u] = mem[u]
BY DEF CommandsTyped, Moves

LEMMA LockedStays ==
  ASSUME CommandsTyped, Locked, NEW t \in Task, NEW s, NEW m, Moves(t, s, m), UNCHANGED store,
         s \notin Handles
  PROVE  Locked'
<1>1. pc'[t] = s BY Arrives
<1>2. ASSUME NEW u \in Task PROVE InHand(u)'
  <2>1. CASE u = t BY <1>1, <2>1 DEF InHand, Handles
  <2>2. CASE u # t
    <3>1. pc'[u] = pc[u] /\ mem'[u] = mem[u] /\ InHand(u) BY <2>2, Arrives DEF Locked
    <3>2. QED BY <3>1 DEF InHand, store
  <2>3. QED BY <2>1, <2>2
<1>3. ASSUME NEW u \in Task, pc'[u] \in Handles PROVE pc[u] \in Handles /\ mem'[u] = mem[u]
  BY <1>1, <1>3, Arrives
<1>4. QED BY <1>2, <1>3 DEF Locked, store

LEMMA ConnectionTyped ==
  ASSUME Typed, NEW c \in DOMAIN connections
  PROVE  connections[c] \in Connection /\ connections[c].project \in Project
         /\ c \in 1..Len(connections)
<1>1. c \in 1..Len(connections) BY DEF Typed
<1>2. connections[c] \in Connection BY <1>1 DEF Typed
<1>3. QED BY <1>1, <1>2 DEF Connection

LEMMA HereTyped == ASSUME Typed, current # 0 PROVE Here \in Project
<1>1. current \in DOMAIN connections BY DEF Typed
<1>2. QED BY <1>1, ConnectionTyped DEF Here

LEMMA BoundTyped ==
  ASSUME CommandsTyped, NEW t \in Task, NEW c \in Nat
  PROVE  /\ Bound(t, c) \in Memory /\ Bound(t, c).connection = c
         /\ Bound(t, c).path = mem[t].path /\ Bound(t, c).rest = mem[t].rest
         /\ Bound(t, c).project = mem[t].project /\ Bound(t, c).run = mem[t].run
<1>1. mem[t] \in Memory BY DEF CommandsTyped
<1>2. QED BY <1>1 DEF Bound, Memory

LEMMA BeginKeeps ==
  ASSUME Constants, Typed, Locked, NEW t \in Task, Begins(t) PROVE Typed' /\ Locked'
<1>1. CASE BeginsClose(t)
  <2>1. PICK m \in Memory : Moves(t, "closing", m) BY <1>1 DEF BeginsClose
  <2>2. /\ UNCHANGED <<store, vaults, authentications>>
        /\ "closing" \in Stages /\ "closing" \notin Handles
    BY <1>1 DEF BeginsClose, Stages, Handles
  <2>3. CommandsTyped' BY <2>1, <2>2, MovesTyped DEF Typed, KnowsAt
  <2>4. Locked' BY <2>1, <2>2, LockedStays DEF Typed
  <2>5. QED BY <2>2, <2>3, <2>4 DEF Typed, store
<1>2. ASSUME NEW p, NEW r, NEW calls, NEW keep, BeginsWork(t, p, r, calls, keep)
      PROVE  Typed' /\ Locked'
  <2> DEFINE m == Begun(p, r, calls, keep)
             s == IF current = 0 THEN "opening" ELSE "operation"
  <2>1. current # 0 => Here \in Project BY HereTyped
  <2>2. calls = <<>> \/ Continues(calls) BY <1>2 DEF BeginsWork
  <2>3. calls \in Seq(Rules)
    <3>1. CASE calls = <<>> BY <3>1
    <3>2. CASE Continues(calls) BY <3>2 DEF Continues
    <3>3. QED BY <2>2, <3>1, <3>2
  <2>4. m \in Memory BY <1>2, <2>1, <2>3, BlankTyped DEF Begun, Memory, BeginsWork
  <2>5. KnowsAt(m, s)
    <3>1. calls = <<>> => current = 0 BY <1>2 DEF BeginsWork, Continues
    <3>2. QED BY <1>2, <2>1, <2>2, <3>1, BegunHas DEF BeginsWork, KnowsAt
  <2>6. Moves(t, s, m) BY <1>2 DEF BeginsWork
  <2>7. s \in Stages /\ s \notin Handles BY DEF Stages, Handles
  <2>8. CommandsTyped' BY <2>4, <2>5, <2>6, <2>7, MovesTyped DEF Typed
  <2>9. Locked' BY <1>2, <2>6, <2>7, LockedStays DEF BeginsWork, Typed
  <2>10. QED BY <1>2, <2>8, <2>9 DEF BeginsWork, Typed, store
<1>3. QED BY <1>1, <1>2, BeginCases

LEMMA StopsKeeps ==
  ASSUME Typed, Locked, NEW t \in Task, NEW s \in {"idle", "close"}, Moves(t, s, Blank),
         UNCHANGED store, vaults' \in [Project -> {"none", "locked", "unlocked"}],
         authentications' \subseteq Project
  PROVE  Typed' /\ Locked'
<1>1. CommandsTyped' BY DoneTyped DEF Typed
<1>2. Locked' BY LockedStays DEF Handles, Typed
<1>3. QED BY <1>1, <1>2 DEF Typed, store

LEMMA AcquireKeeps ==
  ASSUME Constants, Typed, Locked, NEW t \in Task, AcquireLock(t) PROVE Typed' /\ Locked'
<1> DEFINE c == Len(connections) + 1
           p == mem[t].path
<1>1. UNCHANGED <<current, vaults, authentications>> /\ pc[t] = "opening" BY AcquireCases
<1>2. CASE Stops(t) /\ UNCHANGED <<connections, lock>>
  BY <1>1, <1>2, StopsKeeps DEF Stops, Typed, store
<1>3. CASE Acquires(t)
  <2>1. p \in Project BY <1>1 DEF Typed, CommandsTyped, Knows
  <2>2. [project |-> p, open |-> TRUE] \in Connection BY <2>1 DEF Connection
  <2>3. /\ connections' \in Seq(Connection) /\ Len(connections') = c
        /\ connections'[c] = [project |-> p, open |-> TRUE]
        /\ \A d \in 1..Len(connections) : connections'[d] = connections[d]
    BY <1>3, <2>2, MadeConnection DEF Acquires, Typed
  <2>4. Len(connections) \in Nat /\ current \in 0..Len(connections)
        /\ \A q \in Project : lock[q] \in 0..Len(connections)
    BY DEF Typed
  <2>5. lock' = [lock EXCEPT ![p] = c] /\ lock[p] = 0 /\ Moves(t, "opened", Bound(t, c))
    BY <1>3 DEF Acquires
  <2>6. lock'[p] = c /\ \A q \in Project : q # p => lock'[q] = lock[q]
    BY <2>1, <2>5 DEF Typed
  <2>7. CommandsTyped'
    <3>1. Bound(t, c) \in Memory /\ Bound(t, c).path = p /\ Bound(t, c).rest = mem[t].rest
      BY <2>4, BoundTyped DEF Typed
    <3>2. KnowsAt(Bound(t, c), "opened") BY <1>1, <2>1, <3>1 DEF KnowsAt, Typed, CommandsTyped, Knows
    <3>3. QED BY <2>5, <3>1, <3>2, MovesTyped DEF Typed, Stages
  <2>8. Typed'
    <3>1. lock' \in [Project -> 0..c] BY <2>1, <2>4, <2>5 DEF Typed
    <3>2. current' \in 0..c BY <1>1, <2>4
    <3>3. QED BY <1>1, <2>3, <2>7, <3>1, <3>2 DEF Typed
  <2>9. DOMAIN connections = 1..Len(connections) /\ DOMAIN connections' = 1..c
    BY <2>3 DEF Typed
  <2>10. ASSUME NEW d \in 1..Len(connections), lock[connections[d].project] = d
         PROVE  /\ connections'[d] = connections[d] /\ d \in DOMAIN connections'
                /\ lock'[connections'[d].project] = d
    <3>1. connections[d].project \in Project BY <2>9, ConnectionTyped
    <3>2. connections[d].project # p BY <2>5, <2>10
    <3>3. QED BY <2>3, <2>4, <2>6, <2>9, <2>10, <3>1, <3>2
  <2>11. \A d \in DOMAIN connections' : connections'[d].open => lock'[connections'[d].project] = d
    <3>1. ASSUME NEW d \in 1..Len(connections), connections'[d].open
          PROVE  lock'[connections'[d].project] = d
      BY <2>3, <2>9, <2>10, <3>1 DEF Locked
    <3>2. lock'[connections'[c].project] = c BY <2>3, <2>6
    <3>3. QED BY <2>4, <2>9, <3>1, <3>2
  <2>12. current' # 0 => connections'[current'].open
    BY <1>1, <2>3, <2>4 DEF Locked
  <2>13. /\ pc'[t] = "opened" /\ mem'[t].connection = c /\ mem'[t].path = p
         /\ \A u \in Task : u # t => pc'[u] = pc[u] /\ mem'[u] = mem[u]
    <3>1. Bound(t, c).connection = c /\ Bound(t, c).path = p
      BY <2>4, BoundTyped DEF Typed
    <3>2. QED BY <2>5, <3>1, Arrives DEF Typed
  <2>14. ASSUME NEW u \in Task, u # t, pc[u] \in Handles
         PROVE  InHand(u)' /\ mem[u].connection \in 1..Len(connections)
    <3>1. InHand(u) /\ mem[u].connection \in 1..Len(connections)
      BY <2>9, <2>14 DEF Locked, InHand
    <3>2. QED BY <1>1, <2>10, <2>13, <2>14, <3>1 DEF InHand
  <2>15. InHand(t)' BY <1>1, <2>3, <2>4, <2>6, <2>9, <2>13 DEF InHand
  <2>16. ASSUME NEW u \in Task PROVE InHand(u)'
    <3>1. CASE u # t /\ pc[u] \notin Handles BY <2>13, <3>1 DEF InHand, Handles
    <3>2. QED BY <2>14, <2>15, <3>1
  <2>17. ASSUME NEW u \in Task, NEW v \in Task, pc'[u] \in Handles, pc'[v] \in Handles, u # v
         PROVE  mem'[u].connection # mem'[v].connection
    <3>1. CASE u # t /\ v # t BY <2>13, <2>17, <3>1 DEF Locked
    <3>2. CASE u = t BY <2>4, <2>13, <2>14, <2>17, <3>2
    <3>3. CASE v = t BY <2>4, <2>13, <2>14, <2>17, <3>3
    <3>4. QED BY <3>1, <3>2, <3>3
  <2>18. Locked' BY <2>11, <2>12, <2>16, <2>17 DEF Locked
  <2>19. QED BY <2>8, <2>18
<1>4. QED BY <1>2, <1>3, AcquireCases

\* The others keep their connections when t lets go of its own.
LEMMA OthersHold ==
  ASSUME Typed, Locked, NEW t \in Task, NEW s, NEW m, Moves(t, s, m),
         NEW u \in Task, u # t, pc[u] \in Handles
  PROVE  /\ pc'[u] = pc[u] /\ mem'[u] = mem[u] /\ InHand(u)
         /\ mem[u].connection \in DOMAIN connections
         /\ pc[t] \in Handles => mem[u].connection # mem[t].connection
BY Arrives DEF Typed, Locked, InHand

LEMMA StoppedDistinct ==
  ASSUME Typed, Locked, NEW t \in Task, NEW s, NEW m, Moves(t, s, m), s \notin Handles,
         NEW u \in Task, NEW v \in Task, pc'[u] \in Handles, pc'[v] \in Handles, u # v
  PROVE  mem'[u].connection # mem'[v].connection
<1>1. u # t /\ v # t BY Arrives DEF Typed
<1>2. QED BY <1>1, Arrives DEF Typed, Locked

LEMMA OpenedKeeps ==
  ASSUME Constants, Typed, Locked, NEW t \in Task, Opened(t) PROVE Typed' /\ Locked'
<1> DEFINE c == mem[t].connection
           p == mem[t].path
<1>1. UNCHANGED <<vaults, authentications>> /\ pc[t] = "opened" BY OpenedCases
<1>2. /\ c \in DOMAIN connections /\ lock[connections[c].project] = c /\ connections[c].open
      /\ connections[c].project = p /\ c # current
  BY <1>1 DEF Locked, InHand, Handles
<1>3. p \in Project /\ c \in 1..Len(connections) /\ connections \in Seq(Connection)
      /\ DOMAIN connections = 1..Len(connections)
  BY <1>2, ConnectionTyped DEF Typed
<1>4. CASE current' = c /\ UNCHANGED <<connections, lock>>
  <2>1. PICK s, m : /\ Moves(t, s, m)
                    /\ \/ s = "idle" /\ m = Blank
                       \/ s = "operation" /\ m = Entered(t) /\ mem[t].rest # <<>>
    <3>1. CASE Stops(t) BY <3>1 DEF Stops
    <3>2. CASE Moves(t, "operation", Entered(t)) /\ mem[t].rest # <<>> BY <3>2
    <3>3. QED BY <1>2, <1>4, <3>1, <3>2, OpenedCases
  <2>2. CommandsTyped'
    <3>1. CASE s = "idle" /\ m = Blank BY <2>1, <3>1, DoneTyped DEF Typed
    <3>2. CASE s = "operation" /\ m = Entered(t) /\ mem[t].rest # <<>>
      <4>1. mem[t] \in Memory BY DEF Typed, CommandsTyped
      <4>2. m \in Memory /\ m.path = p /\ m.project = p /\ m.rest = mem[t].rest
        BY <1>3, <3>2, <4>1 DEF Entered, Memory
      <4>3. Continues(mem[t].rest) BY <1>1, <3>2 DEF Typed, CommandsTyped, Knows
      <4>4. KnowsAt(m, s) BY <1>3, <3>2, <4>2, <4>3 DEF KnowsAt
      <4>5. s \in Stages BY <3>2 DEF Stages
      <4>6. QED BY <2>1, <4>2, <4>4, <4>5, MovesTyped DEF Typed
    <3>3. QED BY <2>1, <3>1, <3>2
  <2>3. Typed' BY <1>1, <1>3, <1>4, <2>2 DEF Typed
  <2>4. s \notin Handles /\ pc'[t] = s BY <2>1, Arrives DEF Handles, Typed
  <2>5. ASSUME NEW u \in Task PROVE InHand(u)'
    <3>1. CASE pc'[u] \notin Handles BY <3>1 DEF InHand, Handles
    <3>2. CASE pc'[u] \in Handles
      <4>1. u # t BY <2>4, <3>2
      <4>2. pc[u] \in Handles BY <2>1, <3>2, <4>1, Arrives DEF Typed
      <4>3. /\ pc'[u] = pc[u] /\ mem'[u] = mem[u] /\ InHand(u) /\ mem[u].connection # c
        BY <1>1, <2>1, <4>1, <4>2, OthersHold DEF Handles
      <4>4. QED BY <1>4, <4>3 DEF InHand
    <3>3. QED BY <3>1, <3>2
  <2>6. \A d \in DOMAIN connections' : connections'[d].open => lock'[connections'[d].project] = d
    BY <1>4 DEF Locked
  <2>7. current' # 0 => connections'[current'].open BY <1>2, <1>4
  <2>8. \A u, v \in Task : pc'[u] \in Handles /\ pc'[v] \in Handles /\ u # v =>
          mem'[u].connection # mem'[v].connection
    BY <2>1, <2>4, StoppedDistinct
  <2>9. Locked' BY <2>5, <2>6, <2>7, <2>8 DEF Locked
  <2>10. QED BY <2>3, <2>9
<1>5. CASE /\ connections' = [connections EXCEPT ![c].open = FALSE]
           /\ lock' = [lock EXCEPT ![p] = 0] /\ Stops(t) /\ UNCHANGED current
  <2>1. /\ connections' \in Seq(Connection) /\ Len(connections') = Len(connections)
        /\ ~connections'[c].open
        /\ \A d \in 1..Len(connections) : /\ connections'[d].project = connections[d].project
                                          /\ d # c => connections'[d] = connections[d]
    BY <1>3, <1>5, ClosedConnections
  <2>2. CommandsTyped' BY <1>5, DoneTyped DEF Stops, Typed
  <2>3. lock' \in [Project -> 0..Len(connections)] /\ current \in 0..Len(connections)
    BY <1>3, <1>5 DEF Typed
  <2>4. Typed' BY <1>1, <1>5, <2>1, <2>2, <2>3 DEF Typed
  <2>5. DOMAIN connections' = DOMAIN connections BY <1>3, <2>1
  <2>6. ASSUME NEW d \in DOMAIN connections, d # c, lock[connections[d].project] = d
        PROVE  lock'[connections'[d].project] = d /\ connections'[d] = connections[d]
    <3>1. connections[d].project # p BY <1>2, <2>6
    <3>2. connections[d].project \in Project BY ConnectionTyped
    <3>3. QED BY <1>3, <1>5, <2>1, <2>6, <3>1, <3>2 DEF Typed
  <2>7. \A d \in DOMAIN connections' : connections'[d].open => lock'[connections'[d].project] = d
    BY <1>3, <2>1, <2>5, <2>6 DEF Locked
  <2>8. current' # 0 => connections'[current'].open
    BY <1>2, <1>3, <1>5, <2>1, <2>3 DEF Locked
  <2>9. pc'[t] = "idle" BY <1>5, Arrives DEF Stops, Typed
  <2>10. ASSUME NEW u \in Task PROVE InHand(u)'
    <3>1. CASE pc'[u] \notin Handles BY <3>1 DEF InHand, Handles
    <3>2. CASE pc'[u] \in Handles
      <4>1. u # t BY <2>9, <3>2 DEF Handles
      <4>2. pc[u] \in Handles BY <1>5, <3>2, <4>1, Arrives DEF Typed, Stops
      <4>3. /\ pc'[u] = pc[u] /\ mem'[u] = mem[u] /\ InHand(u) /\ mem[u].connection # c
            /\ mem[u].connection \in DOMAIN connections
        BY <1>1, <1>5, <4>1, <4>2, OthersHold DEF Handles, Stops
      <4>4. lock[connections[mem[u].connection].project] = mem[u].connection
        BY <4>2, <4>3 DEF InHand
      <4>5. QED BY <1>5, <2>5, <2>6, <4>2, <4>3, <4>4 DEF InHand
    <3>3. QED BY <3>1, <3>2
  <2>11. \A u, v \in Task : pc'[u] \in Handles /\ pc'[v] \in Handles /\ u # v =>
          mem'[u].connection # mem'[v].connection
    BY <1>5, StoppedDistinct DEF Stops, Handles
  <2>12. Locked' BY <2>7, <2>8, <2>10, <2>11 DEF Locked
  <2>13. QED BY <2>4, <2>12
<1>6. QED BY <1>4, <1>5, OpenedCases

\* What a call changes besides rows stays typed.
LEMMA CallChanges ==
  ASSUME Typed, NEW t \in Task, Call(t)
  PROVE  /\ vaults' \in [Project -> {"none", "locked", "unlocked"}]
         /\ authentications' \subseteq Project
<1> DEFINE rule == mem[t].rest[1]
<1>1. mem[t].project \in Project /\ mem[t].path \in Project
  BY CallCases DEF Typed, CommandsTyped, Knows
<1>2. ASSUME NEW failed, Leaves(t, failed)
      PROVE  vaults' \in [Project -> {"none", "locked", "unlocked"}]
  BY <1>1, <1>2 DEF Leaves, Typed
<1>3. ASSUME SecretStore(t) PROVE vaults' \in [Project -> {"none", "locked", "unlocked"}]
  BY <1>1, <1>3 DEF SecretStore, Typed
<1>4. ASSUME Effect(t, rule) PROVE authentications' \subseteq Project
  BY <1>1, <1>4 DEF Effect, Typed
<1>5. vaults' \in [Project -> {"none", "locked", "unlocked"}]
  BY <1>2, <1>3, CallCases DEF Typed
<1>6. CASE UNCHANGED <<authentications, history>> BY <1>5, <1>6 DEF Typed
<1>7. CASE Effect(t, rule) BY <1>4, <1>5, <1>7
<1>8. QED BY <1>6, <1>7, CallCases

\* The memory of a command after a call that was not its last.
LEMMA FurtherTyped ==
  ASSUME Typed, NEW t \in Task, Call(t), Len(mem[t].rest) # 1
  PROVE  /\ Further(t) \in Memory /\ KnowsAt(Further(t), "operation")
         /\ Further(t).rest = Tail(mem[t].rest) /\ Further(t).path = mem[t].path
         /\ Further(t).project = mem[t].project /\ Further(t).run = mem[t].run
         /\ Further(t).openedHere = mem[t].openedHere /\ Further(t).keepOpen = mem[t].keepOpen
         /\ Further(t).connection =
              IF mem[t].rest[1] = "commit" THEN current ELSE mem[t].connection
<1>1. pc[t] = "operation" /\ Continues(mem[t].rest) BY CallCases
<1>2. Continues(Tail(mem[t].rest)) /\ Head(mem[t].rest) = mem[t].rest[1]
  BY <1>1, TailContinues
<1>3. mem[t] \in Memory /\ mem[t].project \in Project /\ mem[t].path \in Project
  BY <1>1 DEF Typed, CommandsTyped, Knows
<1>4. current \in Nat BY DEF Typed
<1>5. Tail(mem[t].rest) \in Seq(Rules) BY <1>2 DEF Continues
<1>6. /\ Further(t) \in Memory
      /\ Further(t).rest = Tail(mem[t].rest) /\ Further(t).path = mem[t].path
      /\ Further(t).project = mem[t].project /\ Further(t).run = mem[t].run
      /\ Further(t).openedHere = mem[t].openedHere /\ Further(t).keepOpen = mem[t].keepOpen
      /\ Further(t).connection =
           IF mem[t].rest[1] = "commit" THEN current ELSE mem[t].connection
  BY <1>2, <1>3, <1>4, <1>5 DEF Further, Memory
<1>7. QED BY <1>2, <1>3, <1>6 DEF KnowsAt

LEMMA CallKeeps ==
  ASSUME Typed, Locked, NEW t \in Task, Call(t) PROVE Typed' /\ Locked'
<1>1. /\ vaults' \in [Project -> {"none", "locked", "unlocked"}]
      /\ authentications' \subseteq Project /\ UNCHANGED store
  BY CallChanges, CallCases
<1>2. ASSUME NEW failed, Leaves(t, failed) PROVE Typed' /\ Locked'
  <2>1. PICK s \in {"idle", "close"} : Moves(t, s, Blank) BY <1>2 DEF Leaves, Stops
  <2>2. QED BY <1>1, <2>1, StopsKeeps
<1>3. CASE Len(mem[t].rest) # 1 /\ Moves(t, "operation", Further(t))
  <2>1. "operation" \in Stages /\ "operation" \notin Handles BY DEF Stages, Handles
  <2>2. CommandsTyped' BY <1>3, <2>1, FurtherTyped, MovesTyped DEF Typed
  <2>3. Locked' BY <1>1, <1>3, <2>1, LockedStays DEF Typed
  <2>4. QED BY <1>1, <2>2, <2>3 DEF Typed, store
<1>4. QED BY <1>2, <1>3, CallCases

LEMMA ClearKeeps ==
  ASSUME Typed, Locked, NEW t \in Task, Clears(t) PROVE Typed' /\ Locked'
<1>1. PICK s \in Clearing \cup {"close"}, m \in Memory :
        Moves(t, s, m) /\ (s = "leaving" => m.project \in Project)
  BY ClearMoves
<1>2. s \in Stages /\ s \notin Handles /\ KnowsAt(m, s)
  BY <1>1 DEF Clearing, Stages, Handles, KnowsAt
<1>3. UNCHANGED store BY ClearMoves
<1>4. CommandsTyped' BY <1>1, <1>2, MovesTyped DEF Typed
<1>5. Locked' BY <1>1, <1>2, <1>3, LockedStays DEF Typed
<1>6. /\ vaults' \in [Project -> {"none", "locked", "unlocked"}]
      /\ authentications' \subseteq Project
  BY ClearCloses DEF Typed
<1>7. QED BY <1>3, <1>4, <1>5, <1>6 DEF Typed, store

LEMMA CloseKeeps ==
  ASSUME Typed, Locked, NEW t \in Task, Close(t) PROVE Typed' /\ Locked'
<1>1. UNCHANGED <<connections, lock, vaults, authentications>> /\ pc[t] = "close"
  BY CloseCases
<1>2. CASE current = 0 /\ Stops(t) /\ UNCHANGED current
  BY <1>1, <1>2, StopsKeeps DEF Stops, Typed, store
<1>3. CASE current # 0 /\ current' = 0 /\ Moves(t, "ending", Bound(t, current))
  <2>1. current \in Nat /\ current \in DOMAIN connections BY <1>3 DEF Typed
  <2>2. Bound(t, current) \in Memory /\ Bound(t, current).connection = current
    BY <2>1, BoundTyped DEF Typed
  <2>3. CommandsTyped' BY <1>3, <2>2, MovesTyped DEF KnowsAt, Stages, Typed
  <2>4. Typed' BY <1>1, <1>3, <2>3 DEF Typed
  <2>5. pc'[t] = "ending" /\ mem'[t].connection = current
        /\ \A u \in Task : u # t => pc'[u] = pc[u] /\ mem'[u] = mem[u]
    BY <1>3, <2>2, Arrives DEF Typed
  <2>6. connections[current].open /\ lock[connections[current].project] = current
    BY <1>3, <2>1 DEF Locked
  <2>7. ASSUME NEW u \in Task, u # t, pc[u] \in Handles
        PROVE  mem[u].connection # current /\ mem[u].connection # 0
    <3>1. InHand(u) BY DEF Locked
    <3>2. mem[u].connection \in 1..Len(connections) BY <2>7, <3>1 DEF InHand, Typed
    <3>3. pc[u] = "releasing" => ~connections[mem[u].connection].open BY <3>1 DEF InHand
    <3>4. pc[u] # "releasing" => mem[u].connection # current BY <2>7, <3>1 DEF InHand, Handles
    <3>5. QED BY <2>6, <3>2, <3>3, <3>4
  <2>8. ASSUME NEW u \in Task PROVE InHand(u)'
    <3>1. CASE u = t BY <1>1, <1>3, <2>1, <2>5, <2>6, <3>1 DEF InHand
    <3>2. CASE u # t
      <4>1. InHand(u) /\ pc'[u] = pc[u] /\ mem'[u] = mem[u] BY <2>5, <3>2 DEF Locked
      <4>2. CASE pc[u] \notin Handles BY <4>1, <4>2 DEF InHand, Handles
      <4>3. CASE pc[u] \in Handles BY <1>1, <1>3, <2>7, <3>2, <4>1, <4>3 DEF InHand
      <4>4. QED BY <4>2, <4>3
    <3>3. QED BY <3>1, <3>2
  <2>9. ASSUME NEW u \in Task, NEW v \in Task, pc'[u] \in Handles, pc'[v] \in Handles, u # v
        PROVE  mem'[u].connection # mem'[v].connection
    <3>1. CASE u # t /\ v # t BY <2>5, <2>9, <3>1 DEF Locked
    <3>2. CASE u = t BY <2>5, <2>7, <2>9, <3>2
    <3>3. CASE v = t BY <2>5, <2>7, <2>9, <3>3
    <3>4. QED BY <3>1, <3>2, <3>3
  <2>10. Locked' BY <1>1, <1>3, <2>8, <2>9 DEF Locked
  <2>11. QED BY <2>4, <2>10
<1>4. QED BY <1>2, <1>3, CloseCases

LEMMA ReleaseKeeps ==
  ASSUME Typed, Locked, NEW t \in Task, Release(t) PROVE Typed' /\ Locked'
<1> DEFINE c == mem[t].connection
           p == connections[c].project
<1>1. UNCHANGED <<current, vaults, authentications>> /\ pc[t] \in {"ending", "releasing"}
  BY ReleaseCases
<1>2. /\ c \in DOMAIN connections /\ lock[p] = c
      /\ pc[t] = "ending" => connections[c].open /\ c # current
      /\ pc[t] = "releasing" => ~connections[c].open
  BY <1>1 DEF Locked, InHand, Handles
<1>3. p \in Project /\ c \in 1..Len(connections) /\ connections \in Seq(Connection)
      /\ DOMAIN connections = 1..Len(connections)
  BY <1>2, ConnectionTyped DEF Typed
<1>4. CASE /\ pc[t] = "ending" /\ Moves(t, "releasing", mem[t])
           /\ connections' = [connections EXCEPT ![c].open = FALSE] /\ UNCHANGED lock
  <2>1. /\ connections' \in Seq(Connection) /\ Len(connections') = Len(connections)
        /\ ~connections'[c].open /\ connections'[c].project = p
        /\ \A d \in 1..Len(connections) : /\ connections'[d].project = connections[d].project
                                          /\ d # c => connections'[d] = connections[d]
    BY <1>3, <1>4, ClosedConnections
  <2>2. mem[t] \in Memory BY DEF Typed, CommandsTyped
  <2>3. CommandsTyped' BY <1>4, <2>2, MovesTyped DEF KnowsAt, Stages, Typed
  <2>4. Typed' BY <1>1, <1>4, <2>1, <2>3 DEF Typed
  <2>5. pc'[t] = "releasing" /\ mem'[t] = mem[t]
        /\ \A u \in Task : u # t => pc'[u] = pc[u] /\ mem'[u] = mem[u]
    BY <1>4, Arrives DEF Typed
  <2>6. DOMAIN connections' = DOMAIN connections BY <1>3, <2>1
  <2>7. ASSUME NEW u \in Task PROVE InHand(u)'
    <3>1. CASE u = t BY <1>2, <1>4, <2>1, <2>5, <2>6, <3>1 DEF InHand
    <3>2. CASE u # t /\ pc[u] \notin Handles BY <2>5, <3>2 DEF InHand, Handles
    <3>3. CASE u # t /\ pc[u] \in Handles
      <4>1. InHand(u) /\ mem[u].connection # c /\ mem[u].connection \in DOMAIN connections
        BY <1>4, <3>3, OthersHold DEF Handles
      <4>2. connections'[mem[u].connection] = connections[mem[u].connection]
        BY <1>3, <2>1, <4>1
      <4>3. QED BY <1>1, <1>4, <2>5, <2>6, <3>3, <4>1, <4>2 DEF InHand
    <3>4. QED BY <3>1, <3>2, <3>3
  <2>8. \A d \in DOMAIN connections' : connections'[d].open => lock'[connections'[d].project] = d
    BY <1>3, <1>4, <2>1, <2>6 DEF Locked
  <2>9. current' # 0 => connections'[current'].open
    <3>1. CASE current # 0
      <4>1. current \in 1..Len(connections) BY <3>1 DEF Typed
      <4>2. QED BY <1>1, <1>2, <1>4, <2>1, <3>1, <4>1 DEF Locked
    <3>2. CASE current = 0 BY <1>1, <3>2
    <3>3. QED BY <3>1, <3>2
  <2>10. \A u, v \in Task : pc'[u] \in Handles /\ pc'[v] \in Handles /\ u # v =>
           mem'[u].connection # mem'[v].connection
    <3>1. \A u \in Task : mem'[u] = mem[u] /\ (pc'[u] \in Handles => pc[u] \in Handles)
      BY <1>4, <2>5 DEF Handles
    <3>2. QED BY <3>1 DEF Locked
  <2>11. Locked' BY <2>7, <2>8, <2>9, <2>10 DEF Locked
  <2>12. QED BY <2>4, <2>11
<1>5. CASE /\ pc[t] = "releasing" /\ Stops(t)
           /\ lock' = [lock EXCEPT ![p] = 0] /\ UNCHANGED connections
  <2>1. CommandsTyped' BY <1>5, DoneTyped DEF Stops, Typed
  <2>2. lock' \in [Project -> 0..Len(connections)] BY <1>3, <1>5 DEF Typed
  <2>3. Typed' BY <1>1, <1>5, <2>1, <2>2 DEF Typed
  <2>4. ASSUME NEW d \in DOMAIN connections, d # c, lock[connections[d].project] = d
        PROVE  lock'[connections[d].project] = d
    <3>1. connections[d].project # p BY <1>2, <2>4
    <3>2. connections[d].project \in Project BY ConnectionTyped
    <3>3. QED BY <1>5, <2>4, <3>1, <3>2 DEF Typed
  <2>5. pc'[t] = "idle" BY <1>5, Arrives DEF Stops, Typed
  <2>6. ASSUME NEW u \in Task PROVE InHand(u)'
    <3>1. CASE pc'[u] \notin Handles BY <3>1 DEF InHand, Handles
    <3>2. CASE pc'[u] \in Handles
      <4>1. u # t BY <2>5, <3>2 DEF Handles
      <4>2. pc[u] \in Handles BY <1>5, <3>2, <4>1, Arrives DEF Typed, Stops
      <4>3. /\ pc'[u] = pc[u] /\ mem'[u] = mem[u] /\ InHand(u) /\ mem[u].connection # c
            /\ mem[u].connection \in DOMAIN connections
        BY <1>5, <4>1, <4>2, OthersHold DEF Handles, Stops
      <4>4. lock[connections[mem[u].connection].project] = mem[u].connection
        BY <4>2, <4>3 DEF InHand
      <4>5. QED BY <1>1, <1>5, <2>4, <4>2, <4>3, <4>4 DEF InHand
    <3>3. QED BY <3>1, <3>2
  <2>7. \A d \in DOMAIN connections' : connections'[d].open => lock'[connections'[d].project] = d
    BY <1>2, <1>5, <2>4 DEF Locked
  <2>8. current' # 0 => connections'[current'].open BY <1>1, <1>5 DEF Locked
  <2>9. \A u, v \in Task : pc'[u] \in Handles /\ pc'[v] \in Handles /\ u # v =>
          mem'[u].connection # mem'[v].connection
    BY <1>5, StoppedDistinct DEF Stops, Handles
  <2>10. Locked' BY <2>6, <2>7, <2>8, <2>9 DEF Locked
  <2>11. QED BY <2>3, <2>10
<1>6. QED BY <1>4, <1>5, ReleaseCases

-----------------------------------------------------------------------------
(***************************************************************************)
(* Where the calls go and what they change.                                *)
(***************************************************************************)
Step(t) ==
  \/ Begins(t) \/ AcquireLock(t) \/ Opened(t) \/ Call(t)
  \/ Clears(t) \/ Close(t) \/ Release(t)

\* A connection is never forgotten and stays one to its Project.
ConnectionsStay ==
  \A d \in DOMAIN connections :
    d \in DOMAIN connections' /\ connections'[d].project = connections[d].project

LEMMA StepKeepsConnections ==
  ASSUME Constants, Typed, Locked, NEW t \in Task, Step(t)
  PROVE  ConnectionsStay
<1>1. connections \in Seq(Connection) /\ DOMAIN connections = 1..Len(connections) BY DEF Typed
<1>2. ASSUME UNCHANGED connections PROVE ConnectionsStay BY <1>2 DEF ConnectionsStay
<1>3. ASSUME NEW c \in DOMAIN connections, connections' = [connections EXCEPT ![c].open = FALSE]
      PROVE  ConnectionsStay
  BY <1>1, <1>3, ClosedConnections DEF ConnectionsStay
<1>4. CASE Begins(t)
  <2>1. UNCHANGED store BY <1>4, BeginCases DEF BeginsWork, BeginsClose
  <2>2. QED BY <1>2, <2>1 DEF store
<1>5. CASE AcquireLock(t)
  <2>1. CASE Acquires(t)
    <3>1. mem[t].path \in Project BY <1>5, AcquireCases DEF Typed, CommandsTyped, Knows
    <3>2. [project |-> mem[t].path, open |-> TRUE] \in Connection BY <3>1 DEF Connection
    <3>3. /\ connections' \in Seq(Connection) /\ Len(connections') = Len(connections) + 1
          /\ \A d \in 1..Len(connections) : connections'[d] = connections[d]
      BY <1>1, <2>1, <3>2, MadeConnection DEF Acquires
    <3>4. DOMAIN connections' = 1..(Len(connections) + 1) /\ Len(connections) \in Nat
      BY <1>1, <3>3
    <3>5. QED BY <1>1, <3>3, <3>4 DEF ConnectionsStay
  <2>2. QED BY <1>2, <1>5, <2>1, AcquireCases
<1>6. CASE Opened(t)
  <2>1. mem[t].connection \in DOMAIN connections
    BY <1>6, OpenedCases DEF Locked, InHand, Handles
  <2>2. QED BY <1>2, <1>3, <1>6, <2>1, OpenedCases
<1>7. CASE Call(t)
  <2>1. UNCHANGED store BY <1>7, CallCases
  <2>2. QED BY <1>2, <2>1 DEF store
<1>8. CASE Close(t) BY <1>2, <1>8, CloseCases
<1>9. CASE Release(t)
  <2>1. mem[t].connection \in DOMAIN connections
    BY <1>9, ReleaseCases DEF Locked, InHand, Handles
  <2>2. QED BY <1>2, <1>3, <1>9, <2>1, ReleaseCases
<1>10. CASE Clears(t)
  <2>1. UNCHANGED store BY <1>10, ClearMoves
  <2>2. QED BY <1>2, <2>1 DEF store
<1>11. QED BY <1>4, <1>5, <1>6, <1>7, <1>8, <1>9, <1>10 DEF Step

LEMMA StepKeepsTypes ==
  ASSUME Constants, Typed, Locked, NEW t \in Task, Step(t) PROVE Typed' /\ Locked'
BY BeginKeeps, AcquireKeeps, OpenedKeeps, CallKeeps, ClearKeeps, CloseKeeps, ReleaseKeeps DEF Step

LEMMA StepKeepsOwners ==
  ASSUME Constants, Typed, Locked, Owned, NEW t \in Task, Step(t) PROVE Owned'
<1>1. ConnectionsStay BY StepKeepsConnections
<1>2. ASSUME NEW p \in Project, lock'[p] \in {0, lock[p]}
      PROVE  lock'[p] # 0 => connections'[lock'[p]].project = p
  <2>1. CASE lock'[p] # 0
    <3>1. lock'[p] = lock[p] /\ lock[p] # 0 BY <1>2, <2>1
    <3>2. lock[p] \in DOMAIN connections BY <3>1 DEF Typed
    <3>3. QED BY <1>1, <3>1, <3>2 DEF ConnectionsStay, Owned
  <2>2. QED BY <2>1
<1>3. ASSUME NEW q, lock' = [lock EXCEPT ![q] = 0] PROVE Owned'
  <2>1. \A p \in Project : lock'[p] \in {0, lock[p]} BY <1>3 DEF Typed
  <2>2. QED BY <1>2, <2>1 DEF Owned
<1>4. ASSUME UNCHANGED lock PROVE Owned' BY <1>2, <1>4 DEF Owned
<1>5. CASE Acquires(t) /\ AcquireLock(t)
  <2> DEFINE c == Len(connections) + 1
             q == mem[t].path
  <2>1. q \in Project BY <1>5, AcquireCases DEF Typed, CommandsTyped, Knows
  <2>2. [project |-> q, open |-> TRUE] \in Connection BY <2>1 DEF Connection
  <2>3. connections'[c] = [project |-> q, open |-> TRUE]
    BY <1>5, <2>2, MadeConnection DEF Acquires, Typed
  <2>4. lock' = [lock EXCEPT ![q] = c] BY <1>5 DEF Acquires
  <2>5. lock'[q] = c /\ \A p \in Project : p # q => lock'[p] = lock[p]
    BY <2>1, <2>4 DEF Typed
  <2>6. QED BY <1>2, <2>3, <2>5 DEF Owned
<1>6. CASE Begins(t)
  <2>1. UNCHANGED store BY <1>6, BeginCases DEF BeginsWork, BeginsClose
  <2>2. QED BY <1>4, <2>1 DEF store
<1>7. CASE Call(t)
  <2>1. UNCHANGED store BY <1>7, CallCases
  <2>2. QED BY <1>4, <2>1 DEF store
<1>8. CASE AcquireLock(t) BY <1>4, <1>5, <1>8, AcquireCases
<1>9. CASE Opened(t) BY <1>3, <1>4, <1>9, OpenedCases
<1>10. CASE Close(t) BY <1>4, <1>10, CloseCases
<1>11. CASE Release(t) BY <1>3, <1>4, <1>11, ReleaseCases
<1>12. CASE Clears(t)
  <2>1. UNCHANGED store BY <1>12, ClearMoves
  <2>2. QED BY <1>4, <2>1 DEF store
<1>13. QED BY <1>6, <1>7, <1>8, <1>9, <1>10, <1>11, <1>12 DEF Step

\* What a command in its operation works on, as an operator of its memory.
AimsAt(m, s) ==
  s = "operation" =>
    /\ Mentions(m.rest, "session") => m.path = m.project
    /\ m.rest[1] \in {"file", "rows"} =>
         m.connection \in DOMAIN connections /\ connections[m.connection].project = m.run

LEMMA MovesAim ==
  ASSUME Typed, Aimed, ConnectionsStay, NEW t \in Task, NEW s, NEW m, Moves(t, s, m), AimsAt(m, s)
  PROVE  Aimed'
<1>1. ASSUME NEW u \in Task PROVE Aims(u)'
  <2>1. CASE u = t
    <3>1. pc'[u] = s /\ mem'[u] = m BY <2>1, Arrives DEF Typed
    <3>2. QED BY <3>1 DEF AimsAt, Aims, ConnectionsStay
  <2>2. CASE u # t
    <3>1. pc'[u] = pc[u] /\ mem'[u] = mem[u] /\ Aims(u) BY <2>2, Arrives DEF Typed, Aimed
    <3>2. QED BY <3>1 DEF Aims, ConnectionsStay
  <2>3. QED BY <2>1, <2>2
<1>2. QED BY <1>1 DEF Aimed

\* A change is held against nobody who named the right Project under its lock.
LEMMA ChangeHeld ==
  ASSUME Held, NEW rule, NEW p, NEW c, Changed(rule, p, c),
         rule \in {"proxy", "interactionProfile"} \/ p = connections[c].project,
         rule = "file" \/ lock[connections[c].project] = c
  PROVE  Held'
BY DEF Held, Changed

LEMMA CallHeld ==
  ASSUME Typed, Locked, Aimed, Held, NEW t \in Task, pc[t] = "operation",
         Granted(t, mem[t].rest[1]), Effect(t, mem[t].rest[1])
  PROVE  Held'
<1> DEFINE rule == mem[t].rest[1]
<1>1. Continues(mem[t].rest) BY DEF Typed, CommandsTyped, Knows
<1>2. Aims(t) /\ 1 \in 1..Len(mem[t].rest) /\ rule \in Rules BY <1>1 DEF Aimed, Continues
<1>3. ASSUME IsOpen PROVE lock[Here] = current
  <2>1. current \in DOMAIN connections /\ connections[current].open
    BY <1>3 DEF IsOpen, Typed, Locked
  <2>2. QED BY <2>1 DEF Locked, Here
<1>4. CASE rule \in {"queue", "recovery", "render", "interaction", "commit"}
  <2>1. IsOpen /\ mem[t].run = Here
    BY <1>4 DEF Granted, OnProject, QueueCall, RecoveryCall, RenderCall, InteractionCall, SavesTrace,
       SavesProfile, SessionCall, ProxyCall, IsCurrent, OwnsRun, OwnsTrace
  <2>2. Changed(rule, mem[t].run, current) BY <1>4 DEF Effect
  <2>3. QED BY <1>3, <2>1, <2>2, ChangeHeld DEF Here
<1>5. CASE rule \in {"profile", "session", "proxy", "interactionProfile"}
  <2>1. /\ IsOpen
        /\ rule = "profile" => mem[t].path = Here
        /\ rule = "session" => mem[t].project = Here
    BY <1>5 DEF Granted, OnProject, QueueCall, RecoveryCall, RenderCall, InteractionCall, SavesTrace,
       SavesProfile, SessionCall, ProxyCall, IsCurrent, OwnsRows
  <2>2. rule = "session" => mem[t].path = mem[t].project BY <1>2 DEF Aims, Mentions
  <2>3. Changed(rule, mem[t].path, current) BY <1>5 DEF Effect
  <2>4. QED BY <1>3, <1>5, <2>1, <2>2, <2>3, ChangeHeld DEF Here
<1>6. CASE rule \in {"file", "rows"}
  <2> DEFINE c == mem[t].connection
  <2>1. c \in DOMAIN connections /\ connections[c].project = mem[t].run BY <1>2, <1>6 DEF Aims
  <2>2. rule = "rows" => connections[c].open BY DEF Granted
  <2>3. rule = "file" \/ lock[connections[c].project] = c BY <1>6, <2>1, <2>2 DEF Locked
  <2>4. Changed(rule, mem[t].run, c) BY <1>6 DEF Effect
  <2>5. QED BY <2>1, <2>3, <2>4, ChangeHeld
<1>7. CASE rule \in {"thisRun", "vault", "secrets", "browser", "end"}
  <2>1. UNCHANGED history BY <1>7 DEF Effect
  <2>2. QED BY <2>1 DEF history, Held
<1>8. QED BY <1>2, <1>4, <1>5, <1>6, <1>7 DEF Rules

LEMMA BeginAims ==
  ASSUME Constants, Typed, Locked, Aimed, Held, NEW t \in Task, Begins(t) PROVE Aimed' /\ Held'
<1>1. ConnectionsStay BY StepKeepsConnections DEF Step
<1>2. CASE BeginsClose(t)
  <2>1. PICK m \in Memory : Moves(t, "closing", m) BY <1>2 DEF BeginsClose
  <2>2. AimsAt(m, "closing") BY DEF AimsAt
  <2>3. Aimed' BY <1>1, <2>1, <2>2, MovesAim
  <2>4. QED BY <1>2, <2>3 DEF BeginsClose, history, Held
<1>3. ASSUME NEW p, NEW r, NEW calls, NEW keep, BeginsWork(t, p, r, calls, keep)
      PROVE  Aimed' /\ Held'
  <2>1. CASE current = 0
    <3>1. AimsAt(Begun(p, r, calls, keep), "opening") BY DEF AimsAt
    <3>2. Moves(t, "opening", Begun(p, r, calls, keep)) BY <1>3, <2>1 DEF BeginsWork
    <3>3. QED BY <1>1, <1>3, <3>1, <3>2, MovesAim DEF BeginsWork, history, Held
  <2>2. CASE current # 0
    <3>1. /\ calls[1] \notin {"file", "rows"} /\ calls # <<>>
          /\ Mentions(calls, "session") => Here = p
      BY <1>3, <2>2 DEF BeginsWork, SameProject, Continues
    <3>2. AimsAt(Begun(p, r, calls, keep), "operation") BY <2>2, <3>1, BegunHas DEF AimsAt
    <3>3. Moves(t, "operation", Begun(p, r, calls, keep)) BY <1>3, <2>2 DEF BeginsWork
    <3>4. QED BY <1>1, <1>3, <3>2, <3>3, MovesAim DEF BeginsWork, history, Held
  <2>3. QED BY <2>1, <2>2
<1>4. QED BY <1>2, <1>3, BeginCases

LEMMA CallAims ==
  ASSUME Constants, Typed, Locked, Aimed, Held, NEW t \in Task, Call(t) PROVE Aimed' /\ Held'
<1> DEFINE rule == mem[t].rest[1]
<1>1. ConnectionsStay BY StepKeepsConnections DEF Step
<1>2. pc[t] = "operation" /\ Continues(mem[t].rest) BY CallCases
<1>3. Held'
  <2>1. CASE UNCHANGED <<authentications, history>> BY <2>1 DEF history, Held
  <2>2. CASE Granted(t, rule) /\ Effect(t, rule) BY <1>2, <2>2, CallHeld
  <2>3. QED BY <2>1, <2>2, CallCases
<1>4. ASSUME NEW failed, Leaves(t, failed) PROVE Aimed'
  <2>1. PICK s \in {"idle", "close"} : Moves(t, s, Blank) BY <1>4 DEF Leaves, Stops
  <2>2. AimsAt(Blank, s) BY DEF AimsAt
  <2>3. QED BY <1>1, <2>1, <2>2, MovesAim
<1>5. CASE Granted(t, rule) /\ Len(mem[t].rest) # 1 /\ Moves(t, "operation", Further(t))
  <2>1. Aims(t) BY DEF Aimed
  <2>2. /\ \A r : Mentions(Tail(mem[t].rest), r) => Mentions(mem[t].rest, r)
        /\ Tail(mem[t].rest)[1] \in {"file", "rows"} => rule \in {"commit", "file"}
    BY <1>2, <1>5, TailContinues
  <2>3. rule = "commit" => current \in DOMAIN connections /\ Here = mem[t].run
    BY <1>5 DEF Granted, OnProject, QueueCall, RecoveryCall, RenderCall, InteractionCall, SavesTrace,
       SavesProfile, SessionCall, ProxyCall, IsCurrent, OwnsRun, IsOpen, Typed
  <2>4. AimsAt(Further(t), "operation")
    BY <1>2, <1>5, <2>1, <2>2, <2>3, FurtherTyped DEF AimsAt, Aims, Here
  <2>5. QED BY <1>1, <1>3, <1>5, <2>4, MovesAim
<1>6. QED BY <1>3, <1>4, <1>5, CallCases

LEMMA StepAims ==
  ASSUME Constants, Typed, Locked, Aimed, Held, NEW t \in Task, Step(t) PROVE Aimed' /\ Held'
<1>1. ConnectionsStay BY StepKeepsConnections
<1>2. ASSUME NEW s, NEW m, Moves(t, s, m), s # "operation" PROVE Aimed'
  BY <1>1, <1>2, MovesAim DEF AimsAt
<1>3. ASSUME UNCHANGED history PROVE Held' BY <1>3 DEF history, Held
<1>4. CASE AcquireLock(t) BY <1>2, <1>3, <1>4, AcquireCases DEF Acquires, Stops
<1>5. CASE Opened(t)
  <2>1. CASE mem[t].rest # <<>> /\ Moves(t, "operation", Entered(t))
    <3>1. mem[t] \in Memory /\ mem[t].rest[1] \notin {"file", "rows"}
      BY <1>5, <2>1, OpenedCases DEF Typed, CommandsTyped, Knows
    <3>2. Entered(t).rest = mem[t].rest /\ Entered(t).path = Entered(t).project
      BY <3>1 DEF Entered, Memory
    <3>3. AimsAt(Entered(t), "operation") BY <3>1, <3>2 DEF AimsAt
    <3>4. QED BY <1>1, <1>3, <1>5, <2>1, <3>3, MovesAim, OpenedCases
  <2>2. QED BY <1>2, <1>3, <1>5, <2>1, OpenedCases DEF Stops
<1>6. CASE Close(t)
  <2>1. Aimed' BY <1>2, <1>6, CloseCases DEF Stops
  <2>2. CASE current # 0 /\ Changed("close", Here, current)
    <3>1. current \in DOMAIN connections /\ connections[current].open
      BY <2>2 DEF Typed, Locked
    <3>2. lock[connections[current].project] = current BY <3>1 DEF Locked
    <3>3. QED BY <2>1, <2>2, <3>2, ChangeHeld DEF Here
  <2>3. QED BY <1>3, <1>6, <2>1, <2>2, CloseCases
<1>7. CASE Release(t) BY <1>2, <1>3, <1>7, ReleaseCases DEF Stops
<1>8. CASE Clears(t)
  <2>1. PICK s \in Clearing \cup {"close"}, m \in Memory : Moves(t, s, m) BY <1>8, ClearMoves
  <2>2. s # "operation" BY <2>1 DEF Clearing
  <2>3. Aimed' BY <1>2, <2>1, <2>2
  <2>4. CASE current # 0 /\ Changed("session", Here, current)
    <3>1. current \in DOMAIN connections /\ connections[current].open
      BY <2>4 DEF Typed, Locked
    <3>2. lock[connections[current].project] = current BY <3>1 DEF Locked
    <3>3. QED BY <2>3, <2>4, <3>2, ChangeHeld DEF Here
  <2>5. QED BY <1>3, <1>8, <2>3, <2>4, ClearChanges
<1>9. QED BY <1>4, <1>5, <1>6, <1>7, <1>8, BeginAims, CallAims DEF Step

-----------------------------------------------------------------------------
(***************************************************************************)
(* What is left when commands came one at a time.                          *)
(***************************************************************************)
\* Only command t is at work, and all there is to be closed or released is in its hands.
OnlyOne(t) ==
  /\ \A u \in Task : u # t => pc[u] = "idle"
  /\ Works(t) /\ NothingElseUnlocked
  /\ \A c \in DOMAIN connections : connections[c].open /\ c # current =>
       pc[t] \in {"opened", "ending"} /\ mem[t].connection = c
  /\ \A p \in Project : lock[p] \notin {0, current} =>
       pc[t] \in Handles /\ mem[t].connection = lock[p]

LEMMA TidyIsOnlyOne ==
  ASSUME Tidy, NEW t \in Task, pc[t] # "idle" PROVE OnlyOne(t)
<1>1. \A u \in Task : u # t => pc[u] = "idle" BY DEF Tidy, Alone
<1>2. QED BY <1>1 DEF Tidy, OnlyOne, Handles

LEMMA OnlyOneIsTidy ==
  ASSUME NEW t \in Task, OnlyOne(t) PROVE Tidy
<1>1. \A u \in Task : Works(u) BY DEF OnlyOne, Works, Handles
<1>2. QED BY <1>1 DEF Tidy, OnlyOne, Alone

LEMMA TidyNext ==
  ASSUME NEW t \in Task, OnlyOne(t)' PROVE Tidy'
<1>1. (OnlyOne(t) => Tidy)' BY OnlyOneIsTidy, PTL
<1>2. QED BY <1>1

\* The Project of the open connection is found where it was.
LEMMA HereStays ==
  ASSUME Typed, ConnectionsStay, current' = current, current # 0 PROVE Here' = Here
BY DEF Typed, ConnectionsStay, Here

LEMMA BeginTidy ==
  ASSUME Constants, Typed, Locked, NEW t \in Task, Begins(t), ~overlapped', ~overlapped => Tidy
  PROVE  OnlyOne(t)'
<1>1. ~overlapped /\ \A u \in Task : pc[u] = "idle" BY BeginCases
<1>2. /\ \A c \in DOMAIN connections : connections[c].open => c = current
      /\ \A p \in Project : lock[p] \in {0, current}
      /\ NothingElseUnlocked
  BY <1>1 DEF Tidy, Handles
<1>3. CASE BeginsClose(t)
  <2>1. pc'[t] = "closing" /\ \A u \in Task : u # t => pc'[u] = "idle"
    BY <1>1, <1>3, Arrives DEF BeginsClose, Typed
  <2>2. UNCHANGED <<current, connections, lock, vaults, authentications>>
    BY <1>3 DEF BeginsClose, store
  <2>3. Works(t)' BY <2>1 DEF Works, Handles
  <2>4. NothingElseUnlocked' BY <1>2, <2>2 DEF NothingElseUnlocked, Here
  <2>5. QED BY <1>2, <2>1, <2>2, <2>3, <2>4 DEF OnlyOne
<1>4. ASSUME NEW p, NEW r, NEW calls, NEW keep, BeginsWork(t, p, r, calls, keep)
      PROVE  OnlyOne(t)'
  <2> DEFINE m == Begun(p, r, calls, keep)
             s == IF current = 0 THEN "opening" ELSE "operation"
  <2>1. /\ pc'[t] = s /\ mem'[t] = m
        /\ \A u \in Task : u # t => pc'[u] = "idle"
    BY <1>1, <1>4, Arrives DEF BeginsWork, Typed
  <2>2. /\ UNCHANGED <<current, connections, lock, vaults, authentications>>
        /\ Mentions(calls, "browser") => keep
        /\ calls # <<>> \/ current = 0
    BY <1>4 DEF BeginsWork, store, Continues
  <2>3. m.rest = calls /\ m.keepOpen = keep /\ m.openedHere = (current = 0)
        /\ m.project = IF current = 0 \/ calls = <<>> THEN Nobody ELSE Here
    BY BegunHas
  <2>4. Here' = Here BY <2>2 DEF Here
  <2> HIDE DEF m
  <2>5. Works(t)' BY <2>1, <2>2, <2>3, <2>4 DEF Works, Handles
  <2>6. NothingElseUnlocked' BY <1>2, <2>2, <2>4 DEF NothingElseUnlocked
  <2>7. QED BY <1>2, <2>1, <2>2, <2>5, <2>6 DEF OnlyOne
<1>5. QED BY <1>3, <1>4, BeginCases

LEMMA AcquireTidy ==
  ASSUME Constants, Typed, Locked, NEW t \in Task, AcquireLock(t), OnlyOne(t) PROVE OnlyOne(t)'
<1> DEFINE c == Len(connections) + 1
           q == mem[t].path
<1>1. /\ pc[t] = "opening" /\ UNCHANGED <<current, vaults, authentications>>
  BY AcquireCases
<1>2. current = 0 /\ mem[t].openedHere
      /\ (Mentions(mem[t].rest, "browser") => mem[t].keepOpen)
  BY <1>1 DEF OnlyOne, Works
<1>3. /\ \A d \in DOMAIN connections : ~connections[d].open \/ d = 0
      /\ \A p \in Project : lock[p] = 0
      /\ NothingElseUnlocked'
  BY <1>1, <1>2 DEF OnlyOne, NothingElseUnlocked, Handles
<1>4. CASE Stops(t) /\ UNCHANGED <<connections, lock>>
  <2>1. pc'[t] = "idle" /\ \A u \in Task : u # t => pc'[u] = "idle"
    BY <1>4, Arrives DEF Stops, Typed, OnlyOne
  <2>2. QED BY <1>1, <1>2, <1>3, <1>4, <2>1 DEF OnlyOne, Works, Handles
<1>5. CASE Acquires(t)
  <2>1. q \in Project BY <1>1 DEF Typed, CommandsTyped, Knows
  <2>2. [project |-> q, open |-> TRUE] \in Connection BY <2>1 DEF Connection
  <2>3. /\ connections' \in Seq(Connection) /\ Len(connections') = c
        /\ \A d \in 1..Len(connections) : connections'[d] = connections[d]
    BY <1>5, <2>2, MadeConnection DEF Acquires, Typed
  <2>4. lock' = [lock EXCEPT ![q] = c] /\ Moves(t, "opened", Bound(t, c))
    BY <1>5 DEF Acquires
  <2>5. Len(connections) \in Nat /\ DOMAIN connections = 1..Len(connections)
        /\ DOMAIN connections' = 1..c
    BY <2>3 DEF Typed
  <2>6. mem[t] \in Memory BY DEF Typed, CommandsTyped
  <2>7. /\ Bound(t, c).connection = c /\ Bound(t, c).rest = mem[t].rest
        /\ Bound(t, c).openedHere = mem[t].openedHere /\ Bound(t, c).keepOpen = mem[t].keepOpen
    BY <2>6 DEF Bound, Memory
  <2>8. /\ pc'[t] = "opened" /\ mem'[t] = Bound(t, c)
        /\ \A u \in Task : u # t => pc'[u] = "idle"
    BY <2>4, Arrives DEF Typed, OnlyOne
  <2>9. Works(t)' BY <1>1, <1>2, <2>7, <2>8 DEF Works, Handles
  <2>10. \A d \in DOMAIN connections' : connections'[d].open => d = c
    BY <1>3, <2>3, <2>5
  <2>11. \A p \in Project : lock'[p] \in {0, c} BY <1>3, <2>4 DEF Typed
  <2>12. QED BY <1>1, <1>2, <1>3, <2>7, <2>8, <2>9, <2>10, <2>11 DEF OnlyOne, Handles
<1>6. QED BY <1>4, <1>5, AcquireCases

LEMMA OpenedTidy ==
  ASSUME Constants, Typed, Locked, Owned, NEW t \in Task, Opened(t), OnlyOne(t)
  PROVE  OnlyOne(t)'
<1> DEFINE c == mem[t].connection
           q == mem[t].path
<1>1. pc[t] = "opened" /\ UNCHANGED <<vaults, authentications>> BY OpenedCases
<1>2. /\ current = 0 /\ mem[t].openedHere
      /\ Mentions(mem[t].rest, "browser") => mem[t].keepOpen
  BY <1>1 DEF OnlyOne, Works, Handles
<1>3. /\ \A d \in DOMAIN connections : connections[d].open => d = c \/ d = 0
      /\ \A p \in Project : lock[p] \in {0, c}
      /\ authentications = {} /\ \A p \in Project : vaults[p] # "unlocked"
  BY <1>1, <1>2 DEF OnlyOne, NothingElseUnlocked, Typed
<1>4. /\ c \in DOMAIN connections /\ connections[c].project = q
      /\ connections \in Seq(Connection) /\ DOMAIN connections = 1..Len(connections)
  BY <1>1 DEF Locked, InHand, Handles, Typed
<1>5. NothingElseUnlocked' BY <1>1, <1>3 DEF NothingElseUnlocked
<1>6. CASE current' = c /\ UNCHANGED <<connections, lock>>
  <2>1. c # 0 /\ Here' = q BY <1>4, <1>6 DEF Here
  <2>2. \A d \in DOMAIN connections' : connections'[d].open => d = current'
    BY <1>3, <1>4, <1>6
  <2>3. \A p \in Project : lock'[p] \in {0, current'} BY <1>3, <1>6
  <2>4. CASE Stops(t)
    <3>1. pc'[t] = "idle" /\ \A u \in Task : u # t => pc'[u] = "idle"
      BY <2>4, Arrives DEF Stops, Typed, OnlyOne
    <3>2. QED BY <1>5, <2>2, <2>3, <3>1 DEF OnlyOne, Works, Handles
  <2>5. CASE Moves(t, "operation", Entered(t))
    <3>1. mem[t] \in Memory BY DEF Typed, CommandsTyped
    <3>2. /\ Entered(t).path = q /\ Entered(t).project = q /\ Entered(t).rest = mem[t].rest
          /\ Entered(t).openedHere = mem[t].openedHere /\ Entered(t).keepOpen = mem[t].keepOpen
      BY <3>1 DEF Entered, Memory
    <3>3. /\ pc'[t] = "operation" /\ mem'[t] = Entered(t)
          /\ \A u \in Task : u # t => pc'[u] = "idle"
      BY <2>5, Arrives DEF Typed, OnlyOne
    <3>4. Works(t)' BY <1>1, <1>2, <1>3, <1>6, <2>1, <3>2, <3>3 DEF Works, Handles
    <3>5. QED BY <1>5, <2>2, <2>3, <3>3, <3>4 DEF OnlyOne
  <2>6. QED BY <1>2, <1>4, <1>6, <2>1, <2>4, <2>5, OpenedCases
<1>7. CASE /\ connections' = [connections EXCEPT ![c].open = FALSE]
           /\ lock' = [lock EXCEPT ![q] = 0] /\ Stops(t) /\ UNCHANGED current
  <2>1. /\ connections' \in Seq(Connection) /\ Len(connections') = Len(connections)
        /\ ~connections'[c].open
        /\ \A d \in 1..Len(connections) : d # c => connections'[d] = connections[d]
    BY <1>4, <1>7, ClosedConnections
  <2>2. \A d \in DOMAIN connections' : ~connections'[d].open BY <1>3, <1>4, <2>1
  <2>3. \A p \in Project : lock'[p] = 0
    <3>1. ASSUME NEW p \in Project, p # q PROVE lock[p] = 0
      BY <1>3, <1>4, <3>1 DEF Owned
    <3>2. QED BY <1>7, <3>1 DEF Typed
  <2>4. pc'[t] = "idle" /\ \A u \in Task : u # t => pc'[u] = "idle"
    <3>1. CommandsTyped /\ \A u \in Task : u # t => pc[u] = "idle" BY DEF Typed, OnlyOne
    <3>2. Moves(t, "idle", Blank) BY <1>7 DEF Stops
    <3>3. QED BY <3>1, <3>2, Arrives
  <2>5. QED BY <1>5, <2>2, <2>3, <2>4 DEF OnlyOne, Works, Handles
<1>8. QED BY <1>6, <1>7, OpenedCases

\* What a call that went well leaves of login browsers and secret stores.
LEMMA CallUnlocks ==
  ASSUME Typed, NEW t \in Task, Call(t), OnlyOne(t)
  PROVE  /\ current # 0 /\ mem[t].project = Here /\ UNCHANGED <<current, connections, lock>>
         /\ Here' = Here /\ NothingElseUnlocked'
         /\ mem[t].openedHere => mem[t].path = Here
         /\ mem[t].openedHere /\ authentications' # {} =>
              mem[t].keepOpen /\ Effect(t, mem[t].rest[1])
         /\ Len(mem[t].rest) # 1 /\ mem[t].openedHere => authentications' = {}
<1> DEFINE rule == mem[t].rest[1]
<1>1. /\ pc[t] = "operation" /\ UNCHANGED store
      /\ Continues(mem[t].rest) /\ rule \in Rules
  BY CallCases
<1>2. /\ current # 0 /\ mem[t].project = Here
      /\ mem[t].openedHere => mem[t].path = Here /\ authentications = {}
      /\ Mentions(mem[t].rest, "browser") => mem[t].keepOpen
  BY <1>1 DEF OnlyOne, Works
<1>3. Here' = Here /\ UNCHANGED <<current, connections, lock>> BY <1>1 DEF Here, store
<1>4. Here \in Project BY <1>2, HereTyped
<1>5. ASSUME Effect(t, rule)
      PROVE  /\ rule = "browser" => authentications' = authentications \cup {Here}
             /\ rule # "browser" => authentications' \subseteq authentications
  BY <1>2, <1>5 DEF Effect
<1>6. authentications' \subseteq authentications \cup {Here}
  <2>1. CASE UNCHANGED <<authentications, history>> BY <2>1
  <2>2. CASE Effect(t, rule) BY <1>5, <2>2
  <2>3. QED BY <2>1, <2>2, CallCases
<1>7. \A p \in Project : vaults'[p] = "unlocked" => vaults[p] = "unlocked" \/ p = Here
  <2>1. ASSUME NEW failed, Leaves(t, failed)
        PROVE  \A p \in Project : vaults'[p] = "unlocked" => vaults[p] = "unlocked"
    BY <2>1 DEF Leaves, Typed
  <2>2. CASE SecretStore(t) BY <1>2, <2>2 DEF SecretStore, Typed
  <2>3. QED BY <2>1, <2>2, CallCases
<1>8. NothingElseUnlocked'
  BY <1>2, <1>3, <1>6, <1>7 DEF OnlyOne, NothingElseUnlocked
<1>9. 1 \in 1..Len(mem[t].rest) BY <1>1 DEF Continues
<1>10. ASSUME mem[t].openedHere, authentications' # {}
       PROVE  Effect(t, rule) /\ rule = "browser"
  <2>1. ~UNCHANGED <<authentications, history>> BY <1>2, <1>10
  <2>2. Effect(t, rule) BY <2>1, CallCases
  <2>3. QED BY <1>2, <1>5, <1>10, <2>2
<1>11. rule = "browser" => mem[t].keepOpen /\ Len(mem[t].rest) = 1
  BY <1>1, <1>2, <1>9 DEF Mentions, Continues
<1>12. QED BY <1>1, <1>2, <1>3, <1>8, <1>10, <1>11

LEMMA CallTidy ==
  ASSUME Constants, Typed, Locked, NEW t \in Task, Call(t), OnlyOne(t) PROVE OnlyOne(t)'
<1>1. /\ pc[t] = "operation" /\ mem[t] \in Memory
      /\ Continues(mem[t].rest)
      /\ mem[t].openedHere => authentications = {}
      /\ Mentions(mem[t].rest, "browser") => mem[t].keepOpen
  BY CallCases DEF OnlyOne, Works, Typed, CommandsTyped
<1>2. /\ \A d \in DOMAIN connections' : connections'[d].open => d = current'
      /\ \A p \in Project : lock'[p] \in {0, current'}
  BY <1>1, CallUnlocks DEF OnlyOne, Handles
<1>3. ASSUME NEW failed, Leaves(t, failed),
             ~failed /\ ~mem[t].keepOpen /\ mem[t].openedHere => authentications' = {},
             failed => authentications' = authentications
      PROVE  OnlyOne(t)'
  <2>1. CASE Stops(t)
    <3>1. pc'[t] = "idle" /\ \A u \in Task : u # t => pc'[u] = "idle"
      BY <2>1, Arrives DEF Stops, Typed, OnlyOne
    <3>2. Works(t)' BY <3>1 DEF Works, Handles
    <3>3. QED BY <1>2, <3>1, <3>2, CallUnlocks DEF OnlyOne
  <2>2. CASE /\ mem[t].openedHere /\ (mem[t].keepOpen => failed) /\ Moves(t, "close", Blank)
             /\ vaults' = [vaults EXCEPT ![mem[t].path] = IF @ = "none" THEN "none" ELSE "locked"]
    <3>1. pc'[t] = "close" /\ \A u \in Task : u # t => pc'[u] = "idle"
      BY <2>2, Arrives DEF Typed, OnlyOne
    <3>2. authentications' = {} BY <1>1, <1>3, <2>2
    <3>3. mem[t].path \in Project BY <1>1 DEF Typed, CommandsTyped, Knows
    <3>4. vaults'[mem[t].path] # "unlocked" BY <2>2, <3>3 DEF Typed
    <3>5. \A p \in Project : vaults'[p] = "unlocked" => mem[t].path = p
      BY <2>2, CallUnlocks DEF NothingElseUnlocked
    <3>6. NothingUnlocked' BY <3>2, <3>4, <3>5 DEF NothingUnlocked
    <3>7. Works(t)' BY <3>1, <3>6 DEF Works, Handles
    <3>8. QED BY <1>2, <3>1, <3>7, CallUnlocks DEF OnlyOne
  <2>3. QED BY <1>3, <2>1, <2>2 DEF Leaves
<1>4. CASE Leaves(t, TRUE) /\ UNCHANGED <<authentications, history>> BY <1>3, <1>4
<1>5. CASE Leaves(t, FALSE)
  <2>1. ~mem[t].keepOpen /\ mem[t].openedHere => authentications' = {} BY CallUnlocks
  <2>2. QED BY <1>3, <1>5, <2>1
<1>6. CASE Len(mem[t].rest) # 1 /\ Moves(t, "operation", Further(t))
  <2>1. /\ pc'[t] = "operation" /\ mem'[t] = Further(t)
        /\ \A u \in Task : u # t => pc'[u] = "idle"
    BY <1>6, Arrives DEF Typed, OnlyOne
  <2>2. Mentions(Tail(mem[t].rest), "browser") => Mentions(mem[t].rest, "browser")
    BY <1>1, <1>6, TailContinues
  <2>3. Works(t)' BY <1>1, <1>6, <2>1, <2>2, FurtherTyped, CallUnlocks DEF Works, Handles
  <2>4. QED BY <1>2, <2>1, <2>3, CallUnlocks DEF OnlyOne
<1>7. QED BY <1>4, <1>5, <1>6, CallCases

\* One browser after another is closed, then one store after another locked.
LEMMA ClearWorks ==
  ASSUME Typed, NEW t \in Task, Clears(t), Works(t) PROVE Works(t)'
<1>1. mem[t] \in Memory BY DEF Typed, CommandsTyped
<1>2. CASE NextBrowser(t)
  <2>1. CASE pc' = [pc EXCEPT ![t] = "leaving"]
    <3>1. pc'[t] = "leaving" BY <2>1 DEF Typed, CommandsTyped
    <3>2. QED BY <3>1 DEF Works, Handles
  <2>2. CASE /\ pc' = [pc EXCEPT ![t] = "locking"] /\ authentications' = {}
             /\ mem' = [mem EXCEPT ![t].visited = {}]
    <3>1. pc'[t] = "locking" /\ mem'[t].visited = {}
      BY <1>1, <2>2 DEF Typed, CommandsTyped, Memory
    <3>2. QED BY <2>2, <3>1 DEF Works, Handles
  <2>3. QED BY <1>2, <2>1, <2>2 DEF NextBrowser, Goto
<1>3. CASE LeaveBrowser(t) \/ RestoreSession(t)
  <2>1. pc'[t] \in {"closing", "restoring"}
    BY <1>3 DEF LeaveBrowser, RestoreSession, Goto, Typed, CommandsTyped
  <2>2. QED BY <2>1 DEF Works, Handles
<1>4. CASE LockStores(t)
  <2>1. /\ UNCHANGED authentications /\ authentications = {} /\ pc[t] = "locking"
        /\ \A p \in mem[t].visited : vaults[p] # "unlocked"
    BY <1>4 DEF LockStores, Works
  <2>2. ASSUME NEW p \in Project, vaults' = [vaults EXCEPT ![p] = "locked"],
               mem' = [mem EXCEPT ![t].visited = @ \cup {p}], UNCHANGED pc
        PROVE  Works(t)'
    <3>1. mem'[t].visited = mem[t].visited \cup {p} /\ mem[t].visited \subseteq Project
      BY <1>1, <2>2 DEF Typed, CommandsTyped, Memory
    <3>2. \A q \in mem'[t].visited : vaults'[q] # "unlocked" BY <2>1, <2>2, <3>1 DEF Typed
    <3>3. QED BY <2>1, <2>2, <3>2 DEF Works, Handles
  <2>3. CASE /\ \A p \in Project \ mem[t].visited : vaults[p] = "none"
             /\ vaults' = IF mem[t].forGood THEN [p \in Project |-> "none"] ELSE vaults
             /\ Goto(t, "close")
    <3>1. \A p \in Project : vaults'[p] # "unlocked" BY <2>1, <2>3
    <3>2. pc'[t] = "close" BY <2>3 DEF Goto, Typed, CommandsTyped
    <3>3. QED BY <2>1, <3>1, <3>2 DEF Works, Handles, NothingUnlocked
  <2>4. QED BY <1>4, <2>2, <2>3 DEF LockStores
<1>5. QED BY <1>2, <1>3, <1>4 DEF Clears

LEMMA ClearTidy ==
  ASSUME Constants, Typed, Locked, NEW t \in Task, Clears(t), OnlyOne(t) PROVE OnlyOne(t)'
<1>1. pc[t] \in Clearing /\ UNCHANGED <<current, connections, lock>> BY ClearMoves DEF store
<1>2. PICK s \in Clearing \cup {"close"}, m \in Memory : Moves(t, s, m) BY ClearMoves
<1>3. \A u \in Task : u # t => pc'[u] = "idle" BY <1>2, Arrives DEF Typed, OnlyOne
<1>4. Works(t)' BY ClearWorks DEF OnlyOne
<1>5. NothingElseUnlocked'
  BY <1>1, ClearCloses DEF OnlyOne, NothingElseUnlocked, Here
<1>6. /\ \A d \in DOMAIN connections' : connections'[d].open => d = current'
      /\ \A p \in Project : lock'[p] \in {0, current'}
  BY <1>1 DEF OnlyOne, Clearing, Handles
<1>7. QED BY <1>3, <1>4, <1>5, <1>6 DEF OnlyOne

LEMMA CloseTidy ==
  ASSUME Constants, Typed, Locked, NEW t \in Task, Close(t), OnlyOne(t) PROVE OnlyOne(t)'
<1>1. /\ pc[t] = "close" /\ UNCHANGED <<connections, lock, vaults, authentications>>
      /\ NothingUnlocked
  BY CloseCases DEF OnlyOne, Works
<1>2. /\ \A d \in DOMAIN connections : connections[d].open => d = current
      /\ \A p \in Project : lock[p] \in {0, current}
      /\ NothingElseUnlocked'
  BY <1>1 DEF OnlyOne, Handles, NothingUnlocked, NothingElseUnlocked
<1>3. CASE current = 0 /\ Stops(t) /\ UNCHANGED current
  <2>1. pc'[t] = "idle" /\ \A u \in Task : u # t => pc'[u] = "idle"
    BY <1>3, Arrives DEF Stops, Typed, OnlyOne
  <2>2. QED BY <1>1, <1>2, <1>3, <2>1 DEF OnlyOne, Works, Handles
<1>4. CASE current # 0 /\ current' = 0 /\ Moves(t, "ending", Bound(t, current))
  <2>1. Bound(t, current).connection = current BY BoundTyped DEF Typed
  <2>2. /\ pc'[t] = "ending" /\ mem'[t].connection = current
        /\ \A u \in Task : u # t => pc'[u] = "idle"
    BY <1>4, <2>1, Arrives DEF Typed, OnlyOne
  <2>3. Works(t)' BY <1>4, <2>2 DEF Works, Handles
  <2>4. QED BY <1>1, <1>2, <1>4, <2>2, <2>3 DEF OnlyOne, Handles
<1>5. QED BY <1>3, <1>4, CloseCases

LEMMA ReleaseTidy ==
  ASSUME Constants, Typed, Locked, Owned, NEW t \in Task, Release(t), OnlyOne(t)
  PROVE  OnlyOne(t)'
<1> DEFINE c == mem[t].connection
           q == connections[c].project
<1>1. /\ pc[t] \in {"ending", "releasing"}
      /\ UNCHANGED <<current, vaults, authentications>>
  BY ReleaseCases
<1>2. current = 0 BY <1>1 DEF OnlyOne, Works, Handles
<1>3. /\ \A d \in DOMAIN connections : connections[d].open => (pc[t] = "ending" /\ d = c) \/ d = 0
      /\ \A p \in Project : lock[p] \in {0, c}
      /\ NothingElseUnlocked'
  BY <1>1, <1>2 DEF OnlyOne, NothingElseUnlocked
<1>4. /\ c \in DOMAIN connections
      /\ connections \in Seq(Connection) /\ DOMAIN connections = 1..Len(connections)
  BY <1>1 DEF Locked, InHand, Handles, Typed
<1>5. CASE /\ pc[t] = "ending" /\ Moves(t, "releasing", mem[t])
           /\ connections' = [connections EXCEPT ![c].open = FALSE] /\ UNCHANGED lock
  <2>1. /\ connections' \in Seq(Connection) /\ Len(connections') = Len(connections)
        /\ ~connections'[c].open
        /\ \A d \in 1..Len(connections) : d # c => connections'[d] = connections[d]
    BY <1>4, <1>5, ClosedConnections
  <2>2. \A d \in DOMAIN connections' : ~connections'[d].open BY <1>3, <1>4, <2>1
  <2>3. /\ pc'[t] = "releasing" /\ mem'[t] = mem[t]
        /\ \A u \in Task : u # t => pc'[u] = "idle"
    BY <1>5, Arrives DEF Typed, OnlyOne
  <2>4. Works(t)' BY <1>1, <1>2, <2>3 DEF Works, Handles
  <2>5. \A p \in Project : lock'[p] \in {0, mem'[t].connection} BY <1>3, <1>5, <2>3
  <2>6. QED BY <1>1, <1>3, <2>2, <2>3, <2>4, <2>5 DEF OnlyOne, Handles
<1>6. CASE /\ pc[t] = "releasing" /\ Stops(t)
           /\ lock' = [lock EXCEPT ![q] = 0] /\ UNCHANGED connections
  <2>1. \A d \in DOMAIN connections' : connections'[d].open => d = 0 BY <1>3, <1>6
  <2>2. \A p \in Project : lock'[p] = 0
    <3>1. ASSUME NEW p \in Project, p # q PROVE lock[p] = 0
      BY <1>3, <1>4, <3>1 DEF Owned
    <3>2. QED BY <1>6, <3>1 DEF Typed
  <2>3. pc'[t] = "idle" /\ \A u \in Task : u # t => pc'[u] = "idle"
    BY <1>6, Arrives DEF Stops, Typed, OnlyOne
  <2>4. QED BY <1>1, <1>2, <1>3, <2>1, <2>2, <2>3 DEF OnlyOne, Works, Handles
<1>7. QED BY <1>5, <1>6, ReleaseCases

LEMMA StepTidy ==
  ASSUME Constants, Typed, Locked, Owned, NEW t \in Task, Step(t), ~overlapped => Tidy
  PROVE  ~overlapped' => Tidy'
<1> SUFFICES ASSUME ~overlapped' PROVE Tidy' OBVIOUS
<1>1. CASE Begins(t)
  <2>1. OnlyOne(t)' BY <1>1, BeginTidy
  <2>2. QED BY <2>1, TidyNext
<1>2. CASE AcquireLock(t) \/ Opened(t) \/ Call(t) \/ Clears(t) \/ Close(t) \/ Release(t)
  <2>1. pc[t] # "idle" /\ UNCHANGED overlapped
    BY <1>2, AcquireCases, OpenedCases, CallCases, ClearMoves, CloseCases, ReleaseCases
    DEF Clearing
  <2>2. OnlyOne(t) BY <2>1, TidyIsOnlyOne
  <2>3. OnlyOne(t)'
    BY <1>2, <2>2, AcquireTidy, OpenedTidy, CallTidy, ClearTidy, CloseTidy, ReleaseTidy
  <2>4. QED BY <2>3, TidyNext
<1>3. QED BY <1>1, <1>2 DEF Step

-----------------------------------------------------------------------------
(***************************************************************************)
(* The theorems.                                                           *)
(***************************************************************************)
LEMMA ServiceInit == ASSUME Constants, Init PROVE ServiceInv
<1>1. <<>> \in Seq(Connection) /\ Len(<<>>) = 0 /\ DOMAIN <<>> = {} OBVIOUS
<1>2. \A t \in Task : pc[t] = "idle" /\ mem[t] = Blank BY DEF Init
<1>3. CommandsTyped BY <1>2, BlankTyped DEF Init, CommandsTyped, Knows, Stages
<1>4. Typed BY <1>1, <1>3 DEF Init, Typed
<1>5. Locked BY <1>1, <1>2 DEF Init, Locked, InHand, Handles
<1>6. Owned BY DEF Init, Owned
<1>7. Aimed /\ Held BY <1>2 DEF Init, Aimed, Aims, Held
<1>8. Tidy
  <2>1. \A t \in Task : Works(t) BY <1>2 DEF Works, Handles
  <2>2. QED BY <1>1, <1>2, <2>1 DEF Init, Tidy, Alone, NothingElseUnlocked
<1>9. QED BY <1>4, <1>5, <1>6, <1>7, <1>8 DEF ServiceInv

LEMMA ServiceNext == ASSUME Constants, ServiceInv, [Next]_vars PROVE ServiceInv'
<1>1. CASE UNCHANGED vars
  <2>1. UNCHANGED <<current, connections, lock, vaults, authentications, pc, mem, strayed, unheld,
                    overlapped>>
    BY <1>1 DEF vars
  <2>2. Here' = Here BY <2>1 DEF Here
  <2>3. Typed' BY <2>1 DEF ServiceInv, Typed, CommandsTyped, Knows
  <2>4. Locked' BY <2>1 DEF ServiceInv, Locked, InHand
  <2>5. Owned' /\ Aimed' /\ Held' BY <2>1 DEF ServiceInv, Owned, Aimed, Aims, Held
  <2>6. ~overlapped' => Tidy'
    BY <2>1, <2>2 DEF ServiceInv, Tidy, Alone, NothingElseUnlocked, NothingUnlocked, Works
  <2>7. QED BY <2>3, <2>4, <2>5, <2>6 DEF ServiceInv
<1>2. CASE Next
  <2>1. PICK t \in Task : Step(t) BY <1>2 DEF Next, Step, Begins, Clears
  <2>2. QED
    BY <2>1, StepKeepsTypes, StepKeepsOwners, StepAims, StepTidy DEF ServiceInv
<1>3. QED BY <1>1, <1>2

\* The conjunction of executeProjectCommand's bookkeeping is inductive: the connection, lock and
\* database of every Project, what each command aims at, and what commands one at a time leave.
THEOREM ServiceIsInvariant == ASSUME Constants PROVE Spec => []ServiceInv
<1>1. Init => ServiceInv BY ServiceInit
<1>2. ServiceInv /\ [Next]_vars => ServiceInv' BY ServiceNext
<1>3. QED BY <1>1, <1>2, PTL DEF Spec

\* A command changes the Project whose Run, path or Session it names, and no other, but for the
\* proxy and Interaction Profile commands, however Projects are closed and opened under it.
THEOREM ChangesStay == ASSUME Constants PROVE Spec => []ChangesStayInTheirProject
<1>1. ServiceInv => ChangesStayInTheirProject
  BY DEF ServiceInv, Held, ChangesStayInTheirProject
<1>2. QED BY <1>1, ServiceIsInvariant, PTL

\* A row is changed only under the lock of its Project, and a Project that is open is locked.
THEOREM ChangesAreLocked == ASSUME Constants PROVE Spec => []ChangesAreMadeUnderTheLock
<1>1. ServiceInv => ChangesAreMadeUnderTheLock
  <2>1. SUFFICES ASSUME ServiceInv PROVE ChangesAreMadeUnderTheLock OBVIOUS
  <2>2. ASSUME current # 0 PROVE lock[Here] = current /\ connections[current].open
    <3>1. current \in DOMAIN connections /\ connections[current].open
      BY <2>1, <2>2 DEF ServiceInv, Typed, Locked
    <3>2. QED BY <2>1, <3>1 DEF ServiceInv, Locked, Here
  <2>3. QED BY <2>1, <2>2 DEF ServiceInv, Held, ChangesAreMadeUnderTheLock
<1>2. QED BY <1>1, ServiceIsInvariant, PTL

\* When commands came one at a time and all have ended, no lock, database or unlocked secret
\* store of a Project is left unless it is open, and no login browser outlives its Project.
THEOREM QuietIsTidy == ASSUME Constants PROVE Spec => []QuietServiceIsTidy
<1>1. ServiceInv => QuietServiceIsTidy
  BY DEF ServiceInv, Tidy, NothingElseUnlocked, Handles, QuietServiceIsTidy
<1>2. QED BY <1>1, ServiceIsInvariant, PTL

-----------------------------------------------------------------------------
(***************************************************************************)
(* The commands that enter addresses into the queue (ScopeQueue), for any  *)
(* Profiles, addresses, keys and revisions: a job is of an address that    *)
(* its revision lets in, no two have one identity, and a key has one       *)
(* answer.  That equal pages have equal identities is left to TLC: it is   *)
(* about sorting, which needs an induction.                                *)
(***************************************************************************)
CONSTANTS Key, Profile, Batch, Lower, SensitiveFragment, HashRoute, NoUrl, MaxRevisions
VARIABLES profiles, jobs, discoveries, operations, scopePc, scopeMem, issued, answers,
          scopeCommands

Scope == INSTANCE ScopeQueue WITH pc <- scopePc, mem <- scopeMem, commands <- scopeCommands

\* A sequence of whatever is in it.
IsLine(s) == s \in Seq({s[i] : i \in DOMAIN s})

\* A command enters at least one address, each at a depth; a Profile limits depths.
ScopeConstants ==
  /\ \A items \in Batch :
       IsLine(items) /\ Len(items) >= 1 /\ \A i \in DOMAIN items : items[i].depth \in Nat
  /\ \A p \in Profile : p.maxDepth \in Nat

\* What evaluateScope makes of an address of which there is a job already.
Again(p, url, depth) == Scope!evaluateScope(p, [flaw |-> "", url |-> url], depth, 0, TRUE)

\* The decision of an item was made under the Profile p, with some reading of the queue.
Decided(p, item) ==
  \E count, known : item.decision = Scope!evaluateScope(p, item.raw, item.depth, count, known)

\* A job came in by a decision of its revision, which would let it in again.
JobShape(job) ==
  job = [revision |-> job.revision, identity |-> job.identity, normalized |-> job.normalized,
         raw |-> job.raw, depth |-> job.depth]
CameIn(ps, job) ==
  /\ job.revision \in DOMAIN ps /\ job.depth \in Nat
  /\ Again(ps[job.revision], job.raw, job.depth).shouldQueue
  /\ Again(ps[job.revision], job.raw, job.depth).normalized = job.normalized
  /\ Again(ps[job.revision], job.raw, job.depth).identity = job.identity

JobsCameIn == \A j \in DOMAIN jobs : JobShape(jobs[j]) /\ CameIn(profiles, jobs[j])

OneJobPerIdentity ==
  \A i, j \in DOMAIN jobs :
    i # j /\ jobs[i].revision = jobs[j].revision => jobs[i].identity # jobs[j].identity

\* A discovery is of the job it names, which is not deeper.
DiscoveriesFit ==
  \A d \in discoveries :
    /\ d.job \in DOMAIN jobs /\ d.depth \in Nat
    /\ d.decision.identity = jobs[d.job].identity /\ jobs[d.job].depth <= d.depth

\* The first answer under a key is kept, and any other one is a conflict.
OneAnswerPerKey ==
  /\ \A o, p \in operations : o.key = p.key => o = p
  /\ \A a \in answers :
       \E o \in operations :
         o.key = a.key /\ (a.outcome # "conflict" =>
                             a = [key |-> o.key, outcome |-> o.result.outcome, job |-> o.result.job])

\* A command at its place: its items, of which those it prepared are decided.
ItemShape(x) == x = [key |-> x.key, raw |-> x.raw, depth |-> x.depth, decision |-> x.decision]
MemShape(m) ==
  m = [revision |-> m.revision, items |-> m.items, next |-> m.next, known |-> m.known]
Sound(ps, where, m) ==
  /\ where \in {"idle", "identity", "count", "enqueue"} /\ MemShape(m)
  /\ where # "idle" =>
       /\ m.revision \in DOMAIN ps /\ IsLine(m.items) /\ m.next \in DOMAIN m.items
       /\ \A i \in DOMAIN m.items :
            /\ ItemShape(m.items[i]) /\ m.items[i].depth \in Nat
            /\ where = "enqueue" \/ i < m.next => Decided(ps[m.revision], m.items[i])

AllSound ==
  /\ DOMAIN scopePc = Task /\ DOMAIN scopeMem = Task
  /\ scopePc = [t \in Task |-> scopePc[t]] /\ scopeMem = [t \in Task |-> scopeMem[t]]
  /\ \A t \in Task : Sound(profiles, scopePc[t], scopeMem[t])

ScopeInv ==
  /\ profiles \in Seq(Profile) /\ Len(profiles) >= 1 /\ IsLine(jobs) /\ JobsCameIn /\ OneJobPerIdentity
  /\ DiscoveriesFit /\ OneAnswerPerKey /\ AllSound

-----------------------------------------------------------------------------
(***************************************************************************)
(* Sequences, and what evaluateScope makes of one address twice.           *)
(***************************************************************************)
LEMMA LineHas ==
  ASSUME NEW s, IsLine(s)
  PROVE  Len(s) \in Nat /\ DOMAIN s = 1..Len(s) /\ s = [i \in 1..Len(s) |-> s[i]]
BY DEF IsLine

LEMMA SequenceIs == ASSUME NEW S, NEW s \in Seq(S) PROVE s \in [1..Len(s) -> S]
OBVIOUS

LEMMA LineIs ==
  ASSUME NEW s, NEW n \in Nat, s = [i \in 1..n |-> s[i]]
  PROVE  IsLine(s) /\ Len(s) = n /\ DOMAIN s = 1..n
<1> DEFINE S == {s[i] : i \in DOMAIN s}
<1>1. DOMAIN s = 1..n OBVIOUS
<1>2. s \in [1..n -> S] BY <1>1
<1>3. s \in Seq(S) BY <1>2
<1>4. Len(s) = n BY <1>2, <1>3
<1>5. QED BY <1>1, <1>3, <1>4 DEF IsLine

LEMMA AppendLine ==
  ASSUME NEW s, IsLine(s), NEW e
  PROVE  /\ IsLine(Append(s, e)) /\ DOMAIN Append(s, e) = DOMAIN s \cup {Len(s) + 1}
         /\ Len(s) + 1 \notin DOMAIN s
         /\ \A i \in DOMAIN s : Append(s, e)[i] = s[i]
         /\ Append(s, e)[Len(s) + 1] = e
<1> DEFINE S == {s[i] : i \in DOMAIN s} \cup {e}
<1>1. s \in Seq(S) /\ e \in S BY LineHas DEF IsLine
<1> HIDE DEF S
<1>2. Append(s, e) \in Seq(S) /\ Len(Append(s, e)) = Len(s) + 1 /\ Len(s) \in Nat BY <1>1
<1>3. /\ DOMAIN Append(s, e) = 1..(Len(s) + 1) /\ DOMAIN s = 1..Len(s)
      /\ \A i \in 1..Len(s) : Append(s, e)[i] = s[i]
      /\ Append(s, e)[Len(s) + 1] = e
  BY <1>1, <1>2
<1>4. Append(s, e) = [i \in 1..(Len(s) + 1) |-> Append(s, e)[i]]
  <2>1. Append(s, e) \in [1..(Len(s) + 1) -> S]
    <3>1. Append(s, e) \in [1..Len(Append(s, e)) -> S] BY <1>2, SequenceIs
    <3>2. QED BY <1>2, <3>1
  <2>2. QED BY ONLY <2>1
<1>5. IsLine(Append(s, e)) BY <1>2, <1>4, LineIs
<1>6. QED BY <1>2, <1>3, <1>5

LEMMA LetInAgain ==
  ASSUME NEW p, p.maxDepth \in Nat, NEW raw, NEW depth \in Nat, NEW count, NEW known,
         NEW d, d = Scope!evaluateScope(p, raw, depth, count, known), d.shouldQueue,
         NEW less \in Nat, less <= depth
  PROVE  /\ Again(p, raw.url, less).shouldQueue /\ d.depth = depth
         /\ Again(p, raw.url, less).normalized = d.normalized
         /\ Again(p, raw.url, less).identity = d.identity
<1> DEFINE other == [flaw |-> "", url |-> raw.url]
           url == Scope!Canonical(raw.url)
<1>1. Scope!Failure(raw) = ""
  BY DEF Scope!evaluateScope, Scope!safeFailure
<1>2. raw.flaw = "" /\ raw.url.scheme \in {"http", "https"} /\ ~raw.url.credentials
  BY <1>1 DEF Scope!Failure
<1>3. other.flaw = "" /\ other.url = raw.url OBVIOUS
<1>4. Scope!Failure(other) = "" BY <1>2, <1>3 DEF Scope!Failure
<1>5. /\ Scope!Obstacles(p, url, depth, count, known) = {} /\ p.approved /\ d.depth = depth
      /\ d.normalized = Scope!Normalized(p, url, Scope!normalizedPairs(p, url))
      /\ d.identity = Scope!Normalized(p, url, Scope!identityPairs(p, url))
  BY <1>1 DEF Scope!evaluateScope
<1>6. Scope!Obstacles(p, url, less, 0, TRUE) = {}
  <2>1. less > p.maxDepth => depth > p.maxDepth OBVIOUS
  <2>2. /\ ~Scope!DomainDenied(p, url) /\ Scope!DomainAllowed(p, url)
        /\ ~Scope!PathDenied(p, url) /\ Scope!PathAllowed(p, url)
        /\ ~Scope!Denied(p, url) /\ Scope!ipAuthorized(p, url.host) /\ ~(depth > p.maxDepth)
    BY <1>5 DEF Scope!Obstacles, Scope!If
  <2>3. QED BY <2>1, <2>2 DEF Scope!Obstacles, Scope!If
<1> HIDE DEF url, other
<1>7. /\ Scope!evaluateScope(p, other, less, 0, TRUE).shouldQueue
      /\ Scope!evaluateScope(p, other, less, 0, TRUE).normalized
           = Scope!Normalized(p, url, Scope!normalizedPairs(p, url))
      /\ Scope!evaluateScope(p, other, less, 0, TRUE).identity
           = Scope!Normalized(p, url, Scope!identityPairs(p, url))
  BY <1>3, <1>4, <1>5, <1>6 DEF Scope!evaluateScope, url
<1>8. QED BY <1>5, <1>7 DEF Again, other

-----------------------------------------------------------------------------
(***************************************************************************)
(* The steps of a command that only move it along.                         *)
(***************************************************************************)
LEMMA GoesOn ==
  ASSUME AllSound, NEW t \in Task, NEW where, NEW what, Scope!Goto(t, where, what),
         Sound(profiles, where, what), UNCHANGED profiles
  PROVE  AllSound'
<1>1. /\ scopePc' = [scopePc EXCEPT ![t] = where] /\ scopeMem' = [scopeMem EXCEPT ![t] = what]
  BY DEF Scope!Goto
<1>2. /\ DOMAIN scopePc' = Task /\ DOMAIN scopeMem' = Task
      /\ scopePc' = [u \in Task |-> scopePc'[u]] /\ scopeMem' = [u \in Task |-> scopeMem'[u]]
      /\ scopePc'[t] = where /\ scopeMem'[t] = what
      /\ \A u \in Task \ {t} : scopePc'[u] = scopePc[u] /\ scopeMem'[u] = scopeMem[u]
  BY <1>1 DEF AllSound
<1>3. \A u \in Task \ {t} : Sound(profiles, scopePc[u], scopeMem[u]) BY DEF AllSound
<1>4. \A u \in Task \ {t} : Sound(profiles, scopePc[u], scopeMem[u])'
  <2>1. SUFFICES ASSUME NEW u \in Task \ {t} PROVE Sound(profiles, scopePc[u], scopeMem[u])'
    OBVIOUS
  <2>2. scopePc'[u] = scopePc[u] /\ scopeMem'[u] = scopeMem[u] BY <1>2
  <2>3. QED BY <1>3, <2>2
<1>5. Sound(profiles, scopePc[t], scopeMem[t])'
  BY <1>2
<1>6. QED BY <1>2, <1>4, <1>5 DEF AllSound

LEMMA StillThere ==
  ASSUME ScopeInv, UNCHANGED <<profiles, jobs, discoveries, operations, answers>>, AllSound'
  PROVE  ScopeInv'
BY DEF ScopeInv, JobsCameIn, JobShape, CameIn, OneJobPerIdentity, DiscoveriesFit, OneAnswerPerKey, IsLine

LEMMA StartIsSound ==
  ASSUME ScopeConstants, ScopeInv, NEW t \in Task, NEW key \in Key, NEW items \in Batch,
         NEW r, Scope!Start(t, key, items, r)
  PROVE  ScopeInv'
<1> DEFINE entry(i) == [key |-> <<key, i>>, raw |-> items[i].raw, depth |-> items[i].depth,
                        decision |-> Scope!safeFailure(0, "")]
           line == [i \in DOMAIN items |-> entry(i)]
           what == [Scope!NoMem EXCEPT !.revision = r, !.items = line]
<1>1. /\ r = Len(profiles) /\ r \in DOMAIN profiles
      /\ Scope!Goto(t, "identity", what)
      /\ UNCHANGED <<profiles, jobs, discoveries, operations, answers>>
  BY DEF Scope!Start, ScopeInv
<1>2. Len(items) \in Nat /\ DOMAIN items = 1..Len(items) /\ Len(items) >= 1
  BY LineHas DEF ScopeConstants
<1>3. line = [i \in 1..Len(items) |-> line[i]] BY <1>2
<1>4. IsLine(line) /\ DOMAIN line = DOMAIN items BY <1>2, <1>3, LineIs
<1>5. \A i \in DOMAIN line :
        /\ ItemShape(line[i]) /\ line[i].depth \in Nat
  BY DEF ItemShape, ScopeConstants
<1> HIDE DEF line
<1>6. what = [revision |-> r, items |-> line, next |-> 1, known |-> FALSE]
  <2> DEFINE m == Scope!NoMem
  <2>1. MemShape(m) /\ m.next = 1 /\ m.known = FALSE BY DEF MemShape, Scope!NoMem
  <2> HIDE DEF m
  <2>2. [m EXCEPT !.revision = r]
          = [revision |-> r, items |-> m.items, next |-> m.next, known |-> m.known]
    BY <2>1 DEF MemShape
  <2> DEFINE n == [revision |-> r, items |-> m.items, next |-> m.next, known |-> m.known]
  <2>3. [n EXCEPT !.items = line]
          = [revision |-> r, items |-> line, next |-> m.next, known |-> m.known]
    OBVIOUS
  <2>4. what = [[m EXCEPT !.revision = r] EXCEPT !.items = line] BY DEF m
  <2> HIDE DEF n
  <2>5. QED BY <2>1, <2>2, <2>3, <2>4 DEF n
<1>7. 1 \in DOMAIN line /\ \A i \in DOMAIN line : ~(i < 1) BY <1>2, <1>4
<1>8. Sound(profiles, "identity", what) BY <1>1, <1>4, <1>5, <1>6, <1>7 DEF Sound, MemShape
<1> HIDE DEF what
<1>9. QED BY <1>1, <1>8, GoesOn, StillThere DEF ScopeInv

LEMMA IdentityIsSound ==
  ASSUME ScopeInv, NEW t \in Task, Scope!HasIdentity(t)
  PROVE  ScopeInv'
<1>1. PICK there : Scope!Goto(t, "count", [scopeMem[t] EXCEPT !.known = there])
  BY DEF Scope!HasIdentity
<1> DEFINE m == scopeMem[t]
           what == [m EXCEPT !.known = there]
<1>2. /\ scopePc[t] = "identity" /\ Sound(profiles, "identity", m)
      /\ UNCHANGED <<profiles, jobs, discoveries, operations, answers>>
  BY DEF Scope!HasIdentity, ScopeInv, AllSound
<1>3. what = [revision |-> m.revision, items |-> m.items, next |-> m.next, known |-> there]
  BY <1>2 DEF Sound, MemShape
<1> HIDE DEF m, what
<1>4. Sound(profiles, "count", what) BY <1>2, <1>3 DEF Sound, MemShape
<1>5. QED BY <1>1, <1>2, <1>4, GoesOn, StillThere DEF ScopeInv, m, what

LEMMA CountIsSound ==
  ASSUME ScopeInv, NEW t \in Task, Scope!CountIdentities(t)
  PROVE  ScopeInv'
<1> DEFINE m == scopeMem[t]
           decision == Scope!evaluateScope(Scope!ProfileOf(t), Scope!Item(t).raw,
                         Scope!Item(t).depth, Scope!PageCount(m.revision), m.known)
           prepared == [m EXCEPT !.items[m.next].decision = decision]
<1>1. /\ scopePc[t] = "count" /\ Sound(profiles, "count", m)
      /\ UNCHANGED <<profiles, jobs, discoveries, operations, answers>>
      /\ IF m.next = Len(m.items)
         THEN Scope!Goto(t, "enqueue", [prepared EXCEPT !.next = 1])
         ELSE Scope!Goto(t, "identity", [prepared EXCEPT !.next = @ + 1])
  BY DEF Scope!CountIdentities, ScopeInv, AllSound
<1>2. /\ MemShape(m) /\ m.revision \in DOMAIN profiles /\ IsLine(m.items)
      /\ m.next \in DOMAIN m.items
      /\ \A i \in DOMAIN m.items : ItemShape(m.items[i]) /\ m.items[i].depth \in Nat
      /\ \A i \in DOMAIN m.items : i < m.next => Decided(profiles[m.revision], m.items[i])
  BY <1>1 DEF Sound
<1>3. /\ Scope!ProfileOf(t) = profiles[m.revision] /\ Scope!Item(t) = m.items[m.next]
  BY DEF Scope!ProfileOf, Scope!Item
<1> DEFINE x == m.items[m.next]
           y == [key |-> x.key, raw |-> x.raw, depth |-> x.depth, decision |-> decision]
           line == [m.items EXCEPT ![m.next] = y]
<1>4. Decided(profiles[m.revision], y) BY <1>3 DEF Decided
<1> HIDE DEF decision
<1>5. [x EXCEPT !.decision = decision] = y
  <2>1. x = [key |-> x.key, raw |-> x.raw, depth |-> x.depth, decision |-> x.decision]
    BY <1>2 DEF ItemShape
  <2> HIDE DEF x
  <2>2. QED BY ONLY <2>1
<1>6. prepared = [revision |-> m.revision, items |-> line, next |-> m.next, known |-> m.known]
  <2>1. prepared = [m EXCEPT !.items = [m.items EXCEPT ![m.next] = [x EXCEPT !.decision = decision]]]
    OBVIOUS
  <2>2. prepared = [m EXCEPT !.items = line] BY <1>5, <2>1
  <2> HIDE DEF prepared, line
  <2>3. QED BY <1>2, <2>2 DEF MemShape
<1>7. Len(m.items) \in Nat /\ DOMAIN m.items = 1..Len(m.items)
      /\ m.items = [i \in 1..Len(m.items) |-> m.items[i]]
  BY <1>2, LineHas
<1> HIDE DEF prepared, m, y
<1>8. /\ line = [i \in 1..Len(m.items) |-> line[i]] /\ line[m.next] = y
      /\ \A i \in DOMAIN m.items \ {m.next} : line[i] = m.items[i]
  BY <1>2, <1>7
<1> HIDE DEF line
<1>9. IsLine(line) /\ Len(line) = Len(m.items) /\ DOMAIN line = DOMAIN m.items
  BY <1>7, <1>8, LineIs
<1>10. ItemShape(y) /\ y.depth \in Nat BY <1>2 DEF y, x, ItemShape
<1>11. \A i \in DOMAIN line :
         /\ ItemShape(line[i]) /\ line[i].depth \in Nat
         /\ i <= m.next => Decided(profiles[m.revision], line[i])
  <2>1. SUFFICES ASSUME NEW i \in DOMAIN line
                 PROVE  /\ ItemShape(line[i]) /\ line[i].depth \in Nat
                        /\ i <= m.next => Decided(profiles[m.revision], line[i])
    OBVIOUS
  <2>2. CASE i = m.next BY <1>4, <1>8, <1>10, <2>2
  <2>3. CASE i # m.next
    <3>1. i <= m.next => i < m.next BY <1>2, <1>7, <1>9, <2>3
    <3>2. line[i] = m.items[i] /\ i \in DOMAIN m.items BY <1>8, <1>9, <2>3
    <3>3. QED BY <1>2, <3>1, <3>2
  <2>4. QED BY <2>2, <2>3
<1>12. CASE m.next = Len(m.items)
  <2>1. [prepared EXCEPT !.next = 1]
          = [revision |-> m.revision, items |-> line, next |-> 1, known |-> m.known]
    BY <1>6
  <2>2. 1 \in DOMAIN line /\ \A i \in DOMAIN line : i <= m.next BY <1>2, <1>7, <1>9, <1>12
  <2>3. Sound(profiles, "enqueue", [prepared EXCEPT !.next = 1])
    BY <1>2, <1>9, <1>11, <2>1, <2>2 DEF Sound, MemShape
  <2>4. QED BY <1>1, <1>12, <2>3, GoesOn, StillThere DEF ScopeInv
<1>13. CASE m.next # Len(m.items)
  <2>1. [prepared EXCEPT !.next = @ + 1]
          = [revision |-> m.revision, items |-> line, next |-> m.next + 1, known |-> m.known]
    BY <1>6
  <2>2. m.next + 1 \in DOMAIN line /\ \A i \in DOMAIN line : i < m.next + 1 => i <= m.next
    BY <1>2, <1>7, <1>9, <1>13
  <2>3. Sound(profiles, "identity", [prepared EXCEPT !.next = @ + 1])
    BY <1>2, <1>9, <1>11, <2>1, <2>2 DEF Sound, MemShape
  <2>4. QED BY <1>1, <1>13, <2>3, GoesOn, StillThere DEF ScopeInv
<1>14. QED BY <1>12, <1>13

-----------------------------------------------------------------------------
(***************************************************************************)
(* The steps that enter an item.                                           *)
(***************************************************************************)
LEMMA ThenGoesOn ==
  ASSUME AllSound, NEW t \in Task, scopePc[t] = "enqueue", Scope!Then(t), UNCHANGED profiles
  PROVE  AllSound'
<1> DEFINE m == scopeMem[t]
<1>1. Sound(profiles, "enqueue", m) BY DEF AllSound
<1>2. CASE m.next = Len(m.items)
  <2>1. Scope!Goto(t, "idle", Scope!NoMem) BY <1>2 DEF Scope!Then
  <2>2. Sound(profiles, "idle", Scope!NoMem) BY DEF Sound, MemShape, Scope!NoMem
  <2>3. QED BY <2>1, <2>2, GoesOn
<1>3. CASE m.next # Len(m.items)
  <2>1. Scope!Goto(t, "enqueue", [m EXCEPT !.next = @ + 1]) BY <1>3 DEF Scope!Then
  <2>2. [m EXCEPT !.next = @ + 1]
          = [revision |-> m.revision, items |-> m.items, next |-> m.next + 1, known |-> m.known]
    BY <1>1 DEF Sound, MemShape
  <2> HIDE DEF m
  <2>3. m.next + 1 \in DOMAIN m.items
    <3>1. IsLine(m.items) /\ m.next \in DOMAIN m.items BY <1>1 DEF Sound
    <3>2. QED BY <1>3, <3>1, LineHas
  <2>4. Sound(profiles, "enqueue", [m EXCEPT !.next = @ + 1]) BY <1>1, <2>2, <2>3 DEF Sound, MemShape
  <2>5. QED BY <2>1, <2>4, GoesOn
<1>4. QED BY <1>2, <1>3

\* A first answer under its key.
LEMMA Answered ==
  ASSUME OneAnswerPerKey, NEW t \in Task, NEW outcome, NEW j, Scope!New(t),
         Scope!Enters(t, Scope!Result(outcome, j))
  PROVE  OneAnswerPerKey' /\ UNCHANGED profiles
<1> DEFINE x == Scope!Item(t)
           result == [outcome |-> outcome, job |-> j]
           o == [key |-> x.key, request |-> Scope!RequestOf(x), result |-> result]
           a == [key |-> x.key, outcome |-> outcome, job |-> j]
<1>1. /\ operations' = operations \cup {o} /\ answers' = answers \cup {a} /\ profiles' = profiles
      /\ \A p \in operations : p.key # x.key
  BY DEF Scope!Enters, Scope!Record, Scope!Answer, Scope!Result, Scope!New, Scope!Recorded
<1>2. /\ o.key = x.key /\ a.key = x.key
      /\ a = [key |-> o.key, outcome |-> o.result.outcome, job |-> o.result.job]
  OBVIOUS
<1> HIDE DEF o, a, x
<1>3. \A p, q \in operations' : p.key = q.key => p = q BY <1>1, <1>2 DEF OneAnswerPerKey
<1>4. \A b \in answers' :
        \E p \in operations' :
          p.key = b.key /\ (b.outcome # "conflict" =>
                              b = [key |-> p.key, outcome |-> p.result.outcome, job |-> p.result.job])
  BY <1>1, <1>2 DEF OneAnswerPerKey
<1>5. QED BY <1>1, <1>3, <1>4 DEF OneAnswerPerKey

LEMMA ReplayIsSound ==
  ASSUME ScopeInv, NEW t \in Task, Scope!Replay(t)
  PROVE  ScopeInv'
<1>1. /\ scopePc[t] = "enqueue" /\ Scope!Then(t)
      /\ UNCHANGED <<profiles, jobs, discoveries, operations>>
  BY DEF Scope!Replay
<1>2. PICK o \in Scope!Recorded(Scope!Item(t)) :
        Scope!Answer(t, IF o.request = Scope!RequestOf(Scope!Item(t)) THEN o.result
                        ELSE Scope!Result("conflict", 0))
  BY DEF Scope!Replay
<1>3. o \in operations /\ o.key = Scope!Item(t).key BY DEF Scope!Recorded
<1>4. \/ answers' = answers \cup
             {[key |-> o.key, outcome |-> o.result.outcome, job |-> o.result.job]}
      \/ answers' = answers \cup {[key |-> o.key, outcome |-> "conflict", job |-> 0]}
  BY <1>2, <1>3 DEF Scope!Answer, Scope!Result
<1>5. OneAnswerPerKey' BY <1>1, <1>3, <1>4 DEF ScopeInv, OneAnswerPerKey
<1>6. AllSound' BY <1>1, ThenGoesOn DEF ScopeInv
<1>7. QED
  BY <1>1, <1>5, <1>6 DEF ScopeInv, JobsCameIn, JobShape, CameIn, OneJobPerIdentity, DiscoveriesFit, IsLine

LEMMA RejectIsSound ==
  ASSUME ScopeInv, NEW t \in Task, Scope!Reject(t)
  PROVE  ScopeInv'
<1>1. PICK outcome : Scope!Enters(t, Scope!Result(outcome, 0)) BY DEF Scope!Reject
<1>2. Scope!New(t) /\ UNCHANGED <<jobs, discoveries>> BY DEF Scope!Reject
<1>3. OneAnswerPerKey' /\ UNCHANGED profiles BY <1>1, <1>2, Answered DEF ScopeInv
<1>4. scopePc[t] = "enqueue" /\ Scope!Then(t) BY <1>1, <1>2 DEF Scope!New, Scope!Enters
<1>5. AllSound' BY <1>3, <1>4, ThenGoesOn DEF ScopeInv
<1>6. QED
  BY <1>2, <1>3, <1>5 DEF ScopeInv, JobsCameIn, JobShape, CameIn, OneJobPerIdentity, DiscoveriesFit, IsLine

\* The item in hand, and what its revision would make of its address again.
LEMMA Entering ==
  ASSUME ScopeConstants, ScopeInv, NEW t \in Task, scopePc[t] = "enqueue",
         Scope!Item(t).decision.shouldQueue
  PROVE  /\ scopeMem[t].revision \in DOMAIN profiles
         /\ Scope!Item(t).decision.depth \in Nat
         /\ \A less \in Nat : less <= Scope!Item(t).decision.depth =>
              /\ Again(profiles[scopeMem[t].revision], Scope!Item(t).raw.url, less).shouldQueue
              /\ Again(profiles[scopeMem[t].revision], Scope!Item(t).raw.url, less).normalized
                   = Scope!Item(t).decision.normalized
              /\ Again(profiles[scopeMem[t].revision], Scope!Item(t).raw.url, less).identity
                   = Scope!Item(t).decision.identity
<1> DEFINE m == scopeMem[t]
           x == m.items[m.next]
           p == profiles[m.revision]
<1>1. /\ Sound(profiles, "enqueue", m) /\ Scope!Item(t) = x BY DEF ScopeInv, AllSound, Scope!Item
<1>2. m.revision \in DOMAIN profiles /\ Decided(p, x) /\ x.depth \in Nat BY <1>1 DEF Sound
<1>3. p \in Profile /\ p.maxDepth \in Nat BY <1>2 DEF ScopeInv, ScopeConstants
<1>4. PICK count, known :
        x.decision = Scope!evaluateScope(p, x.raw, x.depth, count, known)
  BY <1>2 DEF Decided
<1> HIDE DEF x, p, m
<1>5. x.decision.shouldQueue BY <1>1
<1>6. x.decision.depth = x.depth
  <2>1. x.depth <= x.depth BY <1>2
  <2>2. Again(p, x.raw.url, x.depth).shouldQueue /\ x.decision.depth = x.depth
    BY <1>2, <1>3, <1>4, <1>5, <2>1, LetInAgain
  <2>3. QED BY <2>2
<1>7. \A less \in Nat : less <= x.depth =>
        /\ Again(p, x.raw.url, less).shouldQueue
        /\ Again(p, x.raw.url, less).normalized = x.decision.normalized
        /\ Again(p, x.raw.url, less).identity = x.decision.identity
  BY <1>2, <1>3, <1>4, <1>5, LetInAgain
<1>8. QED BY <1>1, <1>2, <1>6, <1>7 DEF m, p

WithDepth(job, less) ==
  [revision |-> job.revision, identity |-> job.identity, normalized |-> job.normalized,
   raw |-> job.raw, depth |-> less]

LEMMA ShallowerCameIn ==
  ASSUME NEW ps, NEW job, CameIn(ps, job), ps[job.revision].maxDepth \in Nat,
         NEW less \in Nat, less <= job.depth
  PROVE  CameIn(ps, WithDepth(job, less))
<1> DEFINE raw == [flaw |-> "", url |-> job.raw]
           p == ps[job.revision]
           known == TRUE
           d == Scope!evaluateScope(p, raw, job.depth, 0, known)
<1>1. d.shouldQueue /\ d.normalized = job.normalized /\ d.identity = job.identity
      /\ job.depth \in Nat /\ raw.url = job.raw /\ p.maxDepth \in Nat
      /\ d = Scope!evaluateScope(p, raw, job.depth, 0, known)
  BY DEF CameIn, Again
<1> HIDE DEF raw, d, p, known
<1>2. /\ Again(p, raw.url, less).shouldQueue
      /\ Again(p, raw.url, less).normalized = d.normalized
      /\ Again(p, raw.url, less).identity = d.identity
  BY <1>1, LetInAgain
<1>3. QED BY <1>1, <1>2 DEF CameIn, WithDepth, p

LEMMA ExistingIsSound ==
  ASSUME ScopeConstants, ScopeInv, NEW t \in Task, Scope!FindExisting(t)
  PROVE  ScopeInv'
<1> DEFINE m == scopeMem[t]
           x == Scope!Item(t)
           d == x.decision
<1>1. /\ Scope!New(t) /\ d.shouldQueue
      /\ \E j \in Scope!OfIdentity(m.revision, d.identity) :
           /\ jobs' = [jobs EXCEPT ![j].depth = Scope!minimumDepth(@, d.depth)]
           /\ Scope!insertDiscovery(j, d)
           /\ Scope!Enters(t, Scope!Result("existing", j))
  BY DEF Scope!FindExisting
<1>2. PICK j \in Scope!OfIdentity(m.revision, d.identity) :
           /\ jobs' = [jobs EXCEPT ![j].depth = Scope!minimumDepth(@, d.depth)]
           /\ Scope!insertDiscovery(j, d)
           /\ Scope!Enters(t, Scope!Result("existing", j))
  BY <1>1
<1>3. scopePc[t] = "enqueue" /\ Scope!Then(t) BY <1>1, <1>2 DEF Scope!New, Scope!Enters
<1>4. OneAnswerPerKey' /\ UNCHANGED profiles BY <1>1, <1>2, Answered DEF ScopeInv
<1>5. AllSound' BY <1>3, <1>4, ThenGoesOn DEF ScopeInv
<1>6. /\ d.depth \in Nat BY <1>1, <1>3, Entering
<1>7. /\ j \in DOMAIN jobs /\ jobs[j].revision = m.revision /\ jobs[j].identity = d.identity
  BY DEF Scope!OfIdentity, Scope!OfRevision
<1>8. jobs[j].depth \in Nat /\ CameIn(profiles, jobs[j]) BY <1>7 DEF ScopeInv, JobsCameIn, CameIn
<1> DEFINE less == Scope!minimumDepth(jobs[j].depth, d.depth)
<1>9. less \in Nat /\ less <= jobs[j].depth /\ less <= d.depth
  BY <1>6, <1>8 DEF Scope!minimumDepth
<1> HIDE DEF less
<1>10. /\ IsLine(jobs') /\ DOMAIN jobs' = DOMAIN jobs /\ jobs'[j] = WithDepth(jobs[j], less)
       /\ \A i \in DOMAIN jobs \ {j} : jobs'[i] = jobs[i]
  <2>1. JobShape(jobs[j]) /\ IsLine(jobs) BY <1>7 DEF ScopeInv, JobsCameIn
  <2>2. jobs' = [jobs EXCEPT ![j] = [jobs[j] EXCEPT !.depth = less]] BY <1>2 DEF less
  <2>3. [jobs[j] EXCEPT !.depth = less] = WithDepth(jobs[j], less)
    BY ONLY <2>1 DEF JobShape, WithDepth
  <2>4. jobs' = [jobs EXCEPT ![j] = WithDepth(jobs[j], less)] BY <2>2, <2>3
  <2>5. Len(jobs) \in Nat /\ DOMAIN jobs = 1..Len(jobs) /\ jobs = [i \in 1..Len(jobs) |-> jobs[i]]
    BY <2>1, LineHas
  <2>6. /\ jobs' = [i \in 1..Len(jobs) |-> jobs'[i]] /\ DOMAIN jobs' = DOMAIN jobs
        /\ jobs'[j] = WithDepth(jobs[j], less)
        /\ \A i \in DOMAIN jobs \ {j} : jobs'[i] = jobs[i]
    BY <1>7, <2>4, <2>5
  <2>7. IsLine(jobs') BY <2>5, <2>6, LineIs
  <2>8. QED BY <2>6, <2>7
<1>11. JobShape(jobs'[j]) /\ CameIn(profiles, jobs'[j]) /\ jobs'[j].depth = less
       /\ jobs'[j].revision = jobs[j].revision /\ jobs'[j].identity = jobs[j].identity
  <2>1. profiles[jobs[j].revision].maxDepth \in Nat
    BY <1>8 DEF CameIn, ScopeInv, ScopeConstants
  <2>2. CameIn(profiles, WithDepth(jobs[j], less)) BY <1>8, <1>9, <2>1, ShallowerCameIn
  <2>3. JobShape(WithDepth(jobs[j], less)) BY DEF JobShape, WithDepth
  <2>4. QED BY <1>10, <2>2, <2>3 DEF WithDepth
<1>12. JobsCameIn'
  <2>1. \A i \in DOMAIN jobs' : JobShape(jobs'[i]) /\ CameIn(profiles, jobs'[i])
    BY <1>10, <1>11 DEF ScopeInv, JobsCameIn
  <2>2. QED BY <1>4, <2>1 DEF JobsCameIn
<1>13. \A i \in DOMAIN jobs : jobs'[i].revision = jobs[i].revision
                               /\ jobs'[i].identity = jobs[i].identity
  BY <1>10, <1>11
<1>14. OneJobPerIdentity' BY <1>10, <1>13 DEF ScopeInv, OneJobPerIdentity
<1>15. \A i \in DOMAIN jobs : jobs'[i].depth <= jobs[i].depth
  <2>1. \A i \in DOMAIN jobs : jobs[i].depth \in Nat BY DEF ScopeInv, JobsCameIn, CameIn
  <2>2. QED BY <1>9, <1>10, <1>11, <2>1
<1>16. DiscoveriesFit'
  <2> DEFINE e == [job |-> j, depth |-> d.depth, decision |-> d]
  <2>1. discoveries' = discoveries \cup {e} BY <1>2 DEF Scope!insertDiscovery
  <2>2. /\ e.job \in DOMAIN jobs' /\ e.depth \in Nat
        /\ e.decision.identity = jobs'[e.job].identity /\ jobs'[e.job].depth <= e.depth
    BY <1>6, <1>7, <1>9, <1>10, <1>11
  <2>3. SUFFICES ASSUME NEW f \in discoveries
                 PROVE  /\ f.job \in DOMAIN jobs' /\ f.depth \in Nat
                        /\ f.decision.identity = jobs'[f.job].identity
                        /\ jobs'[f.job].depth <= f.depth
    BY <2>1, <2>2 DEF DiscoveriesFit
  <2>4. /\ f.job \in DOMAIN jobs /\ f.depth \in Nat
        /\ f.decision.identity = jobs[f.job].identity /\ jobs[f.job].depth <= f.depth
    BY DEF ScopeInv, DiscoveriesFit
  <2>5. jobs[f.job].depth \in Nat /\ jobs'[f.job].depth \in Nat
    BY <1>10, <1>12, <2>4 DEF ScopeInv, JobsCameIn, CameIn
  <2>6. jobs'[f.job].depth <= f.depth BY <1>15, <2>4, <2>5
  <2>7. QED BY <1>10, <1>13, <2>4, <2>6
<1>17. QED BY <1>4, <1>5, <1>10, <1>12, <1>14, <1>16 DEF ScopeInv

LEMMA CreateIsSound ==
  ASSUME ScopeConstants, ScopeInv, NEW t \in Task, Scope!Create(t)
  PROVE  ScopeInv'
<1> DEFINE m == scopeMem[t]
           x == Scope!Item(t)
           d == x.decision
           n == Len(jobs) + 1
           job == [revision |-> m.revision, identity |-> d.identity, normalized |-> d.normalized,
                   raw |-> x.raw.url, depth |-> d.depth]
<1>1. /\ Scope!New(t) /\ d.shouldQueue /\ Scope!OfIdentity(m.revision, d.identity) = {}
      /\ \/ /\ jobs' = Append(jobs, job) /\ Scope!insertDiscovery(n, d)
            /\ Scope!Enters(t, Scope!Result("created", n))
         \/ /\ Scope!Enters(t, Scope!Result("rejected", 0))
            /\ UNCHANGED <<jobs, discoveries>>
  BY DEF Scope!Create
<1>2. scopePc[t] = "enqueue" /\ Scope!Then(t) BY <1>1 DEF Scope!New, Scope!Enters
<1>3. OneAnswerPerKey' /\ UNCHANGED profiles BY <1>1, Answered DEF ScopeInv
<1>4. AllSound' BY <1>2, <1>3, ThenGoesOn DEF ScopeInv
<1>5. CASE UNCHANGED <<jobs, discoveries>>
  BY <1>3, <1>4, <1>5
     DEF ScopeInv, JobsCameIn, JobShape, CameIn, OneJobPerIdentity, DiscoveriesFit, IsLine
<1>6. CASE jobs' = Append(jobs, job) /\ Scope!insertDiscovery(n, d)
  <2>1. /\ m.revision \in DOMAIN profiles /\ d.depth \in Nat
        /\ \A less \in Nat : less <= d.depth =>
             /\ Again(profiles[m.revision], x.raw.url, less).shouldQueue
             /\ Again(profiles[m.revision], x.raw.url, less).normalized = d.normalized
             /\ Again(profiles[m.revision], x.raw.url, less).identity = d.identity
    BY <1>1, <1>2, Entering
  <2>2. d.depth <= d.depth BY <2>1
  <2> HIDE DEF m, x
  <2>3. JobShape(job) /\ CameIn(profiles, job) BY <2>1, <2>2 DEF JobShape, CameIn
  <2>4. /\ job.revision = m.revision /\ job.identity = d.identity /\ job.depth = d.depth
    OBVIOUS
  <2>5. \A i \in DOMAIN jobs : jobs[i].revision # job.revision \/ jobs[i].identity # job.identity
    BY <1>1, <2>4 DEF Scope!OfIdentity, Scope!OfRevision
  <2> HIDE DEF job
  <2>6. /\ IsLine(jobs') /\ DOMAIN jobs' = DOMAIN jobs \cup {n} /\ n \notin DOMAIN jobs
        /\ \A i \in DOMAIN jobs : jobs'[i] = jobs[i]
        /\ jobs'[n] = job
    BY <1>6, AppendLine DEF ScopeInv
  <2> HIDE DEF n
  <2>7. JobsCameIn'
    <3>1. \A i \in DOMAIN jobs' : JobShape(jobs'[i]) /\ CameIn(profiles, jobs'[i])
      BY <2>3, <2>6 DEF ScopeInv, JobsCameIn
    <3>2. QED BY <1>3, <3>1 DEF JobsCameIn
  <2>8. OneJobPerIdentity' BY <2>5, <2>6 DEF ScopeInv, OneJobPerIdentity
  <2>9. DiscoveriesFit'
    <3> DEFINE e == [job |-> n, depth |-> d.depth, decision |-> d]
    <3>1. discoveries' = discoveries \cup {e} BY <1>6 DEF Scope!insertDiscovery
    <3>2. /\ e.job \in DOMAIN jobs' /\ e.depth \in Nat
          /\ e.decision.identity = jobs'[e.job].identity /\ jobs'[e.job].depth <= e.depth
      BY <2>1, <2>2, <2>4, <2>6
    <3>3. QED BY <2>6, <3>1, <3>2 DEF ScopeInv, DiscoveriesFit
  <2>10. QED BY <1>3, <1>4, <2>6, <2>7, <2>8, <2>9 DEF ScopeInv
<1>7. QED BY <1>1, <1>5, <1>6

\* A further revision leaves those before it as they are.
LEMMA UpdateIsSound ==
  ASSUME ScopeInv, NEW p \in Profile, Scope!UpdateProfile(p)
  PROVE  ScopeInv'
<1>1. /\ profiles' = Append(profiles, p)
      /\ UNCHANGED <<jobs, discoveries, operations, scopePc, scopeMem, answers>>
  BY DEF Scope!UpdateProfile
<1>2. /\ profiles' \in Seq(Profile) /\ Len(profiles') >= 1 /\ DOMAIN profiles \subseteq DOMAIN profiles'
      /\ \A r \in DOMAIN profiles : profiles'[r] = profiles[r]
  BY <1>1 DEF ScopeInv
<1>3. \A j \in DOMAIN jobs : JobShape(jobs[j]) /\ CameIn(profiles', jobs[j])
  BY <1>2 DEF ScopeInv, JobsCameIn, CameIn
<1>4. \A t \in Task : Sound(profiles', scopePc[t], scopeMem[t])
  BY <1>2 DEF ScopeInv, AllSound, Sound
<1>5. JobsCameIn' BY <1>1, <1>3 DEF JobsCameIn
<1>6. AllSound' BY <1>1, <1>4 DEF ScopeInv, AllSound
<1>7. QED
  BY <1>1, <1>2, <1>5, <1>6 DEF ScopeInv, OneJobPerIdentity, DiscoveriesFit, OneAnswerPerKey, IsLine

-----------------------------------------------------------------------------
LEMMA ScopeStarts == ASSUME Scope!Init PROVE ScopeInv
<1>1. PICK p \in Profile : profiles = <<p>> BY DEF Scope!Init
<1>2. /\ jobs = <<>> /\ discoveries = {} /\ operations = {} /\ answers = {}
      /\ scopePc = [t \in Task |-> "idle"] /\ scopeMem = [t \in Task |-> Scope!NoMem]
  BY DEF Scope!Init
<1>3. profiles \in Seq(Profile) /\ Len(profiles) >= 1 BY <1>1
<1>4. IsLine(jobs) /\ DOMAIN jobs = {} BY <1>2 DEF IsLine
<1>5. Sound(profiles, "idle", Scope!NoMem) BY DEF Sound, MemShape, Scope!NoMem
<1>6. AllSound BY <1>2, <1>5 DEF AllSound
<1>7. QED
  BY <1>2, <1>3, <1>4, <1>6
     DEF ScopeInv, JobsCameIn, OneJobPerIdentity, DiscoveriesFit, OneAnswerPerKey

LEMMA ScopeSteps ==
  ASSUME ScopeConstants, ScopeInv, [Scope!Next]_(Scope!vars) PROVE ScopeInv'
<1>1. CASE UNCHANGED Scope!vars
  <2>1. AllSound' BY <1>1 DEF Scope!vars, ScopeInv, AllSound
  <2>2. QED BY <1>1, <2>1, StillThere DEF Scope!vars
<1>2. CASE \E t \in Task, key \in Key, items \in Batch, r \in 1..MaxRevisions :
             Scope!Start(t, key, items, r)
  BY <1>2, StartIsSound
<1>3. CASE \E t \in Task : Scope!Step(t)
  BY <1>3, IdentityIsSound, CountIsSound, ReplayIsSound, RejectIsSound, ExistingIsSound,
     CreateIsSound DEF Scope!Step
<1>4. CASE \E p \in Profile : Scope!UpdateProfile(p) BY <1>4, UpdateIsSound
<1>5. QED BY <1>1, <1>2, <1>3, <1>4 DEF Scope!Next

\* What the rows of the queue and the commands that enter into it keep.
THEOREM ScopeIsInvariant == ASSUME ScopeConstants PROVE Scope!Spec => []ScopeInv
<1>1. Scope!Init => ScopeInv BY ScopeStarts
<1>2. ScopeInv /\ [Scope!Next]_(Scope!vars) => ScopeInv' BY ScopeSteps
<1>3. QED BY <1>1, <1>2, PTL DEF Scope!Spec

\* prepareEnqueue decides from what it read before, but the transaction looks again: a revision
\* has one job for an identity, every discovery is of the job of its identity and not above it,
\* and every job is of an address its revision lets in, at that depth, and at the addresses
\* evaluateScope gives it.
EntriesAreSound ==
  /\ JobsCameIn /\ OneJobPerIdentity
  /\ \A d \in discoveries : /\ d.decision.identity = jobs[d.job].identity
                            /\ jobs[d.job].depth <= d.depth

\* EntriesAreSound, which is OneJobPerPage for pages that are told apart by their identity.
THEOREM EntriesStaySound == ASSUME ScopeConstants PROVE Scope!Spec => []EntriesAreSound
<1>1. ASSUME ScopeInv PROVE EntriesAreSound
  BY <1>1 DEF ScopeInv, EntriesAreSound, DiscoveriesFit
<1>2. QED BY <1>1, ScopeIsInvariant, PTL

\* idempotent (persistence-sqlite/src/queue.ts): two answers under one key are the same, or one
\* is a conflict.  This much of RetriesAreReplayed holds.
KeysHaveOneAnswer ==
  \A a, b \in answers : a.key = b.key => a = b \/ "conflict" \in {a.outcome, b.outcome}

\* KeysHaveOneAnswer, however commands with one key interleave.
THEOREM AnswersAreOne == ASSUME ScopeConstants PROVE Scope!Spec => []KeysHaveOneAnswer
<1>1. ASSUME ScopeInv PROVE KeysHaveOneAnswer
  <2>1. SUFFICES ASSUME NEW a \in answers, NEW b \in answers, a.key = b.key,
                        a.outcome # "conflict", b.outcome # "conflict"
                 PROVE  a = b
    BY DEF KeysHaveOneAnswer
  <2>2. OneAnswerPerKey BY <1>1 DEF ScopeInv
  <2>3. PICK o \in operations :
          o.key = a.key /\ a = [key |-> o.key, outcome |-> o.result.outcome, job |-> o.result.job]
    BY <2>1, <2>2 DEF OneAnswerPerKey
  <2>4. PICK p \in operations :
          p.key = b.key /\ b = [key |-> p.key, outcome |-> p.result.outcome, job |-> p.result.job]
    BY <2>1, <2>2 DEF OneAnswerPerKey
  <2>5. o = p BY <2>1, <2>2, <2>3, <2>4 DEF OneAnswerPerKey
  <2>6. QED BY <2>3, <2>4, <2>5
<1>2. QED BY <1>1, ScopeIsInvariant, PTL
=============================================================================
