--------------------------- MODULE BrowserRuntime ---------------------------
(***************************************************************************)
(* The lifecycle of the one rendering browser of a browser runtime         *)
(* (packages/browser-runtime/src/index.ts): start, restart, the rotation   *)
(* before a new page, page sessions, the proxy check, and crashes.         *)
(*                                                                         *)
(* Calls are asynchronous and several run at once: a launch and a close    *)
(* are two steps each, and between them `browser` and `activeJobIds` are   *)
(* what the other calls make of them.                                      *)
(***************************************************************************)
EXTENDS Naturals, FiniteSets

CONSTANTS Job, User, Tester,           \* callers of createPageSession, restart, testProxy
          maximumPages, MAX_RESTARTS,  \* MAX_RESTARTS_PER_WINDOW
          MaxLaunches, MaxCalls, MaxFaults

VARIABLES
  browser,       \* the current process, 0 for none
  alive,         \* processes that run
  state,         \* what health reports
  activeJobIds,
  pagesRendered, restarts,
  authentication,  \* an authentication context is open
  pc, own,       \* of each caller: where it is, the process it uses or closes
  rotating,      \* calls of createPageSession whose rotation is under way or done
  launches, calls, faults,  \* bounds
  killed,        \* callers whose process was closed by a restart under them
  raced          \* a call met a launch or a close that was under way

Caller == Job \cup {User, Tester}

bounds == <<launches, calls, faults>>
vars == <<browser, alive, state, activeJobIds, pagesRendered, restarts, authentication,
          pc, own, rotating, bounds, killed, raced>>

\* Types; an open page session has a process, and restart stays within its bound.
TypeOK ==
  /\ browser \in 0..MaxLaunches /\ alive \subseteq 1..MaxLaunches
  /\ state \in {"stopped", "starting", "ready", "unhealthy", "crashed", "restarting", "closing"}
  /\ activeJobIds \subseteq Job
  /\ pagesRendered \in Nat /\ restarts \in 0..MAX_RESTARTS /\ authentication \in BOOLEAN
  /\ pc \in [Caller -> {"idle", "launching", "ready", "closing", "opening", "open"}]
  /\ own \in [Caller -> 0..MaxLaunches] /\ rotating \subseteq Job
  /\ \A c \in Caller : pc[c] = "open" => own[c] # 0

Init ==
  /\ browser = 0 /\ alive = {} /\ state = "stopped" /\ activeJobIds = {}
  /\ pagesRendered = 0 /\ restarts = 0 /\ authentication = FALSE
  /\ pc = [c \in Caller |-> "idle"] /\ own = [c \in Caller |-> 0] /\ rotating = {}
  /\ launches = 0 /\ calls = 0 /\ faults = 0 /\ killed = {} /\ raced = FALSE

-----------------------------------------------------------------------------
Connected == browser \in alive

Goto(c, place) == pc' = [pc EXCEPT ![c] = place]
Ends(c) == Goto(c, "idle") /\ own' = [own EXCEPT ![c] = 0]

\* Another call is in the middle of a launch or a close.
UnderWay(c) == \E d \in Caller \ {c} : pc[d] \in {"launching", "ready", "closing"}

\* start: a connected browser is kept; otherwise one is launched.
Start(c) ==
  IF Connected THEN Goto(c, "ready") /\ UNCHANGED <<state, raced>>
  ELSE Goto(c, "launching") /\ state' = "starting" /\ raced' = (raced \/ UnderWay(c))

Launched(c) ==
  /\ pc[c] = "launching"
  /\ \/ /\ launches < MaxLaunches /\ launches' = launches + 1
        /\ browser' = launches' /\ alive' = alive \cup {launches'}
        /\ state' = "ready" /\ pagesRendered' = 0
        /\ Goto(c, "ready") /\ UNCHANGED <<own, rotating, faults>>
     \/ /\ faults < MaxFaults /\ faults' = faults + 1
        /\ state' = "unhealthy" /\ Ends(c) /\ rotating' = rotating \ {c}
        /\ UNCHANGED <<browser, alive, pagesRendered, launches>>
  /\ UNCHANGED <<activeJobIds, restarts, authentication, calls, killed, raced>>

\* closeBrowser: the reference goes at once, the process when it has closed.
BeginClose(c) ==
  IF browser = 0 THEN Goto(c, "launching") /\ state' = "starting" /\ UNCHANGED <<browser, own>>
  ELSE /\ own' = [own EXCEPT ![c] = browser] /\ browser' = 0 /\ state' = "closing"
       /\ Goto(c, "closing")

\* restart, after it has looked at the active contexts: of the restarts so far, those whose
\* window has passed (RESTART_WINDOW_MS) no longer count.
CanRestart == activeJobIds = {} /\ ~authentication

Restart(c) ==
  /\ \E recent \in 0..restarts : recent < MAX_RESTARTS /\ restarts' = recent + 1
  /\ BeginClose(c) /\ raced' = (raced \/ UnderWay(c))

\* The process is closed with whatever it holds; then restart starts, if nobody has.
Closed(c) ==
  /\ pc[c] = "closing"
  /\ alive' = alive \ {own[c]}
  /\ killed' = killed \cup {d \in Caller \ {c} : pc[d] \in {"opening", "open"} /\ own[d] = own[c]}
  /\ pagesRendered' = 0 /\ activeJobIds' = {}
  /\ IF browser \in alive' THEN Goto(c, "ready") /\ state' = "stopped"
     ELSE Goto(c, "launching") /\ state' = "starting"
  /\ own' = [own EXCEPT ![c] = 0]
  /\ raced' = (raced \/ UnderWay(c))
  /\ UNCHANGED <<browser, restarts, authentication, rotating, bounds>>

-----------------------------------------------------------------------------
(***************************************************************************)
(* createPageSession.                                                      *)
(***************************************************************************)
Calls(c) == pc[c] = "idle" /\ calls < MaxCalls /\ calls' = calls + 1

CreatePageSession(j) ==
  /\ Calls(j)
  /\ Start(j)
  /\ UNCHANGED <<browser, alive, activeJobIds, pagesRendered, restarts, authentication, rotating,
                 own, launches, faults, killed>>

Open(j) ==
  /\ IF Connected
     THEN /\ activeJobIds' = activeJobIds \cup {j}
          /\ own' = [own EXCEPT ![j] = browser] /\ Goto(j, "opening")
     ELSE Ends(j) /\ UNCHANGED activeJobIds
  /\ rotating' = rotating \ {j}
  /\ UNCHANGED <<browser, state, restarts, raced>>

Rotate(j) == Restart(j) /\ rotating' = rotating \cup {j} /\ UNCHANGED activeJobIds
Refuse(j) == Ends(j) /\ UNCHANGED <<browser, state, restarts, rotating, raced, activeJobIds>>

\* A bug: the rotation does not look at the other jobs.
RotateAnyway(j) ==
  /\ pc[j] = "ready"
  /\ \/ (pagesRendered < maximumPages \/ j \in rotating) /\ Open(j)
     \/ j \notin rotating /\ (Rotate(j) \/ (restarts = MAX_RESTARTS /\ Refuse(j)))
  /\ UNCHANGED <<alive, pagesRendered, authentication, bounds, killed>>

\* A browser is used up by its pages, or, at any time, by its age (maximumLifetimeMs).  With
\* other jobs or a login active, or no restart left, the call that finds it so fails;
\* otherwise it restarts first, and asks no more.
RotateOrOpen(j) ==
  /\ pc[j] = "ready"
  /\ \/ (pagesRendered < maximumPages \/ j \in rotating) /\ Open(j)
     \/ j \notin rotating /\ CanRestart /\ Rotate(j)
     \/ j \notin rotating /\ (~CanRestart \/ restarts = MAX_RESTARTS) /\ Refuse(j)
  /\ UNCHANGED <<alive, pagesRendered, authentication, bounds, killed>>

\* The context, its page and its routing are there, or the call fails.
Opened(j) ==
  /\ pc[j] = "opening"
  /\ \/ own[j] \in alive /\ Goto(j, "open") /\ UNCHANGED <<own, activeJobIds, faults>>
     \/ /\ IF own[j] \in alive THEN faults < MaxFaults /\ faults' = faults + 1
           ELSE UNCHANGED faults
        /\ Ends(j) /\ activeJobIds' = activeJobIds \ {j}
  /\ UNCHANGED <<browser, alive, state, pagesRendered, restarts, authentication, rotating,
                 launches, calls, killed, raced>>

\* close of the page session, of a page that has crashed too.
ClosePage(j) ==
  /\ pc[j] = "open"
  /\ activeJobIds' = activeJobIds \ {j} /\ pagesRendered' = pagesRendered + 1
  /\ Ends(j) /\ killed' = killed \ {j}
  /\ UNCHANGED <<browser, alive, state, restarts, authentication, rotating, bounds, raced>>

-----------------------------------------------------------------------------
(***************************************************************************)
(* browser.restart, testProxy, authentication and crashes.                 *)
(***************************************************************************)
RestartCommand ==
  /\ Calls(User) /\ CanRestart
  /\ Restart(User)
  /\ UNCHANGED <<alive, activeJobIds, pagesRendered, authentication, rotating, launches, faults,
                 killed>>

RestartDone ==
  /\ pc[User] = "ready"
  /\ Ends(User)
  /\ UNCHANGED <<browser, alive, state, activeJobIds, pagesRendered, restarts, authentication,
                 rotating, bounds, killed, raced>>

\* testProxy looks for active contexts, and is none that others look for.
TestProxy ==
  /\ Calls(Tester) /\ activeJobIds = {} /\ ~authentication
  /\ Start(Tester)
  /\ UNCHANGED <<browser, alive, activeJobIds, pagesRendered, restarts, authentication, rotating,
                 own, launches, faults, killed>>

ProxyContext ==
  /\ pc[Tester] = "ready"
  /\ IF Connected THEN Goto(Tester, "open") /\ own' = [own EXCEPT ![Tester] = browser]
     ELSE Ends(Tester)
  /\ UNCHANGED <<browser, alive, state, activeJobIds, pagesRendered, restarts, authentication,
                 rotating, bounds, killed, raced>>

ProxyTested ==
  /\ pc[Tester] = "open"
  /\ Ends(Tester) /\ killed' = killed \ {Tester}
  /\ UNCHANGED <<browser, alive, state, activeJobIds, pagesRendered, restarts, authentication,
                 rotating, bounds, raced>>

Authenticate ==
  /\ calls < MaxCalls /\ calls' = calls + 1
  /\ authentication' = ~authentication
  /\ UNCHANGED <<browser, alive, state, activeJobIds, pagesRendered, restarts, pc, own,
                 rotating, launches, faults, killed, raced>>

\* A process disconnects.
Crash(b) ==
  /\ b \in alive /\ faults < MaxFaults /\ faults' = faults + 1
  /\ alive' = alive \ {b}
  /\ state' = IF state \in {"closing", "stopped"} THEN state ELSE "crashed"
  /\ UNCHANGED <<browser, activeJobIds, pagesRendered, restarts, authentication, rotating, pc, own,
                 launches, calls, killed, raced>>

Next ==
  \/ \E c \in Caller : Launched(c) \/ Closed(c)
  \/ \E j \in Job : CreatePageSession(j) \/ RotateOrOpen(j) \/ Opened(j) \/ ClosePage(j)
  \/ RestartCommand \/ RestartDone
  \/ TestProxy \/ ProxyContext \/ ProxyTested
  \/ Authenticate
  \/ \E b \in 1..MaxLaunches : Crash(b)

Spec == Init /\ [][Next]_vars

-----------------------------------------------------------------------------
(***************************************************************************)
(* Properties.                                                             *)
(***************************************************************************)
\* "The Browser Runtime cannot restart while an active Browser Context is open" (the error
\* of restart): no page loses its browser to a restart or a rotation, and none is left in a
\* process that the runtime no longer knows, as long as no call met a launch or a close that
\* was under way.
PagesKeepTheirBrowser ==
  ~raced => \A j \in Job :
    pc[j] \in {"opening", "open"} => j \notin killed /\ (own[j] \in alive => own[j] = browser)

\* The same whatever the calls do: two launches at once leave one process behind, and the
\* end of a close forgets the jobs that have started since it began.
RestartSparesPages == \A j \in Job : j \notin killed
=============================================================================
