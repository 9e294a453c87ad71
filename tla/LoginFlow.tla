------------------------------ MODULE LoginFlow ------------------------------
(***************************************************************************)
(* Authentication Sessions and the Login Flow: the session.* and otp.*     *)
(* commands of the application service, the OTP engine of archive-core,    *)
(* the one slot for an authentication browser, the rows of                 *)
(* browser_sessions and the stored browser states they refer to.           *)
(*                                                                         *)
(* Commands are not serialised: each is a thread that waits for the        *)
(* browser and the vault between its steps.  A row is replaced only by an  *)
(* update computed from the revision it still has.                         *)
(***************************************************************************)
EXTENDS Naturals

CONSTANTS Session, Command, NoSession,
          MaxCommands, MaxRefs, MaxBrowsers, MaxEngines, MaxFaults

VARIABLES
  row,       \* [Session -> row]; revision 0: no row
  stored,    \* references of the secrets in the vault
  run,       \* state of the Run
  active,    \* activeAuthentications: the browser of a session and the row before it
  browser,   \* each browser: "none", "open", "gone" (closed by the user), "closed"
  slot,      \* activeAuthenticationSession of the browser runtime
  flow,      \* activeOtpFlows: the engine of a session, 0 for none
  engine,    \* the state of each engine
  pc, mem,   \* of each command
  commands, refs, browsers, engines, faults,  \* bounds
  removed,   \* references that a delete command has taken out of the vault
  saved      \* sessions saved since the Run began to wait

db == <<row, stored, run>>
app == <<active, browser, slot, flow, engine>>
counts == <<commands, refs, browsers, engines, faults>>
vars == <<db, app, pc, mem, counts, removed, saved>>

SessionStates == {"ready", "login_browser_open", "authentication_in_progress",
                  "authenticated_unpersisted", "saving", "valid", "validation_required",
                  "invalid", "expired", "reauth_required", "corrupt", "deleted"}

EngineStates == {"idle", "opening_login", "waiting_for_otp", "verifying", "invalid_code",
                 "expired_code", "timed_out", "authenticated", "cancelled", "browser_closed",
                 "navigation_changed", "failed"}

NoRow == [revision |-> 0, state |-> "ready", ref |-> 0]
NoAuthentication == [browser |-> 0, previous |-> NoRow]
Blank == [session |-> NoSession, row |-> NoRow, auth |-> NoAuthentication, browser |-> 0,
          ref |-> 0, engine |-> 0, state |-> "none"]

\* The columns of browser_sessions that commands look at.
RowType == [revision : Nat, state : SessionStates, ref : 0..MaxRefs]

\* Rows, references, browsers and engines have their types; saveSession gives every row that
\* says valid a reference (stateStorageRef).
TypeOK ==
  /\ row \in [Session -> RowType]
  /\ stored \subseteq 1..MaxRefs /\ removed \subseteq 1..MaxRefs /\ saved \subseteq Session
  /\ run \in {"running", "waiting_for_auth"}
  /\ active \in [Session -> [browser : 0..MaxBrowsers, previous : RowType]]
  /\ browser \in [1..MaxBrowsers -> {"none", "open", "gone", "closed"}]
  /\ slot \in 0..MaxBrowsers
  /\ flow \in [Session -> 0..MaxEngines]
  /\ engine \in [1..MaxEngines -> EngineStates]
  /\ \A s \in Session : row[s].state = "valid" => row[s].ref # 0

Init ==
  /\ row = [s \in Session |-> NoRow] /\ stored = {} /\ run = "running"
  /\ active = [s \in Session |-> NoAuthentication]
  /\ browser = [b \in 1..MaxBrowsers |-> "none"] /\ slot = 0
  /\ flow = [s \in Session |-> 0] /\ engine = [e \in 1..MaxEngines |-> "idle"]
  /\ pc = [t \in Command |-> "idle"] /\ mem = [t \in Command |-> Blank]
  /\ commands = 0 /\ refs = 0 /\ browsers = 0 /\ engines = 0 /\ faults = 0
  /\ removed = {} /\ saved = {}

-----------------------------------------------------------------------------
(***************************************************************************)
(* The transition table and the update of a row.                           *)
(***************************************************************************)
Ends == {"validation_required", "reauth_required", "corrupt", "deleted"}
Rejected == {"invalid", "expired"}

SESSION_TRANSITIONS ==
  [ready |-> {"login_browser_open", "deleted"},
   login_browser_open |-> SessionStates \ {"ready", "login_browser_open"},
   authentication_in_progress |-> {"authenticated_unpersisted", "saving"} \cup Ends \cup Rejected,
   authenticated_unpersisted |-> {"saving", "valid"} \cup Ends \cup Rejected,
   saving |-> {"authenticated_unpersisted", "valid"} \cup Ends \cup Rejected,
   valid |-> {"login_browser_open", "authentication_in_progress"} \cup Ends \cup Rejected,
   validation_required |-> {"login_browser_open", "authentication_in_progress", "valid"}
                           \cup (Ends \ {"validation_required"}) \cup Rejected,
   invalid |-> {"login_browser_open", "authentication_in_progress", "saving", "valid"}
               \cup (Ends \ {"validation_required"}),
   expired |-> {"login_browser_open", "authentication_in_progress", "saving", "valid"}
               \cup (Ends \ {"validation_required"}),
   reauth_required |-> {"login_browser_open", "authentication_in_progress", "saving", "valid"}
                       \cup (Ends \ {"reauth_required"}) \cup Rejected,
   corrupt |-> {"login_browser_open", "authentication_in_progress", "saving", "valid",
                "reauth_required", "deleted"},
   deleted |-> {}]

\* updateSessionMetadata: staying in a state is always allowed.
Moves(from, to) == from = to \/ to \in SESSION_TRANSITIONS[from]

\* updateSession: the row must still have the revision that was read.
CanUpdate(s, read, state) ==
  /\ row[s].revision # 0 /\ row[s].revision = read.revision
  /\ Moves(read.state, state)

Created == [revision |-> 1, state |-> "ready", ref |-> 0]
Updated(read, state, ref) == [revision |-> read.revision + 1, state |-> state, ref |-> ref]

\* What validationOutcome makes of a browser's or a stored state's check.
OutcomeState(status) ==
  CASE status = "valid" -> "valid"
    [] status \in {"expired", "invalid", "incompatible_profile"} -> "reauth_required"
    [] status \in {"unavailable", "configuration_missing"} -> "validation_required"
    [] status = "corrupt" -> "corrupt"

Goto(t, place) == pc' = [pc EXCEPT ![t] = place]
Done(t) == Goto(t, "idle") /\ mem' = [mem EXCEPT ![t] = Blank]

Starts(t, place, m) ==
  /\ pc[t] = "idle" /\ commands < MaxCommands /\ commands' = commands + 1
  /\ Goto(t, place) /\ mem' = [mem EXCEPT ![t] = m]

Fault == faults < MaxFaults /\ faults' = faults + 1

\* closeAuthentication: the context is closed, whatever is registered for the session is
\* dropped, and the slot is freed if its browser belongs to the session.
Close(s, auth) ==
  /\ browser' = IF auth.browser = 0 THEN browser
                ELSE [browser EXCEPT ![auth.browser] = "closed"]
  /\ active' = [active EXCEPT ![s] = NoAuthentication]
  /\ flow' = [flow EXCEPT ![s] = 0]
  /\ slot' = IF auth.browser # 0 /\ browser[auth.browser] # "closed" /\ slot # 0
                /\ (slot = auth.browser \/ slot = active[s].browser)
             THEN 0 ELSE slot

\* restorePreviousMetadata writes over whatever the row is by now.
Restored(s, auth) ==
  IF auth.previous.revision = 0 \/ row[s].revision = 0 THEN row[s]
  ELSE [auth.previous EXCEPT !.revision = row[s].revision + 1]

-----------------------------------------------------------------------------
(***************************************************************************)
(* session.open and session.reauthenticate.                                *)
(***************************************************************************)
\* assertAuthenticationSlot.
NoOther(s) == \A u \in Session \ {s} : active[u].browser = 0

\* A new session has an identifier of its own.
OpenSession(t, s) ==
  /\ NoOther(s) /\ row[s].revision = 0 /\ active[s] = NoAuthentication /\ s \notin saved
  /\ \A u \in Command : mem[u].session # s
  /\ Starts(t, "writing", [Blank EXCEPT !.session = s])
  /\ UNCHANGED <<db, app, refs, browsers, engines, faults, removed, saved>>

Reauthenticate(t, s) ==
  /\ NoOther(s) /\ row[s].revision # 0
  /\ Starts(t, "writing", [Blank EXCEPT !.session = s, !.row = row[s]])
  /\ UNCHANGED <<db, app, refs, browsers, engines, faults, removed, saved>>

\* The row of a new session is inserted and moved on; that of an old one moves from what
\* was read before the proxy was looked up.
WriteOpening(t) ==
  LET s == mem[t].session read == mem[t].row new == read.revision = 0 IN
  /\ pc[t] = "writing"
  /\ IF new \/ CanUpdate(s, read, "login_browser_open")
     THEN /\ row' = [row EXCEPT ![s] =
               IF new THEN Updated(Created, "login_browser_open", 0)
               ELSE Updated(read, "login_browser_open", read.ref)]
          /\ Goto(t, "launching") /\ mem' = [mem EXCEPT ![t].row = row'[s],
                                                         ![t].auth.previous = read]
     ELSE Done(t) /\ UNCHANGED row
  /\ UNCHANGED <<stored, run, app, counts, removed, saved>>

\* What a failed opening leaves: no new row, or the old metadata.
UndoOpening(t) ==
  LET s == mem[t].session previous == mem[t].auth.previous IN
  row' = [row EXCEPT ![s] =
            IF previous.revision = 0 THEN NoRow
            ELSE IF @.revision = mem[t].row.revision
                 THEN Updated(@, previous.state, previous.ref) ELSE @]

\* createAuthenticationContext looks at the slot before it launches,
CheckSlot(t) ==
  /\ pc[t] = "launching"
  /\ IF slot = 0 THEN Goto(t, "opening") /\ UNCHANGED <<row, mem>>
     ELSE UndoOpening(t) /\ Done(t)
  /\ UNCHANGED <<stored, run, app, counts, removed, saved>>

\* and takes it when the login page is there.
OpenBrowser(t) ==
  LET s == mem[t].session b == browsers + 1 IN
  /\ pc[t] = "opening"
  /\ \/ /\ browsers < MaxBrowsers /\ browsers' = b
        /\ browser' = [browser EXCEPT ![b] = "open"] /\ slot' = b
        /\ active' = [active EXCEPT ![s] = [browser |-> b, previous |-> mem[t].auth.previous]]
        /\ UNCHANGED <<row, faults>>
     \/ Fault /\ UndoOpening(t) /\ UNCHANGED <<browsers, browser, slot, active>>
  /\ Done(t)
  /\ UNCHANGED <<stored, run, flow, engine, commands, refs, engines, removed, saved>>

\* The user closes the window.
CloseWindow(b) ==
  /\ browser[b] = "open" /\ Fault
  /\ browser' = [browser EXCEPT ![b] = "gone"]
  /\ UNCHANGED <<db, active, slot, flow, engine, pc, mem, commands, refs, browsers, engines,
                 removed, saved>>

-----------------------------------------------------------------------------
(***************************************************************************)
(* session.save, as a command and as the last part of otp.provide          *)
(* (mem.engine is then the engine that waits for it).                      *)
(***************************************************************************)
SaveEnds(t, state) ==
  IF mem[t].engine = 0 THEN Done(t)
  ELSE Goto(t, "resuming") /\ mem' = [mem EXCEPT ![t].state = state]

Save(t, s) ==
  /\ active[s].browser # 0 /\ row[s].revision # 0
  /\ Starts(t, "validating", [Blank EXCEPT !.session = s, !.row = row[s], !.auth = active[s]])
  /\ UNCHANGED <<db, app, refs, browsers, engines, faults, removed, saved>>

\* What validate of a manual browser may say: it throws once the context is closed.
Checks(b) ==
  CASE browser[b] = "closed" -> {"error"}
    [] browser[b] = "gone" -> {"unavailable"}
    [] OTHER -> {"valid", "expired", "unavailable"}

\* A check that is not "valid" ends a reauthentication with the old metadata, and answers
\* with them; it ends a first login with the outcome.
ValidateBrowser(t) ==
  LET s == mem[t].session auth == mem[t].auth read == mem[t].row IN
  /\ pc[t] = "validating"
  /\ \E status \in Checks(auth.browser) :
       \/ /\ status = "valid"
          /\ IF CanUpdate(s, read, "saving")
             THEN /\ row' = [row EXCEPT ![s] = Updated(read, "saving", read.ref)]
                  /\ Goto(t, "capturing") /\ mem' = [mem EXCEPT ![t].row = row'[s]]
             ELSE SaveEnds(t, "error") /\ UNCHANGED row
          /\ UNCHANGED <<active, browser, slot, flow>>
       \/ /\ status # "valid" /\ auth.previous.revision # 0
          /\ row' = [row EXCEPT ![s] = Restored(s, auth)]
          /\ Close(s, auth)
          /\ SaveEnds(t, IF status = "error" THEN "error" ELSE row'[s].state)
       \/ /\ status # "valid" /\ auth.previous.revision = 0
          /\ LET next == IF status = "error" THEN "validation_required" ELSE OutcomeState(status)
             IN IF CanUpdate(s, read, next)
                THEN /\ row' = [row EXCEPT ![s] = Updated(read, next, read.ref)]
                     /\ IF status = "error" THEN UNCHANGED <<active, browser, slot, flow>>
                        ELSE Close(s, auth)
                     /\ SaveEnds(t, IF status = "error" THEN "error" ELSE next)
                ELSE SaveEnds(t, "error") /\ UNCHANGED <<row, active, browser, slot, flow>>
  /\ UNCHANGED <<stored, run, engine, counts, removed, saved>>

\* captureStorageState, then createSecret or replaceSecret.
Capture(t) ==
  LET s == mem[t].session auth == mem[t].auth read == mem[t].row new == read.ref = 0 IN
  /\ pc[t] = "capturing"
  /\ \/ /\ browser[auth.browser] = "open" /\ (new \/ read.ref \in stored)
        /\ IF new THEN refs < MaxRefs /\ refs' = refs + 1 /\ stored' = stored \cup {refs'}
           ELSE UNCHANGED <<refs, stored>>
        /\ Goto(t, "persisting")
        /\ mem' = [mem EXCEPT ![t].ref = IF new THEN refs' ELSE read.ref]
        /\ UNCHANGED <<row, active, browser, slot, flow, faults>>
     \* The context is closed: the row stays "saving".
     \/ /\ browser[auth.browser] = "closed"
        /\ SaveEnds(t, "error")
        /\ UNCHANGED <<row, stored, active, browser, slot, flow, refs, faults>>
     \* The window is gone: the state cannot be captured.
     \/ /\ browser[auth.browser] = "gone"
        /\ row' = LET base == IF CanUpdate(s, read, "corrupt")
                              THEN Updated(read, "corrupt", read.ref) ELSE row[s]
                  IN [row EXCEPT ![s] = IF auth.previous.revision = 0 \/ base.revision = 0 THEN base
                                        ELSE [auth.previous EXCEPT !.revision = base.revision + 1]]
        /\ Close(s, auth) /\ SaveEnds(t, "error")
        /\ UNCHANGED <<stored, refs, faults>>
     \* The vault refuses (it is locked), or has no such secret.
     \/ /\ browser[auth.browser] = "open"
        /\ IF new \/ read.ref \in stored THEN Fault ELSE UNCHANGED faults
        /\ IF auth.previous.revision # 0
           THEN row' = [row EXCEPT ![s] = Restored(s, auth)] /\ Close(s, auth)
           ELSE /\ row' = [row EXCEPT ![s] =
                             IF /\ active[s].browser # 0
                                /\ CanUpdate(s, read, "authenticated_unpersisted")
                             THEN Updated(read, "authenticated_unpersisted", 0) ELSE @]
                /\ UNCHANGED <<active, browser, slot, flow>>
        /\ SaveEnds(t, "error")
        /\ UNCHANGED <<stored, refs>>
  /\ UNCHANGED <<run, engine, commands, browsers, engines, removed, saved>>

\* The row says valid, and the browser is closed.  When it changed in the meantime, a
\* secret that this command made is deleted.
Persist(t) ==
  LET s == mem[t].session read == mem[t].row IN
  /\ pc[t] = "persisting"
  /\ IF CanUpdate(s, read, "valid")
     THEN /\ row' = [row EXCEPT ![s] = Updated(read, "valid", mem[t].ref)]
          /\ saved' = saved \cup {s}
          /\ Close(s, mem[t].auth) /\ SaveEnds(t, "valid") /\ UNCHANGED stored
     ELSE /\ stored' = IF read.ref = 0 THEN stored \ {mem[t].ref} ELSE stored
          /\ SaveEnds(t, "error") /\ UNCHANGED <<row, active, browser, slot, flow, saved>>
  /\ UNCHANGED <<run, engine, counts, removed>>

-----------------------------------------------------------------------------
(***************************************************************************)
(* The other session commands.                                             *)
(***************************************************************************)
\* session.validate and session.restore read the row,
Validate(t, s) ==
  /\ row[s].revision # 0
  /\ Starts(t, "restoring", [Blank EXCEPT !.session = s, !.row = row[s]])
  /\ UNCHANGED <<db, app, refs, browsers, engines, faults, removed, saved>>

\* and, when they can open a browser, write what they found.  That browser takes the slot
\* and gives it back, from whoever has it.
ValidateStored(t) ==
  LET s == mem[t].session read == mem[t].row
      statuses == IF read.ref = 0 \/ read.ref \notin stored THEN {"corrupt"}
                  ELSE {"valid", "expired", "unavailable"} IN
  /\ pc[t] = "restoring"
  /\ \E status \in statuses :
       /\ row' = [row EXCEPT ![s] = IF CanUpdate(s, read, OutcomeState(status))
                                    THEN Updated(read, OutcomeState(status), read.ref) ELSE @]
       /\ slot' \in (IF status = "corrupt" THEN {slot} ELSE {slot, 0})
  /\ Done(t)
  /\ UNCHANGED <<stored, run, active, browser, flow, engine, counts, removed, saved>>

\* The slot is taken: BROWSER_AUTHENTICATION_BUSY, and nothing is written.
ValidateBusy(t) ==
  /\ pc[t] = "restoring" /\ slot # 0 /\ mem[t].row.ref \in stored
  /\ Done(t)
  /\ UNCHANGED <<db, app, counts, removed, saved>>

\* session.setProxyAffinity, to another proxy.
SetProxyAffinity(s) ==
  /\ active[s].browser = 0 /\ row[s].revision # 0 /\ commands < MaxCommands
  /\ commands' = commands + 1
  /\ row' = [row EXCEPT ![s].revision = @ + 1,
                        ![s].state = IF @ = "valid" THEN "reauth_required" ELSE @]
  /\ UNCHANGED <<stored, run, app, pc, mem, refs, browsers, engines, faults, removed, saved>>

\* session.delete reads the row and closes the browser,
Delete(t, s) ==
  /\ Starts(t, "forgetting", [Blank EXCEPT !.session = s, !.row = row[s]])
  /\ row[s].revision # 0 \/ active[s].browser # 0
  /\ IF active[s].browser # 0 THEN Close(s, active[s])
     ELSE UNCHANGED <<active, browser, slot, flow>>
  /\ UNCHANGED <<db, engine, refs, browsers, engines, faults, removed, saved>>

\* takes the secret out of the vault, if the vault lets it,
ForgetSecret(t) ==
  LET ref == mem[t].row.ref IN
  /\ pc[t] = "forgetting"
  /\ \/ /\ stored' = stored \ {ref} /\ removed' = removed \cup ({ref} \ {0})
        /\ Goto(t, "deleting") /\ UNCHANGED <<mem, faults>>
     \/ ref # 0 /\ Fault /\ Done(t) /\ UNCHANGED <<stored, removed>>
  /\ UNCHANGED <<row, run, app, commands, refs, browsers, engines, saved>>

\* and deletes the row, whatever it says by now.
DeleteRow(t) ==
  /\ pc[t] = "deleting"
  /\ row' = [row EXCEPT ![mem[t].session] = NoRow]
  /\ Done(t)
  /\ UNCHANGED <<stored, run, app, counts, removed, saved>>

\* secret.delete.
DeleteSecret(r) ==
  /\ r \in stored /\ commands < MaxCommands /\ commands' = commands + 1
  /\ stored' = stored \ {r} /\ removed' = removed \cup {r}
  /\ UNCHANGED <<row, run, app, pc, mem, refs, browsers, engines, faults, saved>>

\* project.close: each browser is closed and each reauthentication undone.
CloseProject(s) ==
  /\ active[s].browser # 0 /\ commands < MaxCommands /\ commands' = commands + 1
  /\ row' = [row EXCEPT ![s] = Restored(s, active[s])]
  /\ Close(s, active[s])
  /\ UNCHANGED <<stored, run, engine, pc, mem, refs, browsers, engines, faults, removed, saved>>

-----------------------------------------------------------------------------
(***************************************************************************)
(* The otp.* commands and the engine.                                      *)
(***************************************************************************)
Set(e, state) == engine' = [engine EXCEPT ![e] = state]

\* closeAfterBrowserClosed.
AfterBrowserClosed(s, auth) ==
  /\ row' = [row EXCEPT ![s] =
       IF auth.previous.revision # 0 THEN Restored(s, auth)
       ELSE IF @.revision # 0 /\ Moves(@.state, "reauth_required")
            THEN Updated(@, "reauth_required", @.ref) ELSE @]
  /\ Close(s, auth)

\* otp.start captures the browser, the row and the absence of a flow, then reads the profile.
StartFlow(t, s) ==
  /\ active[s].browser # 0 /\ row[s].revision # 0 /\ flow[s] = 0
  /\ Starts(t, "starting", [Blank EXCEPT !.session = s, !.row = row[s], !.auth = active[s]])
  /\ UNCHANGED <<db, app, refs, browsers, engines, faults, removed, saved>>

\* The session is marked after a look at the Run;
MarkSession(t) ==
  LET s == mem[t].session read == mem[t].row
      marked == read.state = "authentication_in_progress" IN
  /\ pc[t] = "starting"
  /\ IF marked \/ CanUpdate(s, read, "authentication_in_progress")
     THEN /\ row' = IF marked THEN row
                    ELSE [row EXCEPT ![s] = Updated(read, "authentication_in_progress", read.ref)]
          /\ Goto(t, "marked") /\ mem' = [mem EXCEPT ![t].state = run]
     ELSE Done(t) /\ UNCHANGED row
  /\ UNCHANGED <<stored, run, app, counts, removed, saved>>

\* then the Run, if it was running at that look, and the engine is registered.  A Run that
\* cannot be written leaves the session marked and no flow.
BeginFlow(t) ==
  LET s == mem[t].session e == engines + 1 running == mem[t].state = "running" IN
  /\ pc[t] = "marked"
  /\ \/ /\ engines < MaxEngines /\ engines' = e
        /\ run' = IF running THEN "waiting_for_auth" ELSE run
        /\ saved' = IF running /\ run = "running" THEN {} ELSE saved
        /\ flow' = [flow EXCEPT ![s] = e] /\ Set(e, "opening_login")
        /\ Goto(t, "asking") /\ mem' = [mem EXCEPT ![t].engine = e] /\ UNCHANGED faults
     \/ running /\ Fault /\ Done(t) /\ UNCHANGED <<run, saved, engines, flow, engine>>
  /\ UNCHANGED <<row, stored, active, browser, slot, commands, refs, browsers, removed>>

\* OtpFlowEngine.start: the login page, the phone number, the request.
AskForCode(t) ==
  LET s == mem[t].session e == mem[t].engine auth == mem[t].auth IN
  /\ pc[t] = "asking"
  /\ \/ /\ browser[auth.browser] = "open" /\ Set(e, "waiting_for_otp")
        /\ UNCHANGED <<row, active, browser, slot, flow>>
     \/ /\ \E state \in {"failed", "navigation_changed"} : Set(e, state)
        /\ flow' = [flow EXCEPT ![s] = 0] /\ UNCHANGED <<row, active, browser, slot>>
     \/ /\ browser[auth.browser] # "open"
        /\ Set(e, "browser_closed") /\ AfterBrowserClosed(s, auth)
  /\ Done(t)
  /\ UNCHANGED <<stored, run, counts, removed, saved>>

\* The wait for a code is over when somebody looks after its time.
Expire(e) ==
  /\ engine[e] = "waiting_for_otp" /\ Fault /\ Set(e, "timed_out")
  /\ UNCHANGED <<db, active, browser, slot, flow, pc, mem, commands, refs, browsers, engines,
                 removed, saved>>

\* Every other otp command first looks whether the window is still there.
Provide(t, s) ==
  LET e == flow[s] IN
  /\ e # 0 /\ row[s].revision # 0 /\ active[s].browser # 0 /\ browser[active[s].browser] = "open"
  /\ engine[e] \in {"waiting_for_otp", "invalid_code"}
  /\ Starts(t, "verifying", [Blank EXCEPT !.session = s, !.engine = e, !.auth = active[s]])
  /\ Set(e, "verifying")
  /\ UNCHANGED <<db, active, browser, slot, flow, refs, browsers, engines, faults, removed, saved>>

FindClosed(s) ==
  LET e == flow[s] IN
  /\ e # 0 /\ active[s].browser # 0 /\ browser[active[s].browser] # "open"
  /\ engine' = [engine EXCEPT ![e] = IF @ \in {"authenticated", "cancelled"} THEN @
                                     ELSE "browser_closed"]
  /\ AfterBrowserClosed(s, active[s])
  /\ UNCHANGED <<stored, run, pc, mem, counts, removed, saved>>

\* provideOtp: the code is rejected, or accepted and the session validated; then the
\* session is saved as session.save does, when the browser is still registered.
Verify(t) ==
  LET s == mem[t].session e == mem[t].engine b == mem[t].auth.browser IN
  /\ pc[t] = "verifying"
  /\ \/ /\ browser[b] = "open"
        /\ IF active[s].browser # 0 /\ row[s].revision # 0
           THEN /\ Goto(t, "validating") /\ UNCHANGED engine
                /\ mem' = [mem EXCEPT ![t].row = row[s], ![t].auth = active[s]]
           ELSE Set(e, "invalid_code") /\ Done(t)
     \/ /\ \E state \in {"invalid_code", "expired_code", "failed", "browser_closed"} : Set(e, state)
        /\ Done(t)
  /\ UNCHANGED <<db, active, browser, slot, flow, counts, removed, saved>>

\* A bug: what the save answered is not looked at.
ResumeAnyway(t) ==
  LET e == mem[t].engine IN
  /\ pc[t] = "resuming"
  /\ IF mem[t].state # "error"
     THEN run' = "running" /\ Set(e, "authenticated")
     ELSE Set(e, "invalid_code") /\ UNCHANGED run
  /\ Done(t)
  /\ UNCHANGED <<row, stored, active, browser, slot, flow, counts, removed, saved>>

\* onAuthenticated: the Run goes on when the saved session is valid and the Run can be
\* written; otherwise the engine reports a code that failed.
ResumeRun(t) ==
  LET e == mem[t].engine IN
  /\ pc[t] = "resuming"
  /\ \/ /\ mem[t].state = "valid" /\ UNCHANGED faults
        /\ run' = "running" /\ Set(e, "authenticated")
     \/ /\ mem[t].state = "valid" /\ Fault
        /\ Set(e, "invalid_code") /\ UNCHANGED run
     \/ /\ mem[t].state # "valid" /\ UNCHANGED <<run, faults>>
        /\ Set(e, IF mem[t].state = "error" THEN "invalid_code" ELSE "failed")
  /\ Done(t)
  /\ UNCHANGED <<row, stored, active, browser, slot, flow, commands, refs, browsers, engines,
                 removed, saved>>

Resend(t, s) ==
  LET e == flow[s] IN
  /\ e # 0 /\ row[s].revision # 0 /\ active[s].browser # 0 /\ browser[active[s].browser] = "open"
  /\ engine[e] \in {"waiting_for_otp", "invalid_code", "expired_code", "timed_out"}
  /\ Starts(t, "resending", [Blank EXCEPT !.session = s, !.engine = e])
  /\ UNCHANGED <<db, app, refs, browsers, engines, faults, removed, saved>>

Resent(t) ==
  /\ pc[t] = "resending"
  /\ \E state \in {"waiting_for_otp", "failed"} : Set(mem[t].engine, state)
  /\ Done(t)
  /\ UNCHANGED <<db, active, browser, slot, flow, counts, removed, saved>>

Cancel(t, s) ==
  /\ flow[s] # 0 /\ row[s].revision # 0 /\ active[s].browser # 0
  /\ browser[active[s].browser] = "open"
  /\ Starts(t, "cancelling", [Blank EXCEPT !.session = s, !.engine = flow[s], !.auth = active[s]])
  /\ UNCHANGED <<db, app, refs, browsers, engines, faults, removed, saved>>

\* The fields are cleared; then engine, row and browser follow, in one go up to the close.
\* A row that is gone or cannot move leaves the browser open.
Cancelled(t) ==
  LET s == mem[t].session e == mem[t].engine IN
  /\ pc[t] = "cancelling"
  /\ Set(e, IF engine[e] = "authenticated" THEN "authenticated" ELSE "cancelled")
  /\ IF row[s].revision # 0 /\ Moves(row[s].state, "reauth_required")
     THEN /\ row' = [row EXCEPT ![s] = Updated(@, "reauth_required", @.ref)]
          /\ Close(s, mem[t].auth)
     ELSE UNCHANGED <<row, active, browser, slot, flow>>
  /\ Done(t)
  /\ UNCHANGED <<stored, run, counts, removed, saved>>

\* The process ends and starts again: rows, vault and Run are what is left.
Crash ==
  /\ Fault
  /\ active' = [s \in Session |-> NoAuthentication] /\ slot' = 0
  /\ browser' = [b \in 1..MaxBrowsers |-> IF browser[b] = "none" THEN "none" ELSE "closed"]
  /\ flow' = [s \in Session |-> 0]
  /\ pc' = [t \in Command |-> "idle"] /\ mem' = [t \in Command |-> Blank]
  /\ UNCHANGED <<db, engine, commands, refs, browsers, engines, removed, saved>>

Next ==
  \/ \E t \in Command, s \in Session :
       \/ OpenSession(t, s) \/ Reauthenticate(t, s) \/ Save(t, s) \/ Validate(t, s)
       \/ Delete(t, s) \/ StartFlow(t, s) \/ Provide(t, s) \/ Resend(t, s) \/ Cancel(t, s)
  \/ \E t \in Command :
       \/ WriteOpening(t) \/ CheckSlot(t) \/ OpenBrowser(t)
       \/ ValidateBrowser(t) \/ Capture(t) \/ Persist(t)
       \/ ValidateStored(t) \/ ValidateBusy(t) \/ ForgetSecret(t) \/ DeleteRow(t)
       \/ MarkSession(t) \/ BeginFlow(t) \/ AskForCode(t) \/ Verify(t) \/ ResumeRun(t)
       \/ Resent(t) \/ Cancelled(t)
  \/ \E s \in Session : SetProxyAffinity(s) \/ CloseProject(s) \/ FindClosed(s)
  \/ \E b \in 1..MaxBrowsers : CloseWindow(b)
  \/ \E e \in 1..MaxEngines : Expire(e)
  \/ \E r \in 1..MaxRefs : DeleteSecret(r)
  \/ Crash

Spec == Init /\ [][Next]_vars

-----------------------------------------------------------------------------
(***************************************************************************)
(* Properties.                                                             *)
(***************************************************************************)
\* A session that says valid has its browser state in the vault: no failed, repeated or
\* cancelled save, no undone reauthentication and no crash takes it away.  Only a delete
\* command does, which removes the secret before the row.
ValidSessionHasItsState ==
  \A s \in Session : row[s].state = "valid" => row[s].ref \in stored \cup removed

\* AUTHENTICATION_SESSIONS.md: the Run goes "back to `running` only after the same Session
\* is validated and saved".
RunResumesAfterSave ==
  [][run = "waiting_for_auth" /\ run' = "running" =>
       \E t \in Command : pc[t] = "resuming" /\ mem[t].session \in saved]_vars

\* The same of a first login; a reauthentication whose save is refused answers with the
\* old metadata, which may say valid.
ResumesFirstLogin ==
  run = "waiting_for_auth" /\ run' = "running" =>
    \E t \in Command : pc[t] = "resuming" /\
      (mem[t].session \in saved \/ mem[t].auth.previous.state = "valid")

\* Every step of onAuthenticated is such a step.
FirstLoginResumesAfterSave == [][ResumesFirstLogin]_vars
=============================================================================
