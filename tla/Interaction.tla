---------------------------- MODULE Interaction ----------------------------
(***************************************************************************)
(* One approved interaction plan at work in a page:                        *)
(* executePlaywrightInteractionPlan (browser-runtime/src/interaction.ts),  *)
(* the budget and the trace it is given (archive-core/src/interaction.ts)  *)
(* and the handlers of dialogs and popups, which the page starts whenever  *)
(* it likes.  A step is a stretch of code between two awaits.  A click     *)
(* stands for every step that is one call of the browser, a tab for those  *)
(* that draw on a budget at every key or scroll.                           *)
(***************************************************************************)
EXTENDS Naturals, Sequences, FiniteSets

CONSTANTS
  Plans,              \* approved plans as they are handed over
  Dialog, Popup,      \* what the page may open
  maxActionsPerPage, maxTabSteps, maxDialogsPerPage, maxPopupsPerPage, maxTraceEvents,
  MaxHappenings       \* how much of an abort, a pause, a crash, a time-out meets one plan

VARIABLES
  enabled,    \* profile.enabled
  plan,       \* sequence of [type, keys, failurePolicy, maxAttempts, retryable]
  pc,         \* where the function is
  index,      \* the step it is at
  attempt, keys, lastError,   \* of that step: tries, keys left, last failure
  budget,     \* createInteractionBudget: what was consumed
  trace,      \* InteractionTraceBuilder: events and whether it gave up
  external,   \* externalFailure
  completedStepCount, status,
  result,     \* what was returned
  installed,  \* whether the page has the plan's handlers
  handler,    \* each dialog and popup: how far its handler is
  world,      \* what happened outside: aborted, pause asked, page crashed, out of time
  pressed, tries  \* history: keys pressed; how often each step was tried

vars == <<enabled, plan, pc, index, attempt, keys, lastError, budget, trace, external,
          completedStepCount, status, result, installed, handler, world, pressed, tries>>

Window == Dialog \cup Popup
Categories == {"budget", "timeout", "cancellation", "pause", "browser", "security",
               "target", "unknown"}
NoResult == [events |-> <<>>, truncated |-> FALSE, done |-> 0, status |-> "none"]
Pending == {"acting", "overBudget", "broken"}
Waiting == {o \in Window : handler[o] \in Pending}
\* waitForInteractionHandlers, and a mutant that does not wait.
NobodyAwaited == TRUE
HandlersDone == Waiting = {}

Step == plan[index]

\* validateInteractionPlan refuses a plan beyond the limits of the profile and forgets the
\* categories that may not be retried; maxActionsPerPage is compared here and nowhere else.
Retryable == {"timeout", "browser", "target", "unknown"}
Approved ==
  {p \in Plans : /\ Len(p) <= maxActionsPerPage
                 /\ \A i \in DOMAIN p : p[i].keys <= maxTabSteps /\ p[i].maxAttempts \in 1..3}
Parsed(p) == [i \in DOMAIN p |-> [p[i] EXCEPT !.retryable = @ \cap Retryable]]

Event(kind, at, outcome) == [kind |-> kind, at |-> at, outcome |-> outcome]

\* InteractionTraceBuilder.add: the first event beyond the limit ends the trace.
Add(t, event) ==
  IF t.truncated \/ Len(t.events) >= maxTraceEvents THEN [t EXCEPT !.truncated = TRUE]
  ELSE [t EXCEPT !.events = Append(@, event)]

TypeOK ==
  /\ enabled \in BOOLEAN /\ index \in 1..(Len(plan) + 1)
  /\ \E p \in Approved : plan = Parsed(p)
  /\ pc \in {"start", "next", "asking", "pacing", "checking", "trying", "pressing", "resting",
             "handlers", "backoff", "recording", "completing", "settling", "returned"}
  /\ lastError \in Categories \cup {"none"} /\ external \in Categories \cup {"none"}
  /\ budget \in [tabSteps : 0..(maxTabSteps + 3), dialogs : 0..Cardinality(Dialog),
                 popups : 0..Cardinality(Popup)]
  /\ handler \in [Window -> Pending \cup {"unborn", "ignored", "accepted", "blocked"}]

Init ==
  /\ enabled \in BOOLEAN /\ plan \in {Parsed(p) : p \in Approved}
  /\ pc = "start" /\ index = 1 /\ attempt = 0 /\ keys = 0 /\ lastError = "none"
  /\ budget = [tabSteps |-> 0, dialogs |-> 0, popups |-> 0]
  /\ trace = [events |-> <<>>, truncated |-> FALSE] /\ external = "none"
  /\ completedStepCount = 0 /\ status = "completed" /\ result = NoResult
  /\ installed = FALSE /\ handler = [o \in Window |-> "unborn"]
  /\ world = [aborted |-> FALSE, pause |-> FALSE, crashed |-> FALSE, late |-> FALSE]
  /\ pressed = 0 /\ tries = [i \in DOMAIN plan |-> 0]

-----------------------------------------------------------------------------
(***************************************************************************)
(* The plan.                                                               *)
(***************************************************************************)
theStep == <<attempt, keys, lastError>>
theWorld == <<enabled, plan, handler, world>>
theHistory == <<pressed, tries>>

\* statusFromFailure
StatusOf(category) == CASE category = "pause" -> "paused"
                        [] category = "cancellation" -> "cancelled"
                        [] category = "browser" -> "outcome-uncertain"
                        [] OTHER -> "failed"

\* The catch clause around the loop: status and one last event for the plan.
Fail(t, category) ==
  /\ status' = StatusOf(category)
  /\ trace' = Add(t, Event("plan", 0, StatusOf(category)))
  /\ pc' = "settling"

Go(place) == pc' = place /\ UNCHANGED <<status, trace>>

Start ==
  /\ pc = "start"
  /\ installed' = TRUE
  /\ trace' = Add(trace, Event("context", 0, IF enabled THEN "completed" ELSE "skipped"))
  /\ IF enabled THEN pc' = "next" /\ UNCHANGED <<status, result>>
     ELSE /\ pc' = "settling" /\ status' = "skipped"
          /\ result' = [events |-> trace'.events, truncated |-> trace'.truncated,
                        done |-> 0, status |-> "skipped"]
  /\ UNCHANGED <<index, theStep, budget, external, completedStepCount, theWorld, theHistory>>

\* The checks at the head of the loop, up to the question to shouldPause.
TakeStep ==
  /\ pc = "next"
  /\ \/ index > Len(plan) /\ Go("settling")
     \/ /\ index <= Len(plan)
        /\ \/ world.aborted /\ Fail(trace, "cancellation")
           \/ ~world.aborted /\ world.crashed /\ Fail(trace, "browser")
           \/ ~world.aborted /\ ~world.crashed /\ world.late /\ Fail(trace, "timeout")
           \/ ~world.aborted /\ ~world.crashed /\ ~world.late /\ Go("asking")
  /\ UNCHANGED <<index, theStep, budget, external, completedStepCount, result, installed,
                 theWorld, theHistory>>

\* shouldPause reads the control state of the Run, which may fail.
AskPause ==
  /\ pc = "asking"
  /\ \/ world.pause /\ Fail(trace, "pause")
     \/ ~world.pause /\ Go("pacing")
     \/ Fail(trace, "unknown")
  /\ UNCHANGED <<index, theStep, budget, external, completedStepCount, result, installed,
                 theWorld, theHistory>>

\* The delay before a step, which an abort ends.
Pace ==
  /\ pc = "pacing"
  /\ \/ world.aborted /\ Fail(trace, "cancellation")
     \/ ~world.aborted /\ world.late /\ Fail(trace, "timeout")
     \/ ~world.aborted /\ ~world.late /\ Go("checking")
  /\ UNCHANGED <<index, theStep, budget, external, completedStepCount, result, installed,
                 theWorld, theHistory>>

\* assertPreconditions and the first snapshot: neither retried nor skipped.
CheckPreconditions ==
  /\ pc = "checking"
  /\ \/ ~world.crashed /\ Go("trying")
     \/ ~world.crashed /\ Fail(trace, "target")
     \/ world.crashed /\ Fail(trace, "unknown")
  /\ attempt' = 0 /\ keys' = 0 /\ lastError' = "none"
  /\ UNCHANGED <<index, budget, external, completedStepCount, result, installed, theWorld,
                 theHistory>>

\* The catch clause of an attempt.
CanRetry(category, tried) ==
  /\ Step.failurePolicy = "retry" \/ category \in Step.retryable
  /\ tried < Step.maxAttempts
Miss(category, tried) ==
  /\ lastError' = category
  /\ Go(IF CanRetry(category, tried) THEN "backoff" ELSE "recording")

\* executeStep: an aborted signal is seen first; a click is one call of the browser, which
\* may find no unique target, an unsafe one, or fail in any other way.
TryStep ==
  /\ pc = "trying"
  /\ attempt' = attempt + 1
  /\ tries' = [tries EXCEPT ![index] = @ + 1]
  /\ \/ world.aborted /\ Miss("cancellation", attempt + 1) /\ UNCHANGED keys
     \/ /\ ~world.aborted /\ Step.type = "click" /\ UNCHANGED keys
        /\ \/ ~world.crashed /\ Go("handlers") /\ UNCHANGED lastError
           \/ ~world.crashed /\ \E c \in {"target", "security"} : Miss(c, attempt + 1)
           \/ Miss("unknown", attempt + 1)
     \/ /\ ~world.aborted /\ Step.type = "tab"
        /\ keys' = Step.keys /\ Go("pressing") /\ UNCHANGED lastError
  /\ UNCHANGED <<index, budget, external, completedStepCount, result, installed, theWorld,
                 pressed>>

\* consumeTabStep, then the key.
PressKey ==
  /\ pc = "pressing"
  /\ budget' = [budget EXCEPT !.tabSteps = @ + 1]
  /\ \/ budget'.tabSteps > maxTabSteps /\ Miss("budget", attempt) /\ UNCHANGED <<keys, pressed>>
     \/ /\ budget'.tabSteps <= maxTabSteps /\ world.crashed
        /\ Miss("unknown", attempt) /\ UNCHANGED <<keys, pressed>>
     \/ /\ budget'.tabSteps <= maxTabSteps /\ ~world.crashed
        /\ pressed' = pressed + 1 /\ keys' = keys - 1
        /\ Go("resting") /\ UNCHANGED lastError
  /\ UNCHANGED <<index, attempt, external, completedStepCount, result, installed, theWorld,
                 tries>>

\* The delay after a key.
Rest ==
  /\ pc = "resting"
  /\ \/ world.aborted /\ Miss("cancellation", attempt)
     \/ ~world.aborted /\ Go(IF keys = 0 THEN "handlers" ELSE "pressing") /\ UNCHANGED lastError
  /\ UNCHANGED <<index, attempt, keys, budget, external, completedStepCount, result, installed,
                 theWorld, theHistory>>

\* waitForHandlers, then assertPostcondition (a step may have none).
AwaitHandlers ==
  /\ pc = "handlers" /\ HandlersDone
  /\ \/ Go("completing") /\ UNCHANGED lastError
     \/ Miss(IF world.crashed THEN "unknown" ELSE "target", attempt)
  /\ UNCHANGED <<index, attempt, keys, budget, external, completedStepCount, result, installed,
                 theWorld, theHistory>>

\* The delay before a retry: it is inside the catch clause, so an abort leaves the loop
\* without an event for the step.
BackOff ==
  /\ pc = "backoff"
  /\ \/ world.aborted /\ Fail(trace, "cancellation")
     \/ ~world.aborted /\ Go("trying")
  /\ UNCHANGED <<index, theStep, budget, external, completedStepCount, result, installed,
                 theWorld, theHistory>>

RecordFailure ==
  /\ pc = "recording"
  /\ IF Step.failurePolicy = "skip"
     THEN /\ trace' = Add(trace, Event("step", index, "skipped"))
          /\ index' = index + 1 /\ pc' = "next" /\ UNCHANGED status
     ELSE /\ Fail(Add(trace, Event("step", index,
                        IF lastError = "cancellation" THEN "cancelled" ELSE "failed")), lastError)
          /\ UNCHANGED index
  /\ UNCHANGED <<theStep, budget, external, completedStepCount, result, installed, theWorld,
                 theHistory>>

\* The second snapshot, authorizeUrl of where the page is now, the step's event, and only
\* then a look at what the handlers met.
CompleteStep ==
  /\ pc = "completing"
  /\ \/ /\ Fail(trace, IF world.crashed THEN "unknown" ELSE "security")
        /\ UNCHANGED <<index, completedStepCount>>
     \/ /\ ~world.crashed
        /\ completedStepCount' = completedStepCount + 1
        /\ LET t == Add(trace, Event("step", index, "completed")) IN
             \/ external # "none" /\ Fail(t, external) /\ UNCHANGED index
             \/ external = "none" /\ world.late /\ Fail(t, "timeout") /\ UNCHANGED index
             \/ /\ external = "none" /\ ~world.late
                /\ trace' = t /\ index' = index + 1 /\ pc' = "next" /\ UNCHANGED status
  /\ UNCHANGED <<theStep, budget, external, result, installed, theWorld, theHistory>>

\* The finally clause, then the answer.  A disabled profile has its answer already.
Settle ==
  /\ pc = "settling" /\ HandlersDone
  /\ installed' = FALSE /\ pc' = "returned"
  /\ result' = IF enabled THEN [events |-> trace.events, truncated |-> trace.truncated,
                                done |-> completedStepCount, status |-> status]
               ELSE result
  /\ UNCHANGED <<index, theStep, budget, trace, external, completedStepCount, status, theWorld,
                 theHistory>>

-----------------------------------------------------------------------------
(***************************************************************************)
(* What the page opens, and its handlers.                                  *)
(***************************************************************************)
thePlan == <<enabled, plan, pc, index, theStep, completedStepCount, status, result, installed,
             theHistory>>

Used(o) == 1 + IF o \in Dialog THEN budget.dialogs ELSE budget.popups

\* consumeDialog and consumePopup run before the first await of the handler.  A page
\* without the plan's handlers dismisses dialogs and closes popups by itself.
Opens(o) ==
  /\ handler[o] = "unborn" /\ ~world.crashed
  /\ IF ~installed THEN handler' = [handler EXCEPT ![o] = "ignored"] /\ UNCHANGED budget
     ELSE LET maximum == IF o \in Dialog THEN maxDialogsPerPage ELSE maxPopupsPerPage
          IN /\ budget' = IF o \in Dialog THEN [budget EXCEPT !.dialogs = @ + 1]
                          ELSE [budget EXCEPT !.popups = @ + 1]
             /\ handler' = [handler EXCEPT ![o] = IF Used(o) > maximum THEN "overBudget" ELSE "acting"]
  /\ UNCHANGED <<thePlan, trace, external, world>>

\* The browser does what the handler asks: accept, dismiss or close.
Acts(o) ==
  /\ handler[o] = "acting" /\ ~world.crashed
  /\ handler' = [handler EXCEPT ![o] = "accepted"]
  /\ trace' = Add(trace, Event(IF o \in Dialog THEN "dialog" ELSE "popup", 0, "completed"))
  /\ UNCHANGED <<thePlan, budget, external, world>>

\* A popup outside the scope is closed and noted; it is no failure of the plan.
ClosesOutOfScope(o) ==
  /\ o \in Popup /\ handler[o] = "acting"
  /\ handler' = [handler EXCEPT ![o] = "blocked"]
  /\ trace' = Add(trace, Event("popup", 0, "blocked"))
  /\ UNCHANGED <<thePlan, budget, external, world>>

\* What the handler asks fails: the page is gone, or the dialog was already handled.
Breaks(o) ==
  /\ handler[o] = "acting"
  /\ handler' = [handler EXCEPT ![o] = "broken"]
  /\ UNCHANGED <<thePlan, budget, trace, external, world>>

\* The catch clause of a handler: dismiss or close, then remember the failure.
Blocks(o) ==
  /\ handler[o] \in {"overBudget", "broken"}
  /\ external' = IF handler[o] = "broken" THEN "unknown" ELSE "budget"
  /\ handler' = [handler EXCEPT ![o] = "blocked"]
  /\ trace' = Add(trace, Event(IF o \in Dialog THEN "dialog" ELSE "popup", 0, "blocked"))
  /\ UNCHANGED <<thePlan, budget, world>>

\* The caller aborts, the user asks for a pause, the page crashes, the time runs out.
Happens ==
  /\ pc # "returned"
  /\ Cardinality({what \in DOMAIN world : world[what]}) < MaxHappenings
  /\ \E what \in DOMAIN world : ~world[what] /\ world' = [world EXCEPT ![what] = TRUE]
  /\ UNCHANGED <<thePlan, budget, trace, external, handler>>

Next ==
  \/ Start \/ TakeStep \/ AskPause \/ Pace \/ CheckPreconditions \/ TryStep \/ PressKey \/ Rest
  \/ AwaitHandlers \/ BackOff \/ RecordFailure \/ CompleteStep \/ Settle \/ Happens
  \/ \E o \in Window : Opens(o) \/ Acts(o) \/ ClosesOutOfScope(o) \/ Breaks(o) \/ Blocks(o)

Spec == Init /\ [][Next]_vars

-----------------------------------------------------------------------------
Of(kind) == SelectSeq(result.events, LAMBDA e : e.kind = kind)
Count(kind, outcome) == Len(SelectSeq(Of(kind), LAMBDA e : e.outcome = outcome))

\* The steps of the plan have one event each, in order, up to the one where it ended; only
\* a step that may be skipped was skipped; the answer counts the completed ones.
StepsAreToldInOrder ==
  LET steps == Of("step") IN
  /\ \A i \in DOMAIN steps : steps[i].at = i
  /\ \A i \in DOMAIN steps : steps[i].outcome = "skipped" => plan[i].failurePolicy = "skip"
  /\ result.done = Count("step", "completed")
  /\ result.status = "completed" <=> Of("plan") = <<>>
  /\ result.status = "completed" => Len(steps) = Len(plan)
  /\ Of("plan") # <<>> => Of("plan")[1].outcome = result.status

\* What the handlers of the plan did is told, and nothing is done or told after the answer.
HandlersAreTold ==
  /\ Waiting = {} /\ result.events = trace.events
  /\ Len(Of("dialog")) + Len(Of("popup"))
       = Cardinality({o \in Window : handler[o] \in {"accepted", "blocked"}})

\* The answer of executePlaywrightInteractionPlan tells what happened, as long as the
\* trace was not cut: the handlers of dialogs and popups write into it between any two
\* awaits of the plan, and none may write after it was returned.
AnswerTellsThePlan ==
  pc = "returned" /\ enabled /\ ~result.truncated => StepsAreToldInOrder /\ HandlersAreTold

\* createInteractionBudget is one for the page: steps and their retries draw on it
\* together, and dialogs that open at once cannot pass it between check and count.
BudgetsHold ==
  /\ pressed <= maxTabSteps
  /\ Cardinality({o \in Dialog : handler[o] = "accepted"}) <= maxDialogsPerPage
  /\ Cardinality({o \in Popup : handler[o] = "accepted"}) <= maxPopupsPerPage
  /\ \A i \in DOMAIN plan : tries[i] <= plan[i].maxAttempts

\* BROWSER_INTERACTION.md: a Browser or Page failure is never blindly replayed.  A page
\* that crashes within a step makes the browser's call throw an error of its own, which is
\* "unknown" and retried under failurePolicy retry; isCrashed is asked between steps only.
CrashIsNotReplayed ==
  [][\A i \in DOMAIN plan : world.crashed /\ tries[i] > 0 => tries'[i] = tries[i]]_vars

\* ACCEPTANCE_MATRIX.md, AC-P10-008: an interaction beyond its dialog budget stops with a
\* failure.  externalFailure is looked at after a completed step only.
BlockedDialogFailsThePlan ==
  pc = "returned" /\ result.status = "completed" =>
    \A o \in Dialog : handler[o] # "blocked"
=============================================================================
