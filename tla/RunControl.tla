----------------------------- MODULE RunControl -----------------------------
(***************************************************************************)
(* The vocabularies and transition tables of a crawl: the states of a Page *)
(* Job (packages/queue), the product-level state of a Run and its legacy   *)
(* control state (packages/archive-core/src/run-state.ts, and the          *)
(* run_control table).  Pure definitions, no variables.                    *)
(***************************************************************************)
EXTENDS Naturals

(***************************************************************************)
(* Page Job states.  The column page_jobs.state never holds "interrupted"  *)
(* or "paused": they are overlays in recovery_state over a row that is     *)
(* still "processing".                                                     *)
(***************************************************************************)
PhysicalJobStates == {"pending", "processing", "completed", "failed",
                      "retrying", "skipped", "blocked"}

TerminalStates == {"completed", "failed", "skipped", "blocked"}

RecoveryStates == {"none", "interrupted", "paused"}

ValidJobTransitions ==
  [pending     |-> {"processing", "skipped", "blocked"},
   processing  |-> {"completed", "failed", "retrying", "skipped", "blocked",
                    "interrupted", "paused"},
   retrying    |-> {"pending", "failed"},
   interrupted |-> {"pending", "failed", "blocked"},
   paused      |-> {"pending"},
   completed   |-> {},
   failed      |-> {},
   skipped     |-> {},
   blocked     |-> {}]

\* canTransition of the queue package: one edge of the table.
CanTransition(from, to) == to \in ValidJobTransitions[from]

\* rowToJob: the overlay, when there is one, hides the column.
LogicalState(state, recoveryState) ==
  IF recoveryState = "none" THEN state ELSE recoveryState

\* shouldRetry: a retryable failure is retried while attempts remain.
ShouldRetry(attemptCount, maxAttempts, retryable) ==
  retryable /\ attemptCount < maxAttempts

(***************************************************************************)
(* Run states and the control state the repository derives from them.      *)
(***************************************************************************)
CrawlRunStates == {"running", "pausing", "paused", "waiting_for_network",
                   "waiting_for_auth", "waiting_for_rate_limit", "cancelling",
                   "cancelled", "completed", "failed"}

FinalRunStates == {"cancelled", "completed", "failed"}

\* "resuming" and "recovering" exist only inside one transaction.
RunControlStates == {"active", "pause_requested", "paused", "resuming",
                     "recovering", "stopped", "completed", "failed"}

CrawlRunTransitions ==
  [running  |-> {"pausing", "paused", "waiting_for_network", "waiting_for_auth",
                 "waiting_for_rate_limit", "cancelling", "completed", "failed"},
   pausing  |-> {"paused", "running", "cancelling", "failed"},
   paused   |-> {"running", "cancelling", "cancelled", "failed"},
   waiting_for_network    |-> {"running", "cancelling", "failed"},
   waiting_for_auth       |-> {"running", "cancelling", "failed"},
   waiting_for_rate_limit |-> {"running", "cancelling", "failed"},
   cancelling |-> {"cancelled", "failed"},
   cancelled  |-> {},
   completed  |-> {},
   failed     |-> {}]

CanTransitionCrawlRunState(from, to) ==
  from = to \/ to \in CrawlRunTransitions[from]

\* setRunState: the control state written with a Run state.
ControlFor(state) ==
  CASE state = "pausing"                   -> "pause_requested"
    [] state = "paused"                    -> "paused"
    [] state \in {"cancelling", "cancelled"} -> "stopped"
    [] state = "completed"                 -> "completed"
    [] state = "failed"                    -> "failed"
    [] OTHER                               -> "active"
=============================================================================
