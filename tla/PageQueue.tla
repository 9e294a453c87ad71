------------------------------ MODULE PageQueue ------------------------------
(***************************************************************************)
(* The durable Page Job queue of one Run: jobs, attempts, fenced Leases,   *)
(* Checkpoints, pause / resume and crash recovery                          *)
(* (packages/persistence-sqlite/src/queue.ts and recovery.ts).             *)
(*                                                                         *)
(* Every operation is one BEGIN IMMEDIATE ... COMMIT transaction, so every *)
(* operation is one action; an operation that throws is rolled back and    *)
(* changes nothing, so its guards are simply conjuncts.  What interleaves  *)
(* are the operations of several owners, of a controller and of recovery.  *)
(*                                                                         *)
(* Abstractions.                                                           *)
(*  - A claim token is a random UUID, fresh for every attempt; here it is  *)
(*    the number of the attempt it was drawn for.  The SHA-256 digest kept *)
(*    in job_leases stands for its token.                                  *)
(*  - Time appears as two events: a Lease runs out (Expire) and a retry    *)
(*    time is reached (BecomeDue).  A heartbeat or a renewal of a live     *)
(*    Lease changes neither, it only puts Expire off.                      *)
(*  - An operation repeated under its idempotency key replays the stored   *)
(*    result and writes nothing.  Only the claims' replay is an action,    *)
(*    because its reply is computed from the current rows.                 *)
(***************************************************************************)
EXTENDS Naturals, FiniteSets, RunControl

CONSTANTS Job,              \* the logical identities that may be enqueued
          Owner,            \* lease owners (worker, CLI, desktop) and zombies
          Key,              \* claim idempotency keys that may be presented again
          NoJob, NoKey,
          MaxAttempts,      \* max_attempts of every job
          Priority,         \* [Job -> Nat]
          RecoveryLimit,    \* batch limit of one recover call
          ReleaseLimit,     \* limit of one releaseDueRetries call
          RunStateRequests, \* the <<from, to>> Run states callers of setRunState ask for
          UnleasedClaims,   \* whether the Phase 6 claimNext is used as well
          FutureEvaluation  \* whether recover may be given a time ahead of now

ASSUME MaxAttemptsAssumption == MaxAttempts \in Nat \ {0}
ASSUME PriorityAssumption == Priority \in [Job -> Nat]
ASSUME LimitAssumption == RecoveryLimit \in Nat \ {0} /\ ReleaseLimit \in Nat \ {0}
ASSUME RequestAssumption == RunStateRequests \subseteq CrawlRunStates \X CrawlRunStates
ASSUME FlagAssumption == UnleasedClaims \in BOOLEAN /\ FutureEvaluation \in BOOLEAN
ASSUME NullAssumption == NoJob \notin Job /\ NoKey \notin Key

VARIABLES
  job,        \* page_jobs: one row per identity
  attempt,    \* job_attempts: the outcome of attempt n of each job
  lease,      \* job_leases: every Lease row ever inserted
  checkpoint, \* job_checkpoints: generation that wrote the latest one, 0 if none
  control,    \* run_control.control_state
  runState,   \* run_control.run_state
  claim,      \* the claim replies delivered to owners, never forgotten
  claimOp     \* queue_operations of the two lease claims

vars == <<job, attempt, lease, checkpoint, control, runState, claim, claimOp>>

-----------------------------------------------------------------------------
(***************************************************************************)
(* Rows.                                                                   *)
(***************************************************************************)
NoToken == 0
Token == 1..MaxAttempts
Generation == 1..MaxAttempts

\* Whether the wall clock has reached a timestamp of a row.
Instant == {"ahead", "past"}

JobRow == [state : PhysicalJobStates \cup {"absent"}, recoveryState : RecoveryStates,
           claimToken : 0..MaxAttempts, fencingGeneration : 0..MaxAttempts,
           attemptCount : 0..MaxAttempts, nextEligibleAt : Instant]

LeaseRow == [jobId : Job, fencingGeneration : Generation, ownerId : Owner,
             token : Token, status : {"active", "released", "recovered"},
             expiresAt : Instant]

LeaseClaim == [owner : Owner, jobId : Job, token : Token,
               fencingGeneration : 0..MaxAttempts]

AttemptOutcomes == {"none", "processing", "completed", "failed", "retrying",
                    "skipped", "blocked", "interrupted", "paused"}

ClaimOperation == [owner : Owner, result : Job \cup {NoJob}]
Unused == [owner |-> NoJob, result |-> NoJob]

TypeOK ==
  /\ job \in [Job -> JobRow]
  /\ attempt \in [Job -> [Token -> AttemptOutcomes]]
  /\ lease \subseteq LeaseRow
  /\ checkpoint \in [Job -> 0..MaxAttempts]
  /\ control \in RunControlStates
  /\ runState \in CrawlRunStates
  /\ claim \subseteq LeaseClaim
  /\ claimOp \in [Key -> ClaimOperation \cup {Unused}]

Init ==
  /\ job = [j \in Job |-> [state |-> "absent", recoveryState |-> "none",
                           claimToken |-> NoToken, fencingGeneration |-> 0,
                           attemptCount |-> 0, nextEligibleAt |-> "ahead"]]
  /\ attempt = [j \in Job |-> [n \in Token |-> "none"]]
  /\ lease = {}
  /\ checkpoint = [j \in Job |-> 0]
  /\ control = "active"
  /\ runState = "running"
  /\ claim = {}
  /\ claimOp = [k \in Key |-> Unused]

-----------------------------------------------------------------------------
(***************************************************************************)
(* Reading the rows.                                                       *)
(***************************************************************************)
LogicalJobState(j) == LogicalState(job[j].state, job[j].recoveryState)

ActiveLeases == {l \in lease : l.status = "active"}
ActiveLease(j) == {l \in ActiveLeases : l.jobId = j}

\* Mutant: any Lease the token was drawn for will do, ended or not.
HeldLeaseOnce(c) == \E l \in lease : l.jobId = c.jobId /\ l.token = c.token

\* assertLease: scope, token, owner, generation of the Lease and of the row, expiry.
HoldsLease(c) ==
  \E l \in ActiveLease(c.jobId) :
    /\ l.token = c.token
    /\ l.ownerId = c.owner
    /\ l.fencingGeneration = c.fencingGeneration
    /\ job[c.jobId].fencingGeneration = c.fencingGeneration
    /\ l.expiresAt = "ahead"

\* Mutant: no Lease is asked for.
TokenClaimValid(c) == c \in claim

\* validateFencedClaim: a job that was never leased is guarded by its token alone.
FencedClaimValid(c) ==
  \/ job[c.jobId].fencingGeneration = 0
  \/ \E l \in ActiveLease(c.jobId) :
       /\ l.token = c.token
       /\ l.fencingGeneration = job[c.jobId].fencingGeneration
       /\ l.expiresAt = "ahead"

\* What complete, fail, skip and block ask of a caller that presents claim c.
OwnsProcessing(c) ==
  /\ LogicalJobState(c.jobId) = "processing"
  /\ job[c.jobId].claimToken = c.token
  /\ FencedClaimValid(c)

Claimable == {j \in Job : LogicalJobState(j) = "pending" /\ job[j].nextEligibleAt = "past"}
QueueHead == {j \in Claimable : \A i \in Claimable : Priority[i] <= Priority[j]}

AttemptsLeft(j) == job[j].attemptCount < MaxAttempts

\* Mutant: a generation is drawn for the first claim only.
FirstGeneration(j) == 1

NextGeneration(j) == job[j].fencingGeneration + 1

-----------------------------------------------------------------------------
(***************************************************************************)
(* Writing the rows.                                                       *)
(***************************************************************************)
\* Mutant: the WHERE clause matches no attempt.
CloseNone(outcomes, t, outcome) == outcomes

\* UPDATE job_attempts ... WHERE claim_token = t AND finished_at IS NULL
Close(outcomes, t, outcome) ==
  [n \in Token |-> IF n = t /\ outcomes[n] = "processing" THEN outcome ELSE outcomes[n]]

\* Mutant: the Leases are left as they are.
KeepLeases(S, status) == lease

\* UPDATE job_leases SET status ... WHERE status = 'active' for the jobs in S
EndLeases(S, status) ==
  {IF l.jobId \in S /\ l.status = "active" THEN [l EXCEPT !.status = status] ELSE l : l \in lease}

\* A row that leaves "processing" gives its claim back.
Unclaimed(row, state) ==
  [row EXCEPT !.state = state, !.recoveryState = "none", !.claimToken = NoToken]

\* The row, the attempt and the Lease of the caller of a terminal operation.
Finish(c, state, row) ==
  /\ job' = [job EXCEPT ![c.jobId] = row]
  /\ attempt' = [attempt EXCEPT ![c.jobId] = Close(@, c.token, state)]
  /\ lease' = IF job[c.jobId].fencingGeneration > 0
              THEN EndLeases({c.jobId}, "released") ELSE lease
  /\ UNCHANGED <<checkpoint, control, runState, claim, claimOp>>

-----------------------------------------------------------------------------
(***************************************************************************)
(* Queue operations (queue.ts).                                            *)
(***************************************************************************)
\* enqueue of a new identity; an identity that has a row keeps it.
Enqueue(j) ==
  /\ job[j].state = "absent"
  /\ job' = [job EXCEPT ![j].state = "pending", ![j].nextEligibleAt = "past"]
  /\ UNCHANGED <<attempt, lease, checkpoint, control, runState, claim, claimOp>>

\* The Phase 6 claim: no Lease, no generation, no look at the Run's control state.
ClaimNext(o) ==
  /\ UnleasedClaims
  /\ \E j \in QueueHead :
       LET n == job[j].attemptCount + 1 IN
       /\ AttemptsLeft(j)
       /\ job' = [job EXCEPT ![j].state = "processing", ![j].claimToken = n,
                             ![j].attemptCount = n]
       /\ attempt' = [attempt EXCEPT ![j][n] = "processing"]
       /\ claim' = claim \cup {[owner |-> o, jobId |-> j, token |-> n,
                                fencingGeneration |-> job[j].fencingGeneration]}
  /\ UNCHANGED <<lease, checkpoint, control, runState, claimOp>>

Complete(c) ==
  /\ OwnsProcessing(c)
  /\ Finish(c, "completed", Unclaimed(job[c.jobId], "completed"))

Fail(c, retryable) ==
  LET target == IF ShouldRetry(job[c.jobId].attemptCount, MaxAttempts, retryable)
                THEN "retrying" ELSE "failed" IN
  /\ OwnsProcessing(c)
  /\ Finish(c, target, [Unclaimed(job[c.jobId], target) EXCEPT !.nextEligibleAt = "ahead"])

\* skip and block of a job the caller is processing.
FinishAs(c, target) ==
  /\ OwnsProcessing(c)
  /\ Finish(c, target, Unclaimed(job[c.jobId], target))

\* skip and block of a job that waits.
DropPending(j, target) ==
  /\ LogicalJobState(j) = "pending"
  /\ job' = [job EXCEPT ![j] = Unclaimed(@, target)]
  /\ UNCHANGED <<attempt, lease, checkpoint, control, runState, claim, claimOp>>

\* The claimed jobs, the finished ones and those that wait for a retry stay.
ClearPending ==
  /\ \E j \in Job : job[j].state = "pending"
  /\ job' = [j \in Job |-> IF job[j].state = "pending"
                           THEN [job[j] EXCEPT !.state = "skipped"] ELSE job[j]]
  /\ UNCHANGED <<attempt, lease, checkpoint, control, runState, claim, claimOp>>

\* scheduleRetry moves next_eligible_at: the job must become due again.
ScheduleRetry(j) ==
  /\ job[j].state = "retrying"
  /\ AttemptsLeft(j)
  /\ job' = [job EXCEPT ![j].nextEligibleAt = "ahead"]
  /\ UNCHANGED <<attempt, lease, checkpoint, control, runState, claim, claimOp>>

\* releaseDueRetries: dueAt is the caller's, so a job may be released before its
\* time; the claim still waits for it.
ReleaseDueRetries(S) ==
  /\ S # {} /\ Cardinality(S) <= ReleaseLimit
  /\ \A j \in S : job[j].state = "retrying" /\ AttemptsLeft(j)
  /\ job' = [j \in Job |-> IF j \in S THEN [job[j] EXCEPT !.state = "pending"] ELSE job[j]]
  /\ UNCHANGED <<attempt, lease, checkpoint, control, runState, claim, claimOp>>

\* External: the wall clock reaches next_eligible_at.
BecomeDue(j) ==
  /\ job[j].state \in {"pending", "retrying"} /\ job[j].nextEligibleAt = "ahead"
  /\ job' = [job EXCEPT ![j].nextEligibleAt = "past"]
  /\ UNCHANGED <<attempt, lease, checkpoint, control, runState, claim, claimOp>>

-----------------------------------------------------------------------------
(***************************************************************************)
(* Leases (recovery.ts).                                                   *)
(***************************************************************************)
\* What a committed lease claim of j by o writes; k = NoKey when o never
\* presents the key again, so that its ledger row can have no effect.
GrantLease(o, k, j) ==
  LET n == job[j].attemptCount + 1
      g == NextGeneration(j) IN
  /\ AttemptsLeft(j)
  /\ job' = [job EXCEPT ![j] = [@ EXCEPT !.state = "processing", !.recoveryState = "none",
                                         !.claimToken = n, !.attemptCount = n,
                                         !.fencingGeneration = g]]
  /\ attempt' = [attempt EXCEPT ![j] = [@ EXCEPT ![n] = "processing"]]
  /\ lease' = lease \cup {[jobId |-> j, fencingGeneration |-> g, ownerId |-> o,
                           token |-> n, status |-> "active", expiresAt |-> "ahead"]}
  /\ claim' = claim \cup {[owner |-> o, jobId |-> j, token |-> n, fencingGeneration |-> g]}
  /\ claimOp' = [x \in Key |-> IF x = k THEN [owner |-> o, result |-> j] ELSE claimOp[x]]
  /\ UNCHANGED <<checkpoint, control, runState>>

FreshKey(k) == k = NoKey \/ (k \in Key /\ claimOp[k] = Unused)

\* The first due job in queue order; one that is out of attempts makes it throw.
ClaimNextWithLease(o, k) ==
  /\ control = "active" /\ FreshKey(k)
  /\ \E j \in QueueHead : GrantLease(o, k, j)

\* Nothing to claim: the null reply is stored under the key.
ClaimNothing(o, k) ==
  /\ control = "active" /\ k \in Key /\ FreshKey(k)
  /\ Claimable = {}
  /\ claimOp' = [claimOp EXCEPT ![k] = [owner |-> o, result |-> NoJob]]
  /\ UNCHANGED <<job, attempt, lease, checkpoint, control, runState, claim>>

\* The claim of a render or an interaction, for a job chosen by the caller.
ClaimJobWithLease(o, k, j) ==
  /\ control = "active" /\ FreshKey(k)
  /\ j \in Claimable
  /\ GrantLease(o, k, j)

\* The same key and request again: the reply is whatever Lease is active on the
\* stored job, with the token that is now in the job's row.
ReplayClaim(k) ==
  LET j == claimOp[k].result IN
  /\ control = "active" /\ j \in Job
  /\ \E l \in ActiveLease(j) :
       /\ l.token = job[j].claimToken
       /\ claim' = claim \cup {[owner |-> claimOp[k].owner, jobId |-> j, token |-> l.token,
                                fencingGeneration |-> l.fencingGeneration]}
  /\ UNCHANGED <<job, attempt, lease, checkpoint, control, runState, claimOp>>

\* External: now reaches expires_at of a Lease that was not renewed.
Expire(l) ==
  /\ l \in ActiveLeases /\ l.expiresAt = "ahead"
  /\ lease' = (lease \ {l}) \cup {[l EXCEPT !.expiresAt = "past"]}
  /\ UNCHANGED <<job, attempt, checkpoint, control, runState, claim, claimOp>>

\* The owner gives the Lease up; the job stays "processing".
ReleaseLease(c) ==
  /\ HoldsLease(c)
  /\ lease' = EndLeases({c.jobId}, "released")
  /\ UNCHANGED <<job, attempt, checkpoint, control, runState, claim, claimOp>>

\* saveJobCheckpoint and saveArtifactCheckpoint.
SaveCheckpoint(c) ==
  /\ HoldsLease(c)
  /\ checkpoint' = [checkpoint EXCEPT ![c.jobId] = c.fencingGeneration]
  /\ UNCHANGED <<job, attempt, lease, control, runState, claim, claimOp>>

-----------------------------------------------------------------------------
(***************************************************************************)
(* Run control and recovery (recovery.ts).                                 *)
(***************************************************************************)
\* Mutants: the completed rows among the candidates (they are there for their
\* outputs' sake) are not passed over; a job whose Lease was released is.
RecoverableOrCompleted ==
  {j \in Job : LogicalJobState(j) \in {"processing", "completed"} /\ ActiveLease(j) = {}}
LeasedRecoverable ==
  {j \in Job : LogicalJobState(j) = "processing"
               /\ \E l \in ActiveLease(j) : l.expiresAt = "past"}

\* candidateRows: processing, not paused, with no Lease or one that is out.
\* The evaluation time is the caller's.
Recoverable ==
  {j \in Job : /\ LogicalJobState(j) = "processing"
               /\ \A l \in ActiveLease(j) : l.expiresAt = "past" \/ FutureEvaluation}

Pausing == control \in {"pause_requested", "paused"}

\* Mutants: owners that are still at work are not looked at; a requested pause
\* is put back as it was found.
PausedAnyway(owners) == IF Pausing THEN "paused" ELSE "active"
RequestedAgain(owners) == IF Pausing THEN control ELSE "active"

\* The control state recovery leaves behind, given the Leases that stay active.
ControlAfterRecovery(owners) ==
  CASE Pausing /\ owners = {}        -> "paused"
    [] control = "pause_requested" /\ owners # {} -> "pause_requested"
    [] OTHER                        -> "active"

\* One batch: S are the candidates after the caller's cursor, up to the limit.
Recover(S) ==
  LET recovered(row) ==
        IF Pausing THEN [row EXCEPT !.recoveryState = "paused"]
        ELSE Unclaimed(row, IF row.attemptCount < MaxAttempts THEN "pending" ELSE "failed")
  IN
  /\ control # "recovering"
  /\ S \subseteq Recoverable /\ Cardinality(S) <= RecoveryLimit
  /\ lease' = EndLeases(S, "recovered")
  /\ attempt' = [j \in Job |-> IF j \in S THEN Close(attempt[j], job[j].claimToken,
                                                      IF Pausing THEN "paused" ELSE "interrupted")
                               ELSE attempt[j]]
  /\ job' = [j \in Job |-> IF j \in S THEN recovered(job[j]) ELSE job[j]]
  /\ control' = ControlAfterRecovery(ActiveLeases')
  /\ UNCHANGED <<checkpoint, runState, claim, claimOp>>

RequestPause ==
  LET target == IF ActiveLeases = {} THEN "paused" ELSE "pausing" IN
  /\ control = "active"
  /\ CanTransitionCrawlRunState(runState, target)
  /\ control' = ControlFor(target)
  /\ runState' = target
  /\ UNCHANGED <<job, attempt, lease, checkpoint, claim, claimOp>>

\* The owner checkpoints, gives the Lease up and leaves the job paused; the last
\* one to do so pauses the Run.
AcknowledgePause(c) ==
  /\ control = "pause_requested"
  /\ HoldsLease(c)
  /\ checkpoint' = [checkpoint EXCEPT ![c.jobId] = c.fencingGeneration]
  /\ lease' = EndLeases({c.jobId}, "released")
  /\ attempt' = [attempt EXCEPT ![c.jobId] = Close(@, c.token, "paused")]
  /\ job' = [job EXCEPT ![c.jobId] = IF @.state = "processing"
                                    THEN [@ EXCEPT !.recoveryState = "paused"] ELSE @]
  /\ IF ActiveLeases' = {}
     THEN /\ CanTransitionCrawlRunState(runState, "paused")
          /\ control' = "paused" /\ runState' = "paused"
     ELSE UNCHANGED <<control, runState>>
  /\ UNCHANGED <<claim, claimOp>>

\* Mutant: the overlay is looked for in the column below it.
PausedRows == {j \in Job : job[j].state \in {"paused", "interrupted"}}

Resumable == {j \in Job : LogicalJobState(j) \in {"paused", "interrupted"}}

ResumeRun ==
  /\ control \in {"pause_requested", "paused"}
  /\ CanTransitionCrawlRunState(runState, "running")
  /\ job' = [j \in Job |-> IF j \in Resumable THEN Unclaimed(job[j], "pending") ELSE job[j]]
  /\ control' = "active" /\ runState' = "running"
  /\ UNCHANGED <<attempt, lease, checkpoint, claim, claimOp>>

SetRunState(from, s) ==
  /\ runState = from
  /\ CanTransitionCrawlRunState(runState, s)
  /\ runState' = s /\ control' = ControlFor(s)
  /\ UNCHANGED <<job, attempt, lease, checkpoint, claim, claimOp>>

-----------------------------------------------------------------------------
Queue ==
  \/ \E j \in Job : Enqueue(j) \/ ScheduleRetry(j) \/ BecomeDue(j)
  \/ \E j \in Job, target \in {"skipped", "blocked"} : DropPending(j, target)
  \/ ClearPending
  \/ \E S \in SUBSET Job : ReleaseDueRetries(S)
  \/ \E o \in Owner : ClaimNext(o)

Claim ==
  \/ \E o \in Owner, k \in Key \cup {NoKey} :
       \/ ClaimNextWithLease(o, k) \/ ClaimNothing(o, k)
       \/ \E j \in Job : ClaimJobWithLease(o, k, j)
  \/ \E k \in Key : ReplayClaim(k)

Held ==
  \/ \E c \in claim : \/ Complete(c) \/ Fail(c, TRUE) \/ Fail(c, FALSE)
                      \/ FinishAs(c, "skipped") \/ FinishAs(c, "blocked")
                      \/ ReleaseLease(c) \/ SaveCheckpoint(c) \/ AcknowledgePause(c)
  \/ \E l \in lease : Expire(l)

RunOperation ==
  \/ \E S \in SUBSET Job : Recover(S)
  \/ RequestPause \/ ResumeRun
  \/ \E r \in RunStateRequests : SetRunState(r[1], r[2])

Next == Queue \/ Claim \/ Held \/ RunOperation

Spec == Init /\ [][Next]_vars

-----------------------------------------------------------------------------
(***************************************************************************)
(* Safety.                                                                 *)
(***************************************************************************)
\* At most one owner at a time: no claim, replay, recovery or pause leaves two
\* active Leases on a job, so the unique index of job_leases never fires.
OneActiveLease ==
  \A l, m \in ActiveLeases : l.jobId = m.jobId => l = m

\* An active Lease always speaks for the row as it is now: the job is being
\* processed, under the Lease's token and under its generation.
ActiveLeaseIsCurrent ==
  \A l \in ActiveLeases :
    /\ LogicalJobState(l.jobId) = "processing"
    /\ job[l.jobId].claimToken = l.token
    /\ job[l.jobId].fencingGeneration = l.fencingGeneration

\* Two Leases of a job are told apart by their generations, and a later attempt
\* always has the greater one: a stale owner cannot look newer.
GenerationsOrderOwners ==
  \A l, m \in lease : l.jobId = m.jobId =>
    /\ (l.fencingGeneration = m.fencingGeneration) => l = m
    /\ (l.fencingGeneration < m.fencingGeneration) => l.token < m.token

\* The attempt ledger tells the same story as the job row: attempts are numbered
\* without a gap, the open one is the one the job is processing, and an attempt
\* that an owner closed with a final word is the last one and its word is the
\* job's.  The converse holds of "completed" alone: recovery fails a job whose
\* attempts are spent, and a waiting job is skipped or blocked without one.
LedgerAgrees(j) ==
  LET n == job[j].attemptCount IN
  /\ \A i \in Token : attempt[j][i] = "none" <=> i > n
  /\ \A i \in Token : attempt[j][i] = "processing" <=>
                        i = n /\ LogicalJobState(j) = "processing"
  /\ \A i \in Token : attempt[j][i] \in TerminalStates =>
                        i = n /\ job[j].state = attempt[j][i]
  /\ job[j].state = "completed" => n > 0 /\ attempt[j][n] = "completed"

AttemptLedgerAgrees == \A j \in Job : LedgerAgrees(j)

\* A Run that reports "paused" has no owner at work, however the pause came
\* about: asked for while idle, acknowledged by the last owner, or recovered.
PausedRunHasNoOwner == control = "paused" => ActiveLeases = {}

\* Paused work is never stranded: a Run that claims again has requeued it all.
NoStrandedPause ==
  control = "active" => \A j \in Job : LogicalJobState(j) # "paused"

-----------------------------------------------------------------------------
(***************************************************************************)
(* Action properties.                                                      *)
(***************************************************************************)
\* Terminal states do not reopen: no claim, late reply, recovery or resume moves
\* a job out of completed, failed, skipped or blocked.
TerminalStaysClosed ==
  [][\A j \in Job : job[j].state \in TerminalStates => job'[j].state = job[j].state]_vars

\* Every change of a job follows the transition table, recovery's two-step
\* processing -> interrupted -> pending / failed included (recovery.ts and
\* resumeRun write rows without consulting the table).
Path(from, to) ==
  \/ CanTransition(from, to)
  \/ CanTransition(from, "interrupted") /\ CanTransition("interrupted", to)

JobsFollowTheTable ==
  [][\A j \in Job :
       LET from == LogicalJobState(j)
           to == LogicalState(job'[j].state, job'[j].recoveryState) IN
       from = to \/ (from = "absent" /\ to = "pending") \/ Path(from, to)]_vars

\* Fencing: an attempt is closed by an owner only while the Lease it was claimed
\* under is active and unexpired, and as interrupted only when no live Lease is
\* left.  A job that was never leased has no Lease to ask for.
LiveOwner(j, n) ==
  \/ job[j].fencingGeneration = 0
  \/ \E l \in ActiveLease(j) : l.token = n /\ l.expiresAt = "ahead"

OutcomesAreFenced ==
  [][\A j \in Job, n \in Token :
       attempt[j][n] = "processing" =>
         /\ attempt'[j][n] \in {"completed", "failed", "retrying", "skipped", "blocked"}
              => LiveOwner(j, n)
         /\ attempt'[j][n] = "interrupted" => \A l \in ActiveLease(j) : l.expiresAt = "past"]_vars

\* Checkpoints only move forward: once a newer owner has checkpointed, no older
\* owner's Checkpoint becomes the latest.
CheckpointNeverGoesBack ==
  [][\A j \in Job : checkpoint'[j] >= checkpoint[j]]_vars

-----------------------------------------------------------------------------
(***************************************************************************)
(* What the queue promises: FencedJob, with a job held while a Lease on it *)
(* is active and orphaned while it is processing without one.              *)
(***************************************************************************)
phaseBar ==
  [j \in Job |->
     CASE job[j].state = "absent" -> "unborn"
       [] job[j].state \in TerminalStates -> "ended"
       [] LogicalJobState(j) = "processing" ->
            IF ActiveLease(j) = {} THEN "orphaned" ELSE "held"
       [] OTHER -> "waiting"]

journalBar ==
  [j \in Job |-> [n \in Token |->
     IF attempt[j][n] = "processing" THEN "open" ELSE attempt[j][n]]]

Fenced == INSTANCE FencedJob WITH phase <- phaseBar, journal <- journalBar

\* The queue implements FencedJob: no interleaving of claims, late reports,
\* recoveries, pauses and resumes shows more than its steps.
ImplementsFencedJob == Fenced!Spec

-----------------------------------------------------------------------------
(***************************************************************************)
(* Liveness.  Nothing in the repository calls itself: what makes progress  *)
(* is that someone keeps issuing the commands.  A Lease runs out, because  *)
(* an owner does not renew it for ever; retry times are reached; and the   *)
(* claim, release and recover commands are issued again and again.  An     *)
(* owner is not assumed to report anything: it may stop at any point.      *)
(***************************************************************************)
ClockAdvances ==
  /\ \A j \in Job : WF_vars(BecomeDue(j))
  /\ WF_vars(\E l \in lease : Expire(l))

RecoveryIsRun ==
  /\ \A j \in Job : WF_vars(\E S \in SUBSET Job : j \in S /\ Recover(S))
  /\ WF_vars(Recover({}))

RetriesAreReleased == \A j \in Job : WF_vars(\E S \in SUBSET Job : j \in S /\ ReleaseDueRetries(S))

WorkIsClaimed == WF_vars(\E o \in Owner : ClaimNextWithLease(o, NoKey))

FairSpec == Spec /\ ClockAdvances /\ RecoveryIsRun /\ RetriesAreReleased /\ WorkIsClaimed

\* In a Run that is never paused, crashes, lost owners and retryable failures use
\* up a finite number of attempts, so every enqueued job reaches a terminal state
\* and none is starved by another.
EveryJobEnds ==
  [](control = "active") =>
     \A j \in Job : job[j].state = "pending" ~> job[j].state \in TerminalStates

\* A requested pause does not hang on an owner that completes, dies or releases
\* its Lease instead of acknowledging: recovery completes it.
PauseCompletes == control = "pause_requested" ~> control # "pause_requested"

-----------------------------------------------------------------------------
(***************************************************************************)
(* Statements of the documentation that the code does not keep.  The run   *)
(* replay refutes the first; TLC refutes the other two as soon as a        *)
(* configuration like PageQueue_core.cfg names them as properties.         *)
(***************************************************************************)
\* QUEUE_IDEMPOTENCY.md: the same key and request replay the original claim.
\* The replay in claimNextWithLease answers with the Lease that is active now,
\* whoever holds it, so two owners may be given one token.
ReplayGivesOwnClaim ==
  \A c, d \in claim : c.jobId = d.jobId /\ c.token = d.token => c.owner = d.owner

\* PAUSE_AND_RESUME.md: resume requeues paused jobs and the next claim receives
\* a higher generation.  resumeRun does not look at the attempts that are left,
\* and a claim of a job without any throws.
ResumedWorkCanBeClaimed ==
  \A j \in Job : LogicalJobState(j) = "pending" => job[j].attemptCount < MaxAttempts

\* RUN_CONTROL_STATE.md: a Run in a terminal state does not accept new claims.
\* recover writes control_state back to active whatever it was.
FinalRunsClaimNothing ==
  [][\A j \in Job : runState \in FinalRunStates =>
       job'[j].attemptCount = job[j].attemptCount]_vars
=============================================================================
