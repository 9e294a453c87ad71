---------------------------- MODULE JobExecution ----------------------------
(***************************************************************************)
(* The application service at work on the jobs of PageQueue: renders       *)
(* (executeRenderStart) and interactions (executeInteractionRun), with the *)
(* artifact-first commit of a render (persistence-sqlite/src/render.ts).   *)
(*                                                                         *)
(* A render is a long asynchronous function: every await in it is a point  *)
(* where another owner, recovery, a pause or a crash may intervene.  Its   *)
(* program counter is "stage".  The HTML file and the database are two     *)
(* stores: the file is replaced before the transaction that checks who the *)
(* caller is.                                                              *)
(*                                                                         *)
(* A heartbeat that keeps a Lease alive is the absence of Expire; one that *)
(* fails aborts the render, like any other error of the engine.            *)
(***************************************************************************)
EXTENDS PageQueue

VARIABLES
  stage,   \* where the process that claimed attempt n of a job has got to
  page,    \* pages/<job>/rendered.html: the attempt whose bytes it holds
  result,  \* render_results: the attempt whose bytes the row's digest describes
  failure, \* render_failures: the attempts of the job that have one
  unread   \* attempts whose process could not read whether a result is durable

executionVars == <<stage, page, result, failure, unread>>
allVars == <<vars, executionVars>>

\* "none": nobody has the claim in hand; "lost": the process died rendering;
\* "unsure": the commit reported RENDER_COMMIT_FAILED.
RenderStages == {"rendering", "committing", "written", "unsure", "caught",
                 "pausing", "recording"}
Stages == RenderStages \cup {"none", "lost", "answered", "refused", "interacting"}

ExecutionTypeOK ==
  /\ TypeOK
  /\ stage \in [Job -> [Token -> Stages]]
  /\ page \in [Job -> 0..MaxAttempts]
  /\ result \in [Job -> 0..MaxAttempts]
  /\ failure \in [Job -> SUBSET Token]
  /\ unread \in [Job -> SUBSET Token]

ExecutionInit ==
  /\ Init
  /\ stage = [j \in Job |-> [n \in Token |-> "none"]]
  /\ page = [j \in Job |-> 0]
  /\ result = [j \in Job |-> 0]
  /\ failure = [j \in Job |-> {}]
  /\ unread = [j \in Job |-> {}]

At(c, s) == stage[c.jobId][c.token] = s
Goes(c, s) == stage' = [stage EXCEPT ![c.jobId][c.token] = s]

\* activeRenders and activeInteractions of the process o, one entry per job.
Busy(o, j, stages) ==
  \E c \in claim : c.owner = o /\ c.jobId = j /\ stage[j][c.token] \in stages

\* Mutants: possession of a claim is enough; so is a Lease that has ended.
ClaimedOnce(c) == c \in claim
LeasedOnce(c) == \E l \in lease : l.jobId = c.jobId /\ l.token = c.token

\* assertOwnership of render.ts: the Lease, and the row and attempt it is for.
OwnsRender(c) ==
  /\ HoldsLease(c)
  /\ LogicalJobState(c.jobId) = "processing"
  /\ attempt[c.jobId][job[c.jobId].attemptCount] = "processing"

-----------------------------------------------------------------------------
(***************************************************************************)
(* executeRenderStart up to the commit.                                    *)
(***************************************************************************)
\* A job with a result is not claimed: the render answers with that result.
StartRender(o, j) ==
  /\ ~Busy(o, j, RenderStages)
  /\ result[j] = 0
  /\ ClaimJobWithLease(o, NoKey, j)
  /\ \E c \in claim' \ claim : Goes(c, "rendering")
  /\ UNCHANGED <<page, result, failure, unread>>

\* The command repeated after its process died: the claim is replayed, and the
\* attempt goes on under the Lease it has.
RepeatRender(c) ==
  /\ At(c, "lost") /\ ~Busy(c.owner, c.jobId, RenderStages)
  /\ result[c.jobId] = 0 /\ control = "active"
  /\ \E l \in ActiveLease(c.jobId) : l.token = c.token /\ job[c.jobId].claimToken = c.token
  /\ Goes(c, "rendering")
  /\ UNCHANGED <<vars, page, result, failure, unread>>

\* persistStage while the engine works: a render event and a Checkpoint.
Progress(c) ==
  /\ At(c, "rendering") /\ OwnsRender(c)
  /\ SaveCheckpoint(c)
  /\ UNCHANGED executionVars

\* persistStage("committing-result"), the last look at the Lease before the file.
ReadyToCommit(c) ==
  /\ At(c, "rendering") /\ OwnsRender(c)
  /\ SaveCheckpoint(c)
  /\ Goes(c, "committing")
  /\ UNCHANGED <<page, result, failure, unread>>

\* The engine, a heartbeat, a stage that is refused or the pause boundary throws.
RenderThrows(c) ==
  /\ At(c, "rendering")
  /\ Goes(c, "caught")
  /\ UNCHANGED <<vars, page, result, failure, unread>>

-----------------------------------------------------------------------------
(***************************************************************************)
(* commitRenderResult.                                                     *)
(***************************************************************************)
\* atomicWriteFile with overwrite: nothing is asked of the caller here.
WriteHtml(c) ==
  /\ At(c, "committing")
  /\ page' = [page EXCEPT ![c.jobId] = c.token]
  /\ Goes(c, "written")
  /\ UNCHANGED <<vars, result, failure, unread>>

\* Mutant: the row is committed first, the artifact follows.
ArtifactLater(c) == At(c, "committing") \/ At(c, "written")

ArtifactWritten(c) == At(c, "written")

\* The transaction: result, descriptors, job, attempt and Lease.  The caller may
\* still be told that it failed.
CommitRenderResult(c) ==
  /\ ArtifactWritten(c) /\ OwnsRender(c)
  /\ Finish(c, "completed", Unclaimed(job[c.jobId], "completed"))
  /\ result' = [result EXCEPT ![c.jobId] = c.token]
  /\ Goes(c, "answered") \/ Goes(c, "unsure")
  /\ UNCHANGED <<page, failure, unread>>

\* The ownership check refuses the caller, or the transaction does not commit.
CommitRefused(c) ==
  /\ At(c, "written")
  /\ Goes(c, "unsure") \/ (~OwnsRender(c) /\ Goes(c, "caught"))
  /\ UNCHANGED <<vars, page, result, failure, unread>>

-----------------------------------------------------------------------------
(***************************************************************************)
(* What executeRenderStart does with an error.                             *)
(***************************************************************************)
\* Mutant: a failed commit is taken at its word.
ResultNotLookedFor(c) == FALSE

ResultIsDurable(c) == result[c.jobId] # 0

\* RENDER_COMMIT_FAILED: the answer is the durable result, if there is one.  A read that
\* fails is taken for its absence.
ReadBack(c) ==
  /\ At(c, "unsure")
  /\ \/ /\ Goes(c, IF ResultIsDurable(c) THEN "answered" ELSE "caught")
        /\ UNCHANGED unread
     \/ /\ Goes(c, "caught")
        /\ unread' = [unread EXCEPT ![c.jobId] = @ \cup {c.token}]
  /\ UNCHANGED <<vars, page, result, failure>>

\* getRunControlState decides between a pause and a failure; what it read may be
\* out of date when it is acted upon.
ReadControl(c) ==
  /\ At(c, "caught")
  /\ Goes(c, IF control = "pause_requested" THEN "pausing" ELSE "recording")
  /\ UNCHANGED <<vars, page, result, failure, unread>>

StopAtPause(c) ==
  /\ At(c, "pausing")
  /\ AcknowledgePause(c)
  /\ Goes(c, "refused")
  /\ UNCHANGED <<page, result, failure, unread>>

\* recordRenderFailure, one per attempt; a retryable one is due at once.
RecordRenderFailure(c, retryable) ==
  LET target == IF ShouldRetry(job[c.jobId].attemptCount, MaxAttempts, retryable)
                THEN "retrying" ELSE "failed" IN
  /\ At(c, "recording") /\ OwnsRender(c)
  /\ c.token \notin failure[c.jobId]
  /\ failure' = [failure EXCEPT ![c.jobId] = @ \cup {c.token}]
  /\ Finish(c, target, [Unclaimed(job[c.jobId], target) EXCEPT !.nextEligibleAt = "past"])
  /\ Goes(c, "refused")
  /\ UNCHANGED <<page, result, unread>>

\* Both are fire and forget: refused or failed, the error is swallowed, and the
\* Lease is left to run out.
GiveUp(c) ==
  /\ At(c, "pausing") \/ At(c, "recording")
  /\ Goes(c, "refused")
  /\ UNCHANGED <<vars, page, result, failure, unread>>

-----------------------------------------------------------------------------
(***************************************************************************)
(* executeInteractionRun: on success the Lease is released and the job is  *)
(* left processing; on an error nothing is recorded at all.                *)
(***************************************************************************)
StartInteraction(o, j) ==
  /\ ~Busy(o, j, {"interacting"})
  /\ ClaimJobWithLease(o, NoKey, j)
  /\ \E c \in claim' \ claim : Goes(c, "interacting")
  /\ UNCHANGED <<page, result, failure, unread>>

SaveInteraction(c) ==
  /\ At(c, "interacting")
  /\ SaveCheckpoint(c)
  /\ UNCHANGED executionVars

EndInteraction(c) ==
  /\ At(c, "interacting")
  /\ ReleaseLease(c)
  /\ Goes(c, "none")
  /\ UNCHANGED <<page, result, failure, unread>>

InteractionThrows(c) ==
  /\ At(c, "interacting")
  /\ Goes(c, "none")
  /\ UNCHANGED <<vars, page, result, failure, unread>>

\* The process of owner o dies: what it had in memory is gone.
Crash(o) ==
  /\ \E c \in claim : c.owner = o /\ stage[c.jobId][c.token] \in RenderStages \cup {"interacting"}
  /\ stage' = [j \in Job |-> [n \in Token |->
       IF \E c \in claim : c.owner = o /\ c.jobId = j /\ c.token = n
       THEN CASE stage[j][n] \in RenderStages -> "lost"
              [] stage[j][n] = "interacting" -> "none"
              [] OTHER -> stage[j][n]
       ELSE stage[j][n]]]
  /\ UNCHANGED <<vars, page, result, failure, unread>>

-----------------------------------------------------------------------------
\* The queue operations no render or interaction issues.
Surroundings ==
  /\ \/ \E j \in Job : Enqueue(j) \/ BecomeDue(j)
     \/ \E S \in SUBSET Job : ReleaseDueRetries(S) \/ Recover(S)
     \/ \E l \in lease : Expire(l)
     \/ RequestPause \/ ResumeRun
  /\ UNCHANGED executionVars

Render ==
  \/ \E o \in Owner, j \in Job : StartRender(o, j)
  \/ \E c \in claim :
       \/ RepeatRender(c) \/ Progress(c) \/ ReadyToCommit(c) \/ RenderThrows(c)
       \/ WriteHtml(c) \/ CommitRenderResult(c) \/ CommitRefused(c)
       \/ ReadBack(c) \/ ReadControl(c) \/ StopAtPause(c) \/ GiveUp(c)
       \/ RecordRenderFailure(c, TRUE) \/ RecordRenderFailure(c, FALSE)

Interaction ==
  \/ \E o \in Owner, j \in Job : StartInteraction(o, j)
  \/ \E c \in claim : SaveInteraction(c) \/ EndInteraction(c) \/ InteractionThrows(c)

ExecutionNext == Surroundings \/ Render \/ Interaction \/ \E o \in Owner : Crash(o)

ExecutionSpec == ExecutionInit /\ [][ExecutionNext]_allVars

-----------------------------------------------------------------------------
(***************************************************************************)
(* Properties.                                                             *)
(***************************************************************************)
\* The queue, the results and the failures tell one story whatever process died
\* or was fenced where: a job is completed exactly when it has a result, of its
\* last attempt, and the attempts with a failure record are those that failed.
RenderLedgerAgrees ==
  \A j \in Job :
    /\ job[j].state = "completed" <=> result[j] # 0
    /\ result[j] # 0 => /\ result[j] = job[j].attemptCount
                        /\ attempt[j][result[j]] = "completed"
    /\ \A n \in Token : n \in failure[j] <=> attempt[j][n] \in {"failed", "retrying"}

\* Artifact first: a committed result has its page on disk, also after a crash
\* between the two stores.
CommittedPageIsOnDisk == \A j \in Job : result[j] # 0 => page[j] # 0

\* A render tells the truth about what is durable: a success has a result behind
\* it, an error has none of its own, although a commit may report a failure after
\* it took effect.  Only a render that could not read the database either is told an
\* error of a result that is there.
AnswersAreTrue ==
  \A j \in Job, n \in Token :
    /\ stage[j][n] = "answered" => result[j] # 0
    /\ stage[j][n] = "refused" => result[j] # n \/ n \in unread[j]

\* A committed result is immutable: no late commit replaces it.
ResultIsImmutable == [][\A j \in Job : result[j] # 0 => result'[j] = result[j]]_allVars

\* Renders, interactions and crashes keep FencedJob's promise as well: the commit
\* and the failure record of a render, which write the queue's tables themselves,
\* show no step the queue would not allow.
ExecutionImplementsFencedJob == Fenced!Spec

\* ADR-046 rejects unguarded artifact replacement: the page of a committed result
\* holds the bytes the result describes.  commitRenderResult replaces the file
\* before it asks whether the caller still owns the job, so a stale owner's late
\* commit is refused by the database and leaves its bytes on disk.
RenderedPageMatchesResult == \A j \in Job : result[j] # 0 => page[j] = result[j]
=============================================================================
