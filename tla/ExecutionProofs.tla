--------------------------- MODULE ExecutionProofs ---------------------------
(***************************************************************************)
(* PageQueue implements FencedJob, for every instance in which every claim *)
(* takes a Lease, and so do the renders and interactions of JobExecution,  *)
(* whose records agree with the queue and whose answers are true.          *)
(***************************************************************************)
EXTENDS JobExecution, PageQueueProofs

-----------------------------------------------------------------------------
(***************************************************************************)
(* What the Leases of the queue are for: who may close an attempt, that    *)
(* Checkpoints and jobs move only forward, and the abstract job.           *)
(***************************************************************************)

(***************************************************************************)
(* What a step may do to the Leases and counters of a job.  Only a claim   *)
(* draws an attempt; one that takes a Lease draws a generation with it.    *)
(***************************************************************************)
Stays(j) ==
  /\ job'[j].attemptCount = job[j].attemptCount
  /\ job'[j].fencingGeneration = job[j].fencingGeneration
  /\ ActiveLease(j)' # {} => ActiveLease(j) # {}

Leased(j) ==
  /\ job'[j].attemptCount = job[j].attemptCount + 1
  /\ job'[j].fencingGeneration = job[j].fencingGeneration + 1
  /\ ActiveLease(j)' # {}

(***************************************************************************)
(* An attempt is closed by the word of a live owner, or taken from one     *)
(* whose Lease is out.                                                     *)
(***************************************************************************)
ClosedByOwner(j) ==
  \A n \in Token :
    attempt[j][n] = "processing" =>
      /\ attempt'[j][n] \in OwnerWords => LiveOwner(j, n)
      /\ attempt'[j][n] = "interrupted" =>
           FutureEvaluation \/ \A l \in ActiveLease(j) : l.expiresAt = "past"

Guarded(j) ==
  /\ Stays(j) \/ Leased(j)
  /\ ClosedByOwner(j)
  /\ checkpoint'[j] \in {checkpoint[j], job[j].fencingGeneration}

EveryJobGuarded == \A j \in Job : Guarded(j)

\* The exception: an attempt drawn by a claim that takes no Lease.
Unleased(j) ==
  /\ job'[j].attemptCount = job[j].attemptCount + 1
  /\ job'[j].fencingGeneration = job[j].fencingGeneration
  /\ ClosedByOwner(j)
  /\ checkpoint'[j] = checkpoint[j]

SomeUnleased == UnleasedClaims /\ \A j \in Job : Guarded(j) \/ Unleased(j)

(***************************************************************************)
(* To the invariants of the Leases and of the ledger the refinement adds   *)
(* that a job's attempts are its generations when every claim is leased,   *)
(* so that nobody reports without a Lease; the Checkpoints add that none   *)
(* of them is newer than the row.                                          *)
(***************************************************************************)
ClaimsAreLeased == \A j \in Job : job[j].fencingGeneration = job[j].attemptCount

CheckpointsBelowRow == \A j \in Job : checkpoint[j] <= job[j].fencingGeneration

FencedInv == (~UnleasedClaims => ClaimsAreLeased) /\ CheckpointsBelowRow

-----------------------------------------------------------------------------
LEMMA SameLeasesStay ==
  ASSUME NEW j \in Job, UNCHANGED lease
  PROVE  ActiveLease(j)' # {} => ActiveLease(j) # {}
BY DEF ActiveLease, ActiveLeases

LEMMA EndingStays ==
  ASSUME TypeOK, NEW S, NEW s \in {"released", "recovered"}, lease' = EndLeases(S, s),
         NEW j \in Job
  PROVE  ActiveLease(j)' # {} => ActiveLease(j) # {}
<1>1. \A l \in lease : [l EXCEPT !.status = s].status = s
  BY DEF TypeOK, LeaseRow
<1>2. \A k \in lease' : k.status = "active" => k \in lease
  BY <1>1 DEF EndLeases
<1>3. QED
  BY <1>2 DEF ActiveLease, ActiveLeases

\* A step that writes neither attempts nor counters.
LEMMA QuietGuarded ==
  ASSUME NEW j \in Job, UNCHANGED <<lease, attempt, checkpoint>>,
         job'[j].attemptCount = job[j].attemptCount,
         job'[j].fencingGeneration = job[j].fencingGeneration
  PROVE  Guarded(j)
<1>1. Stays(j)
  BY SameLeasesStay DEF Stays
<1>2. ClosedByOwner(j)
  BY DEF ClosedByOwner, OwnerWords
<1>3. QED
  BY <1>1, <1>2 DEF Guarded

\* The queue operations that are no claim.
Upkeep ==
  \/ \E j \in Job : Enqueue(j) \/ ScheduleRetry(j) \/ BecomeDue(j)
  \/ \E j \in Job, target \in {"skipped", "blocked"} : DropPending(j, target)
  \/ ClearPending
  \/ \E S \in SUBSET Job : ReleaseDueRetries(S)

LEMMA UpkeepGuarded ==
  ASSUME TypeOK, Upkeep
  PROVE  EveryJobGuarded
<1>1. \A j \in Job : job[j] \in JobRow
  BY DEF TypeOK
<1>2. ASSUME UNCHANGED <<lease, attempt, checkpoint>>,
             \A i \in Job : /\ job'[i].attemptCount = job[i].attemptCount
                            /\ job'[i].fencingGeneration = job[i].fencingGeneration
      PROVE  EveryJobGuarded
  BY <1>2, QuietGuarded DEF EveryJobGuarded
<1>3. ASSUME NEW j \in Job, Enqueue(j)
      PROVE  EveryJobGuarded
  BY <1>1, <1>2, <1>3 DEF Enqueue, TypeOK, JobRow
<1>4. ASSUME NEW j \in Job, ScheduleRetry(j) \/ BecomeDue(j)
      PROVE  EveryJobGuarded
  <2>1. \E t \in Instant : job' = [job EXCEPT ![j].nextEligibleAt = t]
    BY <1>4 DEF ScheduleRetry, BecomeDue, Instant
  <2>2. \A i \in Job : /\ job'[i].attemptCount = job[i].attemptCount
                       /\ job'[i].fencingGeneration = job[i].fencingGeneration
    BY <1>1, <2>1 DEF TypeOK, JobRow
  <2>3. QED
    BY <1>2, <1>4, <2>2 DEF ScheduleRetry, BecomeDue
<1>5. ASSUME NEW j \in Job, NEW target \in {"skipped", "blocked"}, DropPending(j, target)
      PROVE  EveryJobGuarded
  <2>1. job' = [job EXCEPT ![j] = Unclaimed(job[j], target)]
    BY <1>5 DEF DropPending
  <2>2. \A i \in Job : /\ job'[i].attemptCount = job[i].attemptCount
                       /\ job'[i].fencingGeneration = job[i].fencingGeneration
    BY <1>1, <2>1, CountersKept DEF TypeOK
  <2>3. QED
    BY <1>2, <1>5, <2>2 DEF DropPending
<1>6. CASE ClearPending
  BY <1>1, <1>2, <1>6 DEF ClearPending, JobRow
<1>7. ASSUME NEW S \in SUBSET Job, ReleaseDueRetries(S)
      PROVE  EveryJobGuarded
  BY <1>1, <1>2, <1>7 DEF ReleaseDueRetries, JobRow
<1>8. QED
  BY <1>3, <1>4, <1>5, <1>6, <1>7 DEF Upkeep

LEMMA ClaimNextUnleased ==
  ASSUME TypeOK, NEW o \in Owner, ClaimNext(o)
  PROVE  SomeUnleased
<1>1. PICK j \in QueueHead :
        /\ job' = [job EXCEPT ![j].state = "processing", ![j].claimToken = job[j].attemptCount + 1,
                              ![j].attemptCount = job[j].attemptCount + 1]
        /\ attempt' = [attempt EXCEPT ![j][job[j].attemptCount + 1] = "processing"]
  BY DEF ClaimNext
<1>2. UnleasedClaims /\ UNCHANGED <<lease, checkpoint>>
  BY DEF ClaimNext
<1>3. j \in Job /\ job[j] \in JobRow
  BY DEF QueueHead, Claimable, TypeOK
<1>4. \A i \in Job, n \in Token : attempt'[i][n] \in {attempt[i][n], "processing"}
  BY <1>1, <1>3 DEF TypeOK
<1>5. \A i \in Job : ClosedByOwner(i)
  BY <1>4 DEF ClosedByOwner, OwnerWords
<1>6. Unleased(j)
  BY <1>1, <1>2, <1>3, <1>5 DEF Unleased, TypeOK, JobRow
<1>7. ASSUME NEW i \in Job, i # j
      PROVE  Stays(i)
  <2>1. job'[i] = job[i]
    BY <1>1, <1>3, <1>7 DEF TypeOK
  <2>2. QED
    BY <1>2, <2>1, SameLeasesStay DEF Stays
<1>8. QED
  BY <1>2, <1>5, <1>6, <1>7 DEF SomeUnleased, Guarded

LEMMA GrantGuarded ==
  ASSUME TypeOK, NEW o \in Owner, NEW k, NEW j \in Job, GrantLease(o, k, j)
  PROVE  EveryJobGuarded
<1>1. job[j] \in JobRow
  BY DEF TypeOK
<1> DEFINE granted == [jobId |-> j, fencingGeneration |-> NextGeneration(j), ownerId |-> o,
                       token |-> job[j].attemptCount + 1, status |-> "active",
                       expiresAt |-> "ahead"]
<1>2. lease' = lease \cup {granted} /\ UNCHANGED checkpoint
  BY DEF GrantLease
<1>3. granted \in ActiveLease(j)'
  BY <1>2 DEF ActiveLease, ActiveLeases
<1>4. Leased(j)
  BY <1>1, <1>3 DEF Leased, GrantLease, TypeOK, JobRow, NextGeneration
<1>5. ASSUME NEW i \in Job, i # j
      PROVE  Stays(i)
  <2>1. job'[i] = job[i]
    BY <1>5 DEF GrantLease, TypeOK
  <2>2. ActiveLease(i)' = ActiveLease(i)
    BY <1>2, <1>5 DEF ActiveLease, ActiveLeases
  <2>3. QED
    BY <2>1, <2>2 DEF Stays
<1>6. \A i \in Job, n \in Token : attempt'[i][n] \in {attempt[i][n], "processing"}
  BY DEF GrantLease, TypeOK
<1>7. \A i \in Job : ClosedByOwner(i)
  BY <1>6 DEF ClosedByOwner, OwnerWords
<1>8. QED
  BY <1>2, <1>4, <1>5, <1>7 DEF EveryJobGuarded, Guarded

LEMMA ClaimGuarded ==
  ASSUME TypeOK, Claim
  PROVE  EveryJobGuarded
<1>1. ASSUME NEW o \in Owner, NEW k \in Key \cup {NoKey},
             \/ ClaimNextWithLease(o, k)
             \/ \E j \in Job : ClaimJobWithLease(o, k, j)
      PROVE  EveryJobGuarded
  BY <1>1, GrantGuarded DEF ClaimNextWithLease, ClaimJobWithLease, QueueHead, Claimable
<1>2. ASSUME UNCHANGED <<job, lease, attempt, checkpoint>>
      PROVE  EveryJobGuarded
  BY <1>2, QuietGuarded DEF EveryJobGuarded
<1>3. QED
  BY <1>1, <1>2 DEF Claim, ClaimNothing, ReplayClaim

-----------------------------------------------------------------------------
\* A caller that owns the job closes the attempt its Lease was drawn for.
LEMMA FinishGuarded ==
  ASSUME TypeOK, NEW c \in claim, NEW s \in OwnerWords, NEW row,
         OwnsProcessing(c), Finish(c, s, row),
         row.attemptCount = job[c.jobId].attemptCount,
         row.fencingGeneration = job[c.jobId].fencingGeneration
  PROVE  EveryJobGuarded
<1> DEFINE i == c.jobId
<1>1. i \in Job
  BY DEF TypeOK, LeaseClaim
<1>2. UNCHANGED checkpoint
  BY DEF Finish
<1>3. \A j \in Job : /\ job'[j].attemptCount = job[j].attemptCount
                     /\ job'[j].fencingGeneration = job[j].fencingGeneration
  BY <1>1 DEF Finish, TypeOK
<1>4. lease' = lease \/ lease' = EndLeases({i}, "released")
  BY DEF Finish
<1>5. \A j \in Job : Stays(j)
  BY <1>3, <1>4, SameLeasesStay, EndingStays DEF Stays
<1>6. LiveOwner(i, c.token)
  BY DEF OwnsProcessing, FencedClaimValid, LiveOwner
<1>7. attempt' = [attempt EXCEPT ![i] = Close(attempt[i], c.token, s)]
  BY DEF Finish
<1>8. \A j \in Job, n \in Token :
        \/ attempt'[j][n] = attempt[j][n]
        \/ j = i /\ n = c.token /\ attempt'[j][n] = s
  <2>1. attempt'[i] = Close(attempt[i], c.token, s)
    BY <1>1, <1>7 DEF TypeOK
  <2>2. \A j \in Job : j # i => attempt'[j] = attempt[j]
    BY <1>7 DEF TypeOK
  <2>3. QED
    BY <2>1, <2>2 DEF Close
<1>9. ASSUME NEW j \in Job
      PROVE  ClosedByOwner(j)
  <2> SUFFICES ASSUME NEW n \in Token, attempt[j][n] = "processing"
               PROVE  /\ attempt'[j][n] \in OwnerWords => LiveOwner(j, n)
                      /\ attempt'[j][n] # "interrupted"
    BY DEF ClosedByOwner
  <2> QED
    BY <1>6, <1>8 DEF OwnerWords
<1>10. QED
  BY <1>2, <1>5, <1>9 DEF EveryJobGuarded, Guarded

LEMMA HeldGuarded ==
  ASSUME TypeOK, Held
  PROVE  EveryJobGuarded
<1>1. \A c \in claim : c.jobId \in Job /\ job[c.jobId] \in JobRow
  BY DEF TypeOK, LeaseClaim
<1>2. ASSUME NEW c \in claim, NEW s \in {"completed", "skipped", "blocked"},
             OwnsProcessing(c), Finish(c, s, Unclaimed(job[c.jobId], s))
      PROVE  EveryJobGuarded
  BY <1>1, <1>2, CountersKept, FinishGuarded DEF OwnerWords
<1>3. ASSUME NEW c \in claim, NEW retryable, Fail(c, retryable)
      PROVE  EveryJobGuarded
  <2>1. PICK target \in {"retrying", "failed"} :
          Finish(c, target, [Unclaimed(job[c.jobId], target) EXCEPT !.nextEligibleAt = "ahead"])
    BY <1>3 DEF Fail
  <2>2. OwnsProcessing(c)
    BY <1>3 DEF Fail
  <2>3. QED
    BY <1>1, <2>1, <2>2, CountersKept, FinishGuarded DEF OwnerWords
<1>4. ASSUME NEW c \in claim, ReleaseLease(c)
      PROVE  EveryJobGuarded
  <2>1. \A j \in Job : Stays(j)
    BY <1>4, EndingStays DEF ReleaseLease, Stays
  <2>2. QED
    BY <1>4, <2>1 DEF ReleaseLease, EveryJobGuarded, Guarded, ClosedByOwner, OwnerWords
<1>5. ASSUME NEW c \in claim, SaveCheckpoint(c)
      PROVE  EveryJobGuarded
  <2>1. \A j \in Job : Stays(j)
    BY <1>5, SameLeasesStay DEF SaveCheckpoint, Stays
  <2>2. \A j \in Job : checkpoint'[j] \in {checkpoint[j], job[j].fencingGeneration}
    BY <1>1, <1>5 DEF SaveCheckpoint, HoldsLease, TypeOK
  <2>3. QED
    BY <1>5, <2>1, <2>2
    DEF SaveCheckpoint, EveryJobGuarded, Guarded, ClosedByOwner, OwnerWords
<1>6. ASSUME NEW c \in claim, AcknowledgePause(c)
      PROVE  EveryJobGuarded
  <2>1. \A j \in Job : /\ job'[j].attemptCount = job[j].attemptCount
                       /\ job'[j].fencingGeneration = job[j].fencingGeneration
    BY <1>1, <1>6, CountersKept DEF AcknowledgePause, TypeOK
  <2>2. \A j \in Job : Stays(j)
    BY <1>6, <2>1, EndingStays DEF AcknowledgePause, Stays
  <2>3. \A j \in Job : checkpoint'[j] \in {checkpoint[j], job[j].fencingGeneration}
    BY <1>1, <1>6 DEF AcknowledgePause, HoldsLease, TypeOK
  <2>4. \A j \in Job, n \in Token : attempt'[j][n] \in {attempt[j][n], "paused"}
    BY <1>1, <1>6 DEF AcknowledgePause, Close, TypeOK
  <2>5. \A j \in Job : ClosedByOwner(j)
    BY <2>4 DEF ClosedByOwner, OwnerWords
  <2>6. QED
    BY <2>2, <2>3, <2>5 DEF EveryJobGuarded, Guarded
<1>7. ASSUME NEW l \in lease, Expire(l)
      PROVE  EveryJobGuarded
  <2> DEFINE out == [l EXCEPT !.expiresAt = "past"]
  <2>1. out.jobId = l.jobId /\ out.status = l.status
    BY DEF TypeOK, LeaseRow
  <2>2. lease' = (lease \ {l}) \cup {out}
    BY <1>7 DEF Expire
  <2> HIDE DEF out
  <2>3. \A j \in Job : ActiveLease(j)' # {} => ActiveLease(j) # {}
    BY <2>1, <2>2 DEF ActiveLease, ActiveLeases
  <2>4. \A j \in Job : Stays(j)
    BY <1>7, <2>3 DEF Expire, Stays
  <2>5. QED
    BY <1>7, <2>4 DEF Expire, EveryJobGuarded, Guarded, ClosedByOwner, OwnerWords
<1>8. QED
  BY <1>2, <1>3, <1>4, <1>5, <1>6, <1>7 DEF Held, Complete, FinishAs

LEMMA RecoverGuarded ==
  ASSUME TypeOK, NEW S \in SUBSET Job, Recover(S)
  PROVE  EveryJobGuarded
<1>1. \A j \in Job : job[j] \in JobRow
  BY DEF TypeOK
<1>2. \A j \in Job : job'[j] \in {job[j], [job[j] EXCEPT !.recoveryState = "paused"],
                                 Unclaimed(job[j], "pending"), Unclaimed(job[j], "failed")}
  BY DEF Recover
<1>3. \A j \in Job : /\ job'[j].attemptCount = job[j].attemptCount
                     /\ job'[j].fencingGeneration = job[j].fencingGeneration
  <2> SUFFICES ASSUME NEW j \in Job, job'[j] # job[j]
               PROVE  /\ job'[j].attemptCount = job[j].attemptCount
                      /\ job'[j].fencingGeneration = job[j].fencingGeneration
    OBVIOUS
  <2>1. CASE job'[j] = [job[j] EXCEPT !.recoveryState = "paused"]
    BY <1>1, <2>1, CountersKept
  <2>2. CASE \E s \in {"pending", "failed"} : job'[j] = Unclaimed(job[j], s)
    BY <1>1, <2>2, CountersKept
  <2>3. QED
    BY <1>2, <2>1, <2>2
<1>4. lease' = EndLeases(S, "recovered") /\ UNCHANGED checkpoint
  BY DEF Recover
<1>5. \A j \in Job : Stays(j)
  BY <1>3, <1>4, EndingStays DEF Stays
<1>6. \A j \in Job, n \in Token :
        \/ attempt'[j][n] = attempt[j][n]
        \/ j \in S /\ attempt'[j][n] \in {"paused", "interrupted"}
  BY DEF Recover, Close
<1>7. \A j \in S : FutureEvaluation \/ \A l \in ActiveLease(j) : l.expiresAt = "past"
  BY DEF Recover, Recoverable
<1>8. \A j \in Job : ClosedByOwner(j)
  BY <1>6, <1>7 DEF ClosedByOwner, OwnerWords
<1>9. QED
  BY <1>4, <1>5, <1>8 DEF EveryJobGuarded, Guarded

LEMMA RunOperationGuarded ==
  ASSUME TypeOK, RunOperation
  PROVE  EveryJobGuarded
<1>1. ASSUME UNCHANGED <<job, lease, attempt, checkpoint>>
      PROVE  EveryJobGuarded
  BY <1>1, QuietGuarded DEF EveryJobGuarded
<1>2. CASE ResumeRun
  <2>1. \A j \in Job : job'[j] \in {job[j], Unclaimed(job[j], "pending")}
    BY <1>2 DEF ResumeRun
  <2>2. \A j \in Job : /\ job'[j].attemptCount = job[j].attemptCount
                       /\ job'[j].fencingGeneration = job[j].fencingGeneration
    BY <2>1, CountersKept DEF TypeOK
  <2>3. QED
    BY <1>2, <2>2, QuietGuarded DEF ResumeRun, EveryJobGuarded
<1>3. QED
  BY <1>1, <1>2, RecoverGuarded DEF RunOperation, RequestPause, SetRunState

LEMMA IdleGuarded ==
  ASSUME UNCHANGED vars
  PROVE  EveryJobGuarded
BY QuietGuarded DEF vars, EveryJobGuarded

LEMMA StepGuarded ==
  ASSUME TypeOK, [Next]_vars
  PROVE  EveryJobGuarded \/ SomeUnleased
BY IdleGuarded, UpkeepGuarded, ClaimNextUnleased, ClaimGuarded, HeldGuarded, RunOperationGuarded
DEF Next, Queue, Upkeep

-----------------------------------------------------------------------------
LEMMA GuardedCounters ==
  ASSUME TypeOK, TypeOK', EveryJobGuarded
  PROVE  ClaimsAreLeased => ClaimsAreLeased'
<1>1. \A j \in Job : Stays(j) \/ Leased(j)
  BY DEF EveryJobGuarded, Guarded
<1>2. QED
  BY <1>1 DEF ClaimsAreLeased, Stays, Leased

LEMMA GuardedCheckpoints ==
  ASSUME TypeOK, TypeOK', CheckpointsBelowRow, EveryJobGuarded \/ SomeUnleased
  PROVE  CheckpointsBelowRow' /\ \A j \in Job : checkpoint'[j] >= checkpoint[j]
<1>1. \A j \in Job : /\ job[j].fencingGeneration \in Nat /\ job'[j].fencingGeneration \in Nat
                     /\ checkpoint[j] \in Nat
  BY DEF TypeOK, JobRow
<1>2. \A j \in Job : /\ Stays(j) \/ Leased(j) \/ Unleased(j)
                     /\ checkpoint'[j] \in {checkpoint[j], job[j].fencingGeneration}
  BY DEF EveryJobGuarded, SomeUnleased, Guarded, Unleased
<1>3. \A j \in Job : job[j].fencingGeneration <= job'[j].fencingGeneration
  BY <1>1, <1>2 DEF Stays, Leased, Unleased
<1>4. QED
  BY <1>1, <1>2, <1>3 DEF CheckpointsBelowRow

LEMMA InitFenced == Init => FencedInv
BY DEF Init, FencedInv, ClaimsAreLeased, CheckpointsBelowRow

LEMMA StepFenced == IInv /\ FencedInv /\ [Next]_vars => FencedInv'
<1>1. IInv /\ [Next]_vars => TypeOK /\ TypeOK' /\ (EveryJobGuarded \/ SomeUnleased)
  BY StepIInv, StepGuarded DEF IInv
<1>2. QED
  BY <1>1, GuardedCounters, GuardedCheckpoints DEF FencedInv, SomeUnleased

-----------------------------------------------------------------------------
(***************************************************************************)
(* The mapping, one row at a time.                                         *)
(***************************************************************************)
Phase(row, leases) ==
  CASE row.state = "absent" -> "unborn"
    [] row.state \in TerminalStates -> "ended"
    [] Shown(row) = "processing" -> IF leases = {} THEN "orphaned" ELSE "held"
    [] OTHER -> "waiting"

Journal(outcomes) ==
  [n \in Token |-> IF outcomes[n] = "processing" THEN "open" ELSE outcomes[n]]

LEMMA PhaseFacts ==
  ASSUME NEW row \in JobRow, NEW outcomes, NEW leases, RowSound(row, outcomes)
  PROVE  /\ Phase(row, leases) = "unborn" <=> row.state = "absent"
         /\ Phase(row, leases) = "ended" <=> row.state \in TerminalStates
         /\ Shown(row) = "processing" =>
              Phase(row, leases) = IF leases = {} THEN "orphaned" ELSE "held"
         /\ Shown(row) \in {"pending", "retrying", "paused", "interrupted"} =>
              Phase(row, leases) = "waiting"
         /\ Shown(row) = "absent" => row.state = "absent"
         /\ Shown(row) \in TerminalStates => row.state = Shown(row)
<1>1. row.state \in PhysicalJobStates \cup {"absent"} /\ row.recoveryState \in RecoveryStates
  BY DEF JobRow
<1>2. row.recoveryState # "none" => row.state = "processing"
  BY DEF RowSound
<1>3. CASE row.recoveryState = "none"
  <2>1. Shown(row) = row.state
    BY <1>3 DEF Shown, LogicalState
  <2>2. QED
    BY <1>1, <2>1 DEF Phase, PhysicalJobStates, TerminalStates
<1>4. CASE row.recoveryState # "none"
  <2>1. Shown(row) = row.recoveryState /\ row.state = "processing"
    BY <1>2, <1>4 DEF Shown, LogicalState
  <2>2. QED
    BY <1>1, <1>4, <2>1 DEF Phase, RecoveryStates, TerminalStates
<1>5. QED
  BY <1>3, <1>4

LEMMA MappedState ==
  ASSUME NEW j \in Job
  PROVE  /\ phaseBar[j] = Phase(job[j], ActiveLease(j))
         /\ phaseBar'[j] = Phase(job'[j], ActiveLease(j)')
         /\ journalBar[j] = Journal(attempt[j])
         /\ journalBar'[j] = Journal(attempt'[j])
BY DEF phaseBar, journalBar, Phase, Journal, Shown, LogicalJobState

\* Whatever moves a row so, under those guards, is a step of FencedJob.
LEMMA RowImplements ==
  ASSUME NEW j \in Job,
         TypeOK, TypeOK', LedgerInv, LedgerInv', ClaimsAreLeased,
         Moves(job[j], attempt[j], job'[j], attempt'[j]), Guarded(j)
  PROVE  Fenced!Step(j)
<1> DEFINE row == job[j]
           row2 == job'[j]
           leases == ActiveLease(j)
           leases2 == ActiveLease(j)'
<1>1. /\ row \in JobRow /\ row2 \in JobRow
      /\ attempt[j] \in Outcomes /\ attempt'[j] \in Outcomes
      /\ row.attemptCount \in 0..MaxAttempts
  BY DEF TypeOK, Outcomes, JobRow
<1>2. RowSound(row, attempt[j]) /\ RowSound(row2, attempt'[j])
  BY DEF LedgerInv
<1>3. /\ phaseBar[j] = Phase(row, leases) /\ phaseBar'[j] = Phase(row2, leases2)
      /\ journalBar[j] = Journal(attempt[j]) /\ journalBar'[j] = Journal(attempt'[j])
  BY MappedState
<1>4. Stays(j) \/ Leased(j)
  BY DEF Guarded
<1> HIDE DEF row, row2, leases, leases2
<1>5. CASE Rests(row, attempt[j], row2, attempt'[j])
  <2>1. journalBar'[j] = journalBar[j]
    BY <1>3, <1>5 DEF Rests
  <2>2. leases2 # {} => leases # {}
    BY <1>1, <1>4, <1>5 DEF Rests, Stays, Leased, row, row2, leases, leases2
  <2>3. phaseBar'[j] = phaseBar[j] \/ (phaseBar[j] = "held" /\ phaseBar'[j] = "orphaned")
    BY <1>3, <1>5, <2>2 DEF Rests, Phase, Shown
  <2>4. QED
    BY <2>1, <2>3 DEF Fenced!Step, Fenced!Release, Fenced!Moves
<1>6. CASE Waits(row, attempt[j], row2, attempt'[j])
  <2>1. journalBar'[j] = journalBar[j]
    BY <1>3, <1>6 DEF Waits
  <2>2. Shown(row2) = row2.state
    BY <1>6 DEF Waits, Shown, LogicalState
  <2>3. phaseBar'[j] = IF row2.state = "pending" THEN "waiting" ELSE "ended"
    <3>1. CASE row2.state = "pending"
      BY <1>1, <1>2, <1>3, <2>2, <3>1, PhaseFacts
    <3>2. CASE row2.state \in {"skipped", "blocked"}
      BY <1>1, <1>2, <1>3, <2>2, <3>2, PhaseFacts DEF TerminalStates
    <3>3. QED
      BY <1>6, <3>1, <3>2 DEF Waits
  <2>4. CASE row.state = "absent"
    <3>1. phaseBar[j] = "unborn"
      BY <1>1, <1>2, <1>3, <2>4, PhaseFacts
    <3>2. Shown(row) # "pending"
      BY <1>1, <2>4, ShownFacts DEF PhysicalJobStates
    <3>3. phaseBar'[j] = "waiting"
      BY <1>6, <2>3, <3>2 DEF Waits
    <3>4. QED
      BY <2>1, <3>1, <3>3 DEF Fenced!Step, Fenced!Submit, Fenced!Moves
  <2>5. CASE row.state # "absent"
    <3>1. Shown(row) \in {"pending", "retrying", "paused", "interrupted"}
      BY <1>1, <1>6, <2>5
      DEF Waits, Shown, LogicalState, JobRow, PhysicalJobStates, RecoveryStates, TerminalStates
    <3>2. phaseBar[j] = "waiting"
      BY <1>1, <1>2, <1>3, <3>1, PhaseFacts
    <3>3. QED
      BY <2>1, <2>3, <3>2 DEF Fenced!Step, Fenced!Drop, Fenced!Moves
  <2>6. QED
    BY <2>4, <2>5
<1>7. CASE Opens(row, attempt[j], row2, attempt'[j])
  <2> DEFINE n == row.attemptCount + 1
  <2>1. n \in Token /\ n \in Fenced!Attempts
    BY <1>1, <1>7, MaxAttemptsAssumption DEF Opens, Token, Fenced!Attempts
  <2>2. phaseBar[j] = "waiting"
    BY <1>1, <1>2, <1>3, <1>7, PhaseFacts DEF Opens
  <2>3. leases2 # {}
    BY <1>1, <1>4, <1>7 DEF Opens, Stays, Leased, row, row2, leases2
  <2>4. Shown(row2) = "processing"
    BY <1>7 DEF Opens, Shown, LogicalState
  <2>5. phaseBar'[j] = "held"
    BY <1>1, <1>2, <1>3, <2>3, <2>4, PhaseFacts
  <2>6. \A m \in Token : attempt[j][m] = "none" <=> m >= n
    BY <1>1, <1>2 DEF RowSound, RowAgrees, Token
  <2>7. \A m \in Fenced!Attempts : journalBar[j][m] = "none" <=> m >= n
    BY <1>3, <2>6 DEF Journal, Fenced!Attempts, Token
  <2>8. \A m \in Token : attempt'[j][m] = IF m = n THEN "processing" ELSE attempt[j][m]
    BY <1>1, <1>7, <2>1 DEF Opens, Outcomes
  <2>9. Fenced!Writes(j, n, "open")
    BY <1>3, <2>1, <2>8 DEF Journal, Fenced!Writes, Fenced!Attempts, Token
  <2>10. Fenced!Acquire(j)
    BY <2>1, <2>2, <2>5, <2>7, <2>9 DEF Fenced!Acquire, Fenced!Moves
  <2>11. QED
    BY <2>10 DEF Fenced!Step
<1>8. CASE Closes(row, attempt[j], row2, attempt'[j])
  <2> DEFINE n == row.attemptCount
  <2>1. PICK s \in AttemptOutcomes :
          /\ Shown(row) = "processing" /\ EndsAs(row2, s)
          /\ attempt'[j] = Close(attempt[j], row.claimToken, s)
    BY <1>8 DEF Closes
  <2>2. row.claimToken = n /\ n \in Token /\ n > 0 /\ attempt[j][n] = "processing"
    BY <1>1, <1>2, <2>1 DEF RowSound, RowAgrees, Token
  <2>3. n \in Fenced!Attempts /\ journalBar[j][n] = "open"
    BY <1>3, <2>2 DEF Journal, Fenced!Attempts, Token
  <2>4. s # "processing"
    BY <1>1, <2>1, EndsAsFacts
  <2>5. \A m \in Token : attempt'[j][m] = IF m = n THEN s ELSE attempt[j][m]
    BY <2>1, <2>2 DEF Close
  <2>6. Fenced!Writes(j, n, s)
    BY <1>3, <2>2, <2>4, <2>5 DEF Journal, Fenced!Writes, Fenced!Attempts, Token
  <2>7. phaseBar[j] \in {"held", "orphaned"} /\ (leases # {} => phaseBar[j] = "held")
    BY <1>1, <1>2, <1>3, <2>1, PhaseFacts
  <2>8. CASE s \in {"paused", "interrupted"}
    <3>1. phaseBar'[j] \in {"waiting", "ended"}
      BY <1>3, <2>1, <2>8
      DEF EndsAs, OwnerWords, Phase, Shown, LogicalState, TerminalStates
    <3>2. Fenced!TakeBack(j)
      BY <2>3, <2>6, <2>7, <2>8, <3>1 DEF Fenced!TakeBack, Fenced!Moves, Fenced!Losses
    <3>3. QED
      BY <3>2 DEF Fenced!Step
  <2>9. CASE s \in OwnerWords
    <3>1. LiveOwner(j, n)
      BY <2>2, <2>5, <2>9 DEF Guarded, ClosedByOwner
    <3>2. row.fencingGeneration > 0
      BY <2>2 DEF ClaimsAreLeased, row
    <3>3. leases # {}
      BY <3>1, <3>2 DEF LiveOwner, row, leases
    <3>4. phaseBar'[j] = IF s = "retrying" THEN "waiting" ELSE "ended"
      BY <1>3, <2>1, <2>9
      DEF EndsAs, OwnerWords, Phase, Shown, LogicalState, TerminalStates
    <3>5. Fenced!Report(j)
      BY <2>3, <2>6, <2>7, <2>9, <3>3, <3>4
      DEF Fenced!Report, Fenced!Moves, Fenced!Reports, OwnerWords
    <3>6. QED
      BY <3>5 DEF Fenced!Step
  <2>10. QED
    BY <2>1, <2>8, <2>9 DEF EndsAs
<1>9. QED
  BY <1>5, <1>6, <1>7, <1>8 DEF Moves, row, row2

LEMMA InitImplements == Init => Fenced!Init
<1> SUFFICES ASSUME Init PROVE Fenced!Init
  OBVIOUS
<1>1. phaseBar = [j \in Job |-> "unborn"]
  <2>1. \A j \in Job : job[j].state = "absent" /\ LogicalJobState(j) = "absent"
    BY DEF Init, LogicalJobState, LogicalState
  <2>2. QED
    BY <2>1 DEF phaseBar, TerminalStates
<1>2. journalBar = [j \in Job |-> [n \in Fenced!Attempts |-> "none"]]
  BY DEF Init, journalBar, Fenced!Attempts, Token
<1>3. QED
  BY <1>1, <1>2 DEF Fenced!Init

-----------------------------------------------------------------------------
(***************************************************************************)
(* The theorems.                                                           *)
(***************************************************************************)
LEMMA StepFacts ==
  ASSUME IInv, LedgerInv, FencedInv, [Next]_vars
  PROVE  /\ TypeOK /\ TypeOK' /\ LedgerInv' /\ FencedInv'
         /\ EveryRowMoves /\ (EveryJobGuarded \/ SomeUnleased)
BY StepIInv, StepLedger, StepMoves, StepGuarded, StepFenced DEF IInv

\* Once a newer owner has checkpointed, no older owner's Checkpoint replaces it:
\* a save writes the generation of the row, which only grows.
THEOREM CheckpointsMoveForward == Spec => CheckpointNeverGoesBack
<1>1. IInv /\ LedgerInv /\ FencedInv /\ [Next]_vars =>
        [\A j \in Job : checkpoint'[j] >= checkpoint[j]]_vars
  BY StepFacts, GuardedCheckpoints DEF FencedInv
<1>2. QED
  BY <1>1, InitIInv, StepIInv, InitLedger, StepLedger, InitFenced, StepFenced, PTL
  DEF Spec, CheckpointNeverGoesBack

\* An owner closes an attempt only under its own live Lease, and recovery takes
\* one back only from a Lease that is out, unless the caller of recover chose the
\* time it is judged by.
THEOREM OutcomesNeedALease ==
  ASSUME ~FutureEvaluation
  PROVE  Spec => OutcomesAreFenced
<1>1. IInv /\ LedgerInv /\ FencedInv /\ [Next]_vars =>
        [\A j \in Job, n \in Token :
           attempt[j][n] = "processing" =>
             /\ attempt'[j][n] \in {"completed", "failed", "retrying", "skipped", "blocked"}
                  => LiveOwner(j, n)
             /\ attempt'[j][n] = "interrupted"
                  => \A l \in ActiveLease(j) : l.expiresAt = "past"]_vars
  BY StepFacts DEF EveryJobGuarded, SomeUnleased, Guarded, Unleased, ClosedByOwner, OwnerWords
<1>2. QED
  BY <1>1, InitIInv, StepIInv, InitLedger, StepLedger, InitFenced, StepFenced, PTL
  DEF Spec, OutcomesAreFenced

\* Every change of a job is an edge of the transition table, or recovery's two
\* edges through "interrupted", although resume and recovery never consult it.
THEOREM TableIsFollowed == Spec => JobsFollowTheTable
<1>1. ASSUME IInv, LedgerInv, FencedInv, [Next]_vars, NEW j \in Job
      PROVE  LET from == LogicalJobState(j)
                 to == LogicalState(job'[j].state, job'[j].recoveryState) IN
             from = to \/ (from = "absent" /\ to = "pending") \/ Path(from, to)
  <2>1. Moves(job[j], attempt[j], job'[j], attempt'[j])
    BY <1>1, StepFacts DEF EveryRowMoves
  <2>2. job[j] \in JobRow
    BY <1>1 DEF IInv, TypeOK
  <2>3. /\ LogicalJobState(j) = Shown(job[j])
        /\ LogicalState(job'[j].state, job'[j].recoveryState) = Shown(job'[j])
    BY DEF LogicalJobState, Shown
  <2>4. CASE Rests(job[j], attempt[j], job'[j], attempt'[j])
    BY <2>3, <2>4 DEF Rests, Shown
  <2>5. CASE Waits(job[j], attempt[j], job'[j], attempt'[j])
    <3>1. Shown(job[j]) \in {"absent", "pending", "retrying", "paused", "interrupted"}
      BY <2>2, <2>5
      DEF Waits, Shown, LogicalState, JobRow, PhysicalJobStates, RecoveryStates, TerminalStates
    <3>2. Shown(job'[j]) = job'[j].state
      BY <2>5 DEF Waits, Shown, LogicalState
    <3>3. QED
      BY <2>3, <2>5, <3>1, <3>2 DEF Waits, Path, CanTransition, ValidJobTransitions
  <2>6. CASE Opens(job[j], attempt[j], job'[j], attempt'[j])
    <3>1. Shown(job[j]) = "pending" /\ Shown(job'[j]) = "processing"
      BY <2>6 DEF Opens, Shown, LogicalState
    <3>2. QED
      BY <2>3, <3>1 DEF Path, CanTransition, ValidJobTransitions
  <2>7. CASE Closes(job[j], attempt[j], job'[j], attempt'[j])
    <3>1. Shown(job[j]) = "processing"
      BY <2>7 DEF Closes
    <3>2. Shown(job'[j]) \in OwnerWords \cup {"paused", "pending"}
      BY <2>7 DEF Closes, EndsAs, OwnerWords, Shown, LogicalState
    <3>3. QED
      BY <2>3, <3>1, <3>2 DEF OwnerWords, Path, CanTransition, ValidJobTransitions
  <2>8. QED
    BY <2>1, <2>4, <2>5, <2>6, <2>7 DEF Moves
<1>2. IInv /\ LedgerInv /\ FencedInv /\ [Next]_vars =>
        [\A j \in Job :
           LET from == LogicalJobState(j)
               to == LogicalState(job'[j].state, job'[j].recoveryState) IN
           from = to \/ (from = "absent" /\ to = "pending") \/ Path(from, to)]_vars
  BY <1>1
<1>3. QED
  BY <1>2, InitIInv, StepIInv, InitLedger, StepLedger, InitFenced, StepFenced, PTL
  DEF Spec, JobsFollowTheTable

\* The queue implements FencedJob: whatever claims, late reports, recoveries,
\* pauses and resumes interleave, a job is held by one owner at a time, only its
\* holder reports, and an attempt is closed once.  A claim without a Lease holds
\* nothing, so none of them may be unleased.
THEOREM QueueImplementsFencedJob ==
  ASSUME ~UnleasedClaims
  PROVE  Spec => ImplementsFencedJob
<1>1. IInv /\ LedgerInv /\ FencedInv /\ [Next]_vars => [Fenced!Next]_(Fenced!vars)
  <2> SUFFICES ASSUME IInv, LedgerInv, FencedInv, [Next]_vars, NEW j \in Job
               PROVE  Fenced!Step(j)
    BY DEF Fenced!Next
  <2>1. Moves(job[j], attempt[j], job'[j], attempt'[j]) /\ Guarded(j)
    BY StepFacts DEF EveryRowMoves, EveryJobGuarded, SomeUnleased
  <2>2. QED
    BY <2>1, StepFacts, RowImplements DEF FencedInv
<1>2. QED
  BY <1>1, InitImplements, InitIInv, StepIInv, InitLedger, StepLedger, InitFenced,
     StepFenced, PTL
  DEF Spec, ImplementsFencedJob, Fenced!Spec

-----------------------------------------------------------------------------
(***************************************************************************)
(* Renders and interactions: what is recorded of a render agrees with the  *)
(* queue, what it answers is true, and the two together still implement    *)
(* FencedJob.                                                              *)
(***************************************************************************)

(***************************************************************************)
(* The inductive invariant.  The results and failures are those of the     *)
(* attempts they name; and while a render has not heard whether its commit *)
(* took effect, or has given up, no result is its own, unless it could not *)
(* read the results.                                                       *)
(***************************************************************************)
RecordsAreAttempts ==
  \A j \in Job, n \in Token :
    /\ attempt[j][n] = "completed" <=> result[j] = n
    /\ attempt[j][n] \in {"failed", "retrying"} <=> n \in failure[j]

Unanswered == {"rendering", "committing", "written", "caught", "pausing", "recording", "refused"}

Unowned(j, n) == result[j] # n \/ n \in unread[j]

StagesAreTrue ==
  \A j \in Job, n \in Token :
    /\ stage[j][n] = "answered" => result[j] # 0
    /\ stage[j][n] \in Unanswered => Unowned(j, n)
    /\ stage[j][n] = "written" => page[j] # 0

QueueInv == IInv /\ LedgerInv /\ ClaimsAreLeased

ExecutionInv ==
  /\ QueueInv /\ ExecutionTypeOK
  /\ RecordsAreAttempts /\ StagesAreTrue /\ CommittedPageIsOnDisk

-----------------------------------------------------------------------------
(***************************************************************************)
(* The queue's part of a step.  All but one write of the application is an *)
(* operation of PageQueue: the failure record of a render makes a          *)
(* retryable job due at once.                                              *)
(***************************************************************************)
FailsNow(c, target) ==
  /\ OwnsProcessing(c)
  /\ Finish(c, target, [Unclaimed(job[c.jobId], target) EXCEPT !.nextEligibleAt = "past"])

\* No owner's word is written down.
NoWord == \A j \in Job, n \in Token : attempt'[j][n] \in OwnerWords => attempt'[j][n] = attempt[j][n]

\* What the other queue operations of the application are.
QuietQueue ==
  /\ Upkeep \/ Claim \/ Held \/ RunOperation \/ UNCHANGED vars
  /\ NoWord

LEMMA OwnsRenderOwns ==
  ASSUME IInv, NEW c \in claim, OwnsRender(c)
  PROVE  OwnsProcessing(c)
<1>1. PICK l \in ActiveLease(c.jobId) :
        /\ l.token = c.token /\ l.fencingGeneration = c.fencingGeneration
        /\ job[c.jobId].fencingGeneration = c.fencingGeneration /\ l.expiresAt = "ahead"
  BY DEF OwnsRender, HoldsLease
<1>2. job[c.jobId].claimToken = l.token
  BY DEF IInv, LeaseInv, ActiveLeaseIsCurrent, ActiveLease
<1>3. QED
  BY <1>1, <1>2 DEF OwnsRender, OwnsProcessing, FencedClaimValid

LEMMA SameAttemptsNoWord ==
  ASSUME UNCHANGED attempt
  PROVE  NoWord
BY DEF NoWord

LEMMA ClaimNoWord ==
  ASSUME TypeOK, NEW o \in Owner, NEW k, NEW j \in Job, GrantLease(o, k, j)
  PROVE  NoWord
<1>1. \A i \in Job, n \in Token : attempt'[i][n] \in {attempt[i][n], "processing"}
  BY DEF GrantLease, TypeOK
<1>2. QED
  BY <1>1 DEF NoWord, OwnerWords

LEMMA PauseNoWord ==
  ASSUME TypeOK, NEW c \in claim, AcknowledgePause(c)
  PROVE  NoWord
<1>1. c.jobId \in Job
  BY DEF TypeOK, LeaseClaim
<1>2. \A j \in Job, n \in Token : attempt'[j][n] \in {attempt[j][n], "paused"}
  BY <1>1 DEF AcknowledgePause, Close, TypeOK
<1>3. QED
  BY <1>2 DEF NoWord, OwnerWords

LEMMA RecoverNoWord ==
  ASSUME NEW S, Recover(S)
  PROVE  NoWord
<1>1. \A j \in Job, n \in Token : attempt'[j][n] \in {attempt[j][n], "paused", "interrupted"}
  BY DEF Recover, Close
<1>2. QED
  BY <1>1 DEF NoWord, OwnerWords

LEMMA ClaimQuiet ==
  ASSUME TypeOK, NEW o \in Owner, NEW j \in Job, ClaimJobWithLease(o, NoKey, j)
  PROVE  QuietQueue
<1>1. GrantLease(o, NoKey, j)
  BY DEF ClaimJobWithLease
<1>2. QED
  BY <1>1, ClaimNoWord DEF QuietQueue, Claim

LEMMA SurroundingsQuiet ==
  ASSUME TypeOK, Surroundings
  PROVE  QuietQueue
<1>1. ASSUME NEW S \in SUBSET Job, Recover(S)
      PROVE  QuietQueue
  BY <1>1, RecoverNoWord DEF QuietQueue, RunOperation
<1>2. ASSUME NEW j \in Job, Enqueue(j) \/ BecomeDue(j)
      PROVE  QuietQueue
  BY <1>2, SameAttemptsNoWord DEF Enqueue, BecomeDue, QuietQueue, Upkeep
<1>3. ASSUME NEW S \in SUBSET Job, ReleaseDueRetries(S)
      PROVE  QuietQueue
  BY <1>3, SameAttemptsNoWord DEF ReleaseDueRetries, QuietQueue, Upkeep
<1>4. ASSUME NEW l \in lease, Expire(l)
      PROVE  QuietQueue
  BY <1>4, SameAttemptsNoWord DEF Expire, QuietQueue, Held
<1>5. ASSUME RequestPause \/ ResumeRun
      PROVE  QuietQueue
  BY <1>5, SameAttemptsNoWord DEF RequestPause, ResumeRun, QuietQueue, RunOperation
<1>6. QED
  BY <1>1, <1>2, <1>3, <1>4, <1>5 DEF Surroundings

LEMMA HeldQuiet ==
  ASSUME TypeOK, NEW c \in claim, SaveCheckpoint(c) \/ ReleaseLease(c) \/ AcknowledgePause(c)
  PROVE  QuietQueue
<1>1. NoWord
  BY PauseNoWord, SameAttemptsNoWord DEF SaveCheckpoint, ReleaseLease
<1>2. QED
  BY <1>1 DEF QuietQueue, Held

\* The three kinds of step.
WritesResult(c) ==
  /\ At(c, "written") /\ OwnsRender(c)
  /\ Complete(c)
  /\ result' = [result EXCEPT ![c.jobId] = c.token]
  /\ UNCHANGED <<page, failure, unread>>
  /\ Goes(c, "answered") \/ Goes(c, "unsure")

WritesFailure(c) ==
  /\ At(c, "recording") /\ OwnsRender(c)
  /\ \E target \in {"retrying", "failed"} : FailsNow(c, target)
  /\ failure' = [failure EXCEPT ![c.jobId] = @ \cup {c.token}]
  /\ UNCHANGED <<page, result, unread>>
  /\ Goes(c, "refused")

LEMMA StepKinds ==
  ASSUME QueueInv, [ExecutionNext]_allVars
  PROVE  \/ QuietQueue /\ UNCHANGED <<result, failure>>
         \/ \E c \in claim : WritesResult(c) \/ WritesFailure(c)
<1>1. TypeOK /\ IInv
  BY DEF QueueInv, IInv
<1>2. ASSUME UNCHANGED vars
      PROVE  QuietQueue
  BY <1>2, SameAttemptsNoWord DEF QuietQueue, vars
<1>3. CASE Surroundings
  BY <1>1, <1>3, SurroundingsQuiet DEF Surroundings, executionVars
<1>4. ASSUME NEW o \in Owner, NEW j \in Job, StartRender(o, j) \/ StartInteraction(o, j)
      PROVE  QuietQueue /\ UNCHANGED <<result, failure>>
  BY <1>1, <1>4, ClaimQuiet DEF StartRender, StartInteraction
<1>5. ASSUME NEW c \in claim,
             \/ Progress(c) \/ ReadyToCommit(c) \/ StopAtPause(c)
             \/ SaveInteraction(c) \/ EndInteraction(c)
      PROVE  QuietQueue /\ UNCHANGED <<result, failure>>
  BY <1>1, <1>5, HeldQuiet
  DEF Progress, ReadyToCommit, StopAtPause, SaveInteraction, EndInteraction, executionVars
<1>6. ASSUME NEW c \in claim,
             \/ RepeatRender(c) \/ RenderThrows(c) \/ WriteHtml(c) \/ CommitRefused(c)
             \/ ReadBack(c) \/ ReadControl(c) \/ GiveUp(c) \/ InteractionThrows(c)
      PROVE  QuietQueue /\ UNCHANGED <<result, failure>>
  BY <1>2, <1>6
  DEF RepeatRender, RenderThrows, WriteHtml, CommitRefused, ReadBack, ReadControl, GiveUp,
      InteractionThrows
<1>7. ASSUME NEW c \in claim, CommitRenderResult(c)
      PROVE  WritesResult(c)
  <2>1. OwnsProcessing(c)
    BY <1>1, <1>7, OwnsRenderOwns DEF CommitRenderResult
  <2>2. QED
    BY <1>7, <2>1 DEF CommitRenderResult, ArtifactWritten, WritesResult, Complete
<1>8. ASSUME NEW c \in claim, NEW retryable, RecordRenderFailure(c, retryable)
      PROVE  WritesFailure(c)
  <2>1. OwnsProcessing(c)
    BY <1>1, <1>8, OwnsRenderOwns DEF RecordRenderFailure
  <2>2. QED
    BY <1>8, <2>1 DEF RecordRenderFailure, WritesFailure, FailsNow
<1>9. ASSUME NEW o \in Owner, Crash(o)
      PROVE  QuietQueue /\ UNCHANGED <<result, failure>>
  BY <1>2, <1>9 DEF Crash
<1>10. CASE UNCHANGED allVars
  BY <1>2, <1>10 DEF allVars, executionVars
<1>11. QED
  BY <1>3, <1>4, <1>5, <1>6, <1>7, <1>8, <1>9, <1>10 DEF ExecutionNext, Render, Interaction

-----------------------------------------------------------------------------
(***************************************************************************)
(* Every kind of step keeps the queue's invariants, moves every row as the *)
(* queue would and is guarded as the queue's operations are.               *)
(***************************************************************************)
QueueKept == IInv' /\ LedgerInv' /\ EveryRowMoves /\ EveryJobGuarded

LEMMA QuietKeepsQueue ==
  ASSUME QueueInv, QuietQueue
  PROVE  QueueKept
<1>1. IInv /\ TypeOK /\ LedgerInv
  BY DEF QueueInv, IInv
<1>2. [Next]_vars
  BY DEF QuietQueue, Next, Queue, Upkeep
<1>3. IInv' /\ LedgerInv' /\ EveryRowMoves
  BY <1>1, <1>2, StepIInv, StepLedger, StepMoves
<1>4. EveryJobGuarded
  BY <1>1, IdleGuarded, UpkeepGuarded, ClaimGuarded, HeldGuarded, RunOperationGuarded
  DEF QuietQueue
<1>5. QED
  BY <1>3, <1>4 DEF QueueKept

LEMMA ResultKeepsQueue ==
  ASSUME QueueInv, NEW c \in claim, Complete(c)
  PROVE  QueueKept
<1>1. IInv /\ TypeOK /\ LedgerInv
  BY DEF QueueInv, IInv
<1>2. Held
  BY DEF Held
<1>3. IInv' /\ LedgerInv' /\ EveryRowMoves
  BY <1>1, <1>2, StepIInv, StepLedger, StepMoves DEF Next
<1>4. EveryJobGuarded
  BY <1>1, <1>2, HeldGuarded
<1>5. QED
  BY <1>3, <1>4 DEF QueueKept

LEMMA FailureKeepsQueue ==
  ASSUME QueueInv, NEW c \in claim, NEW target \in {"retrying", "failed"}, FailsNow(c, target)
  PROVE  QueueKept
<1>1. IInv /\ TypeOK /\ LedgerInv /\ c.jobId \in Job /\ job[c.jobId] \in JobRow
  BY DEF QueueInv, IInv, TypeOK, LeaseClaim
<1> DEFINE bare == Unclaimed(job[c.jobId], target)
           row == [bare EXCEPT !.nextEligibleAt = "past"]
<1>2. /\ bare \in JobRow /\ bare.state = target /\ bare.recoveryState = "none"
      /\ bare.attemptCount = job[c.jobId].attemptCount
  <2>1. target \in PhysicalJobStates
    BY DEF PhysicalJobStates
  <2>2. bare \in JobRow
    BY <1>1, <2>1, UnclaimedType
  <2>3. QED
    BY <1>1, <2>1, <2>2, UnclaimedRow
<1>3. bare.fencingGeneration = job[c.jobId].fencingGeneration
  BY <1>1, CountersKept
<1>4. OwnsProcessing(c) /\ Finish(c, target, row)
  BY DEF FailsNow
<1> HIDE DEF bare
<1>5. /\ row \in JobRow /\ row.state = target /\ row.recoveryState = "none"
      /\ row.attemptCount = job[c.jobId].attemptCount
      /\ row.fencingGeneration = job[c.jobId].fencingGeneration
  BY <1>2, <1>3 DEF JobRow, Instant
<1> HIDE DEF row
<1>6. TypeOK'
  BY <1>1, <1>4, <1>5, FinishType DEF AttemptOutcomes
<1>7. LeaseInv'
  BY <1>1, <1>4, <1>5, <1>6, FinishStep
<1>8. EveryRowMoves
  BY <1>1, <1>4, <1>5, FinishMoves DEF OwnerWords
<1>9. LedgerInv'
  BY <1>1, <1>6, <1>8, MovesKeepLedger
<1>10. EveryJobGuarded
  BY <1>1, <1>4, <1>5, FinishGuarded DEF OwnerWords
<1>11. QED
  BY <1>6, <1>7, <1>8, <1>9, <1>10 DEF QueueKept, IInv

LEMMA StepKeepsQueue ==
  ASSUME QueueInv, [ExecutionNext]_allVars
  PROVE  QueueKept /\ QueueInv'
<1>1. QueueKept
  BY StepKinds, QuietKeepsQueue, ResultKeepsQueue, FailureKeepsQueue
  DEF WritesResult, WritesFailure
<1>2. QED
  BY <1>1, GuardedCounters DEF QueueKept, QueueInv, IInv

-----------------------------------------------------------------------------
(***************************************************************************)
(* The records of the renders.                                             *)
(***************************************************************************)
\* Only an open attempt, or one not yet drawn, is written.
LEMMA ClosedStaysClosed ==
  ASSUME QueueInv, QueueKept, NEW j \in Job, NEW n \in Token,
         attempt[j][n] \notin {"none", "processing"}
  PROVE  attempt'[j][n] = attempt[j][n]
<1>1. Moves(job[j], attempt[j], job'[j], attempt'[j])
  BY DEF QueueKept, EveryRowMoves
<1>2. /\ RowSound(job[j], attempt[j]) /\ attempt[j] \in Outcomes
      /\ job[j].attemptCount \in 0..MaxAttempts
  BY DEF QueueInv, LedgerInv, IInv, TypeOK, Outcomes, JobRow
<1>3. CASE Opens(job[j], attempt[j], job'[j], attempt'[j])
  <2> DEFINE m == job[j].attemptCount + 1
  <2>1. m \in Token
    BY <1>2, <1>3, MaxAttemptsAssumption DEF Opens, Token
  <2>2. attempt[j][m] = "none"
    BY <1>2, <2>1 DEF RowSound, RowAgrees, Token
  <2>3. QED
    BY <1>2, <1>3, <2>1, <2>2 DEF Opens, Outcomes
<1>4. CASE Closes(job[j], attempt[j], job'[j], attempt'[j])
  BY <1>4 DEF Closes, Close
<1>5. QED
  BY <1>1, <1>3, <1>4 DEF Moves, Rests, Waits

\* The attempt of a caller that owns its job is open, and the job has no result.
LEMMA OwnerIsOpen ==
  ASSUME QueueInv, RecordsAreAttempts, NEW c \in claim, OwnsProcessing(c)
  PROVE  /\ c.jobId \in Job /\ c.token \in Token
         /\ attempt[c.jobId][c.token] = "processing"
         /\ \A n \in Token : attempt[c.jobId][n] # "completed" /\ result[c.jobId] # n
<1> DEFINE j == c.jobId
<1>1. j \in Job /\ c.token \in Token /\ job[j] \in JobRow
  BY DEF QueueInv, IInv, TypeOK, LeaseClaim
<1>2. Shown(job[j]) = "processing" /\ job[j].claimToken = c.token
  BY DEF OwnsProcessing, LogicalJobState, Shown
<1>3. RowSound(job[j], attempt[j])
  BY <1>1 DEF QueueInv, LedgerInv
<1>4. attempt[j][c.token] = "processing"
  BY <1>1, <1>2, <1>3 DEF RowSound, RowAgrees
<1>5. job[j].state = "processing"
  BY <1>1, <1>2, ShownFacts DEF PhysicalJobStates
<1>6. \A n \in Token : attempt[j][n] # "completed"
  BY <1>3, <1>5 DEF RowSound, RowAgrees, TerminalStates
<1>7. QED
  BY <1>1, <1>4, <1>6 DEF RecordsAreAttempts

LEMMA FinishWrites ==
  ASSUME TypeOK, NEW c \in claim, NEW s, NEW row, Finish(c, s, row),
         attempt[c.jobId][c.token] = "processing"
  PROVE  \A j \in Job, n \in Token :
           attempt'[j][n] = IF j = c.jobId /\ n = c.token THEN s ELSE attempt[j][n]
<1>1. c.jobId \in Job
  BY DEF TypeOK, LeaseClaim
<1>2. attempt' = [attempt EXCEPT ![c.jobId] = Close(attempt[c.jobId], c.token, s)]
  BY DEF Finish
<1>3. QED
  BY <1>1, <1>2 DEF Close, TypeOK

LEMMA StepRecords ==
  ASSUME ExecutionInv, [ExecutionNext]_allVars, QueueKept
  PROVE  RecordsAreAttempts'
<1> USE DEF ExecutionInv
<1>1. TypeOK /\ QueueInv /\ RecordsAreAttempts
  BY DEF QueueInv, IInv
<1>2. /\ result \in [Job -> 0..MaxAttempts] /\ failure \in [Job -> SUBSET Token]
  BY DEF ExecutionTypeOK
<1>3. CASE QuietQueue /\ UNCHANGED <<result, failure>>
  <2> SUFFICES ASSUME NEW j \in Job, NEW n \in Token
               PROVE  /\ attempt'[j][n] = "completed" <=> result[j] = n
                      /\ attempt'[j][n] \in {"failed", "retrying"} <=> n \in failure[j]
    BY <1>3 DEF RecordsAreAttempts
  <2>1. /\ attempt[j][n] = "completed" <=> result[j] = n
        /\ attempt[j][n] \in {"failed", "retrying"} <=> n \in failure[j]
    BY DEF RecordsAreAttempts
  <2>2. attempt'[j][n] \in OwnerWords => attempt'[j][n] = attempt[j][n]
    BY <1>3 DEF QuietQueue, NoWord
  <2>3. attempt[j][n] \in OwnerWords => attempt'[j][n] = attempt[j][n]
    BY <1>1, ClosedStaysClosed DEF OwnerWords
  <2>4. QED
    BY <2>1, <2>2, <2>3 DEF OwnerWords
<1>4. ASSUME NEW c \in claim, WritesResult(c)
      PROVE  RecordsAreAttempts'
  <2>1. OwnsProcessing(c) /\ Finish(c, "completed", Unclaimed(job[c.jobId], "completed"))
    BY <1>4 DEF WritesResult, Complete
  <2>2. /\ c.jobId \in Job /\ c.token \in Token
        /\ attempt[c.jobId][c.token] = "processing"
        /\ \A n \in Token : attempt[c.jobId][n] # "completed" /\ result[c.jobId] # n
    BY <1>1, <2>1, OwnerIsOpen
  <2>3. \A j \in Job, n \in Token :
          attempt'[j][n] = IF j = c.jobId /\ n = c.token THEN "completed" ELSE attempt[j][n]
    BY <1>1, <2>1, <2>2, FinishWrites
  <2>4. UNCHANGED failure /\ result' = [result EXCEPT ![c.jobId] = c.token]
    BY <1>4 DEF WritesResult
  <2>5. \A j \in Job : result'[j] = IF j = c.jobId THEN c.token ELSE result[j]
    BY <1>2, <2>4
  <2>6. QED
    BY <2>2, <2>3, <2>4, <2>5 DEF RecordsAreAttempts
<1>5. ASSUME NEW c \in claim, WritesFailure(c)
      PROVE  RecordsAreAttempts'
  <2>1. PICK target \in {"retrying", "failed"} : FailsNow(c, target)
    BY <1>5 DEF WritesFailure
  <2>2. /\ c.jobId \in Job /\ c.token \in Token
        /\ attempt[c.jobId][c.token] = "processing"
        /\ result[c.jobId] # c.token
    BY <1>1, <2>1, OwnerIsOpen DEF FailsNow
  <2>3. \A j \in Job, n \in Token :
          attempt'[j][n] = IF j = c.jobId /\ n = c.token THEN target ELSE attempt[j][n]
    BY <1>1, <2>1, <2>2, FinishWrites DEF FailsNow
  <2>4. UNCHANGED result /\ failure' = [failure EXCEPT ![c.jobId] = @ \cup {c.token}]
    BY <1>5 DEF WritesFailure
  <2>5. \A j \in Job, n \in Token :
          n \in failure'[j] <=> (j = c.jobId /\ n = c.token) \/ n \in failure[j]
    BY <1>2, <2>2, <2>4
  <2>6. QED
    BY <2>2, <2>3, <2>4, <2>5 DEF RecordsAreAttempts
<1>6. QED
  BY <1>1, <1>3, <1>4, <1>5, StepKinds

-----------------------------------------------------------------------------
(***************************************************************************)
(* What the stages promise.                                                *)
(***************************************************************************)
StoresType ==
  /\ stage \in [Job -> [Token -> Stages]]
  /\ page \in [Job -> 0..MaxAttempts]
  /\ result \in [Job -> 0..MaxAttempts]
  /\ failure \in [Job -> SUBSET Token]
  /\ unread \in [Job -> SUBSET Token]

StoresInv == StoresType /\ StagesAreTrue /\ CommittedPageIsOnDisk

LEMMA GoesTo ==
  ASSUME StoresType, NEW c \in LeaseClaim, NEW s \in Stages, Goes(c, s)
  PROVE  /\ stage' \in [Job -> [Token -> Stages]]
         /\ \A j \in Job, n \in Token :
              stage'[j][n] = IF j = c.jobId /\ n = c.token THEN s ELSE stage[j][n]
<1>1. c.jobId \in Job /\ c.token \in Token
  BY DEF LeaseClaim
<1>2. stage' = [stage EXCEPT ![c.jobId] = [stage[c.jobId] EXCEPT ![c.token] = s]]
  BY DEF Goes
<1>3. [stage[c.jobId] EXCEPT ![c.token] = s] \in [Token -> Stages]
  BY <1>1 DEF StoresType
<1>4. QED
  BY <1>1, <1>2, <1>3 DEF StoresType

\* No failed read is forgotten.
MoreUnread ==
  /\ unread' \in [Job -> SUBSET Token]
  /\ \A j \in Job : unread[j] \subseteq unread'[j]

\* A process goes to a stage it may be in; pages, results and failures stay.
LEMMA StageStep ==
  ASSUME StoresInv, UNCHANGED <<page, result, failure>>, MoreUnread,
         NEW c \in LeaseClaim, NEW s \in Stages, Goes(c, s),
         s = "answered" => result[c.jobId] # 0,
         s \in Unanswered => result[c.jobId] # c.token \/ c.token \in unread'[c.jobId],
         s # "written"
  PROVE  StoresInv'
<1>1. StoresType'
  BY GoesTo DEF StoresInv, StoresType, MoreUnread
<1>2. CommittedPageIsOnDisk'
  BY DEF StoresInv, CommittedPageIsOnDisk
<1>3. StagesAreTrue'
  <2> SUFFICES ASSUME NEW j \in Job, NEW n \in Token
               PROVE  /\ stage'[j][n] = "answered" => result[j] # 0
                      /\ stage'[j][n] \in Unanswered => result[j] # n \/ n \in unread'[j]
                      /\ stage'[j][n] = "written" => page[j] # 0
    BY DEF StagesAreTrue, Unowned
  <2>1. stage'[j][n] = IF j = c.jobId /\ n = c.token THEN s ELSE stage[j][n]
    BY GoesTo DEF StoresInv
  <2>2. CASE j = c.jobId /\ n = c.token
    BY <2>1, <2>2
  <2>3. CASE ~(j = c.jobId /\ n = c.token)
    BY <2>1, <2>3 DEF StoresInv, StagesAreTrue, Unowned, MoreUnread
  <2>4. QED
    BY <2>2, <2>3
<1>4. QED
  BY <1>1, <1>2, <1>3 DEF StoresInv

LEMMA SameUnread == ASSUME StoresInv, UNCHANGED unread PROVE MoreUnread
BY DEF StoresInv, StoresType, MoreUnread

LEMMA SameStores ==
  ASSUME StoresInv, UNCHANGED executionVars
  PROVE  StoresInv'
BY DEF StoresInv, StoresType, StagesAreTrue, Unowned, CommittedPageIsOnDisk, executionVars

LEMMA StartStep ==
  ASSUME StoresInv, TypeOK', NEW o \in Owner, NEW j \in Job,
         StartRender(o, j) \/ StartInteraction(o, j)
  PROVE  StoresInv'
<1>1. PICK s \in {"rendering", "interacting"}, c \in claim' \ claim :
        /\ Goes(c, s)
        /\ s = "rendering" => result[j] = 0
  BY DEF StartRender, StartInteraction
<1>2. GrantLease(o, NoKey, j)
  BY DEF StartRender, StartInteraction, ClaimJobWithLease
<1>3. c.jobId = j
  BY <1>1, <1>2 DEF GrantLease
<1>4. c \in LeaseClaim
  BY <1>1 DEF TypeOK
<1>5. c.token # 0
  BY <1>4, MaxAttemptsAssumption DEF LeaseClaim, Token
<1>6. UNCHANGED <<page, result, failure>> /\ MoreUnread
  BY SameUnread DEF StartRender, StartInteraction
<1>7. s \in Stages
  BY DEF Stages, RenderStages
<1>8. QED
  BY <1>1, <1>3, <1>4, <1>5, <1>6, <1>7, StageStep DEF Unanswered

LEMMA CommitStep ==
  ASSUME StoresInv, NEW c \in LeaseClaim, WritesResult(c)
  PROVE  StoresInv'
<1> DEFINE i == c.jobId
<1>1. /\ i \in Job /\ c.token \in Token /\ c.token # 0 /\ c.token \in 0..MaxAttempts
      /\ result \in [Job -> 0..MaxAttempts]
  BY MaxAttemptsAssumption DEF LeaseClaim, Token, StoresInv, StoresType
<1>2. PICK s \in {"answered", "unsure"} : Goes(c, s)
  BY DEF WritesResult
<1>3. s \in Stages
  BY DEF Stages, RenderStages
<1>4. UNCHANGED <<page, failure, unread>> /\ result' = [result EXCEPT ![i] = c.token]
  BY DEF WritesResult
<1>5. \A j \in Job : result'[j] = IF j = i THEN c.token ELSE result[j]
  BY <1>1, <1>4
<1>6. stage[i][c.token] = "written"
  BY DEF WritesResult, At
<1>7. page[i] # 0
  BY <1>1, <1>6 DEF StoresInv, StagesAreTrue
<1>8. /\ stage' \in [Job -> [Token -> Stages]]
      /\ \A j \in Job, n \in Token :
           stage'[j][n] = IF j = i /\ n = c.token THEN s ELSE stage[j][n]
  BY <1>2, <1>3, GoesTo DEF StoresInv
<1>9. StoresType'
  BY <1>1, <1>4, <1>8 DEF StoresInv, StoresType
<1>10. CommittedPageIsOnDisk'
  BY <1>4, <1>5, <1>7 DEF StoresInv, CommittedPageIsOnDisk
<1>11. StagesAreTrue'
  <2> SUFFICES ASSUME NEW j \in Job, NEW n \in Token
               PROVE  /\ stage'[j][n] = "answered" => result'[j] # 0
                      /\ stage'[j][n] \in Unanswered => result'[j] # n \/ n \in unread[j]
                      /\ stage'[j][n] = "written" => page'[j] # 0
    BY <1>4 DEF StagesAreTrue, Unowned
  <2>1. CASE j = i /\ n = c.token
    BY <1>1, <1>5, <1>8, <2>1 DEF Unanswered
  <2>2. CASE ~(j = i /\ n = c.token)
    BY <1>1, <1>4, <1>5, <1>8, <2>2 DEF StoresInv, StagesAreTrue, Unowned
  <2>3. QED
    BY <2>1, <2>2
<1>12. QED
  BY <1>9, <1>10, <1>11 DEF StoresInv

LEMMA FailureStep ==
  ASSUME StoresInv, NEW c \in LeaseClaim, WritesFailure(c)
  PROVE  StoresInv'
<1>1. c.jobId \in Job /\ c.token \in Token
  BY DEF LeaseClaim
<1>2. UNCHANGED <<page, result, unread>> /\ failure' = [failure EXCEPT ![c.jobId] = @ \cup {c.token}]
  BY DEF WritesFailure
<1>3. stage[c.jobId][c.token] = "recording" /\ Goes(c, "refused") /\ "refused" \in Stages
  BY DEF WritesFailure, At, Stages
<1>4. /\ stage' \in [Job -> [Token -> Stages]]
      /\ \A j \in Job, n \in Token :
           stage'[j][n] = IF j = c.jobId /\ n = c.token THEN "refused" ELSE stage[j][n]
  BY <1>3, GoesTo DEF StoresInv
<1>5. StoresType'
  BY <1>1, <1>2, <1>4 DEF StoresInv, StoresType
<1>6. CommittedPageIsOnDisk'
  BY <1>2 DEF StoresInv, CommittedPageIsOnDisk
<1>7. StagesAreTrue'
  BY <1>2, <1>3, <1>4 DEF StoresInv, StagesAreTrue, Unowned, Unanswered
<1>8. QED
  BY <1>5, <1>6, <1>7 DEF StoresInv

LEMMA HtmlStep ==
  ASSUME StoresInv, NEW c \in LeaseClaim, WriteHtml(c)
  PROVE  StoresInv'
<1>1. /\ c.jobId \in Job /\ c.token \in Token /\ c.token # 0 /\ c.token \in 0..MaxAttempts
      /\ page \in [Job -> 0..MaxAttempts]
  BY MaxAttemptsAssumption DEF LeaseClaim, Token, StoresInv, StoresType
<1>2. UNCHANGED <<result, failure, unread>> /\ page' = [page EXCEPT ![c.jobId] = c.token]
  BY DEF WriteHtml
<1>3. \A j \in Job : page'[j] = IF j = c.jobId THEN c.token ELSE page[j]
  BY <1>1, <1>2
<1>4. stage[c.jobId][c.token] = "committing" /\ Goes(c, "written") /\ "written" \in Stages
  BY DEF WriteHtml, At, Stages, RenderStages
<1>5. /\ stage' \in [Job -> [Token -> Stages]]
      /\ \A j \in Job, n \in Token :
           stage'[j][n] = IF j = c.jobId /\ n = c.token THEN "written" ELSE stage[j][n]
  BY <1>4, GoesTo DEF StoresInv
<1>6. StoresType'
  BY <1>1, <1>2, <1>5 DEF StoresInv, StoresType
<1>7. CommittedPageIsOnDisk'
  BY <1>1, <1>2, <1>3 DEF StoresInv, CommittedPageIsOnDisk
<1>8. StagesAreTrue'
  <2> SUFFICES ASSUME NEW j \in Job, NEW n \in Token
               PROVE  /\ stage'[j][n] = "answered" => result[j] # 0
                      /\ stage'[j][n] \in Unanswered => Unowned(j, n)
                      /\ stage'[j][n] = "written" => page'[j] # 0
    BY <1>2 DEF StagesAreTrue, Unowned
  <2>1. CASE j = c.jobId /\ n = c.token
    BY <1>1, <1>3, <1>4, <1>5, <2>1 DEF StoresInv, StagesAreTrue, Unanswered
  <2>2. CASE ~(j = c.jobId /\ n = c.token)
    BY <1>1, <1>3, <1>5, <2>2 DEF StoresInv, StagesAreTrue
  <2>3. QED
    BY <2>1, <2>2
<1>9. QED
  BY <1>6, <1>7, <1>8 DEF StoresInv

LEMMA CrashStep ==
  ASSUME StoresInv, NEW o \in Owner, Crash(o)
  PROVE  StoresInv'
<1>1. UNCHANGED <<page, result, failure, unread>>
  BY DEF Crash
<1>2. stage \in [Job -> [Token -> Stages]]
  BY DEF StoresInv, StoresType
<1>3. \A j \in Job, n \in Token : stage'[j][n] \in {stage[j][n], "lost", "none"}
  <2> SUFFICES ASSUME NEW j \in Job, NEW n \in Token
               PROVE  stage'[j][n] \in {stage[j][n], "lost", "none"}
    OBVIOUS
  <2>1. stage'[j][n] = IF \E c \in claim : c.owner = o /\ c.jobId = j /\ c.token = n
                       THEN CASE stage[j][n] \in RenderStages -> "lost"
                              [] stage[j][n] = "interacting" -> "none"
                              [] OTHER -> stage[j][n]
                       ELSE stage[j][n]
    BY DEF Crash
  <2>2. "interacting" \notin RenderStages
    BY DEF RenderStages
  <2>3. QED
    BY <2>1, <2>2
<1>4. stage' \in [Job -> [Token -> Stages]]
  <2>1. \A j \in Job, n \in Token : stage'[j][n] \in Stages
    BY <1>2, <1>3 DEF Stages
  <2>2. QED
    BY <2>1 DEF Crash
<1>5. StoresType'
  BY <1>1, <1>4 DEF StoresInv, StoresType
<1>6. CommittedPageIsOnDisk'
  BY <1>1 DEF StoresInv, CommittedPageIsOnDisk
<1>7. StagesAreTrue'
  BY <1>1, <1>3 DEF StoresInv, StagesAreTrue, Unowned, Unanswered
<1>8. QED
  BY <1>5, <1>6, <1>7 DEF StoresInv

\* The steps in which a process that has the claim in hand goes on.
LEMMA WorkStep ==
  ASSUME StoresInv, NEW c \in LeaseClaim,
         \/ RepeatRender(c) \/ ReadyToCommit(c) \/ RenderThrows(c) \/ CommitRefused(c)
         \/ ReadBack(c) \/ ReadControl(c) \/ StopAtPause(c) \/ GiveUp(c)
         \/ EndInteraction(c) \/ InteractionThrows(c)
  PROVE  StoresInv'
<1>1. UNCHANGED <<page, result, failure>>
  BY DEF RepeatRender, ReadyToCommit, RenderThrows, CommitRefused, ReadBack, ReadControl,
         StopAtPause, GiveUp, EndInteraction, InteractionThrows
<1>2. c.jobId \in Job /\ c.token \in Token /\ c.token # 0
  BY MaxAttemptsAssumption DEF LeaseClaim, Token
<1> DEFINE now == stage[c.jobId][c.token]
<1>3. now \in Unanswered => Unowned(c.jobId, c.token)
  BY <1>2 DEF StoresInv, StagesAreTrue
<1>4. ASSUME NEW s \in {"rendering", "committing", "caught", "pausing", "recording", "refused"},
             Goes(c, s), now \in Unanswered \/ result[c.jobId] = 0, UNCHANGED unread
      PROVE  StoresInv'
  <2>1. s \in Stages
    BY DEF Stages, RenderStages
  <2>2. result[c.jobId] # c.token \/ c.token \in unread'[c.jobId]
    BY <1>2, <1>3, <1>4 DEF Unowned
  <2>3. MoreUnread
    BY <1>4, SameUnread
  <2>4. QED
    BY <1>1, <1>4, <2>1, <2>2, <2>3, StageStep
<1>5. ASSUME NEW s \in {"unsure", "none"}, Goes(c, s), UNCHANGED unread
      PROVE  StoresInv'
  <2>1. s \in Stages
    BY DEF Stages, RenderStages
  <2>2. MoreUnread
    BY <1>5, SameUnread
  <2>3. QED
    BY <1>1, <1>5, <2>1, <2>2, StageStep DEF Unanswered
<1>6. CASE RepeatRender(c)
  BY <1>4, <1>6 DEF RepeatRender
<1>7. CASE ReadyToCommit(c) \/ RenderThrows(c)
  BY <1>4, <1>7 DEF ReadyToCommit, RenderThrows, At, Unanswered
<1>8. CASE CommitRefused(c)
  BY <1>4, <1>5, <1>8 DEF CommitRefused, At, Unanswered
<1>9. CASE ReadBack(c)
  <2>1. CASE Goes(c, "answered") /\ result[c.jobId] # 0 /\ UNCHANGED unread
    <3>1. "answered" \in Stages /\ MoreUnread
      BY <2>1, SameUnread DEF Stages
    <3>2. QED
      BY <1>1, <2>1, <3>1, StageStep DEF Unanswered
  <2>2. CASE Goes(c, "caught") /\ result[c.jobId] = 0 /\ UNCHANGED unread
    BY <1>4, <2>2
  <2>3. CASE /\ Goes(c, "caught")
             /\ unread' = [unread EXCEPT ![c.jobId] = @ \cup {c.token}]
    <3>1. MoreUnread /\ c.token \in unread'[c.jobId]
      BY <1>2, <2>3 DEF MoreUnread, StoresInv, StoresType
    <3>2. "caught" \in Stages
      BY DEF Stages, RenderStages
    <3>3. QED
      BY <1>1, <2>3, <3>1, <3>2, StageStep
  <2>4. QED
    BY <1>9, <2>1, <2>2, <2>3 DEF ReadBack, ResultIsDurable
<1>10. CASE ReadControl(c) \/ StopAtPause(c) \/ GiveUp(c)
  BY <1>4, <1>10 DEF ReadControl, StopAtPause, GiveUp, At, Unanswered
<1>11. CASE EndInteraction(c) \/ InteractionThrows(c)
  BY <1>5, <1>11 DEF EndInteraction, InteractionThrows
<1>12. QED
  BY <1>6, <1>7, <1>8, <1>9, <1>10, <1>11

LEMMA StepStores ==
  ASSUME ExecutionInv, [ExecutionNext]_allVars, TypeOK'
  PROVE  StoresInv'
<1>1. StoresInv /\ IInv
  BY DEF ExecutionInv, ExecutionTypeOK, StoresInv, StoresType, QueueInv
<1>2. claim \subseteq LeaseClaim
  BY <1>1 DEF IInv, TypeOK
<1>3. ASSUME NEW c \in claim, CommitRenderResult(c)
      PROVE  StoresInv'
  <2>1. OwnsProcessing(c)
    BY <1>1, <1>3, OwnsRenderOwns DEF CommitRenderResult
  <2>2. WritesResult(c)
    BY <1>3, <2>1 DEF CommitRenderResult, ArtifactWritten, WritesResult, Complete
  <2>3. QED
    BY <1>1, <1>2, <2>2, CommitStep
<1>4. ASSUME NEW c \in claim, NEW retryable, RecordRenderFailure(c, retryable)
      PROVE  StoresInv'
  <2>1. OwnsProcessing(c)
    BY <1>1, <1>4, OwnsRenderOwns DEF RecordRenderFailure
  <2>2. WritesFailure(c)
    BY <1>4, <2>1 DEF RecordRenderFailure, WritesFailure, FailsNow
  <2>3. QED
    BY <1>1, <1>2, <2>2, FailureStep
<1>5. ASSUME UNCHANGED executionVars
      PROVE  StoresInv'
  BY <1>1, <1>5, SameStores
<1>6. CASE Render
  BY <1>1, <1>2, <1>3, <1>4, <1>5, <1>6, StartStep, WorkStep, HtmlStep DEF Render, Progress
<1>7. CASE Interaction
  BY <1>1, <1>2, <1>5, <1>7, StartStep, WorkStep DEF Interaction, SaveInteraction
<1>8. QED
  BY <1>1, <1>5, <1>6, <1>7, CrashStep DEF ExecutionNext, Surroundings, allVars

-----------------------------------------------------------------------------
(***************************************************************************)
(* The theorems.                                                           *)
(***************************************************************************)
LEMMA InitExecution == ExecutionInit => ExecutionInv
<1> SUFFICES ASSUME ExecutionInit PROVE ExecutionInv
  OBVIOUS
<1>1. Init
  BY DEF ExecutionInit
<1>2. QueueInv
  BY <1>1, InitIInv, InitLedger DEF QueueInv, Init, ClaimsAreLeased
<1>3. TypeOK
  BY <1>2 DEF QueueInv, IInv
<1>4. ExecutionTypeOK
  BY <1>3, MaxAttemptsAssumption DEF ExecutionInit, ExecutionTypeOK, Stages
<1>5. RecordsAreAttempts
  BY <1>1, MaxAttemptsAssumption DEF ExecutionInit, Init, RecordsAreAttempts, Token
<1>6. StagesAreTrue /\ CommittedPageIsOnDisk
  BY DEF ExecutionInit, StagesAreTrue, Unowned, Unanswered, CommittedPageIsOnDisk
<1>7. QED
  BY <1>2, <1>4, <1>5, <1>6 DEF ExecutionInv

LEMMA StepExecution == ExecutionInv /\ [ExecutionNext]_allVars => ExecutionInv'
<1> SUFFICES ASSUME ExecutionInv, [ExecutionNext]_allVars PROVE ExecutionInv'
  OBVIOUS
<1>1. QueueKept /\ QueueInv'
  BY StepKeepsQueue DEF ExecutionInv
<1>2. TypeOK'
  BY <1>1 DEF QueueInv, IInv
<1>3. RecordsAreAttempts'
  BY <1>1, StepRecords
<1>4. StoresInv'
  BY <1>2, StepStores
<1>5. QED
  BY <1>1, <1>2, <1>3, <1>4
  DEF ExecutionInv, ExecutionTypeOK, StoresInv, StoresType

\* Whatever process died or was fenced where, the queue, the results and the
\* failures tell one story: a job is completed exactly when it has a result, of its
\* last attempt, and the attempts with a failure record are those that failed.
THEOREM RecordsAgreeWithQueue == ExecutionSpec => []RenderLedgerAgrees
<1>1. ExecutionInv => RenderLedgerAgrees
  <2> SUFFICES ASSUME ExecutionInv, NEW j \in Job
               PROVE  /\ job[j].state = "completed" <=> result[j] # 0
                      /\ result[j] # 0 => /\ result[j] = job[j].attemptCount
                                          /\ attempt[j][result[j]] = "completed"
                      /\ \A n \in Token : n \in failure[j] <=> attempt[j][n] \in {"failed", "retrying"}
    BY DEF RenderLedgerAgrees
  <2>1. /\ RowSound(job[j], attempt[j]) /\ job[j].attemptCount \in 0..MaxAttempts
        /\ result[j] \in 0..MaxAttempts
    BY DEF ExecutionInv, QueueInv, LedgerInv, IInv, TypeOK, JobRow, ExecutionTypeOK
  <2>2. result[j] # 0 => result[j] \in Token
    BY <2>1 DEF Token
  <2>3. job[j].state = "completed" => job[j].attemptCount \in Token
    BY <2>1 DEF Token, RowSound, RowAgrees
  <2>4. \A n \in Token : /\ attempt[j][n] = "completed" <=> result[j] = n
                         /\ attempt[j][n] \in {"failed", "retrying"} <=> n \in failure[j]
    BY DEF ExecutionInv, RecordsAreAttempts
  <2>5. job[j].state = "completed" => result[j] # 0
    BY <2>1, <2>3, <2>4, MaxAttemptsAssumption DEF RowSound, RowAgrees, Token
  <2>6. result[j] # 0 => /\ attempt[j][result[j]] = "completed"
                         /\ result[j] = job[j].attemptCount /\ job[j].state = "completed"
    BY <2>1, <2>2, <2>4 DEF RowSound, RowAgrees, TerminalStates
  <2>7. QED
    BY <2>4, <2>5, <2>6
<1>2. QED
  BY <1>1, InitExecution, StepExecution, PTL DEF ExecutionSpec

\* Artifact first: whatever crashes between the file and the database, a committed
\* result has its page on disk.
THEOREM ArtifactIsFirst == ExecutionSpec => []CommittedPageIsOnDisk
<1>1. ExecutionInv => CommittedPageIsOnDisk
  BY DEF ExecutionInv
<1>2. QED
  BY <1>1, InitExecution, StepExecution, PTL DEF ExecutionSpec

\* A success has a durable result behind it, and an error has none of its own, also
\* when a commit that took effect reported that it had failed, unless the results could
\* not be read either.
THEOREM NoAnswerLies == ExecutionSpec => []AnswersAreTrue
<1>1. ExecutionInv => AnswersAreTrue
  BY DEF ExecutionInv, StagesAreTrue, Unowned, Unanswered, AnswersAreTrue
<1>2. QED
  BY <1>1, InitExecution, StepExecution, PTL DEF ExecutionSpec

\* A committed result is never replaced: its job is completed, so no later commit
\* owns it.
THEOREM ResultStays == ExecutionSpec => ResultIsImmutable
<1>1. ExecutionInv /\ [ExecutionNext]_allVars =>
        [\A j \in Job : result[j] # 0 => result'[j] = result[j]]_allVars
  <2> SUFFICES ASSUME ExecutionInv, [ExecutionNext]_allVars, NEW j \in Job, result[j] # 0
               PROVE  result'[j] = result[j]
    OBVIOUS
  <2>1. result[j] \in Token
    BY DEF ExecutionInv, ExecutionTypeOK, Token
  <2>2. ASSUME NEW c \in claim, WritesResult(c)
        PROVE  c.jobId # j
    BY <2>1, <2>2, OwnerIsOpen DEF ExecutionInv, WritesResult, Complete
  <2>3. ASSUME NEW c \in claim, WritesResult(c)
        PROVE  result'[j] = result[j]
    BY <2>2, <2>3 DEF WritesResult, ExecutionInv, ExecutionTypeOK
  <2>4. QED
    BY <2>3, StepKinds DEF ExecutionInv, WritesFailure
<1>2. QED
  BY <1>1, InitExecution, StepExecution, PTL DEF ExecutionSpec, ResultIsImmutable

\* Renders, interactions and crashes implement FencedJob: the commit of a render,
\* its failure record and its pause, which write the queue's tables themselves, are
\* steps of a holder.
THEOREM ExecutionKeepsFencedJob == ExecutionSpec => ExecutionImplementsFencedJob
<1>1. ExecutionInv /\ [ExecutionNext]_allVars => [Fenced!Next]_(Fenced!vars)
  <2> SUFFICES ASSUME ExecutionInv, [ExecutionNext]_allVars, NEW j \in Job
               PROVE  Fenced!Step(j)
    BY DEF Fenced!Next
  <2>1. QueueKept /\ QueueInv' /\ QueueInv
    BY StepKeepsQueue DEF ExecutionInv
  <2>2. Moves(job[j], attempt[j], job'[j], attempt'[j]) /\ Guarded(j)
    BY <2>1 DEF QueueKept, EveryRowMoves, EveryJobGuarded
  <2>3. TypeOK /\ TypeOK' /\ LedgerInv /\ LedgerInv' /\ ClaimsAreLeased
    BY <2>1 DEF QueueInv, IInv
  <2>4. QED
    BY <2>2, <2>3, RowImplements
<1>2. ExecutionInit => Fenced!Init
  BY InitImplements DEF ExecutionInit
<1>3. QED
  BY <1>1, <1>2, InitExecution, StepExecution, PTL
  DEF ExecutionSpec, ExecutionImplementsFencedJob, Fenced!Spec

-----------------------------------------------------------------------------
(***************************************************************************)
(* What is proved of the queue holds of the application's use of it.       *)
(***************************************************************************)
\* Owners and attempts: however renders, interactions and crashes write the queue's
\* tables, one Lease is active, it is the current one, generations order the owners,
\* and the ledger of attempts has no gap and no second open entry.
THEOREM ExecutionKeepsOwnership ==
  ExecutionSpec =>
    [](OneActiveLease /\ ActiveLeaseIsCurrent /\ GenerationsOrderOwners /\ AttemptLedgerAgrees)
<1>1. ExecutionInv =>
        OneActiveLease /\ ActiveLeaseIsCurrent /\ GenerationsOrderOwners /\ AttemptLedgerAgrees
  <2> SUFFICES ASSUME ExecutionInv
               PROVE  OneActiveLease /\ ActiveLeaseIsCurrent /\ GenerationsOrderOwners /\ AttemptLedgerAgrees
    OBVIOUS
  <2>1. LeaseInv /\ LedgerInv
    BY DEF ExecutionInv, QueueInv, IInv
  <2>2. AttemptLedgerAgrees
    BY <2>1
    DEF LedgerInv, RowSound, RowAgrees, AttemptLedgerAgrees, LedgerAgrees, LogicalJobState, Shown
  <2>3. OneActiveLease
    BY <2>1
    DEF LeaseInv, OneActiveLease, GenerationsOrderOwners, ActiveLeaseIsCurrent, ActiveLeases
  <2>4. QED
    BY <2>1, <2>2, <2>3 DEF LeaseInv
<1>2. QED
  BY <1>1, InitExecution, StepExecution, PTL DEF ExecutionSpec

\* Fencing: a render's commit, its failure record, its pause and the end of an
\* interaction close an attempt only under the owner's live Lease, and recovery takes
\* one back only from a Lease that is out, when it judges by the present time.
THEOREM ExecutionOutcomesNeedALease ==
  ASSUME ~FutureEvaluation
  PROVE  ExecutionSpec => OutcomesAreFenced
<1>1. ExecutionInv /\ [ExecutionNext]_allVars =>
        [\A j \in Job, n \in Token :
           attempt[j][n] = "processing" =>
             /\ attempt'[j][n] \in {"completed", "failed", "retrying", "skipped", "blocked"}
                  => LiveOwner(j, n)
             /\ attempt'[j][n] = "interrupted"
                  => \A l \in ActiveLease(j) : l.expiresAt = "past"]_vars
  BY StepKeepsQueue
  DEF ExecutionInv, QueueKept, EveryJobGuarded, Guarded, ClosedByOwner, OwnerWords
<1>2. QED
  BY <1>1, InitExecution, StepExecution, PTL DEF ExecutionSpec, OutcomesAreFenced

LEMMA StepExecutionPause ==
  ASSUME LoginOnly
  PROVE  ExecutionInv /\ PauseInv /\ [ExecutionNext]_allVars => PauseInv'
<1> SUFFICES ASSUME ExecutionInv, PauseInv, [ExecutionNext]_allVars PROVE PauseInv'
  OBVIOUS
<1>1. IInv /\ TypeOK /\ TypeOK'
  BY StepKeepsQueue DEF ExecutionInv, QueueInv, IInv
<1>2. CASE QuietQueue
  <2>1. [Next]_vars
    BY <1>2 DEF QuietQueue, Next, Queue, Upkeep
  <2>2. QED
    BY <1>1, <2>1, StepPause
<1>3. ASSUME NEW c \in claim, WritesResult(c)
      PROVE  PauseInv'
  BY <1>1, <1>3, HeldKeepsPause DEF WritesResult, Held
<1>4. ASSUME NEW c \in claim, WritesFailure(c)
      PROVE  PauseInv'
  <2>1. PICK target \in {"retrying", "failed"} : FailsNow(c, target)
    BY <1>4 DEF WritesFailure
  <2> DEFINE bare == Unclaimed(job[c.jobId], target)
             row == [bare EXCEPT !.nextEligibleAt = "past"]
  <2>2. target \in PhysicalJobStates /\ job[c.jobId] \in JobRow
    BY <1>1 DEF PhysicalJobStates, TypeOK, LeaseClaim
  <2>3. bare \in JobRow
    BY <2>2, UnclaimedType
  <2>4. bare.recoveryState = "none"
    BY <2>2, UnclaimedRow
  <2>5. Finish(c, target, row)
    BY <2>1 DEF FailsNow
  <2> HIDE DEF bare
  <2>6. row.recoveryState = "none"
    BY <2>3, <2>4 DEF JobRow
  <2> HIDE DEF row
  <2>7. QED
    BY <1>1, <2>5, <2>6, FinishKeepsPause
<1>5. QED
  BY <1>2, <1>3, <1>4, StepKinds DEF ExecutionInv

\* The pause: with the application's own writes among the steps, a paused Run has no
\* owner at work, and a Run that is open for claims has no job left in the overlay.
THEOREM ExecutionPausesWhole ==
  ASSUME LoginOnly
  PROVE  ExecutionSpec => [](PausedRunHasNoOwner /\ NoStrandedPause)
<1>1. PauseInv => PausedRunHasNoOwner /\ NoStrandedPause
  BY DEF PauseInv
<1>2. ExecutionInit => PauseInv
  BY InitPause DEF ExecutionInit
<1>3. QED
  BY <1>1, <1>2, InitExecution, StepExecution, StepExecutionPause, PTL DEF ExecutionSpec
=============================================================================
