--------------------------- MODULE PageQueueProofs ---------------------------
(***************************************************************************)
(* Theorems about PageQueue, for every set of jobs and owners, every       *)
(* attempt limit and every choice of the flags: Leases and their order,    *)
(* the ledger of attempts, and the pause protocol.                         *)
(***************************************************************************)
EXTENDS PageQueue, TLAPS

-----------------------------------------------------------------------------
(***************************************************************************)
(* The inductive invariant.  A Lease is inserted with the next generation  *)
(* and the next attempt of its row; that both counters bound every Lease   *)
(* is what makes the new Lease the newest one.                             *)
(***************************************************************************)
GenerationsBelowAttempts ==
  \A j \in Job : job[j].fencingGeneration <= job[j].attemptCount

LeasesBelowRow ==
  \A l \in lease : /\ l.fencingGeneration <= job[l.jobId].fencingGeneration
                   /\ l.token <= job[l.jobId].attemptCount

LeaseInv ==
  /\ GenerationsBelowAttempts
  /\ LeasesBelowRow
  /\ GenerationsOrderOwners
  /\ ActiveLeaseIsCurrent

IInv == TypeOK /\ LeaseInv

-----------------------------------------------------------------------------
(***************************************************************************)
(* The rows an operation writes are rows.                                  *)
(***************************************************************************)
LEMMA TransitionFacts ==
  /\ TerminalStates \subseteq PhysicalJobStates
  /\ \A s \in CrawlRunStates : ControlFor(s) \in RunControlStates
BY DEF TerminalStates, PhysicalJobStates, CrawlRunStates, ControlFor, RunControlStates

LEMMA UnclaimedType ==
  ASSUME NEW row \in JobRow, NEW s \in PhysicalJobStates
  PROVE  Unclaimed(row, s) \in JobRow
<1> DEFINE moved == [row EXCEPT !.state = s]
           bare == [moved EXCEPT !.recoveryState = "none"]
<1>1. moved \in JobRow
  BY DEF JobRow
<1>2. bare \in JobRow
  <2> HIDE DEF moved
  <2>1. "none" \in RecoveryStates
    BY DEF RecoveryStates
  <2>2. QED
    BY <1>1, <2>1 DEF JobRow
<1>3. [bare EXCEPT !.claimToken = NoToken] \in JobRow
  <2> HIDE DEF bare
  <2>1. QED
    BY <1>2, MaxAttemptsAssumption DEF JobRow, NoToken
<1>4. QED
  BY <1>3 DEF Unclaimed

LEMMA CloseType ==
  ASSUME NEW outcomes \in [Token -> AttemptOutcomes], NEW t, NEW s \in AttemptOutcomes
  PROVE  Close(outcomes, t, s) \in [Token -> AttemptOutcomes]
BY DEF Close

LEMMA EndLeasesType ==
  ASSUME TypeOK, NEW S, NEW s \in {"active", "released", "recovered"}
  PROVE  EndLeases(S, s) \subseteq LeaseRow
BY DEF TypeOK, EndLeases, LeaseRow

LEMMA FinishType ==
  ASSUME TypeOK, NEW c \in claim, NEW s \in AttemptOutcomes, NEW row \in JobRow,
         Finish(c, s, row)
  PROVE  TypeOK'
<1>1. c.jobId \in Job
  BY DEF TypeOK, LeaseClaim
<1>2. job' \in [Job -> JobRow]
  BY <1>1 DEF TypeOK, Finish
<1>3. attempt' \in [Job -> [Token -> AttemptOutcomes]]
  <2>1. Close(attempt[c.jobId], c.token, s) \in [Token -> AttemptOutcomes]
    BY <1>1, CloseType DEF TypeOK
  <2>2. QED
    BY <1>1, <2>1 DEF TypeOK, Finish
<1>4. lease' \subseteq LeaseRow
  BY EndLeasesType DEF TypeOK, Finish
<1>5. QED
  BY <1>2, <1>3, <1>4 DEF TypeOK, Finish

LEMMA ClaimNextType ==
  ASSUME TypeOK, NEW o \in Owner, ClaimNext(o)
  PROVE  TypeOK'
<1>1. PICK j \in QueueHead :
        LET n == job[j].attemptCount + 1 IN
        /\ AttemptsLeft(j)
        /\ job' = [job EXCEPT ![j].state = "processing", ![j].claimToken = n,
                              ![j].attemptCount = n]
        /\ attempt' = [attempt EXCEPT ![j][n] = "processing"]
        /\ claim' = claim \cup {[owner |-> o, jobId |-> j, token |-> n,
                                 fencingGeneration |-> job[j].fencingGeneration]}
  BY DEF ClaimNext
<1> DEFINE n == job[j].attemptCount + 1
<1>2. j \in Job /\ job[j] \in JobRow
  BY DEF TypeOK, QueueHead, Claimable
<1>3. n \in Token /\ n \in 0..MaxAttempts
  BY <1>1, <1>2, MaxAttemptsAssumption DEF Token, JobRow, AttemptsLeft
<1>4. job' \in [Job -> JobRow]
  BY <1>1, <1>2, <1>3 DEF TypeOK, JobRow, PhysicalJobStates
<1>5. attempt' \in [Job -> [Token -> AttemptOutcomes]]
  BY <1>1, <1>2, <1>3 DEF TypeOK, AttemptOutcomes
<1>6. claim' \subseteq LeaseClaim
  BY <1>1, <1>2, <1>3 DEF TypeOK, LeaseClaim, JobRow
<1>7. QED
  BY <1>4, <1>5, <1>6 DEF TypeOK, ClaimNext

LEMMA GrantLeaseType ==
  ASSUME TypeOK, GenerationsBelowAttempts, NEW o \in Owner, NEW k, NEW j \in Job,
         GrantLease(o, k, j)
  PROVE  TypeOK'
<1> DEFINE n == job[j].attemptCount + 1
           g == NextGeneration(j)
<1>1. job[j] \in JobRow /\ job[j].attemptCount < MaxAttempts
  BY DEF TypeOK, GrantLease, AttemptsLeft
<1>2. n \in Token /\ n \in 0..MaxAttempts /\ g \in Generation /\ g \in 0..MaxAttempts
  BY <1>1, MaxAttemptsAssumption DEF Token, Generation, JobRow, GenerationsBelowAttempts, NextGeneration
<1>3. job' \in [Job -> JobRow]
  BY <1>1, <1>2 DEF TypeOK, GrantLease, JobRow, PhysicalJobStates, RecoveryStates
<1>4. attempt' \in [Job -> [Token -> AttemptOutcomes]]
  BY <1>2 DEF TypeOK, GrantLease, AttemptOutcomes
<1>5. [jobId |-> j, fencingGeneration |-> g, ownerId |-> o, token |-> n,
       status |-> "active", expiresAt |-> "ahead"] \in LeaseRow
  BY <1>2 DEF LeaseRow, Instant
<1>9. lease' \subseteq LeaseRow
  BY <1>5 DEF TypeOK, GrantLease
<1>6. claim' \subseteq LeaseClaim
  BY <1>2 DEF TypeOK, GrantLease, LeaseClaim
<1>7. claimOp' \in [Key -> ClaimOperation \cup {Unused}]
  BY DEF TypeOK, GrantLease, ClaimOperation
<1>8. QED
  BY <1>3, <1>4, <1>9, <1>6, <1>7 DEF TypeOK, GrantLease

-----------------------------------------------------------------------------
(***************************************************************************)
(* Every action keeps the types.                                           *)
(***************************************************************************)
LEMMA QueueType ==
  ASSUME TypeOK, Queue
  PROVE  TypeOK'
<1>1. ASSUME NEW j \in Job, Enqueue(j) \/ ScheduleRetry(j) \/ BecomeDue(j)
      PROVE  TypeOK'
  <2>1. job' \in [Job -> JobRow]
    <3>1. \A t \in Instant : [job[j] EXCEPT !.nextEligibleAt = t] \in JobRow
      BY DEF TypeOK, JobRow
    <3>2. [job[j] EXCEPT !.state = "pending"] \in JobRow
      BY DEF TypeOK, JobRow, PhysicalJobStates
    <3>3. [[job[j] EXCEPT !.state = "pending"] EXCEPT !.nextEligibleAt = "past"] \in JobRow
      BY <3>2 DEF JobRow, Instant
    <3>4. QED
      BY <1>1, <3>1, <3>3 DEF TypeOK, Enqueue, ScheduleRetry, BecomeDue, Instant
  <2>2. QED
    BY <1>1, <2>1 DEF TypeOK, Enqueue, ScheduleRetry, BecomeDue
<1>2. ASSUME NEW j \in Job, NEW target \in {"skipped", "blocked"}, DropPending(j, target)
      PROVE  TypeOK'
  <2>1. Unclaimed(job[j], target) \in JobRow
    BY <1>2, UnclaimedType DEF TypeOK, PhysicalJobStates
  <2>2. QED
    BY <1>2, <2>1 DEF TypeOK, DropPending
<1>3. CASE ClearPending
  <2>1. \A j \in Job : [job[j] EXCEPT !.state = "skipped"] \in JobRow
    BY DEF TypeOK, JobRow, PhysicalJobStates
  <2>2. QED
    BY <1>3, <2>1 DEF TypeOK, ClearPending
<1>4. ASSUME NEW S \in SUBSET Job, ReleaseDueRetries(S)
      PROVE  TypeOK'
  <2>1. \A j \in Job : [job[j] EXCEPT !.state = "pending"] \in JobRow
    BY DEF TypeOK, JobRow, PhysicalJobStates
  <2>2. QED
    BY <1>4, <2>1 DEF TypeOK, ReleaseDueRetries
<1>5. QED
  BY <1>1, <1>2, <1>3, <1>4, ClaimNextType DEF Queue

LEMMA ClaimType ==
  ASSUME TypeOK, GenerationsBelowAttempts, Claim
  PROVE  TypeOK'
<1>1. ASSUME NEW o \in Owner, NEW k \in Key \cup {NoKey}, ClaimNextWithLease(o, k)
      PROVE  TypeOK'
  BY <1>1, GrantLeaseType DEF ClaimNextWithLease, QueueHead, Claimable
<1>2. ASSUME NEW o \in Owner, NEW k \in Key \cup {NoKey}, ClaimNothing(o, k)
      PROVE  TypeOK'
  BY <1>2 DEF TypeOK, ClaimNothing, ClaimOperation
<1>3. ASSUME NEW o \in Owner, NEW k \in Key \cup {NoKey}, NEW j \in Job,
             ClaimJobWithLease(o, k, j)
      PROVE  TypeOK'
  BY <1>3, GrantLeaseType DEF ClaimJobWithLease
<1>4. ASSUME NEW k \in Key, ReplayClaim(k)
      PROVE  TypeOK'
  <2>1. claimOp[k] \in ClaimOperation /\ claimOp[k].result \in Job
    BY <1>4, NullAssumption DEF TypeOK, ReplayClaim, Unused
  <2>2. claim' \subseteq LeaseClaim
    <3>1. PICK l \in ActiveLease(claimOp[k].result) :
            claim' = claim \cup {[owner |-> claimOp[k].owner, jobId |-> claimOp[k].result,
                                  token |-> l.token, fencingGeneration |-> l.fencingGeneration]}
      BY <1>4 DEF ReplayClaim
    <3>2. l.token \in Token /\ l.fencingGeneration \in 0..MaxAttempts
      BY MaxAttemptsAssumption DEF TypeOK, ActiveLease, ActiveLeases, LeaseRow, Generation
    <3>3. QED
      BY <2>1, <3>1, <3>2 DEF TypeOK, LeaseClaim, ClaimOperation
  <2>3. QED
    BY <1>4, <2>2 DEF TypeOK, ReplayClaim
<1>5. QED
  BY <1>1, <1>2, <1>3, <1>4 DEF Claim

LEMMA HeldType ==
  ASSUME TypeOK, Held
  PROVE  TypeOK'
<1>1. \A c \in claim : c.jobId \in Job /\ job[c.jobId] \in JobRow
                       /\ c.fencingGeneration \in 0..MaxAttempts
  BY DEF TypeOK, LeaseClaim
<1>2. ASSUME NEW c \in claim, NEW s \in {"completed", "skipped", "blocked"},
             Finish(c, s, Unclaimed(job[c.jobId], s))
      PROVE  TypeOK'
  <2>1. Unclaimed(job[c.jobId], s) \in JobRow
    BY <1>1, UnclaimedType DEF PhysicalJobStates
  <2>2. QED
    BY <1>2, <2>1, FinishType DEF AttemptOutcomes
<1>3. ASSUME NEW c \in claim, NEW retryable, Fail(c, retryable)
      PROVE  TypeOK'
  <2>1. PICK target \in {"retrying", "failed"} :
          Finish(c, target, [Unclaimed(job[c.jobId], target) EXCEPT !.nextEligibleAt = "ahead"])
    BY <1>3 DEF Fail
  <2>2. Unclaimed(job[c.jobId], target) \in JobRow
    BY <1>1, UnclaimedType DEF PhysicalJobStates
  <2>3. [Unclaimed(job[c.jobId], target) EXCEPT !.nextEligibleAt = "ahead"] \in JobRow
    BY <2>2 DEF JobRow, Instant
  <2>4. QED
    BY <2>1, <2>3, FinishType DEF AttemptOutcomes
<1>4. ASSUME NEW c \in claim, ReleaseLease(c)
      PROVE  TypeOK'
  BY <1>4, EndLeasesType DEF TypeOK, ReleaseLease
<1>5. ASSUME NEW c \in claim, SaveCheckpoint(c)
      PROVE  TypeOK'
  BY <1>1, <1>5 DEF TypeOK, SaveCheckpoint
<1>6. ASSUME NEW c \in claim, AcknowledgePause(c)
      PROVE  TypeOK'
  <2>1. checkpoint' \in [Job -> 0..MaxAttempts]
    BY <1>1, <1>6 DEF TypeOK, AcknowledgePause
  <2>2. lease' \subseteq LeaseRow
    BY <1>6, EndLeasesType DEF AcknowledgePause
  <2>3. attempt' \in [Job -> [Token -> AttemptOutcomes]]
    <3>1. Close(attempt[c.jobId], c.token, "paused") \in [Token -> AttemptOutcomes]
      BY <1>1, CloseType DEF TypeOK, AttemptOutcomes
    <3>2. QED
      BY <1>6, <3>1 DEF TypeOK, AcknowledgePause
  <2>4. job' \in [Job -> JobRow]
    <3>1. [job[c.jobId] EXCEPT !.recoveryState = "paused"] \in JobRow
      BY <1>1 DEF JobRow, RecoveryStates
    <3>2. QED
      BY <1>6, <3>1 DEF TypeOK, AcknowledgePause
  <2>5. control' \in RunControlStates /\ runState' \in CrawlRunStates
    BY <1>6 DEF TypeOK, AcknowledgePause, RunControlStates, CrawlRunStates
  <2>6. QED
    BY <1>6, <2>1, <2>2, <2>3, <2>4, <2>5 DEF TypeOK, AcknowledgePause
<1>7. ASSUME NEW l \in lease, Expire(l)
      PROVE  TypeOK'
  <2>1. [l EXCEPT !.expiresAt = "past"] \in LeaseRow
    BY <1>7 DEF TypeOK, LeaseRow, Instant
  <2>2. QED
    BY <1>7, <2>1 DEF TypeOK, Expire
<1>8. QED
  BY <1>2, <1>3, <1>4, <1>5, <1>6, <1>7 DEF Held, Complete, FinishAs

LEMMA RunOperationType ==
  ASSUME TypeOK, RunOperation
  PROVE  TypeOK'
<1>1. ASSUME NEW S \in SUBSET Job, Recover(S)
      PROVE  TypeOK'
  <2>1. lease' \subseteq LeaseRow
    BY <1>1, EndLeasesType DEF Recover
  <2>2. attempt' \in [Job -> [Token -> AttemptOutcomes]]
    <3>1. \A j \in Job, s \in {"paused", "interrupted"} :
            Close(attempt[j], job[j].claimToken, s) \in [Token -> AttemptOutcomes]
      BY CloseType DEF TypeOK, AttemptOutcomes
    <3>2. QED
      BY <1>1, <3>1 DEF TypeOK, Recover
  <2>3. job' \in [Job -> JobRow]
    <3>1. \A j \in Job : [job[j] EXCEPT !.recoveryState = "paused"] \in JobRow
      BY DEF TypeOK, JobRow, RecoveryStates
    <3>2. \A j \in Job, s \in {"pending", "failed"} : Unclaimed(job[j], s) \in JobRow
      BY UnclaimedType DEF TypeOK, PhysicalJobStates
    <3>3. \A j \in Job : job'[j] \in {job[j], [job[j] EXCEPT !.recoveryState = "paused"],
                                     Unclaimed(job[j], "pending"), Unclaimed(job[j], "failed")}
      BY <1>1 DEF Recover
    <3>4. \A j \in Job : job'[j] \in JobRow
      BY <3>1, <3>2, <3>3 DEF TypeOK
    <3>5. QED
      BY <1>1, <3>4 DEF Recover
  <2>4. control' \in RunControlStates
    BY <1>1 DEF TypeOK, Recover, ControlAfterRecovery, RunControlStates
  <2>5. QED
    BY <1>1, <2>1, <2>2, <2>3, <2>4 DEF TypeOK, Recover
<1>2. CASE RequestPause
  BY <1>2, TransitionFacts DEF TypeOK, RequestPause, CrawlRunStates
<1>3. CASE ResumeRun
  <2>1. \A j \in Job : Unclaimed(job[j], "pending") \in JobRow
    BY UnclaimedType DEF TypeOK, PhysicalJobStates
  <2>2. job' \in [Job -> JobRow]
    BY <1>3, <2>1 DEF TypeOK, ResumeRun
  <2>3. QED
    BY <1>3, <2>2 DEF TypeOK, ResumeRun, RunControlStates, CrawlRunStates
<1>4. ASSUME NEW r \in RunStateRequests, SetRunState(r[1], r[2])
      PROVE  TypeOK'
  <2>1. r[2] \in CrawlRunStates
    BY RequestAssumption
  <2>2. QED
    BY <1>4, <2>1, TransitionFacts DEF TypeOK, SetRunState
<1>5. QED
  BY <1>1, <1>2, <1>3, <1>4 DEF RunOperation

LEMMA TypeStep ==
  ASSUME TypeOK, GenerationsBelowAttempts, [Next]_vars
  PROVE  TypeOK'
<1>1. CASE UNCHANGED vars
  BY <1>1 DEF TypeOK, vars
<1>2. QED
  BY <1>1, QueueType, ClaimType, HeldType, RunOperationType DEF Next

-----------------------------------------------------------------------------
(***************************************************************************)
(* The Leases and the rows they speak for.                                 *)
(***************************************************************************)
LEMMA LeasedRow ==
  ASSUME IInv, NEW j \in Job, ActiveLease(j) # {}
  PROVE  /\ job[j].state = "processing" /\ job[j].recoveryState = "none"
         /\ job[j].fencingGeneration > 0
<1>1. PICK l \in ActiveLeases : l.jobId = j
  BY DEF ActiveLease
<1>2. l \in lease /\ l \in LeaseRow /\ job[j] \in JobRow
  BY DEF IInv, TypeOK, ActiveLeases
<1>3. LogicalState(job[j].state, job[j].recoveryState) = "processing"
  BY <1>1 DEF IInv, LeaseInv, ActiveLeaseIsCurrent, LogicalJobState
<1>4. job[j].recoveryState \in {"none", "interrupted", "paused"}
  BY <1>2 DEF JobRow, RecoveryStates
<1>5. l.fencingGeneration \in Generation /\ job[j].fencingGeneration \in 0..MaxAttempts
  BY <1>2 DEF LeaseRow, JobRow
<1>6. l.fencingGeneration <= job[j].fencingGeneration
  BY <1>1, <1>2 DEF IInv, LeaseInv, LeasesBelowRow
<1>7. QED
  BY <1>3, <1>4, <1>5, <1>6, MaxAttemptsAssumption DEF LogicalState, Generation

\* The Leases of some jobs end, and every row that changes is one of theirs or
\* had no active Lease.
LEMMA EndingStep ==
  ASSUME IInv, NEW S, NEW s \in {"released", "recovered"},
         lease' = EndLeases(S, s),
         \A j \in Job : /\ job'[j].fencingGeneration = job[j].fencingGeneration
                        /\ job[j].attemptCount <= job'[j].attemptCount
                        /\ job'[j] # job[j] => j \in S \/ ActiveLease(j) = {},
         TypeOK'
  PROVE  LeaseInv'
<1> USE DEF IInv
<1>1. ASSUME NEW k \in lease'
      PROVE  \E l \in lease : /\ k.jobId = l.jobId /\ k.token = l.token
                              /\ k.fencingGeneration = l.fencingGeneration
                              /\ k.status = "active" => l.status = "active" /\ l.jobId \notin S
                              /\ k = IF l.jobId \in S /\ l.status = "active"
                                     THEN [l EXCEPT !.status = s] ELSE l
  <2>1. PICK l \in lease : k = IF l.jobId \in S /\ l.status = "active"
                               THEN [l EXCEPT !.status = s] ELSE l
    BY DEF EndLeases
  <2>2. l \in LeaseRow
    BY DEF TypeOK
  <2>3. QED
    BY <2>1, <2>2 DEF LeaseRow
<1>2. \A l \in lease : /\ l.jobId \in Job /\ l.token \in Nat /\ l.fencingGeneration \in Nat
  BY MaxAttemptsAssumption DEF TypeOK, LeaseRow, Token, Generation
<1>3. \A j \in Job : /\ job[j].attemptCount \in Nat /\ job'[j].attemptCount \in Nat
                     /\ job[j].fencingGeneration \in Nat
  BY DEF TypeOK, JobRow
<1>4. GenerationsBelowAttempts'
  BY <1>3 DEF LeaseInv, GenerationsBelowAttempts
<1>5. LeasesBelowRow'
  BY <1>1, <1>2, <1>3 DEF LeaseInv, LeasesBelowRow
<1>6. GenerationsOrderOwners'
  BY <1>1 DEF LeaseInv, GenerationsOrderOwners
<1>7. ActiveLeaseIsCurrent'
  <2> SUFFICES ASSUME NEW k \in lease', k.status = "active"
               PROVE  /\ LogicalJobState(k.jobId)' = "processing"
                      /\ job'[k.jobId].claimToken = k.token
                      /\ job'[k.jobId].fencingGeneration = k.fencingGeneration
    BY DEF ActiveLeaseIsCurrent, ActiveLeases
  <2>1. PICK l \in lease : /\ k.jobId = l.jobId /\ k.token = l.token
                           /\ k.fencingGeneration = l.fencingGeneration
                           /\ l.status = "active" /\ l.jobId \notin S
    BY <1>1
  <2>2. job'[l.jobId] = job[l.jobId]
    BY <1>2, <2>1 DEF ActiveLease, ActiveLeases
  <2>3. QED
    BY <2>1, <2>2 DEF LeaseInv, ActiveLeaseIsCurrent, ActiveLeases, LogicalJobState
<1>8. QED
  BY <1>4, <1>5, <1>6, <1>7 DEF LeaseInv

\* Nothing ends, and every row that changes had no active Lease.
LEMMA QuietStep ==
  ASSUME IInv, UNCHANGED lease,
         \A j \in Job : /\ job'[j].fencingGeneration = job[j].fencingGeneration
                        /\ job[j].attemptCount <= job'[j].attemptCount
                        /\ job'[j] # job[j] => ActiveLease(j) = {},
         TypeOK'
  PROVE  LeaseInv'
<1>1. lease' = EndLeases({}, "released")
  BY DEF EndLeases
<1>2. QED
  BY <1>1, EndingStep

LEMMA GrantStep ==
  ASSUME IInv, NEW o \in Owner, NEW k, NEW j \in Claimable, GrantLease(o, k, j), TypeOK'
  PROVE  LeaseInv'
<1> USE DEF IInv
<1> DEFINE n == job[j].attemptCount + 1
           g == NextGeneration(j)
           granted == [jobId |-> j, fencingGeneration |-> g, ownerId |-> o, token |-> n,
                       status |-> "active", expiresAt |-> "ahead"]
<1>1. j \in Job /\ job[j] \in JobRow /\ n \in Nat /\ g \in Nat
  BY DEF Claimable, TypeOK, JobRow, NextGeneration
<1>2. ActiveLease(j) = {}
  BY <1>1, LeasedRow DEF Claimable, LogicalJobState, LogicalState
<1>3. lease' = lease \cup {granted}
  BY DEF GrantLease
<1>4. \A l \in lease : /\ l.jobId \in Job /\ l.token \in Nat /\ l.fencingGeneration \in Nat
  BY MaxAttemptsAssumption DEF TypeOK, LeaseRow, Token, Generation
<1>5. \A i \in Job : /\ job[i].attemptCount \in Nat /\ job[i].fencingGeneration \in Nat
                     /\ i # j => job'[i] = job[i]
  BY DEF TypeOK, JobRow, GrantLease
<1>6. /\ job'[j].state = "processing" /\ job'[j].recoveryState = "none"
      /\ job'[j].claimToken = n /\ job'[j].attemptCount = n /\ job'[j].fencingGeneration = g
  BY <1>1 DEF GrantLease, TypeOK, JobRow
<1>7. \A l \in lease : l.jobId = j => l.fencingGeneration < g /\ l.token < n
  BY <1>1, <1>4 DEF LeaseInv, LeasesBelowRow, JobRow, NextGeneration
<1>8. GenerationsBelowAttempts'
  BY <1>1, <1>5, <1>6 DEF LeaseInv, GenerationsBelowAttempts, JobRow, NextGeneration
<1>9. LeasesBelowRow'
  BY <1>1, <1>3, <1>4, <1>5, <1>6, <1>7 DEF LeaseInv, LeasesBelowRow
<1>10. GenerationsOrderOwners'
  BY <1>1, <1>3, <1>4, <1>7 DEF LeaseInv, GenerationsOrderOwners
<1>11. ActiveLeaseIsCurrent'
  <2> SUFFICES ASSUME NEW l \in lease', l.status = "active"
               PROVE  /\ LogicalJobState(l.jobId)' = "processing"
                      /\ job'[l.jobId].claimToken = l.token
                      /\ job'[l.jobId].fencingGeneration = l.fencingGeneration
    BY DEF ActiveLeaseIsCurrent, ActiveLeases
  <2>1. CASE l = granted
    BY <2>1, <1>6 DEF LogicalJobState, LogicalState
  <2>2. CASE l \in lease
    <3>1. l.jobId \in Job /\ l.jobId # j
      BY <1>2, <1>4, <2>2 DEF ActiveLease, ActiveLeases
    <3>2. job'[l.jobId] = job[l.jobId]
      BY <1>5, <3>1
    <3>3. QED
      BY <2>2, <3>2 DEF LeaseInv, ActiveLeaseIsCurrent, ActiveLeases, LogicalJobState
  <2>3. QED
    BY <1>3, <2>1, <2>2
<1>12. QED
  BY <1>8, <1>9, <1>10, <1>11 DEF LeaseInv

LEMMA ExpireStep ==
  ASSUME IInv, NEW l \in lease, Expire(l), TypeOK'
  PROVE  LeaseInv'
<1> USE DEF IInv
<1> DEFINE out == [l EXCEPT !.expiresAt = "past"]
<1>1. l \in LeaseRow
  BY DEF TypeOK
<1>2. /\ out.jobId = l.jobId /\ out.fencingGeneration = l.fencingGeneration
      /\ out.token = l.token /\ out.status = l.status
  BY <1>1 DEF LeaseRow
<1>3. lease' = (lease \ {l}) \cup {out} /\ UNCHANGED job
  BY DEF Expire
<1> HIDE DEF out
<1>4. GenerationsBelowAttempts' /\ LeasesBelowRow'
  BY <1>2, <1>3 DEF LeaseInv, GenerationsBelowAttempts, LeasesBelowRow
<1>5. GenerationsOrderOwners'
  BY <1>2, <1>3 DEF LeaseInv, GenerationsOrderOwners
<1>6. ActiveLeaseIsCurrent'
  BY <1>2, <1>3 DEF LeaseInv, ActiveLeaseIsCurrent, ActiveLeases, LogicalJobState
<1>7. QED
  BY <1>4, <1>5, <1>6 DEF LeaseInv

LEMMA FinishStep ==
  ASSUME IInv, NEW c \in claim, NEW s, NEW row, Finish(c, s, row),
         row.fencingGeneration = job[c.jobId].fencingGeneration,
         row.attemptCount = job[c.jobId].attemptCount,
         TypeOK'
  PROVE  LeaseInv'
<1>1. c.jobId \in Job
  BY DEF IInv, TypeOK, LeaseClaim
<1>2. \A j \in Job : /\ job'[j].fencingGeneration = job[j].fencingGeneration
                     /\ job[j].attemptCount <= job'[j].attemptCount
                     /\ job'[j] # job[j] => j = c.jobId
  BY <1>1 DEF Finish, IInv, TypeOK, JobRow
<1>3. CASE job[c.jobId].fencingGeneration > 0
  BY <1>2, <1>3, EndingStep DEF Finish
<1>4. CASE ~(job[c.jobId].fencingGeneration > 0)
  <2>1. ActiveLease(c.jobId) = {}
    BY <1>1, <1>4, LeasedRow
  <2>2. QED
    BY <1>2, <1>4, <2>1, QuietStep DEF Finish
<1>5. QED
  BY <1>3, <1>4

\* Giving a claim back, or changing any other column, keeps both counters.
LEMMA CountersKept ==
  ASSUME NEW row \in JobRow, NEW s
  PROVE  /\ Unclaimed(row, s).fencingGeneration = row.fencingGeneration
         /\ Unclaimed(row, s).attemptCount = row.attemptCount
         /\ [Unclaimed(row, s) EXCEPT !.nextEligibleAt = "ahead"].fencingGeneration
              = row.fencingGeneration
         /\ [Unclaimed(row, s) EXCEPT !.nextEligibleAt = "ahead"].attemptCount
              = row.attemptCount
         /\ [row EXCEPT !.recoveryState = s].fencingGeneration = row.fencingGeneration
         /\ [row EXCEPT !.recoveryState = s].attemptCount = row.attemptCount
BY DEF Unclaimed, JobRow

LEMMA QueueStep ==
  ASSUME IInv, Queue, TypeOK'
  PROVE  LeaseInv'
<1>1. \A j \in Job : job[j] \in JobRow
  BY DEF IInv, TypeOK
<1>2. ASSUME NEW j \in Job, Enqueue(j) \/ ScheduleRetry(j) \/ BecomeDue(j)
      PROVE  LeaseInv'
  <2>1. ActiveLease(j) = {}
    BY <1>2, LeasedRow DEF Enqueue, ScheduleRetry, BecomeDue
  <2>2. \A i \in Job : /\ job'[i].fencingGeneration = job[i].fencingGeneration
                       /\ job[i].attemptCount <= job'[i].attemptCount
                       /\ job'[i] # job[i] => i = j
    <3>1. CASE Enqueue(j)
      BY <1>1, <3>1 DEF Enqueue, IInv, TypeOK, JobRow
    <3>2. CASE ScheduleRetry(j)
      BY <1>1, <3>2 DEF ScheduleRetry, IInv, TypeOK, JobRow
    <3>3. CASE BecomeDue(j)
      BY <1>1, <3>3 DEF BecomeDue, IInv, TypeOK, JobRow
    <3>4. QED
      BY <1>2, <3>1, <3>2, <3>3
  <2>3. QED
    BY <1>2, <2>1, <2>2, QuietStep DEF Enqueue, ScheduleRetry, BecomeDue
<1>3. ASSUME NEW j \in Job, NEW target \in {"skipped", "blocked"}, DropPending(j, target)
      PROVE  LeaseInv'
  <2>1. ActiveLease(j) = {}
    BY <1>3, LeasedRow DEF DropPending, LogicalJobState, LogicalState
  <2>2. \A i \in Job : /\ job'[i].fencingGeneration = job[i].fencingGeneration
                       /\ job[i].attemptCount <= job'[i].attemptCount
                       /\ job'[i] # job[i] => i = j
    BY <1>1, <1>3, CountersKept DEF DropPending, IInv, TypeOK, JobRow
  <2>3. QED
    BY <1>3, <2>1, <2>2, QuietStep DEF DropPending
<1>4. CASE ClearPending
  <2>1. \A i \in Job : /\ job'[i].fencingGeneration = job[i].fencingGeneration
                       /\ job[i].attemptCount <= job'[i].attemptCount
                       /\ job'[i] # job[i] => ActiveLease(i) = {}
    BY <1>1, <1>4, LeasedRow DEF ClearPending, JobRow
  <2>2. QED
    BY <1>4, <2>1, QuietStep DEF ClearPending
<1>5. ASSUME NEW S \in SUBSET Job, ReleaseDueRetries(S)
      PROVE  LeaseInv'
  <2>1. \A i \in Job : /\ job'[i].fencingGeneration = job[i].fencingGeneration
                       /\ job[i].attemptCount <= job'[i].attemptCount
                       /\ job'[i] # job[i] => ActiveLease(i) = {}
    BY <1>1, <1>5, LeasedRow DEF ReleaseDueRetries, JobRow
  <2>2. QED
    BY <1>5, <2>1, QuietStep DEF ReleaseDueRetries
<1>6. ASSUME NEW o \in Owner, ClaimNext(o)
      PROVE  LeaseInv'
  <2>1. PICK j \in QueueHead :
          job' = [job EXCEPT ![j].state = "processing", ![j].claimToken = job[j].attemptCount + 1,
                             ![j].attemptCount = job[j].attemptCount + 1]
    BY <1>6 DEF ClaimNext
  <2>2. j \in Job /\ ActiveLease(j) = {}
    BY LeasedRow DEF QueueHead, Claimable, LogicalJobState, LogicalState
  <2>3. \A i \in Job : /\ job'[i].fencingGeneration = job[i].fencingGeneration
                       /\ job[i].attemptCount <= job'[i].attemptCount
                       /\ job'[i] # job[i] => i = j
    BY <1>1, <2>1, <2>2 DEF IInv, TypeOK, JobRow
  <2>4. QED
    BY <1>6, <2>2, <2>3, QuietStep DEF ClaimNext
<1>7. QED
  BY <1>2, <1>3, <1>4, <1>5, <1>6 DEF Queue

LEMMA ClaimStep ==
  ASSUME IInv, Claim, TypeOK'
  PROVE  LeaseInv'
<1>1. \A j \in Job : job[j].attemptCount <= job[j].attemptCount
  BY DEF IInv, TypeOK, JobRow
<1>2. ASSUME NEW o \in Owner, NEW k \in Key \cup {NoKey},
             \/ ClaimNextWithLease(o, k)
             \/ \E j \in Job : ClaimJobWithLease(o, k, j)
      PROVE  LeaseInv'
  BY <1>2, GrantStep DEF ClaimNextWithLease, ClaimJobWithLease, QueueHead
<1>3. ASSUME NEW o \in Owner, NEW k \in Key \cup {NoKey}, ClaimNothing(o, k)
      PROVE  LeaseInv'
  BY <1>1, <1>3, QuietStep DEF ClaimNothing
<1>4. ASSUME NEW k \in Key, ReplayClaim(k)
      PROVE  LeaseInv'
  BY <1>1, <1>4, QuietStep DEF ReplayClaim
<1>5. QED
  BY <1>2, <1>3, <1>4 DEF Claim

LEMMA HeldStep ==
  ASSUME IInv, Held, TypeOK'
  PROVE  LeaseInv'
<1>1. \A c \in claim : c.jobId \in Job /\ job[c.jobId] \in JobRow
  BY DEF IInv, TypeOK, LeaseClaim
<1>2. \A j \in Job : job[j].attemptCount <= job[j].attemptCount
  BY DEF IInv, TypeOK, JobRow
<1>3. ASSUME NEW c \in claim, NEW s, Finish(c, s, Unclaimed(job[c.jobId], s))
      PROVE  LeaseInv'
  BY <1>1, <1>3, CountersKept, FinishStep
<1>4. ASSUME NEW c \in claim, NEW retryable, Fail(c, retryable)
      PROVE  LeaseInv'
  <2>1. PICK target :
          Finish(c, target, [Unclaimed(job[c.jobId], target) EXCEPT !.nextEligibleAt = "ahead"])
    BY <1>4 DEF Fail
  <2>2. QED
    BY <1>1, <2>1, CountersKept, FinishStep
<1>5. ASSUME NEW c \in claim, ReleaseLease(c)
      PROVE  LeaseInv'
  BY <1>2, <1>5, EndingStep DEF ReleaseLease
<1>6. ASSUME NEW c \in claim, SaveCheckpoint(c)
      PROVE  LeaseInv'
  BY <1>2, <1>6, QuietStep DEF SaveCheckpoint
<1>7. ASSUME NEW c \in claim, AcknowledgePause(c)
      PROVE  LeaseInv'
  <2>1. \A i \in Job : /\ job'[i].fencingGeneration = job[i].fencingGeneration
                       /\ job[i].attemptCount <= job'[i].attemptCount
                       /\ job'[i] # job[i] => i \in {c.jobId}
    BY <1>1, <1>2, <1>7, CountersKept DEF AcknowledgePause, IInv, TypeOK
  <2>2. QED
    BY <1>7, <2>1, EndingStep DEF AcknowledgePause
<1>8. QED
  BY <1>3, <1>4, <1>5, <1>6, <1>7, ExpireStep DEF Held, Complete, FinishAs

LEMMA RunOperationStep ==
  ASSUME IInv, RunOperation, TypeOK'
  PROVE  LeaseInv'
<1>1. \A j \in Job : job[j] \in JobRow /\ job[j].attemptCount <= job[j].attemptCount
  BY DEF IInv, TypeOK, JobRow
<1>2. ASSUME NEW S \in SUBSET Job, Recover(S)
      PROVE  LeaseInv'
  <2>1. \A j \in Job : /\ job'[j] \in {job[j], [job[j] EXCEPT !.recoveryState = "paused"],
                                       Unclaimed(job[j], "pending"), Unclaimed(job[j], "failed")}
                       /\ job'[j] # job[j] => j \in S
    BY <1>2 DEF Recover
  <2>2. \A j \in Job : /\ job'[j].fencingGeneration = job[j].fencingGeneration
                       /\ job[j].attemptCount <= job'[j].attemptCount
    <3> SUFFICES ASSUME NEW j \in Job
                 PROVE  /\ job'[j].fencingGeneration = job[j].fencingGeneration
                        /\ job'[j].attemptCount = job[j].attemptCount
      BY <1>1
    <3>1. job[j] \in JobRow
      BY <1>1
    <3>2. CASE job'[j] = job[j]
      BY <3>2
    <3>3. CASE job'[j] = [job[j] EXCEPT !.recoveryState = "paused"]
      BY <3>1, <3>3, CountersKept
    <3>4. CASE \E s \in {"pending", "failed"} : job'[j] = Unclaimed(job[j], s)
      BY <3>1, <3>4, CountersKept
    <3>5. QED
      BY <2>1, <3>2, <3>3, <3>4
  <2>3. lease' = EndLeases(S, "recovered")
    BY <1>2 DEF Recover
  <2>4. QED
    BY <2>1, <2>2, <2>3, EndingStep
<1>3. CASE RequestPause
  BY <1>1, <1>3, QuietStep DEF RequestPause
<1>4. CASE ResumeRun
  <2>1. \A j \in Job : /\ job'[j] \in {job[j], Unclaimed(job[j], "pending")}
                       /\ job'[j] # job[j] => LogicalJobState(j) \in {"paused", "interrupted"}
    BY <1>4 DEF ResumeRun, Resumable
  <2>2. \A j \in Job : /\ job'[j].fencingGeneration = job[j].fencingGeneration
                       /\ job[j].attemptCount <= job'[j].attemptCount
                       /\ job'[j] # job[j] => ActiveLease(j) = {}
    BY <1>1, <2>1, CountersKept, LeasedRow DEF LogicalJobState, LogicalState
  <2>3. QED
    BY <1>4, <2>2, QuietStep DEF ResumeRun
<1>5. ASSUME NEW r \in RunStateRequests, SetRunState(r[1], r[2])
      PROVE  LeaseInv'
  BY <1>1, <1>5, QuietStep DEF SetRunState
<1>6. QED
  BY <1>2, <1>3, <1>4, <1>5 DEF RunOperation

LEMMA LeaseStep ==
  ASSUME IInv, [Next]_vars, TypeOK'
  PROVE  LeaseInv'
<1>1. CASE UNCHANGED vars
  <2>1. \A j \in Job : job[j].attemptCount <= job[j].attemptCount
    BY DEF IInv, TypeOK, JobRow
  <2>2. QED
    BY <1>1, <2>1, QuietStep DEF vars
<1>2. QED
  BY <1>1, QueueStep, ClaimStep, HeldStep, RunOperationStep DEF Next

-----------------------------------------------------------------------------
(***************************************************************************)
(* The theorems.                                                           *)
(***************************************************************************)
LEMMA InitIInv == Init => IInv
<1> SUFFICES ASSUME Init PROVE IInv
  OBVIOUS
<1>1. \A j \in Job : /\ job[j].state = "absent" /\ job[j].fencingGeneration = 0
                     /\ job[j].attemptCount = 0 /\ job[j] \in JobRow
  BY MaxAttemptsAssumption
  DEF Init, JobRow, RecoveryStates, Instant, NoToken
<1>2. TypeOK
  BY <1>1, MaxAttemptsAssumption
  DEF Init, TypeOK, AttemptOutcomes, RunControlStates, CrawlRunStates
<1>3. LeaseInv
  BY <1>1 DEF Init, LeaseInv, GenerationsBelowAttempts, LeasesBelowRow,
              GenerationsOrderOwners, ActiveLeaseIsCurrent, ActiveLeases
<1>4. QED
  BY <1>2, <1>3 DEF IInv

LEMMA StepIInv == IInv /\ [Next]_vars => IInv'
<1> SUFFICES ASSUME IInv, [Next]_vars PROVE IInv'
  OBVIOUS
<1>1. TypeOK'
  BY TypeStep DEF IInv, LeaseInv
<1>2. LeaseInv'
  BY <1>1, LeaseStep
<1>3. QED
  BY <1>1, <1>2 DEF IInv

\* Every operation of the queue and of recovery keeps the types of the rows, the
\* bounds of the counters among them: a generation is never above the attempt
\* limit, because it grows only with an attempt.
THEOREM TypeCorrect == Spec => []TypeOK
<1>1. IInv => TypeOK
  BY DEF IInv
<1>2. QED
  BY <1>1, InitIInv, StepIInv, PTL DEF Spec

\* No interleaving of claims, replays, late reports, recoveries, pauses and
\* resumes leaves two active Leases on a job.
THEOREM MutualExclusion == Spec => []OneActiveLease
<1>1. IInv => OneActiveLease
  BY DEF IInv, LeaseInv, OneActiveLease, GenerationsOrderOwners, ActiveLeaseIsCurrent,
         ActiveLeases
<1>2. QED
  BY <1>1, InitIInv, StepIInv, PTL DEF Spec

\* An active Lease speaks for the row as it is: every operation that moves a job
\* out of "processing" ends the Lease in the same transaction.
THEOREM LeaseIsCurrent == Spec => []ActiveLeaseIsCurrent
<1>1. IInv => ActiveLeaseIsCurrent
  BY DEF IInv, LeaseInv
<1>2. QED
  BY <1>1, InitIInv, StepIInv, PTL DEF Spec

\* A later attempt always has the greater generation, so a stale owner cannot
\* look newer than the current one.
THEOREM FencingOrder == Spec => []GenerationsOrderOwners
<1>1. IInv => GenerationsOrderOwners
  BY DEF IInv, LeaseInv
<1>2. QED
  BY <1>1, InitIInv, StepIInv, PTL DEF Spec

-----------------------------------------------------------------------------
(***************************************************************************)
(* The attempt ledger: attempts are numbered without a gap, the open one   *)
(* is the one being processed, and a terminal job stays as it is.          *)
(***************************************************************************)

(***************************************************************************)
(* A row and its attempts.  To the ledger the invariant adds that a row in *)
(* processing carries the token of its last attempt, so that closing the   *)
(* attempt of a token closes the right one, and that an overlay lies only  *)
(* over processing, so that it hides no terminal state.                    *)
(***************************************************************************)
Shown(row) == LogicalState(row.state, row.recoveryState)

Outcomes == [Token -> AttemptOutcomes]

RowAgrees(row, outcomes) ==
  LET n == row.attemptCount IN
  /\ \A i \in Token : outcomes[i] = "none" <=> i > n
  /\ \A i \in Token : outcomes[i] = "processing" <=> i = n /\ Shown(row) = "processing"
  /\ \A i \in Token : outcomes[i] \in TerminalStates => i = n /\ row.state = outcomes[i]
  /\ row.state = "completed" => n > 0 /\ outcomes[n] = "completed"

RowSound(row, outcomes) ==
  /\ RowAgrees(row, outcomes)
  /\ row.recoveryState # "none" => row.state = "processing"
  /\ Shown(row) = "processing" => row.claimToken = row.attemptCount /\ row.attemptCount > 0

LedgerInv == \A j \in Job : RowSound(job[j], attempt[j])

(***************************************************************************)
(* What a step may do to a row and its attempts.                           *)
(***************************************************************************)
Rests(row, outcomes, row2, outcomes2) ==
  /\ outcomes2 = outcomes
  /\ row2.state = row.state /\ row2.recoveryState = row.recoveryState
  /\ row2.claimToken = row.claimToken /\ row2.attemptCount = row.attemptCount

Waits(row, outcomes, row2, outcomes2) ==
  /\ outcomes2 = outcomes
  /\ Shown(row) # "processing" /\ Shown(row) \notin TerminalStates
  /\ row2.recoveryState = "none"
  /\ row2.state = "pending" \/ (Shown(row) = "pending" /\ row2.state \in {"skipped", "blocked"})
  /\ row2.attemptCount = row.attemptCount

Opens(row, outcomes, row2, outcomes2) ==
  LET n == row.attemptCount + 1 IN
  /\ Shown(row) = "pending" /\ row.attemptCount < MaxAttempts
  /\ row2.state = "processing" /\ row2.recoveryState = "none"
  /\ row2.claimToken = n /\ row2.attemptCount = n
  /\ outcomes2 = [outcomes EXCEPT ![n] = "processing"]

\* What a caller that owns the job may report, and how the row then looks.
OwnerWords == {"completed", "failed", "retrying", "skipped", "blocked"}

EndsAs(row, s) ==
  \/ s \in OwnerWords /\ row.state = s /\ row.recoveryState = "none"
  \/ s = "paused" /\ row.state = "processing" /\ row.recoveryState = "paused"
  \/ s = "interrupted" /\ row.state \in {"pending", "failed"} /\ row.recoveryState = "none"

Closes(row, outcomes, row2, outcomes2) ==
  \E s \in AttemptOutcomes :
    /\ Shown(row) = "processing"
    /\ EndsAs(row2, s)
    /\ row2.attemptCount = row.attemptCount
    /\ outcomes2 = Close(outcomes, row.claimToken, s)

Moves(row, outcomes, row2, outcomes2) ==
  \/ Rests(row, outcomes, row2, outcomes2)
  \/ Waits(row, outcomes, row2, outcomes2)
  \/ Opens(row, outcomes, row2, outcomes2)
  \/ Closes(row, outcomes, row2, outcomes2)

EveryRowMoves == \A j \in Job : Moves(job[j], attempt[j], job'[j], attempt'[j])

-----------------------------------------------------------------------------
LEMMA ShownFacts ==
  ASSUME NEW row \in JobRow
  PROVE  /\ row.recoveryState = "none" => Shown(row) = row.state
         /\ row.recoveryState # "none" => Shown(row) \in {"interrupted", "paused"}
         /\ Shown(row) \in PhysicalJobStates \cup {"absent"} =>
              row.recoveryState = "none" /\ Shown(row) = row.state
BY DEF JobRow, RecoveryStates, PhysicalJobStates, Shown, LogicalState

LEMMA EndsAsFacts ==
  ASSUME NEW row \in JobRow, NEW s, EndsAs(row, s)
  PROVE  /\ s \notin {"none", "processing"}
         /\ Shown(row) # "processing"
         /\ row.recoveryState # "none" => row.state = "processing"
         /\ s = "completed" <=> row.state = "completed"
         /\ s \in TerminalStates => row.state = s
BY DEF EndsAs, OwnerWords, TerminalStates, Shown, LogicalState

LEMMA MoveKeepsSound ==
  ASSUME NEW row \in JobRow, NEW row2 \in JobRow, NEW outcomes \in Outcomes,
         NEW outcomes2 \in Outcomes,
         RowSound(row, outcomes), Moves(row, outcomes, row2, outcomes2)
  PROVE  RowSound(row2, outcomes2)
<1>1. row.attemptCount \in 0..MaxAttempts /\ row2.attemptCount \in 0..MaxAttempts
  BY DEF JobRow
<1>2. CASE Rests(row, outcomes, row2, outcomes2)
  BY <1>2 DEF Rests, RowSound, RowAgrees, Shown
<1>3. CASE Waits(row, outcomes, row2, outcomes2)
  <2>1. Shown(row2) # "processing" /\ row2.state # "completed" /\ Shown(row) # "processing"
    BY <1>3, ShownFacts DEF Waits
  <2>2. row.state \notin TerminalStates
    BY <1>3, ShownFacts DEF Waits, TerminalStates, RowSound
  <2>3. \A i \in Token : outcomes[i] \notin TerminalStates
    BY <2>2 DEF RowSound, RowAgrees
  <2>4. QED
    BY <1>3, <2>1, <2>3 DEF Waits, RowSound, RowAgrees
<1>4. CASE Opens(row, outcomes, row2, outcomes2)
  <2> DEFINE n == row.attemptCount + 1
  <2>1. n \in Token /\ row2.attemptCount = n /\ Shown(row2) = "processing"
    BY <1>1, <1>4, MaxAttemptsAssumption, ShownFacts DEF Opens, Token
  <2>2. outcomes2 = [outcomes EXCEPT ![n] = "processing"]
    BY <1>4 DEF Opens
  <2>3. Shown(row) = "pending" /\ row.state = "pending"
    BY <1>4, ShownFacts DEF Opens, PhysicalJobStates
  <2>4. \A i \in Token : outcomes2[i] = IF i = n THEN "processing" ELSE outcomes[i]
    BY <2>1, <2>2 DEF Outcomes
  <2>5. \A i \in Token : outcomes[i] # "processing" /\ outcomes[i] \notin TerminalStates
    BY <2>3 DEF RowSound, RowAgrees, TerminalStates
  <2>6. RowAgrees(row2, outcomes2)
    <3>1. \A i \in Token : outcomes2[i] = "none" <=> i > n
      BY <1>1, <2>1, <2>4 DEF RowSound, RowAgrees, Token
    <3>2. row2.state # "completed"
      BY <1>4 DEF Opens
    <3>3. QED
      BY <2>1, <2>4, <2>5, <3>1, <3>2 DEF RowAgrees, TerminalStates
  <2>7. QED
    BY <1>1, <1>4, <2>1, <2>6 DEF Opens, RowSound
<1>5. CASE Closes(row, outcomes, row2, outcomes2)
  <2> DEFINE n == row.attemptCount
  <2>1. PICK s \in AttemptOutcomes \ {"none", "processing"} :
          /\ Shown(row) = "processing" /\ Shown(row2) # "processing"
          /\ row2.recoveryState # "none" => row2.state = "processing"
          /\ s = "completed" <=> row2.state = "completed"
          /\ s \in TerminalStates => row2.state = s
          /\ row2.attemptCount = n
          /\ outcomes2 = Close(outcomes, row.claimToken, s)
    BY <1>5, EndsAsFacts DEF Closes
  <2>2. row.claimToken = n /\ n \in Token /\ outcomes[n] = "processing"
    BY <1>1, <2>1 DEF RowSound, RowAgrees, Token
  <2>3. \A i \in Token : outcomes2[i] = IF i = n THEN s ELSE outcomes[i]
    BY <2>1, <2>2 DEF Close
  <2>4. row.state = "processing"
    BY <2>1, ShownFacts DEF PhysicalJobStates
  <2>5. \A i \in Token : i # n => outcomes[i] # "processing"
                                 /\ outcomes[i] \notin TerminalStates
    BY <2>4 DEF RowSound, RowAgrees, TerminalStates
  <2>6. \A i \in Token : outcomes2[i] = "none" <=> i > n
    BY <1>1, <2>1, <2>2, <2>3 DEF RowSound, RowAgrees, Token
  <2>7. RowAgrees(row2, outcomes2)
    <3>1. n > 0
      BY <2>1 DEF RowSound
    <3>2. \A i \in Token : outcomes2[i] # "processing"
      BY <2>1, <2>3, <2>5
    <3>3. \A i \in Token : outcomes2[i] \in TerminalStates =>
                             i = n /\ row2.state = outcomes2[i]
      BY <2>1, <2>3, <2>5
    <3>4. row2.state = "completed" => outcomes2[n] = "completed"
      BY <2>1, <2>2, <2>3
    <3>5. QED
      BY <2>1, <2>6, <3>1, <3>2, <3>3, <3>4 DEF RowAgrees
  <2>8. QED
    BY <2>1, <2>7 DEF RowSound
<1>6. QED
  BY <1>2, <1>3, <1>4, <1>5 DEF Moves

-----------------------------------------------------------------------------
(***************************************************************************)
(* Every step moves every row so.                                          *)
(***************************************************************************)
LEMMA UntouchedRests ==
  ASSUME NEW j \in Job, job'[j] = job[j], attempt'[j] = attempt[j]
  PROVE  Moves(job[j], attempt[j], job'[j], attempt'[j])
BY DEF Moves, Rests

\* The columns of a row that gives its claim back, at once or with a new time.
LEMMA UnclaimedRow ==
  ASSUME NEW row \in JobRow, NEW s \in PhysicalJobStates
  PROVE  /\ Unclaimed(row, s).state = s
         /\ Unclaimed(row, s).recoveryState = "none"
         /\ Unclaimed(row, s).attemptCount = row.attemptCount
BY DEF Unclaimed, JobRow

LEMMA TimedRow ==
  ASSUME NEW row \in JobRow, NEW t
  PROVE  /\ [row EXCEPT !.nextEligibleAt = t].state = row.state
         /\ [row EXCEPT !.nextEligibleAt = t].recoveryState = row.recoveryState
         /\ [row EXCEPT !.nextEligibleAt = t].attemptCount = row.attemptCount
BY DEF JobRow

LEMMA QueueMoves ==
  ASSUME TypeOK, LedgerInv, Queue
  PROVE  EveryRowMoves
<1>1. \A j \in Job : job[j] \in JobRow /\ RowSound(job[j], attempt[j])
  BY DEF TypeOK, LedgerInv
<1>2. ASSUME NEW j \in Job, Enqueue(j)
      PROVE  EveryRowMoves
  <2>1. Shown(job[j]) = "absent" /\ job[j].recoveryState = "none"
    BY <1>1, <1>2, ShownFacts DEF Enqueue, RowSound
  <2>2. /\ job'[j].state = "pending" /\ job'[j].recoveryState = "none"
        /\ job'[j].attemptCount = job[j].attemptCount
    BY <1>1, <1>2, <2>1 DEF Enqueue, TypeOK, JobRow
  <2>3. Moves(job[j], attempt[j], job'[j], attempt'[j])
    BY <1>2, <2>1, <2>2 DEF Moves, Waits, Enqueue, TerminalStates
  <2>4. \A i \in Job : i # j => job'[i] = job[i] /\ attempt'[i] = attempt[i]
    BY <1>2 DEF Enqueue, TypeOK
  <2>5. QED
    BY <2>3, <2>4, UntouchedRests DEF EveryRowMoves
<1>3. ASSUME NEW j \in Job, ScheduleRetry(j) \/ BecomeDue(j)
      PROVE  EveryRowMoves
  <2>1. \E t \in Instant : job' = [job EXCEPT ![j].nextEligibleAt = t]
    BY <1>3 DEF ScheduleRetry, BecomeDue, Instant
  <2>2. \A i \in Job : Rests(job[i], attempt[i], job'[i], attempt'[i])
    BY <1>1, <1>3, <2>1 DEF Rests, ScheduleRetry, BecomeDue, TypeOK, JobRow
  <2>3. QED
    BY <2>2 DEF EveryRowMoves, Moves
<1>4. ASSUME NEW j \in Job, NEW target \in {"skipped", "blocked"}, DropPending(j, target)
      PROVE  EveryRowMoves
  <2>1. job'[j] = Unclaimed(job[j], target) /\ attempt'[j] = attempt[j]
    BY <1>4 DEF DropPending, TypeOK
  <2>2. Moves(job[j], attempt[j], job'[j], attempt'[j])
    <3>1. Shown(job[j]) = "pending"
      BY <1>4 DEF DropPending, LogicalJobState, Shown
    <3>2. /\ job'[j].state = target /\ job'[j].recoveryState = "none"
          /\ job'[j].attemptCount = job[j].attemptCount
      BY <1>1, <2>1, UnclaimedRow DEF PhysicalJobStates
    <3>3. QED
      BY <2>1, <3>1, <3>2 DEF Moves, Waits, TerminalStates
  <2>3. \A i \in Job : i # j => job'[i] = job[i] /\ attempt'[i] = attempt[i]
    BY <1>4 DEF DropPending, TypeOK
  <2>4. QED
    BY <2>2, <2>3, UntouchedRests DEF EveryRowMoves
<1>5. ASSUME NEW i \in Job, NEW s \in {"skipped", "pending"},
             job[i].state \in {"pending", "retrying"},
             job[i].state = "pending" \/ s = "pending",
             job'[i] = [job[i] EXCEPT !.state = s], attempt'[i] = attempt[i]
      PROVE  Moves(job[i], attempt[i], job'[i], attempt'[i])
  <2>1. job[i].recoveryState = "none" /\ Shown(job[i]) = job[i].state
    BY <1>1, <1>5, ShownFacts DEF RowSound
  <2>2. /\ job'[i].state = s /\ job'[i].recoveryState = "none"
        /\ job'[i].attemptCount = job[i].attemptCount
    BY <1>1, <1>5, <2>1 DEF JobRow
  <2>3. QED
    BY <1>5, <2>1, <2>2 DEF Moves, Waits, TerminalStates
<1>6. CASE ClearPending
  <2>1. \A i \in Job : attempt'[i] = attempt[i] /\
          \/ job'[i] = job[i]
          \/ job[i].state = "pending" /\ job'[i] = [job[i] EXCEPT !.state = "skipped"]
    BY <1>6 DEF ClearPending
  <2>2. QED
    BY <1>5, <2>1, UntouchedRests DEF EveryRowMoves
<1>7. ASSUME NEW S \in SUBSET Job, ReleaseDueRetries(S)
      PROVE  EveryRowMoves
  <2>1. \A i \in Job : attempt'[i] = attempt[i] /\
          \/ job'[i] = job[i]
          \/ job[i].state = "retrying" /\ job'[i] = [job[i] EXCEPT !.state = "pending"]
    BY <1>7 DEF ReleaseDueRetries
  <2>2. QED
    BY <1>5, <2>1, UntouchedRests DEF EveryRowMoves
<1>8. ASSUME NEW o \in Owner, ClaimNext(o)
      PROVE  EveryRowMoves
  <2>1. PICK j \in QueueHead :
          /\ AttemptsLeft(j)
          /\ job' = [job EXCEPT ![j].state = "processing", ![j].claimToken = job[j].attemptCount + 1,
                                ![j].attemptCount = job[j].attemptCount + 1]
          /\ attempt' = [attempt EXCEPT ![j][job[j].attemptCount + 1] = "processing"]
    BY <1>8 DEF ClaimNext
  <2>2. j \in Job /\ Shown(job[j]) = "pending" /\ job[j].recoveryState = "none"
    BY <1>1, ShownFacts DEF QueueHead, Claimable, LogicalJobState, Shown, PhysicalJobStates
  <2>3. /\ job'[j].state = "processing" /\ job'[j].recoveryState = "none"
        /\ job'[j].claimToken = job[j].attemptCount + 1
        /\ job'[j].attemptCount = job[j].attemptCount + 1
    BY <1>1, <2>1, <2>2 DEF TypeOK, JobRow
  <2>4. attempt'[j] = [attempt[j] EXCEPT ![job[j].attemptCount + 1] = "processing"]
    BY <2>1, <2>2 DEF TypeOK
  <2>5. Moves(job[j], attempt[j], job'[j], attempt'[j])
    BY <2>1, <2>2, <2>3, <2>4 DEF Moves, Opens, AttemptsLeft
  <2>6. \A i \in Job : i # j => job'[i] = job[i] /\ attempt'[i] = attempt[i]
    BY <2>1 DEF TypeOK
  <2>7. QED
    BY <2>5, <2>6, UntouchedRests DEF EveryRowMoves
<1>9. QED
  BY <1>2, <1>3, <1>4, <1>6, <1>7, <1>8 DEF Queue

LEMMA ClaimMoves ==
  ASSUME TypeOK, LedgerInv, Claim
  PROVE  EveryRowMoves
<1>1. \A j \in Job : job[j] \in JobRow
  BY DEF TypeOK
<1>2. ASSUME NEW o \in Owner, NEW k, NEW j \in Claimable, GrantLease(o, k, j)
      PROVE  EveryRowMoves
  <2> DEFINE n == job[j].attemptCount + 1
  <2>1. j \in Job /\ Shown(job[j]) = "pending"
    BY DEF Claimable, LogicalJobState, Shown
  <2>2. /\ job'[j].state = "processing" /\ job'[j].recoveryState = "none"
        /\ job'[j].claimToken = n /\ job'[j].attemptCount = n
    BY <1>1, <1>2, <2>1 DEF GrantLease, TypeOK, JobRow
  <2>3. attempt'[j] = [attempt[j] EXCEPT ![n] = "processing"]
    BY <1>2, <2>1 DEF GrantLease, TypeOK
  <2>4. Moves(job[j], attempt[j], job'[j], attempt'[j])
    BY <1>2, <2>1, <2>2, <2>3 DEF Moves, Opens, GrantLease, AttemptsLeft
  <2>5. \A i \in Job : i # j => job'[i] = job[i] /\ attempt'[i] = attempt[i]
    BY <1>2 DEF GrantLease, TypeOK
  <2>6. QED
    BY <2>4, <2>5, UntouchedRests DEF EveryRowMoves
<1>3. ASSUME NEW o \in Owner, NEW k \in Key \cup {NoKey},
             \/ ClaimNextWithLease(o, k)
             \/ \E j \in Job : ClaimJobWithLease(o, k, j)
      PROVE  EveryRowMoves
  BY <1>2, <1>3 DEF ClaimNextWithLease, ClaimJobWithLease, QueueHead
<1>4. ASSUME UNCHANGED <<job, attempt>>
      PROVE  EveryRowMoves
  BY <1>4, UntouchedRests DEF EveryRowMoves
<1>5. QED
  BY <1>3, <1>4 DEF Claim, ClaimNothing, ReplayClaim

LEMMA FinishMoves ==
  ASSUME TypeOK, LedgerInv, NEW c \in claim, NEW row \in JobRow,
         NEW s \in OwnerWords, OwnsProcessing(c), Finish(c, s, row),
         row.state = s, row.recoveryState = "none",
         row.attemptCount = job[c.jobId].attemptCount
  PROVE  EveryRowMoves
<1> DEFINE j == c.jobId
<1>1. j \in Job /\ job[j] \in JobRow
  BY DEF TypeOK, LeaseClaim
<1>2. Shown(job[j]) = "processing" /\ job[j].claimToken = c.token
  BY DEF OwnsProcessing, LogicalJobState, Shown
<1>3. s \in AttemptOutcomes /\ EndsAs(row, s)
  BY DEF EndsAs, OwnerWords, AttemptOutcomes
<1>4. job'[j] = row /\ attempt'[j] = Close(attempt[j], c.token, s)
  BY <1>1 DEF Finish, TypeOK
<1>5. Moves(job[j], attempt[j], job'[j], attempt'[j])
  BY <1>2, <1>3, <1>4 DEF Moves, Closes
<1>6. \A i \in Job : i # j => job'[i] = job[i] /\ attempt'[i] = attempt[i]
  BY DEF Finish, TypeOK
<1>7. QED
  BY <1>5, <1>6, UntouchedRests DEF EveryRowMoves

LEMMA HeldMoves ==
  ASSUME IInv, LedgerInv, Held
  PROVE  EveryRowMoves
<1>1. TypeOK /\ \A c \in claim : c.jobId \in Job /\ job[c.jobId] \in JobRow
  BY DEF IInv, TypeOK, LeaseClaim
<1>2. ASSUME NEW c \in claim, NEW s \in {"completed", "skipped", "blocked"},
             OwnsProcessing(c), Finish(c, s, Unclaimed(job[c.jobId], s))
      PROVE  EveryRowMoves
  <2>1. Unclaimed(job[c.jobId], s) \in JobRow
    BY <1>1, UnclaimedType DEF PhysicalJobStates
  <2>2. QED
    BY <1>1, <1>2, <2>1, UnclaimedRow, FinishMoves DEF PhysicalJobStates, OwnerWords
<1>3. ASSUME NEW c \in claim, NEW retryable, Fail(c, retryable)
      PROVE  EveryRowMoves
  <2>1. PICK target \in {"retrying", "failed"} :
          Finish(c, target, [Unclaimed(job[c.jobId], target) EXCEPT !.nextEligibleAt = "ahead"])
    BY <1>3 DEF Fail
  <2> DEFINE bare == Unclaimed(job[c.jobId], target)
  <2>2. bare \in JobRow
    BY <1>1, UnclaimedType DEF PhysicalJobStates
  <2>3. /\ bare.state = target /\ bare.recoveryState = "none"
        /\ bare.attemptCount = job[c.jobId].attemptCount
    BY <1>1, UnclaimedRow DEF PhysicalJobStates
  <2> HIDE DEF bare
  <2>4. [bare EXCEPT !.nextEligibleAt = "ahead"] \in JobRow
    BY <2>2 DEF JobRow, Instant
  <2>5. Finish(c, target, [bare EXCEPT !.nextEligibleAt = "ahead"])
    BY <2>1 DEF bare
  <2>6. OwnsProcessing(c)
    BY <1>3 DEF Fail
  <2>7. QED
    <3>1. target \in OwnerWords
      BY DEF OwnerWords
    <3>2. PICK timed \in JobRow : timed = [bare EXCEPT !.nextEligibleAt = "ahead"]
      BY <2>4
    <3>3. /\ timed.state = target /\ timed.recoveryState = "none"
          /\ timed.attemptCount = job[c.jobId].attemptCount
      BY <2>2, <2>3, <3>2, TimedRow
    <3>4. QED
      BY <1>1, <2>5, <2>6, <3>1, <3>2, <3>3, FinishMoves
<1>4. ASSUME NEW c \in claim, AcknowledgePause(c)
      PROVE  EveryRowMoves
  <2> DEFINE j == c.jobId
  <2>1. j \in Job /\ job[j] \in JobRow
    BY <1>1
  <2>2. PICK l \in ActiveLease(j) : l.token = c.token
    BY <1>4 DEF AcknowledgePause, HoldsLease
  <2>3. Shown(job[j]) = "processing" /\ job[j].claimToken = c.token
    BY <2>2 DEF IInv, LeaseInv, ActiveLeaseIsCurrent, ActiveLease, LogicalJobState, Shown
  <2>4. job[j].state = "processing"
    BY <2>1, <2>3, ShownFacts DEF PhysicalJobStates
  <2>5. /\ job'[j] = [job[j] EXCEPT !.recoveryState = "paused"]
        /\ attempt'[j] = Close(attempt[j], c.token, "paused")
    BY <1>1, <1>4, <2>1, <2>4 DEF AcknowledgePause, TypeOK
  <2>6. /\ job'[j].state = "processing" /\ job'[j].recoveryState = "paused"
        /\ job'[j].attemptCount = job[j].attemptCount
    BY <2>1, <2>4, <2>5 DEF JobRow
  <2>7. Shown(job'[j]) # "processing"
    BY <2>6 DEF Shown, LogicalState
  <2>8. Moves(job[j], attempt[j], job'[j], attempt'[j])
    BY <2>3, <2>5, <2>6, <2>7 DEF Moves, Closes, EndsAs, AttemptOutcomes
  <2>9. \A i \in Job : i # j => job'[i] = job[i] /\ attempt'[i] = attempt[i]
    BY <1>1, <1>4 DEF AcknowledgePause, TypeOK
  <2>10. QED
    BY <2>8, <2>9, UntouchedRests DEF EveryRowMoves
<1>5. ASSUME UNCHANGED <<job, attempt>>
      PROVE  EveryRowMoves
  BY <1>5, UntouchedRests DEF EveryRowMoves
<1>6. QED
  BY <1>2, <1>3, <1>4, <1>5 DEF Held, Complete, FinishAs, ReleaseLease, SaveCheckpoint, Expire

LEMMA RunOperationMoves ==
  ASSUME TypeOK, LedgerInv, RunOperation
  PROVE  EveryRowMoves
<1>1. \A j \in Job : job[j] \in JobRow /\ RowSound(job[j], attempt[j])
  BY DEF TypeOK, LedgerInv
<1>2. ASSUME NEW S \in SUBSET Job, Recover(S)
      PROVE  EveryRowMoves
  <2> SUFFICES ASSUME NEW j \in Job
               PROVE  Moves(job[j], attempt[j], job'[j], attempt'[j])
    BY DEF EveryRowMoves
  <2>1. CASE j \notin S
    BY <1>2, <2>1, UntouchedRests DEF Recover
  <2>2. CASE j \in S
    <3>1. Shown(job[j]) = "processing" /\ job[j].state = "processing"
      BY <1>1, <1>2, <2>2, ShownFacts
      DEF Recover, Recoverable, LogicalJobState, Shown, PhysicalJobStates
    <3>2. CASE Pausing
      <4>1. /\ job'[j] = [job[j] EXCEPT !.recoveryState = "paused"]
            /\ attempt'[j] = Close(attempt[j], job[j].claimToken, "paused")
        BY <1>2, <2>2, <3>2 DEF Recover
      <4>2. /\ job'[j].state = "processing" /\ job'[j].recoveryState = "paused"
            /\ job'[j].attemptCount = job[j].attemptCount
        BY <1>1, <3>1, <4>1 DEF JobRow
      <4>3. Shown(job'[j]) # "processing"
        BY <4>2 DEF Shown, LogicalState
      <4>4. QED
        BY <3>1, <4>1, <4>2, <4>3 DEF Moves, Closes, EndsAs, AttemptOutcomes
    <3>3. CASE ~Pausing
      <4>1. PICK s \in {"pending", "failed"} : job'[j] = Unclaimed(job[j], s)
        BY <1>2, <2>2, <3>3 DEF Recover
      <4>2. attempt'[j] = Close(attempt[j], job[j].claimToken, "interrupted")
        BY <1>2, <2>2, <3>3 DEF Recover
      <4>3. /\ job'[j].state = s /\ job'[j].recoveryState = "none"
            /\ job'[j].attemptCount = job[j].attemptCount
        BY <1>1, <4>1, UnclaimedRow DEF PhysicalJobStates
      <4>4. Shown(job'[j]) # "processing"
        BY <4>3 DEF Shown, LogicalState
      <4>5. QED
        BY <3>1, <4>2, <4>3, <4>4 DEF Moves, Closes, EndsAs, AttemptOutcomes
    <3>4. QED
      BY <3>2, <3>3
  <2>3. QED
    BY <2>1, <2>2
<1>3. CASE ResumeRun
  <2> SUFFICES ASSUME NEW j \in Job
               PROVE  Moves(job[j], attempt[j], job'[j], attempt'[j])
    BY DEF EveryRowMoves
  <2>1. CASE j \notin Resumable
    BY <1>3, <2>1, UntouchedRests DEF ResumeRun
  <2>2. CASE j \in Resumable
    <3>1. job'[j] = Unclaimed(job[j], "pending") /\ attempt'[j] = attempt[j]
      BY <1>3, <2>2 DEF ResumeRun
    <3>2. Shown(job[j]) \in {"paused", "interrupted"}
      BY <2>2 DEF Resumable, LogicalJobState, Shown
    <3>3. /\ job'[j].state = "pending" /\ job'[j].recoveryState = "none"
          /\ job'[j].attemptCount = job[j].attemptCount
      BY <1>1, <3>1, UnclaimedRow DEF PhysicalJobStates
    <3>4. QED
      BY <3>1, <3>2, <3>3 DEF Moves, Waits, TerminalStates
  <2>3. QED
    BY <2>1, <2>2
<1>4. ASSUME UNCHANGED <<job, attempt>>
      PROVE  EveryRowMoves
  BY <1>4, UntouchedRests DEF EveryRowMoves
<1>5. QED
  BY <1>2, <1>3, <1>4 DEF RunOperation, RequestPause, SetRunState

LEMMA StepMoves ==
  ASSUME IInv, LedgerInv, [Next]_vars
  PROVE  EveryRowMoves
<1>1. TypeOK
  BY DEF IInv
<1>2. CASE UNCHANGED vars
  BY <1>2, UntouchedRests DEF EveryRowMoves, vars
<1>3. QED
  BY <1>1, <1>2, QueueMoves, ClaimMoves, HeldMoves, RunOperationMoves DEF Next

-----------------------------------------------------------------------------
(***************************************************************************)
(* The theorems.                                                           *)
(***************************************************************************)
LEMMA InitLedger == Init => LedgerInv
<1> SUFFICES ASSUME Init, NEW j \in Job PROVE RowSound(job[j], attempt[j])
  BY DEF LedgerInv
<1>1. /\ job[j].state = "absent" /\ job[j].recoveryState = "none" /\ job[j].attemptCount = 0
      /\ \A i \in Token : attempt[j][i] = "none" /\ i > 0
  BY MaxAttemptsAssumption DEF Init, Token
<1>2. Shown(job[j]) = "absent"
  BY <1>1 DEF Shown, LogicalState
<1>3. QED
  BY <1>1, <1>2 DEF RowSound, RowAgrees, TerminalStates

LEMMA MovesKeepLedger ==
  ASSUME TypeOK, TypeOK', LedgerInv, EveryRowMoves
  PROVE  LedgerInv'
<1> SUFFICES ASSUME NEW j \in Job
             PROVE  RowSound(job'[j], attempt'[j])
  BY DEF LedgerInv
<1>1. Moves(job[j], attempt[j], job'[j], attempt'[j])
  BY DEF EveryRowMoves
<1>2. /\ job[j] \in JobRow /\ job'[j] \in JobRow
      /\ attempt[j] \in Outcomes /\ attempt'[j] \in Outcomes
  BY DEF TypeOK, Outcomes
<1>3. QED
  BY <1>1, <1>2, MoveKeepsSound DEF LedgerInv

LEMMA StepLedger == IInv /\ LedgerInv /\ [Next]_vars => LedgerInv'
<1>1. IInv /\ [Next]_vars => TypeOK /\ TypeOK'
  BY StepIInv DEF IInv
<1>2. QED
  BY <1>1, StepMoves, MovesKeepLedger

\* Whatever died, was fenced, paused or recovered: attempts have no gap, the open
\* one is the one the job is processing, and a completed job ended in its last.
THEOREM LedgerIsTrue == Spec => []AttemptLedgerAgrees
<1>1. LedgerInv => AttemptLedgerAgrees
  BY DEF LedgerInv, RowSound, RowAgrees, AttemptLedgerAgrees, LedgerAgrees, LogicalJobState, Shown
<1>2. QED
  BY <1>1, InitIInv, StepIInv, InitLedger, StepLedger, PTL DEF Spec

\* No claim, late report, recovery or resume moves a job out of a terminal state:
\* an overlay never hides one, and every operation reads the state it leaves.
THEOREM NothingReopens == Spec => TerminalStaysClosed
<1>1. IInv /\ LedgerInv /\ [Next]_vars =>
        [\A j \in Job : job[j].state \in TerminalStates => job'[j].state = job[j].state]_vars
  <2> SUFFICES ASSUME IInv, LedgerInv, [Next]_vars, NEW j \in Job,
                      job[j].state \in TerminalStates
               PROVE  job'[j].state = job[j].state
    OBVIOUS
  <2>1. Moves(job[j], attempt[j], job'[j], attempt'[j])
    BY StepMoves DEF EveryRowMoves
  <2>2. job[j] \in JobRow /\ RowSound(job[j], attempt[j])
    BY DEF IInv, TypeOK, LedgerInv
  <2>3. Shown(job[j]) = job[j].state
    BY <2>2, ShownFacts DEF RowSound, TerminalStates
  <2>4. QED
    BY <2>1, <2>3 DEF Moves, Rests, Waits, Opens, Closes, TerminalStates
<1>2. QED
  BY <1>1, InitIInv, StepIInv, InitLedger, StepLedger, PTL DEF Spec, TerminalStaysClosed

-----------------------------------------------------------------------------
(***************************************************************************)
(* The pause protocol, for every instance whose callers of setRunState are *)
(* those of the application service: a login sends a Run that runs to      *)
(* wait, and back.                                                         *)
(***************************************************************************)
Working == {"running", "waiting_for_auth"}

LoginOnly == \A r \in RunStateRequests : r[1] \in Working /\ r[2] \in Working

-----------------------------------------------------------------------------
(***************************************************************************)
(* Between a pause and its end the Run is never given back to the claims   *)
(* by a change of its product-level state: a Run that works has an active  *)
(* control state, and the other way round.                                 *)
(***************************************************************************)
ControlFollowsRun ==
  /\ control \in {"active", "pause_requested", "paused"}
  /\ control = "active" <=> runState \in Working

PauseInv == ControlFollowsRun /\ PausedRunHasNoOwner /\ NoStrandedPause

\* No row is put under an overlay.
NothingPauses ==
  \A j \in Job : job'[j].recoveryState \in {job[j].recoveryState, "none"}

\* No Lease becomes active.
NoNewOwner == \A l \in lease' : l.status = "active" => ActiveLeases # {}

-----------------------------------------------------------------------------
LEMMA PausedOverlay ==
  ASSUME TypeOK, NEW j \in Job
  PROVE  LogicalJobState(j) = "paused" <=> job[j].recoveryState = "paused"
<1>1. job[j] \in JobRow
  BY DEF TypeOK
<1>2. job[j].state # "paused"
  BY <1>1 DEF JobRow, PhysicalJobStates
<1>3. QED
  BY <1>2 DEF LogicalJobState, LogicalState

\* A step that leaves the Run alone, adds no owner unless the Run is active, and
\* pauses no job.
LEMMA OrdinaryStep ==
  ASSUME TypeOK, TypeOK', PauseInv, UNCHANGED <<control, runState>>, NothingPauses,
         control = "active" \/ NoNewOwner
  PROVE  PauseInv'
<1>1. ControlFollowsRun'
  BY DEF PauseInv, ControlFollowsRun
<1>2. PausedRunHasNoOwner'
  <2> SUFFICES ASSUME control = "paused" PROVE \A l \in lease' : l.status # "active"
    BY DEF PausedRunHasNoOwner, ActiveLeases
  <2>1. ActiveLeases = {} /\ NoNewOwner
    BY DEF PauseInv, PausedRunHasNoOwner
  <2>2. QED
    BY <2>1 DEF NoNewOwner
<1>3. NoStrandedPause'
  <2> SUFFICES ASSUME control = "active", NEW j \in Job
               PROVE  ~(LogicalJobState(j)' = "paused")
    BY DEF NoStrandedPause
  <2>1. job[j].recoveryState # "paused"
    BY PausedOverlay DEF PauseInv, NoStrandedPause
  <2>2. job'[j].recoveryState # "paused"
    BY <2>1 DEF NothingPauses
  <2>3. job'[j] \in JobRow
    BY DEF TypeOK
  <2>4. QED
    BY <2>2, <2>3 DEF LogicalJobState, LogicalState, JobRow, PhysicalJobStates
<1>4. QED
  BY <1>1, <1>2, <1>3 DEF PauseInv

LEMMA EndingAddsNoOwner ==
  ASSUME NEW S, NEW s \in {"released", "recovered"}, TypeOK, lease' = EndLeases(S, s)
  PROVE  NoNewOwner /\ (ActiveLeases = {} => ActiveLeases' = {})
<1>1. \A l \in lease : [l EXCEPT !.status = s].status = s
  BY DEF TypeOK, LeaseRow
<1>2. \A k \in lease' : k.status = "active" => k \in lease
  BY <1>1 DEF EndLeases
<1>3. QED
  BY <1>2 DEF NoNewOwner, ActiveLeases

LEMMA QueuePauses ==
  ASSUME TypeOK, Queue
  PROVE  NothingPauses /\ UNCHANGED <<lease, control, runState>>
<1>1. \A j \in Job : job[j] \in JobRow
  BY DEF TypeOK
<1>2. ASSUME NEW j \in Job, Enqueue(j)
      PROVE  NothingPauses
  BY <1>1, <1>2 DEF NothingPauses, Enqueue, TypeOK, JobRow
<1>3. ASSUME NEW j \in Job, ScheduleRetry(j) \/ BecomeDue(j)
      PROVE  NothingPauses
  <2>1. \E t \in Instant : job' = [job EXCEPT ![j].nextEligibleAt = t]
    BY <1>3 DEF ScheduleRetry, BecomeDue, Instant
  <2>2. QED
    BY <1>1, <2>1 DEF NothingPauses, TypeOK, JobRow
<1>4. ASSUME NEW j \in Job, NEW target \in {"skipped", "blocked"}, DropPending(j, target)
      PROVE  NothingPauses
  <2>1. job' = [job EXCEPT ![j] = Unclaimed(job[j], target)]
    BY <1>4 DEF DropPending
  <2>2. QED
    BY <1>1, <2>1, UnclaimedRow DEF NothingPauses, TypeOK, PhysicalJobStates
<1>5. CASE ClearPending
  BY <1>1, <1>5 DEF NothingPauses, ClearPending, JobRow
<1>6. ASSUME NEW S \in SUBSET Job, ReleaseDueRetries(S)
      PROVE  NothingPauses
  BY <1>1, <1>6 DEF NothingPauses, ReleaseDueRetries, JobRow
<1>7. ASSUME NEW o \in Owner, ClaimNext(o)
      PROVE  NothingPauses
  BY <1>1, <1>7 DEF NothingPauses, ClaimNext, TypeOK, JobRow
<1>8. UNCHANGED <<lease, control, runState>>
  BY DEF Queue, Enqueue, ScheduleRetry, BecomeDue, DropPending, ClearPending,
         ReleaseDueRetries, ClaimNext
<1>9. QED
  BY <1>2, <1>3, <1>4, <1>5, <1>6, <1>7, <1>8 DEF Queue

LEMMA QueueKeepsPause ==
  ASSUME TypeOK, TypeOK', PauseInv, Queue
  PROVE  PauseInv'
<1>1. NothingPauses /\ UNCHANGED <<lease, control, runState>>
  BY QueuePauses
<1>2. NoNewOwner
  BY <1>1 DEF NoNewOwner, ActiveLeases
<1>3. QED
  BY <1>1, <1>2, OrdinaryStep

LEMMA ClaimKeepsPause ==
  ASSUME TypeOK, TypeOK', PauseInv, Claim
  PROVE  PauseInv'
<1>1. control = "active" /\ UNCHANGED <<control, runState>>
  <2>1. ASSUME NEW o \in Owner, NEW k, ClaimNothing(o, k)
        PROVE  control = "active" /\ UNCHANGED <<control, runState>>
    BY <2>1 DEF ClaimNothing
  <2>2. ASSUME NEW k, ReplayClaim(k)
        PROVE  control = "active" /\ UNCHANGED <<control, runState>>
    BY <2>2 DEF ReplayClaim
  <2>3. ASSUME NEW o \in Owner, NEW k, NEW j, GrantLease(o, k, j)
        PROVE  UNCHANGED <<control, runState>>
    BY <2>3 DEF GrantLease
  <2>4. QED
    BY <2>1, <2>2, <2>3 DEF Claim, ClaimNextWithLease, ClaimJobWithLease
<1>2. ASSUME NEW o \in Owner, NEW k, NEW j \in Job, GrantLease(o, k, j)
      PROVE  NothingPauses
  <2>1. job'[j].recoveryState = "none"
    BY <1>2 DEF GrantLease, TypeOK, JobRow
  <2>2. \A i \in Job : i # j => job'[i] = job[i]
    BY <1>2 DEF GrantLease, TypeOK
  <2>3. QED
    BY <2>1, <2>2 DEF NothingPauses
<1>3. ASSUME UNCHANGED job
      PROVE  NothingPauses
  BY <1>3 DEF NothingPauses
<1>4. NothingPauses
  BY <1>2, <1>3
  DEF Claim, ClaimNextWithLease, ClaimNothing, ClaimJobWithLease, ReplayClaim, QueueHead, Claimable
<1>5. QED
  BY <1>1, <1>4, OrdinaryStep

\* A terminal operation of an owner.
LEMMA FinishKeepsPause ==
  ASSUME TypeOK, TypeOK', PauseInv, NEW c \in claim, NEW s, NEW row,
         Finish(c, s, row), row.recoveryState = "none"
  PROVE  PauseInv'
<1>1. NothingPauses
  BY DEF Finish, NothingPauses, TypeOK, LeaseClaim
<1>2. NoNewOwner
  <2>1. CASE lease' = EndLeases({c.jobId}, "released")
    BY <2>1, EndingAddsNoOwner
  <2>2. CASE lease' = lease
    BY <2>2 DEF NoNewOwner, ActiveLeases
  <2>3. QED
    BY <2>1, <2>2 DEF Finish
<1>3. QED
  BY <1>1, <1>2, OrdinaryStep DEF Finish

LEMMA HeldKeepsPause ==
  ASSUME TypeOK, TypeOK', PauseInv, Held
  PROVE  PauseInv'
<1>1. \A c \in claim : c.jobId \in Job /\ job[c.jobId] \in JobRow
  BY DEF TypeOK, LeaseClaim
<1>2. ASSUME NEW c \in claim, NEW s \in {"completed", "skipped", "blocked"},
             Finish(c, s, Unclaimed(job[c.jobId], s))
      PROVE  PauseInv'
  BY <1>1, <1>2, UnclaimedRow, FinishKeepsPause DEF PhysicalJobStates
<1>3. ASSUME NEW c \in claim, NEW retryable, Fail(c, retryable)
      PROVE  PauseInv'
  <2>1. PICK target \in {"retrying", "failed"} :
          Finish(c, target, [Unclaimed(job[c.jobId], target) EXCEPT !.nextEligibleAt = "ahead"])
    BY <1>3 DEF Fail
  <2>2. /\ Unclaimed(job[c.jobId], target) \in JobRow
        /\ Unclaimed(job[c.jobId], target).recoveryState = "none"
    <3>1. target \in PhysicalJobStates /\ job[c.jobId] \in JobRow
      BY <1>1 DEF PhysicalJobStates
    <3>2. Unclaimed(job[c.jobId], target) \in JobRow
      BY <3>1, UnclaimedType
    <3>3. Unclaimed(job[c.jobId], target).recoveryState = "none"
      BY <3>1, UnclaimedRow
    <3>4. QED
      BY <3>2, <3>3
  <2>3. QED
    BY <2>1, <2>2, TimedRow, FinishKeepsPause
<1>4. ASSUME NEW c \in claim, ReleaseLease(c)
      PROVE  PauseInv'
  <2>1. NoNewOwner /\ NothingPauses
    BY <1>4, EndingAddsNoOwner DEF ReleaseLease, NothingPauses
  <2>2. QED
    BY <1>4, <2>1, OrdinaryStep DEF ReleaseLease
<1>5. ASSUME NEW c \in claim, SaveCheckpoint(c)
      PROVE  PauseInv'
  <2>1. NoNewOwner /\ NothingPauses
    BY <1>5 DEF SaveCheckpoint, NothingPauses, NoNewOwner, ActiveLeases
  <2>2. QED
    BY <1>5, <2>1, OrdinaryStep DEF SaveCheckpoint
<1>6. ASSUME NEW c \in claim, AcknowledgePause(c)
      PROVE  PauseInv'
  <2>1. CASE ActiveLeases' = {}
    BY <1>6, <2>1
    DEF AcknowledgePause, PauseInv, ControlFollowsRun, PausedRunHasNoOwner, NoStrandedPause, Working
  <2>2. CASE ActiveLeases' # {}
    BY <1>6, <2>2
    DEF AcknowledgePause, PauseInv, ControlFollowsRun, PausedRunHasNoOwner, NoStrandedPause
  <2>3. QED
    BY <2>1, <2>2
<1>7. ASSUME NEW l \in lease, Expire(l)
      PROVE  PauseInv'
  <2>1. NoNewOwner /\ NothingPauses
    BY <1>7 DEF Expire, NothingPauses, NoNewOwner, ActiveLeases
  <2>2. QED
    BY <1>7, <2>1, OrdinaryStep DEF Expire
<1>8. QED
  BY <1>2, <1>3, <1>4, <1>5, <1>6, <1>7 DEF Held, Complete, FinishAs

LEMMA RecoverKeepsPause ==
  ASSUME TypeOK, TypeOK', PauseInv, NEW S \in SUBSET Job, Recover(S)
  PROVE  PauseInv'
<1>1. control' = ControlAfterRecovery(ActiveLeases') /\ UNCHANGED runState
  BY DEF Recover
<1>2. ActiveLeases = {} => ActiveLeases' = {}
  BY EndingAddsNoOwner DEF Recover
<1>3. CASE Pausing
  <2>1. control = "paused" => ActiveLeases' = {}
    BY <1>2 DEF PauseInv, PausedRunHasNoOwner
  <2>2. control' = IF ActiveLeases' = {} THEN "paused" ELSE "pause_requested"
    BY <1>1, <1>3, <2>1 DEF ControlAfterRecovery, Pausing
  <2>3. control # "active"
    BY <1>3 DEF Pausing
  <2>4. QED
    BY <1>1, <2>2, <2>3
    DEF PauseInv, ControlFollowsRun, PausedRunHasNoOwner, NoStrandedPause
<1>4. CASE ~Pausing
  <2>1. control = "active" /\ control' = "active"
    BY <1>1, <1>4 DEF ControlAfterRecovery, Pausing, PauseInv, ControlFollowsRun
  <2>2. NothingPauses
    <3> SUFFICES ASSUME NEW j \in Job
                 PROVE  job'[j].recoveryState \in {job[j].recoveryState, "none"}
      BY DEF NothingPauses
    <3>1. \/ job'[j] = job[j]
          \/ \E s \in {"pending", "failed"} : job'[j] = Unclaimed(job[j], s)
      BY <1>4 DEF Recover
    <3>2. job[j] \in JobRow
      BY DEF TypeOK
    <3>3. QED
      BY <3>1, <3>2, UnclaimedRow DEF PhysicalJobStates
  <2>3. QED
    BY <1>1, <2>1, <2>2, OrdinaryStep
<1>5. QED
  BY <1>3, <1>4

LEMMA RunOperationKeepsPause ==
  ASSUME LoginOnly, TypeOK, TypeOK', PauseInv, RunOperation
  PROVE  PauseInv'
<1>1. CASE RequestPause
  <2>1. PICK target \in {"paused", "pausing"} :
          /\ target = "paused" <=> ActiveLeases = {}
          /\ control' = ControlFor(target) /\ runState' = target
    BY <1>1 DEF RequestPause
  <2>2. ActiveLeases' = ActiveLeases
    BY <1>1 DEF RequestPause, ActiveLeases
  <2>3. control' = IF ActiveLeases = {} THEN "paused" ELSE "pause_requested"
    BY <2>1 DEF ControlFor
  <2>4. QED
    BY <2>1, <2>2, <2>3
    DEF PauseInv, ControlFollowsRun, PausedRunHasNoOwner, NoStrandedPause, Working
<1>2. CASE ResumeRun
  <2>1. control' = "active" /\ runState' = "running"
    BY <1>2 DEF ResumeRun
  <2>2. ASSUME NEW j \in Job
        PROVE  job'[j].recoveryState # "paused"
    <3>1. job[j] \in JobRow
      BY DEF TypeOK
    <3>2. CASE j \in Resumable
      BY <1>2, <3>1, <3>2, UnclaimedRow DEF ResumeRun, PhysicalJobStates
    <3>3. CASE j \notin Resumable
      BY <1>2, <3>3, PausedOverlay DEF ResumeRun, Resumable
    <3>4. QED
      BY <3>2, <3>3
  <2>3. \A j \in Job : ~(LogicalJobState(j)' = "paused")
    <3> SUFFICES ASSUME NEW j \in Job PROVE ~(LogicalJobState(j)' = "paused")
      OBVIOUS
    <3>1. job'[j] \in JobRow /\ job'[j].recoveryState # "paused"
      BY <2>2 DEF TypeOK
    <3>2. QED
      BY <3>1 DEF LogicalJobState, LogicalState, JobRow, PhysicalJobStates
  <2>4. QED
    BY <2>1, <2>3
    DEF PauseInv, ControlFollowsRun, PausedRunHasNoOwner, NoStrandedPause, Working
<1>3. ASSUME NEW r \in RunStateRequests, SetRunState(r[1], r[2])
      PROVE  PauseInv'
  <2>1. runState \in Working /\ r[2] \in Working
    BY <1>3 DEF SetRunState, LoginOnly
  <2>2. control = "active" /\ control' = "active" /\ runState' \in Working
    BY <1>3, <2>1 DEF SetRunState, ControlFor, Working, PauseInv, ControlFollowsRun
  <2>3. UNCHANGED <<job, lease>>
    BY <1>3 DEF SetRunState
  <2>4. QED
    BY <2>2, <2>3
    DEF PauseInv, ControlFollowsRun, PausedRunHasNoOwner, NoStrandedPause, LogicalJobState
<1>4. QED
  BY <1>1, <1>2, <1>3, RecoverKeepsPause DEF RunOperation

-----------------------------------------------------------------------------
(***************************************************************************)
(* The theorems.                                                           *)
(***************************************************************************)
LEMMA InitPause == Init => PauseInv
<1> SUFFICES ASSUME Init PROVE PauseInv
  OBVIOUS
<1>1. \A j \in Job : LogicalJobState(j) = "absent"
  BY DEF Init, LogicalJobState, LogicalState
<1>2. QED
  BY <1>1
  DEF Init, PauseInv, ControlFollowsRun, PausedRunHasNoOwner, NoStrandedPause, ActiveLeases, Working

LEMMA StepPause ==
  ASSUME LoginOnly
  PROVE  IInv /\ PauseInv /\ [Next]_vars => PauseInv'
<1> SUFFICES ASSUME IInv, PauseInv, [Next]_vars PROVE PauseInv'
  OBVIOUS
<1>1. TypeOK /\ TypeOK'
  BY StepIInv DEF IInv
<1>2. CASE UNCHANGED vars
  <2>1. NothingPauses /\ NoNewOwner
    BY <1>2 DEF vars, NothingPauses, NoNewOwner, ActiveLeases
  <2>2. QED
    BY <1>1, <1>2, <2>1, OrdinaryStep DEF vars
<1>3. QED
  BY <1>1, <1>2, QueueKeepsPause, ClaimKeepsPause, HeldKeepsPause, RunOperationKeepsPause DEF Next

\* However a pause came about - asked for while idle, acknowledged by the last
\* owner, completed by recovery - a Run that reports "paused" has no owner at work.
THEOREM PausedIsIdle ==
  ASSUME LoginOnly
  PROVE  Spec => []PausedRunHasNoOwner
<1>1. PauseInv => PausedRunHasNoOwner
  BY DEF PauseInv
<1>2. QED
  BY <1>1, InitIInv, StepIInv, InitPause, StepPause, PTL DEF Spec

\* A Run that claims again has requeued every paused job.
THEOREM NothingStaysPaused ==
  ASSUME LoginOnly
  PROVE  Spec => []NoStrandedPause
<1>1. PauseInv => NoStrandedPause
  BY DEF PauseInv
<1>2. QED
  BY <1>1, InitIInv, StepIInv, InitPause, StepPause, PTL DEF Spec
=============================================================================
