---------------------------- MODULE OriginBudget ----------------------------
(***************************************************************************)
(* The network budget of one origin (InMemoryOriginNetworkBudget), the     *)
(* permits a page session holds in it for its requests, and the cooldowns  *)
(* that the scheduler queues for the database and restores after a         *)
(* restart.                                                                *)
(*                                                                         *)
(* Time is counted in ticks; a tick adds requestsPerSecond tokens.  A      *)
(* request is granted when it is not cooling, a place is free and a token  *)
(* is there.  A page finds the permit of a request that ends by the        *)
(* request's method and URL.                                               *)
(***************************************************************************)
EXTENDS Naturals, Sequences, FiniteSets, SequencesExt

CONSTANTS Request, Key, KeyOf,            \* KeyOf in [Request -> Key]
          MaxInflight, Rate, burstLimit, MaxDelay,
          MaxTime, MaxQueue, MaxFaults

VARIABLES
  now, inflight, tokens,
  cooldown,   \* cooldownUntilMs, 0 for none
  req,        \* each request: "idle", "waiting", "gone" (its page dropped it), "running"
  permits,    \* networkPermits: of each key, the requests whose permits are held, oldest first
  saved,      \* cooldown_until of the row
  queue,      \* snapshots on their way to the database
  granted,    \* permits granted since the process began
  before,     \* granted, as each tick began
  announced,  \* the latest cooldown a response has asked for
  unsaved,    \* a snapshot was lost
  withdrawn,  \* a page dropped a request that waited behind one of the same URL
  faults

grants == <<granted, before>>
vars == <<now, inflight, tokens, cooldown, req, permits, saved, queue, grants, announced,
          unsaved, withdrawn, faults>>

\* Types; acquire keeps inflight and the tokens within their limits.
TypeOK ==
  /\ now \in 0..MaxTime /\ inflight \in 0..MaxInflight /\ tokens \in 0..burstLimit
  /\ cooldown \in 0..MaxTime + MaxDelay /\ saved \in 0..MaxTime + MaxDelay
  /\ req \in [Request -> {"idle", "waiting", "gone", "running"}]
  /\ permits \in [Key -> Seq(Request)]
  /\ queue \in Seq(0..MaxTime + MaxDelay) /\ Len(queue) <= MaxQueue
  /\ announced <= MaxTime + MaxDelay

Init ==
  /\ now = 0 /\ inflight = 0 /\ tokens = burstLimit /\ cooldown = 0
  /\ req = [r \in Request |-> "idle"] /\ permits = [k \in Key |-> <<>>]
  /\ saved = 0 /\ queue = <<>> /\ granted = 0 /\ before = [t \in 0..MaxTime |-> 0]
  /\ announced = 0 /\ unsaved = FALSE /\ withdrawn = FALSE /\ faults = 0

-----------------------------------------------------------------------------
\* refill, whenever somebody looks.
Tick ==
  /\ now < MaxTime /\ now' = now + 1
  /\ tokens' = IF tokens + Rate > burstLimit THEN burstLimit ELSE tokens + Rate
  /\ before' = [before EXCEPT ![now'] = granted]
  /\ UNCHANGED <<inflight, cooldown, req, permits, saved, queue, granted, announced, unsaved,
                 withdrawn, faults>>

\* A request is paused; the page asks for a permit.
Issue(r) ==
  /\ req[r] = "idle" /\ req' = [req EXCEPT ![r] = "waiting"]
  /\ UNCHANGED <<now, inflight, tokens, cooldown, permits, saved, queue, grants, announced,
                 unsaved, withdrawn, faults>>

\* waitMilliseconds is zero.
Ready == cooldown <= now /\ inflight < MaxInflight /\ tokens >= 1

\* acquire grants, and the request goes on; one that is gone cannot, and gives the permit
\* back at once.
Acquire(r) ==
  /\ req[r] \in {"waiting", "gone"} /\ Ready
  /\ tokens' = tokens - 1
  /\ IF req[r] = "waiting"
     THEN /\ req' = [req EXCEPT ![r] = "running"] /\ inflight' = inflight + 1
          /\ permits' = [permits EXCEPT ![KeyOf[r]] = Append(@, r)]
          /\ granted' = granted + 1
     ELSE req' = [req EXCEPT ![r] = "idle"] /\ UNCHANGED <<inflight, permits, granted>>
  /\ UNCHANGED <<now, cooldown, saved, queue, before, announced, unsaved, withdrawn, faults>>

\* A bug: every end of a request gives a place back, whether a permit was held or not.
ReleaseTwice(k) ==
  /\ inflight' = IF inflight = 0 THEN 0 ELSE inflight - 1
  /\ permits' = [permits EXCEPT ![k] = IF @ = <<>> THEN @ ELSE Tail(@)]

\* releaseNetworkPermit: the oldest permit of the URL.
ReleaseNetworkPermit(k) ==
  IF permits[k] = <<>> THEN UNCHANGED <<inflight, permits>>
  ELSE inflight' = inflight - 1 /\ permits' = [permits EXCEPT ![k] = Tail(@)]

\* requestfinished or requestfailed.
Finish(r) ==
  /\ req[r] = "running" /\ req' = [req EXCEPT ![r] = "idle"]
  /\ ReleaseNetworkPermit(KeyOf[r])
  /\ UNCHANGED <<now, tokens, cooldown, saved, queue, grants, announced, unsaved, withdrawn,
                 faults>>

\* requestfailed of a request that still waits for its permit.
Withdraw(r) ==
  /\ req[r] = "waiting" /\ req' = [req EXCEPT ![r] = "gone"]
  /\ withdrawn' = (withdrawn \/ permits[KeyOf[r]] # <<>>)
  /\ ReleaseNetworkPermit(KeyOf[r])
  /\ UNCHANGED <<now, tokens, cooldown, saved, queue, grants, announced, unsaved, faults>>

\* recordResponse of a 429 or a 503: the cooldown is never shortened, and a snapshot, in
\* which a cooldown that is over is none, is queued.
RecordResponse(delay) ==
  LET until == IF delay > 0 /\ now + delay > cooldown THEN now + delay ELSE cooldown
      shown == IF until <= now THEN 0 ELSE until IN
  /\ \E r \in Request : req[r] = "running"
  /\ Len(queue) < MaxQueue
  /\ cooldown' = shown /\ queue' = Append(queue, shown)
  /\ announced' = IF shown > announced THEN shown ELSE announced
  /\ UNCHANGED <<now, inflight, tokens, req, permits, saved, grants, unsaved, withdrawn, faults>>

\* A bug: snapshots are written in no order.
WriteAny ==
  /\ queue # <<>>
  /\ \E i \in DOMAIN queue : saved' = queue[i] /\ queue' = RemoveAt(queue, i)
  /\ UNCHANGED <<now, inflight, tokens, cooldown, req, permits, grants, announced, unsaved,
                 withdrawn, faults>>

\* queuePersistedRateLimit: one write after the other; one that fails is not repeated.
WriteCooldown ==
  /\ queue # <<>> /\ queue' = Tail(queue)
  /\ \/ saved' = Head(queue) /\ UNCHANGED <<unsaved, faults>>
     \/ faults < MaxFaults /\ faults' = faults + 1 /\ unsaved' = TRUE /\ UNCHANGED saved
  /\ UNCHANGED <<now, inflight, tokens, cooldown, req, permits, grants, announced, withdrawn>>

\* The process ends and a new one restores what the row says.
Restart ==
  /\ faults < MaxFaults /\ faults' = faults + 1
  /\ cooldown' = saved /\ unsaved' = (unsaved \/ queue # <<>>)
  /\ inflight' = 0 /\ tokens' = burstLimit /\ queue' = <<>>
  /\ req' = [r \in Request |-> "idle"] /\ permits' = [k \in Key |-> <<>>]
  /\ granted' = 0 /\ before' = [t \in 0..MaxTime |-> 0] /\ withdrawn' = FALSE
  /\ UNCHANGED <<now, saved, announced>>

Next ==
  \/ Tick \/ WriteCooldown \/ Restart
  \/ \E r \in Request : Issue(r) \/ Acquire(r) \/ Finish(r) \/ Withdraw(r)
  \/ \E delay \in 0..MaxDelay : RecordResponse(delay)

Spec == Init /\ [][Next]_vars

-----------------------------------------------------------------------------
(***************************************************************************)
(* Properties.                                                             *)
(***************************************************************************)
\* The permits granted since the tick began.
Granted(from) == granted - before[from]

\* An origin never sees more than its number of requests at once, nor, in any stretch of
\* time, more than the burst and the rate allow, however requests wait, fail and end; a
\* page that drops a request waiting behind another of the same URL gives the other's place
\* away.
TrafficWithinBudget ==
  /\ ~withdrawn => Cardinality({r \in Request : req[r] = "running"}) <= MaxInflight
  /\ \A from \in 0..now : Granted(from) <= burstLimit + Rate * (now - from)

\* No request goes out before the end of a cooldown that a response has asked for, in this
\* process or, when its snapshots were written, in one before it.
GrantsAfterCooldown ==
  (\E r \in Request : req[r] = "waiting" /\ req'[r] = "running") => announced <= now \/ unsaved

\* Every step of acquire is such a step.
CooldownOutlivesTheProcess == [][GrantsAfterCooldown]_vars
=============================================================================
