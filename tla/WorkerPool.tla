----------------------------- MODULE WorkerPool -----------------------------
(***************************************************************************)
(* One call of WorkerPoolScheduler.run: jobs are reserved for workers      *)
(* within the global, per-origin and per-proxy limits, proxies are chosen  *)
(* by priority among those whose circuit breaker lets them, origins rest   *)
(* after a 429 or 503 (packages/archive-core/src/scheduler.ts).            *)
(*                                                                         *)
(* The scheduler runs on one thread.  A scheduling pass (pc = "pass") and  *)
(* the decision what to wait for (pc = "decide") have no await in them, so *)
(* no executor settles meanwhile; executors settle and observe responses   *)
(* while the loop awaits a worker.  The clock does not stop for either:    *)
(* every look at a time stamp reads it anew.                               *)
(*                                                                         *)
(* Abstractions.  A proxy here is one that is enabled, healthy and has its *)
(* credentials; which of several candidates of one priority is taken       *)
(* (weights, load) is left open.  A time stamp is "ahead" of the clock or  *)
(* "past".  In direct mode there are no proxies to choose from; this is    *)
(* the proxy mode.                                                         *)
(***************************************************************************)
EXTENDS Naturals, FiniteSets, SequencesExt

CONSTANTS Jobs,              \* the sequence of jobs given to run
          Proxy, Origin,
          OriginOf,          \* [job -> Origin]
          Request,           \* [job -> Proxy, by affinity or by name, or AnyProxy]
          AnyProxy,
          Refused,           \* jobs whose named proxy contradicts their Session's
          ProxyPriority,     \* [Proxy -> Nat], lower first
          ProxyCapacity,     \* [Proxy -> workers it may have]
          GlobalLimit, OriginLimit,
          FailureThreshold, HalfOpenMaxProbes

Job == Range(Jobs)

ASSUME LimitAssumption ==
  /\ {GlobalLimit, OriginLimit, FailureThreshold, HalfOpenMaxProbes} \subseteq Nat \ {0}
  /\ ProxyCapacity \in [Proxy -> Nat \ {0}] /\ ProxyPriority \in [Proxy -> Nat]
ASSUME JobAssumption ==
  /\ Jobs \in Seq(Job) /\ IsInjective(Jobs) /\ Refused \subseteq Job
  /\ OriginOf \in [Job -> Origin] /\ Request \in [Job -> Proxy \cup {AnyProxy}]
  /\ AnyProxy \notin Proxy

VARIABLES
  pc,        \* where the loop of run is
  pending,   \* jobs not yet reserved, in order
  running,   \* the reservations held by workers
  completed, failed, skipped, blocked, \* the lists run returns
  cancelled, \* the local flag of run
  pages,     \* originPages
  load,      \* activeWorkers of every proxy
  circuit,   \* the ProxyCircuitBreaker of every proxy
  cooldown   \* whether an origin's cooldownUntilMs is ahead

lists == <<completed, failed, skipped, blocked>>
counters == <<pages, load>>
vars == <<pc, pending, running, lists, cancelled, counters, circuit, cooldown>>

Reservation == [job : Job, proxy : Proxy, kind : {"plain", "probe"}]

Circuit == [state : {"closed", "open", "half-open"}, failures : 0..Len(Jobs) + FailureThreshold,
            openedUntil : {"ahead", "past"}, probes : 0..HalfOpenMaxProbes]

TypeOK ==
  /\ pc \in {"pass", "decide", "await", "sleep", "done"}
  /\ Range(pending) \subseteq Job
  /\ running \subseteq Reservation
  /\ \A list \in {completed, failed, skipped, blocked} : list \subseteq Job
  /\ cancelled \in BOOLEAN
  /\ pages \in [Origin -> 0..OriginLimit]
  /\ \A p \in Proxy : load[p] \in 0..ProxyCapacity[p]
  /\ circuit \in [Proxy -> Circuit]
  /\ cooldown \in [Origin -> {"none", "ahead"}]

Init ==
  /\ pc = "pass" /\ pending = Jobs /\ running = {}
  /\ completed = {} /\ failed = {} /\ skipped = {} /\ blocked = {}
  /\ cancelled = FALSE
  /\ pages = [o \in Origin |-> 0] /\ load = [p \in Proxy |-> 0]
  /\ circuit = [p \in Proxy |-> [state |-> "closed", failures |-> 0,
                                 openedUntil |-> "past", probes |-> 0]]
  /\ cooldown = [o \in Origin |-> "none"]

-----------------------------------------------------------------------------
(***************************************************************************)
(* ProxyCircuitBreaker.                                                    *)
(***************************************************************************)
Fewer(n) == IF n = 0 THEN 0 ELSE n - 1

\* canSchedule changes the state as it looks: an open circuit whose time has come
\* is half open from then on.
Looked(c) ==
  IF c.state = "open" /\ c.openedUntil = "past" THEN [c EXCEPT !.state = "half-open"] ELSE c

LetsThrough(c) ==
  c.state = "closed" \/ (c.state = "half-open" /\ c.probes < HalfOpenMaxProbes)

ProbeBegun(c) == IF c.state = "half-open" THEN [c EXCEPT !.probes = @ + 1] ELSE c

\* recordSuccess closes the circuit whatever it was.
AfterSuccess(c) ==
  [state |-> "closed", failures |-> 0, openedUntil |-> "past",
   probes |-> IF c.state = "half-open" THEN Fewer(c.probes) ELSE c.probes]

Opened(failures, probes) ==
  [state |-> "open", failures |-> failures, openedUntil |-> "ahead", probes |-> probes]

\* Mutant: the probe that failed is still counted.
AfterFailureProbing(c) ==
  IF c.state = "half-open" THEN Opened(FailureThreshold, c.probes)
  ELSE IF c.failures + 1 >= FailureThreshold THEN Opened(c.failures + 1, c.probes)
  ELSE [c EXCEPT !.failures = @ + 1]

\* recordFailure
AfterFailure(c) ==
  IF c.state = "half-open" THEN Opened(FailureThreshold, Fewer(c.probes))
  ELSE IF c.failures + 1 >= FailureThreshold THEN Opened(c.failures + 1, c.probes)
  ELSE [c EXCEPT !.failures = @ + 1]

\* cancelProbe
AfterCancel(c) == IF c.state = "half-open" THEN [c EXCEPT !.probes = Fewer(@)] ELSE c

-----------------------------------------------------------------------------
(***************************************************************************)
(* tryReserveWorker.                                                       *)
(***************************************************************************)
\* The limits that are looked at before any proxy is.
MayTry(j) ==
  /\ Cardinality(running) < GlobalLimit
  /\ pages[OriginOf[j]] < OriginLimit
  /\ cooldown[OriginOf[j]] = "none"

\* Proxies with room that the job may use: their circuits are looked at.
Considered(j) ==
  IF ~MayTry(j) \/ j \in Refused THEN {}
  ELSE {p \in Proxy : Request[j] \in {AnyProxy, p} /\ load[p] < ProxyCapacity[p]}

Eligible(j) == {p \in Considered(j) : LetsThrough(Looked(circuit[p]))}

Candidates(j) == {p \in Eligible(j) : \A q \in Eligible(j) : ProxyPriority[p] <= ProxyPriority[q]}

Throws(j) == MayTry(j) /\ j \in Refused
Reserves(j) == Candidates(j) # {}

\* The first job of the pass that is not merely passed over.
IsNext(i) ==
  /\ Throws(pending[i]) \/ Reserves(pending[i])
  /\ \A k \in 1..(i - 1) : ~Throws(pending[k]) /\ ~Reserves(pending[k])

\* The circuits after tryReserveWorker has been called for a set of jobs.
LookedAt(jobs) ==
  [p \in Proxy |-> IF \E j \in jobs : p \in Considered(j) THEN Looked(circuit[p]) ELSE circuit[p]]

Tried(i) == {pending[k] : k \in 1..i}

-----------------------------------------------------------------------------
(***************************************************************************)
(* The scheduling pass of run.                                             *)
(***************************************************************************)
Passing == pc = "pass" /\ ~cancelled

\* Mutant: whichever job was started, the first one is taken off the list.
WithoutFirst(i) == Tail(pending)

Without(i) == RemoveAt(pending, i)

Start(i, p) ==
  LET j == pending[i]
      c == LookedAt(Tried(i)) IN
  /\ Passing /\ IsNext(i) /\ p \in Candidates(j)
  /\ pending' = Without(i)
  /\ running' = running \cup {[job |-> j, proxy |-> p,
       kind |-> IF c[p].state = "half-open" THEN "probe" ELSE "plain"]}
  /\ pages' = [pages EXCEPT ![OriginOf[j]] = @ + 1]
  /\ load' = [load EXCEPT ![p] = @ + 1]
  /\ circuit' = [c EXCEPT ![p] = ProbeBegun(@)]
  /\ UNCHANGED <<pc, lists, cancelled, cooldown>>

Refuse(i) ==
  /\ Passing /\ IsNext(i) /\ Throws(pending[i])
  /\ pending' = Without(i)
  /\ blocked' = blocked \cup {pending[i]}
  /\ circuit' = LookedAt(Tried(i))
  /\ UNCHANGED <<pc, running, completed, failed, skipped, cancelled, counters, cooldown>>

SkipPending ==
  /\ pc = "pass" /\ cancelled /\ pending # <<>>
  /\ skipped' = skipped \cup Range(pending)
  /\ pending' = <<>>
  /\ UNCHANGED <<pc, running, completed, failed, blocked, cancelled, counters, circuit, cooldown>>

\* Nothing more can be started; while every worker is busy nothing is tried.
PassOver ==
  /\ pc = "pass"
  /\ IF cancelled THEN pending = <<>> ELSE ~\E i \in DOMAIN pending : IsNext(i)
  /\ pending # <<>> \/ running # {}
  /\ pc' = "decide"
  /\ circuit' = LookedAt(Range(pending))
  /\ UNCHANGED <<pending, running, lists, cancelled, counters, cooldown>>

AwaitWorker ==
  /\ pc = "decide" /\ running # {}
  /\ pc' = "await"
  /\ UNCHANGED <<pending, running, lists, cancelled, counters, circuit, cooldown>>

Cooling == {i \in DOMAIN pending : cooldown[OriginOf[pending[i]]] = "ahead"}

AwaitCooldown ==
  /\ pc = "decide" /\ running = {} /\ Cooling # {}
  /\ pc' = "sleep"
  /\ UNCHANGED <<pending, running, lists, cancelled, counters, circuit, cooldown>>

\* Mutant: work that nothing can take is kept.
NeverGivenUp == FALSE

\* Nothing runs, and no pending job is seen to wait for a cooldown: none does, or the
\* first one's is over when the clock is read once more, whatever the others wait for.
NothingToWaitFor ==
  /\ running = {}
  /\ IF Cooling = {}
     THEN UNCHANGED cooldown
     ELSE cooldown' = [cooldown EXCEPT ![OriginOf[pending[Min(Cooling)]]] = "none"]

BlockPending ==
  /\ pc = "decide" /\ NothingToWaitFor
  /\ blocked' = blocked \cup Range(pending)
  /\ pending' = <<>>
  /\ pc' = "pass"
  /\ UNCHANGED <<running, completed, failed, skipped, cancelled, counters, circuit>>

Finish ==
  /\ pc = "pass" /\ pending = <<>> /\ running = {}
  /\ pc' = "done"
  /\ UNCHANGED <<pending, running, lists, cancelled, counters, circuit, cooldown>>

-----------------------------------------------------------------------------
(***************************************************************************)
(* While the loop awaits.                                                  *)
(***************************************************************************)

PagesWithout(o) == [pages EXCEPT ![o] = Fewer(@)]

\* releaseWorker, then the loop goes on.
Release(r, c) ==
  /\ running' = running \ {r}
  /\ pages' = PagesWithout(OriginOf[r.job])
  /\ load' = [load EXCEPT ![r.proxy] = Fewer(@)]
  /\ circuit' = [circuit EXCEPT ![r.proxy] = c]
  /\ pc' = "pass"
  /\ UNCHANGED <<pending, blocked, cooldown>>

Cancelled(r) == IF r.kind = "probe" THEN AfterCancel(circuit[r.proxy]) ELSE circuit[r.proxy]

Completes(r) ==
  /\ pc = "await"
  /\ Release(r, AfterSuccess(circuit[r.proxy]))
  /\ completed' = completed \cup {r.job}
  /\ UNCHANGED <<failed, skipped, cancelled>>

\* An error of the proxy counts against its circuit; any other does not.
FailsByProxy(r) ==
  /\ pc = "await"
  /\ Release(r, AfterFailure(circuit[r.proxy]))
  /\ failed' = failed \cup {r.job}
  /\ UNCHANGED <<completed, skipped, cancelled>>

\* SCHEDULER_CANCELLED cancels the whole run.
FailsOtherwise(r, cancels) ==
  /\ pc = "await"
  /\ Release(r, Cancelled(r))
  /\ failed' = failed \cup {r.job}
  /\ cancelled' = (cancelled \/ cancels)
  /\ UNCHANGED <<completed, skipped>>

\* SCHEDULER_CLAIM_SKIPPED: another worker has the job.
Skips(r) ==
  /\ pc = "await"
  /\ Release(r, Cancelled(r))
  /\ skipped' = skipped \cup {r.job}
  /\ UNCHANGED <<completed, failed, cancelled>>

Settles(r) ==
  \/ Completes(r) \/ FailsByProxy(r) \/ Skips(r)
  \/ FailsOtherwise(r, TRUE) \/ FailsOtherwise(r, FALSE)

\* recordResponse of a 429 or 503 seen by a worker.
ObserveRateLimit(r) ==
  /\ pc = "await" /\ cooldown[OriginOf[r.job]] = "none"
  /\ cooldown' = [cooldown EXCEPT ![OriginOf[r.job]] = "ahead"]
  /\ UNCHANGED <<pc, pending, running, lists, cancelled, counters, circuit>>

\* getProxyThroughput: a snapshot looks at every circuit.
Snapshot ==
  /\ pc = "await" /\ \E p \in Proxy : Looked(circuit[p]) # circuit[p]
  /\ circuit' = [p \in Proxy |-> Looked(circuit[p])]
  /\ UNCHANGED <<pc, pending, running, lists, cancelled, counters, cooldown>>

Wake ==
  /\ pc = "sleep"
  /\ pc' = "pass"
  /\ UNCHANGED <<pending, running, lists, cancelled, counters, circuit, cooldown>>

\* The caller aborts; run sees it when its loop goes round.
Abort ==
  /\ pc \in {"await", "sleep"} /\ ~cancelled
  /\ cancelled' = TRUE
  /\ UNCHANGED <<pc, pending, running, lists, counters, circuit, cooldown>>

\* External: the clock reaches cooldownUntilMs, openedUntilMs.
CooldownEnds(o) ==
  /\ pc # "done" /\ cooldown[o] = "ahead"
  /\ cooldown' = [cooldown EXCEPT ![o] = "none"]
  /\ UNCHANGED <<pc, pending, running, lists, cancelled, counters, circuit>>

OpenTimeEnds(p) ==
  /\ pc # "done" /\ circuit[p].openedUntil = "ahead"
  /\ circuit' = [circuit EXCEPT ![p].openedUntil = "past"]
  /\ UNCHANGED <<pc, pending, running, lists, cancelled, counters, cooldown>>

-----------------------------------------------------------------------------
Loop ==
  \/ \E i \in DOMAIN pending : Refuse(i) \/ \E p \in Proxy : Start(i, p)
  \/ SkipPending \/ PassOver \/ AwaitWorker \/ AwaitCooldown \/ BlockPending \/ Finish \/ Wake

Next ==
  \/ Loop
  \/ \E r \in running : Settles(r) \/ ObserveRateLimit(r)
  \/ Snapshot \/ Abort
  \/ \E o \in Origin : CooldownEnds(o)
  \/ \E p \in Proxy : OpenTimeEnds(p)

Spec == Init /\ [][Next]_vars

\* The loop goes on, every executor settles sooner or later (it is bound by the
\* timeouts of the browser), and cooldowns end.
FairSpec ==
  /\ Spec
  /\ WF_vars(Loop)
  /\ WF_vars(\E r \in running : Settles(r))
  /\ \A o \in Origin : WF_vars(CooldownEnds(o))

-----------------------------------------------------------------------------
(***************************************************************************)
(* Properties.                                                             *)
(***************************************************************************)
\* The counters that decide about capacity are kept beside the reservations and
\* clamped at zero: they never drift from what is running, so that no limit is
\* passed and no capacity is lost for good.
LoadAgrees ==
  /\ Cardinality(running) <= GlobalLimit
  /\ \A o \in Origin : /\ pages[o] = Cardinality({r \in running : OriginOf[r.job] = o})
                      /\ pages[o] <= OriginLimit
  /\ \A p \in Proxy : /\ load[p] = Cardinality({r \in running : r.proxy = p})
                     /\ load[p] <= ProxyCapacity[p]

\* A circuit is never stuck half open: with no probe running there is room for
\* one, although results of workers that are no probes, and of probes that come
\* after the first, move the count of probes too.
ProbeNeverStuck ==
  \A p \in Proxy :
    circuit[p].state = "half-open" /\ (\A r \in running : r.proxy = p => r.kind = "plain")
      => circuit[p].probes < HalfOpenMaxProbes

\* tryReserve, release and the circuits: no capacity is lost or invented for good.
CapacityIsKept == LoadAgrees /\ ProbeNeverStuck

\* Every job given to run is accounted for exactly once, whatever was cancelled,
\* refused, blocked or lost on the way.
EveryJobAccounted ==
  LET parts == <<Range(pending), {r.job : r \in running}, completed, failed, skipped, blocked>> IN
  /\ Job = UNION Range(parts)
  /\ \A a, b \in DOMAIN parts : a # b => parts[a] \cap parts[b] = {}

\* run returns: no mix of cooldowns, open circuits, refusals and failures leaves
\* the loop waiting for something that does not come.
RunEnds == <>(pc = "done")

\* What follows are two statements of the documentation that the code does not keep;
\* TLC refutes each as soon as a configuration like WorkerPool_run.cfg names it.

\* PHASE_16_SECURITY_REVIEW.md: an open circuit permits one half-open probe (the
\* default of halfOpenMaxProbes).  A worker reserved before the circuit opened
\* reports into the half-open state, is counted as the probe that ended, and a
\* second probe starts beside the first.
ProbesAreBounded ==
  \A p \in Proxy :
    Cardinality({r \in running : r.proxy = p /\ r.kind = "probe"}) <= HalfOpenMaxProbes

\* ADR-059: cooldown waits are observable, and it is an unavailable or circuit-open
\* proxy that may block work.  The pass reads the clock to pass a cooling job over
\* and the decision reads it again to find what to wait for: a cooldown that ends
\* in between leaves nothing to wait for, and the job is blocked for good.
BlockedByOpenCircuits ==
  [][\A j \in blocked' \ (blocked \cup Refused) :
       \E p \in Proxy : Request[j] \in {AnyProxy, p} /\ circuit[p].state # "closed"]_vars
=============================================================================
