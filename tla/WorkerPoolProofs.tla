-------------------------- MODULE WorkerPoolProofs --------------------------
(***************************************************************************)
(* What WorkerPoolScheduler.run keeps, for any jobs, proxies, origins and  *)
(* limits: its counters agree with the reservations, its half-open         *)
(* circuits have room, and it loses and duplicates no job. The second part *)
(* is about the network budget that its jobs load through, OriginBudget:   *)
(* permits, windows and the cooldowns that outlive the process; the third  *)
(* about the commands on the proxies it deals out, ProxyManager.           *)
(***************************************************************************)
EXTENDS WorkerPool, FiniteSetTheorems, SequenceTheorems, TLAPS

-----------------------------------------------------------------------------
(***************************************************************************)
(* The inductive invariant.                                                *)
(***************************************************************************)
Breaker == [state : {"closed", "open", "half-open"}, failures : Nat,
            openedUntil : {"ahead", "past"}, probes : 0..HalfOpenMaxProbes]

PoolTypeOK ==
  /\ pending \in Seq(Job) /\ IsInjective(pending)
  /\ running \subseteq Reservation /\ IsFiniteSet(running)
  /\ pages \in [Origin -> Nat] /\ load \in [Proxy -> Nat]
  /\ circuit \in [Proxy -> Breaker]

\* The reservations that the counter of an origin and that of a proxy are about.
AtOrigin(held, o) == {r \in held : OriginOf[r.job] = o}
AtProxy(held, p) == {r \in held : r.proxy = p}
JobsOf(held) == {r.job : r \in held}

\* No job is reserved twice.
OneReservation == \A r, s \in running : r.job = s.job => r = s

\* The six places are a partition of the jobs.
Parted(w, r, c, f, s, b) ==
  /\ Job = w \cup r \cup c \cup f \cup s \cup b
  /\ w \cap (r \cup c \cup f \cup s \cup b) = {}
  /\ r \cap (c \cup f \cup s \cup b) = {}
  /\ c \cap (f \cup s \cup b) = {}
  /\ f \cap (s \cup b) = {}
  /\ s \cap b = {}

Accounted == Parted(Range(pending), JobsOf(running), completed, failed, skipped, blocked)

\* A circuit whose probes are all taken is half open, and one of them is running:
\* every way out of the half-open state gives a probe back, and only the result of
\* a probe leaves the state half open with a probe less.
FullOf(c, held, p) ==
  c.probes = HalfOpenMaxProbes =>
    c.state = "half-open" /\ \E r \in held : r.proxy = p /\ r.kind = "probe"

FullHasProbe == \A p \in Proxy : FullOf(circuit[p], running, p)

PoolInv == PoolTypeOK /\ OneReservation /\ Accounted /\ LoadAgrees /\ FullHasProbe

-----------------------------------------------------------------------------
(***************************************************************************)
(* Sequences without repetition.                                           *)
(***************************************************************************)
\* What removing the i-th element leaves.
LEMMA RemoveAtFacts ==
  ASSUME NEW S, NEW s \in Seq(S), NEW i \in DOMAIN s, IsInjective(s)
  PROVE  /\ RemoveAt(s, i) \in Seq(S) /\ IsInjective(RemoveAt(s, i))
         /\ Range(RemoveAt(s, i)) = Range(s) \ {s[i]}
         /\ s[i] \in Range(s)
<1> DEFINE t == [k \in 1..(Len(s) - 1) |-> IF k < i THEN s[k] ELSE s[k + 1]]
<1>1. i \in 1..Len(s) /\ Len(s) \in Nat /\ DOMAIN s = 1..Len(s) /\ s \in [1..Len(s) -> S]
  OBVIOUS
<1>2. RemoveAt(s, i) = t
  <2> DEFINE head == SubSeq(s, 1, i - 1)
             rest == SubSeq(s, i + 1, Len(s))
  <2>1. /\ head \in Seq(S) /\ Len(head) = i - 1
        /\ \A k \in 1..(i - 1) : head[k] = s[k]
    BY <1>1
  <2>2. /\ rest \in Seq(S) /\ Len(rest) = Len(s) - i
        /\ \A k \in 1..(Len(s) - i) : rest[k] = s[i + k]
    <3>1. \A k \in (i + 1)..Len(s) : s[k] \in S
      BY <1>1
    <3>2. /\ rest \in Seq(S)
          /\ Len(rest) = IF i + 1 <= Len(s) THEN Len(s) - (i + 1) + 1 ELSE 0
          /\ \A k \in 1..(Len(s) - (i + 1) + 1) : rest[k] = s[i + 1 + k - 1]
      BY <1>1, <3>1, SubSeqProperties
    <3> HIDE DEF rest
    <3>3. ASSUME NEW k \in 1..(Len(s) - i) PROVE rest[k] = s[i + k]
      <4>1. k \in 1..(Len(s) - (i + 1) + 1) /\ i + 1 + k - 1 = i + k
        BY <1>1
      <4>2. QED
        BY <3>2, <4>1
    <3>4. Len(rest) = Len(s) - i
      BY <1>1, <3>2
    <3>5. QED
      BY <3>2, <3>3, <3>4
  <2> HIDE DEF head, rest
  <2>3. /\ head \o rest \in Seq(S) /\ Len(head \o rest) = Len(s) - 1
        /\ \A k \in 1..(Len(s) - 1) :
             (head \o rest)[k] = IF k < i THEN head[k] ELSE rest[k - (i - 1)]
    <3>1. /\ head \o rest \in Seq(S) /\ Len(head \o rest) = Len(head) + Len(rest)
          /\ \A k \in 1..(Len(head) + Len(rest)) :
               (head \o rest)[k] = IF k <= Len(head) THEN head[k] ELSE rest[k - Len(head)]
      BY <2>1, <2>2, ConcatProperties
    <3>2. /\ Len(head) = i - 1 /\ Len(head) + Len(rest) = Len(s) - 1
          /\ \A k \in 1..(Len(s) - 1) : k <= Len(head) <=> k < i
      BY <1>1, <2>1, <2>2
    <3>3. QED
      BY ONLY <3>1, <3>2
  <2>4. ASSUME NEW k \in 1..(Len(s) - 1) PROVE (head \o rest)[k] = t[k]
    <3>1. CASE k < i
      BY <1>1, <2>1, <2>3, <3>1
    <3>2. CASE ~(k < i)
      <4>1. k - (i - 1) \in 1..(Len(s) - i) /\ i + (k - (i - 1)) = k + 1
        BY <1>1, <3>2
      <4>2. QED
        BY <2>2, <2>3, <3>2, <4>1
    <3>3. QED
      BY <3>1, <3>2
  <2>5. head \o rest = t
    <3>1. t \in Seq(S) /\ Len(t) = Len(s) - 1
      BY <1>1
    <3> HIDE DEF t
    <3>2. QED
      BY <1>1, <2>3, <2>4, <3>1, SeqEqual
  <2>6. QED
    BY <2>5 DEF RemoveAt, head, rest
<1>3. t \in Seq(S) /\ DOMAIN t = 1..(Len(s) - 1)
  BY <1>1
<1>4. IsInjective(t)
  BY <1>1, <1>3 DEF IsInjective
<1>5. ASSUME NEW x \in Range(t) PROVE x \in Range(s) \ {s[i]}
  <2>1. PICK k \in 1..(Len(s) - 1) : x = t[k]
    BY <1>3 DEF Range
  <2>2. PICK m \in 1..Len(s) : x = s[m] /\ m # i
    BY <1>1, <2>1
  <2>3. QED
    BY <1>1, <2>2 DEF Range, IsInjective
<1>6. ASSUME NEW x \in Range(s) \ {s[i]} PROVE x \in Range(t)
  <2>1. PICK m \in 1..Len(s) : x = s[m] /\ m # i
    BY <1>1 DEF Range
  <2>2. CASE m < i
    BY <1>1, <1>3, <2>1, <2>2 DEF Range
  <2>3. CASE m > i
    <3>1. m - 1 \in DOMAIN t /\ t[m - 1] = x
      BY <1>1, <1>3, <2>1, <2>3
    <3>2. QED
      BY <3>1 DEF Range
  <2>4. QED
    BY <1>1, <2>1, <2>2, <2>3
<1>7. s[i] \in Range(s)
  BY DEF Range
<1>8. QED
  BY <1>2, <1>3, <1>4, <1>5, <1>6, <1>7

-----------------------------------------------------------------------------
(***************************************************************************)
(* The circuit breaker.                                                    *)
(***************************************************************************)
\* canSchedule takes no probe and opens no circuit.
LEMMA LookedFacts ==
  ASSUME NEW c \in Breaker
  PROVE  /\ Looked(c) \in Breaker /\ Looked(c).probes = c.probes
         /\ c.state = "half-open" => Looked(c).state = "half-open"
BY DEF Looked, Breaker

\* A probe begins only where there is room for it.
LEMMA ProbeBegunFacts ==
  ASSUME NEW c \in Breaker, LetsThrough(c)
  PROVE  /\ ProbeBegun(c) \in Breaker /\ ProbeBegun(c).state = c.state
         /\ c.state # "half-open" => ProbeBegun(c) = c
BY LimitAssumption DEF ProbeBegun, LetsThrough, Breaker

\* A circuit that a result has been recorded in is not full.
LEMMA ResultFacts ==
  ASSUME NEW c \in Breaker, NEW held, NEW p, FullOf(c, held, p)
  PROVE  /\ AfterSuccess(c) \in Breaker /\ AfterSuccess(c).probes < HalfOpenMaxProbes
         /\ AfterFailure(c) \in Breaker /\ AfterFailure(c).probes < HalfOpenMaxProbes
         /\ AfterCancel(c) \in Breaker /\ AfterCancel(c).probes < HalfOpenMaxProbes
<1>1. /\ c.probes \in 0..HalfOpenMaxProbes /\ HalfOpenMaxProbes \in Nat \ {0}
      /\ FailureThreshold \in Nat /\ c.failures \in Nat
      /\ c.state # "half-open" => c.probes < HalfOpenMaxProbes
  BY LimitAssumption DEF Breaker, FullOf
<1>2. Fewer(c.probes) \in 0..HalfOpenMaxProbes /\ Fewer(c.probes) < HalfOpenMaxProbes
  BY <1>1 DEF Fewer
<1>3. AfterSuccess(c) \in Breaker /\ AfterSuccess(c).probes < HalfOpenMaxProbes
  BY <1>1, <1>2 DEF AfterSuccess, Breaker
<1>4. AfterFailure(c) \in Breaker /\ AfterFailure(c).probes < HalfOpenMaxProbes
  BY <1>1, <1>2 DEF AfterFailure, Opened, Breaker
<1>5. AfterCancel(c) \in Breaker /\ AfterCancel(c).probes < HalfOpenMaxProbes
  BY <1>1, <1>2 DEF AfterCancel, Breaker
<1>6. QED
  BY <1>3, <1>4, <1>5

-----------------------------------------------------------------------------
(***************************************************************************)
(* Counting reservations.                                                  *)
(***************************************************************************)
\* A reservation more counts for its origin and its proxy, and for no other.
CountsOneMore(held, r) ==
  /\ Cardinality(held) \in Nat /\ Cardinality(held \cup {r}) = Cardinality(held) + 1
  /\ \A o : /\ Cardinality(AtOrigin(held, o)) \in Nat
            /\ Cardinality(AtOrigin(held \cup {r}, o)) =
                 IF OriginOf[r.job] = o THEN Cardinality(AtOrigin(held, o)) + 1
                 ELSE Cardinality(AtOrigin(held, o))
  /\ \A p : /\ Cardinality(AtProxy(held, p)) \in Nat
            /\ Cardinality(AtProxy(held \cup {r}, p)) =
                 IF r.proxy = p THEN Cardinality(AtProxy(held, p)) + 1
                 ELSE Cardinality(AtProxy(held, p))

LEMMA CountOneMore ==
  ASSUME NEW held, IsFiniteSet(held), NEW r, r \notin held
  PROVE  IsFiniteSet(held \cup {r}) /\ CountsOneMore(held, r)
<1>1. ASSUME NEW part \in SUBSET held
      PROVE  /\ Cardinality(part) \in Nat
             /\ Cardinality(part \cup {r}) = Cardinality(part) + 1
  <2>1. IsFiniteSet(part) /\ r \notin part
    BY <1>1, FS_Subset
  <2>2. QED
    BY <2>1, FS_CardinalityType, FS_AddElement
<1>2. IsFiniteSet(held \cup {r})
  BY FS_AddElement
<1>3. ASSUME NEW o
      PROVE  /\ AtOrigin(held, o) \in SUBSET held
             /\ AtOrigin(held \cup {r}, o) =
                  IF OriginOf[r.job] = o THEN AtOrigin(held, o) \cup {r} ELSE AtOrigin(held, o)
  BY DEF AtOrigin
<1>4. ASSUME NEW p
      PROVE  /\ AtProxy(held, p) \in SUBSET held
             /\ AtProxy(held \cup {r}, p) =
                  IF r.proxy = p THEN AtProxy(held, p) \cup {r} ELSE AtProxy(held, p)
  BY DEF AtProxy
<1>5. ASSUME NEW o
      PROVE  /\ Cardinality(AtOrigin(held, o)) \in Nat
             /\ Cardinality(AtOrigin(held \cup {r}, o)) =
                  IF OriginOf[r.job] = o THEN Cardinality(AtOrigin(held, o)) + 1
                  ELSE Cardinality(AtOrigin(held, o))
  BY <1>1, <1>3
<1>6. ASSUME NEW p
      PROVE  /\ Cardinality(AtProxy(held, p)) \in Nat
             /\ Cardinality(AtProxy(held \cup {r}, p)) =
                  IF r.proxy = p THEN Cardinality(AtProxy(held, p)) + 1
                  ELSE Cardinality(AtProxy(held, p))
  BY <1>1, <1>4
<1>7. held \in SUBSET held
  OBVIOUS
<1>8. Cardinality(held) \in Nat /\ Cardinality(held \cup {r}) = Cardinality(held) + 1
  BY <1>1, <1>7
<1>9. QED
  BY <1>2, <1>5, <1>6, <1>8 DEF CountsOneMore

\* A reservation less: what CountOneMore says of the rest.
LEMMA CountOneLess ==
  ASSUME NEW held, IsFiniteSet(held), NEW r \in held
  PROVE  /\ IsFiniteSet(held \ {r}) /\ (held \ {r}) \cup {r} = held
         /\ CountsOneMore(held \ {r}, r)
<1>1. IsFiniteSet(held \ {r}) /\ r \notin held \ {r} /\ (held \ {r}) \cup {r} = held
  BY FS_RemoveElement
<1>2. QED
  BY <1>1, CountOneMore

-----------------------------------------------------------------------------
(***************************************************************************)
(* Moving a job from one place to another.                                 *)
(***************************************************************************)
LEMMA PartedMoves ==
  ASSUME NEW w, NEW h, NEW c, NEW f, NEW s, NEW b, Parted(w, h, c, f, s, b)
  PROVE  /\ \A j \in w : /\ Parted(w \ {j}, h \cup {j}, c, f, s, b)
                        /\ Parted(w \ {j}, h, c, f, s, b \cup {j})
         /\ Parted({}, h, c, f, s \cup w, b) /\ Parted({}, h, c, f, s, b \cup w)
         /\ \A j \in h : /\ Parted(w, h \ {j}, c \cup {j}, f, s, b)
                        /\ Parted(w, h \ {j}, c, f \cup {j}, s, b)
                        /\ Parted(w, h \ {j}, c, f, s \cup {j}, b)
<1>1. ASSUME NEW j \in w
      PROVE  Parted(w \ {j}, h \cup {j}, c, f, s, b) /\ Parted(w \ {j}, h, c, f, s, b \cup {j})
  BY <1>1 DEF Parted
<1>2. Parted({}, h, c, f, s \cup w, b) /\ Parted({}, h, c, f, s, b \cup w)
  BY DEF Parted
<1>3. ASSUME NEW j \in h
      PROVE  /\ Parted(w, h \ {j}, c \cup {j}, f, s, b)
             /\ Parted(w, h \ {j}, c, f \cup {j}, s, b)
             /\ Parted(w, h \ {j}, c, f, s \cup {j}, b)
  BY <1>3 DEF Parted
<1>4. QED
  BY <1>1, <1>2, <1>3

-----------------------------------------------------------------------------
(***************************************************************************)
(* Steps that move no job.                                                 *)
(***************************************************************************)
\* The circuits may be looked at and their times may pass.
CircuitsLookedAt(next) ==
  /\ next \in [Proxy -> Breaker]
  /\ \A p \in Proxy : /\ next[p].probes = circuit[p].probes
                      /\ circuit[p].state = "half-open" => next[p].state = "half-open"

Quiet == UNCHANGED <<pending, running, lists, counters>> /\ CircuitsLookedAt(circuit')

LEMMA LookedAtFacts ==
  ASSUME PoolTypeOK, NEW jobs
  PROVE  /\ CircuitsLookedAt(LookedAt(jobs))
         /\ \A j \in jobs, p \in Proxy :
              p \in Considered(j) => LookedAt(jobs)[p] = Looked(circuit[p])
BY LookedFacts DEF PoolTypeOK, CircuitsLookedAt, LookedAt

\* A circuit that is full has its probe still.
LEMMA LookedAtStaysFull ==
  ASSUME FullHasProbe, running' = running, CircuitsLookedAt(circuit')
  PROVE  FullHasProbe'
<1>1. SUFFICES ASSUME NEW p \in Proxy PROVE FullOf(circuit[p], running, p)'
  BY DEF FullHasProbe
<1>2. /\ circuit'[p].probes = circuit[p].probes
      /\ circuit[p].state = "half-open" => circuit'[p].state = "half-open"
  BY DEF CircuitsLookedAt
<1>3. FullOf(circuit[p], running, p)
  BY DEF FullHasProbe
<1>4. QED
  BY <1>2, <1>3 DEF FullOf

LEMMA QuietKeeps ==
  ASSUME PoolInv, Quiet
  PROVE  PoolInv'
<1>1. /\ pending' = pending /\ running' = running /\ pages' = pages /\ load' = load
      /\ completed' = completed /\ failed' = failed /\ skipped' = skipped /\ blocked' = blocked
  BY DEF Quiet, lists, counters
<1>2. PoolTypeOK'
  BY <1>1 DEF PoolInv, PoolTypeOK, Quiet, CircuitsLookedAt
<1>3. FullHasProbe'
  BY <1>1, LookedAtStaysFull DEF PoolInv, Quiet
<1>4. OneReservation' /\ Accounted' /\ LoadAgrees'
  BY <1>1 DEF PoolInv, OneReservation, Accounted, LoadAgrees
<1>5. QED
  BY <1>2, <1>3, <1>4 DEF PoolInv

\* Every action of the loop, the workers and the clock that is not about a job.
LEMMA QuietActions ==
  ASSUME PoolInv,
         \/ PassOver \/ AwaitWorker \/ AwaitCooldown \/ Finish \/ Wake \/ Snapshot \/ Abort
         \/ \E r \in running : ObserveRateLimit(r)
         \/ \E o \in Origin : CooldownEnds(o)
         \/ \E p \in Proxy : OpenTimeEnds(p)
  PROVE  Quiet
<1>1. PoolTypeOK /\ circuit \in [Proxy -> Breaker]
  BY DEF PoolInv, PoolTypeOK
<1>2. CASE PassOver
  BY <1>1, <1>2, LookedAtFacts DEF PassOver, Quiet
<1>3. CASE Snapshot
  BY <1>1, <1>3, LookedFacts DEF Snapshot, Quiet, CircuitsLookedAt
<1>4. ASSUME NEW p \in Proxy, OpenTimeEnds(p) PROVE Quiet
  BY <1>1, <1>4 DEF OpenTimeEnds, Quiet, CircuitsLookedAt, Breaker
<1>5. ASSUME UNCHANGED circuit PROVE CircuitsLookedAt(circuit')
  BY <1>1, <1>5 DEF CircuitsLookedAt
<1>6. CASE \/ AwaitWorker \/ AwaitCooldown \/ Finish \/ Wake \/ Abort
           \/ \E r \in running : ObserveRateLimit(r)
           \/ \E o \in Origin : CooldownEnds(o)
  BY <1>5, <1>6 DEF AwaitWorker, AwaitCooldown, Finish, Wake, Abort, ObserveRateLimit,
                    CooldownEnds, Quiet
<1>7. QED
  BY <1>2, <1>3, <1>4, <1>6

-----------------------------------------------------------------------------
(***************************************************************************)
(* Reserving a worker.                                                     *)
(***************************************************************************)
\* A waiting job has no reservation and is in none of the lists.
LEMMA StartKeeps ==
  ASSUME PoolInv, NEW i \in DOMAIN pending, NEW p \in Proxy, Start(i, p)
  PROVE  PoolInv'
<1> DEFINE j == pending[i]
           c == LookedAt(Tried(i))
           b == ProbeBegun(c[p])
           r == [job |-> j, proxy |-> p,
                 kind |-> IF c[p].state = "half-open" THEN "probe" ELSE "plain"]
<1>1. /\ PoolTypeOK /\ pending \in Seq(Job) /\ IsInjective(pending)
      /\ running \subseteq Reservation /\ IsFiniteSet(running)
      /\ pages \in [Origin -> Nat] /\ load \in [Proxy -> Nat] /\ circuit \in [Proxy -> Breaker]
  BY DEF PoolInv, PoolTypeOK
<1>2. /\ pending' = RemoveAt(pending, i) /\ running' = running \cup {r}
      /\ pages' = [pages EXCEPT ![OriginOf[j]] = @ + 1]
      /\ load' = [load EXCEPT ![p] = @ + 1]
      /\ circuit' = [c EXCEPT ![p] = b]
      /\ completed' = completed /\ failed' = failed /\ skipped' = skipped /\ blocked' = blocked
  BY DEF Start, Without, lists
<1>3. /\ Cardinality(running) < GlobalLimit
      /\ pages[OriginOf[j]] < OriginLimit /\ load[p] < ProxyCapacity[p]
      /\ p \in Considered(j) /\ LetsThrough(Looked(circuit[p]))
  BY DEF Start, Candidates, Eligible, Considered, MayTry
<1>4. j \in Job /\ OriginOf[j] \in Origin /\ r \in Reservation
  BY <1>1, JobAssumption DEF Reservation
<1>5. /\ pending' \in Seq(Job) /\ IsInjective(pending')
      /\ Range(pending') = Range(pending) \ {j} /\ j \in Range(pending)
  BY <1>1, <1>2, RemoveAtFacts
<1>6. j \in Tried(i)
  BY <1>1 DEF Tried
<1>7. CircuitsLookedAt(c) /\ c[p] = Looked(circuit[p])
  BY <1>1, <1>3, <1>6, LookedAtFacts
<1>8. j \notin JobsOf(running) /\ r \notin running
  BY <1>5 DEF PoolInv, Accounted, Parted, JobsOf
<1>9. /\ r.job = j /\ r.proxy = p
      /\ c[p].state = "half-open" => r.kind = "probe"
  OBVIOUS
<1> HIDE DEF c, r
<1>10. /\ c[p] \in Breaker /\ c \in [Proxy -> Breaker] /\ b \in Breaker
       /\ b.state = c[p].state /\ (c[p].state # "half-open" => b = c[p])
  BY <1>3, <1>7, ProbeBegunFacts DEF CircuitsLookedAt
<1> HIDE DEF b, j
<1>11. /\ Cardinality(running) \in Nat
       /\ Cardinality(running \cup {r}) = Cardinality(running) + 1
       /\ \A o : /\ Cardinality(AtOrigin(running, o)) \in Nat
                 /\ Cardinality(AtOrigin(running \cup {r}, o)) =
                      IF OriginOf[r.job] = o THEN Cardinality(AtOrigin(running, o)) + 1
                      ELSE Cardinality(AtOrigin(running, o))
       /\ \A q : /\ Cardinality(AtProxy(running, q)) \in Nat
                 /\ Cardinality(AtProxy(running \cup {r}, q)) =
                      IF r.proxy = q THEN Cardinality(AtProxy(running, q)) + 1
                      ELSE Cardinality(AtProxy(running, q))
  <2>1. CountsOneMore(running, r)
    BY <1>1, <1>8, CountOneMore
  <2>2. QED
    BY <2>1 DEF CountsOneMore
<1>12. PoolTypeOK'
  <2>1. IsFiniteSet(running') /\ running' \subseteq Reservation
    BY <1>1, <1>2, <1>4, FS_AddElement
  <2>2. pages' \in [Origin -> Nat] /\ load' \in [Proxy -> Nat]
    BY <1>1, <1>2, <1>4
  <2>3. circuit' \in [Proxy -> Breaker]
    BY <1>2, <1>10
  <2>4. QED
    BY <1>5, <2>1, <2>2, <2>3 DEF PoolTypeOK
<1>13. OneReservation'
  BY <1>2, <1>8, <1>9 DEF PoolInv, OneReservation, JobsOf
<1>14. Accounted'
  <2>1. JobsOf(running') = JobsOf(running) \cup {j}
    BY <1>2, <1>9 DEF JobsOf
  <2>2. Parted(Range(pending), JobsOf(running), completed, failed, skipped, blocked)
    BY DEF PoolInv, Accounted
  <2>3. Parted(Range(pending'), JobsOf(running'), completed, failed, skipped, blocked)
    <3>1. \A k \in Range(pending) :
            Parted(Range(pending) \ {k}, JobsOf(running) \cup {k},
                   completed, failed, skipped, blocked)
      BY <2>2, PartedMoves
    <3>2. QED
      BY <1>5, <2>1, <3>1
  <2>4. QED
    BY <1>2, <2>3 DEF Accounted
<1>15. LoadAgrees'
  <2>1. Cardinality(running') <= GlobalLimit
    BY <1>2, <1>3, <1>11, LimitAssumption
  <2>2. ASSUME NEW o \in Origin
        PROVE  pages'[o] = Cardinality(AtOrigin(running', o)) /\ pages'[o] <= OriginLimit
    <3>1. pages[o] = Cardinality(AtOrigin(running, o)) /\ pages[o] <= OriginLimit
      BY DEF PoolInv, LoadAgrees, AtOrigin
    <3>2. pages'[o] = Cardinality(AtOrigin(running', o))
      BY <1>1, <1>2, <1>4, <1>9, <1>11, <3>1
    <3>3. /\ pages[o] \in Nat /\ OriginLimit \in Nat
          /\ pages'[o] = IF OriginOf[j] = o THEN pages[o] + 1 ELSE pages[o]
      BY <1>1, <1>2, <1>4, LimitAssumption
    <3>4. QED
      BY <1>3, <3>1, <3>2, <3>3
  <2>3. ASSUME NEW q \in Proxy
        PROVE  load'[q] = Cardinality(AtProxy(running', q)) /\ load'[q] <= ProxyCapacity[q]
    <3>1. load[q] = Cardinality(AtProxy(running, q)) /\ load[q] <= ProxyCapacity[q]
      BY DEF PoolInv, LoadAgrees, AtProxy
    <3>2. load'[q] = Cardinality(AtProxy(running', q))
      BY <1>1, <1>2, <1>9, <1>11, <3>1
    <3>3. /\ load[q] \in Nat /\ ProxyCapacity[q] \in Nat
          /\ load'[q] = IF p = q THEN load[q] + 1 ELSE load[q]
      BY <1>1, <1>2, LimitAssumption
    <3>4. QED
      BY <1>3, <3>1, <3>2, <3>3
  <2>4. QED
    BY <2>1, <2>2, <2>3 DEF LoadAgrees, AtOrigin, AtProxy
<1>16. FullHasProbe'
  <2> SUFFICES ASSUME NEW q \in Proxy, circuit'[q].probes = HalfOpenMaxProbes
               PROVE  /\ circuit'[q].state = "half-open"
                      /\ \E s \in running' : s.proxy = q /\ s.kind = "probe"
    BY DEF FullHasProbe, FullOf
  <2>1. circuit'[q] = IF q = p THEN b ELSE c[q]
    BY <1>2, <1>10
  <2>2. c[q].probes = HalfOpenMaxProbes =>
          c[q].state = "half-open" /\ \E s \in running : s.proxy = q /\ s.kind = "probe"
    BY <1>7 DEF PoolInv, FullHasProbe, FullOf, CircuitsLookedAt
  <2>3. CASE q = p /\ c[p].state = "half-open"
    BY <1>2, <1>10, <1>9, <2>1, <2>3
  <2>4. CASE ~(q = p /\ c[p].state = "half-open")
    BY <1>2, <1>10, <2>1, <2>2, <2>4
  <2>5. QED
    BY <2>3, <2>4
<1>17. QED
  BY <1>12, <1>13, <1>14, <1>15, <1>16 DEF PoolInv

\* The steps of the pass that take jobs off the list without starting them.
LEMMA SetAsideKeeps ==
  ASSUME PoolInv, (\E i \in DOMAIN pending : Refuse(i)) \/ SkipPending \/ BlockPending
  PROVE  PoolInv'
<1>1. /\ PoolTypeOK /\ pending \in Seq(Job) /\ IsInjective(pending)
      /\ Parted(Range(pending), JobsOf(running), completed, failed, skipped, blocked)
  BY DEF PoolInv, PoolTypeOK, Accounted
<1>2. ASSUME running' = running, counters' = counters, CircuitsLookedAt(circuit'),
             pending' \in Seq(Job), IsInjective(pending'),
             Parted(Range(pending'), JobsOf(running), completed', failed', skipped', blocked')
      PROVE  PoolInv'
  <2>1. pages' = pages /\ load' = load
    BY <1>2 DEF counters
  <2>a. PoolTypeOK'
    BY <1>2, <2>1 DEF PoolInv, PoolTypeOK, CircuitsLookedAt
  <2>2. PoolTypeOK' /\ FullHasProbe'
    BY <1>2, <2>a, LookedAtStaysFull DEF PoolInv
  <2>3. OneReservation' /\ Accounted' /\ LoadAgrees'
    BY <1>2, <2>1 DEF PoolInv, OneReservation, Accounted, LoadAgrees
  <2>4. QED
    BY <2>2, <2>3 DEF PoolInv
<1>3. CircuitsLookedAt(circuit)
  BY <1>1 DEF CircuitsLookedAt, PoolTypeOK
<1>4. <<>> \in Seq(Job) /\ IsInjective(<<>>) /\ Range(<<>>) = {}
  BY DEF IsInjective, Range
<1>5. ASSUME NEW i \in DOMAIN pending, Refuse(i) PROVE PoolInv'
  <2>1. /\ pending' = RemoveAt(pending, i) /\ running' = running /\ counters' = counters
        /\ completed' = completed /\ failed' = failed /\ skipped' = skipped
        /\ blocked' = blocked \cup {pending[i]} /\ circuit' = LookedAt(Tried(i))
    BY <1>5 DEF Refuse, Without
  <2>2. /\ pending' \in Seq(Job) /\ IsInjective(pending')
        /\ Range(pending') = Range(pending) \ {pending[i]} /\ pending[i] \in Range(pending)
    BY <1>1, <1>5, <2>1, RemoveAtFacts
  <2>3. \A j \in Range(pending) :
          Parted(Range(pending) \ {j}, JobsOf(running), completed, failed, skipped,
                 blocked \cup {j})
    BY <1>1, PartedMoves
  <2>4. Parted(Range(pending'), JobsOf(running), completed', failed', skipped', blocked')
    BY <2>1, <2>2, <2>3
  <2>5. QED
    BY <1>1, <1>2, <2>1, <2>2, <2>4, LookedAtFacts
<1>6. /\ Parted({}, JobsOf(running), completed, failed, skipped \cup Range(pending), blocked)
      /\ Parted({}, JobsOf(running), completed, failed, skipped, blocked \cup Range(pending))
  BY <1>1, PartedMoves
<1>7. CASE SkipPending
  BY <1>2, <1>3, <1>4, <1>6, <1>7 DEF SkipPending
<1>8. CASE BlockPending
  BY <1>2, <1>3, <1>4, <1>6, <1>8 DEF BlockPending
<1>9. QED
  BY <1>5, <1>7, <1>8

-----------------------------------------------------------------------------
(***************************************************************************)
(* Giving a worker back.                                                   *)
(***************************************************************************)
\* The job goes to one list; the circuit has room, or the result was none of a
\* probe and left it as it was.
LEMMA ReleaseKeeps ==
  ASSUME PoolInv, NEW r \in running, NEW c \in Breaker, Release(r, c),
         c.probes < HalfOpenMaxProbes \/ (r.kind = "plain" /\ c = circuit[r.proxy]),
         \/ completed' = completed \cup {r.job} /\ UNCHANGED <<failed, skipped>>
         \/ failed' = failed \cup {r.job} /\ UNCHANGED <<completed, skipped>>
         \/ skipped' = skipped \cup {r.job} /\ UNCHANGED <<completed, failed>>
  PROVE  PoolInv'
<1> DEFINE rest == running \ {r}
<1>1. /\ PoolTypeOK /\ running \subseteq Reservation /\ IsFiniteSet(running)
      /\ pages \in [Origin -> Nat] /\ load \in [Proxy -> Nat] /\ circuit \in [Proxy -> Breaker]
  BY DEF PoolInv, PoolTypeOK
<1>2. r.job \in Job /\ r.proxy \in Proxy /\ OriginOf[r.job] \in Origin
  BY <1>1, JobAssumption DEF Reservation
<1>3. /\ pending' = pending /\ blocked' = blocked /\ running' = rest
      /\ pages' = [pages EXCEPT ![OriginOf[r.job]] = Fewer(@)]
      /\ load' = [load EXCEPT ![r.proxy] = Fewer(@)]
      /\ circuit' = [circuit EXCEPT ![r.proxy] = c]
  BY DEF Release, PagesWithout
<1>4. /\ IsFiniteSet(rest) /\ Cardinality(rest) \in Nat
      /\ Cardinality(running) = Cardinality(rest) + 1
      /\ \A o : /\ Cardinality(AtOrigin(rest, o)) \in Nat
                /\ Cardinality(AtOrigin(running, o)) =
                     IF OriginOf[r.job] = o THEN Cardinality(AtOrigin(rest, o)) + 1
                     ELSE Cardinality(AtOrigin(rest, o))
      /\ \A p : /\ Cardinality(AtProxy(rest, p)) \in Nat
                /\ Cardinality(AtProxy(running, p)) =
                     IF r.proxy = p THEN Cardinality(AtProxy(rest, p)) + 1
                     ELSE Cardinality(AtProxy(rest, p))
  <2>1. IsFiniteSet(rest) /\ rest \cup {r} = running /\ CountsOneMore(rest, r)
    BY <1>1, CountOneLess
  <2> HIDE DEF rest
  <2>2. QED
    BY <2>1 DEF CountsOneMore
<1>5. JobsOf(rest) = JobsOf(running) \ {r.job} /\ r.job \in JobsOf(running)
  BY DEF PoolInv, OneReservation, JobsOf
<1>6. \A s \in rest : s \in running
  OBVIOUS
<1> HIDE DEF rest
<1>7. PoolTypeOK'
  <2>1. Fewer(pages[OriginOf[r.job]]) \in Nat /\ Fewer(load[r.proxy]) \in Nat
    BY <1>1, <1>2 DEF Fewer
  <2>2. QED
    BY <1>1, <1>3, <1>4, <1>6, <2>1 DEF PoolTypeOK
<1>8. OneReservation'
  BY <1>3, <1>6 DEF PoolInv, OneReservation
<1>9. Accounted'
  <2>1. Parted(Range(pending), JobsOf(running), completed, failed, skipped, blocked)
    BY DEF PoolInv, Accounted
  <2>2. \A j \in JobsOf(running) :
          /\ Parted(Range(pending), JobsOf(running) \ {j}, completed \cup {j}, failed,
                    skipped, blocked)
          /\ Parted(Range(pending), JobsOf(running) \ {j}, completed, failed \cup {j},
                    skipped, blocked)
          /\ Parted(Range(pending), JobsOf(running) \ {j}, completed, failed,
                    skipped \cup {j}, blocked)
    BY <2>1, PartedMoves
  <2>3. Parted(Range(pending), JobsOf(rest), completed', failed', skipped', blocked)
    BY <1>5, <2>2
  <2>4. QED
    BY <1>3, <2>3 DEF Accounted
<1>10. LoadAgrees'
  <2>1. Cardinality(running') <= GlobalLimit
    BY <1>3, <1>4, LimitAssumption DEF PoolInv, LoadAgrees
  <2>2. ASSUME NEW o \in Origin
        PROVE  pages'[o] = Cardinality(AtOrigin(running', o)) /\ pages'[o] <= OriginLimit
    <3>1. pages[o] = Cardinality(AtOrigin(running, o)) /\ pages[o] <= OriginLimit
      BY DEF PoolInv, LoadAgrees, AtOrigin
    <3>2. pages'[o] = Cardinality(AtOrigin(running', o))
      BY <1>1, <1>2, <1>3, <1>4, <3>1 DEF Fewer
    <3>3. /\ pages[o] \in Nat /\ OriginLimit \in Nat
          /\ pages'[o] = IF OriginOf[r.job] = o THEN Fewer(pages[o]) ELSE pages[o]
      BY <1>1, <1>2, <1>3, LimitAssumption
    <3>4. QED
      BY <3>1, <3>2, <3>3 DEF Fewer
  <2>3. ASSUME NEW p \in Proxy
        PROVE  load'[p] = Cardinality(AtProxy(running', p)) /\ load'[p] <= ProxyCapacity[p]
    <3>1. load[p] = Cardinality(AtProxy(running, p)) /\ load[p] <= ProxyCapacity[p]
      BY DEF PoolInv, LoadAgrees, AtProxy
    <3>2. load'[p] = Cardinality(AtProxy(running', p))
      BY <1>1, <1>2, <1>3, <1>4, <3>1 DEF Fewer
    <3>3. /\ load[p] \in Nat /\ ProxyCapacity[p] \in Nat
          /\ load'[p] = IF r.proxy = p THEN Fewer(load[p]) ELSE load[p]
      BY <1>1, <1>2, <1>3, LimitAssumption
    <3>4. QED
      BY <3>1, <3>2, <3>3 DEF Fewer
  <2>4. QED
    BY <2>1, <2>2, <2>3 DEF LoadAgrees, AtOrigin, AtProxy
<1>11. FullHasProbe'
  <2> SUFFICES ASSUME NEW p \in Proxy, circuit'[p].probes = HalfOpenMaxProbes
               PROVE  /\ circuit'[p].state = "half-open"
                      /\ \E s \in running' : s.proxy = p /\ s.kind = "probe"
    BY DEF FullHasProbe, FullOf
  <2>1. circuit'[p] = IF p = r.proxy THEN c ELSE circuit[p]
    BY <1>1, <1>2, <1>3
  <2>2. ~(p = r.proxy /\ c.probes < HalfOpenMaxProbes)
    BY <2>1, LimitAssumption
  <2>3. circuit'[p] = circuit[p] /\ (p = r.proxy => r.kind = "plain")
    BY <2>1, <2>2
  <2>4. PICK s \in running : s.proxy = p /\ s.kind = "probe" /\ circuit[p].state = "half-open"
    BY <2>3 DEF PoolInv, FullHasProbe, FullOf
  <2>5. s \in rest
    BY <2>3, <2>4 DEF rest
  <2>6. QED
    BY <1>3, <2>3, <2>4, <2>5
<1>12. QED
  BY <1>7, <1>8, <1>9, <1>10, <1>11 DEF PoolInv

\* Whatever a worker ends with.
LEMMA SettlesKeeps ==
  ASSUME PoolInv, NEW r \in running, Settles(r)
  PROVE  PoolInv'
<1> DEFINE c == circuit[r.proxy]
<1>1. /\ r.proxy \in Proxy /\ c \in Breaker /\ r.kind \in {"plain", "probe"}
      /\ FullOf(c, running, r.proxy)
  BY DEF PoolInv, PoolTypeOK, Reservation, FullHasProbe
<1>2. /\ AfterSuccess(c) \in Breaker /\ AfterSuccess(c).probes < HalfOpenMaxProbes
      /\ AfterFailure(c) \in Breaker /\ AfterFailure(c).probes < HalfOpenMaxProbes
      /\ AfterCancel(c) \in Breaker /\ AfterCancel(c).probes < HalfOpenMaxProbes
  BY <1>1, ResultFacts
<1>3. /\ Cancelled(r) \in Breaker
      /\ Cancelled(r).probes < HalfOpenMaxProbes \/ (r.kind = "plain" /\ Cancelled(r) = c)
  BY <1>1, <1>2 DEF Cancelled
<1>4. CASE Completes(r)
  BY <1>2, <1>4, ReleaseKeeps DEF Completes
<1>5. CASE FailsByProxy(r)
  BY <1>2, <1>5, ReleaseKeeps DEF FailsByProxy
<1>6. CASE FailsOtherwise(r, TRUE) \/ FailsOtherwise(r, FALSE)
  BY <1>3, <1>6, ReleaseKeeps DEF FailsOtherwise
<1>7. CASE Skips(r)
  BY <1>3, <1>7, ReleaseKeeps DEF Skips
<1>8. QED
  BY <1>4, <1>5, <1>6, <1>7 DEF Settles

-----------------------------------------------------------------------------
(***************************************************************************)
(* The theorems.                                                           *)
(***************************************************************************)
LEMMA InitPool == Init => PoolInv
<1> SUFFICES ASSUME Init PROVE PoolInv
  OBVIOUS
<1>1. pending = Jobs /\ running = {} /\ Range(pending) = Job /\ JobsOf(running) = {}
  BY DEF Init, Job, JobsOf
<1>2. IsFiniteSet(running) /\ Cardinality({}) = 0
  BY <1>1, FS_EmptySet
<1>3. PoolTypeOK
  BY <1>1, <1>2, JobAssumption, LimitAssumption DEF Init, PoolTypeOK, Breaker
<1>4. OneReservation /\ Accounted
  BY <1>1 DEF Init, OneReservation, Accounted, Parted
<1>5. LoadAgrees
  <2>1. /\ \A o \in Origin : {r \in running : OriginOf[r.job] = o} = {}
        /\ \A p \in Proxy : {r \in running : r.proxy = p} = {}
    BY <1>1
  <2>2. QED
    BY <1>1, <1>2, <2>1, LimitAssumption DEF Init, LoadAgrees
<1>6. FullHasProbe
  BY LimitAssumption DEF Init, FullHasProbe, FullOf
<1>7. QED
  BY <1>3, <1>4, <1>5, <1>6 DEF PoolInv

LEMMA StepPool == PoolInv /\ [Next]_vars => PoolInv'
<1> SUFFICES ASSUME PoolInv, [Next]_vars PROVE PoolInv'
  OBVIOUS
<1>1. CASE UNCHANGED vars
  <2>1. Quiet
    BY <1>1 DEF vars, lists, counters, Quiet, CircuitsLookedAt, PoolInv, PoolTypeOK
  <2>2. QED
    BY <2>1, QuietKeeps
<1>2. CASE Loop
  BY <1>2, StartKeeps, SetAsideKeeps, QuietActions, QuietKeeps DEF Loop
<1>3. CASE Next /\ ~Loop
  BY <1>3, SettlesKeeps, QuietActions, QuietKeeps DEF Next
<1>4. QED
  BY <1>1, <1>2, <1>3

\* tryReserveWorker, releaseWorker and ProxyCircuitBreaker: however results come in
\* late and in whatever order, the counters of origins and proxies are what is
\* running, and a half-open circuit without a probe has room for one.
THEOREM NoCapacityIsLost == Spec => []CapacityIsKept
<1>1. PoolInv => ProbeNeverStuck
  <2> SUFFICES ASSUME PoolInv, NEW p \in Proxy, circuit[p].state = "half-open",
                      \A r \in running : r.proxy = p => r.kind = "plain"
               PROVE  circuit[p].probes < HalfOpenMaxProbes
    BY DEF ProbeNeverStuck
  <2>1. circuit[p].probes \in 0..HalfOpenMaxProbes /\ HalfOpenMaxProbes \in Nat
    BY LimitAssumption DEF PoolInv, PoolTypeOK, Breaker
  <2>2. circuit[p].probes # HalfOpenMaxProbes
    BY DEF PoolInv, FullHasProbe, FullOf
  <2>3. QED
    BY <2>1, <2>2
<1>2. PoolInv => CapacityIsKept
  BY <1>1 DEF CapacityIsKept, PoolInv
<1>3. QED
  BY <1>2, InitPool, StepPool, PTL DEF Spec

\* WorkerPoolScheduler.run: every job it was given is in exactly one place, waiting,
\* running or in one of the lists that run returns.
THEOREM NoJobIsLost == Spec => []EveryJobAccounted
<1>1. PoolInv => EveryJobAccounted
  <2> SUFFICES ASSUME PoolInv PROVE EveryJobAccounted
    OBVIOUS
  <2> DEFINE w == Range(pending)
             h == {r.job : r \in running}
             parts == <<w, h, completed, failed, skipped, blocked>>
  <2>1. Parted(w, h, completed, failed, skipped, blocked)
    BY DEF PoolInv, Accounted, JobsOf
  <2> HIDE DEF w, h
  <2>2. DOMAIN parts = 1..6 /\ 1..6 = {1, 2, 3, 4, 5, 6}
    OBVIOUS
  <2>3. Range(parts) = {w, h, completed, failed, skipped, blocked}
    BY <2>2 DEF Range
  <2>4. Job = UNION Range(parts)
    BY <2>1, <2>3 DEF Parted
  <2>5. \A a, b \in DOMAIN parts : a # b => parts[a] \cap parts[b] = {}
    BY <2>1, <2>2 DEF Parted
  <2>6. QED
    BY <2>4, <2>5 DEF EveryJobAccounted, w, h
<1>2. QED
  BY <1>1, InitPool, StepPool, PTL DEF Spec

-----------------------------------------------------------------------------
(***************************************************************************)
(* The network budget of an origin (OriginBudget), for any requests, URLs, *)
(* rates, limits and faults: what it lets through in any stretch of time,  *)
(* how many requests run at once, and that a cooldown holds.               *)
(***************************************************************************)
CONSTANTS Fetch, Key, KeyOf, MaxInflight, Rate, burstLimit, MaxDelay, MaxTime, MaxQueue,
          MaxFaults
VARIABLES now, inflight, tokens, cooldownUntil, req, permits, saved, queue, granted, before,
          announced, unsaved, withdrawn, faults

Budget == INSTANCE OriginBudget WITH Request <- Fetch, cooldown <- cooldownUntil

\* Every request has a URL, and limits, rates and times are numbers.
BudgetConstants ==
  /\ KeyOf \in [Fetch -> Key]
  /\ MaxInflight \in Nat /\ Rate \in Nat /\ burstLimit \in Nat
  /\ MaxDelay \in Nat /\ MaxTime \in Nat

BudgetTyped ==
  /\ now \in 0..MaxTime /\ inflight \in Int /\ tokens \in 0..burstLimit
  /\ cooldownUntil \in Nat /\ saved \in Nat /\ announced \in Nat
  /\ req \in [Fetch -> {"idle", "waiting", "gone", "running"}]
  /\ permits \in [Key -> Seq(Fetch)]
  /\ queue \in Seq(Nat)
  /\ granted \in Nat /\ before \in [0..MaxTime -> Nat]
  /\ unsaved \in BOOLEAN /\ withdrawn \in BOOLEAN

\* What was granted since any tick, with the tokens at hand, is no more than the burst and
\* the rate allow.
WithinRate ==
  \A from \in 0..now : granted - before[from] + tokens <= burstLimit + Rate * (now - from)

Going == {r \in Fetch : req[r] = "running"}
GoingAt(k) == {r \in Fetch : req[r] = "running" /\ KeyOf[r] = k}

\* A running request has its place and its permit: each URL has as many permits as running
\* requests, whichever of them a permit was granted to.
OnePermitEach ==
  /\ IsFiniteSet(Going) /\ inflight = Cardinality(Going) /\ inflight <= MaxInflight
  /\ \A k \in Key : Len(permits[k]) = Cardinality(GoingAt(k))

\* What the database will say of the cooldown when the snapshots are written.
Recorded == IF queue = <<>> THEN saved ELSE queue[Len(queue)]

\* A cooldown asked for, and not over, is in force and on its way to the database.
CooldownHolds ==
  announced > now => cooldownUntil >= announced /\ Recorded >= announced

BudgetInv ==
  /\ BudgetTyped /\ WithinRate
  /\ ~withdrawn => OnePermitEach
  /\ ~unsaved => CooldownHolds

-----------------------------------------------------------------------------
\* The definitions of the instance are those of the library.
LEMMA BudgetCounts == ASSUME NEW S PROVE Budget!Cardinality(S) = Cardinality(S)
BY DEF Budget!Cardinality, Cardinality

\* A release takes the oldest permit of the URL, or nothing.
LEMMA ReleaseTypes ==
  ASSUME BudgetTyped, NEW k \in Key, Budget!ReleaseNetworkPermit(k)
  PROVE  /\ inflight' \in Int /\ permits' \in [Key -> Seq(Fetch)]
         /\ \/ permits[k] = <<>> /\ UNCHANGED <<inflight, permits>>
            \/ /\ permits[k] # <<>> /\ inflight' = inflight - 1
               /\ \A q \in Key : Len(permits'[q]) =
                    IF q = k THEN Len(permits[k]) - 1 ELSE Len(permits[q])
<1>1. CASE permits[k] = <<>>
  BY <1>1 DEF Budget!ReleaseNetworkPermit, BudgetTyped
<1>2. CASE permits[k] # <<>>
  <2>1. inflight' = inflight - 1 /\ permits' = [permits EXCEPT ![k] = Tail(permits[k])]
    BY <1>2 DEF Budget!ReleaseNetworkPermit
  <2>2. permits[k] \in Seq(Fetch) BY DEF BudgetTyped
  <2>3. Tail(permits[k]) \in Seq(Fetch) /\ Len(Tail(permits[k])) = Len(permits[k]) - 1
    BY <1>2, <2>2
  <2>4. permits' \in [Key -> Seq(Fetch)] /\ inflight' \in Int
    BY <2>1, <2>3 DEF BudgetTyped
  <2>5. ASSUME NEW q \in Key
        PROVE  Len(permits'[q]) = IF q = k THEN Len(permits[k]) - 1 ELSE Len(permits[q])
    <3>1. permits'[q] = IF q = k THEN Tail(permits[k]) ELSE permits[q]
      BY <2>1 DEF BudgetTyped
    <3>2. QED BY <2>3, <3>1
  <2>6. QED BY <1>2, <2>1, <2>4, <2>5
<1>3. QED BY <1>1, <1>2

\* acquire, in its two outcomes.
LEMMA AcquireSplits ==
  ASSUME BudgetTyped, NEW r \in Fetch, Budget!Acquire(r)
  PROVE  /\ cooldownUntil <= now /\ inflight < MaxInflight /\ tokens >= 1
         /\ tokens' = tokens - 1
         /\ UNCHANGED <<now, cooldownUntil, saved, queue, before, announced, unsaved, withdrawn>>
         /\ \/ /\ req[r] = "waiting" /\ req' = [req EXCEPT ![r] = "running"]
               /\ inflight' = inflight + 1 /\ granted' = granted + 1
               /\ permits' = [permits EXCEPT ![KeyOf[r]] = Append(permits[KeyOf[r]], r)]
            \/ /\ req[r] = "gone" /\ req' = [req EXCEPT ![r] = "idle"]
               /\ UNCHANGED <<inflight, permits, granted>>
<1>1. CASE req[r] = "waiting"
  BY <1>1 DEF Budget!Acquire, Budget!Ready
<1>2. CASE req[r] # "waiting"
  BY <1>2 DEF Budget!Acquire, Budget!Ready
<1>3. QED BY <1>1, <1>2

\* What a response's cooldown becomes.
LEMMA ResponseRecords ==
  ASSUME BudgetConstants, BudgetTyped, NEW delay \in 0..MaxDelay, Budget!RecordResponse(delay)
  PROVE  \E shown \in Nat :
           /\ cooldownUntil' = shown /\ queue' = Append(queue, shown)
           /\ announced' = IF shown > announced THEN shown ELSE announced
           /\ cooldownUntil > now => shown >= cooldownUntil
           /\ shown = 0 \/ shown > now
           /\ UNCHANGED <<now, inflight, tokens, req, permits, saved, granted, before, unsaved,
                          withdrawn>>
<1> DEFINE until == IF delay > 0 /\ now + delay > cooldownUntil THEN now + delay ELSE cooldownUntil
           shown == IF until <= now THEN 0 ELSE until
<1>1. until \in Nat /\ shown \in Nat /\ (cooldownUntil > now => shown >= cooldownUntil)
      /\ (shown = 0 \/ shown > now)
  BY DEF BudgetTyped, BudgetConstants
<1>2. /\ cooldownUntil' = shown /\ queue' = Append(queue, shown)
      /\ announced' = IF shown > announced THEN shown ELSE announced
      /\ UNCHANGED <<now, inflight, tokens, req, permits, saved, granted, before, unsaved,
                     withdrawn>>
  BY DEF Budget!RecordResponse, Budget!grants
<1> HIDE DEF shown
<1>3. QED BY <1>1, <1>2

-----------------------------------------------------------------------------
(***************************************************************************)
(* Types.                                                                  *)
(***************************************************************************)
LEMMA BudgetTypesStay ==
  ASSUME BudgetConstants, BudgetTyped, [Budget!Next]_(Budget!vars) PROVE BudgetTyped'
<1>1. CASE Budget!Tick
  <2>1. now' \in 0..MaxTime /\ tokens' \in 0..burstLimit
    BY <1>1 DEF Budget!Tick, BudgetTyped, BudgetConstants
  <2>2. before' \in [0..MaxTime -> Nat] BY <1>1 DEF Budget!Tick, BudgetTyped
  <2>3. QED BY <1>1, <2>1, <2>2 DEF Budget!Tick, BudgetTyped
<1>2. ASSUME NEW r \in Fetch, Budget!Issue(r) PROVE BudgetTyped'
  BY <1>2 DEF Budget!Issue, Budget!grants, BudgetTyped
<1>3. ASSUME NEW r \in Fetch, Budget!Acquire(r) PROVE BudgetTyped'
  <2>1. KeyOf[r] \in Key /\ Append(permits[KeyOf[r]], r) \in Seq(Fetch)
    BY DEF BudgetConstants, BudgetTyped
  <2>2. tokens' \in 0..burstLimit
    <3>1. tokens' = tokens - 1 /\ tokens >= 1 BY <1>3, AcquireSplits
    <3>2. QED BY <3>1 DEF BudgetTyped, BudgetConstants
  <2>a. permits' \in [Key -> Seq(Fetch)]
    <3>1. permits \in [Key -> Seq(Fetch)] BY DEF BudgetTyped
    <3>2. \/ UNCHANGED permits
          \/ permits' = [permits EXCEPT ![KeyOf[r]] = Append(permits[KeyOf[r]], r)]
      BY <1>3, AcquireSplits
    <3>3. QED BY <2>1, <3>1, <3>2
  <2>3. inflight' \in Int /\ granted' \in Nat
        /\ req' \in [Fetch -> {"idle", "waiting", "gone", "running"}]
    <3>1. \/ inflight' = inflight + 1 /\ granted' = granted + 1
          \/ UNCHANGED <<inflight, granted>>
      BY <1>3, AcquireSplits
    <3>2. \E place \in {"idle", "running"} : req' = [req EXCEPT ![r] = place]
      BY <1>3, AcquireSplits
    <3>3. inflight' \in Int /\ granted' \in Nat BY <3>1 DEF BudgetTyped
    <3>4. req' \in [Fetch -> {"idle", "waiting", "gone", "running"}] BY <3>2 DEF BudgetTyped
    <3>5. QED BY <3>3, <3>4
  <2>4. QED BY <1>3, <2>a, <2>2, <2>3, AcquireSplits DEF BudgetTyped
<1>4. ASSUME NEW r \in Fetch, Budget!Finish(r) \/ Budget!Withdraw(r) PROVE BudgetTyped'
  <2>1. Budget!ReleaseNetworkPermit(KeyOf[r]) /\ KeyOf[r] \in Key
    BY <1>4 DEF Budget!Finish, Budget!Withdraw, BudgetConstants
  <2>2. inflight' \in Int /\ permits' \in [Key -> Seq(Fetch)] BY <2>1, ReleaseTypes
  <2>3. req' \in [Fetch -> {"idle", "waiting", "gone", "running"}] /\ withdrawn' \in BOOLEAN
    BY <1>4 DEF Budget!Finish, Budget!Withdraw, BudgetTyped
  <2>4. UNCHANGED <<now, tokens, cooldownUntil, saved, queue, granted, before, announced, unsaved>>
    BY <1>4 DEF Budget!Finish, Budget!Withdraw, Budget!grants
  <2>5. QED BY <2>2, <2>3, <2>4 DEF BudgetTyped
<1>5. ASSUME NEW delay \in 0..MaxDelay, Budget!RecordResponse(delay) PROVE BudgetTyped'
  <2>1. PICK shown \in Nat :
           /\ cooldownUntil' = shown /\ queue' = Append(queue, shown)
           /\ announced' = IF shown > announced THEN shown ELSE announced
           /\ UNCHANGED <<now, inflight, tokens, req, permits, saved, granted, before, unsaved,
                          withdrawn>>
    BY <1>5, ResponseRecords
  <2>2. queue' \in Seq(Nat) BY <2>1 DEF BudgetTyped
  <2>3. QED BY <2>1, <2>2 DEF BudgetTyped
<1>6. CASE Budget!WriteCooldown
  <2>1. queue' \in Seq(Nat) /\ Head(queue) \in Nat
    BY <1>6 DEF Budget!WriteCooldown, BudgetTyped
  <2>2. saved' \in Nat /\ unsaved' \in BOOLEAN
    BY <1>6, <2>1 DEF Budget!WriteCooldown, BudgetTyped
  <2>3. QED BY <1>6, <2>1, <2>2 DEF Budget!WriteCooldown, Budget!grants, BudgetTyped
<1>7. CASE Budget!Restart
  <2>1. tokens' \in 0..burstLimit BY <1>7 DEF Budget!Restart, BudgetConstants
  <2>2. before' \in [0..MaxTime -> Nat] /\ permits' \in [Key -> Seq(Fetch)]
        /\ req' \in [Fetch -> {"idle", "waiting", "gone", "running"}] /\ queue' \in Seq(Nat)
    BY <1>7 DEF Budget!Restart
  <2>3. unsaved' \in BOOLEAN /\ withdrawn' \in BOOLEAN
    BY <1>7 DEF Budget!Restart, BudgetTyped
  <2>4. QED BY <1>7, <2>1, <2>2, <2>3 DEF Budget!Restart, BudgetTyped
<1>8. CASE UNCHANGED Budget!vars
  BY <1>8 DEF Budget!vars, Budget!grants, BudgetTyped
<1>9. QED BY <1>1, <1>2, <1>3, <1>4, <1>5, <1>6, <1>7, <1>8 DEF Budget!Next

-----------------------------------------------------------------------------
(***************************************************************************)
(* The rate.                                                               *)
(***************************************************************************)
LEMMA OneMoreTick ==
  ASSUME NEW R \in Nat, NEW t \in Nat, NEW from \in 0..t
  PROVE  R * ((t + 1) - from) = R * (t - from) + R /\ R * (t - t) = 0
         /\ R * (t - from) \in Nat
OBVIOUS

LEMMA RateStays ==
  ASSUME BudgetConstants, BudgetTyped, WithinRate, [Budget!Next]_(Budget!vars)
  PROVE  WithinRate'
<1> USE DEF BudgetConstants
<1>1. CASE Budget!Tick
  <2> SUFFICES ASSUME NEW from \in 0..now'
               PROVE  granted' - before'[from] + tokens' <= burstLimit + Rate * (now' - from)
    BY DEF WithinRate
  <2>a. tokens' <= burstLimit /\ tokens' <= tokens + Rate /\ tokens' \in Int
    BY <1>1 DEF Budget!Tick, BudgetTyped
  <2>1. now' = now + 1 /\ granted' = granted /\ before' = [before EXCEPT ![now'] = granted]
        /\ now' \in 0..MaxTime
    BY <1>1 DEF Budget!Tick, BudgetTyped
  <2>2. CASE from = now'
    <3>1. before'[from] = granted BY <2>1, <2>2 DEF BudgetTyped
    <3>2. Rate * (now' - from) = 0 BY <2>1, <2>2, OneMoreTick DEF BudgetTyped
    <3>3. granted' - before'[from] = 0 BY <2>1, <3>1 DEF BudgetTyped
    <3>4. QED BY <2>a, <3>2, <3>3
  <2>3. CASE from # now'
    <3>1. from \in 0..now /\ before'[from] = before[from] /\ before[from] \in Nat
      BY <2>1, <2>3 DEF BudgetTyped
    <3>2. Rate * (now' - from) = Rate * (now - from) + Rate /\ Rate * (now - from) \in Nat
      BY <2>1, <3>1, OneMoreTick DEF BudgetTyped
    <3>3. granted - before[from] + tokens <= burstLimit + Rate * (now - from)
      BY <3>1 DEF WithinRate
    <3>4. granted' = granted /\ granted \in Nat /\ tokens \in Int BY <2>1 DEF BudgetTyped
    <3>5. QED BY <2>a, <3>1, <3>2, <3>3, <3>4
  <2>4. QED BY <2>2, <2>3
<1>2. CASE UNCHANGED <<now, before, granted, tokens>>
  BY <1>2 DEF WithinRate
<1>3. ASSUME NEW r \in Fetch, Budget!Acquire(r) PROVE WithinRate'
  <2> SUFFICES ASSUME NEW from \in 0..now
               PROVE  granted' - before[from] + tokens' <= burstLimit + Rate * (now - from)
    <3>1. UNCHANGED <<now, before>> BY <1>3, AcquireSplits
    <3>2. QED BY <3>1 DEF WithinRate
  <2>1. granted' <= granted + 1 /\ granted' \in Nat /\ tokens' = tokens - 1
    <3>1. granted' = granted + 1 \/ granted' = granted BY <1>3, AcquireSplits
    <3>2. tokens' = tokens - 1 BY <1>3, AcquireSplits
    <3>3. QED BY <3>1, <3>2 DEF BudgetTyped
  <2>2. before[from] \in Nat /\ Rate * (now - from) \in Nat
    BY OneMoreTick DEF BudgetTyped
  <2>3. granted - before[from] + tokens <= burstLimit + Rate * (now - from) BY DEF WithinRate
  <2>4. granted \in Nat /\ tokens \in Nat /\ burstLimit \in Nat
    BY DEF BudgetTyped, BudgetConstants
  <2> DEFINE used == Rate * (now - from)
  <2> HIDE DEF used
  <2>5. used \in Nat /\ granted - before[from] + tokens <= burstLimit + used
    BY <2>2, <2>3 DEF used
  <2>6. granted' - before[from] + tokens' <= burstLimit + used BY ONLY <2>1, <2>2, <2>4, <2>5
  <2>7. QED BY <2>6 DEF used
<1>4. CASE Budget!Restart
  <2> SUFFICES ASSUME NEW from \in 0..now
               PROVE  granted' - before'[from] + tokens' <= burstLimit + Rate * (now - from)
    BY <1>4 DEF Budget!Restart, WithinRate
  <2>1. granted' = 0 /\ before'[from] = 0 /\ tokens' = burstLimit
    BY <1>4 DEF Budget!Restart, BudgetTyped
  <2>2. Rate * (now - from) \in Nat BY OneMoreTick DEF BudgetTyped
  <2>3. QED BY <2>1, <2>2
<1>5. QED
  <2>1. ASSUME NEW r \in Fetch, Budget!Issue(r) \/ Budget!Finish(r) \/ Budget!Withdraw(r)
        PROVE  WithinRate'
    BY <1>2, <2>1 DEF Budget!Issue, Budget!Finish, Budget!Withdraw, Budget!grants
  <2>2. ASSUME NEW delay \in 0..MaxDelay, Budget!RecordResponse(delay) PROVE WithinRate'
    BY <1>2, <2>2 DEF Budget!RecordResponse, Budget!grants
  <2>3. CASE Budget!WriteCooldown BY <1>2, <2>3 DEF Budget!WriteCooldown, Budget!grants
  <2>4. CASE UNCHANGED Budget!vars BY <1>2, <2>4 DEF Budget!vars, Budget!grants
  <2>5. QED BY <1>1, <1>3, <1>4, <2>1, <2>2, <2>3, <2>4 DEF Budget!Next

-----------------------------------------------------------------------------
(***************************************************************************)
(* The permits.                                                            *)
(***************************************************************************)
LEMMA PermitsStay ==
  ASSUME BudgetConstants, BudgetTyped, ~withdrawn => OnePermitEach,
         [Budget!Next]_(Budget!vars), ~withdrawn'
  PROVE  OnePermitEach'
<1> USE DEF BudgetConstants
<1>0. CASE Budget!Restart
  <2>1. Going' = {} /\ \A k \in Key : GoingAt(k)' = {} /\ Len(permits'[k]) = 0
    BY <1>0 DEF Budget!Restart, Going, GoingAt
  <2>2. inflight' = 0 BY <1>0 DEF Budget!Restart
  <2>3. IsFiniteSet({}) /\ Cardinality({}) = 0 BY FS_EmptySet
  <2>4. \A k \in Key : Len(permits'[k]) = Cardinality(GoingAt(k)') BY <2>1, <2>3
  <2>5. IsFiniteSet(Going') /\ inflight' = Cardinality(Going') /\ inflight' <= MaxInflight
    BY <2>1, <2>2, <2>3
  <2>6. QED BY <2>4, <2>5 DEF OnePermitEach
<1>1. CASE ~withdrawn
  <2>0. OnePermitEach BY <1>1
  <2>a. \A k \in Key : GoingAt(k) \subseteq Going /\ IsFiniteSet(GoingAt(k))
    BY <2>0, FS_Subset DEF OnePermitEach, Going, GoingAt
  <2>1. CASE UNCHANGED <<req, permits, inflight>>
    BY <2>0, <2>1 DEF OnePermitEach, Going, GoingAt
  <2>2. ASSUME NEW r \in Fetch, Budget!Issue(r) PROVE OnePermitEach'
    <3>1. req[r] = "idle" /\ req' = [req EXCEPT ![r] = "waiting"] /\ UNCHANGED <<permits, inflight>>
      BY <2>2 DEF Budget!Issue
    <3>2. Going' = Going /\ \A k \in Key : GoingAt(k)' = GoingAt(k)
      BY <3>1 DEF Going, GoingAt, BudgetTyped
    <3>3. QED BY <2>0, <3>1, <3>2 DEF OnePermitEach
  <2>3. ASSUME NEW r \in Fetch, Budget!Acquire(r) PROVE OnePermitEach'
    <3>1. CASE req[r] = "gone"
      <4>1. req' = [req EXCEPT ![r] = "idle"] /\ UNCHANGED <<permits, inflight>>
        BY <2>3, <3>1, AcquireSplits
      <4>2. Going' = Going /\ \A k \in Key : GoingAt(k)' = GoingAt(k)
        BY <3>1, <4>1 DEF Going, GoingAt, BudgetTyped
      <4>3. QED BY <2>0, <4>1, <4>2 DEF OnePermitEach
    <3>2. CASE req[r] = "waiting"
      <4>1. /\ req' = [req EXCEPT ![r] = "running"] /\ inflight' = inflight + 1
            /\ inflight < MaxInflight
            /\ permits' = [permits EXCEPT ![KeyOf[r]] = Append(permits[KeyOf[r]], r)]
        BY <2>3, <3>2, AcquireSplits
      <4>2. Going' = Going \cup {r} /\ r \notin Going
        BY <3>2, <4>1 DEF Going, BudgetTyped
      <4>3. IsFiniteSet(Going') /\ Cardinality(Going') = Cardinality(Going) + 1
        BY <2>0, <4>2, FS_AddElement DEF OnePermitEach
      <4>4. ASSUME NEW k \in Key PROVE Len(permits'[k]) = Cardinality(GoingAt(k)')
        <5>1. CASE k = KeyOf[r]
          <6>1. GoingAt(k)' = GoingAt(k) \cup {r} /\ r \notin GoingAt(k)
            BY <3>2, <4>1, <5>1 DEF GoingAt, BudgetTyped
          <6>2. Cardinality(GoingAt(k)') = Cardinality(GoingAt(k)) + 1
            BY <2>a, <6>1, FS_AddElement
          <6>3. permits[k] \in Seq(Fetch) /\ permits'[k] = Append(permits[k], r)
            BY <4>1, <5>1 DEF BudgetTyped
          <6>4. Len(permits'[k]) = Len(permits[k]) + 1 BY <6>3
          <6>5. QED BY <2>0, <6>2, <6>4 DEF OnePermitEach
        <5>2. CASE k # KeyOf[r]
          <6>1. GoingAt(k)' = GoingAt(k) BY <3>2, <4>1, <5>2 DEF GoingAt, BudgetTyped
          <6>2. permits'[k] = permits[k] BY <4>1, <5>2 DEF BudgetTyped
          <6>3. QED BY <2>0, <6>1, <6>2 DEF OnePermitEach
        <5>3. QED BY <5>1, <5>2
      <4>5. inflight' <= MaxInflight BY <4>1 DEF BudgetTyped
      <4>6. QED BY <2>0, <4>1, <4>3, <4>4, <4>5 DEF OnePermitEach
    <3>3. QED BY <2>3, <3>1, <3>2, AcquireSplits
  <2>4. ASSUME NEW r \in Fetch, Budget!Finish(r) PROVE OnePermitEach'
    <3>1. req[r] = "running" /\ req' = [req EXCEPT ![r] = "idle"]
          /\ Budget!ReleaseNetworkPermit(KeyOf[r]) /\ KeyOf[r] \in Key
      BY <2>4 DEF Budget!Finish
    <3>2. r \in Going /\ Going' = Going \ {r} BY <3>1 DEF Going, BudgetTyped
    <3>3. IsFiniteSet(Going') /\ Cardinality(Going') = Cardinality(Going) - 1
      BY <2>0, <3>2, FS_RemoveElement DEF OnePermitEach
    <3>4. r \in GoingAt(KeyOf[r]) /\ GoingAt(KeyOf[r])' = GoingAt(KeyOf[r]) \ {r}
      BY <3>1 DEF GoingAt, BudgetTyped
    <3>5. Cardinality(GoingAt(KeyOf[r])') = Cardinality(GoingAt(KeyOf[r])) - 1
      <4>1. PICK at : at = GoingAt(KeyOf[r]) OBVIOUS
      <4>2. IsFiniteSet(at) /\ r \in at BY <2>a, <3>1, <3>4, <4>1
      <4>3. Cardinality(at \ {r}) = Cardinality(at) - 1 BY <4>2, FS_RemoveElement
      <4>4. QED BY <3>4, <4>1, <4>3
    <3>6. permits[KeyOf[r]] # <<>>
      <4>1. Cardinality(GoingAt(KeyOf[r])) # 0
        BY <2>a, <3>1, <3>4, FS_EmptySet
      <4>2. Len(<<>>) = 0 OBVIOUS
      <4>3. QED BY <2>0, <3>1, <4>1, <4>2 DEF OnePermitEach
    <3>7. inflight' = inflight - 1 /\ \A q \in Key : Len(permits'[q]) =
                    IF q = KeyOf[r] THEN Len(permits[KeyOf[r]]) - 1 ELSE Len(permits[q])
      BY <3>1, <3>6, ReleaseTypes
    <3>8. ASSUME NEW k \in Key PROVE Len(permits'[k]) = Cardinality(GoingAt(k)')
      <4>1. CASE k = KeyOf[r] BY <2>0, <3>1, <3>5, <3>7, <4>1 DEF OnePermitEach
      <4>2. CASE k # KeyOf[r]
        <5>1. GoingAt(k)' = GoingAt(k) BY <3>1, <4>2 DEF GoingAt, BudgetTyped
        <5>2. QED BY <2>0, <3>7, <4>2, <5>1 DEF OnePermitEach
      <4>3. QED BY <4>1, <4>2
    <3>9. inflight' <= MaxInflight BY <2>0, <3>7 DEF OnePermitEach, BudgetTyped
    <3>10. QED BY <2>0, <3>3, <3>7, <3>8, <3>9 DEF OnePermitEach
  <2>5. ASSUME NEW r \in Fetch, Budget!Withdraw(r) PROVE OnePermitEach'
    <3>1. req[r] = "waiting" /\ req' = [req EXCEPT ![r] = "gone"]
          /\ Budget!ReleaseNetworkPermit(KeyOf[r]) /\ KeyOf[r] \in Key
          /\ withdrawn' = (withdrawn \/ permits[KeyOf[r]] # <<>>)
      BY <2>5 DEF Budget!Withdraw
    <3>2. UNCHANGED <<permits, inflight>> BY <3>1, ReleaseTypes
    <3>3. Going' = Going /\ \A k \in Key : GoingAt(k)' = GoingAt(k)
      BY <3>1 DEF Going, GoingAt, BudgetTyped
    <3>4. QED BY <2>0, <3>2, <3>3 DEF OnePermitEach
  <2>6. QED
    <3>1. Budget!Tick \/ Budget!WriteCooldown \/ UNCHANGED Budget!vars
            => UNCHANGED <<req, permits, inflight>>
      BY DEF Budget!Tick, Budget!WriteCooldown, Budget!vars
    <3>2. ASSUME NEW delay \in 0..MaxDelay, Budget!RecordResponse(delay)
          PROVE  UNCHANGED <<req, permits, inflight>>
      BY <3>2 DEF Budget!RecordResponse
    <3>3. QED BY <1>0, <2>1, <2>2, <2>3, <2>4, <2>5, <3>1, <3>2 DEF Budget!Next
<1>2. CASE withdrawn /\ ~Budget!Restart
  <2>1. withdrawn'
    <3>1. ASSUME NEW r \in Fetch,
                 Budget!Issue(r) \/ Budget!Acquire(r) \/ Budget!Finish(r) \/ Budget!Withdraw(r)
          PROVE  withdrawn'
      BY <1>2, <3>1 DEF Budget!Issue, Budget!Acquire, Budget!Finish, Budget!Withdraw
    <3>2. ASSUME NEW delay \in 0..MaxDelay, Budget!RecordResponse(delay) PROVE withdrawn'
      BY <1>2, <3>2 DEF Budget!RecordResponse
    <3>3. QED BY <1>2, <3>1, <3>2 DEF Budget!Next, Budget!Tick, Budget!WriteCooldown, Budget!vars
  <2>2. QED BY <2>1
<1>3. QED BY <1>0, <1>1, <1>2

-----------------------------------------------------------------------------
(***************************************************************************)
(* The cooldown.                                                           *)
(***************************************************************************)
LEMMA CoolingStays ==
  ASSUME BudgetConstants, BudgetTyped, ~unsaved => CooldownHolds,
         [Budget!Next]_(Budget!vars), ~unsaved'
  PROVE  CooldownHolds'
<1> USE DEF BudgetConstants
<1>1. CASE Budget!Tick
  BY <1>1 DEF Budget!Tick, BudgetTyped, CooldownHolds, Recorded
<1>2. CASE UNCHANGED <<now, cooldownUntil, saved, queue, announced, unsaved>>
  BY <1>2 DEF CooldownHolds, Recorded
<1>3. ASSUME NEW delay \in 0..MaxDelay, Budget!RecordResponse(delay) PROVE CooldownHolds'
  <2>1. PICK shown \in Nat :
           /\ cooldownUntil' = shown /\ queue' = Append(queue, shown)
           /\ announced' = IF shown > announced THEN shown ELSE announced
           /\ cooldownUntil > now => shown >= cooldownUntil
           /\ shown = 0 \/ shown > now
           /\ UNCHANGED <<now, unsaved>>
    BY <1>3, ResponseRecords
  <2>2. Recorded' = shown
    <3>1. queue \in Seq(Nat) BY DEF BudgetTyped
    <3>2. queue' # <<>> /\ queue'[Len(queue')] = shown BY <2>1, <3>1
    <3>3. QED BY <3>2 DEF Recorded
  <2>3. announced > now => shown >= announced BY <2>1 DEF CooldownHolds, BudgetTyped
  <2>4. announced' > now => shown >= announced' BY <2>1, <2>3 DEF BudgetTyped
  <2>5. QED BY <2>1, <2>2, <2>4 DEF CooldownHolds
<1>4. CASE Budget!WriteCooldown
  <2>1. queue # <<>> /\ queue' = Tail(queue) /\ UNCHANGED <<now, cooldownUntil, announced>>
    BY <1>4 DEF Budget!WriteCooldown
  <2>2. saved' = Head(queue) /\ UNCHANGED unsaved BY <1>4 DEF Budget!WriteCooldown
  <2>3. Recorded' = Recorded
    <3>1. queue \in Seq(Nat) BY DEF BudgetTyped
    <3>2. CASE Len(queue) = 1
      <4>1. queue' = <<>> /\ Head(queue) = queue[1] BY <2>1, <3>1, <3>2
      <4>2. QED BY <2>1, <2>2, <3>2, <4>1 DEF Recorded
    <3>3. CASE Len(queue) # 1
      <4>1. Len(queue) \in Nat /\ Len(queue) > 1
        <5>1. Len(queue) \in Nat /\ Len(queue) # 0 BY <2>1, <3>1, EmptySeq
        <5>2. QED BY <3>3, <5>1
      <4>2. Len(queue') = Len(queue) - 1 /\ queue' # <<>>
        <5>1. Len(Tail(queue)) = Len(queue) - 1 BY <2>1, <3>1, HeadTailProperties
        <5>2. Len(Tail(queue)) # 0 BY <4>1, <5>1
        <5>3. Len(<<>>) = 0 OBVIOUS
        <5>4. Tail(queue) # <<>> BY <5>2, <5>3
        <5>5. QED BY <2>1, <5>1, <5>4
      <4>3. queue'[Len(queue')] = queue[Len(queue)] BY <2>1, <3>1, <4>1, <4>2
      <4>4. QED BY <2>1, <4>2, <4>3 DEF Recorded
    <3>4. QED BY <3>2, <3>3
  <2>4. QED BY <2>1, <2>2, <2>3 DEF CooldownHolds
<1>5. CASE Budget!Restart
  <2>1. ~unsaved /\ queue = <<>> /\ queue' = <<>> /\ cooldownUntil' = saved
        /\ UNCHANGED <<now, saved, announced>>
    BY <1>5 DEF Budget!Restart
  <2>2. QED BY <2>1 DEF CooldownHolds, Recorded
<1>6. QED
  <2>1. ASSUME NEW r \in Fetch,
               Budget!Issue(r) \/ Budget!Acquire(r) \/ Budget!Finish(r) \/ Budget!Withdraw(r)
        PROVE  CooldownHolds'
    BY <1>2, <2>1 DEF Budget!Issue, Budget!Acquire, Budget!Finish, Budget!Withdraw
  <2>2. CASE UNCHANGED Budget!vars BY <1>2, <2>2 DEF Budget!vars
  <2>3. QED BY <1>1, <1>3, <1>4, <1>5, <2>1, <2>2 DEF Budget!Next

-----------------------------------------------------------------------------
\* What the budget keeps: the rate in any stretch of time, a place and a permit for each
\* running request, and cooldowns that hold and are written down.
THEOREM BudgetIsInvariant == ASSUME BudgetConstants PROVE Budget!Spec => []BudgetInv
<1>1. Budget!Init => BudgetInv
  <2> SUFFICES ASSUME Budget!Init PROVE BudgetInv OBVIOUS
  <2> USE DEF BudgetConstants
  <2>1. BudgetTyped
    <3>1. <<>> \in Seq(Fetch) /\ <<>> \in Seq(Nat) OBVIOUS
    <3>2. now \in 0..MaxTime /\ tokens \in 0..burstLimit BY DEF Budget!Init
    <3>3. /\ req \in [Fetch -> {"idle", "waiting", "gone", "running"}]
          /\ permits \in [Key -> Seq(Fetch)] /\ queue \in Seq(Nat)
      BY <3>1 DEF Budget!Init
    <3>4. before \in [0..MaxTime -> Nat] BY DEF Budget!Init
    <3>5. /\ inflight \in Int /\ cooldownUntil \in Nat /\ saved \in Nat /\ announced \in Nat
          /\ granted \in Nat
      <4>1. /\ inflight = 0 /\ cooldownUntil = 0 /\ saved = 0 /\ announced = 0 /\ granted = 0
        BY DEF Budget!Init
      <4>2. QED BY <4>1
    <3>6. unsaved \in BOOLEAN /\ withdrawn \in BOOLEAN
      <4>1. unsaved = FALSE /\ withdrawn = FALSE BY DEF Budget!Init
      <4>2. QED BY <4>1
    <3>7. QED BY <3>2, <3>3, <3>4, <3>5, <3>6 DEF BudgetTyped
  <2>2. WithinRate
    <3>1. now = 0 /\ granted = 0 /\ before[0] = 0 /\ tokens = burstLimit
      BY DEF Budget!Init
    <3>2. Rate * (0 - 0) = 0 OBVIOUS
    <3>3. QED BY <3>1, <3>2 DEF WithinRate
  <2>3. OnePermitEach
    <3>1. Going = {} /\ \A k \in Key : GoingAt(k) = {} /\ Len(permits[k]) = 0
      BY DEF Budget!Init, Going, GoingAt
    <3>2. inflight = 0 BY DEF Budget!Init
    <3>3. IsFiniteSet({}) /\ Cardinality({}) = 0 BY FS_EmptySet
    <3>4. \A k \in Key : Len(permits[k]) = Cardinality(GoingAt(k)) BY <3>1, <3>3
    <3>5. IsFiniteSet(Going) /\ inflight = Cardinality(Going) /\ inflight <= MaxInflight
      BY <3>1, <3>2, <3>3
    <3>6. QED BY <3>4, <3>5 DEF OnePermitEach
  <2>4. CooldownHolds BY DEF Budget!Init, CooldownHolds
  <2>5. QED BY <2>1, <2>2, <2>3, <2>4 DEF BudgetInv
<1>2. BudgetInv /\ [Budget!Next]_(Budget!vars) => BudgetInv'
  BY BudgetTypesStay, RateStays, PermitsStay, CoolingStays DEF BudgetInv
<1>3. QED BY <1>1, <1>2, PTL DEF Budget!Spec

\* An origin never sees more than its number of requests at once, nor, in any stretch of
\* time, more than the burst and the rate allow, however requests wait, fail and end, unless a
\* page drops a request that waits behind another of the same URL.
THEOREM TrafficStaysWithinBudget ==
  ASSUME BudgetConstants PROVE Budget!Spec => []Budget!TrafficWithinBudget
<1>1. BudgetInv => Budget!TrafficWithinBudget
  <2> SUFFICES ASSUME BudgetInv PROVE Budget!TrafficWithinBudget OBVIOUS
  <2>1. ~withdrawn => Cardinality(Going) <= MaxInflight
    BY DEF BudgetInv, OnePermitEach
  <2>2. ASSUME NEW from \in 0..now PROVE Budget!Granted(from) <= burstLimit + Rate * (now - from)
    <3>1. granted - before[from] + tokens <= burstLimit + Rate * (now - from)
      BY DEF BudgetInv, WithinRate
    <3>2. granted \in Nat /\ before[from] \in Nat /\ tokens \in Nat
          /\ Rate * (now - from) \in Nat /\ burstLimit \in Nat
      BY OneMoreTick DEF BudgetInv, BudgetTyped, BudgetConstants
    <3>3. QED BY <3>1, <3>2 DEF Budget!Granted
  <2>3. QED BY <2>1, <2>2, BudgetCounts DEF Going, Budget!TrafficWithinBudget
<1>2. QED BY <1>1, BudgetIsInvariant, PTL

\* No request goes out before the end of a cooldown that a response has asked for, in this
\* process or, when its snapshots were written, in one before it.
THEOREM CooldownsHold ==
  ASSUME BudgetConstants PROVE Budget!Spec => Budget!CooldownOutlivesTheProcess
<1>1. BudgetInv /\ [Budget!Next]_(Budget!vars) => [Budget!GrantsAfterCooldown]_(Budget!vars)
  <2> SUFFICES ASSUME BudgetInv, [Budget!Next]_(Budget!vars), NEW r \in Fetch,
                      req[r] = "waiting", req'[r] = "running"
               PROVE  announced <= now \/ unsaved
    BY DEF Budget!GrantsAfterCooldown
  <2>1. PICK s \in Fetch : Budget!Acquire(s)
    <3>1. ASSUME NEW s \in Fetch, Budget!Issue(s) \/ Budget!Finish(s) \/ Budget!Withdraw(s)
          PROVE  FALSE
      BY <3>1 DEF Budget!Issue, Budget!Finish, Budget!Withdraw, BudgetInv, BudgetTyped
    <3>2. ASSUME NEW delay \in 0..MaxDelay, Budget!RecordResponse(delay) PROVE FALSE
      BY <3>2 DEF Budget!RecordResponse
    <3>3. QED
      BY <3>1, <3>2
      DEF Budget!Next, Budget!Tick, Budget!WriteCooldown, Budget!Restart, Budget!vars
  <2>2. cooldownUntil <= now BY <2>1, AcquireSplits DEF BudgetInv
  <2>3. QED BY <2>2 DEF BudgetInv, CooldownHolds, BudgetTyped
<1>2. QED BY <1>1, BudgetIsInvariant, PTL DEF Budget!Spec, Budget!CooldownOutlivesTheProcess

-----------------------------------------------------------------------------
(***************************************************************************)
(* The commands on one proxy (ProxyManager), for any number of commands,   *)
(* credentials and faults: what was tested or read is what is written      *)
(* back, and the credential a row refers to is in the Secret Store.        *)
(***************************************************************************)
CONSTANTS ProxyCommand, NoRef, failureThreshold, MaxRefs, MaxRevision, MaxCommands
VARIABLES row, store, drawn, cooling, commandPc, mem, configs, reborn, adopted, commands,
          proxyFaults

Manager == INSTANCE ProxyManager WITH
  Command <- ProxyCommand, pc <- commandPc, faults <- proxyFaults

\* The value for no reference is not one of them.
ManagerConstants == NoRef \notin Nat \ {0}

\* References drawn so far.
Drawn == 1..drawn \cup {NoRef}
RowOf(refs) ==
  [rev : Nat, enabled : BOOLEAN, health : Manager!HealthStates, failures : Nat, ref : refs,
   config : Nat]
MemOf(refs) == [row : RowOf(refs), ref : refs, created : refs]

ManagerTyped ==
  /\ drawn \in Nat /\ store \subseteq 1..drawn /\ configs \in Nat
  /\ row \in RowOf(Drawn)
  /\ commandPc \in [ProxyCommand -> Manager!Stages]
  /\ mem \in [ProxyCommand -> MemOf(Drawn)]
  /\ reborn \in BOOLEAN /\ adopted \in BOOLEAN

\* A command that has read the row and may yet write it.
Writes == {"write create", "write update", "write import"}
StillTo(c) == commandPc[c] \in {"network"} \cup Manager!Kinds \cup Writes

\* What it read is the row, unless the row has a later revision.
KnowsTheRow ==
  \A c \in ProxyCommand : StillTo(c) =>
    /\ mem[c].row.rev <= row.rev
    /\ mem[c].row.rev = row.rev => mem[c].row = row

\* A credential that a command has made and that no row refers to yet.
Pending(c) == mem[c].created # NoRef /\ commandPc[c] \in Writes \cup {"removeCreated"}

\* Nobody else knows of it; it is there until its own command removes it.
Own(c) ==
  /\ mem[c].created # row.ref
  /\ \A d \in ProxyCommand : mem[d].row.ref # mem[c].created
  /\ \A d \in ProxyCommand \ {c} : Pending(d) => mem[d].created # mem[c].created
  /\ commandPc[c] \in Writes => mem[c].created \in store

PendingIsOwn == \A c \in ProxyCommand : Pending(c) => Own(c)

\* What a command will write as the reference: the credential it made, none, or, in an
\* update, the one the row had.
WillReferAs(c) ==
  /\ commandPc[c] \notin Writes \cup {"removeCreated", "removeOld"} => mem[c].created = NoRef
  /\ commandPc[c] = "removeCreated" => mem[c].created # NoRef
  /\ commandPc[c] \in Writes =>
       IF mem[c].created # NoRef THEN mem[c].ref = mem[c].created
       ELSE \/ mem[c].ref = NoRef
            \/ commandPc[c] = "write update" /\ mem[c].ref = mem[c].row.ref

WillRefer == \A c \in ProxyCommand : WillReferAs(c)

\* A credential that is to go is not the row's.
OldIsGone ==
  \A c \in ProxyCommand : commandPc[c] = "removeOld" =>
    mem[c].row.ref # row.ref /\ mem[c].row.ref # NoRef

RowIsServed == row.ref # NoRef => row.ref \in store

Credentials == PendingIsOwn /\ WillRefer /\ OldIsGone /\ RowIsServed

ManagerInv ==
  /\ ManagerTyped
  /\ ~reborn => KnowsTheRow
  /\ ~reborn /\ ~adopted => Credentials

-----------------------------------------------------------------------------
LEMMA CommandFields ==
  ASSUME ManagerTyped, NEW c \in ProxyCommand
  PROVE  /\ mem[c] \in MemOf(Drawn) /\ configs + 1 \in Nat
         /\ mem[c] = [row |-> mem[c].row, ref |-> mem[c].ref, created |-> mem[c].created]
         /\ mem[c].row \in RowOf(Drawn) /\ mem[c].ref \in Drawn /\ mem[c].created \in Drawn
<1>1. mem[c] \in MemOf(Drawn) /\ configs \in Nat BY DEF ManagerTyped
<1>2. QED BY <1>1 DEF MemOf

\* What a command remembers.
Kept(r, ref, created) == [row |-> r, ref |-> ref, created |-> created]

LEMMA MemoryChanges ==
  ASSUME ManagerTyped, NEW c \in ProxyCommand, NEW x
  PROVE  /\ [mem EXCEPT ![c].row = x] = [mem EXCEPT ![c] = Kept(x, mem[c].ref, mem[c].created)]
         /\ [mem EXCEPT ![c].ref = x] = [mem EXCEPT ![c] = Kept(mem[c].row, x, mem[c].created)]
         /\ [mem EXCEPT ![c].ref = x, ![c].created = x]
              = [mem EXCEPT ![c] = Kept(mem[c].row, x, x)]
<1> DEFINE m == mem[c]
           a == m.row
           b == m.ref
           d == m.created
<1>1. m = Kept(a, b, d) BY CommandFields DEF Kept
<1>2. /\ [m EXCEPT !.row = x] = Kept(x, b, d)
      /\ [m EXCEPT !.ref = x] = Kept(a, x, d)
      /\ [m EXCEPT !.ref = x, !.created = x] = Kept(a, x, x)
  <2> DEFINE n == [m EXCEPT !.ref = x]
  <2> HIDE DEF m, a, b, d
  <2>1. [m EXCEPT !.row = x] = Kept(x, b, d) BY ONLY <1>1 DEF Kept
  <2>2. n = Kept(a, x, d) BY ONLY <1>1 DEF Kept
  <2> HIDE DEF n
  <2>3. [n EXCEPT !.created = x] = Kept(a, x, x) BY ONLY <2>2 DEF Kept
  <2>4. QED BY ONLY <2>1, <2>2, <2>3 DEF n
<1>3. mem \in [ProxyCommand -> MemOf(Drawn)] BY DEF ManagerTyped
<1>4. [mem EXCEPT ![c].row = x] = [mem EXCEPT ![c] = Kept(x, b, d)] BY <1>2
<1>5. [mem EXCEPT ![c].ref = x] = [mem EXCEPT ![c] = Kept(a, x, d)] BY <1>2
<1>6. [mem EXCEPT ![c].ref = x, ![c].created = x] = [mem EXCEPT ![c] = Kept(a, x, x)]
  BY <1>2, <1>3
<1>7. QED BY <1>4, <1>5, <1>6

LEMMA RowFields ==
  ASSUME NEW refs, NEW r \in RowOf(refs)
  PROVE  /\ r = [rev |-> r.rev, enabled |-> r.enabled, health |-> r.health,
                 failures |-> r.failures, ref |-> r.ref, config |-> r.config]
         /\ r.rev \in Nat /\ r.failures \in Nat /\ r.config \in Nat
         /\ r.enabled \in BOOLEAN /\ r.health \in Manager!HealthStates /\ r.ref \in refs
BY DEF RowOf

(***************************************************************************)
(* Steps of one command.                                                   *)
(***************************************************************************)
ManagerStep(c) ==
  \/ \E kind \in Manager!Kinds : Manager!Read(c, kind)
  \/ Manager!AcquireCredential(c) \/ Manager!RemoveSecret(c)
  \/ Manager!WriteCreate(c) \/ Manager!WriteUpdate(c) \/ Manager!WriteImport(c)
  \/ Manager!Toggle(c) \/ Manager!Delete(c) \/ Manager!BeginTest(c) \/ Manager!RecordTest(c)
  \/ Manager!Eligibility(c)

\* Nobody else moves.
Alone(c) ==
  \A d \in ProxyCommand \ {c} : commandPc'[d] = commandPc[d] /\ mem'[d] = mem[d]

LEMMA StepsAlone ==
  ASSUME ManagerTyped, NEW c \in ProxyCommand, ManagerStep(c) PROVE Alone(c)
<1> USE DEF Manager!Goto, Manager!Done, Manager!GiveUp, ManagerTyped, Alone
<1>1. ASSUME NEW kind \in Manager!Kinds, Manager!Read(c, kind) PROVE Alone(c)
  BY <1>1 DEF Manager!Read
<1>2. CASE Manager!AcquireCredential(c)
  BY <1>2 DEF Manager!AcquireCredential, Manager!CreateSecret
<1>3. CASE Manager!RemoveSecret(c) BY <1>3 DEF Manager!RemoveSecret
<1>4. CASE Manager!WriteCreate(c) BY <1>4 DEF Manager!WriteCreate
<1>5. CASE Manager!WriteUpdate(c) BY <1>5 DEF Manager!WriteUpdate
<1>6. CASE Manager!WriteImport(c) BY <1>6 DEF Manager!WriteImport
<1>7. CASE Manager!Toggle(c) BY <1>7 DEF Manager!Toggle
<1>8. CASE Manager!Delete(c) BY <1>8 DEF Manager!Delete
<1>9. CASE Manager!BeginTest(c) BY <1>9 DEF Manager!BeginTest
<1>10. CASE Manager!RecordTest(c) BY <1>10 DEF Manager!RecordTest
<1>11. CASE Manager!Eligibility(c) BY <1>11 DEF Manager!Eligibility
<1>12. QED
  BY <1>1, <1>2, <1>3, <1>4, <1>5, <1>6, <1>7, <1>8, <1>9, <1>10, <1>11 DEF ManagerStep

\* What a step does to its own command: it forgets, moves on with what it has, reads the
\* row, or has a credential.
Forgets(c) ==
  commandPc' = [commandPc EXCEPT ![c] = "idle"] /\ mem' = [mem EXCEPT ![c] = Manager!Blank]
MovesOn(c, place) == commandPc' = [commandPc EXCEPT ![c] = place] /\ UNCHANGED mem

\* What a step of c writes as the row, at the revision after the row's: what it read, with
\* another state, or a new configuration with the reference it has.
Rewrites(c) ==
  /\ commandPc[c] \in {"enable", "disable", "network", "eligibility"}
  /\ row.rev = mem[c].row.rev
  /\ row'.rev = row.rev + 1 /\ row'.ref = mem[c].row.ref /\ row'.config = mem[c].row.config
  /\ row' \in RowOf(Drawn)
Configures(c) ==
  /\ commandPc[c] \in Writes
  /\ commandPc[c] = "write update" => row.rev = mem[c].row.rev
  /\ row'.rev = row.rev + 1 /\ row'.ref = mem[c].ref
  /\ row' \in RowOf(Drawn) /\ configs' \in Nat

LEMMA WriteCreateDoes ==
  ASSUME ManagerTyped, NEW c \in ProxyCommand, Manager!WriteCreate(c)
  PROVE  /\ commandPc[c] = "write create"
         /\ UNCHANGED <<store, drawn, reborn, adopted>>
         /\ \/ Configures(c) /\ Forgets(c)
            \/ /\ UNCHANGED <<row, configs>>
               /\ IF mem[c].created = NoRef THEN Forgets(c) ELSE MovesOn(c, "removeCreated")
<1> USE DEF Manager!WriteCreate, Manager!Vault
<1>1. ASSUME NEW enabled \in BOOLEAN, Manager!InsertRow(Manager!NewRow(c, 1, enabled)),
             Manager!Configured, Manager!Done(c)
      PROVE  Configures(c) /\ Forgets(c)
  <2>1. row.rev = 0 /\ row' = Manager!NewRow(c, 1, enabled)
    <3>1. row.rev \in Nat BY RowFields DEF ManagerTyped
    <3>2. ~Manager!Exists /\ row' = Manager!NewRow(c, 1, enabled)
      BY <1>1 DEF Manager!InsertRow
    <3>3. ~(row.rev > 0) BY <3>2 DEF Manager!Exists
    <3>4. row.rev = 0 BY ONLY <3>1, <3>3
    <3>5. QED BY <3>2, <3>4
  <2>2. mem[c].ref \in Drawn /\ configs + 1 \in Nat BY CommandFields
  <2>3. row' \in RowOf(Drawn) /\ row'.rev = 1 /\ row'.ref = mem[c].ref
    BY <2>1, <2>2 DEF Manager!NewRow, Manager!Health, Manager!HealthStates, RowOf
  <2>4. configs' \in Nat BY <1>1, <2>2 DEF Manager!Configured
  <2>5. commandPc[c] \in Writes /\ commandPc[c] # "write update" BY DEF Writes
  <2>6. row'.rev = row.rev + 1
    <3>1. row.rev = 0 /\ row'.rev = 1 BY <2>1, <2>3
    <3>2. QED BY ONLY <3>1
  <2>7. Configures(c) BY <2>3, <2>4, <2>5, <2>6 DEF Configures
  <2>8. QED BY <1>1, <2>7 DEF Forgets, Manager!Done, Manager!Goto
<1>2. CASE Manager!GiveUp(c) /\ UNCHANGED <<row, configs>>
  BY <1>2 DEF Manager!GiveUp, Forgets, MovesOn, Manager!Done, Manager!Goto
<1>3. QED BY <1>1, <1>2

LEMMA WriteUpdateDoes ==
  ASSUME ManagerTyped, NEW c \in ProxyCommand, Manager!WriteUpdate(c)
  PROVE  /\ commandPc[c] = "write update"
         /\ UNCHANGED <<store, drawn, reborn, adopted>>
         /\ \/ /\ Configures(c)
               /\ IF mem[c].row.ref # NoRef /\ mem[c].created # NoRef
                  THEN MovesOn(c, "removeOld") ELSE Forgets(c)
            \/ /\ UNCHANGED <<row, configs>>
               /\ IF mem[c].created = NoRef THEN Forgets(c) ELSE MovesOn(c, "removeCreated")
<1> USE DEF Manager!WriteUpdate, Manager!Vault
<1>1. ASSUME NEW r \in Manager!Built(c), Manager!ReplaceRow(c, r), Manager!Configured
      PROVE  Configures(c)
  <2>1. PICK enabled \in BOOLEAN : r = Manager!NewRow(c, mem[c].row.rev + 1, enabled)
    BY <1>1 DEF Manager!Built
  <2>2. row.rev = mem[c].row.rev /\ row' = r
    BY <1>1 DEF Manager!ReplaceRow, Manager!SameRevision
  <2>3. mem[c].ref \in Drawn /\ configs + 1 \in Nat /\ mem[c].row.rev + 1 \in Nat
    <3>1. mem[c].row \in RowOf(Drawn) BY CommandFields
    <3>2. mem[c].row.rev \in Nat BY <3>1, RowFields
    <3>3. mem[c].row.rev + 1 \in Nat BY ONLY <3>2
    <3>4. QED BY <3>3, CommandFields
  <2>4. row' \in RowOf(Drawn) /\ row'.rev = row.rev + 1 /\ row'.ref = mem[c].ref
    BY <2>1, <2>2, <2>3 DEF Manager!NewRow, Manager!Health, Manager!HealthStates, RowOf
  <2>5. configs' \in Nat BY <1>1, <2>3 DEF Manager!Configured
  <2>6. QED BY <2>2, <2>4, <2>5 DEF Configures, Writes
<1>2. CASE Manager!GiveUp(c) /\ UNCHANGED <<row, configs>>
  BY <1>2 DEF Manager!GiveUp, Forgets, MovesOn, Manager!Done, Manager!Goto
<1>3. CASE /\ \E r \in Manager!Built(c) : Manager!ReplaceRow(c, r)
           /\ Manager!Configured
           /\ IF mem[c].row.ref # NoRef /\ mem[c].created # NoRef
              THEN Manager!Goto(c, "removeOld") /\ UNCHANGED mem ELSE Manager!Done(c)
  <2>1. Configures(c) BY <1>1, <1>3
  <2>2. IF mem[c].row.ref # NoRef /\ mem[c].created # NoRef
        THEN MovesOn(c, "removeOld") ELSE Forgets(c)
    BY <1>3 DEF Forgets, MovesOn, Manager!Done, Manager!Goto
  <2>3. QED BY <2>1, <2>2
<1>4. QED BY <1>2, <1>3

LEMMA WriteImportDoes ==
  ASSUME ManagerTyped, NEW c \in ProxyCommand, Manager!WriteImport(c)
  PROVE  /\ commandPc[c] = "write import"
         /\ UNCHANGED <<store, drawn, reborn, adopted>>
         /\ \/ /\ Configures(c)
               /\ IF mem[c].row.ref \notin {NoRef, mem[c].ref}
                  THEN MovesOn(c, "removeOld") ELSE Forgets(c)
            \/ /\ UNCHANGED <<row, configs>>
               /\ IF mem[c].created = NoRef THEN Forgets(c) ELSE MovesOn(c, "removeCreated")
<1> USE DEF Manager!WriteImport, Manager!Vault
<1>1. ASSUME NEW enabled \in BOOLEAN, Manager!ImportRow(Manager!NewRow(c, 1, enabled)),
             Manager!Configured
      PROVE  Configures(c)
  <2>1. row' = [Manager!NewRow(c, 1, enabled) EXCEPT !.rev = row.rev + 1]
    BY <1>1 DEF Manager!ImportRow
  <2>2. mem[c].ref \in Drawn /\ configs + 1 \in Nat /\ row.rev + 1 \in Nat
    <3>1. row.rev \in Nat BY RowFields DEF ManagerTyped
    <3>2. row.rev + 1 \in Nat BY ONLY <3>1
    <3>3. QED BY <3>2, CommandFields
  <2>3. row' \in RowOf(Drawn) /\ row'.rev = row.rev + 1 /\ row'.ref = mem[c].ref
    BY <2>1, <2>2 DEF Manager!NewRow, Manager!Health, Manager!HealthStates, RowOf
  <2>4. configs' \in Nat BY <1>1, <2>2 DEF Manager!Configured
  <2>5. QED BY <2>3, <2>4 DEF Configures, Writes
<1>2. CASE Manager!GiveUp(c) /\ UNCHANGED <<row, configs>>
  BY <1>2 DEF Manager!GiveUp, Forgets, MovesOn, Manager!Done, Manager!Goto
<1>3. CASE /\ \E enabled \in BOOLEAN : Manager!ImportRow(Manager!NewRow(c, 1, enabled))
           /\ Manager!Configured
           /\ IF mem[c].row.ref \notin {NoRef, mem[c].ref}
              THEN Manager!Goto(c, "removeOld") /\ UNCHANGED mem ELSE Manager!Done(c)
  <2>1. Configures(c) BY <1>1, <1>3
  <2>2. IF mem[c].row.ref \notin {NoRef, mem[c].ref}
        THEN MovesOn(c, "removeOld") ELSE Forgets(c)
    BY <1>3 DEF Forgets, MovesOn, Manager!Done, Manager!Goto
  <2>3. QED BY <2>1, <2>2
<1>4. QED BY <1>2, <1>3

\* enable, disable, the record of a test, and the end of a cooldown.
LEMMA RewriteDoes ==
  ASSUME ManagerTyped, NEW c \in ProxyCommand,
         Manager!Toggle(c) \/ Manager!RecordTest(c) \/ Manager!Eligibility(c)
  PROVE  /\ Forgets(c) /\ UNCHANGED <<store, drawn, reborn, adopted, configs>>
         /\ commandPc[c] \in {"enable", "disable", "network", "eligibility"}
         /\ Rewrites(c) \/ UNCHANGED row
<1> DEFINE m == mem[c].row
<1>0. m \in RowOf(Drawn) BY CommandFields
<1> HIDE DEF m
<1>a. m.rev + 1 \in Nat /\ m.failures + 1 \in Nat BY <1>0, RowFields
<1>1. ASSUME NEW r \in RowOf(Drawn), Manager!ReplaceRow(c, r), r.ref = m.ref, r.config = m.config,
             commandPc[c] \in {"enable", "disable", "network", "eligibility"}
      PROVE  Rewrites(c)
  <2>1. row.rev = m.rev /\ r.rev = m.rev + 1 /\ row' = r
    BY <1>1 DEF Manager!ReplaceRow, Manager!SameRevision, m
  <2>2. row'.rev = row.rev + 1 BY <2>1
  <2>3. QED BY <1>1, <2>1, <2>2 DEF Rewrites, m
<1> USE DEF Manager!Vault, Manager!Done, Manager!Goto, Forgets
<1>2. CASE Manager!Toggle(c)
  <2> DEFINE r == [m EXCEPT !.rev = @ + 1, !.enabled = (commandPc[c] = "enable"),
                            !.health = Manager!Health(commandPc[c] = "enable")]
  <2>1. r \in RowOf(Drawn) /\ r.ref = m.ref /\ r.config = m.config
    BY <1>0, <1>a DEF RowOf, Manager!Health, Manager!HealthStates
  <2>2. Manager!ReplaceRow(c, r) \/ UNCHANGED row BY <1>2 DEF Manager!Toggle, m
  <2>3. QED BY <1>1, <1>2, <2>1, <2>2 DEF Manager!Toggle
<1>3. CASE Manager!RecordTest(c)
  <2>1. ASSUME NEW slow \in BOOLEAN
        PROVE  /\ Manager!AfterSuccess(m, slow) \in RowOf(Drawn)
               /\ Manager!AfterSuccess(m, slow).ref = m.ref
               /\ Manager!AfterSuccess(m, slow).config = m.config
    BY <1>0, <1>a DEF RowOf, Manager!AfterSuccess, Manager!HealthStates
  <2>2. /\ Manager!AfterFailure(m) \in RowOf(Drawn)
        /\ Manager!AfterFailure(m).ref = m.ref /\ Manager!AfterFailure(m).config = m.config
    BY <1>0, <1>a DEF RowOf, Manager!AfterFailure, Manager!HealthStates
  <2>3. \/ UNCHANGED row
        \/ \E r \in {Manager!AfterSuccess(m, slow) : slow \in BOOLEAN}
                  \cup {Manager!AfterFailure(m)} :
             Manager!ReplaceRow(c, r)
    BY <1>3 DEF Manager!RecordTest, m
  <2>4. Rewrites(c) \/ UNCHANGED row
    BY <1>1, <1>3, <2>1, <2>2, <2>3 DEF Manager!RecordTest
  <2>5. QED BY <1>3, <2>4 DEF Manager!RecordTest
<1>4. CASE Manager!Eligibility(c)
  <2> DEFINE r == [m EXCEPT !.rev = @ + 1, !.health = "degraded"]
  <2>1. r \in RowOf(Drawn) /\ r.ref = m.ref /\ r.config = m.config
    BY <1>0, <1>a DEF RowOf, Manager!HealthStates
  <2>2. Manager!ReplaceRow(c, r) \/ UNCHANGED row BY <1>4 DEF Manager!Eligibility, m
  <2>3. QED BY <1>1, <1>4, <2>1, <2>2 DEF Manager!Eligibility
<1>5. QED BY <1>2, <1>3, <1>4

LEMMA DeleteDoes ==
  ASSUME NEW c \in ProxyCommand, Manager!Delete(c)
  PROVE  /\ commandPc[c] = "delete" /\ UNCHANGED <<store, drawn, configs, adopted>>
         /\ \/ /\ row' = Manager!NoRow
               /\ reborn' = (reborn \/ \E d \in ProxyCommand \ {c} : commandPc[d] # "idle")
               /\ IF mem[c].row.ref # NoRef THEN MovesOn(c, "removeOld") ELSE Forgets(c)
            \/ UNCHANGED <<row, reborn>> /\ Forgets(c)
BY DEF Manager!Delete, Manager!DeleteRow, Manager!Vault, Manager!Done, Manager!Goto, Forgets,
       MovesOn

\* acquireCredential: a new one, one that the caller names, none, or the row's.
LEMMA AcquireDoes ==
  ASSUME ManagerTyped, NEW c \in ProxyCommand, Manager!AcquireCredential(c)
  PROVE  /\ commandPc[c] \in {"create", "update", "import"} /\ UNCHANGED <<row, configs, reborn>>
         /\ \E place \in Writes : /\ commandPc' = [commandPc EXCEPT ![c] = place]
                                  /\ (place = "write update" <=> commandPc[c] = "update")
         /\ \/ /\ drawn' = drawn + 1 /\ store' = store \cup {drawn + 1} /\ UNCHANGED adopted
               /\ mem' = [mem EXCEPT ![c] = Kept(mem[c].row, drawn + 1, drawn + 1)]
            \/ /\ UNCHANGED <<drawn, store>>
               /\ \E ref \in Drawn :
                    /\ mem' = [mem EXCEPT ![c] = Kept(mem[c].row, ref, mem[c].created)]
                    /\ \/ adopted'
                       \/ UNCHANGED adopted /\ ref = NoRef
                       \/ UNCHANGED adopted /\ commandPc[c] = "update" /\ ref = mem[c].row.ref
<1> USE DEF Manager!AcquireCredential, Manager!Vault
<1>1. /\ commandPc[c] \in {"create", "update", "import"} /\ UNCHANGED <<row, configs, reborn>>
      /\ \E place \in Writes : /\ commandPc' = [commandPc EXCEPT ![c] = place]
                               /\ (place = "write update" <=> commandPc[c] = "update")
  BY DEF Manager!Goto, Writes
<1>2. CASE Manager!CreateSecret(c) /\ UNCHANGED adopted
  <2>1. mem' = [mem EXCEPT ![c].ref = drawn + 1, ![c].created = drawn + 1]
    BY <1>2 DEF Manager!CreateSecret
  <2>2. mem' = [mem EXCEPT ![c] = Kept(mem[c].row, drawn + 1, drawn + 1)]
    BY <2>1, MemoryChanges
  <2>3. QED BY <1>1, <1>2, <2>2 DEF Manager!CreateSecret
<1>3. ASSUME NEW ref \in Drawn, mem' = [mem EXCEPT ![c].ref = ref]
      PROVE  mem' = [mem EXCEPT ![c] = Kept(mem[c].row, ref, mem[c].created)]
  BY <1>3, MemoryChanges
<1>4. CASE /\ \E ref \in Manager!Ref : Manager!Referable(ref) /\ mem' = [mem EXCEPT ![c].ref = ref]
           /\ adopted' = TRUE /\ UNCHANGED <<store, drawn>>
  <2>1. PICK ref \in store : mem' = [mem EXCEPT ![c].ref = ref] BY <1>4 DEF Manager!Referable
  <2>2. ref \in Drawn BY DEF ManagerTyped, Drawn
  <2>3. QED BY <1>1, <1>3, <1>4, <2>1, <2>2
<1>5. CASE /\ \E ref \in {NoRef} \cup {r \in {mem[c].row.ref} : commandPc[c] = "update"} :
                mem' = [mem EXCEPT ![c].ref = ref]
           /\ UNCHANGED <<store, drawn, adopted>>
  <2>1. PICK ref \in {NoRef} \cup {r \in {mem[c].row.ref} : commandPc[c] = "update"} :
          mem' = [mem EXCEPT ![c].ref = ref]
    BY <1>5
  <2>2. mem[c].row.ref \in Drawn /\ NoRef \in Drawn BY CommandFields, RowFields DEF Drawn
  <2>3. ref \in Drawn /\ (ref = NoRef \/ (commandPc[c] = "update" /\ ref = mem[c].row.ref))
    BY <2>1, <2>2
  <2>4. QED BY <1>1, <1>3, <1>5, <2>1, <2>2, <2>3
<1>6. QED BY <1>2, <1>4, <1>5

LEMMA ReadDoes ==
  ASSUME ManagerTyped, NEW c \in ProxyCommand, NEW kind \in Manager!Kinds, Manager!Read(c, kind)
  PROVE  /\ commandPc[c] = "idle" /\ commandPc' = [commandPc EXCEPT ![c] = kind]
         /\ mem' = [mem EXCEPT ![c] = Kept(row, mem[c].ref, mem[c].created)]
         /\ UNCHANGED <<row, store, drawn, configs, reborn, adopted>>
<1>1. mem' = [mem EXCEPT ![c].row = row] BY DEF Manager!Read
<1>2. mem' = [mem EXCEPT ![c] = Kept(row, mem[c].ref, mem[c].created)] BY <1>1, MemoryChanges
<1>3. QED BY <1>2 DEF Manager!Read, Manager!Goto, Manager!Vault

LEMMA RemoveDoes ==
  ASSUME NEW c \in ProxyCommand, Manager!RemoveSecret(c)
  PROVE  /\ commandPc[c] \in {"removeCreated", "removeOld"} /\ Forgets(c)
         /\ UNCHANGED <<row, drawn, configs, reborn, adopted>>
         /\ \/ UNCHANGED store
            \/ store' = store \ {IF commandPc[c] = "removeOld" THEN mem[c].row.ref
                                 ELSE mem[c].created}
BY DEF Manager!RemoveSecret, Manager!Done, Manager!Goto, Forgets

LEMMA BeginTestDoes ==
  ASSUME NEW c \in ProxyCommand, Manager!BeginTest(c)
  PROVE  /\ commandPc[c] = "test" /\ (MovesOn(c, "network") \/ Forgets(c))
         /\ UNCHANGED <<row, store, drawn, configs, reborn, adopted>>
BY DEF Manager!BeginTest, Manager!Done, Manager!Goto, Manager!Vault, Forgets, MovesOn

-----------------------------------------------------------------------------
(***************************************************************************)
(* Types.                                                                  *)
(***************************************************************************)
LEMMA DrawnGrows ==
  ASSUME ManagerTyped, drawn' \in {drawn, drawn + 1}
  PROVE  /\ drawn' \in Nat /\ Drawn \subseteq Drawn'
         /\ RowOf(Drawn) \subseteq RowOf(Drawn') /\ MemOf(Drawn) \subseteq MemOf(Drawn')
<1>1. drawn \in Nat BY DEF ManagerTyped
<1>2. drawn' \in Nat /\ Drawn \subseteq Drawn' BY <1>1 DEF Drawn
<1>3. RowOf(Drawn) \subseteq RowOf(Drawn') BY <1>2 DEF RowOf
<1>4. MemOf(Drawn) \subseteq MemOf(Drawn') BY <1>2, <1>3 DEF MemOf
<1>5. QED BY <1>2, <1>3, <1>4

LEMMA TypesFollow ==
  ASSUME ManagerTyped, NEW c \in ProxyCommand, NEW place \in Manager!Stages,
         drawn' \in {drawn, drawn + 1}, store' \subseteq 1..drawn', configs' \in Nat,
         row' \in RowOf(Drawn'), reborn' \in BOOLEAN, adopted' \in BOOLEAN,
         commandPc' = [commandPc EXCEPT ![c] = place],
         UNCHANGED mem \/ \E m \in MemOf(Drawn') : mem' = [mem EXCEPT ![c] = m]
  PROVE  ManagerTyped'
<1>1. commandPc' \in [ProxyCommand -> Manager!Stages] BY DEF ManagerTyped
<1>2. mem \in [ProxyCommand -> MemOf(Drawn')]
  <2>1. mem \in [ProxyCommand -> MemOf(Drawn)] BY DEF ManagerTyped
  <2>2. QED BY <2>1, DrawnGrows
<1>3. mem' \in [ProxyCommand -> MemOf(Drawn')] BY <1>2
<1>4. QED BY <1>1, <1>3, DrawnGrows DEF ManagerTyped

LEMMA BlankIsTyped == Manager!Blank \in MemOf(Drawn) /\ Manager!NoRow \in RowOf(Drawn)
<1>1. NoRef \in Drawn BY DEF Drawn
<1>2. Manager!NoRow \in RowOf(Drawn)
  BY <1>1 DEF Manager!NoRow, RowOf, Manager!HealthStates
<1>3. QED BY <1>1, <1>2 DEF Manager!Blank, MemOf

LEMMA StagesAre ==
  /\ "idle" \in Manager!Stages /\ "network" \in Manager!Stages
  /\ {"removeCreated", "removeOld"} \cup Writes \cup Manager!Kinds \subseteq Manager!Stages
BY DEF Manager!Stages, Writes

LEMMA ManagerTypesStay ==
  ASSUME ManagerTyped, NEW c \in ProxyCommand, ManagerStep(c) PROVE ManagerTyped'
<1>1. ASSUME UNCHANGED drawn, store' \subseteq store, row' = row \/ row' \in RowOf(Drawn),
             configs' \in Nat, reborn' \in BOOLEAN, UNCHANGED adopted,
             \/ Forgets(c)
             \/ \E place \in {"removeCreated", "removeOld", "network"} : MovesOn(c, place)
      PROVE  ManagerTyped'
  <2>1. Drawn' = Drawn /\ store' \subseteq 1..drawn' /\ row' \in RowOf(Drawn')
        /\ adopted' \in BOOLEAN /\ drawn' \in {drawn, drawn + 1}
    BY <1>1 DEF Drawn, ManagerTyped
  <2>2. \E place \in Manager!Stages : commandPc' = [commandPc EXCEPT ![c] = place]
    BY <1>1, StagesAre DEF Forgets, MovesOn
  <2>3. UNCHANGED mem \/ \E m \in MemOf(Drawn') : mem' = [mem EXCEPT ![c] = m]
    BY <1>1, <2>1, BlankIsTyped DEF Forgets, MovesOn
  <2>4. QED BY <1>1, <2>1, <2>2, <2>3, TypesFollow
<1>2. reborn \in BOOLEAN /\ adopted \in BOOLEAN /\ configs \in Nat BY DEF ManagerTyped
<1>3. ASSUME NEW kind \in Manager!Kinds, Manager!Read(c, kind) PROVE ManagerTyped'
  <2>1. UNCHANGED <<row, store, drawn, configs, reborn, adopted>>
        /\ mem' = [mem EXCEPT ![c] = Kept(row, mem[c].ref, mem[c].created)]
        /\ commandPc' = [commandPc EXCEPT ![c] = kind]
    BY <1>3, ReadDoes
  <2>2. Drawn' = Drawn /\ store' \subseteq 1..drawn' /\ row' \in RowOf(Drawn')
        /\ drawn' \in {drawn, drawn + 1}
    BY <2>1 DEF Drawn, ManagerTyped
  <2>3. Kept(row, mem[c].ref, mem[c].created) \in MemOf(Drawn')
    BY <2>2, CommandFields DEF ManagerTyped, Kept, MemOf
  <2>4. kind \in Manager!Stages BY StagesAre
  <2>5. QED BY <1>2, <2>1, <2>2, <2>3, <2>4, TypesFollow
<1>4. CASE Manager!AcquireCredential(c)
  <2>1. /\ UNCHANGED <<row, configs, reborn>>
        /\ \E place \in Manager!Stages : commandPc' = [commandPc EXCEPT ![c] = place]
    BY <1>4, AcquireDoes, StagesAre
  <2>2. mem[c].row \in RowOf(Drawn) /\ mem[c].created \in Drawn /\ drawn \in Nat
        /\ store \subseteq 1..drawn /\ row \in RowOf(Drawn)
    BY CommandFields DEF ManagerTyped
  <2>3. adopted' \in BOOLEAN BY <1>2, <1>4 DEF Manager!AcquireCredential
  <2>4. CASE /\ drawn' = drawn + 1 /\ store' = store \cup {drawn + 1}
             /\ mem' = [mem EXCEPT ![c] = Kept(mem[c].row, drawn + 1, drawn + 1)]
    <3>1. drawn + 1 \in Drawn' /\ store' \subseteq 1..drawn' BY <2>2, <2>4 DEF Drawn
    <3>2. row' \in RowOf(Drawn') /\ mem[c].row \in RowOf(Drawn')
      BY <2>1, <2>2, <2>4, DrawnGrows
    <3>3. Kept(mem[c].row, drawn + 1, drawn + 1) \in MemOf(Drawn')
      BY <3>1, <3>2 DEF Kept, MemOf
    <3>4. QED BY <1>2, <2>1, <2>3, <2>4, <3>1, <3>2, <3>3, TypesFollow
  <2>5. CASE /\ UNCHANGED <<drawn, store>>
             /\ \E ref \in Drawn : mem' = [mem EXCEPT ![c] = Kept(mem[c].row, ref, mem[c].created)]
    <3>1. Drawn' = Drawn /\ store' \subseteq 1..drawn' /\ row' \in RowOf(Drawn')
          /\ drawn' \in {drawn, drawn + 1}
      BY <2>1, <2>2, <2>5 DEF Drawn
    <3>2. \A ref \in Drawn : Kept(mem[c].row, ref, mem[c].created) \in MemOf(Drawn')
      BY <2>2, <3>1 DEF Kept, MemOf
    <3>3. QED BY <1>2, <2>1, <2>3, <2>5, <3>1, <3>2, TypesFollow
  <2>6. QED BY <1>4, <2>4, <2>5, AcquireDoes
<1>5. CASE Manager!RemoveSecret(c) BY <1>1, <1>2, <1>5, RemoveDoes
<1>6. CASE Manager!WriteCreate(c) BY <1>1, <1>2, <1>6, WriteCreateDoes DEF Configures
<1>7. CASE Manager!WriteUpdate(c) BY <1>1, <1>2, <1>7, WriteUpdateDoes DEF Configures
<1>8. CASE Manager!WriteImport(c) BY <1>1, <1>2, <1>8, WriteImportDoes DEF Configures
<1>9. CASE Manager!Toggle(c) \/ Manager!RecordTest(c) \/ Manager!Eligibility(c)
  BY <1>1, <1>2, <1>9, RewriteDoes DEF Rewrites
<1>10. CASE Manager!Delete(c) BY <1>1, <1>2, <1>10, DeleteDoes, BlankIsTyped
<1>11. CASE Manager!BeginTest(c) BY <1>1, <1>2, <1>11, BeginTestDoes
<1>12. QED BY <1>3, <1>4, <1>5, <1>6, <1>7, <1>8, <1>9, <1>10, <1>11 DEF ManagerStep

-----------------------------------------------------------------------------
(***************************************************************************)
(* What the commands know of the row.                                      *)
(***************************************************************************)
LEMMA IdleForgets ==
  ASSUME ManagerTyped, NEW c \in ProxyCommand, Forgets(c)
  PROVE  /\ commandPc'[c] = "idle" /\ mem'[c] = Manager!Blank /\ Alone(c)
         /\ "idle" \notin {"network"} \cup Manager!Kinds \cup Writes
<1>1. commandPc'[c] = "idle" /\ mem'[c] = Manager!Blank /\ Alone(c)
  BY DEF ManagerTyped, Forgets, Alone
<1>2. QED BY <1>1 DEF Manager!Kinds, Writes

LEMMA MovedOn ==
  ASSUME ManagerTyped, NEW c \in ProxyCommand, NEW place, MovesOn(c, place)
  PROVE  commandPc'[c] = place /\ mem' = mem /\ Alone(c)
BY DEF ManagerTyped, MovesOn, Alone

\* A step that leaves the row, or writes its next revision and then is done with it.
LEMMA KnowledgeFollows ==
  ASSUME ManagerTyped, KnowsTheRow, NEW c \in ProxyCommand, Alone(c),
         \/ /\ UNCHANGED row
            /\ \/ commandPc'[c] \notin {"network"} \cup Manager!Kinds \cup Writes
               \/ mem'[c].row = row
               \/ mem'[c].row = mem[c].row /\ StillTo(c)
         \/ /\ row'.rev = row.rev + 1
            /\ commandPc'[c] \notin {"network"} \cup Manager!Kinds \cup Writes
  PROVE  KnowsTheRow'
<1>1. row.rev \in Nat /\ \A d \in ProxyCommand : mem[d].row.rev \in Nat
  <2>1. row \in RowOf(Drawn) /\ \A d \in ProxyCommand : mem[d].row \in RowOf(Drawn)
    BY CommandFields DEF ManagerTyped
  <2>2. QED BY <2>1, RowFields
<1>2. SUFFICES ASSUME NEW d \in ProxyCommand, StillTo(d)'
               PROVE  /\ mem'[d].row.rev <= row'.rev
                      /\ mem'[d].row.rev = row'.rev => mem'[d].row = row'
  BY DEF KnowsTheRow
<1>3. CASE d = c
  <2>1. UNCHANGED row /\ (mem'[c].row = row \/ (mem'[c].row = mem[c].row /\ StillTo(c)))
    BY <1>2, <1>3 DEF StillTo
  <2>2. CASE mem'[c].row = row BY <1>1, <1>3, <2>1, <2>2
  <2>3. CASE mem'[c].row = mem[c].row /\ StillTo(c)
    BY <1>3, <2>1, <2>3 DEF KnowsTheRow
  <2>4. QED BY <2>1, <2>2, <2>3
<1>4. CASE d # c
  <2>1. mem'[d] = mem[d] /\ StillTo(d) BY <1>2, <1>4 DEF Alone, StillTo
  <2>2. mem[d].row.rev <= row.rev /\ (mem[d].row.rev = row.rev => mem[d].row = row)
    BY <2>1 DEF KnowsTheRow
  <2>3. CASE UNCHANGED row BY <2>1, <2>2, <2>3
  <2>4. CASE row'.rev = row.rev + 1
    <3>1. mem[d].row.rev <= row'.rev /\ mem[d].row.rev # row'.rev BY <1>1, <2>2, <2>4
    <3>2. QED BY <2>1, <3>1
  <2>5. QED BY <2>3, <2>4
<1>5. QED BY <1>3, <1>4

LEMMA KnowledgeStays ==
  ASSUME ManagerTyped, KnowsTheRow, NEW c \in ProxyCommand, ManagerStep(c), ~reborn'
  PROVE  KnowsTheRow'
<1> DEFINE Reads == {"network"} \cup Manager!Kinds \cup Writes
<1>1. Alone(c) BY StepsAlone
<1>2. {"removeCreated", "removeOld"} \cap Reads = {} BY DEF Manager!Kinds, Writes
<1>3. ASSUME \/ UNCHANGED row
             \/ Configures(c)
             \/ Rewrites(c),
             \/ Forgets(c)
             \/ \E place \in {"removeCreated", "removeOld"} : MovesOn(c, place)
      PROVE  KnowsTheRow'
  <2>1. commandPc'[c] \notin Reads BY <1>2, <1>3, IdleForgets, MovedOn
  <2>2. UNCHANGED row \/ row'.rev = row.rev + 1 BY <1>3 DEF Configures, Rewrites
  <2>3. QED BY <1>1, <2>1, <2>2, KnowledgeFollows
<1>4. ASSUME NEW kind \in Manager!Kinds, Manager!Read(c, kind) PROVE KnowsTheRow'
  <2>1. UNCHANGED row /\ mem' = [mem EXCEPT ![c] = Kept(row, mem[c].ref, mem[c].created)]
    BY <1>4, ReadDoes
  <2>2. mem'[c].row = row BY <2>1 DEF ManagerTyped, Kept
  <2>3. QED BY <1>1, <2>1, <2>2, KnowledgeFollows
<1>5. CASE Manager!AcquireCredential(c)
  <2>1. UNCHANGED row /\ commandPc[c] \in {"create", "update", "import"} BY <1>5, AcquireDoes
  <2>2. ASSUME NEW ref, NEW created, mem' = [mem EXCEPT ![c] = Kept(mem[c].row, ref, created)]
        PROVE  mem'[c].row = mem[c].row
    BY <2>2 DEF ManagerTyped, Kept
  <2>3. mem'[c].row = mem[c].row
    <3>1. CASE mem' = [mem EXCEPT ![c] = Kept(mem[c].row, drawn + 1, drawn + 1)] BY <2>2, <3>1
    <3>2. CASE \E ref \in Drawn : mem' = [mem EXCEPT ![c] = Kept(mem[c].row, ref, mem[c].created)]
      BY <2>2, <3>2
    <3>3. QED BY <1>5, <3>1, <3>2, AcquireDoes
  <2>4. StillTo(c) BY <2>1 DEF StillTo, Manager!Kinds
  <2>5. QED BY <1>1, <2>1, <2>3, <2>4, KnowledgeFollows
<1>6. CASE Manager!RemoveSecret(c) BY <1>3, <1>6, RemoveDoes
<1>7. CASE Manager!WriteCreate(c) BY <1>3, <1>7, WriteCreateDoes
<1>8. CASE Manager!WriteUpdate(c) BY <1>3, <1>8, WriteUpdateDoes
<1>9. CASE Manager!WriteImport(c) BY <1>3, <1>9, WriteImportDoes
<1>10. CASE Manager!Toggle(c) \/ Manager!RecordTest(c) \/ Manager!Eligibility(c)
  BY <1>3, <1>10, RewriteDoes
<1>11. CASE Manager!Delete(c)
  <2>1. CASE UNCHANGED row /\ Forgets(c) BY <1>3, <2>1
  <2>2. CASE /\ reborn' = (reborn \/ \E d \in ProxyCommand \ {c} : commandPc[d] # "idle")
             /\ IF mem[c].row.ref # NoRef THEN MovesOn(c, "removeOld") ELSE Forgets(c)
    <3>1. \A d \in ProxyCommand \ {c} : commandPc[d] = "idle" BY <2>2
    <3>2. commandPc'[c] \notin Reads BY <1>2, <2>2, IdleForgets, MovedOn
    <3>3. \A d \in ProxyCommand : commandPc'[d] \notin Reads
      BY <1>1, <3>1, <3>2 DEF Alone, Manager!Kinds, Writes
    <3>4. QED BY <3>3 DEF KnowsTheRow, StillTo
  <2>3. QED BY <1>11, <2>1, <2>2, DeleteDoes
<1>12. CASE Manager!BeginTest(c)
  <2>1. UNCHANGED row /\ commandPc[c] = "test" BY <1>12, BeginTestDoes
  <2>2. CASE Forgets(c) BY <1>3, <2>1, <2>2
  <2>3. CASE MovesOn(c, "network")
    <3>1. mem'[c].row = mem[c].row /\ StillTo(c)
      BY <2>1, <2>3, MovedOn DEF StillTo, Manager!Kinds
    <3>2. QED BY <1>1, <2>1, <3>1, KnowledgeFollows
  <2>4. QED BY <1>12, <2>2, <2>3, BeginTestDoes
<1>13. QED
  BY <1>4, <1>5, <1>6, <1>7, <1>8, <1>9, <1>10, <1>11, <1>12 DEF ManagerStep

-----------------------------------------------------------------------------
(***************************************************************************)
(* Credentials.                                                            *)
(***************************************************************************)
Steps == Writes \cup {"removeCreated", "removeOld"}

\* What the parts of the invariant say of another command than the one that moves.
LEMMA OthersPending ==
  ASSUME NEW c \in ProxyCommand, NEW d \in ProxyCommand \ {c}, Alone(c)
  PROVE  Pending(d)' = Pending(d) /\ mem'[d] = mem[d] /\ commandPc'[d] = commandPc[d]
BY DEF Alone, Pending

\* The command that moves leaves its credential, and the others' are not affected.
LEMMA CredentialsFollow ==
  ASSUME ManagerTyped, Credentials, NEW c \in ProxyCommand, Alone(c), RowIsServed',
         mem'[c].row.ref \in {NoRef, mem[c].row.ref, row.ref},
         commandPc'[c] \notin Writes,
         IF commandPc'[c] = "removeCreated"
         THEN Pending(c) /\ mem'[c].created = mem[c].created /\ row'.ref # mem[c].created
              /\ mem'[c].row.ref = mem[c].row.ref
         ELSE commandPc'[c] # "removeOld" => mem'[c].created = NoRef,
         commandPc'[c] = "removeOld" => mem'[c].row.ref \notin {NoRef, row'.ref},
         \/ row'.ref \in {NoRef, row.ref}
         \/ Pending(c) /\ row'.ref = mem[c].created /\ commandPc'[c] # "removeCreated",
         \A x \in store \ store' : \A d \in ProxyCommand \ {c} : Pending(d) => mem[d].created # x
  PROVE  Credentials'
<1>1. \A d \in ProxyCommand \ {c} :
        Pending(d)' = Pending(d) /\ mem'[d] = mem[d] /\ commandPc'[d] = commandPc[d]
  BY OthersPending
<1>2. \A d \in ProxyCommand \ {c} : Pending(d) => mem[d].created # row'.ref
  BY DEF Credentials, PendingIsOwn, Own, Pending
<1>3. \A d \in ProxyCommand \ {c} : Pending(d) => mem'[c].row.ref # mem[d].created
  BY DEF Credentials, PendingIsOwn, Own, Pending
<1>4. PendingIsOwn'
  <2>1. SUFFICES ASSUME NEW e \in ProxyCommand, Pending(e)'
                 PROVE  Own(e)'
    BY DEF PendingIsOwn
  <2>2. CASE e # c
    <3>1. Pending(e) /\ mem'[e] = mem[e] /\ commandPc'[e] = commandPc[e] BY <1>1, <2>1, <2>2
    <3>2. mem'[e].created # row'.ref BY <1>2, <2>2, <3>1
    <3>3. \A d \in ProxyCommand : mem'[d].row.ref # mem'[e].created
      BY <1>1, <1>3, <2>2, <3>1 DEF Credentials, PendingIsOwn, Own
    <3>4. ASSUME NEW d \in ProxyCommand \ {e}, Pending(d)'
          PROVE  mem'[d].created # mem'[e].created
      <4>1. CASE d # c BY <1>1, <3>1, <3>4, <4>1 DEF Credentials, PendingIsOwn, Own
      <4>2. CASE d = c
        <5>1. mem'[c].created # NoRef /\ commandPc'[c] \in Writes \cup {"removeCreated"}
          BY <3>4, <4>2 DEF Pending
        <5>2. Pending(c) /\ mem'[c].created = mem[c].created BY <5>1
        <5>3. QED BY <3>1, <2>2, <4>2, <5>2 DEF Credentials, PendingIsOwn, Own
      <4>3. QED BY <4>1, <4>2
    <3>5. commandPc'[e] \in Writes => mem'[e].created \in store'
      BY <2>2, <3>1 DEF Credentials, PendingIsOwn, Own
    <3>6. QED BY <3>2, <3>3, <3>4, <3>5 DEF Own
  <2>3. CASE e = c
    <3>1. mem'[c].created # NoRef /\ commandPc'[c] \in Writes \cup {"removeCreated"}
      BY <2>1, <2>3 DEF Pending
    <3>2. commandPc'[c] = "removeCreated" /\ Pending(c) /\ mem'[c].created = mem[c].created
          /\ row'.ref # mem[c].created /\ mem'[c].row.ref = mem[c].row.ref
      BY <3>1
    <3>3. \A d \in ProxyCommand : mem'[d].row.ref = mem[d].row.ref BY <1>1, <3>2
    <3>4. \A d \in ProxyCommand \ {c} : Pending(d)' => mem'[d].created # mem'[c].created
      BY <1>1, <3>2 DEF Credentials, PendingIsOwn, Own
    <3>5. QED BY <2>3, <3>2, <3>3, <3>4 DEF Credentials, PendingIsOwn, Own, Writes
  <2>4. QED BY <2>2, <2>3
<1>5. WillRefer'
  <2>1. SUFFICES ASSUME NEW e \in ProxyCommand PROVE WillReferAs(e)' BY DEF WillRefer
  <2>2. CASE e # c
    <3>1. mem'[e] = mem[e] /\ commandPc'[e] = commandPc[e] BY <1>1, <2>2
    <3>2. WillReferAs(e) BY DEF Credentials, WillRefer
    <3>3. QED BY <3>1, <3>2 DEF WillReferAs
  <2>3. CASE e = c BY <2>3 DEF Pending, WillReferAs
  <2>4. QED BY <2>2, <2>3
<1>6. OldIsGone'
  <2>1. ASSUME NEW e \in ProxyCommand, commandPc'[e] = "removeOld"
        PROVE  mem'[e].row.ref # row'.ref /\ mem'[e].row.ref # NoRef
    <3>1. CASE e = c BY <2>1, <3>1
    <3>2. CASE e # c
      <4>1. mem'[e] = mem[e] /\ mem[e].row.ref # row.ref /\ mem[e].row.ref # NoRef
        BY <1>1, <2>1, <3>2 DEF Credentials, OldIsGone
      <4>2. Pending(c) => mem[e].row.ref # mem[c].created BY DEF Credentials, PendingIsOwn, Own
      <4>3. QED BY <4>1, <4>2
    <3>3. QED BY <3>1, <3>2
  <2>2. QED BY <2>1 DEF OldIsGone
<1>7. QED BY <1>4, <1>5, <1>6 DEF Credentials

\* The command reads, or is done, or goes on to the network.
LEMMA CredentialsRest ==
  ASSUME ManagerTyped, Credentials, NEW c \in ProxyCommand, Alone(c), row'.ref = row.ref,
         UNCHANGED store, commandPc'[c] \notin Steps, mem'[c].created = NoRef,
         mem'[c].row.ref \in {NoRef, mem[c].row.ref, row.ref}
  PROVE  Credentials'
<1>1. RowIsServed' BY DEF Credentials, RowIsServed
<1>2. QED BY <1>1, CredentialsFollow DEF Steps

\* A write: the row has the credential that the command holds, and the one it had is to go.
LEMMA ConfiguresKeeps ==
  ASSUME ManagerTyped, KnowsTheRow, Credentials, NEW c \in ProxyCommand, Alone(c),
         Configures(c), UNCHANGED store,
         \/ Forgets(c)
         \/ /\ MovesOn(c, "removeOld") /\ mem[c].row.ref # NoRef
            /\ \/ mem[c].created # NoRef
               \/ commandPc[c] = "write import" /\ mem[c].row.ref # mem[c].ref
  PROVE  Credentials'
<1>1. commandPc[c] \in Writes /\ row'.ref = mem[c].ref BY DEF Configures
<1>2. commandPc[c] = "write update" => mem[c].row = row
  BY <1>1 DEF Configures, KnowsTheRow, StillTo
<1>3. CASE mem[c].created # NoRef
  <2>1. Pending(c) /\ row'.ref = mem[c].created
    BY <1>1, <1>3 DEF Pending, Credentials, WillRefer, WillReferAs
  <2>2. mem[c].created \in store /\ mem[c].row.ref # mem[c].created
    BY <1>1, <2>1 DEF Credentials, PendingIsOwn, Own
  <2>3. RowIsServed' BY <2>1, <2>2 DEF RowIsServed
  <2>4. CASE Forgets(c)
    <3>1. commandPc'[c] = "idle" /\ mem'[c].created = NoRef /\ mem'[c].row.ref = NoRef
      BY <2>4, IdleForgets DEF Manager!Blank, Manager!NoRow
    <3>2. QED BY <2>1, <2>3, <3>1, CredentialsFollow DEF Writes
  <2>5. CASE MovesOn(c, "removeOld") /\ mem[c].row.ref # NoRef
    <3>1. commandPc'[c] = "removeOld" /\ mem' = mem BY <2>5, MovedOn
    <3>2. QED BY <2>1, <2>2, <2>3, <2>5, <3>1, CredentialsFollow DEF Writes
  <2>6. QED BY <2>4, <2>5
<1>4. CASE mem[c].created = NoRef
  <2>1. row'.ref \in {NoRef, row.ref}
    BY <1>1, <1>2, <1>4 DEF Credentials, WillRefer, WillReferAs
  <2>2. RowIsServed' BY <2>1 DEF Credentials, RowIsServed
  <2>3. CASE Forgets(c)
    <3>1. commandPc'[c] = "idle" /\ mem'[c].created = NoRef /\ mem'[c].row.ref = NoRef
      BY <2>3, IdleForgets DEF Manager!Blank, Manager!NoRow
    <3>2. QED BY <2>1, <2>2, <3>1, CredentialsFollow DEF Writes
  <2>4. CASE /\ MovesOn(c, "removeOld") /\ mem[c].row.ref # NoRef /\ mem[c].row.ref # mem[c].ref
    <3>1. commandPc'[c] = "removeOld" /\ mem' = mem BY <2>4, MovedOn
    <3>2. QED BY <1>1, <2>1, <2>2, <2>4, <3>1, CredentialsFollow DEF Writes
  <2>5. QED BY <1>4, <2>3, <2>4
<1>5. QED BY <1>3, <1>4

\* A write that fails takes back the credential made for it.
LEMMA GivesUpKeeps ==
  ASSUME ManagerTyped, Credentials, NEW c \in ProxyCommand, Alone(c), UNCHANGED <<row, store>>,
         commandPc[c] \in Writes,
         IF mem[c].created = NoRef THEN Forgets(c) ELSE MovesOn(c, "removeCreated")
  PROVE  Credentials'
<1>1. RowIsServed' BY DEF Credentials, RowIsServed
<1>2. CASE Forgets(c)
  <2>1. commandPc'[c] = "idle" /\ mem'[c].created = NoRef /\ mem'[c].row.ref = NoRef
    BY <1>2, IdleForgets DEF Manager!Blank, Manager!NoRow
  <2>2. QED BY <2>1, CredentialsRest DEF Steps, Writes
<1>3. CASE mem[c].created # NoRef /\ MovesOn(c, "removeCreated")
  <2>1. commandPc'[c] = "removeCreated" /\ mem' = mem BY <1>3, MovedOn
  <2>2. Pending(c) BY <1>3 DEF Pending
  <2>3. row'.ref # mem[c].created BY <2>2 DEF Credentials, PendingIsOwn, Own
  <2>4. QED BY <1>1, <2>1, <2>2, <2>3, CredentialsFollow DEF Writes
<1>4. QED BY <1>2, <1>3

LEMMA RemovesKeep ==
  ASSUME ManagerTyped, Credentials, NEW c \in ProxyCommand, Alone(c), Manager!RemoveSecret(c)
  PROVE  Credentials'
<1> DEFINE gone == IF commandPc[c] = "removeOld" THEN mem[c].row.ref ELSE mem[c].created
<1>1. /\ commandPc[c] \in {"removeCreated", "removeOld"} /\ Forgets(c) /\ UNCHANGED row
      /\ store' = store \/ store' = store \ {gone}
  BY RemoveDoes
<1>2. commandPc[c] = "removeCreated" => Pending(c)
  BY DEF Credentials, WillRefer, WillReferAs, Pending
<1>3. gone # row.ref
  BY <1>1, <1>2 DEF Credentials, PendingIsOwn, Own, OldIsGone
<1>4. \A d \in ProxyCommand \ {c} : Pending(d) => mem[d].created # gone
  BY <1>1, <1>2 DEF Credentials, PendingIsOwn, Own
<1> HIDE DEF gone
<1>5. RowIsServed' BY <1>1, <1>3 DEF Credentials, RowIsServed
<1>6. commandPc'[c] = "idle" /\ mem'[c].created = NoRef /\ mem'[c].row.ref = NoRef
  BY <1>1, IdleForgets DEF Manager!Blank, Manager!NoRow
<1>7. \A x \in store \ store' : x = gone BY <1>1
<1>8. QED BY <1>1, <1>4, <1>5, <1>6, <1>7, CredentialsFollow DEF Writes

LEMMA AcquiresKeep ==
  ASSUME ManagerConstants, ManagerTyped, Credentials, NEW c \in ProxyCommand, Alone(c),
         Manager!AcquireCredential(c), ~adopted'
  PROVE  Credentials'
<1>1. /\ commandPc[c] \in {"create", "update", "import"} /\ UNCHANGED row
      /\ commandPc'[c] \in Writes /\ (commandPc[c] = "update" => commandPc'[c] = "write update")
  BY AcquireDoes DEF ManagerTyped
<1>2. mem[c].created = NoRef BY <1>1 DEF Credentials, WillRefer, WillReferAs, Writes
<1>3. \A d \in ProxyCommand \ {c} :
        Pending(d)' = Pending(d) /\ mem'[d] = mem[d] /\ commandPc'[d] = commandPc[d]
  BY OthersPending
<1>4. commandPc'[c] \notin {"removeCreated", "removeOld"} BY <1>1 DEF Writes
<1>7. WillReferAs(c)' => WillRefer'
  <2>1. ASSUME NEW d \in ProxyCommand \ {c} PROVE WillReferAs(d)'
    <3>1. mem'[d] = mem[d] /\ commandPc'[d] = commandPc[d] BY <1>3
    <3>2. WillReferAs(d) BY DEF Credentials, WillRefer
    <3>3. QED BY <3>1, <3>2 DEF WillReferAs
  <2>2. QED BY <2>1 DEF WillRefer
<1>5. CASE /\ drawn' = drawn + 1 /\ store' = store \cup {drawn + 1}
           /\ mem' = [mem EXCEPT ![c] = Kept(mem[c].row, drawn + 1, drawn + 1)]
  <2> DEFINE n == drawn + 1
  <2>1. n # NoRef /\ n \notin Drawn BY DEF ManagerConstants, ManagerTyped, Drawn
  <2>2. mem'[c] = Kept(mem[c].row, n, n) BY <1>5 DEF ManagerTyped
  <2>3. /\ mem'[c].row = mem[c].row /\ mem'[c].ref = n /\ mem'[c].created = n
        /\ store' = store \cup {n}
    BY <1>5, <2>2 DEF Kept
  <2>4. /\ row.ref \in Drawn
        /\ \A d \in ProxyCommand : mem[d].row.ref \in Drawn /\ mem[d].created \in Drawn
    <3>1. row \in RowOf(Drawn) /\ \A d \in ProxyCommand : mem[d].row \in RowOf(Drawn)
      BY CommandFields DEF ManagerTyped
    <3>2. QED BY <3>1, RowFields, CommandFields
  <2> HIDE DEF n
  <2>5. PendingIsOwn'
    <3>1. SUFFICES ASSUME NEW e \in ProxyCommand, Pending(e)'
                   PROVE  Own(e)'
      BY DEF PendingIsOwn
    <3>2. \A d \in ProxyCommand : mem'[d].row.ref = mem[d].row.ref BY <1>3, <2>3
    <3>3. CASE e = c BY <1>1, <1>3, <2>1, <2>3, <2>4, <3>2, <3>3 DEF Own
    <3>4. CASE e # c
      <4>1. Pending(e) /\ mem'[e] = mem[e] /\ commandPc'[e] = commandPc[e] BY <1>3, <3>1, <3>4
      <4>2. mem'[e].created # n BY <2>1, <2>4, <4>1
      <4>3. mem'[e].created # row'.ref /\ \A d \in ProxyCommand : mem'[d].row.ref # mem'[e].created
        BY <1>1, <3>2, <4>1 DEF Credentials, PendingIsOwn, Own
      <4>4. \A d \in ProxyCommand \ {e} : Pending(d)' => mem'[d].created # mem'[e].created
        BY <1>3, <2>3, <4>1, <4>2 DEF Credentials, PendingIsOwn, Own
      <4>5. commandPc'[e] \in Writes => mem'[e].created \in store'
        BY <2>3, <4>1 DEF Credentials, PendingIsOwn, Own
      <4>6. QED BY <4>3, <4>4, <4>5 DEF Own
    <3>5. QED BY <3>3, <3>4
  <2>6. WillRefer'
    <3>1. WillReferAs(c)' BY <1>1, <1>4, <2>1, <2>3 DEF WillReferAs
    <3>2. QED BY <1>7, <3>1
  <2>7. OldIsGone' BY <1>1, <1>3, <1>4 DEF Credentials, OldIsGone
  <2>8. RowIsServed' BY <1>1, <2>3 DEF Credentials, RowIsServed
  <2>9. QED BY <2>5, <2>6, <2>7, <2>8 DEF Credentials
<1>6. CASE /\ UNCHANGED <<drawn, store>>
           /\ \E ref \in Drawn :
                /\ mem' = [mem EXCEPT ![c] = Kept(mem[c].row, ref, mem[c].created)]
                /\ ref = NoRef \/ (commandPc[c] = "update" /\ ref = mem[c].row.ref)
  <2>1. PICK ref \in Drawn :
             /\ mem' = [mem EXCEPT ![c] = Kept(mem[c].row, ref, mem[c].created)]
             /\ ref = NoRef \/ (commandPc[c] = "update" /\ ref = mem[c].row.ref)
    BY <1>6
  <2>2. mem'[c].row = mem[c].row /\ mem'[c].ref = ref /\ mem'[c].created = NoRef
    BY <1>2, <2>1 DEF ManagerTyped, Kept
  <2>3. ~Pending(c)' BY <2>2 DEF Pending
  <2>4. \A d \in ProxyCommand : mem'[d].row.ref = mem[d].row.ref BY <1>3, <2>2
  <2>5. PendingIsOwn'
    <3>1. \A d \in ProxyCommand : Pending(d)' => d # c /\ Pending(d) BY <1>3, <2>3
    <3>2. \A d \in ProxyCommand \ {c} : mem'[d].created = mem[d].created BY <1>3
    <3>3. SUFFICES ASSUME NEW e \in ProxyCommand, Pending(e)'
                   PROVE  Own(e)'
      BY DEF PendingIsOwn
    <3>4. e # c /\ Pending(e) /\ mem'[e].created = mem[e].created /\ commandPc'[e] = commandPc[e]
      BY <1>3, <3>1, <3>2, <3>3
    <3>5. \A d \in ProxyCommand \ {e} : Pending(d)' => mem'[d].created # mem'[e].created
      BY <3>1, <3>2, <3>4 DEF Credentials, PendingIsOwn, Own
    <3>6. QED BY <1>1, <1>6, <2>4, <3>4, <3>5 DEF Credentials, PendingIsOwn, Own
  <2>6. WillRefer'
    <3>1. commandPc[c] = "update" => commandPc'[c] = "write update" BY <1>1
    <3>2. WillReferAs(c)' BY <1>1, <1>4, <2>1, <2>2, <3>1 DEF WillReferAs
    <3>3. QED BY <1>7, <3>2
  <2>7. OldIsGone' BY <1>1, <1>3, <1>4 DEF Credentials, OldIsGone
  <2>8. RowIsServed' BY <1>1, <1>6 DEF Credentials, RowIsServed
  <2>9. QED BY <2>5, <2>6, <2>7, <2>8 DEF Credentials
<1>8. QED BY <1>5, <1>6, AcquireDoes

LEMMA CredentialsStay ==
  ASSUME ManagerConstants, ManagerTyped, KnowsTheRow, Credentials, NEW c \in ProxyCommand,
         ManagerStep(c), ~reborn', ~adopted'
  PROVE  Credentials'
<1>1. Alone(c) BY StepsAlone
<1>2. ASSUME Forgets(c), row'.ref = row.ref, UNCHANGED store PROVE Credentials'
  <2>1. commandPc'[c] = "idle" /\ mem'[c].created = NoRef /\ mem'[c].row.ref = NoRef
    BY <1>2, IdleForgets DEF Manager!Blank, Manager!NoRow
  <2>2. QED BY <1>1, <1>2, <2>1, CredentialsRest DEF Steps, Writes
<1>3. ASSUME NEW kind \in Manager!Kinds, Manager!Read(c, kind) PROVE Credentials'
  <2>1. /\ commandPc[c] = "idle" /\ UNCHANGED <<row, store>>
        /\ commandPc' = [commandPc EXCEPT ![c] = kind]
        /\ mem' = [mem EXCEPT ![c] = Kept(row, mem[c].ref, mem[c].created)]
    BY <1>3, ReadDoes
  <2>2. mem[c].created = NoRef BY <2>1 DEF Credentials, WillRefer, WillReferAs, Writes
  <2>3. commandPc'[c] = kind /\ mem'[c].row = row /\ mem'[c].created = NoRef
    BY <2>1, <2>2 DEF ManagerTyped, Kept
  <2>4. kind \notin Steps BY DEF Steps, Writes, Manager!Kinds
  <2>5. QED BY <1>1, <2>1, <2>3, <2>4, CredentialsRest
<1>4. CASE Manager!AcquireCredential(c) BY <1>1, <1>4, AcquiresKeep
<1>5. CASE Manager!RemoveSecret(c) BY <1>1, <1>5, RemovesKeep
<1>6. CASE Manager!WriteCreate(c)
  BY <1>1, <1>6, WriteCreateDoes, ConfiguresKeeps, GivesUpKeeps DEF Writes
<1>7. CASE Manager!WriteUpdate(c)
  BY <1>1, <1>7, WriteUpdateDoes, ConfiguresKeeps, GivesUpKeeps DEF Writes
<1>8. CASE Manager!WriteImport(c)
  BY <1>1, <1>8, WriteImportDoes, ConfiguresKeeps, GivesUpKeeps DEF Writes
<1>9. CASE Manager!Toggle(c) \/ Manager!RecordTest(c) \/ Manager!Eligibility(c)
  <2>1. /\ Forgets(c) /\ UNCHANGED store /\ (Rewrites(c) \/ UNCHANGED row)
        /\ StillTo(c)
    BY <1>9, RewriteDoes DEF StillTo, Manager!Kinds
  <2>2. row'.ref = row.ref BY <2>1 DEF Rewrites, KnowsTheRow
  <2>3. QED BY <1>2, <2>1, <2>2
<1>10. CASE Manager!Delete(c)
  <2>1. UNCHANGED store /\ commandPc[c] = "delete" BY <1>10, DeleteDoes
  <2>2. CASE UNCHANGED row /\ Forgets(c) BY <1>2, <2>1, <2>2
  <2>3. CASE /\ row' = Manager!NoRow
             /\ IF mem[c].row.ref # NoRef THEN MovesOn(c, "removeOld") ELSE Forgets(c)
    <3>1. row'.ref = NoRef /\ RowIsServed' BY <2>3 DEF Manager!NoRow, RowIsServed
    <3>2. CASE MovesOn(c, "removeOld") /\ mem[c].row.ref # NoRef
      <4>1. commandPc'[c] = "removeOld" /\ mem' = mem BY <3>2, MovedOn
      <4>2. QED BY <1>1, <2>1, <3>1, <3>2, <4>1, CredentialsFollow DEF Writes
    <3>3. CASE Forgets(c)
      <4>1. commandPc'[c] = "idle" /\ mem'[c].created = NoRef /\ mem'[c].row.ref = NoRef
        BY <3>3, IdleForgets DEF Manager!Blank, Manager!NoRow
      <4>2. QED BY <1>1, <2>1, <3>1, <4>1, CredentialsFollow DEF Writes
    <3>4. QED BY <2>3, <3>2, <3>3
  <2>4. QED BY <1>10, <2>2, <2>3, DeleteDoes
<1>11. CASE Manager!BeginTest(c)
  <2>1. UNCHANGED <<row, store>> /\ commandPc[c] = "test" BY <1>11, BeginTestDoes
  <2>2. CASE Forgets(c) BY <1>2, <2>1, <2>2
  <2>3. CASE MovesOn(c, "network")
    <3>1. commandPc'[c] = "network" /\ mem' = mem BY <2>3, MovedOn
    <3>2. mem[c].created = NoRef BY <2>1 DEF Credentials, WillRefer, WillReferAs, Writes
    <3>3. QED BY <1>1, <2>1, <3>1, <3>2, CredentialsRest DEF Steps, Writes
  <2>4. QED BY <1>11, <2>2, <2>3, BeginTestDoes
<1>12. QED
  BY <1>3, <1>4, <1>5, <1>6, <1>7, <1>8, <1>9, <1>10, <1>11 DEF ManagerStep

-----------------------------------------------------------------------------
(***************************************************************************)
(* The theorems.                                                           *)
(***************************************************************************)
LEMMA ManagerStarts == Manager!Init => ManagerInv
<1> SUFFICES ASSUME Manager!Init PROVE ManagerInv OBVIOUS
<1> USE DEF Manager!Init
<1>1. ManagerTyped
  <2>1. NoRef \in Drawn BY DEF Drawn
  <2>2. Manager!NoRow \in RowOf(Drawn) /\ Manager!Blank \in MemOf(Drawn) BY BlankIsTyped
  <2>3. "idle" \in Manager!Stages BY StagesAre
  <2>4. QED BY <2>2, <2>3 DEF ManagerTyped
<1>2. \A c \in ProxyCommand : commandPc[c] = "idle" /\ mem[c] = Manager!Blank OBVIOUS
<1>3. "idle" \notin {"network"} \cup Manager!Kinds \cup Writes BY DEF Manager!Kinds, Writes
<1>4. KnowsTheRow BY <1>2, <1>3 DEF KnowsTheRow, StillTo
<1>5. row.ref = NoRef /\ Manager!Blank.created = NoRef BY DEF Manager!NoRow, Manager!Blank
<1>6. Credentials
  BY <1>2, <1>3, <1>5 DEF Credentials, PendingIsOwn, Own, Pending, WillRefer, WillReferAs,
     OldIsGone, RowIsServed
<1>7. QED BY <1>1, <1>4, <1>6 DEF ManagerInv

LEMMA ManagerMarksStay ==
  ASSUME NEW c \in ProxyCommand, ManagerTyped, ManagerStep(c)
  PROVE  (reborn => reborn') /\ (adopted => adopted')
<1>0. reborn \in BOOLEAN /\ adopted \in BOOLEAN BY DEF ManagerTyped
<1>1. CASE Manager!AcquireCredential(c)
  <2>1. (adopted' = adopted \/ adopted' = TRUE) /\ reborn' = reborn
    BY <1>1 DEF Manager!AcquireCredential
  <2>2. QED BY <1>0, <2>1
<1>2. CASE Manager!Delete(c) BY <1>0, <1>2 DEF Manager!Delete
<1>3. CASE \E kind \in Manager!Kinds : Manager!Read(c, kind) BY <1>3 DEF Manager!Read
<1>4. CASE Manager!RemoveSecret(c) \/ Manager!BeginTest(c)
  BY <1>4 DEF Manager!RemoveSecret, Manager!BeginTest
<1>5. CASE Manager!WriteCreate(c) \/ Manager!WriteUpdate(c) \/ Manager!WriteImport(c)
  BY <1>5, WriteCreateDoes, WriteUpdateDoes, WriteImportDoes
<1>6. CASE Manager!Toggle(c) \/ Manager!RecordTest(c) \/ Manager!Eligibility(c)
  BY <1>6 DEF Manager!Toggle, Manager!RecordTest, Manager!Eligibility
<1>7. QED BY <1>1, <1>2, <1>3, <1>4, <1>5, <1>6 DEF ManagerStep

LEMMA ManagerSteps ==
  ASSUME ManagerConstants, ManagerInv, [Manager!Next]_(Manager!vars) PROVE ManagerInv'
<1>1. CASE UNCHANGED <<row, store, drawn, commandPc, mem, configs, reborn, adopted>>
  <2>1. ManagerTyped' = ManagerTyped BY <1>1 DEF ManagerTyped, Drawn
  <2>2. KnowsTheRow' = KnowsTheRow BY <1>1 DEF KnowsTheRow, StillTo
  <2>3. Credentials' = Credentials
    BY <1>1 DEF Credentials, PendingIsOwn, Own, Pending, WillRefer, WillReferAs,
     OldIsGone, RowIsServed
  <2>4. QED BY <1>1, <2>1, <2>2, <2>3 DEF ManagerInv
<1>2. ASSUME NEW c \in ProxyCommand, ManagerStep(c) PROVE ManagerInv'
  BY <1>2, ManagerTypesStay, KnowledgeStays, CredentialsStay, ManagerMarksStay DEF ManagerInv
<1>3. QED
  BY <1>1, <1>2 DEF Manager!Next, Manager!vars, ManagerStep, Manager!CooldownEnds, Manager!Vault

\* Commands that wait between reading the row of a proxy and writing it know it as it is or
\* an earlier revision of it, as long as it was not deleted under one of them; and unless a
\* caller names a credential, every one that is referred to, or about to be, is in the
\* Secret Store and belongs to one command or to the row.
THEOREM ManagerIsInvariant == ASSUME ManagerConstants PROVE Manager!Spec => []ManagerInv
<1>1. Manager!Init => ManagerInv BY ManagerStarts
<1>2. ManagerInv /\ [Manager!Next]_(Manager!vars) => ManagerInv' BY ManagerSteps
<1>3. QED BY <1>1, <1>2, PTL DEF Manager!Spec

\* The result of a proxy test, an enable, a disable and the end of a cooldown are written to
\* the configuration they were about, however many commands on the proxy are under way.
THEOREM TestsKeepTheirConfiguration ==
  ASSUME ManagerConstants PROVE Manager!Spec => Manager!TestsBelongToTheirConfiguration
<1>1. ASSUME ManagerInv, [Manager!Next]_(Manager!vars) PROVE Manager!ResultsStayWithConfiguration
  <2>1. SUFFICES ASSUME NEW c \in ProxyCommand,
                        commandPc[c] \in {"network", "enable", "disable", "eligibility"},
                        commandPc'[c] = "idle", row' # row, ~reborn'
                 PROVE  row'.config = row.config
    BY DEF Manager!ResultsStayWithConfiguration
  <2>2. PICK d \in ProxyCommand : ManagerStep(d)
    BY <1>1, <2>1 DEF Manager!Next, Manager!vars, ManagerStep, Manager!CooldownEnds
  <2>3. d = c BY <1>1, <2>1, <2>2, StepsAlone DEF Alone, ManagerInv
  <2>4. Manager!Toggle(c) \/ Manager!RecordTest(c) \/ Manager!Eligibility(c)
    BY <2>1, <2>2, <2>3 DEF ManagerStep, Manager!Read, Manager!AcquireCredential,
       Manager!RemoveSecret, Manager!WriteCreate, Manager!WriteUpdate, Manager!WriteImport,
       Manager!Delete, Manager!BeginTest
  <2>5. Rewrites(c) BY <1>1, <2>1, <2>4, RewriteDoes DEF ManagerInv
  <2>6. mem[c].row = row
    BY <1>1, <2>1, <2>2, <2>5, ManagerMarksStay
       DEF Rewrites, ManagerInv, KnowsTheRow, StillTo, Manager!Kinds
  <2>7. QED BY <2>5, <2>6 DEF Rewrites
<1>2. QED
  BY <1>1, ManagerIsInvariant, PTL DEF Manager!Spec, Manager!TestsBelongToTheirConfiguration

\* The credential that the row of a proxy refers to is in the Secret Store, beside updates,
\* imports and deletes that remove the one before it and steps that fail.
THEOREM ProxyCredentialIsStored ==
  ASSUME ManagerConstants PROVE Manager!Spec => []Manager!CredentialIsStored
<1>1. ManagerInv => Manager!CredentialIsStored
  BY DEF ManagerInv, Credentials, RowIsServed, Manager!CredentialIsStored
<1>2. QED BY <1>1, ManagerIsInvariant, PTL
=============================================================================
