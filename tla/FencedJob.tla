----------------------------- MODULE FencedJob -----------------------------
(***************************************************************************)
(* What the queue promises about the jobs of a Run, seen from outside: a   *)
(* job is worked on by one holder at a time, every attempt is written down *)
(* before it starts and closed exactly once, the holder of an attempt may  *)
(* report its outcome only while it holds the job, and an attempt whose    *)
(* holder is gone can only be taken back.  Tokens, generations, Leases,    *)
(* Run control and the order of the queue are how PageQueue keeps it.      *)
(***************************************************************************)
EXTENDS Naturals

CONSTANTS Job, MaxAttempts

VARIABLES phase,  \* what can happen to the job next
          journal \* outcome of every attempt of the job

vars == <<phase, journal>>

Attempts == 1..MaxAttempts
Reports == {"completed", "failed", "retrying", "skipped", "blocked", "paused"}
Losses == {"interrupted", "paused"}

Init ==
  /\ phase = [j \in Job |-> "unborn"]
  /\ journal = [j \in Job |-> [n \in Attempts |-> "none"]]

\* A job moves from one of some phases to another one.
Moves(j, from, to) == phase[j] \in from /\ phase'[j] \in to

\* An entry of the job's journal is written, all others stay.
Writes(j, n, outcome) ==
  /\ journal'[j][n] = outcome
  /\ \A m \in Attempts \ {n} : journal'[j][m] = journal[j][m]

Submit(j) == Moves(j, {"unborn"}, {"waiting"}) /\ journal'[j] = journal[j]

Drop(j) == Moves(j, {"waiting"}, {"ended"}) /\ journal'[j] = journal[j]

\* The next attempt is opened together with the hold on the job.
Acquire(j) ==
  /\ Moves(j, {"waiting"}, {"held"})
  /\ \E n \in Attempts :
       /\ \A m \in Attempts : journal[j][m] = "none" <=> m >= n
       /\ Writes(j, n, "open")

\* Only a holder reports; what it may say decides whether the job goes on.
Report(j) ==
  \E n \in Attempts, outcome \in Reports :
    /\ journal[j][n] = "open" /\ Writes(j, n, outcome)
    /\ Moves(j, {"held"}, IF outcome \in {"retrying", "paused"} THEN {"waiting"} ELSE {"ended"})

Release(j) == Moves(j, {"held"}, {"orphaned"}) /\ journal'[j] = journal[j]

\* Recovery takes an attempt back from a holder that is gone.
TakeBack(j) ==
  \E n \in Attempts, outcome \in Losses :
    /\ journal[j][n] = "open" /\ Writes(j, n, outcome)
    /\ Moves(j, {"held", "orphaned"}, {"waiting", "ended"})

\* One transaction may move several jobs (a recovery batch, a queue clear).
Step(j) ==
  \/ phase'[j] = phase[j] /\ journal'[j] = journal[j]
  \/ Submit(j) \/ Drop(j) \/ Acquire(j) \/ Report(j) \/ Release(j) \/ TakeBack(j)

Next == \A j \in Job : Step(j)

Spec == Init /\ [][Next]_vars
=============================================================================
