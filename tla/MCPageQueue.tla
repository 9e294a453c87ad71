---------------------------- MODULE MCPageQueue ----------------------------
(***************************************************************************)
(* PageQueue with its constants given values for TLC.                      *)
(***************************************************************************)
EXTENDS PageQueue, TLC

CONSTANTS j1, j2, o1, o2, k1

\* Owners are interchangeable.
OwnerSymmetry == Permutations(Owner)

\* Jobs of one priority are interchangeable as well.
JobOwnerSymmetry == Permutations(Job) \cup Permutations(Owner)

SamePriority == [j \in Job |-> 500]
SeedFirst == [j \in Job |-> IF j = j1 THEN 1000 ELSE 500]

\* executeOtpCommand: the only callers of setRunState in the application service.
LoginRequests == {<<"running", "waiting_for_auth">>, <<"waiting_for_auth", "running">>}

\* Whatever a user of the repository port may ask for.
AnyRequest == CrawlRunStates \X CrawlRunStates
=============================================================================
