--------------------------- MODULE MCJobExecution ---------------------------
(***************************************************************************)
(* JobExecution with its constants given values for TLC.                   *)
(***************************************************************************)
EXTENDS JobExecution, TLC

CONSTANTS j1, o1, o2

\* Owners are interchangeable.
OwnerSymmetry == Permutations(Owner)

SamePriority == [j \in Job |-> 500]
=============================================================================
