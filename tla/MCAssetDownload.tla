--------------------------- MODULE MCAssetDownload ---------------------------
(***************************************************************************)
(* One asset and a few page jobs, for TLC: what is left out of the search  *)
(* are behaviours in which a property says nothing any more.               *)
(***************************************************************************)
EXTENDS AssetDownload, TLC

CONSTANTS w1, w2, j1, j2, j3

Workers == {w1, w2}
Symmetry == Permutations(Workers) \cup Permutations({j1, j2, j3})

\* AssetIsOneVersion has lost its hypothesis for good; and a fault takes the place of a claim.
Relevant == ~shared /\ ~outdated /\ claims + faults <= MaxClaims

\* Nothing can go on from an outdated partial file any more, or the source is complete.
MayBecomeOutdated ==
  /\ ~shared
  /\ \/ outdated
     \/ /\ row.state # "completed"
        /\ claims < MaxClaims \/ \E w \in Worker : pc[w] \in {"ensure", "begin"}
=============================================================================
