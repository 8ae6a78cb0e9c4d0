--------------------------- MODULE MCProjectShares ---------------------------
(***************************************************************************)
(* ProjectShares on small instances.  Actors, shares and requests are      *)
(* interchangeable.                                                        *)
(***************************************************************************)
EXTENDS ProjectShares, TLC

Symmetry == Permutations(Actors) \cup Permutations(Shares)
              \cup Permutations(Txs)
=============================================================================
