----------------------------- MODULE MCAuthFlows -----------------------------
(***************************************************************************)
(* Instances of AuthFlows for TLC: all actors would register one address,  *)
(* and nothing tells two ids of a kind apart.                              *)
(***************************************************************************)
EXTENDS AuthFlows, TLC

OneAddress == [a \in Actors |-> "address"]

Symmetry == Permutations(Actors) \cup Permutations(Passwords)
            \cup Permutations(Links) \cup Permutations(Families)
            \cup Permutations(Jtis) \cup Permutations(Txs)
=============================================================================
