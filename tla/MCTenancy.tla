------------------------------ MODULE MCTenancy ------------------------------
(***************************************************************************)
(* Tenancy on small instances.  Actors, invitations, projects and requests *)
(* are interchangeable; roles are not.                                     *)
(***************************************************************************)
EXTENDS Tenancy, TLC

Symmetry == Permutations(Actors) \cup Permutations(Projects)
              \cup Permutations(Invites) \cup Permutations(Txs)
=============================================================================
