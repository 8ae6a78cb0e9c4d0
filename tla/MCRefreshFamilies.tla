-------------------------- MODULE MCRefreshFamilies --------------------------
(***************************************************************************)
(* RefreshFamilies on small instances.  Families and token ids are         *)
(* interchangeable, and no property singles one out.                       *)
(***************************************************************************)
EXTENDS RefreshFamilies, TLC

Symmetry == Permutations(Families) \cup Permutations(Jtis)
=============================================================================
