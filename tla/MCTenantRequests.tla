--------------------------- MODULE MCTenantRequests ---------------------------
(* Instances of TenantRequests for TLC: each organisation has a founder,    *)
(* and the founder of the one is a guest of a project of the other.        *)
EXTENDS TenantRequests, TLC

CONSTANTS acme, globex, ada, bob, p1, p2

MCFounder == (acme :> ada) @@ (globex :> bob)
MCFirstHome == (p1 :> acme) @@ (p2 :> None)
MCFirstShares == {[actor |-> bob, project |-> p1]}

\* Bound: at least one of the projects is never deleted.
OneDeletion == gone # Projects

Symmetry == Permutations(Reqs) \cup Permutations(Conns)
=============================================================================
