----------------------------- MODULE MCAuditTrail -----------------------------
(***************************************************************************)
(* Instances of AuditTrail for TLC: one admin, one data protection         *)
(* officer, each at an address of their own.                               *)
(***************************************************************************)
EXTENDS AuditTrail, TLC

CONSTANTS ada, dpo, home, office

MCClients == {[who |-> ada, ip |-> home], [who |-> dpo, ip |-> office]}

Unset == [actor |-> NoValue, ip |-> NoValue, since |-> 0, until |-> 0]

MCFilters == {[Unset EXCEPT !.ip = home],
              [Unset EXCEPT !.actor = ada],
              [Unset EXCEPT !.since = 2, !.until = 3]}

OrgSymmetry == Permutations(Orgs)
=============================================================================
