---------------------------- MODULE SessionChains ----------------------------
(***************************************************************************)
(* What refresh-token rotation promises, with no Redis in it: a login      *)
(* opens a chain of single-use token ids, each refresh spends the current  *)
(* id and puts a fresh one in its place, and a chain that has ended (log   *)
(* out, password reset, replay of a spent id, expiry) never runs again.    *)
(* RefreshFamilies is shown to implement this module.                      *)
(***************************************************************************)

CONSTANTS
    Families,   \* chains, one per login
    Jtis,       \* token ids
    None        \* the current id of a chain that is not running

VARIABLES
    phase,      \* phase[f]: "unborn", "live" or "over"
    current,    \* current[f]: the one id chain f would accept
    spent       \* the ids that were accepted

vars == <<phase, current, spent>>

Unseen(j) == /\ j \notin spent
             /\ \A f \in Families : current[f] # j

Init ==
    /\ phase = [f \in Families |-> "unborn"]
    /\ current = [f \in Families |-> None]
    /\ spent = {}

Open(f, j) ==
    /\ phase[f] = "unborn"
    /\ Unseen(j)
    /\ phase' = [phase EXCEPT ![f] = "live"]
    /\ current' = [current EXCEPT ![f] = j]
    /\ UNCHANGED spent

\* The current id is exchanged for a fresh one and is spent from then on.
Renew(f, j) ==
    /\ phase[f] = "live"
    /\ Unseen(j)
    /\ current' = [current EXCEPT ![f] = j]
    /\ spent' = spent \cup {current[f]}
    /\ UNCHANGED phase

\* Any number of running chains end together.
Close(fs) ==
    /\ \A f \in fs : phase[f] = "live"
    /\ phase' = [f \in Families |-> IF f \in fs THEN "over" ELSE phase[f]]
    /\ current' = [f \in Families |-> IF f \in fs THEN None ELSE current[f]]
    /\ UNCHANGED spent

Next ==
    \/ \E f \in Families, j \in Jtis : Open(f, j) \/ Renew(f, j)
    \/ \E fs \in SUBSET Families : Close(fs)

Spec == Init /\ [][Next]_vars

=============================================================================
