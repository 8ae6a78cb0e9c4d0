----------------------------- MODULE KeyRotation -----------------------------
(***************************************************************************)
(* The JWT key ring of the backend's processes (identity/auth/jwt.py) and  *)
(* the rotation of the signing key (docs/runbooks/rotate-jwt-keys.md).     *)
(*                                                                         *)
(* A process takes its signing kid from the settings when it starts and    *)
(* reads the directory of public keys once, at the first token it has to   *)
(* verify; both stay as they are until it stops.  The operator publishes a *)
(* key, changes the settings, restarts the processes one by one, waits and *)
(* removes the old key, or rolls back; a process may also restart on its   *)
(* own at any time.  The actions of the operator are the runbook's steps.  *)
(***************************************************************************)
EXTENDS Naturals

CONSTANTS
    Procs,
    Sessions,     \* refresh-token families, each with the one token it accepts
    AccessTTL,    \* ACCESS_TTL
    StateTTL,     \* oauth_state.STATE_TTL
    MaxKid,       \* bound: kids are numbered in the order they are made
    MaxTime       \* bound on now

ASSUME KeyRotationAssumption ==
    /\ AccessTTL \in Nat
    /\ StateTTL \in 0..AccessTTL
    /\ MaxKid \in Nat \ {0}
    /\ MaxTime \in Nat

Kids == 1..MaxKid

VARIABLES
    dir,        \* the kids in JWT_PUBLIC_KEYS_DIR
    conf,       \* JWT_SIGNING_KID for a process that starts now
    other,      \* the second kid of the rotation in progress, else conf
    step,       \* how far the rotation has come
    rolled,     \* when the latest roll-out was complete
    dropped,    \* kids whose rotation was rolled back
    proc,       \* proc[p]: signing kid and key ring of the process
    tokens,     \* the access and state tokens issued that have not expired
    fam,        \* fam[s]: the family and the kid of its current refresh token
    now

vars == <<dir, conf, other, step, rolled, dropped, proc, tokens, fam, now>>

Steps == {"steady", "published", "rolling", "waiting", "back"}

\* "left": the family outlived its log-out and no browser holds its token.
FamStates == {"none", "held", "left", "over"}

-----------------------------------------------------------------------------
(* A process                                                                *)

\* What _verification_keys() returns: the memoised ring, or the directory.
Ring(p) == IF proc[p].read THEN proc[p].ring ELSE dir

\* A slip: a process starts before its settings are mounted.
StartedUnset(kid) == [kid |-> 0, read |-> FALSE, ring |-> {}]

Started(kid) == [kid |-> kid, read |-> FALSE, ring |-> {}]

\* The first call memoises what it reads.
Reads(p) == proc' = [proc EXCEPT ![p] = [@ EXCEPT !.read = TRUE, !.ring = Ring(p)]]

\* encode_access; sign_with_active_key for the state of an OAuth login.
Signs(p, ttls) == tokens' = tokens \cup {[kid |-> proc[p].kid, exp |-> now + ttl] : ttl \in ttls}

Rotation == <<dir, conf, other, step, rolled, dropped>>

\* issue_tokens at the end of a log-in.
Login(p, s) ==
    /\ fam[s].state = "none"
    /\ fam' = [fam EXCEPT ![s] = [state |-> "held", kid |-> proc[p].kid, renewed |-> now]]
    /\ Signs(p, {AccessTTL})
    /\ UNCHANGED <<Rotation, proc, now>>

\* mint_state when an OAuth login starts.
StartOAuth(p) ==
    /\ Signs(p, {StateTTL})
    /\ UNCHANGED <<Rotation, proc, fam, now>>

\* decode_with_type of a request's token, whatever it decides.
Verify(p) ==
    /\ ~proc[p].read
    /\ Reads(p)
    /\ UNCHANGED <<Rotation, tokens, fam, now>>

\* refresh_session: the family's token is verified, rotated and answered with
\* tokens under this process's kid.
Refresh(p, s) ==
    /\ fam[s].state = "held"
    /\ fam[s].kid \in Ring(p)
    /\ Reads(p)
    /\ fam' = [fam EXCEPT ![s] = [@ EXCEPT !.kid = proc[p].kid, !.renewed = now]]
    /\ Signs(p, {AccessTTL})
    /\ UNCHANGED <<Rotation, now>>

\* logout: a token that does not verify is ignored, and the browser's cookie
\* is cleared all the same.
Logout(p, s) ==
    /\ fam[s].state = "held"
    /\ Reads(p)
    /\ fam' = [fam EXCEPT ![s].state = IF fam[s].kid \in Ring(p) THEN "over" ELSE "left"]
    /\ UNCHANGED <<Rotation, tokens, now>>

\* A deployment, a crash, a pod that moves: get_settings and the key caches
\* start over.
Restart(p) ==
    /\ proc' = [proc EXCEPT ![p] = Started(conf)]
    /\ UNCHANGED <<Rotation, tokens, fam, now>>

-----------------------------------------------------------------------------
(* The operator                                                             *)

\* Steps 1 and 2: the new public key next to the old one.
Publish(kid) ==
    /\ step = "steady"
    /\ \A k \in dir \cup dropped : k < kid
    /\ dir' = dir \cup {kid}
    /\ other' = kid
    /\ step' = "published"
    /\ UNCHANGED <<conf, rolled, dropped, proc, tokens, fam, now>>

\* The settings for processes that start from now on.
Swap(next) == /\ conf' = other
              /\ other' = conf
              /\ step' = next

\* A slip: the settings change before the key is published.
ConfigureUnpublished ==
    /\ step = "steady"
    /\ conf < MaxKid
    /\ conf' = conf + 1
    /\ other' = conf
    /\ step' = "rolling"
    /\ UNCHANGED <<dir, rolled, dropped, proc, tokens, fam, now>>

\* Step 3, its first half.
Configure ==
    /\ step = "published"
    /\ Swap("rolling")
    /\ UNCHANGED <<dir, rolled, dropped, proc, tokens, fam, now>>

\* A slip: the wait starts with the change of the settings.
RolledOutUnchecked == TRUE

RolledOut == \A p \in Procs : proc[p].kid = conf

\* Step 3, its second half: every process has restarted, the wait begins.
BeginWait ==
    /\ step = "rolling"
    /\ RolledOut
    /\ rolled' = now
    /\ step' = "waiting"
    /\ UNCHANGED <<dir, conf, other, dropped, proc, tokens, fam, now>>

\* A slip: no margin on top of the TTL.
WaitedBarely == now >= rolled + AccessTTL

\* Step 4: "the access-token TTL plus a margin".
Waited == now > rolled + AccessTTL

\* Step 5.
Decommission ==
    /\ step = "waiting"
    /\ Waited
    /\ dir' = dir \ {other}
    /\ other' = conf
    /\ step' = "steady"
    /\ UNCHANGED <<conf, rolled, dropped, proc, tokens, fam, now>>

\* Rollback: "step 3 in reverse": the settings, ...
RollBack ==
    /\ step \in {"rolling", "waiting"}
    /\ Swap("back")
    /\ UNCHANGED <<dir, rolled, dropped, proc, tokens, fam, now>>

\* ... the restarts, then "drop the new key from the public dir"; all there is
\* to do when the settings have not changed yet.
DropNew ==
    /\ step \in {"published", "back"}
    /\ RolledOut
    /\ dir' = dir \ {other}
    /\ dropped' = dropped \cup {other}
    /\ other' = conf
    /\ step' = "steady"
    /\ UNCHANGED <<conf, rolled, proc, tokens, fam, now>>

\* A token verifies up to the second of its exp; then it is gone.
Tick ==
    /\ now < MaxTime
    /\ now' = now + 1
    /\ tokens' = {a \in tokens : a.exp >= now + 1}
    /\ UNCHANGED <<Rotation, proc, fam>>

-----------------------------------------------------------------------------

Init ==
    /\ dir = {1}
    /\ conf = 1
    /\ other = 1
    /\ step = "steady"
    /\ rolled = 0
    /\ dropped = {}
    /\ proc = [p \in Procs |-> Started(1)]
    /\ tokens = {}
    /\ fam = [s \in Sessions |-> [state |-> "none", kid |-> 1, renewed |-> 0]]
    /\ now = 0

Next ==
    \/ \E p \in Procs :
         \/ StartOAuth(p)
         \/ Verify(p)
         \/ Restart(p)
         \/ \E s \in Sessions :
              \/ Login(p, s)
              \/ Refresh(p, s)
              \/ Logout(p, s)
    \/ \E kid \in Kids : Publish(kid)
    \/ Configure
    \/ BeginWait
    \/ Decommission
    \/ RollBack
    \/ DropNew
    \/ Tick

Spec == Init /\ [][Next]_vars

-----------------------------------------------------------------------------
(* Properties                                                               *)

TypeOK ==
    /\ dir \subseteq Kids
    /\ conf \in Kids
    /\ other \in Kids
    /\ step \in Steps
    /\ rolled \in 0..MaxTime
    /\ dropped \subseteq Kids
    /\ proc \in [Procs -> [kid : Kids, read : BOOLEAN, ring : SUBSET Kids]]
    /\ tokens \subseteq [kid : Kids, exp : Nat]
    /\ fam \in [Sessions -> [state : FamStates, kid : Kids, renewed : 0..MaxTime]]
    /\ now \in 0..MaxTime

\* The rotation has not brought this process and this kid together yet: the
\* processes are being restarted onto the new key, or back from it.
InTransit(p, kid) ==
    \/ step = "rolling" /\ kid = conf /\ proc[p].kid # conf
    \/ step = "back" /\ kid = other

\* "In-flight access tokens ... must keep verifying until they expire naturally"
\* (docs/runbooks/rotate-jwt-keys.md:19).  No process refuses a token before its
\* time, whichever process signed it and whenever each of them started, except
\* in transit and for a key a rollback has dropped (the runbook's rollback does
\* not wait for the tokens the new key signed).
AccessKeepsVerifying ==
    \A p \in Procs, a \in tokens :
        a.kid \in Ring(p) \/ a.kid \in dropped \/ InTransit(p, a.kid)

\* Refresh tokens live for weeks and the runbook waits for minutes.  A session
\* that was used once after the roll-out was complete can be refreshed at every
\* process; only one that slept through it is lost with the old key.
UsedSessionsSurvive ==
    \A p \in Procs, s \in Sessions :
        fam[s].state = "held" =>
            \/ fam[s].kid \in Ring(p)
            \/ fam[s].renewed <= rolled
            \/ fam[s].kid \in dropped
            \/ InTransit(p, fam[s].kid)

\* A process verifies what it signs itself, at every point of a rotation: the
\* answer of a log-in can be used where it came from.
SignerVerifies == \A p \in Procs : proc[p].kid \in Ring(p)
=============================================================================
