-------------------------- MODULE KeyRotationProofs --------------------------
(***************************************************************************)
(* Proofs about KeyRotation, for every set of processes and sessions,      *)
(* every lifetime and any number of rotations and rollbacks.               *)
(*                                                                         *)
(* At any moment at most two keys are published, the one new processes     *)
(* sign with and the other one of a rotation in progress.  The invariant   *)
(* says, for each step of a rotation, which of the two a process signs     *)
(* with, which its ring holds, and which of the two tokens and sessions    *)
(* still carry.                                                            *)
(***************************************************************************)
EXTENDS KeyRotation, TLAPS

DirInv == /\ dir = {conf, other}
          /\ step = "steady" <=> other = conf

ProcInv(p) ==
    /\ proc[p].kid \in {conf, other}
    /\ step \in {"steady", "published", "waiting"} => proc[p].kid = conf
    /\ step \in {"steady", "published", "back"} => conf \in Ring(p)
    /\ step \in {"rolling", "waiting"} => other \in Ring(p)
    /\ proc[p].kid \in Ring(p)

\* Whose key a live token or the token of a session may be.
Current(kid) ==
    \/ kid \in dropped
    \/ kid = conf
    \/ kid = other /\ step \in {"rolling", "back"}

TokenInv(a) ==
    /\ now <= a.exp
    /\ a.exp <= now + AccessTTL
    /\ \/ Current(a.kid)
       \/ step = "waiting" /\ a.kid = other /\ a.exp <= rolled + AccessTTL

FamInv(s) ==
    /\ fam[s].renewed <= now
    /\ fam[s].state = "held" => Current(fam[s].kid) \/ fam[s].renewed <= rolled

ProcsInv == \A p \in Procs : ProcInv(p)
TokensInv == \A a \in tokens : TokenInv(a)
FamsInv == \A s \in Sessions : FamInv(s)

IInv == TypeOK /\ DirInv /\ ProcsInv /\ TokensInv /\ FamsInv

-----------------------------------------------------------------------------
(* The steps of a process                                                   *)

\* One key, no process has read it, nothing is signed.
LEMMA InitInv == Init => IInv
  <1> SUFFICES ASSUME Init PROVE IInv
    OBVIOUS
  <1> USE KeyRotationAssumption
  <1>1. TypeOK
    BY DEF Init, TypeOK, Kids, Steps, FamStates, Started
  <1>2. DirInv /\ TokensInv
    BY DEF Init, DirInv, TokensInv
  <1>3. ProcsInv
    BY DEF Init, ProcsInv, ProcInv, Ring, Started
  <1>4. FamsInv
    BY DEF Init, FamsInv, FamInv
  <1> QED BY <1>1, <1>2, <1>3, <1>4 DEF IInv

\* What the invariant says of the rotation's own variables.
LEMMA RotationStays ==
    ASSUME IInv, UNCHANGED Rotation
    PROVE  /\ DirInv'
           /\ dir' \subseteq Kids /\ conf' \in Kids /\ other' \in Kids
           /\ step' \in Steps /\ rolled' \in 0..MaxTime /\ dropped' \subseteq Kids
  BY DEF IInv, TypeOK, DirInv, Rotation

\* A process that memoises its ring sees what it saw.
LEMMA ReadsRing ==
    ASSUME IInv, NEW p \in Procs, Reads(p), UNCHANGED Rotation
    PROVE  /\ proc' \in [Procs -> [kid : Kids, read : BOOLEAN, ring : SUBSET Kids]]
           /\ ProcsInv'
  <1> DEFINE new == [proc[p] EXCEPT !.read = TRUE, !.ring = Ring(p)]
  <1>1. proc' = [proc EXCEPT ![p] = new]
    BY DEF Reads
  <1>2. proc[p] \in [kid : Kids, read : BOOLEAN, ring : SUBSET Kids]
        /\ Ring(p) \in SUBSET Kids
    BY DEF IInv, TypeOK, Ring
  <1>3. /\ new \in [kid : Kids, read : BOOLEAN, ring : SUBSET Kids]
        /\ new.kid = proc[p].kid /\ new.read = TRUE /\ new.ring = Ring(p)
    BY <1>2
  <1> HIDE DEF new
  <1>4. proc'[p] = new /\ \A q \in Procs \ {p} : proc'[q] = proc[q]
    BY <1>1 DEF IInv, TypeOK
  <1>5. proc' \in [Procs -> [kid : Kids, read : BOOLEAN, ring : SUBSET Kids]]
    BY <1>1, <1>3 DEF IInv, TypeOK
  <1>6. \A q \in Procs : Ring(q)' = Ring(q) /\ proc'[q].kid = proc[q].kid
    BY <1>3, <1>4 DEF Ring, Rotation
  <1>7. ProcsInv'
    BY <1>6 DEF IInv, ProcsInv, ProcInv, Rotation
  <1> QED BY <1>5, <1>7

\* What a process signs now is the key of its step of the rotation.
LEMMA SignsInv ==
    ASSUME IInv, NEW p \in Procs, NEW ttls \in SUBSET (0..AccessTTL),
           Signs(p, ttls), UNCHANGED <<Rotation, now>>
    PROVE  /\ tokens' \subseteq [kid : Kids, exp : Nat]
           /\ TokensInv'
  <1> USE KeyRotationAssumption
  <1>1. ProcInv(p) /\ proc[p].kid \in Kids /\ now \in Nat
    BY DEF IInv, TypeOK, ProcsInv
  <1>2. Current(proc[p].kid)
    BY <1>1 DEF ProcInv, Current, IInv, TypeOK, Steps
  <1>3. ASSUME NEW a \in tokens', a \notin tokens
        PROVE  a \in [kid : Kids, exp : Nat] /\ TokenInv(a)'
    <2>1. PICK ttl \in ttls : a = [kid |-> proc[p].kid, exp |-> now + ttl]
      BY <1>3 DEF Signs
    <2>2. a.kid = proc[p].kid /\ a.exp = now + ttl /\ ttl \in 0..AccessTTL
      BY <2>1
    <2>3. now <= a.exp /\ a.exp <= now + AccessTTL /\ a.exp \in Nat
      BY <2>2, <1>1
    <2>4. Current(a.kid)'
      BY <1>2, <2>2 DEF Current, Rotation
    <2> QED BY <1>1, <2>1, <2>3, <2>4 DEF TokenInv
  <1>4. ASSUME NEW a \in tokens
        PROVE  a \in [kid : Kids, exp : Nat] /\ TokenInv(a)'
    BY <1>4 DEF IInv, TypeOK, TokensInv, TokenInv, Current, Rotation
  <1> QED BY <1>3, <1>4 DEF TokensInv

\* The tokens' part, when none of what it speaks of changes.
LEMMA TokensStay ==
    ASSUME IInv, UNCHANGED <<Rotation, now, tokens>>
    PROVE  TokensInv'
  BY DEF IInv, TokensInv, TokenInv, Current, Rotation

\* The sessions' part, likewise.
LEMMA FamsStay ==
    ASSUME IInv, UNCHANGED <<Rotation, now, fam>>
    PROVE  FamsInv'
  BY DEF IInv, FamsInv, FamInv, Current, Rotation

\* The processes' part, likewise.
LEMMA ProcsStay ==
    ASSUME IInv, UNCHANGED <<Rotation, proc>>
    PROVE  ProcsInv'
  BY DEF IInv, ProcsInv, ProcInv, Ring, Rotation

\* A session takes a new token, or loses its holder.
LEMMA FamStep ==
    ASSUME IInv, UNCHANGED <<Rotation, now>>, NEW s \in Sessions,
           NEW new \in [state : FamStates, kid : Kids, renewed : 0..MaxTime],
           fam' = [fam EXCEPT ![s] = new],
           new.renewed <= now,
           new.state = "held" => Current(new.kid)
    PROVE  /\ fam' \in [Sessions -> [state : FamStates, kid : Kids, renewed : 0..MaxTime]]
           /\ FamsInv'
  <1>1. fam'[s] = new /\ \A r \in Sessions \ {s} : fam'[r] = fam[r]
    BY DEF IInv, TypeOK
  <1>2. \A kid : Current(kid)' <=> Current(kid)
    BY DEF Current, Rotation
  <1>3. rolled' = rolled /\ now' = now
    BY DEF Rotation
  <1>4. FamsInv'
    <2> SUFFICES ASSUME NEW r \in Sessions PROVE FamInv(r)'
      BY DEF FamsInv
    <2>1. CASE r = s
      <3>1. new.state = "held" => Current(new.kid)'
        BY <1>2
      <3> QED BY <2>1, <3>1, <1>1, <1>3 DEF FamInv, Current
    <2>2. CASE r # s
      <3>1. fam'[r] = fam[r] /\ FamInv(r)
        BY <2>2, <1>1 DEF IInv, FamsInv
      <3> QED BY <3>1, <1>3 DEF FamInv, Current, Rotation
    <2> QED BY <2>1, <2>2
  <1>5. fam' \in [Sessions -> [state : FamStates, kid : Kids, renewed : 0..MaxTime]]
    BY DEF IInv, TypeOK
  <1> QED BY <1>4, <1>5

\* A log-in.
LEMMA LoginInv ==
    ASSUME IInv, NEW p \in Procs, NEW s \in Sessions, Login(p, s)
    PROVE  IInv'
  <1> DEFINE new == [state |-> "held", kid |-> proc[p].kid, renewed |-> now]
  <1>1. /\ fam' = [fam EXCEPT ![s] = new]
        /\ Signs(p, {AccessTTL}) /\ UNCHANGED <<Rotation, proc, now>>
    BY DEF Login
  <1>2. new \in [state : FamStates, kid : Kids, renewed : 0..MaxTime]
        /\ new.renewed = now /\ new.kid = proc[p].kid /\ now \in Nat
    BY DEF IInv, TypeOK, FamStates
  <1>3. Current(new.kid) /\ new.renewed <= now
    BY DEF IInv, TypeOK, ProcsInv, ProcInv, Current, Steps
  <1> HIDE DEF new
  <1>4. /\ fam' \in [Sessions -> [state : FamStates, kid : Kids, renewed : 0..MaxTime]]
        /\ FamsInv'
    BY <1>1, <1>2, <1>3, FamStep
  <1>5. {AccessTTL} \in SUBSET (0..AccessTTL)
    BY KeyRotationAssumption
  <1>6. tokens' \subseteq [kid : Kids, exp : Nat] /\ TokensInv'
    BY <1>1, <1>5, SignsInv
  <1>7. ProcsInv'
    BY <1>1, ProcsStay
  <1> QED BY <1>1, <1>4, <1>6, <1>7, RotationStays DEF IInv, TypeOK

\* The start of an OAuth login.
LEMMA StartOAuthInv ==
    ASSUME IInv, NEW p \in Procs, StartOAuth(p)
    PROVE  IInv'
  <1>1. {StateTTL} \in SUBSET (0..AccessTTL)
    BY KeyRotationAssumption
  <1>2. tokens' \subseteq [kid : Kids, exp : Nat] /\ TokensInv'
    BY <1>1, SignsInv DEF StartOAuth
  <1> QED BY <1>2, RotationStays, ProcsStay, FamsStay DEF StartOAuth, IInv, TypeOK

\* The first token a process has to verify.
LEMMA VerifyInv ==
    ASSUME IInv, NEW p \in Procs, Verify(p)
    PROVE  IInv'
  BY ReadsRing, RotationStays, TokensStay, FamsStay DEF Verify, IInv, TypeOK

\* A refresh.
LEMMA RefreshInv ==
    ASSUME IInv, NEW p \in Procs, NEW s \in Sessions, Refresh(p, s)
    PROVE  IInv'
  <1> DEFINE new == [fam[s] EXCEPT !.kid = proc[p].kid, !.renewed = now]
  <1>1. /\ fam' = [fam EXCEPT ![s] = new]
        /\ Reads(p) /\ Signs(p, {AccessTTL}) /\ UNCHANGED <<Rotation, now>>
    BY DEF Refresh
  <1>2. fam[s] \in [state : FamStates, kid : Kids, renewed : 0..MaxTime]
        /\ proc[p].kid \in Kids /\ now \in 0..MaxTime
    BY DEF IInv, TypeOK
  <1>3. /\ new \in [state : FamStates, kid : Kids, renewed : 0..MaxTime]
        /\ new.renewed = now /\ new.kid = proc[p].kid /\ now \in Nat
    <2>1. now \in Nat
      BY DEF IInv, TypeOK
    <2> QED BY <1>2, <2>1
  <1>4. Current(new.kid) /\ new.renewed <= now
    <2>1. Current(proc[p].kid)
      BY DEF IInv, TypeOK, ProcsInv, ProcInv, Current, Steps
    <2> QED BY <2>1, <1>3
  <1> HIDE DEF new
  <1>5. /\ fam' \in [Sessions -> [state : FamStates, kid : Kids, renewed : 0..MaxTime]]
        /\ FamsInv'
    BY <1>1, <1>3, <1>4, FamStep
  <1>6. {AccessTTL} \in SUBSET (0..AccessTTL)
    BY KeyRotationAssumption
  <1>7. tokens' \subseteq [kid : Kids, exp : Nat] /\ TokensInv'
    BY <1>1, <1>6, SignsInv
  <1>8. /\ proc' \in [Procs -> [kid : Kids, read : BOOLEAN, ring : SUBSET Kids]]
        /\ ProcsInv'
    BY <1>1, ReadsRing
  <1> QED BY <1>1, <1>5, <1>7, <1>8, RotationStays DEF IInv, TypeOK

\* A log-out.
LEMMA LogoutInv ==
    ASSUME IInv, NEW p \in Procs, NEW s \in Sessions, Logout(p, s)
    PROVE  IInv'
  <1> DEFINE end == IF fam[s].kid \in Ring(p) THEN "over" ELSE "left"
  <1> DEFINE new == [fam[s] EXCEPT !.state = end]
  <1>1. /\ fam' = [fam EXCEPT ![s] = new]
        /\ Reads(p) /\ UNCHANGED <<Rotation, tokens, now>>
    BY DEF Logout
  <1>2. fam[s] \in [state : FamStates, kid : Kids, renewed : 0..MaxTime]
        /\ FamInv(s)
    BY DEF IInv, TypeOK, FamsInv
  <1>3. new \in [state : FamStates, kid : Kids, renewed : 0..MaxTime]
        /\ new.renewed = fam[s].renewed /\ new.state # "held"
    BY <1>2 DEF FamStates
  <1> HIDE DEF new
  <1>4. /\ fam' \in [Sessions -> [state : FamStates, kid : Kids, renewed : 0..MaxTime]]
        /\ FamsInv'
    BY <1>1, <1>2, <1>3, FamStep DEF FamInv
  <1>5. /\ proc' \in [Procs -> [kid : Kids, read : BOOLEAN, ring : SUBSET Kids]]
        /\ ProcsInv'
    BY <1>1, ReadsRing
  <1> QED BY <1>1, <1>4, <1>5, RotationStays, TokensStay DEF IInv, TypeOK

\* A process starts over: its next ring is the directory as it is then.
LEMMA RestartInv ==
    ASSUME IInv, NEW p \in Procs, Restart(p)
    PROVE  IInv'
  <1> DEFINE new == Started(conf)
  <1>1. proc' = [proc EXCEPT ![p] = new] /\ UNCHANGED <<Rotation, tokens, fam, now>>
    BY DEF Restart
  <1>2. /\ new \in [kid : Kids, read : BOOLEAN, ring : SUBSET Kids]
        /\ new.kid = conf /\ new.read = FALSE
    BY DEF IInv, TypeOK, Started
  <1> HIDE DEF new
  <1>3. proc'[p] = new /\ \A q \in Procs \ {p} : proc'[q] = proc[q]
    BY <1>1 DEF IInv, TypeOK
  <1>4. proc' \in [Procs -> [kid : Kids, read : BOOLEAN, ring : SUBSET Kids]]
    BY <1>1, <1>2 DEF IInv, TypeOK
  <1>5. ProcsInv'
    <2> SUFFICES ASSUME NEW q \in Procs PROVE ProcInv(q)'
      BY DEF ProcsInv
    <2>1. CASE q = p
      <3>1. Ring(q)' = {conf, other}
        BY <2>1, <1>1, <1>2, <1>3 DEF Ring, Rotation, IInv, DirInv
      <3> QED BY <2>1, <3>1, <1>1, <1>2, <1>3 DEF ProcInv, Rotation
    <2>2. CASE q # p
      BY <2>2, <1>1, <1>3 DEF IInv, ProcsInv, ProcInv, Ring, Rotation
    <2> QED BY <2>1, <2>2
  <1> QED BY <1>1, <1>4, <1>5, RotationStays, TokensStay, FamsStay DEF IInv, TypeOK

-----------------------------------------------------------------------------
(* The operator's steps                                                     *)

\* The new key joins the one in force.
LEMMA PublishInv ==
    ASSUME IInv, NEW kid \in Kids, Publish(kid)
    PROVE  IInv'
  <1>1. /\ step = "steady" /\ step' = "published"
        /\ dir' = dir \cup {kid} /\ other' = kid
        /\ UNCHANGED <<conf, rolled, dropped, proc, tokens, fam, now>>
    BY DEF Publish
  <1>2. dir = {conf} /\ kid # conf
    <2>1. dir = {conf} /\ conf \in Nat /\ kid \in Nat
      BY <1>1 DEF IInv, TypeOK, DirInv, Kids
    <2>2. conf < kid
      BY <2>1 DEF Publish
    <2> QED BY <2>1, <2>2
  <1>3. TypeOK' /\ DirInv'
    BY <1>1, <1>2 DEF IInv, TypeOK, DirInv, Steps
  <1>4. ProcsInv'
    BY <1>1 DEF IInv, ProcsInv, ProcInv, Ring
  <1>5. TokensInv' /\ FamsInv'
    BY <1>1 DEF IInv, TokensInv, TokenInv, FamsInv, FamInv, Current
  <1> QED BY <1>3, <1>4, <1>5 DEF IInv

\* New processes sign with the new key.
LEMMA ConfigureInv ==
    ASSUME IInv, Configure
    PROVE  IInv'
  <1>1. /\ step = "published" /\ step' = "rolling"
        /\ conf' = other /\ other' = conf
        /\ UNCHANGED <<dir, rolled, dropped, proc, tokens, fam, now>>
    BY DEF Configure, Swap
  <1>2. TypeOK' /\ DirInv'
    BY <1>1 DEF IInv, TypeOK, DirInv, Steps
  <1>3. ProcsInv'
    BY <1>1 DEF IInv, ProcsInv, ProcInv, Ring
  <1>4. TokensInv' /\ FamsInv'
    BY <1>1 DEF IInv, TokensInv, TokenInv, FamsInv, FamInv, Current
  <1> QED BY <1>2, <1>3, <1>4 DEF IInv

\* All processes sign with the new key now: what the old key signed is of the past.
LEMMA BeginWaitInv ==
    ASSUME IInv, BeginWait
    PROVE  IInv'
  <1>1. /\ step = "rolling" /\ step' = "waiting" /\ rolled' = now
        /\ \A p \in Procs : proc[p].kid = conf
        /\ UNCHANGED <<dir, conf, other, dropped, proc, tokens, fam, now>>
    BY DEF BeginWait, RolledOut
  <1>2. TypeOK' /\ DirInv'
    BY <1>1 DEF IInv, TypeOK, DirInv, Steps
  <1>3. ProcsInv'
    BY <1>1 DEF IInv, ProcsInv, ProcInv, Ring
  <1>4. TokensInv'
    BY <1>1 DEF IInv, TokensInv, TokenInv, Current
  <1>5. FamsInv'
    BY <1>1 DEF IInv, FamsInv, FamInv, Current
  <1> QED BY <1>2, <1>3, <1>4, <1>5 DEF IInv

\* The old key goes when no live token carries it.
LEMMA DecommissionInv ==
    ASSUME IInv, Decommission
    PROVE  IInv'
  <1>1. /\ step = "waiting" /\ step' = "steady"
        /\ now > rolled + AccessTTL
        /\ dir' = dir \ {other} /\ other' = conf
        /\ UNCHANGED <<conf, rolled, dropped, proc, tokens, fam, now>>
    BY DEF Decommission, Waited
  <1>2. other # conf /\ dir' = {conf}
    BY <1>1 DEF IInv, DirInv
  <1>3. TypeOK' /\ DirInv'
    BY <1>1, <1>2 DEF IInv, TypeOK, DirInv, Steps
  <1>4. ProcsInv'
    BY <1>1, <1>2 DEF IInv, ProcsInv, ProcInv, Ring
  <1>5. TokensInv'
    <2> SUFFICES ASSUME NEW a \in tokens PROVE TokenInv(a)'
      BY <1>1 DEF TokensInv
    <2>1. TokenInv(a) /\ a.exp \in Nat
      BY DEF IInv, TypeOK, TokensInv
    <2>2. ~(a.exp <= rolled + AccessTTL)
      BY <1>1, <2>1, KeyRotationAssumption DEF TokenInv, IInv, TypeOK
    <2> QED BY <1>1, <2>1, <2>2 DEF TokenInv, Current
  <1>6. FamsInv'
    BY <1>1 DEF IInv, FamsInv, FamInv, Current
  <1> QED BY <1>3, <1>4, <1>5, <1>6 DEF IInv

\* New processes sign with the old key again.
LEMMA RollBackInv ==
    ASSUME IInv, RollBack
    PROVE  IInv'
  <1>1. /\ step \in {"rolling", "waiting"} /\ step' = "back"
        /\ conf' = other /\ other' = conf
        /\ UNCHANGED <<dir, rolled, dropped, proc, tokens, fam, now>>
    BY DEF RollBack, Swap
  <1>2. TypeOK' /\ DirInv'
    BY <1>1 DEF IInv, TypeOK, DirInv, Steps
  <1>3. ProcsInv'
    BY <1>1 DEF IInv, ProcsInv, ProcInv, Ring
  <1>4. TokensInv' /\ FamsInv'
    BY <1>1 DEF IInv, TokensInv, TokenInv, FamsInv, FamInv, Current
  <1> QED BY <1>2, <1>3, <1>4 DEF IInv

\* The new key goes, and the tokens it signed with it.
LEMMA DropNewInv ==
    ASSUME IInv, DropNew
    PROVE  IInv'
  <1>1. /\ step \in {"published", "back"} /\ step' = "steady"
        /\ \A p \in Procs : proc[p].kid = conf
        /\ dir' = dir \ {other} /\ other' = conf
        /\ dropped' = dropped \cup {other}
        /\ UNCHANGED <<conf, rolled, proc, tokens, fam, now>>
    BY DEF DropNew, RolledOut
  <1>2. other # conf /\ dir' = {conf}
    BY <1>1 DEF IInv, DirInv
  <1>3. TypeOK' /\ DirInv'
    BY <1>1, <1>2 DEF IInv, TypeOK, DirInv, Steps
  <1>4. ProcsInv'
    BY <1>1, <1>2 DEF IInv, ProcsInv, ProcInv, Ring
  <1>5. TokensInv' /\ FamsInv'
    BY <1>1 DEF IInv, TokensInv, TokenInv, FamsInv, FamInv, Current
  <1> QED BY <1>3, <1>4, <1>5 DEF IInv

\* Time passes; tokens expire.
LEMMA TickInv ==
    ASSUME IInv, Tick
    PROVE  IInv'
  <1>1. /\ now < MaxTime /\ now' = now + 1
        /\ tokens' = {a \in tokens : a.exp >= now + 1}
        /\ UNCHANGED Rotation /\ UNCHANGED <<proc, fam>>
    BY DEF Tick
  <1>2. now \in Nat /\ now' \in 0..MaxTime
    BY <1>1, KeyRotationAssumption DEF IInv, TypeOK
  <1>3. TypeOK'
    BY <1>1, <1>2, RotationStays DEF IInv, TypeOK
  <1>4. TokensInv'
    <2> SUFFICES ASSUME NEW a \in tokens' PROVE TokenInv(a)'
      BY DEF TokensInv
    <2>1. a \in tokens /\ a.exp >= now + 1 /\ a.exp \in Nat /\ TokenInv(a)
      BY <1>1 DEF IInv, TypeOK, TokensInv
    <2> QED BY <1>1, <1>2, <2>1, KeyRotationAssumption
            DEF TokenInv, Current, Rotation
  <1>5. FamsInv'
    <2> SUFFICES ASSUME NEW s \in Sessions PROVE FamInv(s)'
      BY DEF FamsInv
    <2>1. FamInv(s) /\ fam[s].renewed \in Nat
      BY DEF IInv, TypeOK, FamsInv
    <2> QED BY <1>1, <1>2, <2>1 DEF FamInv, Current, Rotation
  <1> QED BY <1>1, <1>3, <1>4, <1>5, RotationStays, ProcsStay DEF IInv

\* Every step keeps the invariant.
LEMMA StepInv == IInv /\ [Next]_vars => IInv'
  <1> SUFFICES ASSUME IInv, [Next]_vars PROVE IInv'
    OBVIOUS
  <1>1. CASE UNCHANGED vars
    <2>1. UNCHANGED Rotation /\ UNCHANGED <<proc, tokens, fam, now>>
      BY <1>1 DEF vars, Rotation
    <2>2. TypeOK'
      BY <2>1, RotationStays DEF IInv, TypeOK
    <2> QED BY <2>1, <2>2, RotationStays, ProcsStay, TokensStay, FamsStay DEF IInv
  <1> QED BY <1>1, LoginInv, StartOAuthInv, VerifyInv, RefreshInv, LogoutInv, RestartInv,
             PublishInv, ConfigureInv, BeginWaitInv, DecommissionInv, RollBackInv,
             DropNewInv, TickInv
          DEF Next

\* The invariant holds throughout.
LEMMA Invariance == Spec => []IInv
  BY InitInv, StepInv, PTL DEF Spec

-----------------------------------------------------------------------------
(* Theorems                                                                 *)

\* Every variable keeps its type.
THEOREM TypeCorrect == Spec => []TypeOK
  <1>1. IInv => TypeOK
    BY DEF IInv
  <1> QED BY <1>1, Invariance, PTL

\* A process verifies what it signs itself, at every point of every rotation.
THEOREM SignersVerify == Spec => []SignerVerifies
  <1>1. IInv => SignerVerifies
    BY DEF IInv, ProcsInv, ProcInv, SignerVerifies
  <1> QED BY <1>1, Invariance, PTL

\* A kid that is current is in every ring, except in transit or after a rollback.
LEMMA CurrentInRing ==
    ASSUME IInv, NEW p \in Procs, NEW kid, Current(kid)
    PROVE  kid \in Ring(p) \/ kid \in dropped \/ InTransit(p, kid)
  <1>1. ProcInv(p) /\ step \in Steps
    BY DEF IInv, TypeOK, ProcsInv
  <1> QED BY <1>1 DEF ProcInv, Current, InTransit, Steps

\* No process refuses a token before its time, except while the processes are
\* being restarted and for a key that was rolled back.
THEOREM AccessVerifies == Spec => []AccessKeepsVerifying
  <1>1. ASSUME IInv, NEW p \in Procs, NEW a \in tokens
        PROVE  a.kid \in Ring(p) \/ a.kid \in dropped \/ InTransit(p, a.kid)
    <2>1. CASE Current(a.kid)
      BY <1>1, <2>1, CurrentInRing
    <2>2. CASE ~Current(a.kid)
      BY <1>1, <2>2 DEF IInv, TokensInv, TokenInv, ProcsInv, ProcInv
    <2> QED BY <2>1, <2>2
  <1>2. IInv => AccessKeepsVerifying
    BY <1>1 DEF AccessKeepsVerifying
  <1> QED BY <1>2, Invariance, PTL

\* A session used since the latest roll-out can be refreshed at every process.
THEOREM UsedSessionsLast == Spec => []UsedSessionsSurvive
  <1>1. ASSUME IInv, NEW p \in Procs, NEW s \in Sessions, fam[s].state = "held"
        PROVE  \/ fam[s].kid \in Ring(p)
               \/ fam[s].renewed <= rolled
               \/ fam[s].kid \in dropped
               \/ InTransit(p, fam[s].kid)
    <2>1. Current(fam[s].kid) \/ fam[s].renewed <= rolled
      BY <1>1 DEF IInv, FamsInv, FamInv
    <2> QED BY <1>1, <2>1, CurrentInRing
  <1>2. IInv => UsedSessionsSurvive
    BY <1>1 DEF UsedSessionsSurvive
  <1> QED BY <1>2, Invariance, PTL
=============================================================================
