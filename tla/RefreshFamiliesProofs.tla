------------------------ MODULE RefreshFamiliesProofs ------------------------
(***************************************************************************)
(* For every number of actors, families, token ids and concurrent calls,   *)
(* every lifetime and every clock bound: RefreshFamilies keeps its types,  *)
(* the invariants its runs check, and implements SessionChains.            *)
(***************************************************************************)
EXTENDS RefreshFamilies, TLAPS

\* A key that exists belongs to a started family, and its expiry is at most a
\* full TTL away.
KeysStarted ==
    \A f \in Families :
        fam[f] # None =>
            /\ startedAt[f] # None
            /\ startedAt[f] <= now
            /\ fam[f].expires <= now + RefreshTTL

\* Families that revocation or replay has touched were started.
HistoryStarted ==
    \A f \in burned \cup promised : startedAt[f] # None

\* A revoke_all_for_actor in flight has seen every live family it is due to
\* delete, but for those the index had lost or no longer covers.
SweepSees ==
    \A s \in Sweeps : sweep[s] # None =>
        \A f \in sweep[s].due :
            /\ startedAt[f] # None
            /\ Live(f) => \/ f \in sweep[s].seen
                          \/ f \in lost
                          \/ startedAt[f] + RefreshTTL <= now

IInv ==
    /\ TypeOK
    /\ KeysStarted
    /\ HistoryStarted
    /\ SweepSees
    /\ ReplayEndsFamily
    /\ CookieOutlivesFamily
    /\ IndexCovers
    /\ RevokeAllReach

-----------------------------------------------------------------------------
\* Every variable keeps its type (the Redis keys, the JWTs and the calls in
\* flight of refresh.py).
LEMMA TypeInductive == TypeOK /\ [Next]_vars => TypeOK'
  <1> SUFFICES ASSUME TypeOK, [Next]_vars PROVE TypeOK'
    OBVIOUS
  <1> USE RefreshTTLAssumption DEF TypeOK, FamilyHash, IndexSet, Ticket, Jwt,
          SweepCall, redis, history
  <1>1. ASSUME NEW a \in Actors, NEW f \in Families, NEW j \in Jtis,
               StartFamily(a, f, j)
        PROVE  TypeOK'
    BY <1>1 DEF StartFamily, Members
  <1>2. ASSUME NEW t \in encoding, EncodeRefresh(t) PROVE TypeOK'
    BY <1>2 DEF EncodeRefresh
  <1>3. ASSUME NEW t \in encoding, AbandonEncoding(t) PROVE TypeOK'
    BY <1>3 DEF AbandonEncoding
  <1>4. ASSUME NEW t \in jwts, NEW j \in Jtis, RotateAccepted(t, j)
        PROVE  TypeOK'
    <2>1. fam[t.family] \in FamilyHash
      BY <1>4 DEF RotateAccepted, Live
    <2>2. fam' \in [Families -> FamilyHash \cup {None}]
      BY <1>4, <2>1 DEF RotateAccepted
    <2>3. QED
      BY <1>4, <2>2 DEF RotateAccepted
  <1>5. ASSUME NEW t \in jwts, RotateReused(t) PROVE TypeOK'
    BY <1>5 DEF RotateReused, SRem, Holding
  <1>6. ASSUME NEW t \in jwts, RevokeFamily(t) PROVE TypeOK'
    BY <1>6 DEF RevokeFamily, SRem, Holding
  <1>7. ASSUME NEW s \in Sweeps, NEW a \in Actors, RevokeAllRead(s, a)
        PROVE  TypeOK'
    BY <1>7 DEF RevokeAllRead, Members, FamiliesOf
  <1>8. ASSUME NEW s \in Sweeps, RevokeAllDelete(s) PROVE TypeOK'
    <2>1. sweep[s] \in SweepCall
      BY <1>8 DEF RevokeAllDelete
    <2>2. QED
      BY <1>8, <2>1 DEF RevokeAllDelete, Holding
  <1>9. ASSUME NEW s \in Sweeps, RevokeAllDies(s) PROVE TypeOK'
    BY <1>9 DEF RevokeAllDies
  <1>10. CASE Tick
    BY <1>10 DEF Tick
  <1>11. CASE UNCHANGED vars
    BY <1>11 DEF vars
  <1>12. QED
    BY <1>1, <1>2, <1>3, <1>4, <1>5, <1>6, <1>7, <1>8, <1>9, <1>10, <1>11
       DEF Next

\* Redis holds what refresh.py writes there, in every state.
THEOREM TypeCorrect == Spec => []TypeOK
  <1>1. Init => TypeOK
    BY DEF Init, TypeOK, FamilyHash, IndexSet, Ticket, Jwt, SweepCall
  <1>2. QED
    BY <1>1, TypeInductive, PTL DEF Spec

-----------------------------------------------------------------------------
\* The inductive invariant is preserved, one action at a time.
LEMMA InvInductive == IInv /\ [Next]_vars => IInv'
  <1> SUFFICES ASSUME IInv, [Next]_vars PROVE IInv'
    OBVIOUS
  <1> USE RefreshTTLAssumption, NoneAssumption
  <1>0. TypeOK /\ TypeOK'
    BY TypeInductive DEF IInv
  <1>a. /\ now \in Nat /\ now' \in Nat
        /\ \A f \in Families : startedAt[f] # None => startedAt[f] \in Nat
        /\ \A f \in Families : fam[f] # None => fam[f] \in FamilyHash
        /\ \A a \in Actors : index[a] \in IndexSet
        /\ encoding \subseteq Ticket
        /\ jwts \subseteq Jwt
        /\ \A s \in Sweeps : sweep[s] # None => sweep[s] \in SweepCall
    BY <1>0 DEF TypeOK
  <1>1. ASSUME NEW a \in Actors, NEW f \in Families, NEW j \in Jtis,
               StartFamily(a, f, j)
        PROVE  IInv'
    <2> DEFINE hash == [jti |-> j, actor |-> a, expires |-> now + RefreshTTL]
               set == [members |-> Members(a) \cup {f},
                       expires |-> now + RefreshTTL]
    <2>1. /\ fam' = [fam EXCEPT ![f] = hash]
          /\ index' = [index EXCEPT ![a] = set]
          /\ startedAt' = [startedAt EXCEPT ![f] = now]
          /\ now' = now /\ jwts' = jwts /\ sweep' = sweep
          /\ accepted' = accepted /\ burned' = burned
          /\ lost' = lost /\ promised' = promised
          /\ startedAt[f] = None
      BY <1>1 DEF StartFamily
    <2>2. /\ fam'[f] = hash /\ startedAt'[f] = now /\ hash # None
          /\ index'[a] = set
          /\ \A g \in Families \ {f} : /\ fam'[g] = fam[g]
                                       /\ startedAt'[g] = startedAt[g]
                                       /\ Live(g)' <=> Live(g)
          /\ \A b \in Actors \ {a} : index'[b] = index[b]
      BY <2>1, <1>0 DEF TypeOK, FamilyHash, Live
    <2>3. KeysStarted'
      BY <2>1, <2>2, <1>a DEF IInv, KeysStarted
    <2>4. HistoryStarted' /\ ReplayEndsFamily'
      BY <2>1, <2>2, <1>0 DEF IInv, HistoryStarted, ReplayEndsFamily, TypeOK
    <2>5. SweepSees'
      BY <2>1, <2>2, <1>a DEF IInv, SweepSees, SweepCall
    <2>6. CookieOutlivesFamily'
      <3>1. \A t \in jwts : t.jti # j
        BY <1>1 DEF StartFamily, FreshJti
      <3>2. QED
        BY <3>1, <2>1, <2>2, <1>a DEF IInv, CookieOutlivesFamily, Jwt
    <2>7. IndexCovers'
      <3> SUFFICES ASSUME NEW g \in Families, Live(g)', g \notin lost',
                          now' < startedAt'[g] + RefreshTTL
                   PROVE  /\ g \in index'[fam'[g].actor].members
                          /\ startedAt'[g] + RefreshTTL
                                <= index'[fam'[g].actor].expires
        BY DEF IndexCovers
      <3>1. CASE g = f
        BY <3>1, <2>2, <1>a
      <3>2. CASE g # f
        <4>1. /\ g \in index[fam[g].actor].members
              /\ startedAt[g] + RefreshTTL <= index[fam[g].actor].expires
              /\ fam[g] \in FamilyHash
              /\ startedAt[g] \in Nat /\ startedAt[g] <= now
          BY <3>2, <2>1, <2>2, <1>a DEF IInv, IndexCovers, KeysStarted, Live
        <4>2. CASE fam[g].actor = a
          <5>1. now < index[a].expires
            BY <4>1, <4>2, <3>2, <2>1, <2>2, <1>a DEF IndexSet
          <5>2. g \in Members(a)
            BY <5>1, <4>1, <4>2 DEF Members
          <5>3. QED
            BY <5>2, <4>1, <4>2, <3>2, <2>2, <1>a
        <4>3. CASE fam[g].actor # a
          BY <4>1, <4>3, <3>2, <2>2 DEF FamilyHash
        <4>4. QED
          BY <4>2, <4>3
      <3>3. QED
        BY <3>1, <3>2
    <2>8. RevokeAllReach'
      BY <2>1, <2>2, <1>0 DEF IInv, RevokeAllReach, HistoryStarted, TypeOK
    <2>9. QED
      BY <2>3, <2>4, <2>5, <2>6, <2>7, <2>8, <1>0 DEF IInv
  <1>2. ASSUME NEW t \in encoding, EncodeRefresh(t) PROVE IInv'
    <2> DEFINE jwt == [family |-> t.family, jti |-> t.jti, actor |-> t.actor,
                       exp |-> now + RefreshTTL]
    <2>1. /\ jwts' = jwts \cup {jwt}
          /\ UNCHANGED <<now, fam, index, sweep, startedAt, accepted, burned,
                         lost, promised>>
      BY <1>2 DEF EncodeRefresh, redis, history
    <2>2. /\ KeysStarted' /\ HistoryStarted' /\ SweepSees'
          /\ ReplayEndsFamily' /\ IndexCovers' /\ RevokeAllReach'
      BY <2>1 DEF IInv, KeysStarted, HistoryStarted, SweepSees,
                  ReplayEndsFamily, IndexCovers, RevokeAllReach, Live
    <2>3. CookieOutlivesFamily'
      BY <2>1, <1>a DEF IInv, KeysStarted, CookieOutlivesFamily, Live, Ticket
    <2>4. QED
      BY <2>2, <2>3, <1>0 DEF IInv
  <1>3. ASSUME NEW t \in encoding, AbandonEncoding(t) PROVE IInv'
    BY <1>0, <1>3 DEF AbandonEncoding, redis, history, IInv, KeysStarted,
       HistoryStarted, SweepSees, ReplayEndsFamily, CookieOutlivesFamily,
       IndexCovers, RevokeAllReach, Live
  <1>4. ASSUME NEW t \in jwts, NEW j \in Jtis, RotateAccepted(t, j)
        PROVE  IInv'
    <2> DEFINE f == t.family
               hash == [jti |-> j, actor |-> fam[f].actor,
                        expires |-> now + RefreshTTL]
    <2>1. /\ f \in Families /\ Live(f)
          /\ fam' = [fam EXCEPT ![f] = hash]
          /\ UNCHANGED <<now, index, jwts, sweep, startedAt, burned, lost,
                         promised>>
      BY <1>4, <1>a DEF RotateAccepted, Jwt
    <2>2. /\ fam'[f] = hash /\ hash # None /\ fam[f] \in FamilyHash
          /\ \A g \in Families \ {f} : fam'[g] = fam[g]
          /\ \A g \in Families : /\ Live(g)' <=> Live(g)
                                 /\ fam[g] # None => fam'[g].actor = fam[g].actor
      BY <2>1, <1>0, <1>a DEF TypeOK, FamilyHash, Live
    <2>3. KeysStarted' /\ HistoryStarted'
      BY <2>1, <2>2, <1>a DEF IInv, KeysStarted, HistoryStarted, Live
    <2>4. SweepSees' /\ ReplayEndsFamily' /\ RevokeAllReach'
      BY <2>1, <2>2, <1>0 DEF IInv, SweepSees, ReplayEndsFamily,
                              RevokeAllReach, TypeOK, SweepCall
    <2>5. CookieOutlivesFamily'
      <3>1. \A u \in jwts : u.jti # j
        BY <1>4 DEF RotateAccepted, FreshJti
      <3>2. QED
        BY <3>1, <2>1, <2>2, <1>a DEF IInv, CookieOutlivesFamily, Jwt
    <2>6. IndexCovers'
      BY <2>1, <2>2 DEF IInv, IndexCovers, Live
    <2>7. QED
      BY <2>3, <2>4, <2>5, <2>6, <1>0 DEF IInv
  <1>5. ASSUME NEW t \in jwts, RotateReused(t) \/ RevokeFamily(t)
        PROVE  IInv'
    <2> DEFINE f == t.family
    <2>1. /\ f \in Families
          /\ fam' = [fam EXCEPT ![f] = None]
          /\ index' = SRem(t.actor, f)
          /\ burned' \in {burned, burned \cup {f}}
          /\ burned' = burned \/ Live(f)
          /\ UNCHANGED <<now, jwts, sweep, startedAt, lost, promised>>
      BY <1>5, <1>a DEF RotateReused, RevokeFamily, history, Jwt
    <2>2. /\ fam'[f] = None /\ ~Live(f)'
          /\ \A g \in Families \ {f} : /\ fam'[g] = fam[g]
                                       /\ Live(g)' <=> Live(g)
          /\ \A a \in Actors : /\ index'[a].expires = index[a].expires
                               /\ index[a].members \ {f} \subseteq index'[a].members
      BY <2>1, <1>0 DEF TypeOK, Live, SRem, Holding, IndexSet
    <2>3. KeysStarted' /\ HistoryStarted' /\ ReplayEndsFamily'
      BY <2>1, <2>2, <1>0 DEF IInv, KeysStarted, HistoryStarted,
                              ReplayEndsFamily, Live, TypeOK
    <2>4. SweepSees' /\ RevokeAllReach' /\ CookieOutlivesFamily'
      BY <2>1, <2>2, <1>0 DEF IInv, SweepSees, RevokeAllReach,
             CookieOutlivesFamily, TypeOK, SweepCall, Jwt
    <2>5. IndexCovers'
      BY <2>1, <2>2, <1>a DEF IInv, IndexCovers, Live, FamilyHash
    <2>6. QED
      BY <2>3, <2>4, <2>5, <1>0 DEF IInv
  <1>6. ASSUME NEW s \in Sweeps, NEW a \in Actors, RevokeAllRead(s, a)
        PROVE  IInv'
    <2>1. UNCHANGED <<now, fam, index, jwts, startedAt, burned, lost>>
      BY <1>6 DEF RevokeAllRead, redis
    <2>2. KeysStarted' /\ CookieOutlivesFamily' /\ IndexCovers' /\ ReplayEndsFamily'
      BY <2>1 DEF IInv, KeysStarted, CookieOutlivesFamily, IndexCovers,
                  ReplayEndsFamily, Live
    <2>3. \A f \in FamiliesOf(a) :
              /\ startedAt[f] # None
              /\ Live(f) => \/ f \in Members(a)
                            \/ f \in lost
                            \/ startedAt[f] + RefreshTTL <= now
      BY <1>a DEF FamiliesOf, IInv, KeysStarted, IndexCovers, Members, Live,
                  IndexSet
    <2>4. CASE Members(a) = {}
      <3>1. sweep' = sweep /\ promised' = promised \cup FamiliesOf(a)
        BY <2>4, <1>6 DEF RevokeAllRead
      <3>2. HistoryStarted' /\ SweepSees' /\ RevokeAllReach'
        BY <3>1, <2>1, <2>3, <2>4 DEF IInv, HistoryStarted, SweepSees,
                                      RevokeAllReach, Live
      <3>3. QED
        BY <3>2, <2>2, <1>0 DEF IInv
    <2>5. CASE Members(a) # {}
      <3> DEFINE call == [actor |-> a, seen |-> Members(a), due |-> FamiliesOf(a)]
      <3>1. sweep' = [sweep EXCEPT ![s] = call] /\ promised' = promised
        BY <2>5, <1>6 DEF RevokeAllRead
      <3>2. SweepSees'
        BY <3>1, <2>1, <2>3, <1>0 DEF IInv, SweepSees, Live, TypeOK
      <3>3. HistoryStarted' /\ RevokeAllReach'
        BY <3>1, <2>1 DEF IInv, HistoryStarted, RevokeAllReach, Live
      <3>4. QED
        BY <3>2, <3>3, <2>2, <1>0 DEF IInv
    <2>6. QED
      BY <2>4, <2>5
  <1>7. ASSUME NEW s \in Sweeps, RevokeAllDelete(s) PROVE IInv'
    <2> DEFINE a == sweep[s].actor
               seen == sweep[s].seen
    <2>1. /\ sweep[s] # None /\ sweep[s] \in SweepCall /\ a \in Actors
          /\ fam' = [f \in Families |-> IF f \in seen THEN None ELSE fam[f]]
          /\ index' = Holding(a, {})
          /\ lost' = lost \cup (index[a].members \ seen)
          /\ promised' = promised \cup sweep[s].due
          /\ sweep' = [sweep EXCEPT ![s] = None]
          /\ UNCHANGED <<now, jwts, startedAt, burned>>
      BY <1>7, <1>a DEF RevokeAllDelete, SweepCall
    <2>2. /\ \A f \in Families : fam'[f] # None => f \notin seen /\ fam'[f] = fam[f]
          /\ \A f \in Families : Live(f)' => Live(f) /\ f \notin seen
          /\ \A b \in Actors \ {a} : index'[b] = index[b]
      BY <2>1, <1>0 DEF TypeOK, Live, Holding
    <2>3. KeysStarted' /\ ReplayEndsFamily' /\ CookieOutlivesFamily'
      BY <2>1, <2>2, <1>0 DEF IInv, KeysStarted, ReplayEndsFamily,
             CookieOutlivesFamily, Live, TypeOK, Jwt
    <2>4. HistoryStarted'
      BY <2>1 DEF IInv, HistoryStarted, SweepSees
    <2>5. SweepSees'
      BY <2>1, <2>2, <1>0 DEF IInv, SweepSees, TypeOK, SweepCall
    <2>6. RevokeAllReach'
      BY <2>1, <2>2, <1>0 DEF IInv, RevokeAllReach, SweepSees, TypeOK, SweepCall
    <2>7. IndexCovers'
      BY <2>1, <2>2, <1>a DEF IInv, IndexCovers, Live, FamilyHash
    <2>8. QED
      BY <2>3, <2>4, <2>5, <2>6, <2>7, <1>0 DEF IInv
  <1>8. ASSUME NEW s \in Sweeps, RevokeAllDies(s) PROVE IInv'
    <2>1. /\ sweep' = [sweep EXCEPT ![s] = None]
          /\ UNCHANGED <<now, fam, index, jwts, startedAt, burned, lost,
                         promised>>
      BY <1>8 DEF RevokeAllDies, redis, history
    <2>2. SweepSees'
      BY <2>1, <1>0 DEF IInv, SweepSees, Live, TypeOK
    <2>3. /\ KeysStarted' /\ HistoryStarted' /\ ReplayEndsFamily'
          /\ CookieOutlivesFamily' /\ IndexCovers' /\ RevokeAllReach'
      BY <2>1 DEF IInv, KeysStarted, HistoryStarted, ReplayEndsFamily,
                  CookieOutlivesFamily, IndexCovers, RevokeAllReach, Live
    <2>4. QED
      BY <2>2, <2>3, <1>0 DEF IInv
  <1>9. CASE Tick
    <2>1. /\ now' = now + 1
          /\ UNCHANGED <<fam, index, jwts, sweep, startedAt, burned, lost,
                         promised>>
      BY <1>9 DEF Tick, redis, history
    <2>2. \A f \in Families : Live(f)' => Live(f)
      BY <2>1, <1>a DEF Live, FamilyHash
    <2>3. KeysStarted' /\ HistoryStarted' /\ ReplayEndsFamily'
      BY <2>1, <2>2, <1>0, <1>a DEF IInv, KeysStarted, HistoryStarted,
             ReplayEndsFamily, FamilyHash, TypeOK
    <2>4. SweepSees' /\ RevokeAllReach'
      BY <2>1, <2>2, <1>0, <1>a DEF IInv, SweepSees, RevokeAllReach, TypeOK,
             SweepCall, HistoryStarted
    <2>5. CookieOutlivesFamily'
      BY <2>1, <2>2, <1>a DEF IInv, CookieOutlivesFamily, Jwt
    <2>6. IndexCovers'
      BY <2>1, <2>2, <1>a DEF IInv, IndexCovers, KeysStarted, Live
    <2>7. QED
      BY <2>3, <2>4, <2>5, <2>6, <1>0 DEF IInv
  <1>10. CASE UNCHANGED vars
    BY <1>0, <1>10 DEF vars, redis, history, IInv, KeysStarted, HistoryStarted,
       SweepSees, ReplayEndsFamily, CookieOutlivesFamily, IndexCovers,
       RevokeAllReach, Live
  <1>11. QED
    BY <1>1, <1>2, <1>3, <1>4, <1>5, <1>6, <1>7, <1>8, <1>9, <1>10 DEF Next

\* The invariants the runs check hold in every reachable state (refresh.py).
THEOREM Invariance == Spec => []IInv
  <1>1. Init => IInv
    <2>1. Init => TypeOK
      BY DEF Init, TypeOK, FamilyHash, IndexSet, Ticket, Jwt, SweepCall
    <2>2. QED
      BY <2>1 DEF Init, IInv, KeysStarted, HistoryStarted, SweepSees,
         ReplayEndsFamily, CookieOutlivesFamily, IndexCovers, RevokeAllReach, Live
  <1>2. QED
    BY <1>1, InvInductive, PTL DEF Spec

\* A family in which a superseded id was presented never lives again
\* (_LUA_ROTATE_SOURCE, the reuse branch).
THEOREM ReplayEnds == Spec => []ReplayEndsFamily
  BY Invariance, PTL DEF IInv

\* The current JWT of a live family outlasts the family's key (encode_refresh
\* runs after the write).
THEOREM CookieOutlives == Spec => []CookieOutlivesFamily
  BY Invariance, PTL DEF IInv

\* What revoke_all_for_actor can miss, for any number of concurrent calls and
\* logins.
THEOREM RevokeAllReaches == Spec => [](IndexCovers /\ RevokeAllReach)
  BY Invariance, PTL DEF IInv

-----------------------------------------------------------------------------
\* The refinement, under the mapping of RefreshFamilies!Chains.
\* A step that only ends families is Close of the ones it ends (logout, replay,
\* revoke_all_for_actor, expiry).
LEMMA EndingIsClose ==
  ASSUME accepted' = accepted,
         startedAt' = startedAt,
         \A f \in Families : Live(f)' => Live(f) /\ fam'[f].jti = fam[f].jti,
         \A f \in Families : Live(f) => startedAt[f] # None
  PROVE  Chains!Next
  <1> DEFINE ends(f) == Live(f) /\ ~(fam'[f] # None /\ now' < fam'[f].expires)
  <1>1. PICK fs \in SUBSET Families : fs = {f \in Families : ends(f)}
    OBVIOUS
  <1>2. Chains!Close(fs)
    BY <1>1 DEF Chains!Close, Live
  <1>3. QED
    BY <1>2 DEF Chains!Next

\* A step of the program is a step of the abstract chain or none at all
\* (refresh.py).
LEMMA StepSimulation == IInv /\ [Next]_vars => [Chains!Next]_(Chains!vars)
  <1> SUFFICES ASSUME IInv, [Next]_vars PROVE [Chains!Next]_(Chains!vars)
    OBVIOUS
  <1> USE RefreshTTLAssumption, NoneAssumption
  <1>0. /\ TypeOK
        /\ \A f \in Families : Live(f) => startedAt[f] # None
        /\ \A t \in jwts : t.family \in Families
    BY DEF IInv, TypeOK, KeysStarted, Live, Jwt
  <1>1. ASSUME NEW a \in Actors, NEW f \in Families, NEW j \in Jtis,
               StartFamily(a, f, j)
        PROVE  Chains!Next
    <2>1. /\ startedAt[f] = None /\ ~Live(f)
          /\ Live(f)' /\ fam'[f].jti = j /\ startedAt'[f] = now /\ now # None
          /\ \A g \in Families \ {f} : /\ Live(g)' <=> Live(g)
                                       /\ fam'[g] = fam[g]
                                       /\ startedAt'[g] = startedAt[g]
          /\ accepted' = accepted
      BY <1>1, <1>0 DEF StartFamily, TypeOK, Live, FamilyHash
    <2>2. Chains!Unseen(j)
      BY <1>1 DEF StartFamily, FreshJti, Chains!Unseen, Live
    <2>3. Chains!Open(f, j)
      BY <2>1, <2>2 DEF Chains!Open
    <2>4. QED
      BY <2>3 DEF Chains!Next
  <1>2. ASSUME NEW t \in jwts, NEW j \in Jtis, RotateAccepted(t, j)
        PROVE  Chains!Next
    <2> DEFINE f == t.family
    <2>1. /\ f \in Families /\ Live(f) /\ fam[f].jti = t.jti
          /\ Live(f)' /\ fam'[f].jti = j
          /\ \A g \in Families \ {f} : /\ Live(g)' <=> Live(g)
                                       /\ fam'[g] = fam[g]
          /\ startedAt' = startedAt
          /\ accepted' = accepted \cup {t.jti}
      BY <1>2, <1>0 DEF RotateAccepted, TypeOK, Live, FamilyHash
    <2>2. Chains!Unseen(j)
      BY <1>2 DEF RotateAccepted, FreshJti, Chains!Unseen, Live
    <2>3. Chains!Renew(f, j)
      BY <2>1, <2>2, <1>0 DEF Chains!Renew
    <2>4. QED
      BY <2>1, <2>3 DEF Chains!Next
  <1>3. ASSUME NEW t \in jwts, RotateReused(t) \/ RevokeFamily(t)
        PROVE  Chains!Next
    <2>1. /\ accepted' = accepted /\ startedAt' = startedAt /\ now' = now
          /\ \A g \in Families : fam'[g] \in {fam[g], None}
      BY <1>3, <1>0 DEF RotateReused, RevokeFamily, history, TypeOK
    <2>2. QED
      BY <2>1, <1>0, EndingIsClose DEF Live
  <1>4. ASSUME NEW s \in Sweeps, RevokeAllDelete(s) PROVE Chains!Next
    <2>1. /\ accepted' = accepted /\ startedAt' = startedAt /\ now' = now
          /\ \A g \in Families : fam'[g] \in {fam[g], None}
      BY <1>4 DEF RevokeAllDelete
    <2>2. QED
      BY <2>1, <1>0, EndingIsClose DEF Live
  <1>5. ASSUME Tick PROVE Chains!Next
    <2>1. /\ accepted' = accepted /\ startedAt' = startedAt /\ fam' = fam
          /\ now' = now + 1 /\ now \in Nat
          /\ \A g \in Families : fam[g] # None => fam[g].expires \in Nat
      BY <1>5, <1>0 DEF Tick, redis, history, TypeOK, FamilyHash
    <2>2. \A g \in Families : Live(g)' => Live(g)
      BY <2>1 DEF Live
    <2>3. QED
      BY <2>1, <2>2, <1>0, EndingIsClose
  <1>6. ASSUME UNCHANGED <<now, fam, startedAt, accepted>>
        PROVE  UNCHANGED Chains!vars
    BY <1>6 DEF Chains!vars, Live
  <1>7. ASSUME NEW t \in encoding, EncodeRefresh(t) \/ AbandonEncoding(t)
        PROVE  UNCHANGED Chains!vars
    BY <1>6, <1>7 DEF EncodeRefresh, AbandonEncoding, redis, history
  <1>8. ASSUME NEW s \in Sweeps,
               RevokeAllDies(s) \/ \E a \in Actors : RevokeAllRead(s, a)
        PROVE  UNCHANGED Chains!vars
    BY <1>6, <1>8 DEF RevokeAllRead, RevokeAllDies, redis, history
  <1>9. CASE UNCHANGED vars
    BY <1>6, <1>9 DEF vars, redis, history
  <1>10. Next => Chains!Next \/ UNCHANGED Chains!vars
    BY <1>1, <1>2, <1>3, <1>4, <1>5, <1>7, <1>8 DEF Next
  <1>11. QED
    BY <1>9, <1>10

\* RefreshFamilies implements SessionChains: every behaviour of the Redis
\* store is one of the single-use, never-reopened chains.
THEOREM Refinement == Spec => ImplementsChains
  <1>1. Init => Chains!Init
    BY DEF Init, Chains!Init, Live
  <1>2. QED
    BY <1>1, StepSimulation, Invariance, PTL
       DEF Spec, Chains!Spec, ImplementsChains

=============================================================================
