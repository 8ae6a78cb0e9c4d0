--------------------------- MODULE RefreshFamilies ---------------------------
(***************************************************************************)
(* Refresh-token families in Redis (identity/auth/refresh.py) and the      *)
(* refresh JWTs that carry them (identity/auth/jwt.py).                    *)
(*                                                                         *)
(*   refresh:fam:<family>    hash, current_jti + user_actor_id, TTL 30 d   *)
(*   refresh:actor:<actor>   set of family ids, TTL 30 d                   *)
(*                                                                         *)
(* Every Redis command or MULTI/Lua batch is one step.  What the program   *)
(* does between two of them is open to every other step: encoding the JWT  *)
(* after the families are written, and the two halves of                   *)
(* revoke_all_for_actor.  Time passes in whole units (days); a key is gone *)
(* once its expiry is reached.                                             *)
(***************************************************************************)
EXTENDS Naturals

CONSTANTS
    Actors,      \* user actor ids
    Families,    \* uuid4 family ids
    Jtis,        \* uuid4 token ids
    Sweeps,      \* calls of revoke_all_for_actor that may be in flight
    None,
    RefreshTTL,  \* REFRESH_TTL, in clock units
    Horizon      \* bound: the clock stops here

ASSUME RefreshTTLAssumption == RefreshTTL \in Nat \ {0}
ASSUME HorizonAssumption == Horizon \in Nat

VARIABLES
    now,         \* the clock Redis and the JWT library share
    fam,         \* the refresh:fam:* hashes; None when the key is absent
    index,       \* the refresh:actor:* sets
    encoding,    \* ids written to Redis whose JWT is not encoded yet
    jwts,        \* every refresh JWT that was ever encoded
    sweep        \* revoke_all_for_actor calls between SMEMBERS and the MULTI

VARIABLES        \* history, read by no action
    startedAt,   \* when each family was started
    accepted,    \* ids a rotation accepted
    burned,      \* families in which a superseded id was presented
    lost,        \* families dropped from their index without being deleted
    promised     \* families a returned revoke_all_for_actor was to delete

redis == <<fam, index>>
history == <<startedAt, accepted, burned, lost, promised>>
vars == <<now, fam, index, encoding, jwts, sweep, history>>

FamilyHash == [jti : Jtis, actor : Actors, expires : Nat]
IndexSet == [members : SUBSET Families, expires : Nat]
Ticket == [family : Families, jti : Jtis, actor : Actors]
Jwt == [family : Families, jti : Jtis, actor : Actors, exp : Nat]
SweepCall == [actor : Actors, seen : SUBSET Families, due : SUBSET Families]

ASSUME NoneAssumption ==
    /\ None \notin FamilyHash
    /\ None \notin SweepCall
    /\ None \notin Nat
    /\ None \notin Jtis

TypeOK ==
    /\ now \in Nat
    /\ fam \in [Families -> FamilyHash \cup {None}]
    /\ index \in [Actors -> IndexSet]
    /\ encoding \in SUBSET Ticket
    /\ jwts \in SUBSET Jwt
    /\ sweep \in [Sweeps -> SweepCall \cup {None}]
    /\ startedAt \in [Families -> Nat \cup {None}]
    /\ accepted \in SUBSET Jtis
    /\ burned \in SUBSET Families
    /\ lost \in SUBSET Families
    /\ promised \in SUBSET Families

-----------------------------------------------------------------------------
\* A key whose TTL has run out is absent to every command.
Live(f) == fam[f] # None /\ now < fam[f].expires

Members(a) == IF now < index[a].expires THEN index[a].members ELSE {}

\* decode_refresh: the signature is genuine (jwts) and exp is in the future.
Decodes(t) == t \in jwts /\ now < t.exp

\* uuid4: an id no token was accepted for, and no ticket, JWT or key carries.
FreshJti(j) ==
    /\ j \notin accepted
    /\ \A t \in encoding \cup jwts : t.jti # j
    /\ \A f \in Families : fam[f] # None => fam[f].jti # j

\* The actor's set holds ms, its TTL as it was.
Holding(a, ms) ==
    [index EXCEPT ![a] = [members |-> ms, expires |-> index[a].expires]]

SRem(a, f) == Holding(a, index[a].members \ {f})

Init ==
    /\ now = 0
    /\ fam = [f \in Families |-> None]
    /\ index = [a \in Actors |-> [members |-> {}, expires |-> 0]]
    /\ encoding = {}
    /\ jwts = {}
    /\ sweep = [s \in Sweeps |-> None]
    /\ startedAt = [f \in Families |-> None]
    /\ accepted = {}
    /\ burned = {}
    /\ lost = {}
    /\ promised = {}

-----------------------------------------------------------------------------

\* start_family: one MULTI writes the hash, adds it to the actor's set and
\* gives both keys a full TTL.
StartFamily(a, f, j) ==
    /\ startedAt[f] = None
    /\ FreshJti(j)
    /\ fam' = [fam EXCEPT ![f] =
                  [jti |-> j, actor |-> a, expires |-> now + RefreshTTL]]
    /\ index' = [index EXCEPT ![a] =
                    [members |-> Members(a) \cup {f},
                     expires |-> now + RefreshTTL]]
    /\ encoding' = encoding \cup {[family |-> f, jti |-> j, actor |-> a]}
    /\ startedAt' = [startedAt EXCEPT ![f] = now]
    /\ UNCHANGED <<now, jwts, sweep, accepted, burned, lost, promised>>

\* A slip: the session's lifetime is counted from the login.
EncodeRefreshFromLogin(t) ==
    /\ t \in encoding
    /\ encoding' = encoding \ {t}
    /\ jwts' = jwts \cup {[family |-> t.family, jti |-> t.jti, actor |-> t.actor,
                           exp |-> startedAt[t.family] + RefreshTTL]}
    /\ UNCHANGED <<now, redis, sweep, history>>

\* encode_refresh, after start_family or rotate returned.
EncodeRefresh(t) ==
    /\ t \in encoding
    /\ encoding' = encoding \ {t}
    /\ jwts' = jwts \cup {[family |-> t.family, jti |-> t.jti,
                           actor |-> t.actor, exp |-> now + RefreshTTL]}
    /\ UNCHANGED <<now, redis, sweep, history>>

\* The request ends before encode_refresh: the actor turned out disabled
\* after the rotation, the database failed, or the process died.
AbandonEncoding(t) ==
    /\ t \in encoding
    /\ encoding' = encoding \ {t}
    /\ UNCHANGED <<now, redis, jwts, sweep, history>>

\* A slip: the script writes the hash without testing that it exists.
RotateUnchecked(t, j) ==
    /\ Decodes(t)
    /\ fam[t.family] # None => fam[t.family].jti = t.jti
    /\ FreshJti(j)
    /\ fam' = [fam EXCEPT ![t.family] =
                  [jti |-> j, actor |-> t.actor, expires |-> now + RefreshTTL]]
    /\ encoding' = encoding \cup
                     {[family |-> t.family, jti |-> j, actor |-> t.actor]}
    /\ accepted' = accepted \cup {t.jti}
    /\ UNCHANGED <<now, index, jwts, sweep, startedAt, burned, lost, promised>>

\* rotate, the script's last branch: the presented id is current.  The hash
\* gets a new id and a full TTL; the actor's set keeps the TTL it had.
\* (With the key absent the script returns -1 and changes nothing.)
RotateAccepted(t, j) ==
    /\ Decodes(t)
    /\ Live(t.family)
    /\ fam[t.family].jti = t.jti
    /\ FreshJti(j)
    /\ fam' = [fam EXCEPT ![t.family] =
                  [jti |-> j, actor |-> fam[t.family].actor,
                   expires |-> now + RefreshTTL]]
    /\ encoding' = encoding \cup
                     {[family |-> t.family, jti |-> j, actor |-> t.actor]}
    /\ accepted' = accepted \cup {t.jti}
    /\ UNCHANGED <<now, index, jwts, sweep, startedAt, burned, lost, promised>>

\* A slip: the family's current id is blanked where the key should go.
RotateReusedBlanksJti(t) ==
    /\ Decodes(t)
    /\ Live(t.family)
    /\ fam[t.family].jti # t.jti
    /\ fam' = [fam EXCEPT ![t.family].jti = None]
    /\ index' = SRem(t.actor, t.family)
    /\ burned' = burned \cup {t.family}
    /\ UNCHANGED <<now, encoding, jwts, sweep, startedAt, accepted, lost,
                   promised>>

\* A slip: a superseded id is refused and the family lives on.
RotateReusedKeepsFamily(t) ==
    /\ Decodes(t)
    /\ Live(t.family)
    /\ fam[t.family].jti # t.jti
    /\ burned' = burned \cup {t.family}
    /\ UNCHANGED <<now, redis, encoding, jwts, sweep, startedAt, accepted,
                   lost, promised>>

\* rotate, the script's reuse branch.
RotateReused(t) ==
    /\ Decodes(t)
    /\ Live(t.family)
    /\ fam[t.family].jti # t.jti
    /\ fam' = [fam EXCEPT ![t.family] = None]
    /\ index' = SRem(t.actor, t.family)
    /\ burned' = burned \cup {t.family}
    /\ UNCHANGED <<now, encoding, jwts, sweep, startedAt, accepted, lost,
                   promised>>

\* logout -> revoke_family: one MULTI.  A cookie that does not decode is
\* ignored.
RevokeFamily(t) ==
    /\ Decodes(t)
    /\ fam' = [fam EXCEPT ![t.family] = None]
    /\ index' = SRem(t.actor, t.family)
    /\ UNCHANGED <<now, encoding, jwts, sweep, history>>

\* Every refresh:fam:* key whose user_actor_id is a, indexed or not.
FamiliesOf(a) == {f \in Families : fam[f] # None /\ fam[f].actor = a}

\* revoke_all_for_actor, SMEMBERS: with no member it returns at once.
RevokeAllRead(s, a) ==
    /\ sweep[s] = None
    /\ IF Members(a) = {}
         THEN /\ promised' = promised \cup FamiliesOf(a)
              /\ UNCHANGED sweep
         ELSE /\ sweep' = [sweep EXCEPT ![s] =
                              [actor |-> a, seen |-> Members(a),
                               due |-> FamiliesOf(a)]]
              /\ UNCHANGED promised
    /\ UNCHANGED <<now, redis, encoding, jwts, startedAt, accepted, burned,
                   lost>>

\* A slip: the index is dropped and the families it named are not.
RevokeAllDropsIndexOnly(s) ==
    /\ sweep[s] # None
    /\ index' = Holding(sweep[s].actor, {})
    /\ lost' = lost \cup (index[sweep[s].actor].members \ sweep[s].seen)
    /\ promised' = promised \cup sweep[s].due
    /\ sweep' = [sweep EXCEPT ![s] = None]
    /\ UNCHANGED <<now, fam, encoding, jwts, startedAt, accepted, burned>>

\* revoke_all_for_actor, the MULTI: the families that were read are deleted,
\* and the actor's set with whatever it holds by now.
RevokeAllDelete(s) ==
    /\ sweep[s] # None
    /\ fam' = [f \in Families |-> IF f \in sweep[s].seen THEN None ELSE fam[f]]
    /\ index' = Holding(sweep[s].actor, {})
    /\ lost' = lost \cup (index[sweep[s].actor].members \ sweep[s].seen)
    /\ promised' = promised \cup sweep[s].due
    /\ sweep' = [sweep EXCEPT ![s] = None]
    /\ UNCHANGED <<now, encoding, jwts, startedAt, accepted, burned>>

\* A process dies between the two commands.
RevokeAllDies(s) ==
    /\ sweep[s] # None
    /\ sweep' = [sweep EXCEPT ![s] = None]
    /\ UNCHANGED <<now, redis, encoding, jwts, history>>

Tick ==
    /\ now < Horizon
    /\ now' = now + 1
    /\ UNCHANGED <<redis, encoding, jwts, sweep, history>>

Next ==
    \/ \E a \in Actors, f \in Families, j \in Jtis : StartFamily(a, f, j)
    \/ \E t \in encoding : EncodeRefresh(t) \/ AbandonEncoding(t)
    \/ \E t \in jwts :
          \/ \E j \in Jtis : RotateAccepted(t, j)
          \/ RotateReused(t)
          \/ RevokeFamily(t)
    \/ \E s \in Sweeps, a \in Actors : RevokeAllRead(s, a)
    \/ \E s \in Sweeps : RevokeAllDelete(s) \/ RevokeAllDies(s)
    \/ Tick

Spec == Init /\ [][Next]_vars

-----------------------------------------------------------------------------
\* A chain of the abstract specification is a family: unborn until
\* start_family, live while its key is, over from then on.
Chains == INSTANCE SessionChains WITH
    phase <- [f \in Families |->
                 IF startedAt[f] = None THEN "unborn"
                 ELSE IF Live(f) THEN "live" ELSE "over"],
    current <- [f \in Families |-> IF Live(f) THEN fam[f].jti ELSE None],
    spent <- accepted

\* Rotation keeps its promise: at every moment a family accepts one id at
\* most, an accepted id is never accepted again, and no step, the expiry of a
\* key, a racing logout or the second half of revoke_all_for_actor included,
\* brings an ended family back (the Lua script and the two MULTIs of
\* refresh.py).
ImplementsChains == Chains!Spec

\* Presenting a superseded id ends the family for good: whatever rotation,
\* late encoding or revocation was in flight, it is never live again
\* (_LUA_ROTATE_SOURCE, the branch that returns 0).
ReplayEndsFamily == \A f \in burned : ~Live(f)

\* A user whose family is live is never turned away because the JWT that
\* carries its current id ran out first: that JWT is encoded after the key got
\* its TTL, with the same lifetime (rotate, start_family, encode_refresh).
CookieOutlivesFamily ==
    \A t \in jwts :
        Live(t.family) /\ fam[t.family].jti = t.jti => fam[t.family].expires <= t.exp

\* What the actor index is good for.  For RefreshTTL from its start, a live
\* family is in its actor's set and the set's own TTL reaches as far, unless a
\* revoke_all_for_actor that had not seen the family dropped the set
\* (start_family, rotate, revoke_family, revoke_all_for_actor).
IndexCovers ==
    \A f \in Families :
        Live(f) /\ f \notin lost /\ now < startedAt[f] + RefreshTTL =>
            /\ f \in index[fam[f].actor].members
            /\ startedAt[f] + RefreshTTL <= index[fam[f].actor].expires

\* revoke_all_for_actor returned: of the families that existed when it was
\* called, one lives on only if an earlier call had dropped it from the index,
\* or it is older than the TTL of the index, kept alive by rotations.
RevokeAllReach ==
    \A f \in promised :
        Live(f) => f \in lost \/ startedAt[f] + RefreshTTL <= now
=============================================================================
