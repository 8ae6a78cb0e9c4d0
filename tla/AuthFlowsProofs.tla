--------------------------- MODULE AuthFlowsProofs ---------------------------
(***************************************************************************)
(* For any number of actors, links, sessions and requests in flight: the   *)
(* flows drive the refresh families as RefreshFamilies allows, so what is  *)
(* proved of RefreshFamilies holds of them, and they keep the invariants   *)
(* the runs check.                                                         *)
(***************************************************************************)
EXTENDS AuthFlows, TLAPS

RP == INSTANCE RefreshFamiliesProofs WITH Sweeps <- Txs

-----------------------------------------------------------------------------
\* The inductive invariant.

\* What an open request of each kind may count on.
Sound(x) ==
    /\ x.phase = "sweeping" => x.kind = "reset"
    /\ x.phase = "started" => x.kind # "reset"
    /\ x.phase = "answered" => x.kind \in {"magic", "oauth", "reset"}
    /\ x.kind = "password" => users[x.actor] # None
    /\ x.kind \in {"magic", "oauth", "refresh"} => x.password = None
    /\ x.kind \in {"password", "oauth", "refresh"} => x.link = None
    /\ x.kind \in {"magic", "reset"} =>
          /\ x.link # None /\ links[x.link] # None
          /\ ~links[x.link].consumed /\ links[x.link].actor = x.actor
    /\ x.kind = "oauth" /\ x.phase = "answered" => Inserts(x)

InFlight == \A t \in Txs : tx[t] # None => Sound(tx[t])

\* The locks: of a link, of a user's row, of an address.
Exclusive ==
    \A t, u \in Txs : tx[t] # None /\ tx[u] # None /\ t # u =>
        /\ tx[t].link # None => tx[t].link # tx[u].link
        /\ ~(/\ tx[t].kind = "reset" /\ tx[u].kind = "reset"
             /\ tx[t].phase # "spent" /\ tx[u].phase # "spent"
             /\ tx[t].actor = tx[u].actor)
        /\ ~(/\ Inserts(tx[t]) /\ Inserts(tx[u])
             /\ Email[tx[t].actor] = Email[tx[u].actor])

AddressReserved ==
    \A t \in Txs : tx[t] # None /\ Inserts(tx[t]) =>
        \A b \in Actors : users[b] # None => Email[b] # Email[tx[t].actor]

LinksHaveAccounts ==
    \A l \in Links : links[l] # None => users[links[l].actor] # None

\* A key is of the actor its family was opened for, and a password is only
\* presented to an account.
OpenedWhenStarted ==
    \A f \in Families :
        /\ opened[f] = None <=> startedAt[f] = None
        /\ fam[f] # None => /\ opened[f] # None
                            /\ fam[f].actor = opened[f].actor
        /\ opened[f] # None /\ opened[f].password # None =>
              users[opened[f].actor] # None

\* A session a reset of its actor's password must end.
Earlier(f, a) ==
    /\ Redis!Live(f) /\ f \notin raced
    /\ opened[f] # None /\ opened[f].actor = a /\ opened[f].password # None

ResetReaches ==
    \A t \in Txs : tx[t] # None /\ tx[t].kind = "reset" =>
        \A f \in Families : Earlier(f, tx[t].actor) =>
            /\ tx[t].phase = "sweeping" => f \in sweep[t].due
            /\ tx[t].phase = "answered" => f \in promised

OldPasswordPromised ==
    \A f \in Families : SessionOfOldPassword(f) => f \in raced \cup promised

\* A session of a login link is its request's, or the link is spent.
LinkAccounted ==
    \A f \in Families :
        opened[f] # None /\ opened[f].link # None /\ f \notin orphaned =>
            /\ links[opened[f].link] # None
            /\ \/ links[opened[f].link].consumed
               \/ \E t \in Txs : /\ tx[t] # None /\ tx[t].link = opened[f].link
                                 /\ tx[t].phase \in {"started", "answered"}
                                 /\ tx[t].kind = "magic"
                                 /\ tx[t].ticket # None
                                 /\ tx[t].ticket.family = f

IInv ==
    /\ TypeOK
    /\ InFlight
    /\ Exclusive
    /\ AddressReserved
    /\ LinksHaveAccounts
    /\ OpenedWhenStarted
    /\ ResetReaches
    /\ OldPasswordPromised
    /\ LinkAccounted
    /\ LinkOpensOneSession
    /\ OneAccountPerEmail

-----------------------------------------------------------------------------
\* RefreshFamilies as AuthFlows takes it and as its proofs take it are one
\* (the two instances have the same constants and variables).
LEMMA SameRedis ==
    /\ Redis!Init <=> RP!Init
    /\ Redis!Next <=> RP!Next
    /\ UNCHANGED Redis!vars <=> UNCHANGED RP!vars
    /\ Redis!TypeOK <=> RP!TypeOK
  <1> USE DEF Redis!Live, RP!Live, Redis!Members, RP!Members,
        Redis!Decodes, RP!Decodes, Redis!FreshJti, RP!FreshJti,
        Redis!Holding, RP!Holding, Redis!SRem, RP!SRem,
        Redis!FamiliesOf, RP!FamiliesOf,
        Redis!redis, RP!redis, Redis!history, RP!history
  <1>1. Redis!Init <=> RP!Init
    BY DEF Redis!Init, RP!Init
  <1>2. Redis!TypeOK <=> RP!TypeOK
    BY DEF Redis!TypeOK, RP!TypeOK, Redis!FamilyHash, RP!FamilyHash,
         Redis!IndexSet, RP!IndexSet, Redis!Ticket, RP!Ticket, Redis!Jwt, RP!Jwt,
         Redis!SweepCall, RP!SweepCall
  <1>3. UNCHANGED Redis!vars <=> UNCHANGED RP!vars
    BY DEF Redis!vars, RP!vars
  <1>4. Redis!Next <=> RP!Next
    BY DEF Redis!Next, RP!Next, Redis!StartFamily, RP!StartFamily,
      Redis!EncodeRefresh, RP!EncodeRefresh, Redis!AbandonEncoding, RP!AbandonEncoding,
      Redis!RotateAccepted, RP!RotateAccepted, Redis!RotateReused, RP!RotateReused,
      Redis!RevokeFamily, RP!RevokeFamily, Redis!RevokeAllRead, RP!RevokeAllRead,
      Redis!RevokeAllDelete, RP!RevokeAllDelete, Redis!RevokeAllDies, RP!RevokeAllDies,
      Redis!Tick, RP!Tick
  <1>5. QED
    BY <1>1, <1>2, <1>3, <1>4

-----------------------------------------------------------------------------
\* Every step of the flows is a step of RefreshFamilies or leaves Redis alone
\* (the calls of refresh_module in identity/service.py).
LEMMA RedisStep == TypeOK /\ [Next]_vars => [Redis!Next]_(Redis!vars)
  <1> SUFFICES ASSUME TypeOK, [Next]_vars PROVE Redis!Next \/ UNCHANGED Redis!vars
    OBVIOUS
  <1>0. UNCHANGED redis => UNCHANGED Redis!vars
    BY DEF redis, Redis!vars, Redis!redis, Redis!history
  <1>a. \A t \in Txs : tx[t] # None => tx[t].actor \in Actors
    BY DEF TypeOK, Transaction
  <1>1. ASSUME NEW t \in Txs, Step(t) PROVE Redis!Next \/ UNCHANGED Redis!vars
    <2>1. CASE \E f \in Families, j \in Jtis : IssueTokens(t, f, j)
      BY <2>1, <1>a DEF IssueTokens, InPhase, Redis!Next
    <2>2. CASE \E k \in jwts, j \in Jtis : RefreshRotate(t, k, j)
      BY <2>2 DEF RefreshRotate, Redis!Next
    <2>3. CASE Answer(t) \/ RefreshAnswer(t)
      BY <2>3 DEF Answer, RefreshAnswer, Redis!EncodeRefresh, Redis!Next
    <2>4. CASE ResetRead(t)
      BY <2>4, <1>a DEF ResetRead, InPhase, Redis!Next
    <2>5. CASE ResetDelete(t)
      BY <2>5 DEF ResetDelete, Redis!Next
    <2>6. CASE Rollback(t)
      BY <2>6, <1>0 DEF Rollback, Redis!AbandonEncoding, Redis!Next
    <2>7. CASE Commit(t)
      BY <2>7, <1>0 DEF Commit
    <2>8. CASE UNCHANGED redis
      BY <2>8, <1>0
    <2>9. QED
      BY <1>1, <2>1, <2>2, <2>3, <2>4, <2>5, <2>6, <2>7, <2>8
         DEF Step, LoginPassword, LoginMagicLink, MagicUser, OAuthLinked,
             OAuthFirst, ResetLink, ResetUser, Open, Advance
  <1>2. CASE \E k \in jwts : RefreshReused(k) \/ Logout(k)
    BY <1>2 DEF RefreshReused, Logout, Redis!Next
  <1>3. CASE Redis!Tick
    BY <1>3 DEF Redis!Next
  <1>4. CASE UNCHANGED redis
    BY <1>4, <1>0
  <1>5. QED
    BY <1>1, <1>2, <1>3, <1>4
       DEF Next, vars, Register, RequestLink, ExpireLink, VerifyEmail, Disable

\* A family changes hands in no step, and comes to life in start_family only.
Quiet ==
    /\ startedAt' = startedAt
    /\ promised \subseteq promised'
    /\ \A f \in Families :
          /\ Redis!Live(f)' => Redis!Live(f)
          /\ fam'[f] # None => fam[f] # None /\ fam'[f].actor = fam[f].actor

\* Every Redis step but start_family is quiet (refresh.py).
LEMMA QuietSteps ==
  ASSUME TypeOK,
         \/ UNCHANGED redis
         \/ \E t \in encoding : Redis!EncodeRefresh(t) \/ Redis!AbandonEncoding(t)
         \/ \E t \in jwts :
               \/ \E j \in Jtis : Redis!RotateAccepted(t, j)
               \/ Redis!RotateReused(t)
               \/ Redis!RevokeFamily(t)
         \/ \E t \in Txs, a \in Actors : Redis!RevokeAllRead(t, a)
         \/ \E t \in Txs : Redis!RevokeAllDelete(t) \/ Redis!RevokeAllDies(t)
         \/ Redis!Tick
  PROVE  Quiet
  <1> USE NoneAssumption, TimeAssumption DEF Quiet, Redis!Live, redis, Redis!redis, Redis!history
  <1>0. /\ fam \in [Families -> Redis!FamilyHash \cup {None}]
        /\ now \in Nat
        /\ \A f \in Families : fam[f] # None => fam[f].expires \in Nat
    BY DEF TypeOK, Redis!TypeOK, Redis!FamilyHash
  <1>1. CASE UNCHANGED redis
    BY <1>1
  <1>2. CASE \E t \in encoding : Redis!EncodeRefresh(t) \/ Redis!AbandonEncoding(t)
    BY <1>2 DEF Redis!EncodeRefresh, Redis!AbandonEncoding
  <1>3. ASSUME NEW t \in jwts, NEW j \in Jtis, Redis!RotateAccepted(t, j)
        PROVE  Quiet
    BY <1>3, <1>0 DEF Redis!RotateAccepted
  <1>4. CASE \E t \in jwts : Redis!RotateReused(t)
    BY <1>4, <1>0 DEF Redis!RotateReused
  <1>5. CASE \E t \in jwts : Redis!RevokeFamily(t)
    BY <1>5, <1>0 DEF Redis!RevokeFamily
  <1>6. CASE \E t \in Txs, a \in Actors : Redis!RevokeAllRead(t, a)
    BY <1>6 DEF Redis!RevokeAllRead
  <1>7. CASE \E t \in Txs : Redis!RevokeAllDelete(t)
    BY <1>7, <1>0 DEF Redis!RevokeAllDelete
  <1>8. CASE \E t \in Txs : Redis!RevokeAllDies(t)
    BY <1>8 DEF Redis!RevokeAllDies
  <1>9. CASE Redis!Tick
    BY <1>9, <1>0 DEF Redis!Tick
  <1>10. QED
    BY <1>1, <1>2, <1>3, <1>4, <1>5, <1>6, <1>7, <1>8, <1>9

\* What the sessions keep when no family is opened, no password changes and
\* every reset past its first Redis step stays where it is.
LEMMA SessionsKept ==
  ASSUME IInv, Quiet, opened' = opened, raced' = raced,
         \A a \in Actors : users[a] # None =>
             users'[a] # None /\ users'[a].password = users[a].password,
         \A t \in Txs :
             tx'[t] # None /\ tx'[t].kind = "reset"
             /\ tx'[t].phase \notin {"spent", "checked"} =>
                 /\ tx[t] # None /\ tx[t].kind = "reset"
                 /\ tx[t].actor = tx'[t].actor /\ tx[t].phase = tx'[t].phase
                 /\ sweep'[t] = sweep[t]
  PROVE  OpenedWhenStarted' /\ ResetReaches' /\ OldPasswordPromised'
  <1>0. \A f \in Families : opened[f] # None => opened[f].actor \in Actors
    BY DEF IInv, TypeOK, Opening
  <1>1. OpenedWhenStarted'
    BY <1>0 DEF IInv, OpenedWhenStarted, Quiet
  <1>2. \A f \in Families : \A a : Earlier(f, a)' => Earlier(f, a)
    BY DEF Earlier, Quiet
  <1>3. ResetReaches'
    <2> SUFFICES ASSUME NEW t \in Txs, tx'[t] # None, tx'[t].kind = "reset",
                        NEW f \in Families, Earlier(f, tx[t].actor)'
                 PROVE  /\ tx'[t].phase = "sweeping" => f \in sweep'[t].due
                        /\ tx'[t].phase = "answered" => f \in promised'
      BY DEF ResetReaches
    <2>1. CASE tx'[t].phase \in {"spent", "checked"}
      BY <2>1
    <2>2. CASE tx'[t].phase \notin {"spent", "checked"}
      <3>1. /\ tx[t] # None /\ tx[t].kind = "reset"
            /\ tx[t].actor = tx'[t].actor /\ tx[t].phase = tx'[t].phase
            /\ sweep'[t] = sweep[t]
        BY <2>2
      <3>2. Earlier(f, tx[t].actor)
        BY <1>2, <3>1 DEF Earlier, Quiet
      <3>3. QED
        BY <3>1, <3>2 DEF IInv, ResetReaches, Quiet
    <2>3. QED
      BY <2>1, <2>2
  <1>4. OldPasswordPromised'
    <2> SUFFICES ASSUME NEW f \in Families, SessionOfOldPassword(f)'
                 PROVE  f \in raced' \cup promised'
      BY DEF OldPasswordPromised
    <2>1. /\ opened[f] # None /\ opened[f].password # None /\ Redis!Live(f)
          /\ users'[opened[f].actor].password # opened[f].password
      BY DEF SessionOfOldPassword, Quiet
    <2>2. users[opened[f].actor] # None /\ opened[f].actor \in Actors
      BY <1>0, <2>1 DEF IInv, OpenedWhenStarted
    <2>3. SessionOfOldPassword(f)
      BY <2>1, <2>2 DEF SessionOfOldPassword
    <2>4. QED
      BY <2>3 DEF IInv, OldPasswordPromised, Quiet
  <1>5. QED
    BY <1>1, <1>3, <1>4

-----------------------------------------------------------------------------
\* The part of TypeOK that is not of RefreshFamilies.
PostgresTypes ==
    /\ users \in [Actors -> Account \cup {None}]
    /\ links \in [Links -> Link \cup {None}]
    /\ tx \in [Txs -> Transaction \cup {None}]
    /\ opened \in [Families -> Opening \cup {None}]
    /\ raced \subseteq Families
    /\ orphaned \subseteq Families

\* Every variable keeps its type (identity/models.py, the Redis keys).
LEMMA TypeInductive == IInv /\ [Next]_vars => TypeOK'
  <1> SUFFICES ASSUME IInv, [Next]_vars PROVE TypeOK'
    OBVIOUS
  <1>0. Redis!TypeOK /\ Redis!TypeOK' /\ TypeOK
    <2>1. TypeOK /\ Redis!TypeOK
      BY DEF IInv, TypeOK
    <2>2. RP!TypeOK /\ [RP!Next]_(RP!vars)
      BY <2>1, RedisStep, SameRedis
    <2>3. RefreshTTL \in Nat \ {0} /\ Horizon \in Nat
      BY TimeAssumption
    <2>4. /\ None \notin RP!FamilyHash
          /\ None \notin RP!SweepCall
          /\ None \notin Nat
          /\ None \notin Jtis
      BY NoneAssumption
         DEF RP!FamilyHash, RP!SweepCall, Redis!FamilyHash, Redis!SweepCall
    <2>5. RP!TypeOK'
      BY <2>2, <2>3, <2>4, RP!TypeInductive
    <2>6. Redis!TypeOK'
      BY <2>5 DEF Redis!TypeOK, RP!TypeOK, Redis!FamilyHash, RP!FamilyHash,
         Redis!IndexSet, RP!IndexSet, Redis!Ticket, RP!Ticket, Redis!Jwt, RP!Jwt,
         Redis!SweepCall, RP!SweepCall
    <2>7. QED
      BY <2>1, <2>6
  <1>a. PostgresTypes
    BY <1>0 DEF TypeOK, PostgresTypes
  <1>b. /\ \A t \in Txs : tx[t] # None => tx[t] \in Transaction /\ Sound(tx[t])
        /\ \A l \in Links : links[l] # None =>
              links[l] \in Link /\ users[links[l].actor] # None
        /\ \A a \in Actors : users[a] # None => users[a] \in Account
    BY <1>a DEF IInv, InFlight, LinksHaveAccounts, PostgresTypes
  <1> SUFFICES PostgresTypes'
    BY <1>0 DEF TypeOK, PostgresTypes
  <1> USE DEF PostgresTypes
  <1>d. \A k \in Kinds, p \in Phases, a \in Actors : Request(k, p, a) \in Transaction
    BY DEF Request, Transaction
  <1>1. ASSUME NEW t \in Txs, Step(t) PROVE PostgresTypes'
    <2>1. CASE \E a \in Actors, p \in Passwords : LoginPassword(t, a, p)
      <3>1. \A a \in Actors, p \in Passwords :
               [Request("password", "checked", a) EXCEPT !.password = p] \in Transaction
        BY <1>d DEF Transaction, Kinds, Phases
      <3>2. QED
        BY <2>1, <1>a, <3>1 DEF LoginPassword, Open, postgres, history
    <2>2. CASE \E l \in Links : LoginMagicLink(t, l)
      <3>1. \A a \in Actors, l \in Links :
               [Request("magic", "spent", a) EXCEPT !.link = l] \in Transaction
        BY <1>d DEF Transaction, Kinds, Phases
      <3>2. QED
        BY <2>2, <1>a, <1>b, <3>1
           DEF LoginMagicLink, Redeemable, Link, Open, postgres, history
    <2>3. CASE \E a \in Actors : OAuthLinked(t, a) \/ OAuthFirst(t, a)
      BY <2>3, <1>a, <1>d
         DEF OAuthLinked, OAuthFirst, Open, postgres, history, Kinds, Phases
    <2>4. ASSUME NEW f \in Families, NEW j \in Jtis, IssueTokens(t, f, j)
          PROVE  PostgresTypes'
      <3> DEFINE ticket == [family |-> f, jti |-> j, actor |-> tx[t].actor]
                 o == [actor |-> tx[t].actor, link |-> tx[t].link,
                       password |-> tx[t].password]
      <3>1. tx[t] # None /\ tx[t] \in Transaction
        BY <2>4, <1>b DEF IssueTokens, InPhase
      <3>2. ticket \in Redis!Ticket /\ o \in Opening
        BY <3>1 DEF Transaction, Redis!Ticket, Opening
      <3>3. [tx[t] EXCEPT !.phase = "started", !.ticket = ticket] \in Transaction
        BY <3>1, <3>2 DEF Transaction, Phases
      <3>4. /\ tx' = [tx EXCEPT ![t] = [tx[t] EXCEPT !.phase = "started", !.ticket = ticket]]
            /\ opened' = [opened EXCEPT ![f] = o]
            /\ raced' \subseteq raced \cup {f}
            /\ users' = users /\ links' = links /\ orphaned' = orphaned
        BY <2>4, <1>a DEF IssueTokens, postgres
      <3>5. QED
        BY <1>a, <3>2, <3>3, <3>4
    <2>5. ASSUME NEW k \in jwts, NEW j \in Jtis, RefreshRotate(t, k, j)
          PROVE  PostgresTypes'
      <3> DEFINE ticket == [family |-> k.family, jti |-> j, actor |-> k.actor]
      <3>1. k.actor \in Actors /\ ticket \in Redis!Ticket
        BY <1>0 DEF Redis!TypeOK, Redis!Jwt, Redis!Ticket
      <3>2. [Request("refresh", "started", k.actor) EXCEPT !.ticket = ticket]
               \in Transaction
        BY <1>d, <3>1 DEF Transaction, Kinds, Phases
      <3>3. QED
        BY <2>5, <1>a, <3>2 DEF RefreshRotate, postgres, history
    <2>6. CASE Answer(t) \/ RefreshAnswer(t)
      <3>1. [tx[t] EXCEPT !.phase = "answered"] \in Transaction
        BY <2>6, <1>b DEF Answer, RefreshAnswer, InPhase, Transaction, Phases
      <3>2. QED
        BY <2>6, <1>a, <3>1 DEF Answer, RefreshAnswer, postgres, history
    <2>7. CASE \E l \in Links, p \in Passwords : ResetLink(t, l, p)
      <3>1. \A a \in Actors, l \in Links, p \in Passwords :
               [Request("reset", "spent", a) EXCEPT !.link = l, !.password = p]
                  \in Transaction
        BY DEF Request, Transaction, Kinds, Phases
      <3>2. \A l \in Links : Redeemable(l, "reset") => links[l].actor \in Actors
        BY <1>b DEF Redeemable, Link
      <3>3. PICK l \in Links, p \in Passwords : ResetLink(t, l, p)
        BY <2>7
      <3>4. links[l].actor \in Actors
        BY <3>2, <3>3 DEF ResetLink
      <3> DEFINE r == [Request("reset", "spent", links[l].actor) EXCEPT
                          !.link = l, !.password = p]
      <3>5. r \in Transaction
        BY <3>1, <3>4
      <3>6. tx' = [tx EXCEPT ![t] = r] /\ UNCHANGED <<postgres, history>>
        BY <3>3 DEF ResetLink, Open
      <3> HIDE DEF r
      <3>7. QED
        BY <3>5, <3>6, <1>a DEF postgres, history
    <2>8. CASE MagicUser(t) \/ ResetUser(t) \/ ResetRead(t) \/ ResetDelete(t)
      <3>1. \A p \in Phases : [tx[t] EXCEPT !.phase = p] \in Transaction
        BY <2>8, <1>b DEF MagicUser, ResetUser, ResetRead, ResetDelete, InPhase,
                          Transaction
      <3>2. \E p \in Phases : tx' = [tx EXCEPT ![t] = [tx[t] EXCEPT !.phase = p]]
        BY <2>8, <1>a DEF MagicUser, ResetUser, Advance, ResetRead, ResetDelete,
                          Phases
      <3>3. QED
        BY <2>8, <1>a, <3>1, <3>2
           DEF MagicUser, ResetUser, Advance, ResetRead, ResetDelete, postgres,
               history
    <2>9. CASE Commit(t)
      <3>1. /\ tx[t] \in Transaction /\ Sound(tx[t]) /\ tx[t].phase = "answered"
        BY <2>9, <1>b DEF Commit
      <3>2. NewAccount \in Account
        BY DEF NewAccount, Account
      <3>3. users' \in [Actors -> Account \cup {None}]
        <4>1. CASE tx[t].kind = "oauth"
          BY <4>1, <2>9, <3>1, <3>2, <1>a DEF Commit, Transaction
        <4>2. CASE tx[t].kind = "magic"
          <5>1. users[tx[t].actor] \in Account
            BY <4>2, <3>1, <1>b DEF Sound, Transaction
          <5>2. users' = [users EXCEPT ![tx[t].actor].verified = TRUE]
            BY <4>2, <2>9 DEF Commit
          <5>3. QED
            BY <5>1, <5>2, <1>a DEF Account
        <4>3. CASE tx[t].kind = "reset"
          <5>1. users[tx[t].actor] \in Account
            BY <4>3, <3>1, <1>b DEF Sound, Transaction
          <5>2. users' = [users EXCEPT ![tx[t].actor].password = tx[t].password]
            BY <4>3, <2>9 DEF Commit
          <5>3. tx[t].password \in Passwords \cup {None}
            BY <3>1 DEF Transaction
          <5>4. QED
            BY <5>1, <5>2, <5>3, <1>a DEF Account
        <4>4. QED
          BY <3>1, <4>1, <4>2, <4>3 DEF Sound
      <3>4. links' \in [Links -> Link \cup {None}]
        <4>1. CASE tx[t].link = None
          BY <4>1, <2>9, <1>a DEF Commit
        <4>2. CASE tx[t].link # None
          <5>1. links[tx[t].link] \in Link /\ tx[t].link \in Links
            BY <4>2, <3>1, <1>b DEF Sound, Transaction, Kinds
          <5>2. links' = [links EXCEPT ![tx[t].link].consumed = TRUE]
            BY <4>2, <2>9 DEF Commit
          <5>3. QED
            BY <5>1, <5>2, <1>a DEF Link
        <4>3. QED
          BY <4>1, <4>2
      <3>5. QED
        BY <2>9, <1>a, <3>3, <3>4 DEF Commit, history
    <2>10. CASE Rollback(t)
      <3>1. tx[t] \in Transaction
        BY <2>10, <1>b DEF Rollback
      <3>2. tx[t].ticket # None => tx[t].ticket.family \in Families
        BY <3>1 DEF Transaction, Redis!Ticket
      <3>3. QED
        BY <2>10, <1>a, <3>2 DEF Rollback, postgres
    <2>11. QED
      BY <1>1, <2>1, <2>2, <2>3, <2>4, <2>5, <2>6, <2>7, <2>8, <2>9, <2>10
         DEF Step
  <1>2. ASSUME NEW a \in Actors, NEW l \in Links, NEW p \in Passwords,
               Register(a, l, p)
        PROVE  PostgresTypes'
    BY <1>2, <1>a DEF Register, Account, Link, Purposes, history
  <1>3. ASSUME NEW a \in Actors, NEW l \in Links,
               NEW purpose \in {"login", "reset"}, RequestLink(a, l, purpose)
        PROVE  PostgresTypes'
    BY <1>3, <1>a DEF RequestLink, Link, Purposes, history
  <1>4. ASSUME NEW l \in Links, ExpireLink(l) \/ VerifyEmail(l) PROVE PostgresTypes'
    <2>1. links[l] \in Link /\ users[links[l].actor] \in Account
          /\ links[l].actor \in Actors
      BY <1>4, <1>b DEF ExpireLink, VerifyEmail, Redeemable, Link
    <2>2. CASE ExpireLink(l)
      BY <2>2, <2>1, <1>a DEF ExpireLink, Link, history
    <2>3. CASE VerifyEmail(l)
      <3>1. /\ users' = [users EXCEPT ![links[l].actor].verified = TRUE]
            /\ links' = [links EXCEPT ![l].consumed = TRUE]
            /\ UNCHANGED <<tx, opened, raced, orphaned>>
        BY <2>3 DEF VerifyEmail, history
      <3>2. users' \in [Actors -> Account \cup {None}]
        BY <3>1, <2>1, <1>a DEF Account
      <3>3. links' \in [Links -> Link \cup {None}]
        BY <3>1, <2>1, <1>a DEF Link
      <3>4. QED
        BY <3>1, <3>2, <3>3, <1>a
    <2>4. QED
      BY <1>4, <2>2, <2>3
  <1>5. ASSUME NEW a \in Actors, Disable(a) PROVE PostgresTypes'
    <2>1. users[a] \in Account
      BY <1>5, <1>b DEF Disable, Active
    <2>2. QED
      BY <1>5, <2>1, <1>a DEF Disable, Account, history
  <1>6. CASE UNCHANGED <<postgres, tx, history>>
    BY <1>6, <1>a DEF postgres, history
  <1>7. QED
    BY <1>1, <1>2, <1>3, <1>4, <1>5, <1>6
       DEF Next, vars, RefreshReused, Logout

-----------------------------------------------------------------------------
\* What is in the records, for the steps below.
LEMMA Facts ==
  ASSUME IInv
  PROVE  /\ PostgresTypes
         /\ \A t \in Txs : tx[t] # None => tx[t] \in Transaction /\ Sound(tx[t])
         /\ \A l \in Links : links[l] # None =>
               /\ links[l] \in Link /\ links[l].actor \in Actors
               /\ users[links[l].actor] # None
         /\ \A a \in Actors : users[a] # None => users[a] \in Account
         /\ \A f \in Families : opened[f] # None => opened[f] \in Opening
  BY DEF IInv, TypeOK, PostgresTypes, InFlight, LinksHaveAccounts, Link

\* Rows keep their other columns.
LEMMA AccountColumns ==
  ASSUME NEW r \in Account
  PROVE  /\ [r EXCEPT !.verified = TRUE] \in Account
         /\ [r EXCEPT !.verified = TRUE].password = r.password
         /\ [r EXCEPT !.deleted = TRUE] \in Account
         /\ [r EXCEPT !.deleted = TRUE].password = r.password
         /\ [r EXCEPT !.deleted = TRUE].verified = r.verified
         /\ \A p : [r EXCEPT !.password = p].verified = r.verified
         /\ \A p \in Passwords : [r EXCEPT !.password = p] \in Account
  BY DEF Account

\* The same of a row of magic_link_tokens.
LEMMA LinkColumns ==
  ASSUME NEW r \in Link
  PROVE  /\ [r EXCEPT !.consumed = TRUE] \in Link
         /\ [r EXCEPT !.consumed = TRUE].consumed
         /\ [r EXCEPT !.consumed = TRUE].actor = r.actor
         /\ [r EXCEPT !.expired = TRUE] \in Link
         /\ [r EXCEPT !.expired = TRUE].consumed = r.consumed
         /\ [r EXCEPT !.expired = TRUE].actor = r.actor
  BY DEF Link

\* What a step that is no request's Commit may do to the rows.
RowChange ==
    /\ \A a \in Actors : users[a] # None =>
          users'[a] # None /\ users'[a].password = users[a].password
    /\ \A l \in Links : links[l] # None =>
          /\ links'[l] # None
          /\ links'[l].actor = links[l].actor
          /\ links[l].consumed => links'[l].consumed
          /\ (\E t \in Txs : tx[t] # None /\ tx[t].link = l) =>
                links'[l].consumed = links[l].consumed
    /\ \A l \in Links : links'[l] # None =>
          links'[l].actor \in Actors /\ users'[links'[l].actor] # None
    /\ \A a \in Actors : users'[a] # None =>
          \/ users[a] # None
          \/ /\ FreshActor(a) /\ EmailFree(a)
             /\ \A b \in Actors \ {a} : users'[b] = users[b]

\* The requests that are one step (register_user, request_magic_link,
\* request_password_reset, verify_email), the expiry of a link and the disabling
\* of an actor.
LEMMA OneStepInv ==
  ASSUME IInv,
         \/ \E a \in Actors, l \in Links :
               \/ \E p \in Passwords : Register(a, l, p)
               \/ \E purpose \in {"login", "reset"} : RequestLink(a, l, purpose)
         \/ \E l \in Links : ExpireLink(l) \/ VerifyEmail(l)
         \/ \E a \in Actors : Disable(a)
  PROVE  IInv'
  <1>0. TypeOK'
    BY TypeInductive DEF Next
  <1>a. /\ UNCHANGED redis /\ UNCHANGED <<tx, opened, raced, orphaned>>
        /\ Quiet
    <2>1. UNCHANGED redis /\ UNCHANGED <<tx, opened, raced, orphaned>>
      BY DEF Register, RequestLink, ExpireLink, VerifyEmail, Disable, history
    <2>2. QED
      BY <2>1, QuietSteps DEF IInv
  <1>b. /\ PostgresTypes
        /\ \A t \in Txs : tx[t] # None => tx[t] \in Transaction /\ Sound(tx[t])
        /\ \A l \in Links : links[l] # None =>
              /\ links[l] \in Link /\ links[l].actor \in Actors
              /\ users[links[l].actor] # None
        /\ \A a \in Actors : users[a] # None => users[a] \in Account
        /\ \A f \in Families : opened[f] # None => opened[f] \in Opening
    BY Facts
  <1>c. RowChange
    <2> USE NoneAssumption DEF PostgresTypes, RowChange
    <2>1. ASSUME NEW a \in Actors, NEW l \in Links, NEW p \in Passwords,
                 Register(a, l, p)
          PROVE  RowChange
      <3> DEFINE u == [password |-> p, verified |-> FALSE,
                       linked |-> FALSE, deleted |-> FALSE]
                 r == [purpose |-> "verify", actor |-> a,
                       consumed |-> FALSE, expired |-> FALSE]
      <3>1. /\ u \in Account /\ r \in Link /\ r.actor = a
            /\ users[a] = None /\ links[l] = None
            /\ FreshActor(a) /\ EmailFree(a)
            /\ users' = [users EXCEPT ![a] = u]
            /\ links' = [links EXCEPT ![l] = r]
        BY <2>1 DEF Register, FreshActor, Account, Link, Purposes
      <3> HIDE DEF u, r
      <3>2. QED
        BY <3>1, <1>b
    <2>2. ASSUME NEW a \in Actors, NEW l \in Links,
                 NEW purpose \in {"login", "reset"}, RequestLink(a, l, purpose)
          PROVE  RowChange
      <3> DEFINE r == [purpose |-> purpose, actor |-> a,
                       consumed |-> FALSE, expired |-> FALSE]
      <3>1. /\ r \in Link /\ r.actor = a /\ users[a] # None /\ links[l] = None
            /\ users' = users /\ links' = [links EXCEPT ![l] = r]
        BY <2>2 DEF RequestLink, Active, Link, Purposes
      <3> HIDE DEF r
      <3>2. QED
        BY <3>1, <1>b
    <2>3. ASSUME NEW l \in Links, ExpireLink(l) PROVE RowChange
      <3> DEFINE r == [links[l] EXCEPT !.expired = TRUE]
      <3>1. /\ links[l] # None /\ users' = users
            /\ links' = [links EXCEPT ![l] = r]
        BY <2>3 DEF ExpireLink
      <3>2. r \in Link /\ r.consumed = links[l].consumed /\ r.actor = links[l].actor
        BY <3>1, <1>b, LinkColumns
      <3> HIDE DEF r
      <3>3. QED
        BY <3>1, <3>2, <1>b
    <2>4. ASSUME NEW l \in Links, VerifyEmail(l) PROVE RowChange
      <3> DEFINE a == links[l].actor
                 u == [users[a] EXCEPT !.verified = TRUE]
                 r == [links[l] EXCEPT !.consumed = TRUE]
      <3>1. /\ links[l] # None
            /\ users' = [users EXCEPT ![a] = u]
            /\ links' = [links EXCEPT ![l] = r]
            /\ \A t \in Txs : tx[t] # None => tx[t].link # l
        BY <2>4 DEF VerifyEmail, Redeemable
      <3>2. a \in Actors /\ users[a] # None
        BY <3>1, <1>b
      <3>3. u \in Account /\ u.password = users[a].password
        BY <3>2, <1>b, AccountColumns
      <3>4. r \in Link /\ r.consumed /\ r.actor = a
        BY <3>1, <1>b, LinkColumns
      <3> HIDE DEF u, r
      <3>5. QED
        BY <3>1, <3>2, <3>3, <3>4, <1>b
    <2>5. ASSUME NEW a \in Actors, Disable(a) PROVE RowChange
      <3> DEFINE u == [users[a] EXCEPT !.deleted = TRUE]
      <3>1. /\ users[a] # None /\ links' = links
            /\ users' = [users EXCEPT ![a] = u]
        BY <2>5 DEF Disable, Active
      <3>2. u \in Account /\ u.password = users[a].password
        BY <3>1, <1>b, AccountColumns
      <3> HIDE DEF u
      <3>3. QED
        BY <3>1, <3>2, <1>b
    <2>6. QED
      BY <2>1, <2>2, <2>3, <2>4, <2>5
  <1>1. OpenedWhenStarted' /\ ResetReaches' /\ OldPasswordPromised'
    <2>1. sweep' = sweep
      BY <1>a DEF redis
    <2>2. QED
      BY <1>a, <1>c, <2>1, SessionsKept DEF RowChange
  <1>2. \A t \in Txs : tx[t] # None =>
           /\ Inserts(tx[t])' <=> Inserts(tx[t])
           /\ tx[t].actor \in Actors
    BY <1>a, <1>b, <1>c DEF Inserts, FreshActor, Transaction, RowChange
  <1>3. InFlight'
    BY <1>a, <1>b, <1>c, <1>2 DEF InFlight, Sound, Transaction, Kinds, RowChange
  <1>4. Exclusive'
    BY <1>a, <1>2 DEF IInv, Exclusive
  <1>5. AddressReserved'
    BY <1>a, <1>c, <1>2 DEF IInv, AddressReserved, EmailFree, RowChange
  <1>6. LinksHaveAccounts'
    BY <1>c DEF LinksHaveAccounts, RowChange
  <1>7. LinkAccounted' /\ LinkOpensOneSession'
    BY <1>a, <1>b, <1>c DEF IInv, LinkAccounted, LinkOpensOneSession, Opening, RowChange
  <1>8. OneAccountPerEmail'
    BY <1>c DEF IInv, OneAccountPerEmail, EmailFree, RowChange
  <1>9. QED
    BY <1>0, <1>1, <1>3, <1>4, <1>5, <1>6, <1>7, <1>8 DEF IInv

\* A request begins: nothing but its record is new.
LEMMA OpenInv ==
  ASSUME IInv, TypeOK',
         NEW t \in Txs, NEW r \in Transaction,
         tx[t] = None,
         tx' = [tx EXCEPT ![t] = r],
         UNCHANGED <<postgres, opened, raced, orphaned>>,
         Quiet, sweep' = sweep,
         r.phase \in {"spent", "checked"} \/ r.kind = "refresh",
         Sound(r),
         r.link # None => \A u \in Txs : tx[u] # None => tx[u].link # r.link,
         r.kind = "reset" => r.phase = "spent",
         Inserts(r) => EmailFree(r.actor)
  PROVE  IInv'
  <1>a. /\ PostgresTypes /\ None \notin Transaction
        /\ users' = users /\ links' = links
        /\ \A u \in Txs : tx[u] # None => tx[u] \in Transaction /\ Sound(tx[u])
    BY Facts, NoneAssumption DEF postgres
  <1>b. /\ tx'[t] = r /\ r # None
        /\ \A u \in Txs \ {t} : tx'[u] = tx[u]
    BY <1>a DEF PostgresTypes
  <1>c. /\ \A x : Inserts(x)' <=> Inserts(x)
        /\ \A x : Sound(x)' <=> Sound(x)
    BY <1>a DEF Inserts, Sound
  <1>1. OpenedWhenStarted' /\ ResetReaches' /\ OldPasswordPromised'
    BY <1>a, <1>b, SessionsKept
  <1>2. InFlight'
    BY <1>a, <1>b, <1>c DEF InFlight
  <1>3. Exclusive'
    <2> SUFFICES ASSUME NEW u \in Txs \ {t}, tx[u] # None
                 PROVE  /\ r.link # None => r.link # tx[u].link
                        /\ tx[u].link # None => r.link # tx[u].link
                        /\ ~(r.kind = "reset" /\ r.phase # "spent")
                        /\ ~(/\ Inserts(r) /\ Inserts(tx[u])
                             /\ Email[r.actor] = Email[tx[u].actor])
      BY <1>b, <1>c DEF IInv, Exclusive
    <2>1. r.link # tx[u].link \/ r.link = None
      OBVIOUS
    <2>2. ~(r.kind = "reset" /\ r.phase # "spent")
      OBVIOUS
    <2>3. ~(/\ Inserts(r) /\ Inserts(tx[u])
            /\ Email[r.actor] = Email[tx[u].actor])
      BY DEF EmailFree
    <2>4. QED
      BY <2>1, <2>2, <2>3
  <1>4. AddressReserved'
    BY <1>a, <1>b, <1>c DEF IInv, AddressReserved, EmailFree
  <1>5. LinksHaveAccounts' /\ OneAccountPerEmail' /\ LinkOpensOneSession'
    BY <1>a DEF IInv, LinksHaveAccounts, OneAccountPerEmail, LinkOpensOneSession
  <1>6. LinkAccounted'
    BY <1>a, <1>b DEF IInv, LinkAccounted
  <1>7. QED
    BY <1>1, <1>2, <1>3, <1>4, <1>5, <1>6 DEF IInv

\* A request goes on, or ends without a commit: what its record still says of
\* rows, locks and sessions is what it said before.
LEMMA RequestsKept ==
  ASSUME IInv,
         NEW t \in Txs, NEW r \in Transaction \cup {None},
         tx[t] # None,
         tx' = [tx EXCEPT ![t] = r],
         UNCHANGED <<postgres, opened>>,
         orphaned \subseteq orphaned',
         r # None =>
            /\ Sound(r)
            /\ r.kind = tx[t].kind /\ r.actor = tx[t].actor
            /\ r.link = tx[t].link /\ r.ticket = tx[t].ticket
            /\ tx[t].phase \in {"started", "answered"} => r.phase = "answered"
            /\ r.kind = "reset" /\ tx[t].phase = "spent" => UserFree(r.actor),
         r = None /\ tx[t].kind = "magic" /\ tx[t].ticket # None =>
            tx[t].ticket.family \in orphaned'
  PROVE  /\ InFlight' /\ Exclusive' /\ AddressReserved' /\ LinksHaveAccounts'
         /\ LinkAccounted' /\ LinkOpensOneSession' /\ OneAccountPerEmail'
  <1>a. /\ PostgresTypes /\ None \notin Transaction
        /\ users' = users /\ links' = links
        /\ \A u \in Txs : tx[u] # None => tx[u] \in Transaction /\ Sound(tx[u])
    BY Facts, NoneAssumption DEF postgres
  <1>b. /\ tx'[t] = r
        /\ \A u \in Txs \ {t} : tx'[u] = tx[u]
    BY <1>a DEF PostgresTypes
  <1>c. /\ \A x : Inserts(x)' <=> Inserts(x)
        /\ \A x : Sound(x)' <=> Sound(x)
        /\ r # None => (Inserts(r) <=> Inserts(tx[t]))
    BY <1>a DEF Inserts, Sound
  <1>2. InFlight'
    BY <1>a, <1>b, <1>c DEF InFlight
  <1>3. Exclusive'
    BY <1>b, <1>c DEF IInv, Exclusive, UserFree
  <1>4. AddressReserved'
    BY <1>a, <1>b, <1>c DEF IInv, AddressReserved
  <1>5. LinksHaveAccounts' /\ OneAccountPerEmail' /\ LinkOpensOneSession'
    BY <1>a DEF IInv, LinksHaveAccounts, OneAccountPerEmail, LinkOpensOneSession
  <1>6. LinkAccounted'
    <2> SUFFICES ASSUME NEW f \in Families, opened[f] # None,
                        opened[f].link # None, f \notin orphaned',
                        ~links[opened[f].link].consumed
                 PROVE  \E u \in Txs : /\ tx'[u] # None /\ tx'[u].link = opened[f].link
                                       /\ tx'[u].phase \in {"started", "answered"}
                                       /\ tx'[u].kind = "magic"
                                       /\ tx'[u].ticket # None
                                       /\ tx'[u].ticket.family = f
      BY <1>a DEF IInv, LinkAccounted
    <2>1. PICK u \in Txs : /\ tx[u] # None /\ tx[u].link = opened[f].link
                           /\ tx[u].phase \in {"started", "answered"}
                           /\ tx[u].kind = "magic"
                           /\ tx[u].ticket # None
                           /\ tx[u].ticket.family = f
      BY DEF IInv, LinkAccounted
    <2>2. QED
      BY <2>1, <1>b
  <1>7. QED
    BY <1>2, <1>3, <1>4, <1>5, <1>6

\* The five ways a request begins, and a rotation (login_with_password,
\* login_with_magic_link, complete_oauth, complete_password_reset,
\* refresh_session).
LEMMA BeginInv ==
  ASSUME IInv, NEW t \in Txs,
         \/ \E a \in Actors, p \in Passwords : LoginPassword(t, a, p)
         \/ \E l \in Links : LoginMagicLink(t, l)
         \/ \E a \in Actors : OAuthLinked(t, a) \/ OAuthFirst(t, a)
         \/ \E l \in Links, p \in Passwords : ResetLink(t, l, p)
         \/ \E k \in jwts, j \in Jtis : RefreshRotate(t, k, j)
  PROVE  IInv'
  <1>0. TypeOK' /\ TypeOK
    BY TypeInductive DEF Next, Step, IInv
  <1>a. /\ PostgresTypes
        /\ \A l \in Links : links[l] # None =>
              /\ links[l] \in Link /\ links[l].actor \in Actors
              /\ users[links[l].actor] # None
    BY Facts
  <1>b. \A k \in Kinds, p \in Phases, a \in Actors :
           /\ Request(k, p, a) \in Transaction
           /\ Request(k, p, a).kind = k /\ Request(k, p, a).phase = p
           /\ Request(k, p, a).actor = a
           /\ Request(k, p, a).link = None /\ Request(k, p, a).password = None
    BY DEF Request, Transaction
  <1>c. ASSUME NEW r, Open(t, r)
        PROVE  /\ tx[t] = None /\ tx' = [tx EXCEPT ![t] = r]
               /\ UNCHANGED <<postgres, opened, raced, orphaned>>
               /\ Quiet /\ sweep' = sweep
    <2>1. UNCHANGED redis
      BY <1>c DEF Open
    <2>2. QED
      BY <1>0, <1>c, <2>1, QuietSteps DEF Open, history, redis
  <1> USE NoneAssumption DEF Kinds, Phases
  <1>1. ASSUME NEW a \in Actors, NEW p \in Passwords, LoginPassword(t, a, p)
        PROVE  IInv'
    <2> DEFINE r == [Request("password", "checked", a) EXCEPT !.password = p]
    <2>1. /\ r \in Transaction /\ r.kind = "password" /\ r.phase = "checked"
          /\ r.actor = a /\ r.link = None
      BY <1>b DEF Transaction
    <2>2. Open(t, r) /\ users[a] # None
      BY <1>1 DEF LoginPassword, Active
    <2> HIDE DEF r
    <2>3. Sound(r) /\ ~Inserts(r)
      BY <2>1, <2>2 DEF Sound, Inserts
    <2>4. QED
      BY <1>0, <1>c, <2>1, <2>2, <2>3, OpenInv
  <1>2. ASSUME NEW l \in Links, LoginMagicLink(t, l) PROVE IInv'
    <2> DEFINE a == links[l].actor
               r == [Request("magic", "spent", a) EXCEPT !.link = l]
    <2>1. /\ Open(t, r) /\ links[l] # None /\ ~links[l].consumed
          /\ \A u \in Txs : tx[u] # None => tx[u].link # l
      BY <1>2 DEF LoginMagicLink, Redeemable
    <2>2. a \in Actors
      BY <2>1, <1>a
    <2>3. /\ r \in Transaction /\ r.kind = "magic" /\ r.phase = "spent"
          /\ r.actor = a /\ r.link = l /\ r.password = None
      BY <2>2, <1>b DEF Transaction
    <2> HIDE DEF r
    <2>4. Sound(r) /\ ~Inserts(r)
      BY <2>1, <2>3 DEF Sound, Inserts
    <2>5. QED
      BY <1>0, <1>c, <2>1, <2>3, <2>4, OpenInv
  <1>3. ASSUME NEW a \in Actors, OAuthLinked(t, a) \/ OAuthFirst(t, a)
        PROVE  IInv'
    <2> DEFINE r == Request("oauth", "checked", a)
    <2>1. /\ r \in Transaction /\ r.kind = "oauth" /\ r.phase = "checked"
          /\ r.actor = a /\ r.link = None /\ r.password = None
      BY <1>b
    <2>2. /\ Open(t, r)
          /\ users[a] # None \/ EmailFree(a)
      BY <1>3 DEF OAuthLinked, OAuthFirst, Active
    <2> HIDE DEF r
    <2>3. Sound(r) /\ (Inserts(r) => EmailFree(r.actor))
      BY <2>1, <2>2 DEF Sound, Inserts
    <2>4. QED
      BY <1>0, <1>c, <2>1, <2>2, <2>3, OpenInv
  <1>4. ASSUME NEW l \in Links, NEW p \in Passwords, ResetLink(t, l, p)
        PROVE  IInv'
    <2> DEFINE a == links[l].actor
               r == [Request("reset", "spent", a) EXCEPT
                        !.link = l, !.password = p]
    <2>1. /\ Open(t, r) /\ links[l] # None /\ ~links[l].consumed
          /\ \A u \in Txs : tx[u] # None => tx[u].link # l
      BY <1>4 DEF ResetLink, Redeemable
    <2>2. a \in Actors
      BY <2>1, <1>a
    <2>3. /\ r \in Transaction /\ r.kind = "reset" /\ r.phase = "spent"
          /\ r.actor = a /\ r.link = l
      BY <2>2 DEF Request, Transaction
    <2> HIDE DEF r
    <2>4. Sound(r) /\ ~Inserts(r)
      BY <2>1, <2>3 DEF Sound, Inserts
    <2>5. QED
      BY <1>0, <1>c, <2>1, <2>3, <2>4, OpenInv
  <1>5. ASSUME NEW k \in jwts, NEW j \in Jtis, RefreshRotate(t, k, j)
        PROVE  IInv'
    <2> DEFINE ticket == [family |-> k.family, jti |-> j, actor |-> k.actor]
               r == [Request("refresh", "started", k.actor) EXCEPT
                        !.ticket = ticket]
    <2>1. k.actor \in Actors /\ ticket \in Redis!Ticket
      BY <1>0 DEF TypeOK, Redis!TypeOK, Redis!Jwt, Redis!Ticket
    <2>2. /\ r \in Transaction /\ r.kind = "refresh" /\ r.phase = "started"
          /\ r.link = None /\ r.password = None
      BY <2>1, <1>b DEF Transaction
    <2>3. /\ tx[t] = None /\ tx' = [tx EXCEPT ![t] = r]
          /\ UNCHANGED <<postgres, opened, raced, orphaned>>
          /\ Quiet /\ sweep' = sweep
      <3>1. Quiet
        BY <1>5, <1>0, QuietSteps DEF RefreshRotate
      <3>2. QED
        BY <1>5, <3>1 DEF RefreshRotate, history, Redis!RotateAccepted
    <2> HIDE DEF r
    <2>4. Sound(r) /\ ~Inserts(r)
      BY <2>2 DEF Sound, Inserts
    <2>5. QED
      BY <1>0, <2>2, <2>3, <2>4, OpenInv
  <1>6. QED
    BY <1>1, <1>2, <1>3, <1>4, <1>5

\* The answer of a login or a refresh, and the end of a request that does not
\* commit (_issue_tokens, refresh_session, session_scope).
LEMMA AnswerInv ==
  ASSUME IInv, NEW t \in Txs, Answer(t) \/ RefreshAnswer(t) \/ Rollback(t)
  PROVE  IInv'
  <1>0. TypeOK' /\ TypeOK
    BY TypeInductive DEF Next, Step, IInv
  <1>a. /\ PostgresTypes /\ None \notin Transaction
        /\ \A u \in Txs : tx[u] # None => tx[u] \in Transaction /\ Sound(tx[u])
    BY Facts, NoneAssumption
  <1>b. /\ tx[t] # None /\ tx[t] \in Transaction /\ Sound(tx[t])
    BY <1>a DEF Answer, RefreshAnswer, InPhase, Rollback
  <1>c. Quiet
    <2>1. CASE Answer(t) \/ RefreshAnswer(t)
      BY <2>1, <1>0, QuietSteps DEF Answer, RefreshAnswer, Redis!EncodeRefresh
    <2>2. CASE Rollback(t)
      BY <2>2, <1>0, QuietSteps DEF Rollback, Redis!AbandonEncoding
    <2>3. QED
      BY <2>1, <2>2
  <1>d. \A u \in Txs \ {t} : sweep'[u] = sweep[u]
    <2>1. sweep \in [Txs -> Redis!SweepCall \cup {None}]
      BY <1>0 DEF TypeOK, Redis!TypeOK
    <2>2. QED
      BY <2>1 DEF Answer, RefreshAnswer, Rollback, Redis!EncodeRefresh,
                  Redis!AbandonEncoding, Redis!RevokeAllDies, redis
  <1>1. PICK r \in Transaction \cup {None} :
           /\ tx' = [tx EXCEPT ![t] = r]
           /\ r # None =>
                 /\ tx[t].kind = "magic" \/ Inserts(tx[t])
                 /\ tx[t].phase = "started"
                 /\ r = [tx[t] EXCEPT !.phase = "answered"]
           /\ r = None => Rollback(t) \/ tx[t].kind # "magic"
    <2>1. CASE Answer(t)
      <3>1. [tx[t] EXCEPT !.phase = "answered"] \in Transaction
        BY <1>b DEF Transaction, Phases
      <3> DEFINE d == [tx[t] EXCEPT !.phase = "answered"]
      <3>a. tx' = [tx EXCEPT ![t] =
                      IF tx[t].kind = "magic" \/ Inserts(tx[t]) THEN d ELSE None]
        BY <2>1 DEF Answer
      <3>2. CASE tx[t].kind = "magic" \/ Inserts(tx[t])
        <4> HIDE DEF d
        <4>1. tx' = [tx EXCEPT ![t] = d]
          BY <3>a, <3>2
        <4> USE DEF d
        <4>3. tx[t].phase = "started"
          BY <2>1 DEF Answer, InPhase
        <4>4. QED
          BY <3>1, <3>2, <4>1, <4>3, <1>a
      <3>3. CASE ~(tx[t].kind = "magic" \/ Inserts(tx[t]))
        <4>1. tx' = [tx EXCEPT ![t] = None]
          BY <3>a, <3>3
        <4>2. QED
          BY <3>3, <4>1
      <3>4. QED
        BY <3>2, <3>3
    <2>2. CASE Rollback(t)
      BY <2>2 DEF Rollback
    <2>3. CASE RefreshAnswer(t)
      BY <2>3 DEF RefreshAnswer, InPhase
    <2>4. QED
      BY <2>1, <2>2, <2>3
  <1>2. r # None =>
           /\ r.kind = tx[t].kind /\ r.actor = tx[t].actor
           /\ r.link = tx[t].link /\ r.ticket = tx[t].ticket
           /\ r.password = tx[t].password /\ r.phase = "answered"
    BY <1>1, <1>b DEF Transaction
  <1>3. r # None => Sound(r)
    BY <1>1, <1>2, <1>b DEF Sound, Inserts
  <1>4. /\ UNCHANGED <<postgres, opened, raced>>
        /\ orphaned \subseteq orphaned'
        /\ Rollback(t) /\ tx[t].kind = "magic" /\ tx[t].ticket # None =>
              tx[t].ticket.family \in orphaned'
    BY DEF Answer, RefreshAnswer, Rollback, history
  <1>5. /\ InFlight' /\ Exclusive' /\ AddressReserved' /\ LinksHaveAccounts'
        /\ LinkAccounted' /\ LinkOpensOneSession' /\ OneAccountPerEmail'
    BY <1>1, <1>2, <1>3, <1>4, <1>b, RequestsKept
  <1>6. OpenedWhenStarted' /\ ResetReaches' /\ OldPasswordPromised'
    <2>1. \A u \in Txs : tx'[u] # None /\ tx'[u].kind = "reset" =>
             u # t /\ tx'[u] = tx[u]
      BY <1>1, <1>2, <1>a DEF PostgresTypes, Inserts
    <2>2. QED
      BY <2>1, <1>4, <1>c, <1>d, SessionsKept DEF postgres
  <1>7. QED
    BY <1>0, <1>5, <1>6 DEF IInv

\* The statement on the row of users, of a login link and of a reset
\* (login_with_magic_link, complete_password_reset).
LEMMA UserInv ==
  ASSUME IInv, NEW t \in Txs, MagicUser(t) \/ ResetUser(t)
  PROVE  IInv'
  <1>0. TypeOK' /\ TypeOK
    BY TypeInductive DEF Next, Step, IInv
  <1>a. /\ PostgresTypes /\ None \notin Transaction
        /\ \A u \in Txs : tx[u] # None => tx[u] \in Transaction /\ Sound(tx[u])
    BY Facts, NoneAssumption
  <1> DEFINE r == [tx[t] EXCEPT !.phase = "checked"]
  <1>1. /\ tx[t] # None /\ tx[t] \in Transaction /\ Sound(tx[t])
        /\ tx[t].phase = "spent" /\ tx' = [tx EXCEPT ![t] = r]
        /\ tx[t].kind = "reset" => UserFree(tx[t].actor)
        /\ UNCHANGED <<redis, postgres, history>>
    BY <1>a DEF MagicUser, ResetUser, InPhase, Advance
  <1>2. /\ r \in Transaction /\ r # None
        /\ r.kind = tx[t].kind /\ r.actor = tx[t].actor
        /\ r.link = tx[t].link /\ r.ticket = tx[t].ticket
        /\ r.password = tx[t].password /\ r.phase = "checked"
    BY <1>1, <1>a DEF Transaction, Phases
  <1> HIDE DEF r
  <1>3. Sound(r)
    BY <1>1, <1>2 DEF Sound
  <1>4. /\ InFlight' /\ Exclusive' /\ AddressReserved' /\ LinksHaveAccounts'
        /\ LinkAccounted' /\ LinkOpensOneSession' /\ OneAccountPerEmail'
    BY <1>1, <1>2, <1>3, RequestsKept DEF history
  <1>5. OpenedWhenStarted' /\ ResetReaches' /\ OldPasswordPromised'
    <2>1. Quiet /\ sweep' = sweep
      BY <1>0, <1>1, QuietSteps DEF redis
    <2>2. \A u \in Txs :
             tx'[u] # None /\ tx'[u].phase \notin {"spent", "checked"} =>
                 tx'[u] = tx[u]
      BY <1>1, <1>2, <1>a DEF PostgresTypes
    <2>3. QED
      BY <2>1, <2>2, <1>1, SessionsKept DEF history, postgres
  <1>6. QED
    BY <1>0, <1>4, <1>5 DEF IInv

\* The two Redis steps of a password reset: all earlier sessions are found, and
\* then gone or promised (complete_password_reset, revoke_all_for_actor).
LEMMA ResetInv ==
  ASSUME IInv, NEW t \in Txs, ResetRead(t) \/ ResetDelete(t)
  PROVE  IInv'
  <1>0. TypeOK' /\ TypeOK
    BY TypeInductive DEF Next, Step, IInv
  <1>a. /\ PostgresTypes /\ None \notin Transaction
        /\ \A u \in Txs : tx[u] # None => tx[u] \in Transaction /\ Sound(tx[u])
        /\ \A f \in Families : opened[f] # None => opened[f].actor \in Actors
    BY Facts, NoneAssumption DEF Opening
  <1>b. /\ tx[t] # None /\ tx[t] \in Transaction /\ Sound(tx[t])
        /\ tx[t].kind = "reset"
        /\ tx[t].phase \in {"checked", "sweeping"}
        /\ UNCHANGED <<postgres, opened, raced, orphaned>>
    BY <1>a DEF ResetRead, ResetDelete, InPhase, history
  <1>c. Quiet
    <2>1. tx[t].actor \in Actors
      BY <1>b DEF Transaction
    <2>2. QED
      BY <2>1, <1>0, QuietSteps DEF ResetRead, ResetDelete
  <1>d. \A u \in Txs \ {t} : sweep'[u] = sweep[u]
    <2>1. sweep \in [Txs -> Redis!SweepCall \cup {None}]
      BY <1>0 DEF TypeOK, Redis!TypeOK
    <2>2. QED
      BY <2>1 DEF ResetRead, ResetDelete, Redis!RevokeAllRead,
                  Redis!RevokeAllDelete
  <1>1. PICK p \in {"sweeping", "answered"} :
           /\ tx' = [tx EXCEPT ![t] = [tx[t] EXCEPT !.phase = p]]
           /\ ResetRead(t) =>
                 p = IF Redis!Members(tx[t].actor) = {} THEN "answered"
                                                        ELSE "sweeping"
           /\ ResetDelete(t) => tx[t].phase = "sweeping" /\ p = "answered"
    <2>1. CASE ResetRead(t) /\ ~ResetDelete(t)
      BY <2>1 DEF ResetRead
    <2>2. CASE ResetDelete(t) /\ ~ResetRead(t)
      BY <2>2 DEF ResetDelete, InPhase
    <2>3. ~(ResetRead(t) /\ ResetDelete(t))
      BY DEF ResetRead, ResetDelete, InPhase
    <2>4. QED
      BY <2>1, <2>2, <2>3
  <1> DEFINE r == [tx[t] EXCEPT !.phase = p]
  <1>2. /\ r \in Transaction /\ r # None
        /\ r.kind = tx[t].kind /\ r.actor = tx[t].actor
        /\ r.link = tx[t].link /\ r.ticket = tx[t].ticket
        /\ r.password = tx[t].password /\ r.phase = p
    BY <1>b, <1>a DEF Transaction, Phases
  <1>3. tx' = [tx EXCEPT ![t] = r]
    BY <1>1
  <1> HIDE DEF r
  <1>4. Sound(r)
    BY <1>2, <1>b DEF Sound
  <1>5. /\ InFlight' /\ Exclusive' /\ AddressReserved' /\ LinksHaveAccounts'
        /\ LinkAccounted' /\ LinkOpensOneSession' /\ OneAccountPerEmail'
    BY <1>2, <1>3, <1>4, <1>b, RequestsKept DEF Sound
  <1>6. OpenedWhenStarted' /\ OldPasswordPromised'
    \* As in SessionsKept, of which only the clause on resets is missing.
    <2>1. OpenedWhenStarted'
      BY <1>a, <1>b, <1>c DEF IInv, OpenedWhenStarted, Quiet, postgres
    <2>2. \A f \in Families : SessionOfOldPassword(f)' => SessionOfOldPassword(f)
      BY <1>b, <1>c DEF SessionOfOldPassword, Quiet, postgres
    <2>3. OldPasswordPromised'
      BY <1>b, <1>c, <2>2 DEF IInv, OldPasswordPromised, Quiet
    <2>4. QED
      BY <2>1, <2>3
  <1>7. ResetReaches'
    <2>1. \A f \in Families : \A a : Earlier(f, a)' => Earlier(f, a)
      BY <1>b, <1>c DEF Earlier, Quiet
    <2> SUFFICES ASSUME NEW u \in Txs, tx'[u] # None, tx'[u].kind = "reset",
                        NEW a, a = tx'[u].actor,
                        NEW f \in Families, Earlier(f, a)
                 PROVE  /\ tx'[u].phase = "sweeping" => f \in sweep'[u].due
                        /\ tx'[u].phase = "answered" => f \in promised'
      BY <2>1 DEF ResetReaches, Earlier
    <2>2. CASE u # t
      <3>1. tx'[u] = tx[u] /\ sweep'[u] = sweep[u]
        BY <2>2, <1>3, <1>d, <1>a DEF PostgresTypes
      <3>2. QED
        BY <3>1, <1>c DEF IInv, ResetReaches, Quiet
    <2>3. CASE u = t
      <3>1. tx'[u] = r /\ a = tx[t].actor
        BY <2>3, <1>2, <1>3, <1>a DEF PostgresTypes
      <3>2. CASE ResetRead(t)
        <4>1. f \in Redis!FamiliesOf(a)
          BY DEF Earlier, Redis!Live, IInv, OpenedWhenStarted, Redis!FamiliesOf
        <4>2. sweep \in [Txs -> Redis!SweepCall \cup {None}]
          BY <1>0 DEF TypeOK, Redis!TypeOK
        <4>3. CASE Redis!Members(a) = {}
          <5>1. p = "answered" /\ promised' = promised \cup Redis!FamiliesOf(a)
            BY <4>3, <3>1, <3>2, <1>1 DEF ResetRead, Redis!RevokeAllRead
          <5>2. QED
            BY <5>1, <4>1, <3>1, <1>2
        <4>4. CASE Redis!Members(a) # {}
          <5>1. p = "sweeping" /\ sweep'[t].due = Redis!FamiliesOf(a)
            BY <4>4, <4>2, <3>1, <3>2, <1>1 DEF ResetRead, Redis!RevokeAllRead
          <5>2. QED
            BY <5>1, <4>1, <3>1, <1>2, <2>3
        <4>5. QED
          BY <4>3, <4>4
      <3>3. CASE ResetDelete(t)
        <4>1. /\ p = "answered" /\ tx[t].phase = "sweeping"
              /\ promised' = promised \cup sweep[t].due
          BY <3>3, <1>1 DEF ResetDelete, Redis!RevokeAllDelete
        <4>2. f \in sweep[t].due
          BY <4>1, <3>1, <1>b DEF IInv, ResetReaches
        <4>3. QED
          BY <4>1, <4>2, <3>1, <1>2
      <3>4. QED
        BY <3>2, <3>3
    <2>4. QED
      BY <2>2, <2>3
  <1>8. QED
    BY <1>0, <1>5, <1>6, <1>7 DEF IInv

\* start_family for a login: the new session is nobody's earlier one, unless it
\* was opened with a password that is changing, and the first of its link
\* (_issue_tokens).
LEMMA IssueInv ==
  ASSUME IInv, NEW t \in Txs, NEW f \in Families, NEW j \in Jtis,
         IssueTokens(t, f, j)
  PROVE  IInv'
  <1>0. TypeOK' /\ TypeOK
    BY TypeInductive DEF Next, Step, IInv
  <1>a. /\ PostgresTypes /\ None \notin Transaction /\ None \notin Opening
        /\ \A u \in Txs : tx[u] # None => tx[u] \in Transaction /\ Sound(tx[u])
        /\ \A g \in Families : opened[g] # None =>
              opened[g] \in Opening /\ opened[g].actor \in Actors
    BY Facts, NoneAssumption DEF Opening
  <1>b. /\ tx[t] # None /\ tx[t] \in Transaction /\ Sound(tx[t])
        /\ tx[t].kind \in {"password", "magic", "oauth"}
        /\ tx[t].phase = "checked"
    BY <1>a DEF IssueTokens, InPhase
  <1> DEFINE a == tx[t].actor
             ticket == [family |-> f, jti |-> j, actor |-> a]
             r == [tx[t] EXCEPT !.phase = "started", !.ticket = ticket]
             o == [actor |-> a, link |-> tx[t].link, password |-> tx[t].password]
             hash == [jti |-> j, actor |-> a, expires |-> now + RefreshTTL]
  <1>1. /\ tx' = [tx EXCEPT ![t] = r]
        /\ opened' = [opened EXCEPT ![f] = o]
        /\ UNCHANGED <<users, links, orphaned>>
        /\ startedAt[f] = None
        /\ startedAt' = [startedAt EXCEPT ![f] = now]
        /\ fam' = [fam EXCEPT ![f] = hash]
        /\ UNCHANGED <<now, sweep, promised>>
        /\ raced \subseteq raced'
        /\ \A g \in Families : g \in raced' => g \in raced \cup {f}
        /\ tx[t].kind = "password"
           /\ (Resetting(a) \/ users[a].password # tx[t].password) => f \in raced'
    BY <1>a DEF IssueTokens, Redis!StartFamily, postgres
  <1>2. /\ r \in Transaction /\ r.kind = tx[t].kind /\ r.actor = a
        /\ r.link = tx[t].link /\ r.password = tx[t].password
        /\ r.phase = "started" /\ r.ticket = ticket
    <2>1. ticket \in Redis!Ticket
      BY <1>b DEF Redis!Ticket, Transaction
    <2>2. QED
      BY <2>1, <1>b DEF Transaction, Phases
  <1>3. /\ o.actor = a /\ o.link = tx[t].link /\ o.password = tx[t].password
        /\ hash.actor = a /\ ticket.family = f /\ a \in Actors
        /\ o # None /\ ticket # None
    <2>1. o \in Opening /\ ticket \in Redis!Ticket
      BY <1>b DEF Opening, Transaction, Redis!Ticket
    <2>2. QED
      BY <2>1, <1>b, NoneAssumption DEF Transaction
  <1>4. /\ fam \in [Families -> Redis!FamilyHash \cup {None}]
        /\ startedAt \in [Families -> Nat \cup {None}]
        /\ now \in Nat /\ None \notin Nat
    BY <1>0, NoneAssumption DEF TypeOK, Redis!TypeOK
  <1> HIDE DEF r, o, hash, ticket, a
  <1>5. /\ tx'[t] = r /\ r # None
        /\ \A u \in Txs \ {t} : tx'[u] = tx[u]
        /\ opened'[f] = o /\ opened[f] = None
        /\ \A g \in Families \ {f} :
              /\ opened'[g] = opened[g] /\ startedAt'[g] = startedAt[g]
              /\ fam'[g] = fam[g]
              /\ Redis!Live(g)' <=> Redis!Live(g)
        /\ fam'[f] = hash /\ startedAt'[f] # None
    BY <1>1, <1>2, <1>4, <1>a
       DEF PostgresTypes, Redis!Live, IInv, OpenedWhenStarted
  <1>6. /\ \A x : Inserts(x)' <=> Inserts(x)
        /\ \A x : Sound(x)' <=> Sound(x)
        /\ Inserts(r) <=> Inserts(tx[t])
        /\ Sound(r)
    BY <1>1, <1>2, <1>b DEF Inserts, Sound, a
  <1>7. InFlight'
    BY <1>5, <1>6, <1>a DEF InFlight
  <1>k. \A u \in Txs :
           /\ tx'[u] # None <=> tx[u] # None
           /\ tx[u] # None =>
                 /\ tx'[u].link = tx[u].link /\ tx'[u].kind = tx[u].kind
                 /\ tx'[u].actor = tx[u].actor
                 /\ tx'[u].phase # "spent" => tx[u].phase # "spent"
                 /\ Inserts(tx[u])' <=> Inserts(tx[u])
    <2>1. r.actor = tx[t].actor
      BY <1>2 DEF a
    <2>2. Inserts(tx[t])' <=> Inserts(tx[t])
      BY <1>1, <1>5, <1>2, <2>1 DEF Inserts
    <2>3. \A u \in Txs \ {t} : Inserts(tx[u])' <=> Inserts(tx[u])
      BY <1>1, <1>5 DEF Inserts
    <2>4. QED
      BY <1>b, <1>2, <1>5, <2>1, <2>2, <2>3
  <1>8. Exclusive'
    BY <1>k DEF IInv, Exclusive
  <1>9. AddressReserved' /\ LinksHaveAccounts' /\ OneAccountPerEmail'
    <2>1. AddressReserved'
      BY <1>1, <1>k DEF IInv, AddressReserved
    <2>2. LinksHaveAccounts' /\ OneAccountPerEmail'
      BY <1>1 DEF IInv, LinksHaveAccounts, OneAccountPerEmail
    <2>3. QED
      BY <2>1, <2>2
  <1>10. OpenedWhenStarted'
    BY <1>1, <1>3, <1>5, <1>b DEF IInv, OpenedWhenStarted, Sound, a
  <1>11. ResetReaches'
    <2> SUFFICES ASSUME NEW u \in Txs, tx'[u] # None, tx'[u].kind = "reset",
                        NEW b, b = tx'[u].actor,
                        NEW g \in Families, Earlier(g, b)'
                 PROVE  /\ tx'[u].phase = "sweeping" => g \in sweep'[u].due
                        /\ tx'[u].phase = "answered" => g \in promised'
      BY DEF ResetReaches, Earlier
    <2>1. u # t /\ tx[u] = tx'[u]
      BY <1>2, <1>5, <1>b
    <2>2. CASE g # f
      <3>1. Earlier(g, b)
        BY <2>2, <1>1, <1>5 DEF Earlier
      <3>2. QED
        BY <2>1, <3>1, <1>1 DEF IInv, ResetReaches
    <2>3. CASE g = f
      <3>1. /\ f \notin raced' /\ b = a /\ tx[t].password # None
        BY <2>3, <1>3, <1>5 DEF Earlier
      <3>2. tx[t].kind = "password"
        BY <3>1, <1>b DEF Sound
      <3>3. ~Resetting(a)
        BY <3>1, <3>2, <1>1
      <3>4. QED
        BY <3>1, <3>3, <2>1 DEF Resetting
    <2>4. QED
      BY <2>2, <2>3
  <1>12. OldPasswordPromised'
    <2> SUFFICES ASSUME NEW g \in Families, SessionOfOldPassword(g)'
                 PROVE  g \in raced' \cup promised'
      BY DEF OldPasswordPromised
    <2>1. CASE g # f
      <3>1. SessionOfOldPassword(g)
        BY <2>1, <1>1, <1>5 DEF SessionOfOldPassword
      <3>2. QED
        BY <3>1, <1>1 DEF IInv, OldPasswordPromised
    <2>2. CASE g = f
      <3>1. users[a].password # tx[t].password /\ tx[t].password # None
        BY <2>2, <1>1, <1>3, <1>5 DEF SessionOfOldPassword
      <3>2. tx[t].kind = "password"
        BY <3>1, <1>b DEF Sound
      <3>3. QED
        BY <2>2, <3>1, <3>2, <1>1
    <2>3. QED
      BY <2>1, <2>2
  <1>13. \A g \in Families \ {f} :
            opened[g] # None /\ opened[g].link # None
            /\ opened[g].link = tx[t].link => g \in orphaned
    BY <1>b DEF IInv, LinkAccounted, Exclusive, Sound
  <1>14. LinkOpensOneSession'
    BY <1>1, <1>3, <1>5, <1>13 DEF IInv, LinkOpensOneSession
  <1>15. LinkAccounted'
    <2> SUFFICES ASSUME NEW g \in Families, opened'[g] # None,
                        opened'[g].link # None, g \notin orphaned'
                 PROVE  /\ links[opened'[g].link] # None
                        /\ \/ links[opened'[g].link].consumed
                           \/ \E u \in Txs :
                                 /\ tx'[u] # None /\ tx'[u].link = opened'[g].link
                                 /\ tx'[u].phase \in {"started", "answered"}
                                 /\ tx'[u].kind = "magic"
                                 /\ tx'[u].ticket # None
                                 /\ tx'[u].ticket.family = g
      BY <1>1 DEF LinkAccounted
    <2>1. CASE g # f
      <3>1. opened'[g] = opened[g] /\ opened[g] # None
            /\ opened[g].link # None /\ g \notin orphaned
        BY <2>1, <1>1, <1>5
      <3>2. links[opened[g].link] # None
        BY <3>1 DEF IInv, LinkAccounted
      <3>3. ASSUME NEW u \in Txs, tx[u] # None, tx[u].link = opened[g].link,
                   tx[u].phase \in {"started", "answered"},
                   tx[u].kind = "magic", tx[u].ticket # None,
                   tx[u].ticket.family = g
            PROVE  tx'[u] = tx[u]
        BY <3>3, <1>5, <1>b
      <3>4. QED
        BY <3>1, <3>2, <3>3 DEF IInv, LinkAccounted
    <2>2. CASE g = f
      <3>1. opened'[g].link = tx[t].link
        BY <2>2, <1>3, <1>5
      <3>2. tx[t].kind = "magic"
        BY <3>1, <1>b DEF Sound
      <3>3. QED
        BY <2>2, <3>1, <3>2, <1>2, <1>3, <1>5, <1>b DEF Sound
    <2>3. QED
      BY <2>1, <2>2
  <1>16. QED
    BY <1>0, <1>7, <1>8, <1>9, <1>10, <1>11, <1>12, <1>14, <1>15 DEF IInv

\* What the commit of a request writes.
CommitRows(t) ==
    LET x == tx[t] IN
    /\ x.kind \in {"magic", "oauth", "reset"}
    /\ x.kind = "oauth" <=> users[x.actor] = None
    /\ x.kind = "oauth" <=> x.link = None
    /\ \A a \in Actors \ {x.actor} : users'[a] = users[a]
    /\ users'[x.actor] # None
    /\ x.kind = "magic" => users'[x.actor].password = users[x.actor].password
    /\ x.kind = "reset" => users'[x.actor].verified = users[x.actor].verified
    /\ \A l \in Links :
          /\ l # x.link => links'[l] = links[l]
          /\ l = x.link => /\ links[l] # None /\ links'[l] # None
                           /\ links'[l].consumed /\ ~links[l].consumed
                           /\ links[l].actor = x.actor
                           /\ links'[l].actor = x.actor

\* It writes its account and spends its link, and nothing else (session_scope).
LEMMA CommitWrites ==
  ASSUME IInv, NEW t \in Txs, Commit(t)
  PROVE  CommitRows(t)
  <1>a. /\ PostgresTypes
        /\ \A u \in Txs : tx[u] # None => tx[u] \in Transaction /\ Sound(tx[u])
        /\ \A l \in Links : links[l] # None =>
              /\ links[l] \in Link /\ links[l].actor \in Actors
              /\ users[links[l].actor] # None
        /\ \A a \in Actors : users[a] # None => users[a] \in Account
    BY Facts
  <1>b. /\ tx[t] # None /\ tx[t] \in Transaction /\ Sound(tx[t])
        /\ tx[t].phase = "answered"
    BY <1>a DEF Commit
  <1> USE NoneAssumption
  <1> DEFINE a == tx[t].actor
             l == tx[t].link
  <1>1. /\ a \in Actors /\ l \in Links \cup {None}
        /\ tx[t].kind \in {"magic", "oauth", "reset"}
    BY <1>b DEF Transaction, Sound
  <1>2. CASE tx[t].kind = "oauth"
    <2>1. NewAccount # None
      <3>1. NewAccount \in Account
        BY DEF NewAccount, Account
      <3>2. QED
        BY <3>1
    <2>2. /\ users' = [users EXCEPT ![a] = NewAccount]
          /\ links' = links /\ l = None /\ users[a] = None
      BY <1>2, <1>b DEF Commit, Sound, Inserts
    <2>3. QED
      BY <1>2, <2>1, <2>2, <1>1, <1>a DEF CommitRows, PostgresTypes
  <1>3. CASE tx[t].kind \in {"magic", "reset"}
    <2>1. /\ l # None /\ l \in Links /\ links[l] # None /\ links[l] \in Link
          /\ ~links[l].consumed /\ links[l].actor = a
          /\ users[a] # None /\ users[a] \in Account
      BY <1>3, <1>b, <1>1, <1>a DEF Sound
    <2> DEFINE row == [links[l] EXCEPT !.consumed = TRUE]
    <2>2. row \in Link /\ row # None /\ row.consumed /\ row.actor = a
      BY <2>1, LinkColumns
    <2>3. links' = [links EXCEPT ![l] = row]
      BY <2>1 DEF Commit
    <2> HIDE DEF row
    <2>4. \A m \in Links :
             /\ m # l => links'[m] = links[m]
             /\ m = l => links'[m] # None /\ links'[m].consumed
                         /\ links'[m].actor = a
      BY <2>2, <2>3, <1>a DEF PostgresTypes
    <2>5. CASE tx[t].kind = "magic"
      <3> DEFINE u == [users[a] EXCEPT !.verified = TRUE]
      <3>1. u \in Account /\ u # None /\ u.password = users[a].password
        BY <2>1, AccountColumns
      <3>2. users' = [users EXCEPT ![a] = u]
        BY <2>5 DEF Commit
      <3> HIDE DEF u
      <3>3. QED
        BY <2>1, <2>4, <2>5, <3>1, <3>2, <1>1, <1>a DEF CommitRows, PostgresTypes
    <2>6. CASE tx[t].kind = "reset"
      <3> DEFINE u == [users[a] EXCEPT !.password = tx[t].password]
      <3>1. users' = [users EXCEPT ![a] = u]
        BY <2>6 DEF Commit
      <3>2. u \in Account /\ u # None
        BY <2>1, <1>b DEF Account, Transaction
      <3>3. u.verified = users[a].verified
        BY <2>1, AccountColumns
      <3> HIDE DEF u
      <3>4. QED
        BY <2>1, <2>4, <2>6, <3>1, <3>2, <3>3, <1>1, <1>a
           DEF CommitRows, PostgresTypes
    <2>7. QED
      BY <1>3, <2>5, <2>6
  <1>4. QED
    BY <1>1, <1>2, <1>3

\* A commit publishes what its locks have kept for it (session_scope, in
\* complete_password_reset, login_with_magic_link and complete_oauth).
LEMMA CommitInv ==
  ASSUME IInv, NEW t \in Txs, Commit(t)
  PROVE  IInv'
  <1>0. TypeOK' /\ TypeOK
    BY TypeInductive DEF Next, Step, IInv
  <1>a. /\ PostgresTypes
        /\ \A u \in Txs : tx[u] # None => tx[u] \in Transaction /\ Sound(tx[u])
        /\ \A l \in Links : links[l] # None =>
              /\ links[l].actor \in Actors /\ users[links[l].actor] # None
        /\ \A f \in Families : opened[f] # None =>
              /\ opened[f].actor \in Actors
              /\ opened[f].link \in Links \cup {None}
    BY Facts DEF Opening
  <1>b. /\ tx[t] # None /\ tx[t].actor \in Actors /\ Sound(tx[t])
        /\ tx[t].phase = "answered"
        /\ tx'[t] = None
        /\ \A u \in Txs \ {t} : tx'[u] = tx[u]
        /\ UNCHANGED <<redis, opened, raced, orphaned>>
    BY <1>a DEF Commit, PostgresTypes, Transaction, history
  <1>c. CommitRows(t)
    BY CommitWrites
  <1>d. /\ UNCHANGED <<startedAt, promised, fam, now, sweep>>
        /\ \A f \in Families : Redis!Live(f)' <=> Redis!Live(f)
    BY <1>b DEF redis, Redis!Live
  <1>e. \A u \in Txs \ {t} : tx[u] # None =>
           /\ Inserts(tx[u])' <=> Inserts(tx[u])
           /\ tx[u].link = None \/ tx[u].link # tx[t].link
    <2> SUFFICES ASSUME NEW u \in Txs, u # t, tx[u] # None
                 PROVE  /\ Inserts(tx[u])' <=> Inserts(tx[u])
                        /\ tx[u].link = None \/ tx[u].link # tx[t].link
      OBVIOUS
    <2>1. tx[u].link = None \/ tx[u].link # tx[t].link
      BY <1>b DEF IInv, Exclusive
    <2>2. tx[u].actor \in Actors
      BY <1>a DEF Transaction
    <2>3. Inserts(tx[u]) => tx[u].actor # tx[t].actor
      BY <1>b, <1>c DEF IInv, Exclusive, Inserts, CommitRows
    <2>4. QED
      BY <1>b, <2>1, <2>2, <2>3, <1>c DEF Inserts, CommitRows
  <1>1. InFlight'
    <2> SUFFICES ASSUME NEW u \in Txs, u # t, tx[u] # None
                 PROVE  Sound(tx[u])'
      BY <1>b DEF InFlight
    <2>1. Sound(tx[u]) /\ tx[u].actor \in Actors
          /\ tx[u].link \in Links \cup {None}
      BY <1>a DEF Transaction
    <2>2. QED
      BY <2>1, <1>b, <1>c, <1>e DEF Sound, CommitRows
  <1>2. Exclusive'
    BY <1>b, <1>e DEF IInv, Exclusive
  <1>3. AddressReserved'
    <2> SUFFICES ASSUME NEW u \in Txs, u # t, tx[u] # None, Inserts(tx[u]),
                        NEW b \in Actors, users'[b] # None
                 PROVE  Email[b] # Email[tx[u].actor]
      BY <1>b, <1>e DEF AddressReserved
    <2>1. CASE users[b] # None
      BY <2>1 DEF IInv, AddressReserved
    <2>2. CASE users[b] = None
      BY <2>2, <1>b, <1>c DEF CommitRows, IInv, Exclusive, Inserts
    <2>3. QED
      BY <2>1, <2>2
  <1>4. LinksHaveAccounts'
    BY <1>a, <1>c DEF LinksHaveAccounts, CommitRows
  <1>5. OpenedWhenStarted'
    BY <1>a, <1>b, <1>c, <1>d DEF IInv, OpenedWhenStarted, CommitRows
  <1>6. ResetReaches'
    BY <1>b, <1>d DEF IInv, ResetReaches, Earlier
  <1>7. OldPasswordPromised'
    <2> SUFFICES ASSUME NEW f \in Families, SessionOfOldPassword(f)', f \notin raced
                 PROVE  f \in promised
      BY <1>b, <1>d DEF OldPasswordPromised
    <2>1. /\ Redis!Live(f) /\ opened[f] # None /\ opened[f].password # None
          /\ opened[f].actor \in Actors /\ users[opened[f].actor] # None
          /\ users'[opened[f].actor].password # opened[f].password
      BY <1>a, <1>b, <1>d DEF SessionOfOldPassword, IInv, OpenedWhenStarted
    <2>2. CASE opened[f].actor # tx[t].actor \/ tx[t].kind # "reset"
      <3>1. SessionOfOldPassword(f)
        BY <2>1, <2>2, <1>c DEF SessionOfOldPassword, CommitRows
      <3>2. QED
        BY <3>1 DEF IInv, OldPasswordPromised
    <2>3. CASE opened[f].actor = tx[t].actor /\ tx[t].kind = "reset"
      <3>1. Earlier(f, tx[t].actor)
        BY <2>1, <2>3 DEF Earlier
      <3>2. QED
        BY <3>1, <2>3, <1>b DEF IInv, ResetReaches
    <2>4. QED
      BY <2>2, <2>3
  <1>8. LinkOpensOneSession'
    BY <1>b DEF IInv, LinkOpensOneSession
  <1>9. LinkAccounted'
    <2> SUFFICES ASSUME NEW f \in Families, opened[f] # None,
                        opened[f].link # None, f \notin orphaned
                 PROVE  /\ links'[opened[f].link] # None
                        /\ \/ links'[opened[f].link].consumed
                           \/ \E u \in Txs :
                                 /\ tx'[u] # None /\ tx'[u].link = opened[f].link
                                 /\ tx'[u].phase \in {"started", "answered"}
                                 /\ tx'[u].kind = "magic"
                                 /\ tx'[u].ticket # None
                                 /\ tx'[u].ticket.family = f
      BY <1>b DEF LinkAccounted
    <2>1. opened[f].link \in Links
      BY <1>a
    <2>2. CASE opened[f].link = tx[t].link
      BY <2>1, <2>2, <1>c DEF CommitRows
    <2>3. CASE opened[f].link # tx[t].link
      <3>1. links'[opened[f].link] = links[opened[f].link]
        BY <2>1, <2>3, <1>c DEF CommitRows
      <3>2. QED
        BY <3>1, <2>3, <1>b DEF IInv, LinkAccounted
    <2>4. QED
      BY <2>2, <2>3
  <1>10. OneAccountPerEmail'
    <2> SUFFICES ASSUME NEW a \in Actors, NEW b \in Actors,
                        users'[a] # None, users'[b] # None, Email[a] = Email[b]
                 PROVE  a = b
      BY DEF OneAccountPerEmail
    <2>1. CASE users[a] # None /\ users[b] # None
      BY <2>1 DEF IInv, OneAccountPerEmail
    <2>2. CASE users[a] = None \/ users[b] = None
      <3>1. Inserts(tx[t]) /\ tx[t].actor \in {a, b}
        BY <2>2, <1>c DEF CommitRows, Inserts
      <3>2. \A c \in Actors : users[c] # None => Email[c] # Email[tx[t].actor]
        BY <3>1, <1>b DEF IInv, AddressReserved
      <3>3. QED
        BY <3>1, <3>2, <2>2, <1>c DEF CommitRows
    <2>3. QED
      BY <2>1, <2>2
  <1>11. QED
    BY <1>0, <1>1, <1>2, <1>3, <1>4, <1>5, <1>6, <1>7, <1>8, <1>9, <1>10 DEF IInv

\* Logout, the discovery of a replay, the clock, and a stutter: the requests in
\* flight, and the rows, are not touched (logout, refresh_session).
LEMMA OtherInv ==
  ASSUME IInv, [Next]_vars,
         \/ \E k \in jwts : RefreshReused(k) \/ Logout(k)
         \/ Redis!Tick /\ UNCHANGED <<postgres, tx, history>>
         \/ UNCHANGED vars
  PROVE  IInv'
  <1>0. TypeOK' /\ TypeOK
    BY TypeInductive DEF IInv
  <1>1. UNCHANGED <<postgres, tx, history>> /\ sweep' = sweep
    BY DEF RefreshReused, Logout, vars, redis, Redis!RotateReused,
           Redis!RevokeFamily, Redis!Tick
  <1>2. Quiet
    BY <1>0, QuietSteps DEF RefreshReused, Logout, vars
  <1>3. OpenedWhenStarted' /\ ResetReaches' /\ OldPasswordPromised'
    BY <1>1, <1>2, SessionsKept DEF history, postgres
  <1>4. /\ UNCHANGED <<users, links, tx, opened, raced, orphaned>>
        /\ \A t \in Txs : /\ Inserts(tx[t])' <=> Inserts(tx[t])
                          /\ Sound(tx[t])' <=> Sound(tx[t])
    BY <1>1 DEF postgres, history, Inserts, Sound
  <1>5. InFlight' /\ Exclusive' /\ AddressReserved'
    BY <1>4 DEF IInv, InFlight, Exclusive, AddressReserved
  <1>6. LinksHaveAccounts' /\ LinkAccounted' /\ LinkOpensOneSession'
        /\ OneAccountPerEmail'
    BY <1>4 DEF IInv, LinksHaveAccounts, LinkAccounted, LinkOpensOneSession,
                OneAccountPerEmail
  <1>7. QED
    BY <1>0, <1>3, <1>5, <1>6 DEF IInv

\* No step of the flows breaks the invariant (identity/service.py).
LEMMA InvInductive == IInv /\ [Next]_vars => IInv'
  <1> SUFFICES ASSUME IInv, [Next]_vars PROVE IInv'
    OBVIOUS
  <1>1. ASSUME NEW t \in Txs, Step(t) PROVE IInv'
    <2>1. CASE \E f \in Families, j \in Jtis : IssueTokens(t, f, j)
      BY <2>1, IssueInv
    <2>2. CASE Answer(t) \/ RefreshAnswer(t) \/ Rollback(t)
      BY <2>2, AnswerInv
    <2>3. CASE ResetRead(t) \/ ResetDelete(t)
      BY <2>3, ResetInv
    <2>4. CASE Commit(t)
      BY <2>4, CommitInv
    <2>5. CASE \/ \E a \in Actors, p \in Passwords : LoginPassword(t, a, p)
               \/ \E l \in Links : LoginMagicLink(t, l)
               \/ \E a \in Actors : OAuthLinked(t, a) \/ OAuthFirst(t, a)
               \/ \E l \in Links, p \in Passwords : ResetLink(t, l, p)
               \/ \E k \in jwts, j \in Jtis : RefreshRotate(t, k, j)
      BY <2>5, BeginInv
    <2>6. CASE MagicUser(t) \/ ResetUser(t)
      BY <2>6, UserInv
    <2>7. QED
      BY <1>1, <2>1, <2>2, <2>3, <2>4, <2>5, <2>6 DEF Step
  <1>2. CASE \/ \E a \in Actors, l \in Links :
                  \/ \E p \in Passwords : Register(a, l, p)
                  \/ \E purpose \in {"login", "reset"} : RequestLink(a, l, purpose)
             \/ \E l \in Links : ExpireLink(l) \/ VerifyEmail(l)
             \/ \E a \in Actors : Disable(a)
    BY <1>2, OneStepInv
  <1>3. CASE \/ \E k \in jwts : RefreshReused(k) \/ Logout(k)
             \/ Redis!Tick /\ UNCHANGED <<postgres, tx, history>>
             \/ UNCHANGED vars
    BY <1>3, OtherInv
  <1>4. QED
    BY <1>1, <1>2, <1>3 DEF Next

\* An empty installation satisfies it.
LEMMA InitInv == Init => IInv
  <1> SUFFICES ASSUME Init PROVE IInv
    OBVIOUS
  <1>1. TypeOK
    <2>1. Redis!TypeOK
      BY DEF Init, Redis!Init, Redis!TypeOK, Redis!IndexSet
    <2>2. QED
      BY <2>1 DEF Init, TypeOK
  <1>2. /\ \A t \in Txs : tx[t] = None
        /\ \A a \in Actors : users[a] = None
        /\ \A l \in Links : links[l] = None
        /\ \A f \in Families : opened[f] = None /\ fam[f] = None /\ startedAt[f] = None
    BY DEF Init, Redis!Init
  <1>3. QED
    BY <1>1, <1>2
       DEF IInv, InFlight, Exclusive, AddressReserved, LinksHaveAccounts,
           OpenedWhenStarted, ResetReaches, OldPasswordPromised,
           SessionOfOldPassword, LinkAccounted, LinkOpensOneSession,
           OneAccountPerEmail

\* The invariant holds in every state of the flows.
THEOREM Invariance == Spec => []IInv
  BY InitInv, InvInductive, PTL DEF Spec

\* Redis and Postgres hold what their types say, whatever requests overlap or
\* fail (identity/models.py, the keys of identity/refresh.py).
THEOREM TypeCorrect == Spec => []TypeOK
  BY Invariance, PTL DEF IInv

\* A login link opens one session (login_with_magic_link, magic_link.consume).
THEOREM LinksOpenOneSession == Spec => []LinkOpensOneSession
  BY Invariance, PTL DEF IInv

\* An address belongs to one account (register_user, complete_oauth).
THEOREM AddressesUnique == Spec => []OneAccountPerEmail
  BY Invariance, PTL DEF IInv

\* The flows drive Redis only as RefreshFamilies describes (the calls of
\* refresh_module in identity/service.py).
THEOREM FlowsUseFamilies == Spec => UsesRefreshFamilies
  <1>1. Init => Redis!Init
    BY DEF Init
  <1>2. QED
    BY <1>1, TypeCorrect, RedisStep, PTL DEF Spec, UsesRefreshFamilies, Redis!Spec

\* An account changes by the links that are spent for it: by verify_email, or by
\* the commit of a login link or a reset.
LEMMA EffectsSpendStep ==
  ASSUME IInv, [Next]_vars
  PROVE  /\ \A a \in Actors :
               users[a] # None /\ (users'[a].password # users[a].password
                                   \/ users'[a].verified # users[a].verified) =>
                   \E l \in Links : /\ links[l] # None /\ links[l].actor = a
                                    /\ ~links[l].consumed /\ links'[l].consumed
         /\ \A l \in Links :
               links[l] # None /\ links[l].consumed => links'[l].consumed
  <1> DEFINE spends ==
         /\ \A a \in Actors :
               users[a] # None /\ (users'[a].password # users[a].password
                                   \/ users'[a].verified # users[a].verified) =>
                   \E l \in Links : /\ links[l] # None /\ links[l].actor = a
                                    /\ ~links[l].consumed /\ links'[l].consumed
         /\ \A l \in Links :
               links[l] # None /\ links[l].consumed => links'[l].consumed
  <1>a. /\ PostgresTypes
        /\ \A l \in Links : links[l] # None =>
              /\ links[l] \in Link /\ links[l].actor \in Actors
              /\ users[links[l].actor] # None
        /\ \A a \in Actors : users[a] # None => users[a] \in Account
        /\ \A t \in Txs : tx[t] # None => tx[t] \in Transaction /\ Sound(tx[t])
    BY Facts
  <1> USE DEF PostgresTypes
  <1>1. ASSUME NEW t \in Txs, Commit(t) PROVE spends
    <2>1. CommitRows(t)
      BY <1>1, CommitWrites
    <2>2. tx[t].actor \in Actors /\ tx[t].link \in Links \cup {None}
      BY <1>1, <1>a DEF Commit, Transaction
    <2>3. QED
      BY <2>1, <2>2 DEF CommitRows
  <1>2. ASSUME NEW l \in Links, VerifyEmail(l) PROVE spends
    <2> DEFINE a == links[l].actor
               u == [users[a] EXCEPT !.verified = TRUE]
               r == [links[l] EXCEPT !.consumed = TRUE]
    <2>1. /\ links[l] # None /\ ~links[l].consumed
          /\ users' = [users EXCEPT ![a] = u]
          /\ links' = [links EXCEPT ![l] = r]
      BY <1>2 DEF VerifyEmail, Redeemable
    <2>2. r.consumed
      BY <2>1, <1>a, LinkColumns
    <2> HIDE DEF u, r
    <2>3. QED
      BY <2>1, <2>2, <1>a
  <1>3. ASSUME NEW l \in Links, ExpireLink(l) PROVE spends
    <2> DEFINE r == [links[l] EXCEPT !.expired = TRUE]
    <2>1. ~links[l].consumed /\ users' = users /\ links' = [links EXCEPT ![l] = r]
      BY <1>3 DEF ExpireLink
    <2> HIDE DEF r
    <2>2. QED
      BY <2>1, <1>a
  <1>4. ASSUME NEW a \in Actors, NEW l \in Links,
               NEW p \in Passwords, Register(a, l, p)
        PROVE  spends
    <2> DEFINE u == [password |-> p, verified |-> FALSE,
                     linked |-> FALSE, deleted |-> FALSE]
               r == [purpose |-> "verify", actor |-> a,
                     consumed |-> FALSE, expired |-> FALSE]
    <2>1. /\ users[a] = None /\ links[l] = None
          /\ users' = [users EXCEPT ![a] = u]
          /\ links' = [links EXCEPT ![l] = r]
      BY <1>4 DEF Register, FreshActor
    <2> HIDE DEF u, r
    <2>2. QED
      BY <2>1, <1>a
  <1>5. ASSUME NEW a \in Actors, NEW l \in Links,
               NEW purpose \in {"login", "reset"}, RequestLink(a, l, purpose)
        PROVE  spends
    <2> DEFINE r == [purpose |-> purpose, actor |-> a,
                     consumed |-> FALSE, expired |-> FALSE]
    <2>1. links[l] = None /\ users' = users /\ links' = [links EXCEPT ![l] = r]
      BY <1>5 DEF RequestLink
    <2> HIDE DEF r
    <2>2. QED
      BY <2>1, <1>a
  <1>6. ASSUME NEW a \in Actors, Disable(a) PROVE spends
    <2> DEFINE u == [users[a] EXCEPT !.deleted = TRUE]
    <2>1. users[a] # None /\ links' = links /\ users' = [users EXCEPT ![a] = u]
      BY <1>6 DEF Disable, Active
    <2>2. u.password = users[a].password /\ u.verified = users[a].verified
      BY <2>1, <1>a, AccountColumns
    <2> HIDE DEF u
    <2>3. QED
      BY <2>1, <2>2, <1>a
  <1>7. CASE UNCHANGED postgres
    BY <1>7 DEF postgres
  <1>8. QED
    BY <1>1, <1>2, <1>3, <1>4, <1>5, <1>6, <1>7
       DEF Next, Step, vars, LoginPassword, LoginMagicLink, MagicUser,
           OAuthLinked, OAuthFirst, ResetLink, ResetUser, Open, Advance,
           IssueTokens, RefreshRotate, Answer, RefreshAnswer, ResetRead, ResetDelete, Rollback, RefreshReused, Logout

\* "the database transaction sets consumed_at and applies the side effect
\* together" (openspec/specs/session-tokens/spec.md:80).
THEOREM EffectsSpend == Spec => EffectsSpendLinks
  <1>1. IInv /\ [Next]_vars =>
          [/\ \A a \in Actors :
                 users[a] # None /\ (users'[a].password # users[a].password
                                     \/ users'[a].verified # users[a].verified) =>
                     \E l \in Links : /\ links[l] # None /\ links[l].actor = a
                                      /\ ~links[l].consumed /\ links'[l].consumed
           /\ \A l \in Links :
                 links[l] # None /\ links[l].consumed => links'[l].consumed]_vars
    BY EffectsSpendStep
  <1>2. QED
    BY <1>1, Invariance, PTL DEF Spec, EffectsSpendLinks

\* A password reset ends the sessions opened before its sweep that
\* revoke_all_for_actor can find: what is proved of the refresh families and
\* what is proved of the flows, together (complete_password_reset).
THEOREM ResetEnds == Spec => []ResetEndsEarlierSessions
  <1>1. Spec => RP!Spec
    <2>1. Init => RP!Init
      BY SameRedis DEF Init
    <2>2. TypeOK /\ [Next]_vars => [RP!Next]_(RP!vars)
      BY RedisStep, SameRedis
    <2>3. QED
      BY <2>1, <2>2, TypeCorrect, PTL DEF Spec, RP!Spec
  <1>2. RP!Spec => [](RP!IndexCovers /\ RP!RevokeAllReach)
    <2>1. RefreshTTL \in Nat \ {0} /\ Horizon \in Nat
      BY TimeAssumption
    <2>2. /\ None \notin RP!FamilyHash
          /\ None \notin RP!SweepCall
          /\ None \notin Nat
          /\ None \notin Jtis
      BY NoneAssumption
         DEF RP!FamilyHash, RP!SweepCall, Redis!FamilyHash, Redis!SweepCall
    <2>3. QED
      BY <2>1, <2>2, RP!RevokeAllReaches
  <1>3. IInv /\ RP!RevokeAllReach => ResetEndsEarlierSessions
    BY DEF IInv, OldPasswordPromised, ResetEndsEarlierSessions,
           SessionOfOldPassword, RP!RevokeAllReach, RP!Live, Redis!Live
  <1>4. QED
    BY <1>1, <1>2, <1>3, Invariance, PTL
=============================================================================
