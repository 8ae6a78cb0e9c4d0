------------------------- MODULE ProjectSharesProofs -------------------------
(***************************************************************************)
(* For every number of actors, shares and concurrent requests: a guest's   *)
(* capability stays linked to its share, a share makes one guest, and a    *)
(* revocation that was in time is final.                                   *)
(***************************************************************************)
EXTENDS ProjectShares, TLAPS

\* A request that has updated the row of share s and not ended.
HoldsShare(x, s) == x.share = s /\ (x.kind = "accept" \/ x.stamps)

\* What an open request may count on, whatever the others commit.
SoundAccept(x) ==
    /\ x.share \in Shares /\ x.actor \in Actors
    /\ x.phase \in {"consumed", "placed", "housed", "outsider", "ready"}
    /\ shares[x.share] # None /\ shares[x.share].by = None
    /\ x.scan = {} /\ x.revokes = {}
    /\ \A c \in x.grants : c.share = x.share /\ c.actor = x.actor

\* A revocation that stamps found the share pending; one that has capabilities
\* to revoke found it accepted, and the link it read is still there.
SoundRevoke(x) ==
    /\ x.phase \in {"admitted", "pending", "accepted", "revoking", "ready"}
    /\ x.phase = "admitted" => x.actor = None
    /\ x.phase # "admitted" => x.share \in Shares /\ shares[x.share] # None
    /\ x.stamps => x.phase = "ready" /\ x.actor = None
    /\ x.phase = "pending" => x.actor = None
    /\ x.phase \in {"accepted", "revoking"} => x.actor # None
    /\ x.actor # None => /\ shares[x.share].by # None
                         /\ shares[x.share].grantee = x.actor
    /\ x.phase = "revoking" => \A c \in caps : c.share = x.share => c \in x.scan
    /\ x.phase = "ready" /\ x.actor # None =>
          \A c \in caps : c.share = x.share => c \in x.revokes
    /\ x.phase = "ready" /\ x.actor = None /\ ~x.stamps =>
          shares[x.share].by # None /\ shares[x.share].grantee = None

Sound(x) ==
    /\ x.kind = "accept" => SoundAccept(x)
    /\ x.kind = "revoke" => SoundRevoke(x)
    /\ x.kind # "accept" => x.grants = {}
    /\ x.kind # "revoke" => ~x.stamps
    /\ x.kind = "remove" /\ x.phase # "admitted" => x.actor \in Actors

Open(t) == tx[t] # None

InFlight == \A t \in Txs : Open(t) => Sound(tx[t])

\* The row locks.
Exclusive ==
    \A t, u \in Txs : t # u /\ Open(t) /\ Open(u) =>
        \A s \in Shares : ~(HoldsShare(tx[t], s) /\ HoldsShare(tx[u], s))

\* A share is linked to a capability, or sealed, only once it is consumed.
ConsumedFirst ==
    \A s \in Shares :
        shares[s] # None /\ shares[s].by = None => shares[s].grantee = None

SealedConsumed ==
    \A s \in sealed : shares[s] # None /\ shares[s].by # None

IInv ==
    /\ TypeOK
    /\ InFlight
    /\ Exclusive
    /\ ConsumedFirst
    /\ SealedConsumed
    /\ GrantIsLinked
    /\ RevocationSticks

-----------------------------------------------------------------------------
\* A request that starts is well formed.
LEMMA RequestFacts ==
    ASSUME NEW kind \in Kinds, NEW phase \in Phases
    PROVE  Request(kind, phase) \in Transaction
  BY DEF Request, Transaction

\* The record of an open request.
LEMMA OpenFacts ==
    ASSUME IInv, NEW t \in Txs, Open(t)
    PROVE  /\ tx[t] \in Transaction
           /\ Sound(tx[t])
           /\ \A s \in Shares : shares[s] # None => shares[s] \in Row
  BY DEF IInv, InFlight, Open, TypeOK

\* A step inside a request keeps the invariant, if the request stays sound
\* and takes no row another one holds.
LEMMA AdvanceInv ==
    ASSUME IInv, NEW t \in Txs, NEW x \in Transaction, Advance(t, x),
           Sound(x),
           \A u \in Txs \ {t} : Open(u) =>
               \A s \in Shares : ~(HoldsShare(x, s) /\ HoldsShare(tx[u], s))
    PROVE  IInv'
  <1>1. /\ tx' = [tx EXCEPT ![t] = x]
        /\ org' = org /\ project' = project /\ members' = members
        /\ shares' = shares /\ caps' = caps
        /\ revoked' = revoked /\ sealed' = sealed
    BY DEF Advance, rows
  <1>2. /\ tx'[t] = x
        /\ \A u \in Txs \ {t} : tx'[u] = tx[u]
    BY <1>1 DEF IInv, TypeOK
  <1>3. TypeOK'
    BY <1>1 DEF IInv, TypeOK
  <1>4. InFlight'
    <2> SUFFICES ASSUME NEW u \in Txs, Open(u)' PROVE Sound(tx[u])'
      BY DEF InFlight
    <2>1. Sound(tx'[u])
      BY <1>2 DEF IInv, InFlight, Open
    <2>2. QED
      BY <2>1, <1>1 DEF Sound, SoundAccept, SoundRevoke
  <1>5. Exclusive'
    BY <1>2 DEF IInv, Exclusive, Open, HoldsShare
  <1>6. /\ ConsumedFirst' /\ SealedConsumed' /\ GrantIsLinked'
        /\ RevocationSticks'
    BY <1>1 DEF IInv, ConsumedFirst, SealedConsumed, GrantIsLinked,
                RevocationSticks
  <1>7. QED
    BY <1>3, <1>4, <1>5, <1>6 DEF IInv

-----------------------------------------------------------------------------
\* A statement of a request that neither accepts nor stamps anything.
LEMMA QuietStatement ==
    ASSUME IInv, NEW t \in Txs, NEW x \in Transaction, Advance(t, x),
           x.kind \in {"share", "remove", "delete"},
           x.grants = {}, ~x.stamps,
           x.kind = "remove" /\ x.phase # "admitted" => x.actor \in Actors
    PROVE  IInv'
  <1>1. Sound(x) /\ \A r : ~HoldsShare(x, r)
    BY DEF Sound, HoldsShare
  <1>2. QED
    BY <1>1, AdvanceInv

\* The gates.
LEMMA AdmitInv ==
    ASSUME IInv, NEW t \in Txs, NEW kind \in Kinds, Admit(t, kind)
    PROVE  IInv'
  <1> DEFINE x == Request(kind, "admitted")
  <1>1. /\ Advance(t, x) /\ kind \in {"share", "revoke", "remove", "delete"}
        /\ x \in Transaction
    BY RequestFacts DEF Admit, Phases
  <1>2. Sound(x) /\ \A r : ~HoldsShare(x, r)
    BY <1>1 DEF Sound, SoundRevoke, Request, HoldsShare
  <1>3. QED
    BY <1>1, <1>2, AdvanceInv

\* The statements of accept.
LEMMA AcceptInv ==
    ASSUME IInv, NEW t \in Txs, Accept(t)
    PROVE  IInv'
  <1>1. ASSUME NEW s \in Shares, NEW a \in Actors, AcceptConsume(t, s, a)
        PROVE  IInv'
    <2> DEFINE x == [Request("accept", "consumed") EXCEPT !.share = s,
                                                          !.actor = a]
    <2>0. Request("accept", "consumed") \in Transaction
      BY RequestFacts DEF Kinds, Phases
    <2>1. x \in Transaction
      BY <2>0 DEF Transaction
    <2>2. Sound(x)
      BY <1>1 DEF Sound, SoundAccept, Request, AcceptConsume, Redeemable
    <2>3. \A u \in Txs \ {t} : Open(u) =>
              \A r \in Shares : ~(HoldsShare(x, r) /\ HoldsShare(tx[u], r))
      BY <1>1 DEF AcceptConsume, ShareLocked, Others, HoldsShare, Open, Request
    <2>4. Advance(t, x)
      BY <1>1 DEF AcceptConsume
    <2>5. QED
      BY <2>1, <2>2, <2>3, <2>4, AdvanceInv
  <1>2. CASE \/ AcceptProject(t) \/ AcceptOrg(t) \/ AcceptMember(t)
             \/ AcceptMint(t)
    <2>1. /\ Open(t) /\ tx[t] \in Transaction
          /\ tx[t].kind = "accept" /\ SoundAccept(tx[t])
      BY <1>2, OpenFacts DEF AcceptProject, AcceptOrg, AcceptMember, AcceptMint,
                             InPhase, Open, Sound
    <2>2. PICK p \in {"placed", "housed", "outsider", "ready"},
               g \in {tx[t].grants,
                      {[share |-> tx[t].share, actor |-> tx[t].actor]}} :
              Advance(t, [tx[t] EXCEPT !.phase = p, !.grants = g])
      <3>1. \A p : [tx[t] EXCEPT !.phase = p]
                   = [tx[t] EXCEPT !.phase = p, !.grants = tx[t].grants]
        BY <2>1 DEF Transaction
      <3>2. QED
        BY <1>2, <3>1 DEF AcceptProject, AcceptOrg, AcceptMember, AcceptMint
    <2> DEFINE x == [tx[t] EXCEPT !.phase = p, !.grants = g]
    <2>3. /\ g \in SUBSET Cap
          /\ \A c \in g : c.share = tx[t].share /\ c.actor = tx[t].actor
      <3>1. tx[t].grants \in SUBSET Cap
        BY <2>1 DEF Transaction
      <3>2. QED
        BY <2>1, <3>1 DEF SoundAccept, Cap
    <2>4. x \in Transaction
      BY <2>1, <2>3 DEF Transaction, Phases
    <2>5. Sound(x)
      <3>1. ~tx[t].stamps
        BY <2>1, OpenFacts DEF Sound
      <3>2. QED
        BY <2>1, <2>3, <3>1 DEF Transaction, Sound, SoundAccept
    <2>6. \A u \in Txs \ {t} : Open(u) =>
              \A r \in Shares : ~(HoldsShare(x, r) /\ HoldsShare(tx[u], r))
      BY <2>1 DEF IInv, Exclusive, HoldsShare, Transaction
    <2>7. QED
      BY <2>2, <2>4, <2>5, <2>6, AdvanceInv
  <1>3. QED
    BY <1>1, <1>2 DEF Accept

\* The statements of revoke, the share's read included.
LEMMA RevokeShareInv ==
    ASSUME IInv, NEW t \in Txs,
           \/ \E s \in Shares : RevokeRead(t, s)
           \/ RevokePending(t) \/ RevokeAccepted(t)
    PROVE  IInv'
  <1>1. ASSUME NEW s \in Shares, RevokeRead(t, s) PROVE IInv'
    <2> DEFINE p == IF shares[s].by = None THEN "pending"
                    ELSE IF shares[s].grantee = None THEN "ready"
                    ELSE "accepted"
               g == shares[s].grantee
               x == [tx[t] EXCEPT !.share = s, !.actor = g, !.phase = p]
    <2>1. /\ Open(t) /\ tx[t] \in Transaction /\ Sound(tx[t])
          /\ tx[t].kind = "revoke" /\ tx[t].phase = "admitted"
          /\ shares[s] # None /\ Advance(t, x)
      BY <1>1, OpenFacts DEF RevokeRead, InPhase, Open
    <2>2. ~tx[t].stamps /\ tx[t].grants = {}
      BY <2>1 DEF Sound, SoundRevoke
    <2>3. shares[s] \in Row /\ g \in Actors \cup {None}
      BY <2>1 DEF IInv, TypeOK, Row
    <2>4. /\ p \in {"pending", "accepted", "ready"}
          /\ p = "pending" <=> shares[s].by = None
          /\ p = "pending" => g = None
          /\ p = "accepted" <=> g # None
      BY <2>1 DEF IInv, ConsumedFirst
    <2> HIDE DEF p
    <2>5. x \in Transaction
      BY <2>1, <2>3, <2>4 DEF Transaction, Phases
    <2>6. /\ x.kind = "revoke" /\ x.share = s /\ x.actor = g /\ x.phase = p
          /\ ~x.stamps /\ x.grants = {}
      BY <2>1, <2>2 DEF Transaction
    <2> HIDE DEF x
    <2>7. Sound(x) /\ \A r : ~HoldsShare(x, r)
      BY <2>1, <2>4, <2>6 DEF Sound, SoundRevoke, HoldsShare
    <2>8. QED
      BY <2>1, <2>5, <2>7, AdvanceInv
  <1>2. CASE RevokePending(t)
    <2> DEFINE x == [tx[t] EXCEPT !.phase = "ready", !.stamps = TRUE]
    <2>1. /\ Open(t) /\ tx[t] \in Transaction /\ Sound(tx[t])
          /\ tx[t].kind = "revoke" /\ tx[t].phase = "pending"
      BY <1>2, OpenFacts DEF RevokePending, InPhase, Open
    <2>2. x \in Transaction /\ Sound(x)
      BY <2>1 DEF Transaction, Phases, Sound, SoundRevoke
    <2>3. \A u \in Txs \ {t} : Open(u) =>
              \A r \in Shares : ~(HoldsShare(x, r) /\ HoldsShare(tx[u], r))
      BY <1>2, <2>1 DEF RevokePending, ShareLocked, Others, HoldsShare, Open,
                        Transaction
    <2>4. Advance(t, x)
      BY <1>2 DEF RevokePending
    <2>5. QED
      BY <2>2, <2>3, <2>4, AdvanceInv
  <1>3. CASE RevokeAccepted(t)
    <2> DEFINE s == {c \in caps : /\ c.share = tx[t].share
                                  /\ c.actor = tx[t].actor}
               x == [tx[t] EXCEPT !.phase = "revoking", !.scan = s]
    <2>1. /\ Open(t) /\ tx[t] \in Transaction /\ Sound(tx[t])
          /\ tx[t].kind = "revoke" /\ tx[t].phase = "accepted"
      BY <1>3, OpenFacts DEF RevokeAccepted, InPhase, Open
    <2>2. /\ tx[t].actor # None /\ shares[tx[t].share].grantee = tx[t].actor
          /\ ~tx[t].stamps
      BY <2>1 DEF Sound, SoundRevoke
    <2>3. \A c \in caps : c.share = tx[t].share => c \in s
      BY <2>2 DEF IInv, GrantIsLinked
    <2>4. x \in Transaction
      BY <2>1 DEF Transaction, Phases, IInv, TypeOK
    <2> HIDE DEF s
    <2>5. Sound(x)
      BY <2>1, <2>2, <2>3 DEF Transaction, Sound, SoundRevoke
    <2>6. \A r : ~HoldsShare(x, r)
      BY <2>1, <2>2 DEF HoldsShare, Transaction
    <2>7. Advance(t, x)
      BY <1>3 DEF RevokeAccepted, s
    <2>8. QED
      BY <2>4, <2>5, <2>6, <2>7, AdvanceInv
  <1>4. QED
    BY <1>1, <1>2, <1>3

\* The statements of a removal, up to its UPDATE.
LEMMA RemoveInv ==
    ASSUME IInv, NEW t \in Txs,
           \/ \E a \in Actors : RemoveRead(t, a)
           \/ RemoveDelete(t) \/ RemoveMissed(t) \/ RemoveRevoke(t)
    PROVE  IInv'
  <1>1. /\ Open(t) /\ tx[t] \in Transaction /\ Sound(tx[t])
        /\ tx[t].kind = "remove"
    BY OpenFacts DEF RemoveRead, RemoveDelete, RemoveMissed, RemoveRevoke,
                     InPhase, Open
  <1>2. tx[t].grants = {} /\ ~tx[t].stamps
    BY <1>1 DEF Sound
  <1>3. ASSUME NEW a \in Actors, RemoveRead(t, a) PROVE IInv'
    <2> DEFINE x == [tx[t] EXCEPT !.phase = "read", !.actor = a]
    <2>1. /\ x \in Transaction /\ x.kind = "remove" /\ x.grants = {}
          /\ ~x.stamps /\ x.actor = a
      BY <1>1, <1>2 DEF Transaction, Phases
    <2>2. QED
      BY <1>3, <2>1, QuietStatement DEF RemoveRead
  <1>4. ASSUME RemoveDelete(t) \/ RemoveMissed(t) PROVE IInv'
    <2> DEFINE d == IF RemoveDelete(t) THEN TRUE ELSE tx[t].deletes
               x == [tx[t] EXCEPT !.phase = "written", !.deletes = d]
    <2>1. tx[t].actor \in Actors /\ d \in BOOLEAN
      BY <1>1, <1>4 DEF RemoveDelete, RemoveMissed, InPhase, Sound, Transaction
    <2>3. Advance(t, x)
      <3>1. RemoveDelete(t) => Advance(t, x)
        BY DEF RemoveDelete
      <3>2. ~RemoveDelete(t) => x = [tx[t] EXCEPT !.phase = "written"]
        BY <1>1 DEF Transaction
      <3> QED BY <1>4, <3>1, <3>2 DEF RemoveMissed
    <2> HIDE DEF d
    <2>2. /\ x \in Transaction /\ x.kind = "remove" /\ x.grants = {}
          /\ ~x.stamps /\ x.actor \in Actors
      BY <1>1, <1>2, <2>1 DEF Transaction, Phases
    <2>4. QED
      BY <2>2, <2>3, QuietStatement
  <1>5. CASE RemoveRevoke(t)
    <2> DEFINE s == {c \in caps : c.actor = tx[t].actor}
               x == [tx[t] EXCEPT !.phase = "revoking", !.scan = s]
    <2>1. tx[t].actor \in Actors /\ s \in SUBSET Cap
      BY <1>1, <1>5 DEF RemoveRevoke, InPhase, Sound, IInv, TypeOK
    <2> HIDE DEF s
    <2>2. /\ x \in Transaction /\ x.kind = "remove" /\ x.grants = {}
          /\ ~x.stamps /\ x.actor \in Actors
      BY <1>1, <1>2, <2>1 DEF Transaction, Phases
    <2>3. Advance(t, x)
      BY <1>5 DEF RemoveRevoke, s
    <2>4. QED
      BY <2>2, <2>3, QuietStatement
  <1>6. QED
    BY <1>3, <1>4, <1>5

\* The statements of a deletion, up to its UPDATE.
LEMMA DeleteInv ==
    ASSUME IInv, NEW t \in Txs, DeleteRead(t) \/ DeleteStamp(t) \/ DeleteRevoke(t)
    PROVE  IInv'
  <1>1. /\ Open(t) /\ tx[t] \in Transaction /\ Sound(tx[t])
        /\ tx[t].kind = "delete"
    BY OpenFacts DEF DeleteRead, DeleteStamp, DeleteRevoke, InPhase, Open
  <1>2. tx[t].grants = {} /\ ~tx[t].stamps
    BY <1>1 DEF Sound
  <1>3. PICK p \in {"read", "written", "revoking"}, s \in {tx[t].scan, caps} :
            Advance(t, [tx[t] EXCEPT !.phase = p, !.scan = s])
    <2>1. \A p : [tx[t] EXCEPT !.phase = p]
                 = [tx[t] EXCEPT !.phase = p, !.scan = tx[t].scan]
      BY <1>1 DEF Transaction
    <2>2. QED
      BY <2>1 DEF DeleteRead, DeleteStamp, DeleteRevoke
  <1> DEFINE x == [tx[t] EXCEPT !.phase = p, !.scan = s]
  <1>4. s \in SUBSET Cap
    BY <1>1 DEF Transaction, IInv, TypeOK
  <1>5. /\ x \in Transaction /\ x.kind = "delete" /\ x.grants = {} /\ ~x.stamps
    BY <1>1, <1>2, <1>4 DEF Transaction, Phases
  <1>6. QED
    BY <1>3, <1>5, QuietStatement

\* The UPDATE all revocations end in.
LEMMA RevokeInv ==
    ASSUME IInv, NEW t \in Txs, Revoke(t)
    PROVE  IInv'
  <1> DEFINE r == tx[t].scan \cap caps
             x == [tx[t] EXCEPT !.phase = "ready", !.scan = {},
                                !.revokes = r]
  <1>1. /\ Open(t) /\ tx[t] \in Transaction /\ Sound(tx[t])
        /\ tx[t].phase = "revoking"
    BY OpenFacts DEF Revoke, Open
  <1>2. tx[t].kind # "accept"
    BY <1>1 DEF Sound, SoundAccept
  <1>3. /\ tx[t].kind = "revoke" => tx[t].actor # None
        /\ ~tx[t].stamps /\ tx[t].grants = {}
    BY <1>1, <1>2 DEF Sound, SoundRevoke
  <1>4. x \in Transaction
    BY <1>1 DEF Transaction, Phases
  <1>5. Sound(x)
    BY <1>1, <1>2, <1>3 DEF Transaction, Sound, SoundRevoke
  <1>6. \A s : ~HoldsShare(x, s)
    BY <1>1, <1>2, <1>3 DEF HoldsShare, Transaction
  <1>7. Advance(t, x)
    BY DEF Revoke
  <1>8. QED
    BY <1>4, <1>5, <1>6, <1>7, AdvanceInv

\* Every statement of a request that withdraws access.
LEMMA WithdrawInv ==
    ASSUME IInv, NEW t \in Txs, Withdraw(t)
    PROVE  IInv'
  BY RevokeShareInv, RemoveInv, DeleteInv, RevokeInv DEF Withdraw

-----------------------------------------------------------------------------
\* COMMIT.  What the request published is what the others may count on: the
\* locks keep them off the rows it wrote.
LEMMA CommitInv ==
    ASSUME IInv, NEW t \in Txs, Commit(t)
    PROVE  IInv'
  <1> DEFINE x == tx[t]
             s == x.share
             pending == x.stamps
  <1>1. /\ Open(t) /\ x \in Transaction /\ Sound(x) /\ x.phase = "ready"
        /\ TypeOK
    BY OpenFacts DEF Commit, Open, IInv
  <1>2. /\ caps' = (caps \ x.revokes) \cup x.grants
        /\ tx' = [tx EXCEPT ![t] = None]
        /\ project' = project
    BY DEF Commit
  <1>3. /\ ~Open(t)'
        /\ \A u \in Txs \ {t} : tx'[u] = tx[u]
    BY <1>1, <1>2 DEF TypeOK, Open
  <1>4. Exclusive'
    BY <1>3 DEF IInv, Exclusive, Open
  <1>5. CASE x.kind = "accept"
    <2> DEFINE row == [shares[s] EXCEPT
                          !.by = x.actor,
                          !.grantee = IF x.grants = {} THEN None ELSE x.actor]
    <2>1. /\ SoundAccept(x)
          /\ org' = org /\ members' = members
          /\ revoked' = revoked /\ sealed' = sealed
          /\ shares' = [shares EXCEPT ![s] =
                         [@ EXCEPT !.by = x.actor,
                                   !.grantee = IF x.grants = {} THEN None
                                                                ELSE x.actor]]
      BY <1>1, <1>5 DEF Commit, Sound
    <2>2. /\ shares[s] \in Row /\ s \in Shares /\ x.actor \in Actors
          /\ shares[s].by = None /\ x.actor # None
      BY <1>1, <2>1, NoneAssumption DEF SoundAccept, TypeOK
    <2>3. /\ shares' = [shares EXCEPT ![s] = row]
          /\ row \in Row /\ row.by = x.actor
          /\ row.grantee = IF x.grants = {} THEN None ELSE x.actor
      BY <2>1, <2>2, <1>1 DEF TypeOK, Row
    <2> HIDE DEF row
    <2>4. /\ shares'[s] = row /\ row # None
          /\ \A r \in Shares \ {s} : shares'[r] = shares[r]
      BY <2>2, <2>3, <1>1, NoneAssumption DEF TypeOK
    <2>5. \A c \in caps : c.share # s
      BY <2>2, <1>1, NoneAssumption
         DEF IInv, GrantIsLinked, ConsumedFirst, TypeOK, Cap
    <2>6. TypeOK'
      <3>1. x.grants \subseteq Cap
        BY <1>1 DEF Transaction
      <3>2. caps' \subseteq Cap
        BY <3>1, <1>1, <1>2 DEF TypeOK
      <3>3. shares' \in [Shares -> Row \cup {None}]
        BY <2>3, <1>1 DEF TypeOK
      <3>4. /\ org' = org /\ members' = members
            /\ revoked' = revoked /\ sealed' = sealed
        BY <2>1
      <3>5. QED
        BY <3>2, <3>3, <3>4, <1>1, <1>2 DEF TypeOK
    <2>7. ConsumedFirst' /\ SealedConsumed'
      <3>1. row.by = x.actor /\ x.actor # None /\ sealed' = sealed
        BY <2>1, <2>2, <2>3
      <3>2. ConsumedFirst /\ SealedConsumed /\ sealed \subseteq Shares
        BY <1>1 DEF IInv, TypeOK
      <3>3. QED
        BY <2>4, <3>1, <3>2 DEF ConsumedFirst, SealedConsumed
    <2>8. GrantIsLinked'
      <3> SUFFICES ASSUME NEW c \in caps'
                   PROVE  shares'[c.share] # None
                          /\ shares'[c.share].grantee = c.actor
        BY DEF GrantIsLinked
      <3>1. CASE c \in x.grants
        BY <3>1, <2>1, <2>3, <2>4 DEF SoundAccept
      <3>2. CASE c \in caps
        BY <3>2, <2>4, <2>5, <1>1 DEF IInv, GrantIsLinked, TypeOK, Cap
      <3>3. QED
        BY <1>2, <3>1, <3>2
    <2>9. RevocationSticks'
      BY <1>2, <2>1, <2>2 DEF IInv, RevocationSticks, SealedConsumed, SoundAccept
    <2>10. InFlight'
      <3> SUFFICES ASSUME NEW u \in Txs, u # t, Open(u) PROVE Sound(tx[u])'
        BY <1>3 DEF InFlight, Open
      <3>1. Sound(tx[u]) /\ tx'[u] = tx[u] /\ tx[u] \in Transaction
        BY <1>3, OpenFacts
      <3>2. tx[u].kind = "accept" => tx[u].share # s
        BY <1>1, <1>5, <2>2, <3>1 DEF IInv, Exclusive, HoldsShare
      <3>3. CASE tx[u].kind = "accept"
        BY <3>1, <3>2, <3>3, <2>4 DEF Sound, SoundAccept
      <3>4. CASE tx[u].kind = "revoke"
        <4>1. SoundRevoke(tx[u])
          BY <3>1, <3>4 DEF Sound
        <4>2. tx[u].phase # "admitted" /\ tx[u].share = s =>
                  tx[u].actor = None /\ (tx[u].phase = "ready" => tx[u].stamps)
          BY <4>1, <2>2 DEF SoundRevoke
        <4>3. tx[u].share # s => \A c \in x.grants : c.share # tx[u].share
          BY <2>1 DEF SoundAccept
        <4>4. SoundRevoke(tx[u])'
          BY <4>1, <4>2, <4>3, <3>1, <1>2, <2>4 DEF SoundRevoke
        <4>5. QED
          BY <4>4, <3>1, <3>4 DEF Sound
      <3>5. CASE tx[u].kind \notin {"accept", "revoke"}
        BY <3>1, <3>5 DEF Sound
      <3>6. QED
        BY <3>3, <3>4, <3>5
    <2>11. QED
      BY <1>4, <2>6, <2>7, <2>8, <2>9, <2>10 DEF IInv
  <1>6. CASE pending
    <2>1. /\ SoundRevoke(x) /\ x.grants = {}
          /\ org' = org /\ members' = members
          /\ revoked' = revoked \cup {s}
          /\ sealed' = IF shares[s].grantee = None THEN sealed \cup {s} ELSE sealed
          /\ shares' = [shares EXCEPT ![s] = Stamp(shares[s])]
      BY <1>1, <1>6 DEF Commit, Sound
    <2>2. s \in Shares /\ shares[s] \in Row
      BY <1>1, <2>1 DEF SoundRevoke, TypeOK
    <2>3. /\ Stamp(shares[s]) \in Row
          /\ Stamp(shares[s]).by = Owner
          /\ Stamp(shares[s]).grantee = shares[s].grantee
      BY <2>2 DEF Stamp, Row
    <2>4. /\ shares'[s] = Stamp(shares[s]) /\ shares'[s] # None /\ Owner # None
          /\ \A r \in Shares \ {s} : shares'[r] = shares[r]
      BY <2>1, <2>2, <2>3, <1>1, NoneAssumption DEF TypeOK
    <2>5. caps' \subseteq caps
      BY <1>2, <2>1
    <2>6. TypeOK'
      BY <1>1, <1>2, <2>1, <2>2, <2>3, <2>5 DEF TypeOK
    <2>7. ConsumedFirst' /\ SealedConsumed'
      BY <2>1, <2>2, <2>3, <2>4, <1>1
         DEF IInv, ConsumedFirst, SealedConsumed, TypeOK
    <2>8. GrantIsLinked'
      <3> SUFFICES ASSUME NEW c \in caps'
                   PROVE  shares'[c.share] # None
                          /\ shares'[c.share].grantee = c.actor
        BY DEF GrantIsLinked
      <3>1. c.share \in Shares /\ shares[c.share] # None
            /\ shares[c.share].grantee = c.actor
        BY <2>5, <1>1 DEF IInv, GrantIsLinked, TypeOK, Cap
      <3>2. QED
        BY <3>1, <2>3, <2>4
    <2>9. RevocationSticks'
      <3>1. shares[s].grantee = None => \A c \in caps : c.share # s
        BY <1>1, NoneAssumption DEF IInv, GrantIsLinked, TypeOK, Cap
      <3>2. QED
        BY <3>1, <2>1, <2>5 DEF IInv, RevocationSticks
    <2>10. InFlight'
      <3> SUFFICES ASSUME NEW u \in Txs, u # t, Open(u) PROVE Sound(tx[u])'
        BY <1>3 DEF InFlight, Open
      <3>1. Sound(tx[u]) /\ tx'[u] = tx[u] /\ tx[u] \in Transaction
        BY <1>3, OpenFacts
      <3>2. tx[u].kind = "accept" => tx[u].share # s
        BY <1>1, <1>6, <2>2, <3>1 DEF IInv, Exclusive, HoldsShare
      <3>3. CASE tx[u].kind = "accept"
        BY <3>1, <3>2, <3>3, <2>4 DEF Sound, SoundAccept
      <3>4. CASE tx[u].kind = "revoke"
        <4>1. SoundRevoke(tx[u])
          BY <3>1, <3>4 DEF Sound
        <4>2. SoundRevoke(tx[u])'
          BY <4>1, <3>1, <2>3, <2>4, <2>5 DEF SoundRevoke
        <4>3. QED
          BY <4>2, <3>1, <3>4 DEF Sound
      <3>5. CASE tx[u].kind \notin {"accept", "revoke"}
        BY <3>1, <3>5 DEF Sound
      <3>6. QED
        BY <3>3, <3>4, <3>5
    <2>11. QED
      BY <1>4, <2>6, <2>7, <2>8, <2>9, <2>10 DEF IInv
  <1>7. CASE x.kind # "accept" /\ ~pending
    <2>1. /\ x.grants = {} /\ shares' = shares
          /\ caps' \subseteq caps
      BY <1>1, <1>2, <1>7 DEF Commit, Sound
    <2>2. /\ org' \in {"active", "deleted"} /\ members' \subseteq Actors
          /\ sealed' \subseteq revoked' /\ revoked' \subseteq Shares
      <3>1. x.kind = "revoke" => s \in Shares
        BY <1>1 DEF Sound, SoundRevoke
      <3>2. QED
        BY <3>1, <1>1 DEF Commit, TypeOK
    <2>3. TypeOK'
      BY <1>1, <1>2, <2>1, <2>2 DEF TypeOK
    <2>4. ConsumedFirst' /\ GrantIsLinked'
      BY <2>1 DEF IInv, ConsumedFirst, GrantIsLinked
    <2>5. SealedConsumed' /\ RevocationSticks'
      <3>1. CASE x.kind = "revoke"
        <4>1. SoundRevoke(x) /\ ~x.stamps
          BY <1>1, <1>7, <3>1 DEF Sound
        <4>2. sealed' \subseteq sealed \cup {s}
          BY <3>1 DEF Commit
        <4>3. /\ shares[s] # None /\ shares[s].by # None
              /\ \A c \in caps' : c.share # s
          <5>1. CASE x.actor # None
            BY <5>1, <4>1, <1>1, <1>2, <2>1 DEF SoundRevoke
          <5>2. CASE x.actor = None
            <6>1. /\ s \in Shares /\ shares[s] # None
                  /\ shares[s].by # None /\ shares[s].grantee = None
              BY <5>2, <4>1, <1>1 DEF SoundRevoke
            <6>2. \A c \in caps : c.share # s
              BY <6>1, <1>1, NoneAssumption DEF IInv, GrantIsLinked, TypeOK, Cap
            <6>3. QED
              BY <6>1, <6>2, <2>1
          <5>3. QED
            BY <5>1, <5>2
        <4>4. QED
          BY <4>2, <4>3, <2>1 DEF IInv, SealedConsumed, RevocationSticks
      <3>2. CASE x.kind # "revoke"
        BY <3>2, <2>1 DEF Commit, IInv, SealedConsumed, RevocationSticks
      <3>3. QED
        BY <3>1, <3>2
    <2>6. InFlight'
      <3> SUFFICES ASSUME NEW u \in Txs, u # t, Open(u) PROVE Sound(tx[u])'
        BY <1>3 DEF InFlight, Open
      <3>1. Sound(tx[u]) /\ tx'[u] = tx[u]
        BY <1>3, OpenFacts
      <3>2. QED
        BY <3>1, <2>1 DEF Sound, SoundAccept, SoundRevoke
    <2>7. QED
      BY <1>4, <2>3, <2>4, <2>5, <2>6 DEF IInv
  <1>8. QED
    BY <1>5, <1>6, <1>7

-----------------------------------------------------------------------------
\* A share that is created or expires: its own row changes, unconsumed or with
\* everything but the expiry as it was.  The request that created it ends.
LEMMA RowInv ==
    ASSUME IInv, NEW s \in Shares,
           (\E t \in Txs : Share(t, s)) \/ Expire(s)
    PROVE  IInv'
  <1>1. /\ org' = org /\ project' = project /\ members' = members
        /\ caps' = caps /\ revoked' = revoked /\ sealed' = sealed
    BY DEF Share, Expire
  <1>2. PICK row \in Row :
            /\ shares' = [shares EXCEPT ![s] = row]
            /\ shares[s] # None => /\ row.by = shares[s].by
                                   /\ row.grantee = shares[s].grantee
            /\ shares[s] = None => row.by = None /\ row.grantee = None
    <2>1. CASE \E t \in Txs : Share(t, s)
      <3>1. [by |-> None, grantee |-> None, expired |-> FALSE] \in Row
        BY DEF Row
      <3>2. QED
        BY <2>1, <3>1 DEF Share
    <2>2. CASE Expire(s)
      <3> DEFINE r == [shares[s] EXCEPT !.expired = TRUE]
      <3>1. shares[s] \in Row
        BY <2>2 DEF Expire, IInv, TypeOK
      <3>2. /\ r \in Row /\ r.by = shares[s].by
            /\ r.grantee = shares[s].grantee
        BY <3>1 DEF Row
      <3>3. shares' = [shares EXCEPT ![s] = r]
        BY <2>2 DEF Expire
      <3>4. QED
        BY <2>2, <3>2, <3>3 DEF Expire
    <2>3. QED
      BY <2>1, <2>2
  <1>a. /\ tx' \in [Txs -> Transaction \cup {None}]
        /\ \A u \in Txs : Open(u)' => Open(u) /\ tx'[u] = tx[u]
    BY DEF Share, Expire, Open, IInv, TypeOK
  <1>3. /\ shares'[s] = row /\ row # None
        /\ \A r \in Shares \ {s} : shares'[r] = shares[r]
    BY <1>2, NoneAssumption DEF IInv, TypeOK
  <1>4. TypeOK'
    BY <1>1, <1>a, <1>2 DEF IInv, TypeOK
  <1>5. InFlight'
    <2> SUFFICES ASSUME NEW u \in Txs, Open(u)' PROVE Sound(tx[u])'
      BY DEF InFlight
    <2>1. Sound(tx[u]) /\ tx'[u] = tx[u]
      BY <1>a, OpenFacts
    <2>2. SoundAccept(tx[u]) => SoundAccept(tx[u])'
      BY <2>1, <1>2, <1>3 DEF SoundAccept
    <2>3. SoundRevoke(tx[u]) => SoundRevoke(tx[u])'
      BY <2>1, <1>1, <1>2, <1>3 DEF SoundRevoke
    <2>4. QED
      BY <2>1, <2>2, <2>3 DEF Sound
  <1>6. Exclusive' /\ RevocationSticks'
    BY <1>1, <1>a DEF IInv, Exclusive, RevocationSticks
  <1>7. ConsumedFirst' /\ SealedConsumed'
    BY <1>1, <1>2, <1>3 DEF IInv, ConsumedFirst, SealedConsumed, TypeOK
  <1>8. GrantIsLinked'
    BY <1>1, <1>2, <1>3 DEF IInv, GrantIsLinked, TypeOK, Cap
  <1>9. QED
    BY <1>4, <1>5, <1>6, <1>7, <1>8 DEF IInv

\* Steps that leave shares, capabilities and the other requests alone.
LEMMA QuietInv ==
    ASSUME IInv, TypeOK',
           UNCHANGED <<shares, caps, sealed>>,
           \A u \in Txs : Open(u)' => Open(u) /\ tx'[u] = tx[u]
    PROVE  IInv'
  <1>1. InFlight'
    <2> SUFFICES ASSUME NEW u \in Txs, Open(u)' PROVE Sound(tx[u])'
      BY DEF InFlight
    <2>1. Sound(tx[u]) /\ tx'[u] = tx[u]
      BY OpenFacts
    <2>2. QED
      BY <2>1 DEF Sound, SoundAccept, SoundRevoke
  <1>2. Exclusive'
    BY DEF IInv, Exclusive
  <1>3. /\ ConsumedFirst' /\ SealedConsumed' /\ GrantIsLinked'
        /\ RevocationSticks'
    BY DEF IInv, ConsumedFirst, SealedConsumed, GrantIsLinked, RevocationSticks
  <1>4. QED
    BY <1>1, <1>2, <1>3 DEF IInv

\* At first no share, no capability and no request exists.
LEMMA InitInv == Init => IInv
  BY DEF Init, IInv, TypeOK, InFlight, Exclusive, ConsumedFirst, SealedConsumed,
         GrantIsLinked, RevocationSticks, Open

\* Every step of ProjectShares keeps the invariant.
LEMMA InvInductive == IInv /\ [Next]_vars => IInv'
  <1> SUFFICES ASSUME IInv, [Next]_vars PROVE IInv'
    OBVIOUS
  <1>1. ASSUME NEW a \in Actors, Join(a) PROVE IInv'
    BY <1>1, QuietInv DEF Join, IInv, TypeOK, Open
  <1>2. CASE DeleteProject
    BY <1>2, QuietInv DEF DeleteProject, IInv, TypeOK, Open
  <1>3. ASSUME NEW t \in Txs, Rollback(t) PROVE IInv'
    <2>1. TypeOK'
      BY <1>3 DEF Rollback, rows, IInv, TypeOK
    <2>2. \A u \in Txs : Open(u)' => Open(u) /\ tx'[u] = tx[u]
      BY <1>3 DEF Rollback, IInv, TypeOK, Open
    <2>3. QED
      BY <1>3, <2>1, <2>2, QuietInv DEF Rollback, rows
  <1>4. CASE UNCHANGED vars
    BY <1>4, QuietInv DEF vars, rows, IInv, TypeOK, Open
  <1>5. QED
    BY <1>1, <1>2, <1>3, <1>4, RowInv, AdmitInv, AcceptInv, WithdrawInv,
       CommitInv DEF Next, Step

\* The types of every variable, whatever requests overlap.
THEOREM TypeCorrect == Spec => []TypeOK
  <1>1. IInv => TypeOK
    BY DEF IInv
  <1>2. QED
    BY <1>1, InitInv, InvInductive, PTL DEF Spec

\* A guest's active capability is linked from its share, so that a later
\* revocation finds it, also when a revocation raced the acceptance.
THEOREM GrantsAreLinked == Spec => []GrantIsLinked
  <1>1. IInv => GrantIsLinked
    BY DEF IInv
  <1>2. QED
    BY <1>1, InitInv, InvInductive, PTL DEF Spec

\* A revocation that committed before the acceptance, or found it, is final.
THEOREM RevocationsStick == Spec => []RevocationSticks
  <1>1. IInv => RevocationSticks
    BY DEF IInv
  <1>2. QED
    BY <1>1, InitInv, InvInductive, PTL DEF Spec

-----------------------------------------------------------------------------
\* What a step may do to shares and capabilities.
ConsumeStep ==
    /\ \A c \in caps' \ caps :
          /\ shares[c.share].by = None
          /\ shares'[c.share].by = c.actor
    /\ \A s \in Shares :
          shares[s] # None /\ shares[s].by # None => shares'[s].by # None

\* A step that grants consumes the share it grants by, and none un-consumes one
\* (ProjectShareService.accept).
LEMMA ConsumeStepHolds == IInv /\ [Next]_vars => ConsumeStep
  <1> SUFFICES ASSUME IInv, [Next]_vars PROVE ConsumeStep
    OBVIOUS
  <1>1. ASSUME NEW t \in Txs, Commit(t) PROVE ConsumeStep
    <2> DEFINE x == tx[t]
    <2>1. /\ x \in Transaction /\ Sound(x) /\ TypeOK /\ x.phase = "ready"
          /\ caps' = (caps \ x.revokes) \cup x.grants
      BY <1>1, OpenFacts DEF Commit, Open, IInv
    <2>2. CASE x.kind = "accept"
      <3>1. /\ SoundAccept(x)
            /\ shares' = [shares EXCEPT ![x.share] =
                         [@ EXCEPT !.by = x.actor,
                                   !.grantee = IF x.grants = {} THEN None
                                                                ELSE x.actor]]
        BY <1>1, <2>1, <2>2 DEF Commit, Sound
      <3>2. shares[x.share] \in Row /\ x.actor # None
        BY <2>1, <3>1, NoneAssumption DEF SoundAccept, TypeOK
      <3>3. /\ shares'[x.share].by = x.actor
            /\ \A s \in Shares \ {x.share} : shares'[s] = shares[s]
        BY <2>1, <3>1, <3>2 DEF SoundAccept, TypeOK, Row
      <3>4. QED
        BY <2>1, <3>1, <3>2, <3>3 DEF ConsumeStep, SoundAccept
    <2>3. CASE x.kind = "revoke" /\ x.stamps
      <3>1. /\ SoundRevoke(x) /\ x.grants = {}
            /\ shares' = [shares EXCEPT ![x.share] = Stamp(shares[x.share])]
        BY <1>1, <2>1, <2>3 DEF Commit, Sound
      <3>2. shares[x.share] \in Row /\ Owner # None
        BY <2>1, <3>1, NoneAssumption DEF SoundRevoke, TypeOK
      <3>3. /\ shares'[x.share].by = Owner
            /\ \A s \in Shares \ {x.share} : shares'[s] = shares[s]
        BY <2>1, <3>1, <3>2 DEF SoundRevoke, TypeOK, Row, Stamp
      <3>4. QED
        BY <2>1, <3>1, <3>2, <3>3 DEF ConsumeStep
    <2>4. CASE /\ x.kind # "accept"
               /\ ~(x.kind = "revoke" /\ x.stamps)
      <3>1. shares' = shares /\ x.grants = {}
        BY <1>1, <2>1, <2>4 DEF Commit, Sound
      <3>2. QED
        BY <2>1, <3>1 DEF ConsumeStep
    <2>5. QED
      BY <2>2, <2>3, <2>4
  <1>2. ASSUME NEW s \in Shares, (\E t \in Txs : Share(t, s)) \/ Expire(s)
        PROVE  ConsumeStep
    <2>1. caps' = caps
      BY <1>2 DEF Share, Expire
    <2>2. \A r \in Shares :
              shares[r] # None /\ shares[r].by # None => shares'[r].by # None
      BY <1>2 DEF Share, Expire, IInv, TypeOK, Row
    <2>3. QED
      BY <2>1, <2>2 DEF ConsumeStep
  <1>3. ASSUME shares' = shares, caps' = caps PROVE ConsumeStep
    BY <1>3 DEF ConsumeStep
  <1>4. ASSUME NEW a \in Actors, Join(a) PROVE ConsumeStep
    BY <1>3, <1>4 DEF Join
  <1>5. CASE DeleteProject
    BY <1>3, <1>5 DEF DeleteProject
  <1>6. ASSUME NEW t \in Txs, Step(t), ~Commit(t), ~\E s \in Shares : Share(t, s)
        PROVE  ConsumeStep
    <2>1. CASE \E kind \in Kinds : Admit(t, kind)
      BY <2>1, <1>3 DEF Admit, Advance, rows
    <2>2. CASE Accept(t)
      BY <2>2, <1>3 DEF Accept, AcceptConsume, AcceptProject, AcceptOrg,
                        AcceptMember, AcceptMint, Advance, rows
    <2>3. CASE Withdraw(t)
      BY <2>3, <1>3 DEF Withdraw, RevokeRead, RevokePending, RevokeAccepted,
                        RemoveRead, RemoveDelete, RemoveMissed, RemoveRevoke,
                        DeleteRead, DeleteStamp, DeleteRevoke, Revoke, Advance,
                        rows
    <2>4. CASE Rollback(t)
      BY <2>4, <1>3 DEF Rollback, rows
    <2>5. QED
      BY <1>6, <2>1, <2>2, <2>3, <2>4 DEF Step
  <1>7. CASE UNCHANGED vars
    BY <1>3, <1>7 DEF vars, rows
  <1>8. QED
    BY <1>1, <1>2, <1>4, <1>5, <1>6, <1>7 DEF Next

\* A capability appears only in the step that consumes its share for that
\* actor, and no consumed share becomes redeemable again.
THEOREM GrantsConsume == Spec => GrantConsumesShare
  <1>1. IInv /\ [Next]_vars => [ConsumeStep]_vars
    BY ConsumeStepHolds
  <1>2. QED
    BY <1>1, InitInv, InvInductive, PTL DEF Spec, GrantConsumesShare, ConsumeStep

=============================================================================
