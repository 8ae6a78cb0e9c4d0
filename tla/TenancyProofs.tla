---------------------------- MODULE TenancyProofs ----------------------------
(***************************************************************************)
(* For every number of actors, projects, invitations and concurrent        *)
(* requests, and every set of roles: Tenancy keeps its types and what      *)
(* MCTenancy.cfg checks of interleaved requests.                           *)
(***************************************************************************)
EXTENDS Tenancy, FiniteSetTheorems, TLAPS

\* A transaction that has written, and so locked, the membership row of a.
WritesMember(x, a) ==
    /\ x.actor = a
    /\ \/ x.kind = "change" /\ x.phase = "ready"
       \/ x.kind = "accept" /\ x.phase \in {"joined", "ready"}
       \/ x.kind = "remove" /\ x.deletes

Consumes(x, i) ==
    /\ x.kind = "accept" /\ x.phase \in {"consumed", "joined", "ready"}
    /\ x.invite = i

OnOrg(g, a) == g.actor = a /\ g.on = Org

\* What an open transaction knows, phase by phase, whatever others commit.
SoundChange(x) ==
    /\ x.phase # "admitted" => x.actor \in Actors /\ x.new \in Roles
    /\ \A g \in x.scan \cup x.revokes \cup x.grants : g.actor = x.actor
    /\ x.phase \in {"minted", "ready"} =>
          [actor |-> x.actor, bundle |-> x.new, on |-> Org] \in x.grants
    /\ x.phase = "ready" => members[x.actor] # None

SoundRemove(x) ==
    /\ x.new = None /\ x.grants = {}
    /\ x.deletes => x.phase \in {"deleted", "revoking", "ready"}
    /\ x.phase # "admitted" => x.actor \in Actors
    /\ \A g \in x.scan \cup x.revokes : g.actor = x.actor
    /\ x.deletes /\ x.phase = "revoking" =>
          \A g \in caps : OnOrg(g, x.actor) => g \in x.scan
    /\ x.deletes /\ x.phase = "ready" =>
          \A g \in caps : OnOrg(g, x.actor) => g \in x.revokes

SoundAccept(x) ==
    /\ x.phase \in {"read", "seated", "checked", "consumed", "joined", "ready"}
    /\ x.actor \in Actors /\ x.invite \in Invites
    /\ invites[x.invite] # None /\ x.new = invites[x.invite].role
    /\ x.scan = {} /\ x.revokes = {}
    /\ \A g \in x.grants : g.actor = x.actor
    /\ x.phase \in {"consumed", "joined", "ready"} => invites[x.invite].by = None
    /\ x.phase \in {"joined", "ready"} => members[x.actor] = None
    /\ x.phase = "ready" =>
          [actor |-> x.actor, bundle |-> x.new, on |-> Org] \in x.grants

SoundProject(x) ==
    /\ x.phase \in {"admitted", "inserted", "ready"}
    /\ x.phase # "admitted" => x.project \in Projects
    /\ x.scan = {} /\ x.revokes = {}
    /\ \A g \in x.grants : g.on # Org

Sound(x) ==
    /\ org # "absent"
    /\ x.phase = "admitted" =>
          x.scan = {} /\ x.revokes = {} /\ x.grants = {}
    /\ x.kind = "change" => SoundChange(x)
    /\ x.kind = "remove" => SoundRemove(x)
    /\ x.kind = "accept" => SoundAccept(x)
    /\ x.kind = "project" => SoundProject(x)
    /\ x.kind = "delete" => x.grants = {}
    /\ x.kind = "invite" => x.phase = "admitted"
    /\ x.kind = "unproject" => x.phase = "admitted" /\ x.project \in Projects

Open(t) == tx[t] # None

InFlight == \A t \in Txs : Open(t) => Sound(tx[t])

\* The row locks.
Exclusive ==
    \A t, u \in Txs : t # u /\ Open(t) /\ Open(u) =>
        /\ \A a \in Actors : ~(WritesMember(tx[t], a) /\ WritesMember(tx[u], a))
        /\ \A i \in Invites : ~(Consumes(tx[t], i) /\ Consumes(tx[u], i))

NotCreated ==
    org = "absent" =>
        /\ \A a \in Actors : members[a] = None
        /\ \A i \in Invites : invites[i] = None

IInv ==
    /\ TypeOK
    /\ InFlight
    /\ Exclusive
    /\ NotCreated
    /\ OutsiderHoldsNoOrgGrant

-----------------------------------------------------------------------------
\* What mint_bundle mints: capabilities of that actor, the bundle on the
\* organisation among them.
LEMMA BundleFacts ==
    ASSUME NEW a \in Actors, NEW role \in Roles, NEW ps \in SUBSET Projects
    PROVE  /\ Bundle(a, role, ps) \in SUBSET Grant
           /\ \A g \in Bundle(a, role, ps) : g.actor = a
           /\ [actor |-> a, bundle |-> role, on |-> Org] \in Bundle(a, role, ps)
  BY DEF Bundle, Grant, ProjectRoles

\* Who writes the membership row.
LEMMA RowWriters ==
    ASSUME NEW x
    PROVE  /\ x.kind \in {"change", "accept"} => WritesRow(x)
           /\ x.kind = "remove" /\ x.deletes => WritesRow(x)
           /\ WritesRow(x) => \/ x.kind \in {"change", "accept"}
                              \/ x.kind = "remove" /\ x.deletes
  BY DEF WritesRow

\* A request that has just passed its gate is well formed.
LEMMA RequestFacts ==
    ASSUME NEW kind \in Kinds
    PROVE  Request(kind) \in Transaction /\ Request(kind) # None
  <1>1. Request(kind) \in Transaction
    BY DEF Request, Transaction, Phases
  <1>2. QED
    BY <1>1, NoneAssumption

\* A step inside a transaction keeps the invariant, if the transaction stays
\* sound and takes no lock another one holds.
LEMMA AdvanceInv ==
    ASSUME IInv, NEW t \in Txs, NEW x \in Transaction, Advance(t, x),
           Sound(x),
           \A u \in Txs \ {t} : Open(u) =>
               /\ \A a \in Actors :
                     ~(WritesMember(x, a) /\ WritesMember(tx[u], a))
               /\ \A i \in Invites : ~(Consumes(x, i) /\ Consumes(tx[u], i))
    PROVE  IInv'
  <1>1. /\ tx' = [tx EXCEPT ![t] = x]
        /\ org' = org /\ members' = members /\ projects' = projects
        /\ caps' = caps /\ invites' = invites
    BY DEF Advance
  <1>2. /\ tx'[t] = x
        /\ \A u \in Txs \ {t} : tx'[u] = tx[u]
    BY <1>1 DEF IInv, TypeOK
  <1>3. TypeOK'
    BY <1>1 DEF IInv, TypeOK
  <1>4. InFlight'
    <2> SUFFICES ASSUME NEW u \in Txs, Open(u)' PROVE Sound(tx[u])'
      BY DEF InFlight
    <2>1. Sound(tx'[u])
      BY <1>2 DEF IInv, InFlight, Open
    <2>2. QED
      BY <2>1, <1>1 DEF Sound, SoundChange, SoundRemove, SoundAccept,
                        SoundProject
  <1>5. Exclusive'
    BY <1>2 DEF IInv, Exclusive, Open, WritesMember, Consumes
  <1>6. NotCreated' /\ OutsiderHoldsNoOrgGrant'
    BY <1>1 DEF IInv, NotCreated, OutsiderHoldsNoOrgGrant
  <1>7. QED
    BY <1>3, <1>4, <1>5, <1>6 DEF IInv

-----------------------------------------------------------------------------
\* The record of an open transaction.
LEMMA OpenFacts ==
    ASSUME IInv, NEW t \in Txs, Open(t)
    PROVE  /\ tx[t] \in Transaction
           /\ Sound(tx[t])
           /\ caps \subseteq Grant
           /\ \A a \in Actors : members[a] \in Roles \cup {None}
           /\ \A i \in Invites : invites[i] # None => invites[i] \in Invitation
  BY DEF IInv, InFlight, Open, TypeOK

\* The same, for a step that takes no lock.
LEMMA QuietInv ==
    ASSUME IInv, NEW t \in Txs, NEW x \in Transaction, Advance(t, x), Sound(x),
           \A a : ~WritesMember(x, a), \A i : ~Consumes(x, i)
    PROVE  IInv'
  BY AdvanceInv

\* The same, for one that keeps the locks it has.
LEMMA KeptInv ==
    ASSUME IInv, NEW t \in Txs, NEW x \in Transaction, Advance(t, x), Sound(x),
           Open(t),
           \A a \in Actors : WritesMember(x, a) => WritesMember(tx[t], a),
           \A i \in Invites : Consumes(x, i) => Consumes(tx[t], i)
    PROVE  IInv'
  <1>1. \A u \in Txs \ {t} : Open(u) =>
            /\ \A a \in Actors :
                  ~(WritesMember(x, a) /\ WritesMember(tx[u], a))
            /\ \A i \in Invites : ~(Consumes(x, i) /\ Consumes(tx[u], i))
    BY DEF IInv, Exclusive
  <1>2. QED
    BY <1>1, AdvanceInv

\* The gates let a request in that has written nothing.
LEMMA GateInv ==
    ASSUME IInv, NEW t \in Txs, Gate(t)
    PROVE  IInv'
  <1>1. ASSUME NEW x \in Transaction, Admit(t, x), x.phase = "admitted",
               x.kind # "accept", x.new = None, ~x.deletes,
               x.scan = {}, x.revokes = {}, x.grants = {},
               x.kind = "unproject" => x.project \in Projects
        PROVE  IInv'
    <2>1. Advance(t, x) /\ org = "active"
      BY <1>1 DEF Admit, Advance
    <2>2. Sound(x)
      BY <2>1, <1>1 DEF Sound, SoundChange, SoundRemove, SoundProject
    <2>3. (\A a : ~WritesMember(x, a)) /\ (\A i : ~Consumes(x, i))
      BY <1>1 DEF WritesMember, Consumes
    <2>4. QED
      BY <2>1, <2>2, <2>3, QuietInv
  <1>2. ASSUME NEW kind \in Kinds \ {"accept", "unproject"},
               Admit(t, Request(kind))
        PROVE  IInv'
    BY <1>1, <1>2, RequestFacts DEF Request
  <1>3. ASSUME NEW by \in Actors, NEW kind \in Kinds, AdmitOrgAdmin(t, kind, by)
        PROVE  IInv'
    BY <1>2, <1>3 DEF AdmitOrgAdmin
  <1>4. ASSUME NEW by \in Actors, AdmitDelete(t, by) \/ AdmitProject(t, by)
        PROVE  IInv'
    BY <1>2, <1>4 DEF AdmitDelete, AdmitProject, Kinds
  <1>5. ASSUME NEW by \in Actors, NEW p \in Projects, AdmitUnproject(t, p, by)
        PROVE  IInv'
    <2> DEFINE x == [Request("unproject") EXCEPT !.project = p]
    <2>1. x \in Transaction
      BY DEF Transaction, Phases, Kinds, Request
    <2>2. /\ x.phase = "admitted" /\ x.kind = "unproject" /\ x.new = None
          /\ ~x.deletes
          /\ x.scan = {} /\ x.revokes = {} /\ x.grants = {} /\ x.project = p
      BY DEF Request
    <2>3. Admit(t, x)
      BY <1>5 DEF AdmitUnproject
    <2> HIDE DEF x
    <2>4. QED
      BY <1>1, <2>1, <2>2, <2>3
  <1>6. QED
    BY <1>3, <1>4, <1>5 DEF Gate

\* The statements of change_role, and the count of the owners.
LEMMA ChangeInv ==
    ASSUME IInv, NEW t \in Txs, Change(t)
    PROVE  IInv'
  <1> USE DEF Open
  <1>1. ASSUME NEW a \in Actors, NEW role \in Roles, ChangeRead(t, a, role)
        PROVE  IInv'
    <2> DEFINE p == IF members[a] = "owner" THEN "read" ELSE "checked"
               x == [tx[t] EXCEPT !.phase = p, !.actor = a,
                                  !.old = members[a], !.new = role]
    <2>1. tx[t] \in Transaction /\ tx[t].kind = "change" /\ Sound(tx[t])
      BY <1>1, OpenFacts DEF ChangeRead, InPhase
    <2>2. x \in Transaction
      BY <2>1, <1>1 DEF Transaction, Phases, IInv, TypeOK
    <2>3. Sound(x)
      BY <2>1, <1>1
         DEF Transaction, Sound, SoundChange, ChangeRead, InPhase
    <2>4. (\A b : ~WritesMember(x, b)) /\ (\A i : ~Consumes(x, i))
      BY <2>1 DEF Transaction, WritesMember, Consumes
    <2>5. Advance(t, x)
      BY <1>1 DEF ChangeRead
    <2>6. QED
      BY <2>2, <2>3, <2>4, <2>5, QuietInv
  <1>2. CASE CountOwners(t)
    <2> DEFINE x == [tx[t] EXCEPT !.phase = "checked"]
    <2>1. /\ tx[t] \in Transaction /\ Sound(tx[t])
          /\ tx[t].kind \in {"change", "remove"} /\ tx[t].phase = "read"
      BY <1>2, OpenFacts DEF CountOwners
    <2>2. x \in Transaction
      BY <2>1 DEF Transaction, Phases
    <2>3. Sound(x)
      BY <2>1 DEF Transaction, Sound, SoundChange, SoundRemove
    <2>4. (\A b : ~WritesMember(x, b)) /\ (\A i : ~Consumes(x, i))
      BY <2>1 DEF Transaction, Sound, SoundRemove, WritesMember, Consumes
    <2>5. Advance(t, x)
      BY <1>2 DEF CountOwners
    <2>6. QED
      BY <2>2, <2>3, <2>4, <2>5, QuietInv
  <1>3. CASE ChangeRevoke(t)
    <2> DEFINE s == {g \in caps : g.actor = tx[t].actor /\ g.bundle = tx[t].old}
               x == [tx[t] EXCEPT !.phase = "revoking", !.scan = s]
    <2>1. tx[t] \in Transaction /\ tx[t].kind = "change" /\ Sound(tx[t])
      BY <1>3, OpenFacts DEF ChangeRevoke, InPhase
    <2>2. x \in Transaction
      BY <2>1 DEF Transaction, Phases, IInv, TypeOK
    <2>3. Sound(x)
      BY <2>1, <1>3 DEF Transaction, Sound, SoundChange, ChangeRevoke, InPhase
    <2>4. (\A b : ~WritesMember(x, b)) /\ (\A i : ~Consumes(x, i))
      BY <2>1 DEF Transaction, WritesMember, Consumes
    <2>5. Advance(t, x)
      BY <1>3 DEF ChangeRevoke
    <2>6. QED
      BY <2>2, <2>3, <2>4, <2>5, QuietInv
  <1>4. CASE ChangeMint(t)
    <2> DEFINE b == Bundle(tx[t].actor, tx[t].new, ActiveProjects)
               x == [tx[t] EXCEPT !.phase = "minted", !.grants = b]
    <2>1. tx[t] \in Transaction /\ tx[t].kind = "change" /\ Sound(tx[t])
      BY <1>4, OpenFacts DEF ChangeMint, InPhase
    <2>2. /\ tx[t].actor \in Actors /\ tx[t].new \in Roles
          /\ ActiveProjects \in SUBSET Projects
      BY <2>1, <1>4 DEF Sound, SoundChange, ChangeMint, InPhase, ActiveProjects
    <2>3. /\ b \in SUBSET Grant
          /\ \A g \in b : g.actor = tx[t].actor
          /\ [actor |-> tx[t].actor, bundle |-> tx[t].new, on |-> Org] \in b
      BY <2>2, BundleFacts
    <2> HIDE DEF b
    <2>4. x \in Transaction
      BY <2>1, <2>3 DEF Transaction, Phases
    <2>5. Sound(x)
      BY <2>1, <2>2, <2>3, <1>4
         DEF Transaction, Sound, SoundChange, ChangeMint, InPhase
    <2>6. (\A a : ~WritesMember(x, a)) /\ (\A i : ~Consumes(x, i))
      BY <2>1 DEF Transaction, WritesMember, Consumes
    <2>7. Advance(t, x)
      BY <1>4 DEF ChangeMint, b
    <2>8. QED
      BY <2>4, <2>5, <2>6, <2>7, QuietInv
  <1>5. CASE ChangeRow(t)
    <2> DEFINE x == [tx[t] EXCEPT !.phase = "ready"]
    <2>1. tx[t] \in Transaction /\ tx[t].kind = "change" /\ Sound(tx[t])
      BY <1>5, OpenFacts DEF ChangeRow, InPhase
    <2>2. x \in Transaction
      BY <2>1 DEF Transaction, Phases
    <2>3. Sound(x)
      BY <2>1, <1>5 DEF Transaction, Sound, SoundChange, ChangeRow, InPhase
    <2>4. \A u \in Txs \ {t} : Open(u) =>
              /\ \A a \in Actors :
                    ~(WritesMember(x, a) /\ WritesMember(tx[u], a))
              /\ \A i \in Invites : ~(Consumes(x, i) /\ Consumes(tx[u], i))
      BY <2>1, <1>5 DEF Transaction, WritesMember, Consumes, ChangeRow,
                        MemberLocked, InPhase
    <2>5. Advance(t, x)
      BY <1>5 DEF ChangeRow
    <2>6. QED
      BY <2>2, <2>3, <2>4, <2>5, AdvanceInv
  <1>6. QED
    BY <1>1, <1>2, <1>3, <1>4, <1>5 DEF Change

\* The statements of remove and of the organisation's soft_delete, and the
\* UPDATE all three revocations end in.
LEMMA WithdrawInv ==
    ASSUME IInv, NEW t \in Txs, Withdraw(t)
    PROVE  IInv'
  <1> USE DEF Open
  <1>1. ASSUME NEW a \in Actors, RemoveRead(t, a)
        PROVE  IInv'
    <2> DEFINE p == IF members[a] = "owner" THEN "read" ELSE "checked"
               x == [tx[t] EXCEPT !.phase = p, !.actor = a, !.old = members[a]]
    <2>1. tx[t] \in Transaction /\ tx[t].kind = "remove" /\ Sound(tx[t])
      BY <1>1, OpenFacts DEF RemoveRead, InPhase
    <2>2. x \in Transaction
      BY <2>1, <1>1 DEF Transaction, Phases, IInv, TypeOK
    <2>3. Sound(x)
      BY <2>1, <1>1 DEF Transaction, Sound, SoundRemove, RemoveRead, InPhase
    <2>4. (\A b : ~WritesMember(x, b)) /\ (\A i : ~Consumes(x, i))
      BY <2>1, <1>1 DEF Transaction, Sound, SoundRemove, WritesMember, Consumes,
                        RemoveRead, InPhase
    <2>5. Advance(t, x)
      BY <1>1 DEF RemoveRead
    <2>6. QED
      BY <2>2, <2>3, <2>4, <2>5, QuietInv
  <1>2. CASE RemoveDelete(t)
    <2> DEFINE x == [tx[t] EXCEPT !.phase = "deleted", !.deletes = TRUE]
    <2>1. tx[t] \in Transaction /\ tx[t].kind = "remove" /\ Sound(tx[t])
      BY <1>2, OpenFacts DEF RemoveDelete, InPhase
    <2>2. x \in Transaction
      BY <2>1 DEF Transaction, Phases
    <2>3. Sound(x)
      BY <2>1, <1>2 DEF Transaction, Sound, SoundRemove, RemoveDelete, InPhase
    <2>4. \A u \in Txs \ {t} : Open(u) =>
              /\ \A a \in Actors :
                    ~(WritesMember(x, a) /\ WritesMember(tx[u], a))
              /\ \A i \in Invites : ~(Consumes(x, i) /\ Consumes(tx[u], i))
      BY <2>1, <1>2 DEF Transaction, WritesMember, Consumes, RemoveDelete,
                        MemberLocked, InPhase
    <2>5. Advance(t, x)
      BY <1>2 DEF RemoveDelete
    <2>6. QED
      BY <2>2, <2>3, <2>4, <2>5, AdvanceInv
  <1>3. CASE RemoveRevoke(t)
    <2> DEFINE s == {g \in caps : g.actor = tx[t].actor}
               x == [tx[t] EXCEPT !.phase = "revoking", !.scan = s]
    <2>1. /\ tx[t] \in Transaction /\ Sound(tx[t])
          /\ tx[t].kind = "remove" /\ tx[t].phase = "deleted"
      BY <1>3, OpenFacts DEF RemoveRevoke, InPhase
    <2>2. x \in Transaction
      BY <2>1 DEF Transaction, Phases, IInv, TypeOK
    <2>3. Sound(x)
      BY <2>1 DEF Transaction, Sound, SoundRemove, OnOrg
    <2>4. /\ \A a \in Actors : WritesMember(x, a) => WritesMember(tx[t], a)
          /\ \A i \in Invites : Consumes(x, i) => Consumes(tx[t], i)
      BY <2>1 DEF Transaction, WritesMember, Consumes
    <2>5. Advance(t, x) /\ Open(t)
      BY <1>3 DEF RemoveRevoke, InPhase
    <2>6. QED
      BY <2>2, <2>3, <2>4, <2>5, KeptInv
  <1>4. ASSUME NEW x \in Transaction, Advance(t, x), tx[t] # None,
               tx[t].kind = "delete", x.kind = "delete", x.grants = {},
               x.phase # "admitted"
        PROVE  IInv'
    <2>1. Sound(tx[t])
      BY <1>4, OpenFacts
    <2>2. Sound(x)
      BY <2>1, <1>4 DEF Sound
    <2>3. (\A b : ~WritesMember(x, b)) /\ (\A i : ~Consumes(x, i))
      BY <1>4 DEF WritesMember, Consumes
    <2>4. QED
      BY <2>2, <2>3, <1>4, QuietInv
  <1>5. CASE DeleteRead(t)
    <2> DEFINE x == [tx[t] EXCEPT !.phase = "checked"]
    <2>1. tx[t] \in Transaction /\ tx[t].kind = "delete" /\ tx[t].grants = {}
      BY <1>5, OpenFacts DEF DeleteRead, InPhase, Sound
    <2>2. /\ x \in Transaction
          /\ x.kind = "delete" /\ x.grants = {} /\ x.phase # "admitted"
      BY <2>1 DEF Transaction, Phases
    <2>3. Advance(t, x) /\ tx[t] # None
      BY <1>5 DEF DeleteRead, InPhase
    <2> HIDE DEF x
    <2>4. QED
      BY <1>4, <2>1, <2>2, <2>3
  <1>6. CASE DeleteStamp(t)
    <2> DEFINE x == [tx[t] EXCEPT !.phase = "stamped"]
    <2>1. tx[t] \in Transaction /\ tx[t].kind = "delete" /\ tx[t].grants = {}
      BY <1>6, OpenFacts DEF DeleteStamp, InPhase, Sound
    <2>2. /\ x \in Transaction
          /\ x.kind = "delete" /\ x.grants = {} /\ x.phase # "admitted"
      BY <2>1 DEF Transaction, Phases
    <2>3. Advance(t, x) /\ tx[t] # None
      BY <1>6 DEF DeleteStamp, InPhase
    <2> HIDE DEF x
    <2>4. QED
      BY <1>4, <2>1, <2>2, <2>3
  <1>7. CASE DeleteRevoke(t)
    <2> DEFINE x == [tx[t] EXCEPT !.phase = "revoking", !.scan = caps]
    <2>1. tx[t] \in Transaction /\ tx[t].kind = "delete" /\ tx[t].grants = {}
      BY <1>7, OpenFacts DEF DeleteRevoke, InPhase, Sound
    <2>2. /\ x \in Transaction
          /\ x.kind = "delete" /\ x.grants = {} /\ x.phase # "admitted"
      BY <2>1 DEF Transaction, Phases, IInv, TypeOK
    <2>3. Advance(t, x) /\ tx[t] # None
      BY <1>7 DEF DeleteRevoke, InPhase
    <2> HIDE DEF x
    <2>4. QED
      BY <1>4, <2>1, <2>2, <2>3
  <1>8. CASE Revoke(t)
    <2> DEFINE p == IF tx[t].kind = "change" THEN "revoked" ELSE "ready"
               r == tx[t].scan \cap caps
               x == [tx[t] EXCEPT !.phase = p, !.scan = {}, !.revokes = r]
    <2>1. tx[t] \in Transaction /\ tx[t].phase = "revoking" /\ Sound(tx[t])
      BY <1>8, OpenFacts DEF Revoke
    <2>2. x \in Transaction
      BY <2>1 DEF Transaction, Phases
    <2>3. tx[t].kind \in {"change", "remove", "delete"}
      BY <2>1 DEF Transaction, Kinds, Sound, SoundAccept, SoundProject
    <2>4. Sound(x)
      <3>1. CASE tx[t].kind = "change"
        BY <3>1, <2>1 DEF Transaction, Sound, SoundChange
      <3>2. CASE tx[t].kind = "remove"
        BY <3>2, <2>1 DEF Transaction, Sound, SoundRemove
      <3>3. CASE tx[t].kind = "delete"
        BY <3>3, <2>1 DEF Transaction, Sound
      <3>4. QED
        BY <2>3, <3>1, <3>2, <3>3
    <2>5. /\ \A a \in Actors : WritesMember(x, a) => WritesMember(tx[t], a)
          /\ \A i \in Invites : Consumes(x, i) => Consumes(tx[t], i)
      BY <2>1, <2>3 DEF Transaction, WritesMember, Consumes
    <2>6. Advance(t, x) /\ Open(t)
      BY <1>8 DEF Revoke
    <2>7. QED
      BY <2>2, <2>4, <2>5, <2>6, KeptInv
  <1>9. CASE RemoveMissed(t)
    <2> DEFINE x == [tx[t] EXCEPT !.phase = "deleted"]
    <2>1. /\ tx[t] \in Transaction /\ Sound(tx[t])
          /\ tx[t].kind = "remove" /\ tx[t].phase = "checked"
      BY <1>9, OpenFacts DEF RemoveMissed, InPhase
    <2>2. x \in Transaction
      BY <2>1 DEF Transaction, Phases
    <2>3. Sound(x)
      BY <2>1 DEF Transaction, Sound, SoundRemove
    <2>4. (\A b : ~WritesMember(x, b)) /\ (\A i : ~Consumes(x, i))
      BY <2>1 DEF Transaction, Sound, SoundRemove, WritesMember, Consumes
    <2>5. Advance(t, x)
      BY <1>9 DEF RemoveMissed
    <2>6. QED
      BY <2>2, <2>3, <2>4, <2>5, QuietInv
  <1>10. QED
    BY <1>1, <1>2, <1>3, <1>5, <1>6, <1>7, <1>8, <1>9 DEF Withdraw

\* The statements of accept and of ProjectService.create.
LEMMA GrowInv ==
    ASSUME IInv, NEW t \in Txs, Grow(t)
    PROVE  IInv'
  <1> USE DEF Open
  <1>1. ASSUME NEW i \in Invites, NEW a \in Actors, AcceptRead(t, i, a)
        PROVE  IInv'
    <2> DEFINE x == [Request("accept") EXCEPT
                        !.phase = "read", !.actor = a, !.invite = i,
                        !.new = invites[i].role]
    <2>1. invites[i] \in Invitation /\ invites[i].role \in Roles
      BY <1>1 DEF AcceptRead, IInv, TypeOK, Invitation, InviteRoles
    <2>2. x \in Transaction
      BY <2>1 DEF Transaction, Phases, Kinds, Request
    <2>3. Sound(x)
      BY <1>1 DEF AcceptRead, Sound, SoundAccept, Request, IInv, NotCreated
    <2>4. (\A b : ~WritesMember(x, b)) /\ (\A j : ~Consumes(x, j))
      BY DEF WritesMember, Consumes, Request
    <2>5. Advance(t, x)
      BY <1>1 DEF AcceptRead
    <2>6. QED
      BY <2>2, <2>3, <2>4, <2>5, QuietInv
  <1>2. CASE AcceptOrg(t) \/ AcceptMember(t)
    <2> DEFINE p == IF tx[t].phase = "read" THEN "seated" ELSE "checked"
               x == [tx[t] EXCEPT !.phase = p]
    <2>1. tx[t] \in Transaction /\ tx[t].kind = "accept" /\ Sound(tx[t])
      BY <1>2, OpenFacts DEF AcceptOrg, AcceptMember, InPhase
    <2>2. x \in Transaction
      BY <2>1 DEF Transaction, Phases
    <2>3. Sound(x)
      BY <2>1 DEF Transaction, Sound, SoundAccept
    <2>4. (\A b : ~WritesMember(x, b)) /\ (\A j : ~Consumes(x, j))
      BY <2>1 DEF Transaction, WritesMember, Consumes
    <2>5. Advance(t, x)
      BY <1>2 DEF AcceptOrg, AcceptMember, InPhase
    <2>6. QED
      BY <2>2, <2>3, <2>4, <2>5, QuietInv
  <1>3. CASE AcceptConsume(t)
    <2> DEFINE x == [tx[t] EXCEPT !.phase = "consumed"]
    <2>1. tx[t] \in Transaction /\ tx[t].kind = "accept" /\ Sound(tx[t])
      BY <1>3, OpenFacts DEF AcceptConsume, InPhase
    <2>2. x \in Transaction
      BY <2>1 DEF Transaction, Phases
    <2>3. Sound(x)
      BY <2>1, <1>3 DEF Transaction, Sound, SoundAccept, AcceptConsume
    <2>4. \A u \in Txs \ {t} : Open(u) =>
              /\ \A a \in Actors :
                    ~(WritesMember(x, a) /\ WritesMember(tx[u], a))
              /\ \A i \in Invites : ~(Consumes(x, i) /\ Consumes(tx[u], i))
      BY <2>1, <1>3 DEF Transaction, WritesMember, Consumes, AcceptConsume,
                        InviteLocked, InPhase
    <2>5. Advance(t, x)
      BY <1>3 DEF AcceptConsume
    <2>6. QED
      BY <2>2, <2>3, <2>4, <2>5, AdvanceInv
  <1>4. CASE AcceptJoin(t)
    <2> DEFINE x == [tx[t] EXCEPT !.phase = "joined"]
    <2>1. /\ tx[t] \in Transaction /\ Sound(tx[t])
          /\ tx[t].kind = "accept" /\ tx[t].phase = "consumed"
      BY <1>4, OpenFacts DEF AcceptJoin, InPhase
    <2>2. x \in Transaction
      BY <2>1 DEF Transaction, Phases
    <2>3. Sound(x)
      BY <2>1, <1>4 DEF Transaction, Sound, SoundAccept, AcceptJoin
    <2>4. \A u \in Txs \ {t} : Open(u) =>
              /\ \A a \in Actors :
                    ~(WritesMember(x, a) /\ WritesMember(tx[u], a))
              /\ \A i \in Invites : ~(Consumes(x, i) /\ Consumes(tx[u], i))
      <3>1. \A i \in Invites : Consumes(x, i) => Consumes(tx[t], i)
        BY <2>1 DEF Transaction, Consumes
      <3>2. \A u \in Txs \ {t} : Open(u) =>
               \A a \in Actors :
                  ~(WritesMember(x, a) /\ WritesMember(tx[u], a))
        BY <2>1, <1>4 DEF Transaction, WritesMember, AcceptJoin, MemberLocked
      <3>3. QED
        BY <3>1, <3>2, <1>4 DEF IInv, Exclusive, AcceptJoin, InPhase
    <2>5. Advance(t, x)
      BY <1>4 DEF AcceptJoin
    <2>6. QED
      BY <2>2, <2>3, <2>4, <2>5, AdvanceInv
  <1>5. CASE AcceptMint(t)
    <2> DEFINE b == Bundle(tx[t].actor, tx[t].new, ActiveProjects)
               x == [tx[t] EXCEPT !.phase = "ready", !.grants = b]
    <2>1. /\ tx[t] \in Transaction /\ Sound(tx[t])
          /\ tx[t].kind = "accept" /\ tx[t].phase = "joined"
      BY <1>5, OpenFacts DEF AcceptMint, InPhase
    <2>2. /\ tx[t].actor \in Actors /\ tx[t].new \in Roles
          /\ ActiveProjects \in SUBSET Projects
      BY <2>1, OpenFacts, <1>5
         DEF Sound, SoundAccept, AcceptMint, InPhase, ActiveProjects,
             Invitation, InviteRoles
    <2>3. /\ b \in SUBSET Grant
          /\ \A g \in b : g.actor = tx[t].actor
          /\ [actor |-> tx[t].actor, bundle |-> tx[t].new, on |-> Org] \in b
      BY <2>2, BundleFacts
    <2> HIDE DEF b
    <2>4. x \in Transaction
      BY <2>1, <2>3 DEF Transaction, Phases
    <2>5. Sound(x)
      BY <2>1, <2>2, <2>3 DEF Transaction, Sound, SoundAccept
    <2>6. /\ \A a \in Actors : WritesMember(x, a) => WritesMember(tx[t], a)
          /\ \A i \in Invites : Consumes(x, i) => Consumes(tx[t], i)
      BY <2>1 DEF Transaction, WritesMember, Consumes
    <2>7. Advance(t, x) /\ Open(t)
      BY <1>5 DEF AcceptMint, InPhase, b
    <2>8. QED
      BY <2>4, <2>5, <2>6, <2>7, KeptInv
  <1>6. ASSUME NEW x \in Transaction, Advance(t, x), tx[t] # None,
               tx[t].kind = "project", x.kind = "project",
               x.phase \in {"inserted", "ready"}, x.project \in Projects,
               x.scan = {}, x.revokes = {}, \A g \in x.grants : g.on # Org
        PROVE  IInv'
    <2>1. Sound(tx[t])
      BY <1>6, OpenFacts
    <2>2. Sound(x)
      BY <2>1, <1>6 DEF Sound, SoundProject
    <2>3. (\A b : ~WritesMember(x, b)) /\ (\A i : ~Consumes(x, i))
      BY <1>6 DEF WritesMember, Consumes
    <2>4. QED
      BY <2>2, <2>3, <1>6, QuietInv
  <1>7. ASSUME NEW p \in Projects, ProjectInsert(t, p)
        PROVE  IInv'
    <2> DEFINE x == [tx[t] EXCEPT !.phase = "inserted", !.project = p]
    <2>1. /\ tx[t] \in Transaction /\ Sound(tx[t])
          /\ tx[t].kind = "project" /\ SoundProject(tx[t])
      BY <1>7, OpenFacts DEF ProjectInsert, InPhase, Sound
    <2>2. /\ x \in Transaction /\ x.kind = "project" /\ x.phase = "inserted"
          /\ x.project \in Projects /\ x.scan = {} /\ x.revokes = {}
          /\ \A g \in x.grants : g.on # Org
      BY <2>1 DEF Transaction, Phases, SoundProject
    <2>3. Advance(t, x) /\ tx[t] # None
      BY <1>7 DEF ProjectInsert, InPhase
    <2> HIDE DEF x
    <2>4. QED
      BY <1>6, <2>1, <2>2, <2>3
  <1>8. CASE ProjectFanOut(t)
    <2> DEFINE b == {[actor |-> a, bundle |-> members[a], on |-> tx[t].project] :
                        a \in {c \in Actors : members[c] \in ProjectRoles}}
               x == [tx[t] EXCEPT !.phase = "ready", !.grants = b]
    <2>1. /\ tx[t] \in Transaction /\ Sound(tx[t])
          /\ tx[t].kind = "project" /\ SoundProject(tx[t])
          /\ tx[t].project \in Projects
      BY <1>8, OpenFacts DEF ProjectFanOut, InPhase, Sound, SoundProject
    <2>2. b \in SUBSET Grant /\ \A g \in b : g.on # Org
      BY <2>1, OrgAssumption DEF Grant, ProjectRoles
    <2>3. Advance(t, x) /\ tx[t] # None
      BY <1>8 DEF ProjectFanOut, InPhase
    <2> HIDE DEF b
    <2>4. /\ x \in Transaction /\ x.kind = "project" /\ x.phase = "ready"
          /\ x.project \in Projects /\ x.scan = {} /\ x.revokes = {}
          /\ \A g \in x.grants : g.on # Org
      BY <2>1, <2>2 DEF Transaction, Phases, SoundProject
    <2> HIDE DEF x
    <2>5. QED
      BY <1>6, <2>1, <2>3, <2>4
  <1>9. QED
    BY <1>1, <1>2, <1>3, <1>4, <1>5, <1>7, <1>8 DEF Grow

-----------------------------------------------------------------------------
\* COMMIT: the transaction's writes appear at once.  Its locks are what makes
\* them fit the writes other transactions still hold back.
LEMMA CommitInv ==
    ASSUME IInv, NEW t \in Txs, Commit(t)
    PROVE  IInv'
  <1> DEFINE x == tx[t]
             row == [role |-> x.new, by |-> x.actor,
                     expired |-> invites[x.invite].expired]
  <1>1. /\ x \in Transaction /\ Sound(x) /\ x.phase = "ready" /\ Open(t)
        /\ x.kind \in Kinds
    BY OpenFacts DEF Commit, Open, Transaction
  <1>2. /\ org' = IF x.kind = "delete" THEN "deleted" ELSE org
        /\ members' = IF WritesRow(x) THEN [members EXCEPT ![x.actor] = x.new]
                       ELSE members
        /\ projects' = IF x.kind = "project"
                         THEN [projects EXCEPT ![x.project] = "active"]
                         ELSE projects
        /\ invites' = IF x.kind = "accept"
                        THEN [invites EXCEPT ![x.invite] = row] ELSE invites
        /\ caps' = (caps \ x.revokes) \cup x.grants
        /\ tx' = [u \in Txs |->
                     IF u = t \/ tx[u] = None THEN None
                     ELSE [tx[u] EXCEPT !.scan = @ \ x.grants,
                                        !.revokes = @ \ x.grants]]
    BY DEF Commit
  <1>3. /\ WritesRow(x) => x.actor \in Actors /\ x.new \in Roles \cup {None}
        /\ x.kind \in {"change", "accept"} => WritesRow(x) /\ x.new \in Roles
        /\ x.kind = "remove" => x.new = None
        /\ x.kind = "accept" =>
              /\ x.invite \in Invites
              /\ invites[x.invite] \in Invitation
              /\ x.new = invites[x.invite].role
    BY <1>1, OpenFacts, RowWriters
       DEF Sound, SoundChange, SoundRemove, SoundAccept, Invitation, InviteRoles
  <1>4. \A g \in x.grants : g.on = Org =>
           x.kind \in {"change", "accept"} /\ g.actor = x.actor
    BY <1>1 DEF Sound, SoundChange, SoundRemove, SoundAccept, SoundProject,
                Kinds
  <1>5. WritesRow(x) => WritesMember(x, x.actor)
    BY <1>1, RowWriters DEF WritesMember
  <1>6. ASSUME NEW u \in Txs, Open(u)'
        PROVE  /\ u # t /\ Open(u)
               /\ tx[u] \in Transaction /\ Sound(tx[u])
               /\ tx'[u] = [tx[u] EXCEPT !.scan = @ \ x.grants,
                                        !.revokes = @ \ x.grants]
               /\ tx'[u] \in Transaction
               /\ tx'[u].kind = tx[u].kind /\ tx'[u].phase = tx[u].phase
               /\ tx'[u].actor = tx[u].actor /\ tx'[u].new = tx[u].new
               /\ tx'[u].invite = tx[u].invite
               /\ tx'[u].deletes = tx[u].deletes
               /\ tx'[u].project = tx[u].project
               /\ tx'[u].grants = tx[u].grants
               /\ tx'[u].scan = tx[u].scan \ x.grants
               /\ tx'[u].revokes = tx[u].revokes \ x.grants
    <2>1. u # t /\ Open(u)
      BY <1>2, <1>6 DEF Open
    <2>2. tx[u] \in Transaction /\ Sound(tx[u])
      BY <2>1, OpenFacts
    <2>3. tx'[u] = [tx[u] EXCEPT !.scan = @ \ x.grants,
                                 !.revokes = @ \ x.grants]
      BY <1>2, <2>1 DEF Open
    <2>4. QED
      BY <2>1, <2>2, <2>3 DEF Transaction
  <1> HIDE DEF x
  <1>7. TypeOK'
    <2>1. members' \in [Actors -> Roles \cup {None}]
      BY <1>2, <1>3 DEF IInv, TypeOK
    <2>2. projects' \in [Projects -> {"absent", "active", "deleted"}]
      BY <1>2 DEF IInv, TypeOK
    <2>3. invites' \in [Invites -> Invitation \cup {None}]
      <3>1. x.kind = "accept" => row \in Invitation
        BY <1>3 DEF Invitation
      <3>2. QED
        BY <1>2, <3>1 DEF IInv, TypeOK
    <2>4. caps' \subseteq Grant
      BY <1>1, <1>2 DEF IInv, TypeOK, Transaction
    <2>5. tx' \in [Txs -> Transaction \cup {None}]
      BY <1>2, <1>6 DEF Open
    <2>6. org' \in {"absent", "active", "deleted"}
      BY <1>2 DEF IInv, TypeOK
    <2>7. QED
      BY <2>1, <2>2, <2>3, <2>4, <2>5, <2>6 DEF TypeOK
  <1>8. Exclusive'
    <2> SUFFICES ASSUME NEW u \in Txs, NEW v \in Txs, u # v,
                        Open(u)', Open(v)'
                 PROVE  /\ \A a \in Actors :
                              ~(WritesMember(tx'[u], a) /\ WritesMember(tx'[v], a))
                        /\ \A i \in Invites :
                              ~(Consumes(tx'[u], i) /\ Consumes(tx'[v], i))
      BY DEF Exclusive, WritesMember, Consumes
    <2>1. /\ \A a \in Actors : ~(WritesMember(tx[u], a) /\ WritesMember(tx[v], a))
          /\ \A i \in Invites : ~(Consumes(tx[u], i) /\ Consumes(tx[v], i))
      BY <1>6 DEF IInv, Exclusive
    <2>2. QED
      BY <2>1, <1>6 DEF WritesMember, Consumes
  <1>9. InFlight'
    <2> SUFFICES ASSUME NEW u \in Txs, Open(u)' PROVE Sound(tx[u])'
      BY DEF InFlight
    <2>1. /\ \A a \in Actors : ~(WritesMember(x, a) /\ WritesMember(tx[u], a))
          /\ \A i \in Invites : ~(Consumes(x, i) /\ Consumes(tx[u], i))
      BY <1>1, <1>6 DEF IInv, Exclusive, x
    <2>2. org' # "absent"
      BY <1>1, <1>2 DEF Sound
    <2>3. \A a \in Actors : WritesMember(tx[u], a) => members'[a] = members[a]
      BY <2>1, <1>2, <1>3, <1>5 DEF IInv, TypeOK
    <2>4. ASSUME tx[u].kind = "change" PROVE SoundChange(tx[u])'
      <3>1. SoundChange(tx[u])
        BY <2>4, <1>6 DEF Sound
      <3>2. tx[u].phase = "ready" => WritesMember(tx[u], tx[u].actor)
        BY <2>4 DEF WritesMember
      <3>3. tx[u].phase = "ready" => members'[tx[u].actor] # None
        BY <3>1, <3>2, <2>3 DEF SoundChange
      <3>4. QED
        BY <3>1, <3>3, <1>6 DEF SoundChange
    <2>5. ASSUME tx[u].kind = "remove" PROVE SoundRemove(tx[u])'
      <3>1. SoundRemove(tx[u])
        BY <2>5, <1>6 DEF Sound
      <3>2. tx[u].deletes =>
               /\ tx[u].actor \in Actors
               /\ WritesMember(tx[u], tx[u].actor)
        BY <3>1, <2>5 DEF WritesMember, SoundRemove
      <3>3. ASSUME tx[u].deletes, NEW g \in caps', OnOrg(g, tx[u].actor)
            PROVE  g \in caps /\ g \notin x.grants
        BY <3>2, <3>3, <2>1, <1>2, <1>3, <1>4, <1>5 DEF OnOrg
      <3>4. tx[u].deletes /\ tx[u].phase = "revoking" =>
               \A g \in caps' : OnOrg(g, tx[u].actor) => g \in tx'[u].scan
        BY <3>1, <3>3, <1>6 DEF SoundRemove
      <3>5. tx[u].deletes /\ tx[u].phase = "ready" =>
               \A g \in caps' : OnOrg(g, tx[u].actor) => g \in tx'[u].revokes
        BY <3>1, <3>3, <1>6 DEF SoundRemove
      <3>6. QED
        BY <3>1, <3>4, <3>5, <1>6 DEF SoundRemove, OnOrg
    <2>6. ASSUME tx[u].kind = "accept" PROVE SoundAccept(tx[u])'
      <3>1. SoundAccept(tx[u])
        BY <2>6, <1>6 DEF Sound
      <3>2. /\ tx[u].phase \in {"joined", "ready"} =>
                  WritesMember(tx[u], tx[u].actor)
            /\ tx[u].phase \in {"consumed", "joined", "ready"} =>
                  Consumes(tx[u], tx[u].invite)
        BY <2>6 DEF WritesMember, Consumes
      <3>3. tx[u].phase \in {"joined", "ready"} => members'[tx[u].actor] = None
        BY <3>1, <3>2, <2>3 DEF SoundAccept
      <3>4. /\ invites'[tx[u].invite] # None
            /\ invites'[tx[u].invite].role = invites[tx[u].invite].role
        <4>1. CASE x.kind = "accept" /\ x.invite = tx[u].invite
          <5>1. invites'[tx[u].invite] = row
            BY <4>1, <3>1, <1>2 DEF IInv, TypeOK, SoundAccept
          <5>2. row \in Invitation /\ row.role = invites[x.invite].role
            BY <4>1, <1>3 DEF Invitation
          <5>3. QED
            BY <5>1, <5>2, <4>1, NoneAssumption
        <4>2. CASE ~(x.kind = "accept" /\ x.invite = tx[u].invite)
          BY <4>2, <3>1, <1>2 DEF IInv, TypeOK, SoundAccept
        <4>3. QED
          BY <4>1, <4>2
      <3>5. tx[u].phase \in {"consumed", "joined", "ready"} =>
               invites'[tx[u].invite].by = None
        <4>1. x.kind = "accept" => Consumes(x, x.invite)
          BY <1>1 DEF Consumes, x
        <4>2. QED
          BY <4>1, <3>1, <3>2, <2>1, <1>2, <1>3
             DEF IInv, TypeOK, SoundAccept
      <3>6. QED
        BY <3>1, <3>3, <3>4, <3>5, <1>6 DEF SoundAccept
    <2>7. ASSUME tx[u].kind = "project" PROVE SoundProject(tx[u])'
      BY <2>7, <1>6 DEF Sound, SoundProject
    <2>8. /\ Sound(tx[u])
          /\ tx'[u].kind = tx[u].kind /\ tx'[u].phase = tx[u].phase
          /\ tx'[u].project = tx[u].project /\ tx'[u].grants = tx[u].grants
          /\ tx[u].scan = {} => tx'[u].scan = {}
          /\ tx[u].revokes = {} => tx'[u].revokes = {}
      BY <1>6
    <2>9. QED
      BY <2>2, <2>4, <2>5, <2>6, <2>7, <2>8 DEF Sound
  <1>10. NotCreated'
    BY <1>1, <1>2 DEF Sound, NotCreated
  <1>11. OutsiderHoldsNoOrgGrant'
    <2> SUFFICES ASSUME NEW g \in caps', g.on = Org
                 PROVE  members'[g.actor] # None
      BY DEF OutsiderHoldsNoOrgGrant
    <2>1. g \in Grant /\ g.actor \in Actors
      BY <1>7 DEF TypeOK, Grant
    <2>2. CASE g \in x.grants
      BY <2>2, <1>2, <1>3, <1>4, NoneAssumption DEF IInv, TypeOK
    <2>3. CASE g \notin x.grants
      <3>1. g \in caps /\ g \notin x.revokes /\ members[g.actor] # None
        BY <2>3, <1>2 DEF IInv, OutsiderHoldsNoOrgGrant
      <3>2. CASE WritesRow(x) /\ g.actor = x.actor
        <4>1. x.kind # "remove"
          BY <3>1, <3>2, <1>1, RowWriters DEF Sound, SoundRemove, OnOrg
        <4>2. QED
          BY <4>1, <3>2, <2>1, <1>2, <1>3, RowWriters, NoneAssumption
             DEF IInv, TypeOK
      <3>3. CASE ~(WritesRow(x) /\ g.actor = x.actor)
        BY <3>1, <3>3, <2>1, <1>2, <1>3 DEF IInv, TypeOK
      <3>4. QED
        BY <3>2, <3>3
    <2>4. QED
      BY <2>2, <2>3
  <1>12. QED
    BY <1>7, <1>8, <1>9, <1>10, <1>11 DEF IInv

\* The creation of the organisation, an invitation's expiry, and the ends of a
\* request but Commit.
LEMMA OneStepInv ==
    ASSUME IInv,
           \/ \E a \in Actors : CreateOrg(a)
           \/ \E i \in Invites : ExpireInvite(i)
           \/ \E t \in Txs :
                 \/ \E i \in Invites, role \in InviteRoles : Invite(t, i, role)
                 \/ DeleteProject(t)
                 \/ Rollback(t)
           \/ UNCHANGED vars
    PROVE  IInv'
  <1> USE DEF Open
  <1>1. ASSUME NEW a \in Actors, CreateOrg(a) PROVE IInv'
    <2>1. "owner" \in Roles
      BY RolesAssumption
    <2>2. /\ Bundle(a, "owner", {}) \in SUBSET Grant
          /\ \A g \in Bundle(a, "owner", {}) : g.actor = a
          /\ [actor |-> a, bundle |-> "owner", on |-> Org] \in Bundle(a, "owner", {})
      BY <2>1, BundleFacts
    <2>3. /\ \A t \in Txs : tx'[t] = None
          /\ org' = "active" /\ org = "absent"
          /\ members' = [members EXCEPT ![a] = "owner"]
          /\ caps' = caps \cup Bundle(a, "owner", {})
          /\ \A b \in Actors : members[b] = None
      BY <1>1 DEF CreateOrg, IInv, InFlight, Sound, NotCreated
    <2>4. TypeOK'
      BY <1>1, <2>1, <2>2 DEF IInv, TypeOK, CreateOrg
    <2>5. InFlight' /\ Exclusive' /\ NotCreated'
      BY <2>3 DEF InFlight, Exclusive, NotCreated
    <2>6. OutsiderHoldsNoOrgGrant'
      BY <2>2, <2>3, <2>4, NoneAssumption, <2>1
         DEF IInv, TypeOK, OutsiderHoldsNoOrgGrant
    <2>7. QED
      BY <2>4, <2>5, <2>6 DEF IInv
  <1>2. ASSUME UNCHANGED <<org, members, caps>>, TypeOK',
               \A t \in Txs : tx'[t] \in {None, tx[t]},
               org = "absent" => invites' = invites,
               \A j \in Invites : invites[j] # None =>
                  /\ invites'[j] # None
                  /\ invites'[j].role = invites[j].role
                  /\ invites'[j].by = invites[j].by
        PROVE  IInv'
    <2>1. InFlight'
      <3> SUFFICES ASSUME NEW t \in Txs, Open(t)' PROVE Sound(tx[t])'
        BY DEF InFlight
      <3>1. tx'[t] = tx[t] /\ Sound(tx[t])
        BY <1>2 DEF IInv, InFlight
      <3>2. QED
        BY <1>2, <3>1
           DEF Sound, SoundChange, SoundRemove, SoundAccept, SoundProject
    <2>2. Exclusive'
      BY <1>2 DEF IInv, Exclusive, WritesMember, Consumes
    <2>3. NotCreated' /\ OutsiderHoldsNoOrgGrant'
      BY <1>2 DEF IInv, NotCreated, OutsiderHoldsNoOrgGrant
    <2>4. QED
      BY <1>2, <2>1, <2>2, <2>3 DEF IInv
  <1>3. ASSUME NEW i \in Invites, ExpireInvite(i) PROVE IInv'
    <2> DEFINE late == [role |-> invites[i].role, expired |-> TRUE, by |-> None]
    <2>1. invites[i] \in Invitation /\ invites[i].by = None
      BY <1>3 DEF ExpireInvite, IInv, TypeOK
    <2>2. late \in Invitation
      BY <2>1 DEF Invitation
    <2>3. invites' = [invites EXCEPT ![i] = late]
      BY <1>3 DEF ExpireInvite
    <2>4. TypeOK'
      BY <2>2, <2>3, <1>3 DEF ExpireInvite, IInv, TypeOK
    <2>5. \A j \in Invites : invites[j] # None =>
             /\ invites'[j] # None
             /\ invites'[j].role = invites[j].role
             /\ invites'[j].by = invites[j].by
      BY <2>1, <2>2, <2>3, NoneAssumption DEF IInv, TypeOK
    <2>6. org # "absent"
      BY <2>1, NoneAssumption DEF IInv, NotCreated
    <2>7. QED
      BY <1>2, <1>3, <2>4, <2>5, <2>6 DEF ExpireInvite
  <1>4. ASSUME NEW t \in Txs, NEW i \in Invites, NEW role \in InviteRoles,
               Invite(t, i, role)
        PROVE  IInv'
    <2> DEFINE fresh == [role |-> role, expired |-> FALSE, by |-> None]
    <2>1. invites' = [invites EXCEPT ![i] = fresh] /\ invites[i] = None
      BY <1>4 DEF Invite
    <2>2. fresh \in Invitation
      BY DEF Invitation
    <2>3. TypeOK' /\ \A u \in Txs : tx'[u] \in {None, tx[u]}
      BY <2>1, <2>2, <1>4 DEF Invite, IInv, TypeOK
    <2>4. \A j \in Invites : invites[j] # None => invites'[j] = invites[j]
      BY <2>1 DEF IInv, TypeOK
    <2>5. org # "absent"
      BY <1>4, OpenFacts DEF Invite, InPhase, Sound
    <2>6. QED
      BY <1>2, <1>4, <2>3, <2>4, <2>5 DEF Invite
  <1>5. ASSUME NEW t \in Txs, DeleteProject(t)
        PROVE  IInv'
    <2>1. TypeOK' /\ \A u \in Txs : tx'[u] \in {None, tx[u]}
      BY <1>5 DEF DeleteProject, IInv, TypeOK
    <2>2. QED
      BY <1>2, <1>5, <2>1 DEF DeleteProject
  <1>6. ASSUME NEW t \in Txs, Rollback(t)
        PROVE  IInv'
    <2>1. TypeOK' /\ \A u \in Txs : tx'[u] \in {None, tx[u]}
      BY <1>6 DEF Rollback, IInv, TypeOK
    <2>2. QED
      BY <1>2, <1>6, <2>1 DEF Rollback
  <1>7. CASE UNCHANGED vars
    BY <1>2, <1>7 DEF vars, IInv, TypeOK
  <1>8. QED
    BY <1>1, <1>3, <1>4, <1>5, <1>6, <1>7

\* It holds before the organisation is created.
LEMMA InitInv == Init => IInv
  BY DEF Init, IInv, TypeOK, InFlight, Exclusive, NotCreated,
         OutsiderHoldsNoOrgGrant, Open

\* No step of a request breaks it (tenants/service.py).
LEMMA InvInductive == IInv /\ [Next]_vars => IInv'
  BY GateInv, ChangeInv, WithdrawInv, GrowInv, CommitInv, OneStepInv DEF Next, End

\* The types of every variable, whatever requests overlap.
THEOREM TypeCorrect == Spec => []TypeOK
  <1>1. IInv => TypeOK
    BY DEF IInv
  <1>2. QED
    BY <1>1, InitInv, InvInductive, PTL DEF Spec

\* Nobody without a membership holds a capability on the organisation itself.
THEOREM OutsidersHoldNoOrgGrant == Spec => []OutsiderHoldsNoOrgGrant
  <1>1. IInv => OutsiderHoldsNoOrgGrant
    BY DEF IInv
  <1>2. QED
    BY <1>1, InitInv, InvInductive, PTL DEF Spec

-----------------------------------------------------------------------------
\* What a step may do to members and invitations.
JoinStep ==
    /\ \A a \in Actors :
          members[a] = None /\ members'[a] # None =>
              \/ org = "absent"
              \/ \E i \in Invites :
                    /\ invites[i] # None
                    /\ invites[i].by = None
                    /\ invites'[i].by = a
                    /\ members'[a] = invites[i].role
    /\ \A i \in Invites :
          invites[i] # None => invites[i].by \in {None, invites'[i].by}

\* A membership appears with the consumption of an invitation
\* (MembershipService.accept).
LEMMA JoinStepHolds == IInv /\ [Next]_vars => JoinStep
  <1> SUFFICES ASSUME IInv, [Next]_vars PROVE JoinStep
    OBVIOUS
  <1>1. ASSUME NEW t \in Txs, Commit(t) PROVE JoinStep
    <2> DEFINE x == tx[t]
    <2>1. /\ x.kind \in Kinds /\ Sound(x) /\ x.phase = "ready"
      BY <1>1, OpenFacts DEF Commit, Open, Transaction
    <2>2. CASE x.kind = "accept"
      <3> DEFINE row == [role |-> x.new, by |-> x.actor,
                         expired |-> invites[x.invite].expired]
      <3>1. SoundAccept(x)
        BY <2>1, <2>2 DEF Sound
      <3>2. /\ members' = [members EXCEPT ![x.actor] = x.new]
            /\ invites' = [invites EXCEPT ![x.invite] = row]
        BY <1>1, <2>2, RowWriters DEF Commit
      <3>3. /\ invites'[x.invite].by = x.actor
            /\ members'[x.actor] = invites[x.invite].role
            /\ invites[x.invite] # None /\ invites[x.invite].by = None
            /\ \A a \in Actors \ {x.actor} : members'[a] = members[a]
            /\ \A i \in Invites \ {x.invite} : invites'[i] = invites[i]
        BY <3>1, <3>2, <2>1 DEF SoundAccept, IInv, TypeOK
      <3>4. QED
        BY <3>1, <3>3 DEF JoinStep, SoundAccept
    <2>3. CASE x.kind = "change"
      <3>1. SoundChange(x)
        BY <2>1, <2>3 DEF Sound
      <3>2. /\ members' = [members EXCEPT ![x.actor] = x.new]
            /\ invites' = invites
        BY <1>1, <2>3, RowWriters DEF Commit
      <3>3. QED
        BY <3>1, <3>2, <2>1 DEF SoundChange, JoinStep, IInv, TypeOK
    <2>4. CASE x.kind = "remove"
      <3>1. SoundRemove(x)
        BY <2>1, <2>4 DEF Sound
      <3>2. /\ \/ members' = members
               \/ members' = [members EXCEPT ![x.actor] = x.new]
            /\ invites' = invites
        BY <1>1, <2>4, RowWriters DEF Commit
      <3>3. QED
        BY <3>1, <3>2, <2>1 DEF SoundRemove, JoinStep, IInv, TypeOK
    <2>5. CASE x.kind \in {"project", "delete"}
      BY <1>1, <2>5, RowWriters DEF Commit, JoinStep
    <2>6. x.kind \notin {"invite", "unproject"}
      BY <2>1 DEF Sound
    <2>7. QED
      BY <2>1, <2>2, <2>3, <2>4, <2>5, <2>6 DEF Kinds
  <1>2. ASSUME NEW a \in Actors, CreateOrg(a) PROVE JoinStep
    BY <1>2 DEF CreateOrg, JoinStep
  <1>3. ASSUME NEW t \in Txs, NEW i \in Invites, NEW role \in InviteRoles,
               Invite(t, i, role)
        PROVE  JoinStep
    BY <1>3 DEF Invite, JoinStep, IInv, TypeOK
  <1>4. ASSUME NEW i \in Invites, ExpireInvite(i) PROVE JoinStep
    BY <1>4 DEF ExpireInvite, JoinStep, IInv, TypeOK
  <1>5. ASSUME members' = members, invites' = invites PROVE JoinStep
    BY <1>5 DEF JoinStep
  <1>6. ASSUME NEW t \in Txs,
               Gate(t) \/ Change(t) \/ Withdraw(t) \/ Grow(t)
        PROVE  JoinStep
    <2>1. members' = members /\ invites' = invites
      BY <1>6 DEF Gate, AdmitOrgAdmin, AdmitDelete, AdmitProject, AdmitUnproject,
              Admit, Change, ChangeRead, CountOwners, ChangeRevoke, ChangeMint,
              ChangeRow, Withdraw, RemoveRead, RemoveDelete, RemoveMissed,
              RemoveRevoke, DeleteRead, DeleteStamp, DeleteRevoke, Revoke, Grow, AcceptRead,
              AcceptOrg, AcceptMember, AcceptConsume, AcceptJoin, AcceptMint,
              ProjectInsert, ProjectFanOut, Advance
    <2>2. QED
      BY <2>1, <1>5
  <1>7. ASSUME NEW t \in Txs, DeleteProject(t) \/ Rollback(t) PROVE JoinStep
    BY <1>5, <1>7 DEF DeleteProject, Rollback
  <1>8. CASE UNCHANGED vars
    BY <1>5, <1>8 DEF vars
  <1>9. QED
    BY <1>1, <1>2, <1>3, <1>4, <1>6, <1>7, <1>8 DEF Next, End

\* A member comes in by the creation of the organisation or by one unconsumed
\* invitation, in its role, and the invitation stays with that actor.
THEOREM JoinsAreInvited == Spec => JoinsByInvitation
  <1>1. IInv /\ [Next]_vars => [JoinStep]_vars
    BY JoinStepHolds
  <1>2. QED
    BY <1>1, InitInv, InvInductive, PTL DEF Spec, JoinsByInvitation, JoinStep

-----------------------------------------------------------------------------
\* What a step may do to the capabilities of a member.
StripStep ==
    org' = "active" =>
        \A a \in Actors : members'[a] # None /\ ~HoldsRole(a)' =>
            \/ members'[a] = members[a] /\ ~HoldsRole(a)
            \/ \E t \in Txs : /\ InPhase(t, "remove", "ready") /\ tx'[t] = None
                             /\ tx[t].actor = a /\ ~tx[t].deletes

\* Who writes the membership row mints the bundle of its role in the same
\* transaction, or leaves no row; who writes none revokes capabilities only if
\* it is a removal that found none.
LEMMA StripStepHolds == IInv /\ [Next]_vars => StripStep
  <1> SUFFICES ASSUME IInv, [Next]_vars PROVE StripStep
    OBVIOUS
  <1>1. ASSUME NEW t \in Txs, Commit(t) PROVE StripStep
    <2> DEFINE x == tx[t]
    <2> SUFFICES ASSUME NEW a \in Actors, org' = "active",
                        members'[a] # None, ~HoldsRole(a)'
                 PROVE  \/ members'[a] = members[a] /\ ~HoldsRole(a)
                        \/ /\ InPhase(t, "remove", "ready") /\ tx'[t] = None
                           /\ x.actor = a /\ ~x.deletes
      BY DEF StripStep
    <2>1. /\ x.kind \in Kinds /\ Sound(x) /\ x.phase = "ready" /\ Open(t)
          /\ x.kind # "delete"
      BY <1>1, OpenFacts DEF Commit, Open, Transaction
    <2>2. /\ members' = IF WritesRow(x)
                          THEN [members EXCEPT ![x.actor] = x.new] ELSE members
          /\ caps' = (caps \ x.revokes) \cup x.grants
          /\ tx'[t] = None
      BY <1>1 DEF Commit
    <2> HIDE DEF x
    <2>3. CASE WritesRow(x) /\ a = x.actor
      <3>1. members'[a] = x.new
        BY <2>3, <2>2 DEF IInv, TypeOK
      <3>2. x.kind \in {"change", "accept"}
        BY <2>3, <3>1, <2>1, RowWriters DEF Sound, SoundRemove
      <3>3. [actor |-> a, bundle |-> x.new, on |-> Org] \in x.grants
        BY <3>2, <2>3, <2>1 DEF Sound, SoundChange, SoundAccept
      <3>4. HoldsRole(a)'
        BY <3>1, <3>3, <2>2 DEF HoldsRole
      <3>5. QED
        BY <3>4
    <2>4. CASE ~(WritesRow(x) /\ a = x.actor)
      <3>1. members'[a] = members[a]
        BY <2>4, <2>2 DEF IInv, TypeOK
      <3>2. CASE ~HoldsRole(a)
        BY <3>1, <3>2
      <3>3. CASE HoldsRole(a)
        <4> DEFINE g == [actor |-> a, bundle |-> members[a], on |-> Org]
        <4>1. g \in caps /\ g \notin caps'
          BY <3>1, <3>3 DEF HoldsRole
        <4>2. g \in x.revokes /\ g.actor = a
          BY <4>1, <2>2
        <4> HIDE DEF g
        <4>3. x.kind \in {"change", "remove"} /\ x.actor = a
          BY <4>2, <2>1 DEF Sound, SoundChange, SoundRemove, SoundAccept,
                            SoundProject, Kinds
        <4>4. x.kind = "remove" /\ ~x.deletes
          BY <4>3, <2>4, RowWriters
        <4>5. QED
          BY <4>3, <4>4, <2>1, <2>2 DEF InPhase, Open, x
      <3>4. QED
        BY <3>2, <3>3
    <2>5. QED
      BY <2>3, <2>4
  <1>2. ASSUME NEW a \in Actors, CreateOrg(a) PROVE StripStep
    <2>1. /\ \A b \in Actors : members[b] = None
          /\ members' = [members EXCEPT ![a] = "owner"]
          /\ caps' = caps \cup Bundle(a, "owner", {})
      BY <1>2 DEF CreateOrg, IInv, NotCreated
    <2>2. /\ members'[a] = "owner"
          /\ \A b \in Actors \ {a} : members'[b] = None
      BY <2>1 DEF IInv, TypeOK
    <2>3. HoldsRole(a)'
      BY <2>1, <2>2, RolesAssumption, BundleFacts DEF HoldsRole
    <2>4. QED
      BY <2>2, <2>3 DEF StripStep
  <1>3. ASSUME members' = members, caps' = caps PROVE StripStep
    BY <1>3 DEF StripStep, HoldsRole
  <1>4. ASSUME NEW t \in Txs,
               Gate(t) \/ Change(t) \/ Withdraw(t) \/ Grow(t)
        PROVE  StripStep
    <2>1. members' = members /\ caps' = caps
      BY <1>4 DEF Gate, AdmitOrgAdmin, AdmitDelete, AdmitProject, AdmitUnproject,
              Admit, Change, ChangeRead, CountOwners, ChangeRevoke, ChangeMint,
              ChangeRow, Withdraw, RemoveRead, RemoveDelete, RemoveMissed,
              RemoveRevoke, DeleteRead, DeleteStamp, DeleteRevoke, Revoke, Grow,
              AcceptRead, AcceptOrg, AcceptMember, AcceptConsume, AcceptJoin,
              AcceptMint, ProjectInsert, ProjectFanOut, Advance
    <2>2. QED
      BY <2>1, <1>3
  <1>5. ASSUME NEW t \in Txs, NEW i \in Invites, NEW role \in InviteRoles,
               Invite(t, i, role)
        PROVE  StripStep
    BY <1>3, <1>5 DEF Invite
  <1>6. ASSUME NEW i \in Invites, ExpireInvite(i) PROVE StripStep
    BY <1>3, <1>6 DEF ExpireInvite
  <1>7. ASSUME NEW t \in Txs, DeleteProject(t) \/ Rollback(t) PROVE StripStep
    BY <1>3, <1>7 DEF DeleteProject, Rollback
  <1>8. CASE UNCHANGED vars
    BY <1>3, <1>8 DEF vars
  <1>9. QED
    BY <1>1, <1>2, <1>4, <1>5, <1>6, <1>7, <1>8 DEF Next, End

\* A member loses the capabilities of its role on the organisation only to a
\* removal that found the membership gone and then met it again (remove,
\* service.py:582-590), however role changes, removals and acceptances overlap.
THEOREM RolesKeepTheirGrants == Spec => OnlyMissedRemovalStrips
  <1>1. IInv /\ [Next]_vars => [StripStep]_vars
    BY StripStepHolds
  <1>2. QED
    BY <1>1, InitInv, InvInductive, PTL
       DEF Spec, OnlyMissedRemovalStrips, StripStep

-----------------------------------------------------------------------------
(* Requests one at a time.                                                  *)

\* What MCTenancySerial.cfg instantiates: no two requests in flight.
Serial == \A t, u \in Txs : t = u

\* The member list of an active organisation has an owner, ...
OwnerPresent == \E a \in Actors : members[a] = "owner"

\* ... every capability is one the role of its holder mints, ...
GrantsFit ==
    \A g \in caps :
        /\ members[g.actor] = g.bundle
        /\ g.on # Org =>
              g.bundle \in ProjectRoles /\ projects[g.on] # "absent"

\* ... and every role has its capabilities, on every active project.
RolesGranted ==
    \A a \in Actors : members[a] # None =>
        /\ [actor |-> a, bundle |-> members[a], on |-> Org] \in caps
        /\ members[a] \in ProjectRoles =>
              \A p \in Projects : projects[p] = "active" =>
                  [actor |-> a, bundle |-> members[a], on |-> p] \in caps

\* A transaction alone: what it read is still so, what it is about to write
\* keeps the organisation in order.
OwnerLeft(x) ==
    x.old = "owner" => \E b \in Actors \ {x.actor} : members[b] = "owner"

AloneChange(x) ==
    /\ x.phase # "admitted" =>
          x.old \in Roles /\ x.old = members[x.actor]
    /\ x.phase \notin {"admitted", "read"} => OwnerLeft(x)
    /\ x.phase = "revoking" =>
          x.scan = {g \in caps : g.actor = x.actor /\ g.bundle = x.old}
    /\ x.phase \in {"revoked", "minted", "ready"} =>
          x.revokes = {g \in caps : g.actor = x.actor /\ g.bundle = x.old}
    /\ x.phase \in {"minted", "ready"} =>
          x.grants = Bundle(x.actor, x.new, ActiveProjects)

AloneRemove(x) ==
    /\ x.phase # "admitted" =>
          x.old \in Roles /\ x.old = members[x.actor]
    /\ x.phase \notin {"admitted", "read"} => OwnerLeft(x)
    /\ x.phase \in {"deleted", "revoking", "ready"} => x.deletes
    /\ x.phase = "revoking" => x.scan = {g \in caps : g.actor = x.actor}
    /\ x.phase = "ready" => x.revokes = {g \in caps : g.actor = x.actor}

AloneProject(x) ==
    /\ x.phase # "admitted" => projects[x.project] = "absent"
    /\ x.phase = "ready" =>
          x.grants = {[actor |-> a, bundle |-> members[a], on |-> x.project] :
                         a \in {b \in Actors : members[b] \in ProjectRoles}}

Alone(x) ==
    /\ org # "active" => x.kind = "accept" /\ x.phase = "read"
    /\ x.kind = "change" => AloneChange(x)
    /\ x.kind = "remove" => AloneRemove(x)
    /\ x.kind = "accept" /\ x.phase = "ready" =>
          x.grants = Bundle(x.actor, x.new, ActiveProjects)
    /\ x.kind = "project" => AloneProject(x)
    /\ x.kind = "delete" =>
          /\ x.phase = "revoking" => x.scan = caps
          /\ x.phase = "ready" => x.revokes = caps

InOrder ==
    /\ org = "absent" =>
          caps = {} /\ \A p \in Projects : projects[p] = "absent"
    /\ org = "active" => OwnerPresent /\ GrantsFit /\ RolesGranted
    /\ org = "deleted" => caps = {}

SInv ==
    /\ IInv
    /\ InOrder
    /\ \A t \in Txs : Open(t) => Alone(tx[t])

\* What mint_bundle mints, by target.
LEMMA BundleOn ==
    ASSUME NEW a \in Actors, NEW role \in Roles, NEW ps \in SUBSET Projects
    PROVE  /\ \A g \in Bundle(a, role, ps) :
                 /\ g.actor = a /\ g.bundle = role
                 /\ g.on # Org => role \in ProjectRoles /\ g.on \in ps
           /\ [actor |-> a, bundle |-> role, on |-> Org] \in Bundle(a, role, ps)
           /\ role \in ProjectRoles =>
                 \A p \in ps :
                    [actor |-> a, bundle |-> role, on |-> p] \in Bundle(a, role, ps)
  BY DEF Bundle

\* More than one owner: one besides any given actor.
LEMMA AnotherOwner ==
    ASSUME NEW a \in Actors, Cardinality(Owners) > 1
    PROVE  \E b \in Actors \ {a} : members[b] = "owner"
  <1> SUFFICES ASSUME \A b \in Actors \ {a} : members[b] # "owner" PROVE FALSE
    OBVIOUS
  <1>1. Owners = {} \/ Owners = {a}
    BY DEF Owners
  <1>2. Cardinality({}) = 0 /\ Cardinality({a}) = 1
    BY FS_EmptySet, FS_Singleton
  <1>3. QED
    BY <1>1, <1>2

\* A statement of the only transaction.
LEMMA AloneStep ==
    ASSUME Serial, SInv, IInv', NEW t \in Txs, NEW x,
           Advance(t, x), Alone(x)
    PROVE  SInv'
  <1>1. /\ tx' = [tx EXCEPT ![t] = x]
        /\ org' = org /\ members' = members /\ projects' = projects
        /\ caps' = caps /\ invites' = invites
    BY DEF Advance
  <1>2. InOrder'
    BY <1>1 DEF SInv, InOrder, OwnerPresent, GrantsFit, RolesGranted
  <1>3. \A u \in Txs : tx'[u] = x
    BY <1>1 DEF Serial, SInv, IInv, TypeOK
  <1>4. Alone(x)'
    BY <1>1 DEF Alone, AloneChange, AloneRemove, AloneProject, OwnerLeft,
                ActiveProjects, Bundle
  <1>5. \A u \in Txs : Open(u)' => Alone(tx[u])'
    BY <1>3, <1>4 DEF Alone, AloneChange, AloneRemove, AloneProject, OwnerLeft,
                      ActiveProjects, Bundle
  <1>6. QED
    BY <1>2, <1>5 DEF SInv

\* What the only transaction knows.
LEMMA AloneFacts ==
    ASSUME SInv, NEW t \in Txs, tx[t] # None
    PROVE  /\ IInv /\ Open(t)
           /\ tx[t] \in Transaction /\ Sound(tx[t]) /\ Alone(tx[t])
  BY OpenFacts DEF SInv, Open

LEMMA AloneGate ==
    ASSUME Serial, SInv, IInv', NEW t \in Txs, Gate(t)
    PROVE  SInv'
  <1>1. ASSUME NEW x, Admit(t, x), x.phase = "admitted",
               x.kind # "accept"
        PROVE  SInv'
    <2>1. Advance(t, x) /\ org = "active"
      BY <1>1 DEF Admit, Advance
    <2>2. Alone(x)
      BY <2>1, <1>1 DEF Alone, AloneChange, AloneRemove, AloneProject
    <2>3. QED
      BY <1>1, <2>1, <2>2, AloneStep
  <1>2. ASSUME NEW kind \in Kinds \ {"accept"}, Admit(t, Request(kind))
        PROVE  SInv'
    BY <1>1, <1>2, RequestFacts DEF Request
  <1>3. ASSUME NEW by \in Actors, NEW kind \in Kinds, AdmitOrgAdmin(t, kind, by)
        PROVE  SInv'
    BY <1>2, <1>3 DEF AdmitOrgAdmin
  <1>4. ASSUME NEW by \in Actors, AdmitDelete(t, by) \/ AdmitProject(t, by)
        PROVE  SInv'
    BY <1>2, <1>4 DEF AdmitDelete, AdmitProject, Kinds
  <1>5. ASSUME NEW by \in Actors, NEW p \in Projects, AdmitUnproject(t, p, by)
        PROVE  SInv'
    <2> DEFINE x == [Request("unproject") EXCEPT !.project = p]
    <2>1. x.phase = "admitted" /\ x.kind = "unproject"
      BY DEF Request
    <2>2. Admit(t, x)
      BY <1>5 DEF AdmitUnproject
    <2> HIDE DEF x
    <2>3. QED
      BY <1>1, <2>1, <2>2
  <1>6. QED
    BY <1>3, <1>4, <1>5 DEF Gate

\* Nobody changes the membership or the capabilities between the statements of
\* a role change.
LEMMA AloneChangeStep ==
    ASSUME Serial, SInv, IInv', NEW t \in Txs, Change(t)
    PROVE  SInv'
  <1>1. ASSUME NEW a \in Actors, NEW role \in Roles, ChangeRead(t, a, role)
        PROVE  SInv'
    <2> DEFINE p == IF members[a] = "owner" THEN "read" ELSE "checked"
               x == [tx[t] EXCEPT !.phase = p, !.actor = a,
                                  !.old = members[a], !.new = role]
    <2>1. /\ tx[t] \in Transaction /\ tx[t].kind = "change"
          /\ tx[t].phase = "admitted" /\ Alone(tx[t]) /\ IInv
      BY <1>1, AloneFacts DEF ChangeRead, InPhase
    <2>2. members[a] \in Roles
      BY <2>1, <1>1 DEF ChangeRead, IInv, TypeOK
    <2>3. Alone(x)
      BY <2>1, <2>2 DEF Transaction, Alone, AloneChange, OwnerLeft
    <2>4. Advance(t, x)
      BY <2>1, <1>1 DEF ChangeRead
    <2>5. QED
      BY <2>3, <2>4, AloneStep
  <1>2. CASE CountOwners(t)
    <2> DEFINE x == [tx[t] EXCEPT !.phase = "checked"]
    <2>1. /\ tx[t] \in Transaction /\ Sound(tx[t]) /\ Alone(tx[t])
          /\ tx[t].kind \in {"change", "remove"} /\ tx[t].phase = "read"
          /\ Cardinality(Owners) > 1
      BY <1>2, AloneFacts DEF CountOwners
    <2>2. tx[t].actor \in Actors
      BY <2>1 DEF Sound, SoundChange, SoundRemove
    <2>3. OwnerLeft(tx[t])
      BY <2>1, <2>2, AnotherOwner DEF OwnerLeft
    <2>4. Alone(x)
      BY <2>1, <2>3 DEF Transaction, Alone, AloneChange, AloneRemove, OwnerLeft
    <2>5. Advance(t, x)
      BY <2>1, <1>2 DEF CountOwners
    <2>6. QED
      BY <2>4, <2>5, AloneStep
  <1>3. CASE ChangeRevoke(t)
    <2> DEFINE s == {g \in caps : g.actor = tx[t].actor /\ g.bundle = tx[t].old}
               x == [tx[t] EXCEPT !.phase = "revoking", !.scan = s]
    <2>1. /\ tx[t] \in Transaction /\ tx[t].kind = "change"
          /\ tx[t].phase = "checked" /\ Alone(tx[t])
      BY <1>3, AloneFacts DEF ChangeRevoke, InPhase
    <2>2. Alone(x)
      BY <2>1 DEF Transaction, Alone, AloneChange, OwnerLeft
    <2>3. Advance(t, x)
      BY <2>1, <1>3 DEF ChangeRevoke
    <2>4. QED
      BY <2>2, <2>3, AloneStep
  <1>4. CASE ChangeMint(t)
    <2> DEFINE b == Bundle(tx[t].actor, tx[t].new, ActiveProjects)
               x == [tx[t] EXCEPT !.phase = "minted", !.grants = b]
    <2>1. /\ tx[t] \in Transaction /\ tx[t].kind = "change"
          /\ tx[t].phase = "revoked" /\ Alone(tx[t])
      BY <1>4, AloneFacts DEF ChangeMint, InPhase
    <2>2. Alone(x)
      BY <2>1 DEF Transaction, Alone, AloneChange, OwnerLeft
    <2>3. Advance(t, x)
      BY <2>1, <1>4 DEF ChangeMint
    <2>4. QED
      BY <2>2, <2>3, AloneStep
  <1>5. CASE ChangeRow(t)
    <2> DEFINE x == [tx[t] EXCEPT !.phase = "ready"]
    <2>1. /\ tx[t] \in Transaction /\ tx[t].kind = "change"
          /\ tx[t].phase = "minted" /\ Alone(tx[t])
      BY <1>5, AloneFacts DEF ChangeRow, InPhase
    <2>2. Alone(x)
      BY <2>1 DEF Transaction, Alone, AloneChange, OwnerLeft
    <2>3. Advance(t, x)
      BY <2>1, <1>5 DEF ChangeRow
    <2>4. QED
      BY <2>2, <2>3, AloneStep
  <1>6. QED
    BY <1>1, <1>2, <1>3, <1>4, <1>5 DEF Change

LEMMA AloneWithdrawStep ==
    ASSUME Serial, SInv, IInv', NEW t \in Txs, Withdraw(t)
    PROVE  SInv'
  <1>1. ASSUME NEW a \in Actors, RemoveRead(t, a)
        PROVE  SInv'
    <2> DEFINE p == IF members[a] = "owner" THEN "read" ELSE "checked"
               x == [tx[t] EXCEPT !.phase = p, !.actor = a, !.old = members[a]]
    <2>1. /\ tx[t] \in Transaction /\ tx[t].kind = "remove"
          /\ tx[t].phase = "admitted" /\ Alone(tx[t]) /\ IInv
      BY <1>1, AloneFacts DEF RemoveRead, InPhase
    <2>2. members[a] \in Roles
      BY <2>1, <1>1 DEF RemoveRead, IInv, TypeOK
    <2>3. Alone(x)
      BY <2>1, <2>2 DEF Transaction, Alone, AloneRemove, OwnerLeft
    <2>4. Advance(t, x)
      BY <2>1, <1>1 DEF RemoveRead
    <2>5. QED
      BY <2>3, <2>4, AloneStep
  <1>2. CASE RemoveDelete(t)
    <2> DEFINE x == [tx[t] EXCEPT !.phase = "deleted", !.deletes = TRUE]
    <2>1. /\ tx[t] \in Transaction /\ tx[t].kind = "remove"
          /\ tx[t].phase = "checked" /\ Alone(tx[t])
      BY <1>2, AloneFacts DEF RemoveDelete, InPhase
    <2>2. Alone(x)
      BY <2>1 DEF Transaction, Alone, AloneRemove, OwnerLeft
    <2>3. Advance(t, x)
      BY <2>1, <1>2 DEF RemoveDelete
    <2>4. QED
      BY <2>2, <2>3, AloneStep
  <1>3. CASE RemoveRevoke(t)
    <2> DEFINE s == {g \in caps : g.actor = tx[t].actor}
               x == [tx[t] EXCEPT !.phase = "revoking", !.scan = s]
    <2>1. /\ tx[t] \in Transaction /\ tx[t].kind = "remove"
          /\ tx[t].phase = "deleted" /\ Alone(tx[t])
      BY <1>3, AloneFacts DEF RemoveRevoke, InPhase
    <2>2. Alone(x)
      BY <2>1 DEF Transaction, Alone, AloneRemove, OwnerLeft
    <2>3. Advance(t, x)
      BY <2>1, <1>3 DEF RemoveRevoke
    <2>4. QED
      BY <2>2, <2>3, AloneStep
  <1>4. CASE DeleteRead(t) \/ DeleteStamp(t)
    <2> DEFINE p == IF tx[t].phase = "admitted" THEN "checked" ELSE "stamped"
               x == [tx[t] EXCEPT !.phase = p]
    <2>1. /\ tx[t] \in Transaction /\ tx[t].kind = "delete" /\ Alone(tx[t])
      BY <1>4, AloneFacts DEF DeleteRead, DeleteStamp, InPhase
    <2>2. Alone(x)
      BY <2>1 DEF Transaction, Alone
    <2>3. Advance(t, x)
      BY <2>1, <1>4 DEF DeleteRead, DeleteStamp, InPhase
    <2>4. QED
      BY <2>2, <2>3, AloneStep
  <1>5. CASE DeleteRevoke(t)
    <2> DEFINE x == [tx[t] EXCEPT !.phase = "revoking", !.scan = caps]
    <2>1. /\ tx[t] \in Transaction /\ tx[t].kind = "delete" /\ Alone(tx[t])
      BY <1>5, AloneFacts DEF DeleteRevoke, InPhase
    <2>2. Alone(x)
      BY <2>1 DEF Transaction, Alone
    <2>3. Advance(t, x)
      BY <2>1, <1>5 DEF DeleteRevoke
    <2>4. QED
      BY <2>2, <2>3, AloneStep
  <1>6. CASE Revoke(t)
    <2> DEFINE p == IF tx[t].kind = "change" THEN "revoked" ELSE "ready"
               r == tx[t].scan \cap caps
               x == [tx[t] EXCEPT !.phase = p, !.scan = {}, !.revokes = r]
    <2>1. /\ tx[t] \in Transaction /\ tx[t].phase = "revoking"
          /\ Sound(tx[t]) /\ Alone(tx[t])
      BY <1>6, AloneFacts DEF Revoke
    <2>2. tx[t].kind \in {"change", "remove", "delete"}
      BY <2>1 DEF Transaction, Kinds, Sound, SoundAccept, SoundProject
    <2>3. Alone(x)
      <3>1. CASE tx[t].kind = "change"
        BY <3>1, <2>1 DEF Transaction, Alone, AloneChange, OwnerLeft
      <3>2. CASE tx[t].kind = "remove"
        BY <3>2, <2>1 DEF Transaction, Alone, AloneRemove, OwnerLeft
      <3>3. CASE tx[t].kind = "delete"
        BY <3>3, <2>1 DEF Transaction, Alone
      <3>4. QED
        BY <2>2, <3>1, <3>2, <3>3
    <2>4. Advance(t, x)
      BY <2>1, <1>6 DEF Revoke
    <2>5. QED
      BY <2>3, <2>4, AloneStep
  <1>7. ~RemoveMissed(t)    \* what it read is still there
    <2> SUFFICES ASSUME RemoveMissed(t) PROVE FALSE
      OBVIOUS
    <2>1. Alone(tx[t]) /\ tx[t].kind = "remove" /\ tx[t].phase = "checked"
      BY AloneFacts DEF RemoveMissed, InPhase
    <2>2. tx[t].old \in Roles /\ tx[t].old = None
      BY <2>1 DEF Alone, AloneRemove, RemoveMissed
    <2>3. QED
      BY <2>2, NoneAssumption
  <1>8. QED
    BY <1>1, <1>2, <1>3, <1>4, <1>5, <1>6, <1>7 DEF Withdraw

LEMMA AloneGrowStep ==
    ASSUME Serial, SInv, IInv', NEW t \in Txs, Grow(t)
    PROVE  SInv'
  <1>1. ASSUME NEW i \in Invites, NEW a \in Actors, AcceptRead(t, i, a)
        PROVE  SInv'
    <2> DEFINE x == [Request("accept") EXCEPT
                        !.phase = "read", !.actor = a, !.invite = i,
                        !.new = invites[i].role]
    <2>1. Alone(x) /\ Advance(t, x)
      BY <1>1 DEF AcceptRead, Alone, Request
    <2>2. QED
      BY <2>1, AloneStep
  <1>2. CASE AcceptOrg(t) \/ AcceptMember(t) \/ AcceptConsume(t) \/ AcceptJoin(t)
    <2> DEFINE p == CASE tx[t].phase = "read" -> "seated"
                      [] tx[t].phase = "seated" -> "checked"
                      [] tx[t].phase = "checked" -> "consumed"
                      [] OTHER -> "joined"
               x == [tx[t] EXCEPT !.phase = p]
    <2>1. /\ tx[t] \in Transaction /\ tx[t].kind = "accept" /\ Alone(tx[t])
          /\ tx[t].phase \in {"read", "seated", "checked", "consumed"}
          /\ tx[t].phase = "read" => org = "active"
      BY <1>2, AloneFacts
         DEF AcceptOrg, AcceptMember, AcceptConsume, AcceptJoin, InPhase
    <2>2. Alone(x)
      BY <2>1 DEF Transaction, Alone
    <2>3. Advance(t, x)
      BY <2>1, <1>2
         DEF AcceptOrg, AcceptMember, AcceptConsume, AcceptJoin, InPhase
    <2>4. QED
      BY <2>2, <2>3, AloneStep
  <1>3. CASE AcceptMint(t)
    <2> DEFINE b == Bundle(tx[t].actor, tx[t].new, ActiveProjects)
               x == [tx[t] EXCEPT !.phase = "ready", !.grants = b]
    <2>1. /\ tx[t] \in Transaction /\ tx[t].kind = "accept"
          /\ tx[t].phase = "joined" /\ Alone(tx[t])
      BY <1>3, AloneFacts DEF AcceptMint, InPhase
    <2>2. Alone(x)
      BY <2>1 DEF Transaction, Alone
    <2>3. Advance(t, x)
      BY <2>1, <1>3 DEF AcceptMint
    <2>4. QED
      BY <2>2, <2>3, AloneStep
  <1>4. ASSUME NEW p \in Projects, ProjectInsert(t, p)
        PROVE  SInv'
    <2> DEFINE x == [tx[t] EXCEPT !.phase = "inserted", !.project = p]
    <2>1. tx[t] \in Transaction /\ tx[t].kind = "project" /\ Alone(tx[t])
      BY <1>4, AloneFacts DEF ProjectInsert, InPhase
    <2>2. Alone(x)
      BY <2>1, <1>4 DEF Transaction, Alone, AloneProject, ProjectInsert
    <2>3. Advance(t, x)
      BY <2>1, <1>4 DEF ProjectInsert
    <2>4. QED
      BY <2>2, <2>3, AloneStep
  <1>5. CASE ProjectFanOut(t)
    <2> DEFINE b == {[actor |-> a, bundle |-> members[a], on |-> tx[t].project] :
                        a \in {c \in Actors : members[c] \in ProjectRoles}}
               x == [tx[t] EXCEPT !.phase = "ready", !.grants = b]
    <2>1. /\ tx[t] \in Transaction /\ tx[t].kind = "project"
          /\ tx[t].phase = "inserted" /\ Alone(tx[t])
      BY <1>5, AloneFacts DEF ProjectFanOut, InPhase
    <2>2. Alone(x)
      BY <2>1 DEF Transaction, Alone, AloneProject
    <2>3. Advance(t, x)
      BY <2>1, <1>5 DEF ProjectFanOut
    <2>4. QED
      BY <2>2, <2>3, AloneStep
  <1>6. QED
    BY <1>1, <1>2, <1>3, <1>4, <1>5 DEF Grow

\* What a COMMIT of the only transaction leaves is in order.
LEMMA AloneCommit ==
    ASSUME Serial, SInv, IInv', NEW t \in Txs, Commit(t)
    PROVE  SInv'
  <1> DEFINE x == tx[t]
             held == {g \in caps : g.actor = x.actor /\ g.bundle = x.old}
  <1>1. /\ IInv /\ x \in Transaction /\ Sound(x) /\ Alone(x)
        /\ x.phase = "ready" /\ x.kind \in Kinds
        /\ org = "active" /\ OwnerPresent /\ GrantsFit /\ RolesGranted
    <2>1. x # None /\ x.phase = "ready"
      BY DEF Commit
    <2>2. /\ IInv /\ x \in Transaction /\ Sound(x) /\ Alone(x)
      BY <2>1, AloneFacts
    <2>3. org = "active" /\ x.kind \in Kinds
      BY <2>1, <2>2 DEF Alone, Transaction
    <2>4. QED
      BY <2>1, <2>2, <2>3 DEF SInv, InOrder
  <1>2. /\ org' = IF x.kind = "delete" THEN "deleted" ELSE org
        /\ members' = IF WritesRow(x)
                        THEN [members EXCEPT ![x.actor] = x.new] ELSE members
        /\ projects' = IF x.kind = "project"
                         THEN [projects EXCEPT ![x.project] = "active"]
                         ELSE projects
        /\ caps' = (caps \ x.revokes) \cup x.grants
    BY DEF Commit
  <1>3. \A u \in Txs : ~Open(u)'
    <2>1. \A u \in Txs : u = t
      BY DEF Serial
    <2>2. QED
      BY <2>1 DEF Commit, Open
  <1>4. /\ members \in [Actors -> Roles \cup {None}]
        /\ projects \in [Projects -> {"absent", "active", "deleted"}]
        /\ ActiveProjects \in SUBSET Projects
        /\ \A g \in caps : g \in Grant /\ g.actor \in Actors
    BY <1>1 DEF IInv, TypeOK, Grant, ActiveProjects
  <1> HIDE DEF x
  <1>5. CASE x.kind = "delete"
    BY <1>5, <1>1, <1>2, <1>3 DEF Sound, Alone, SInv, InOrder
  <1>6. ASSUME org' = "active", OwnerPresent', GrantsFit', RolesGranted'
        PROVE  SInv'
    BY <1>3, <1>6 DEF SInv, InOrder
  <1>7. CASE x.kind = "change"
    <2>1. /\ x.actor \in Actors /\ x.new \in Roles
          /\ x.old \in Roles /\ x.old = members[x.actor] /\ OwnerLeft(x)
          /\ x.revokes = held
          /\ x.grants = Bundle(x.actor, x.new, ActiveProjects)
      BY <1>1, <1>7 DEF Sound, SoundChange, Alone, AloneChange
    <2>2. /\ org' = "active" /\ projects' = projects
          /\ members' = [members EXCEPT ![x.actor] = x.new]
      BY <1>1, <1>2, <1>7, RowWriters
    <2>3. /\ members'[x.actor] = x.new
          /\ \A a \in Actors \ {x.actor} : members'[a] = members[a]
      BY <2>1, <2>2, <1>4
    <2>4. OwnerPresent'
      BY <2>1, <2>3, <1>1 DEF OwnerPresent, OwnerLeft
    <2>5. /\ \A g \in x.grants :
                /\ g.actor = x.actor /\ g.bundle = x.new
                /\ g.on # Org => x.new \in ProjectRoles /\ g.on \in ActiveProjects
          /\ [actor |-> x.actor, bundle |-> x.new, on |-> Org] \in x.grants
          /\ x.new \in ProjectRoles =>
                \A p \in ActiveProjects :
                   [actor |-> x.actor, bundle |-> x.new, on |-> p] \in x.grants
      BY <2>1, <1>4, BundleOn
    <2>6. \A g \in caps : g.actor # x.actor \/ g \in x.revokes
      BY <2>1, <1>1 DEF GrantsFit
    <2>7. GrantsFit'
      <3> SUFFICES ASSUME NEW g \in caps'
                   PROVE  /\ members'[g.actor] = g.bundle
                          /\ g.on # Org => /\ g.bundle \in ProjectRoles
                                           /\ projects'[g.on] # "absent"
        BY DEF GrantsFit
      <3>1. CASE g \in x.grants
        BY <3>1, <2>2, <2>3, <2>5 DEF ActiveProjects
      <3>2. CASE g \in caps /\ g.actor \in Actors \ {x.actor}
        BY <3>2, <2>2, <2>3, <1>1 DEF GrantsFit
      <3>3. QED
        BY <3>1, <3>2, <2>6, <1>2, <1>4
    <2>8. RolesGranted'
      <3> SUFFICES ASSUME NEW a \in Actors, members'[a] # None
                   PROVE  /\ [actor |-> a, bundle |-> members'[a], on |-> Org]
                                \in caps'
                          /\ members'[a] \in ProjectRoles =>
                                \A p \in Projects : projects'[p] = "active" =>
                                   [actor |-> a, bundle |-> members'[a], on |-> p]
                                      \in caps'
        BY DEF RolesGranted
      <3>1. CASE a = x.actor
        BY <3>1, <2>2, <2>3, <2>5, <1>2 DEF ActiveProjects
      <3>2. CASE a # x.actor
        BY <3>2, <2>1, <2>2, <2>3, <1>1, <1>2 DEF RolesGranted
      <3>3. QED
        BY <3>1, <3>2
    <2>9. QED
      BY <1>6, <2>2, <2>4, <2>7, <2>8
  <1>8. CASE x.kind = "remove"
    <2>1. /\ x.actor \in Actors /\ x.new = None /\ x.grants = {}
          /\ x.old = members[x.actor] /\ OwnerLeft(x) /\ x.deletes
          /\ x.revokes = {g \in caps : g.actor = x.actor}
      BY <1>1, <1>8 DEF Sound, SoundRemove, Alone, AloneRemove
    <2>2. /\ org' = "active" /\ projects' = projects
          /\ members' = [members EXCEPT ![x.actor] = None]
          /\ caps' = {g \in caps : g.actor # x.actor}
      BY <2>1, <1>1, <1>2, <1>8, RowWriters
    <2>3. /\ members'[x.actor] = None
          /\ \A a \in Actors \ {x.actor} : members'[a] = members[a]
      BY <2>1, <2>2, <1>4
    <2>4. OwnerPresent'
      BY <2>1, <2>3, <1>1 DEF OwnerPresent, OwnerLeft
    <2>5. GrantsFit'
      BY <2>2, <2>3, <1>1, <1>4 DEF GrantsFit
    <2>6. RolesGranted'
      BY <2>2, <2>3, <1>1 DEF RolesGranted
    <2>7. QED
      BY <1>6, <2>2, <2>4, <2>5, <2>6
  <1>9. CASE x.kind = "accept"
    <2>1. /\ x.actor \in Actors /\ x.new \in Roles /\ x.revokes = {}
          /\ members[x.actor] = None
          /\ x.grants = Bundle(x.actor, x.new, ActiveProjects)
      BY <1>1, <1>9 DEF Sound, SoundAccept, Alone, IInv, TypeOK, Invitation,
                        InviteRoles
    <2>2. /\ org' = "active" /\ projects' = projects
          /\ members' = [members EXCEPT ![x.actor] = x.new]
          /\ caps' = caps \cup x.grants
      BY <2>1, <1>1, <1>2, <1>9, RowWriters
    <2>3. /\ members'[x.actor] = x.new
          /\ \A a \in Actors \ {x.actor} : members'[a] = members[a]
      BY <2>1, <2>2, <1>4
    <2>4. OwnerPresent'
      BY <2>1, <2>3, <1>1, NoneAssumption, RolesAssumption DEF OwnerPresent
    <2>5. /\ \A g \in x.grants :
                /\ g.actor = x.actor /\ g.bundle = x.new
                /\ g.on # Org => x.new \in ProjectRoles /\ g.on \in ActiveProjects
          /\ [actor |-> x.actor, bundle |-> x.new, on |-> Org] \in x.grants
          /\ x.new \in ProjectRoles =>
                \A p \in ActiveProjects :
                   [actor |-> x.actor, bundle |-> x.new, on |-> p] \in x.grants
      BY <2>1, <1>4, BundleOn
    <2>6. \A g \in caps : g.actor # x.actor
      <3> SUFFICES ASSUME NEW g \in caps, g.actor = x.actor PROVE FALSE
        OBVIOUS
      <3>1. g.bundle = None /\ g.bundle \in Roles
        BY <2>1, <1>1, <1>4 DEF GrantsFit, Grant
      <3>2. QED
        BY <3>1, NoneAssumption
    <2>7. GrantsFit'
      <3> SUFFICES ASSUME NEW g \in caps'
                   PROVE  /\ members'[g.actor] = g.bundle
                          /\ g.on # Org => /\ g.bundle \in ProjectRoles
                                           /\ projects'[g.on] # "absent"
        BY DEF GrantsFit
      <3>1. CASE g \in x.grants
        BY <3>1, <2>2, <2>3, <2>5 DEF ActiveProjects
      <3>2. CASE g \in caps
        BY <3>2, <2>2, <2>3, <2>6, <1>1, <1>4 DEF GrantsFit
      <3>3. QED
        BY <3>1, <3>2, <2>2
    <2>8. RolesGranted'
      <3> SUFFICES ASSUME NEW a \in Actors, members'[a] # None
                   PROVE  /\ [actor |-> a, bundle |-> members'[a], on |-> Org]
                                \in caps'
                          /\ members'[a] \in ProjectRoles =>
                                \A p \in Projects : projects'[p] = "active" =>
                                   [actor |-> a, bundle |-> members'[a], on |-> p]
                                      \in caps'
        BY DEF RolesGranted
      <3>1. CASE a = x.actor
        BY <3>1, <2>2, <2>3, <2>5 DEF ActiveProjects
      <3>2. CASE a # x.actor
        BY <3>2, <2>2, <2>3, <1>1 DEF RolesGranted
      <3>3. QED
        BY <3>1, <3>2
    <2>9. QED
      BY <1>6, <2>2, <2>4, <2>7, <2>8
  <1>10. CASE x.kind = "project"
    <2> DEFINE p == x.project
    <2>1. /\ p \in Projects /\ projects[p] = "absent" /\ x.revokes = {}
          /\ x.grants = {[actor |-> a, bundle |-> members[a], on |-> p] :
                            a \in {b \in Actors : members[b] \in ProjectRoles}}
      BY <1>1, <1>10 DEF Sound, SoundProject, Alone, AloneProject
    <2> HIDE DEF p
    <2>2. /\ org' = "active" /\ members' = members
          /\ projects' = [projects EXCEPT ![p] = "active"]
          /\ caps' = caps \cup x.grants
      BY <2>1, <1>1, <1>2, <1>10, RowWriters DEF p
    <2>3. /\ projects'[p] = "active"
          /\ \A q \in Projects \ {p} : projects'[q] = projects[q]
      BY <2>1, <2>2, <1>4
    <2>4. OwnerPresent'
      BY <2>2, <1>1 DEF OwnerPresent
    <2>5. GrantsFit'
      <3> SUFFICES ASSUME NEW g \in caps'
                   PROVE  /\ members'[g.actor] = g.bundle
                          /\ g.on # Org => /\ g.bundle \in ProjectRoles
                                           /\ projects'[g.on] # "absent"
        BY DEF GrantsFit
      <3>1. CASE g \in x.grants
        BY <3>1, <2>1, <2>2, <2>3
      <3>2. CASE g \in caps
        <4>1. g.on # Org => g.on \in Projects \ {p}
          BY <3>2, <2>1, <1>1, <1>4 DEF GrantsFit, Grant
        <4>2. QED
          BY <4>1, <3>2, <2>2, <2>3, <1>1 DEF GrantsFit
      <3>3. QED
        BY <3>1, <3>2, <2>2
    <2>6. RolesGranted'
      <3> SUFFICES ASSUME NEW a \in Actors, members[a] # None
                   PROVE  /\ [actor |-> a, bundle |-> members[a], on |-> Org]
                                \in caps'
                          /\ members[a] \in ProjectRoles =>
                                \A q \in Projects : projects'[q] = "active" =>
                                   [actor |-> a, bundle |-> members[a], on |-> q]
                                      \in caps'
        BY <2>2 DEF RolesGranted
      <3>1. members[a] \in ProjectRoles =>
               [actor |-> a, bundle |-> members[a], on |-> p] \in x.grants
        BY <2>1
      <3>2. QED
        BY <3>1, <2>2, <2>3, <1>1 DEF RolesGranted
    <2>7. QED
      BY <1>6, <2>2, <2>4, <2>5, <2>6
  <1>11. x.kind \notin {"invite", "unproject"}
    BY <1>1 DEF Sound
  <1>12. QED
    BY <1>1, <1>5, <1>7, <1>8, <1>9, <1>10, <1>11 DEF Kinds

\* The creation of the organisation, and steps that write no membership and no
\* capability.
LEMMA AloneOneStep ==
    ASSUME Serial, SInv, IInv',
           \/ \E a \in Actors : CreateOrg(a)
           \/ \E i \in Invites : ExpireInvite(i)
           \/ \E t \in Txs :
                 \/ \E i \in Invites, role \in InviteRoles : Invite(t, i, role)
                 \/ DeleteProject(t)
                 \/ Rollback(t)
           \/ UNCHANGED vars
    PROVE  SInv'
  <1>1. ASSUME NEW a \in Actors, CreateOrg(a) PROVE SInv'
    <2>1. /\ org = "absent" /\ org' = "active" /\ caps = {}
          /\ projects' = projects /\ \A p \in Projects : projects[p] = "absent"
          /\ members' = [members EXCEPT ![a] = "owner"]
          /\ \A b \in Actors : members[b] = None
          /\ caps' = Bundle(a, "owner", {})
          /\ members \in [Actors -> Roles \cup {None}]
          /\ tx' = tx
      BY <1>1 DEF CreateOrg, SInv, InOrder, IInv, NotCreated, TypeOK
    <2>2. /\ members'[a] = "owner"
          /\ \A b \in Actors \ {a} : members'[b] = None
      BY <2>1
    <2>3. /\ \A g \in caps' : g.actor = a /\ g.bundle = "owner" /\ g.on = Org
          /\ [actor |-> a, bundle |-> "owner", on |-> Org] \in caps'
      BY <2>1, RolesAssumption, BundleOn
    <2>4. OwnerPresent' /\ GrantsFit' /\ RolesGranted'
      BY <2>1, <2>2, <2>3 DEF OwnerPresent, GrantsFit, RolesGranted
    <2>5. \A t \in Txs : ~Open(t)'
      BY <2>1 DEF SInv, IInv, InFlight, Sound, Open
    <2>6. QED
      BY <2>1, <2>4, <2>5 DEF SInv, InOrder
  <1>2. ASSUME UNCHANGED <<org, members, caps>>,
               (projects' = projects /\ tx' = tx)
                  \/ (\A t \in Txs : tx'[t] = None),
               org = "absent" => projects' = projects,
               \A p \in Projects :
                  /\ projects'[p] = "active" => projects[p] = "active"
                  /\ projects'[p] = "absent" => projects[p] = "absent"
        PROVE  SInv'
    <2>1. \A g \in caps : g.on # Org => g.on \in Projects
      BY DEF SInv, IInv, TypeOK, Grant
    <2>2. InOrder'
      BY <2>1, <1>2 DEF SInv, InOrder, OwnerPresent, GrantsFit, RolesGranted
    <2>3. ASSUME NEW t \in Txs, Open(t)' PROVE Alone(tx[t])'
      <3>1. projects' = projects /\ tx' = tx
        BY <1>2, <2>3 DEF Open
      <3>2. Alone(tx[t])
        BY <2>3, <3>1 DEF SInv, Open
      <3>3. QED
        BY <3>1, <3>2, <1>2
           DEF Alone, AloneChange, AloneRemove, AloneProject, OwnerLeft,
               ActiveProjects, Bundle
    <2>4. QED
      BY <2>2, <2>3 DEF SInv
  <1>3. ASSUME NEW i \in Invites, ExpireInvite(i) PROVE SInv'
    BY <1>2, <1>3 DEF ExpireInvite
  <1>4. ASSUME NEW t \in Txs, tx' = [tx EXCEPT ![t] = None]
        PROVE  \A u \in Txs : tx'[u] = None
    BY <1>4 DEF Serial, SInv, IInv, TypeOK
  <1>5. ASSUME NEW t \in Txs, Rollback(t) PROVE SInv'
    BY <1>2, <1>4, <1>5 DEF Rollback
  <1>6. ASSUME NEW t \in Txs, NEW i \in Invites, NEW role \in InviteRoles,
               Invite(t, i, role)
        PROVE  SInv'
    BY <1>2, <1>4, <1>6 DEF Invite
  <1>7. ASSUME NEW t \in Txs, DeleteProject(t) PROVE SInv'
    <2>1. /\ \A u \in Txs : tx'[u] = None
          /\ projects' = [projects EXCEPT ![tx[t].project] = "deleted"]
          /\ UNCHANGED <<org, members, caps>>
      BY <1>4, <1>7 DEF DeleteProject
    <2>2. org # "absent"
      BY <1>7, AloneFacts DEF DeleteProject, InPhase, Sound
    <2>3. projects[tx[t].project] = "active"
      BY <1>7 DEF DeleteProject
    <2>4. \A p \in Projects :
             /\ projects'[p] = "active" => projects[p] = "active"
             /\ projects'[p] = "absent" => projects[p] = "absent"
      BY <2>1 DEF SInv, IInv, TypeOK
    <2>5. QED
      BY <1>2, <2>1, <2>2, <2>4
  <1>8. CASE UNCHANGED vars
    BY <1>2, <1>8 DEF vars
  <1>9. QED
    BY <1>1, <1>3, <1>5, <1>6, <1>7, <1>8

\* Order holds at the start, and every step of requests one at a time keeps it.
LEMMA AloneInit == Init => SInv
  BY InitInv DEF Init, SInv, InOrder, Open

LEMMA AloneInductive == Serial /\ SInv /\ [Next]_vars => SInv'
  <1> SUFFICES ASSUME Serial, SInv, [Next]_vars PROVE SInv'
    OBVIOUS
  <1>1. IInv'
    BY InvInductive DEF SInv
  <1>2. QED
    BY <1>1, AloneGate, AloneChangeStep, AloneWithdrawStep, AloneGrowStep,
       AloneCommit, AloneOneStep DEF Next, End

\* An active organisation keeps an owner while requests do not overlap: the
\* count before a role change or a removal is enough then.
THEOREM OwnerStays ==
    ASSUME Serial
    PROVE  Spec => []OwnerAlways
  <1>1. SInv => OwnerAlways
    BY DEF SInv, InOrder, OwnerPresent, OwnerAlways, Owners
  <1>2. Init => SInv
    BY AloneInit
  <1>3. SInv /\ [Next]_vars => SInv'
    BY AloneInductive
  <1>4. QED
    BY <1>1, <1>2, <1>3, PTL DEF Spec

\* The capabilities are then what the member list and the active projects say.
THEOREM GrantsAreTheRoles ==
    ASSUME Serial
    PROVE  Spec => []GrantsMatchRoles
  <1>1. SInv => GrantsMatchRoles
    <2> SUFFICES ASSUME SInv, org = "active" PROVE GrantsMatchRoles
      BY DEF GrantsMatchRoles
    <2> DEFINE here == {g \in caps : g.on = Org \/ g.on \in ActiveProjects}
               due == UNION {Bundle(a, members[a], ActiveProjects) :
                                a \in {b \in Actors : members[b] # None}}
    <2>1. /\ GrantsFit /\ RolesGranted
          /\ caps \subseteq Grant
          /\ members \in [Actors -> Roles \cup {None}]
          /\ ActiveProjects \in SUBSET Projects
      BY DEF SInv, InOrder, IInv, TypeOK, ActiveProjects
    <2>2. ASSUME NEW g \in here PROVE g \in due
      <3>1. /\ g.actor \in Actors /\ g.bundle \in Roles
            /\ g = [actor |-> g.actor, bundle |-> g.bundle, on |-> g.on]
            /\ members[g.actor] = g.bundle /\ members[g.actor] # None
            /\ g.on # Org => g.bundle \in ProjectRoles /\ g.on \in ActiveProjects
        BY <2>1, <2>2, NoneAssumption DEF GrantsFit, Grant
      <3>2. g \in Bundle(g.actor, members[g.actor], ActiveProjects)
        <4>1. CASE g.on = Org
          BY <3>1, <4>1 DEF Bundle
        <4>2. CASE g.on # Org
          <5>1. /\ members[g.actor] \in ProjectRoles /\ g.on \in ActiveProjects
                /\ g = [actor |-> g.actor, bundle |-> members[g.actor],
                        on |-> g.on]
            BY <3>1, <4>2
          <5>2. QED
            BY <5>1 DEF Bundle
        <4>3. QED
          BY <4>1, <4>2
      <3>3. QED
        BY <3>1, <3>2
    <2>3. ASSUME NEW g \in due PROVE g \in here
      <3>1. PICK a \in Actors : /\ members[a] # None
                                /\ g \in Bundle(a, members[a], ActiveProjects)
        BY <2>3
      <3>2. members[a] \in Roles
        BY <3>1, <2>1
      <3>3. \/ g = [actor |-> a, bundle |-> members[a], on |-> Org]
            \/ /\ members[a] \in ProjectRoles
               /\ \E p \in ActiveProjects :
                     g = [actor |-> a, bundle |-> members[a], on |-> p]
        BY <3>1 DEF Bundle
      <3>4. CASE g = [actor |-> a, bundle |-> members[a], on |-> Org]
        BY <3>1, <3>4, <2>1 DEF RolesGranted
      <3>5. ASSUME NEW p \in ActiveProjects, members[a] \in ProjectRoles,
                   g = [actor |-> a, bundle |-> members[a], on |-> p]
            PROVE  g \in here
        <4>1. g \in caps
          BY <3>1, <3>5, <2>1 DEF RolesGranted, ActiveProjects
        <4>2. QED
          BY <4>1, <3>5
      <3>6. QED
        BY <3>3, <3>4, <3>5
    <2>4. \A g \in caps : members[g.actor] = g.bundle
      BY <2>1 DEF GrantsFit
    <2>5. QED
      BY <2>2, <2>3, <2>4 DEF GrantsMatchRoles
  <1>2. Init => SInv
    BY AloneInit
  <1>3. SInv /\ [Next]_vars => SInv'
    BY AloneInductive
  <1>4. QED
    BY <1>1, <1>2, <1>3, PTL DEF Spec

\* And a deleted organisation grants nothing.
THEOREM DeletionRevokesAll ==
    ASSUME Serial
    PROVE  Spec => []DeletedOrgGrantsNothing
  <1>1. SInv => DeletedOrgGrantsNothing
    BY DEF SInv, InOrder, DeletedOrgGrantsNothing
  <1>2. Init => SInv
    BY AloneInit
  <1>3. SInv /\ [Next]_vars => SInv'
    BY AloneInductive
  <1>4. QED
    BY <1>1, <1>2, <1>3, PTL DEF Spec

=============================================================================
