------------------------- MODULE TenantRequestsProofs -------------------------
(***************************************************************************)
(* Proofs about TenantRequests.  The inductive invariant says how requests *)
(* and connections belong together, that a request in flight remembers all *)
(* its actor holds now, and what each stage of a request has established.  *)
(***************************************************************************)
EXTENDS TenantRequests, TLAPS

\* A request in flight has its connection for itself.
Paired ==
    /\ \A r \in Reqs : Active(r) => conn[req[r].conn].user = r
    /\ \A c \in Conns : conn[c].user # None =>
           Active(conn[c].user) /\ req[conn[c].user].conn = c

\* Capabilities are for what exists; who may change a project is a member of
\* its organisation and may read it.
CapsClosed ==
    /\ \A g \in caps : g.res \in Orgs \/ home[g.res] # None
    /\ \A g \in caps : g.res \in Projects /\ g.op # "read" =>
           /\ role[home[g.res]][g.actor] # None
           /\ [actor |-> g.actor, op |-> "read", res |-> g.res] \in caps

\* What is held now is remembered, and so is the reading that goes with it.
Remembers(r) ==
    Active(r) =>
        /\ RightsOf(req[r].actor, role, caps) \subseteq held[r]
        /\ \A g \in held[r] : g.res \in Projects /\ g.op # "read" =>
               [actor |-> g.actor, op |-> "read", res |-> g.res] \in held[r]

MemberRight(r) == [actor |-> req[r].actor, op |-> "member", res |-> req[r].org]

ReadRight(r, p) == [actor |-> req[r].actor, op |-> "read", res |-> p]

InOrg(r) == req[r].kind \in OnProject => home[req[r].project] = req[r].org

\* What the stages of a request have established.
Aimed(r) == Active(r) /\ req[r].kind \in OnProject => req[r].project \in Projects

Resolved(r) ==
    /\ req[r].stage \in {"begun", "stranger"} => ~req[r].guest
    /\ req[r].stage \notin Unresolved /\ ~req[r].guest => MemberRight(r) \in held[r]

Found(r) == req[r].stage = "found" => req[r].kind \in OnProject /\ InOrg(r)

Admitted(r) ==
    \/ req[r].stage \in {"admitted", "loaded"}
    \/ req[r].stage = "done" /\ req[r].kind # "list"
    =>  /\ req[r].kind # "list"
        /\ Needed(r) \in held[r]
        /\ InOrg(r)
        /\ req[r].kind = "create" => ~req[r].guest
        /\ req[r].stage = "loaded" => req[r].kind \in {"update", "delete"}

Listed(r) ==
    req[r].stage = "listed" \/ req[r].stage = "done" =>
        /\ \A p \in req[r].shown : home[p] = req[r].org
        /\ req[r].kind \in OnProject => req[r].shown \subseteq {req[r].project}
        /\ req[r].kind = "delete" => req[r].shown = {}
        /\ req[r].stage = "listed" => req[r].guest /\ req[r].kind = "list"
        /\ req[r].stage = "done" /\ req[r].kind = "list" /\ req[r].guest =>
               \A p \in req[r].shown : ReadRight(r, p) \in held[r]

Stage(r) == Aimed(r) /\ Resolved(r) /\ Found(r) /\ Admitted(r) /\ Listed(r)

\* A later stage of the same request.
Same(r, new) ==
    /\ new.actor = req[r].actor
    /\ new.org = req[r].org
    /\ new.kind = req[r].kind
    /\ new.project = req[r].project
    /\ new.guest = req[r].guest
    /\ new.conn = req[r].conn

IInv ==
    /\ TypeOK
    /\ Paired
    /\ PinIsOwn
    /\ CapsClosed
    /\ \A r \in Reqs : Remembers(r)
    /\ \A r \in Reqs : Stage(r)

-----------------------------------------------------------------------------

USE DEF OnProject, Kinds, Roles, Ops, Stages, Unresolved, Idle

\* Records of the sets the type invariant names.
LEMMA GrantsType ==
    ASSUME NEW a \in Actors, NEW ops \in SUBSET Ops, NEW res \in Orgs \cup Projects
    PROVE  /\ Grants(a, ops, res) \subseteq Capability
           /\ \A g : g \in Grants(a, ops, res) <=>
                    \E op \in ops : g = [actor |-> a, op |-> op, res |-> res]
<1>1. ASSUME NEW g \in [actor : {a}, op : ops, res : {res}]
      PROVE  g \in Capability /\ \E op \in ops : g = [actor |-> a, op |-> op, res |-> res]
  <2>1. g = [actor |-> g.actor, op |-> g.op, res |-> g.res]
    OBVIOUS
  <2>2. g.actor = a /\ g.op \in ops /\ g.op \in Ops /\ g.res = res
    OBVIOUS
  <2> QED
    BY <2>1, <2>2 DEF Capability
<1>2. ASSUME NEW op \in ops
      PROVE  [actor |-> a, op |-> op, res |-> res] \in [actor : {a}, op : ops, res : {res}]
  OBVIOUS
<1> QED
  BY <1>1, <1>2 DEF Grants

\* Every bundle lets its holder read, the projects as well.
LEMMA OpsOfRoles ==
    ASSUME NEW name \in Roles
    PROVE  /\ OrgOps[name] \in SUBSET Ops
           /\ ProjectOps[name] \in SUBSET Ops
           /\ "read" \in ProjectOps[name]
BY DEF OrgOps, ProjectOps

\* mint_bundle hands out capabilities, for the organisation and its projects.
LEMMA BundleType ==
    ASSUME TypeOK, NEW a \in Actors, NEW o \in Orgs, NEW name \in Roles
    PROVE  /\ Bundle(a, o, name) \subseteq Capability
           /\ \A g \in Bundle(a, o, name) :
                 /\ g.actor = a
                 /\ \/ g.res = o
                    \/ /\ g.res \in Projects
                       /\ home[g.res] = o
                       /\ [actor |-> a, op |-> "read", res |-> g.res]
                            \in Bundle(a, o, name)
<1>1. /\ OrgOps[name] \in SUBSET Ops
      /\ ProjectOps[name] \in SUBSET Ops
      /\ "read" \in ProjectOps[name]
  BY OpsOfRoles
<1>2. ASSUME NEW g \in Bundle(a, o, name)
      PROVE  \/ g \in Grants(a, OrgOps[name], o)
             \/ \E p \in Live(o) : g \in Grants(a, ProjectOps[name], p)
  BY DEF Bundle
<1>3. \A p \in Live(o) : p \in Projects /\ home[p] = o
  BY DEF Live
<1>4. ASSUME NEW p \in Live(o)
      PROVE  /\ Grants(a, ProjectOps[name], p) \subseteq Bundle(a, o, name)
             /\ [actor |-> a, op |-> "read", res |-> p] \in Grants(a, ProjectOps[name], p)
  BY <1>1, <1>3, GrantsType DEF Bundle
<1> QED
  BY <1>1, <1>2, <1>3, <1>4, GrantsType

-----------------------------------------------------------------------------

\* The initial states satisfy the invariant.
LEMMA InitOK == Init => IInv
<1> SUFFICES ASSUME Init PROVE IInv
  OBVIOUS
<1> USE TenantRequestsAssumption DEF Init
<1>1. /\ role \in [Orgs -> [Actors -> Roles \cup {None}]]
      /\ home \in [Projects -> Orgs \cup {None}]
      /\ ended = {} /\ gone = {}
  OBVIOUS
<1>2. ASSUME NEW g \in caps
      PROVE  /\ g \in Capability
             /\ g.res \in Orgs \/ (g.res \in Projects /\ home[g.res] # None)
             /\ g.res \in Projects /\ g.op # "read" =>
                   /\ role[home[g.res]][g.actor] # None
                   /\ [actor |-> g.actor, op |-> "read", res |-> g.res] \in caps
  <2>1. CASE \E o \in Orgs : g \in Bundle(Founder[o], o, "admin")
    <3>1. PICK o \in Orgs : g \in Bundle(Founder[o], o, "admin")
      BY <2>1
    <3>2. /\ OrgOps["admin"] \in SUBSET Ops
          /\ ProjectOps["admin"] \in SUBSET Ops
          /\ "read" \in ProjectOps["admin"]
      BY OpsOfRoles
    <3>3. \/ g \in Grants(Founder[o], OrgOps["admin"], o)
          \/ \E p \in Live(o) : g \in Grants(Founder[o], ProjectOps["admin"], p)
      BY <3>1 DEF Bundle
    <3>4. CASE g \in Grants(Founder[o], OrgOps["admin"], o)
      BY <3>2, <3>4, GrantsType DEF Capability
    <3>5. CASE \E p \in Live(o) : g \in Grants(Founder[o], ProjectOps["admin"], p)
      <4>1. PICK p \in Live(o) : g \in Grants(Founder[o], ProjectOps["admin"], p)
        BY <3>5
      <4>2. p \in Projects /\ home[p] = o
        BY DEF Live
      <4>3. /\ g \in Capability
            /\ g.actor = Founder[o] /\ g.res = p
            /\ [actor |-> Founder[o], op |-> "read", res |-> p]
                  \in Grants(Founder[o], ProjectOps["admin"], p)
        BY <3>2, <4>1, <4>2, GrantsType
      <4>4. [actor |-> Founder[o], op |-> "read", res |-> p] \in Bundle(Founder[o], o, "admin")
        BY <4>3 DEF Bundle
      <4>5. [actor |-> Founder[o], op |-> "read", res |-> p] \in caps
        BY <4>4
      <4>6. role[o][Founder[o]] = "admin" /\ "admin" # None
        BY <4>3 DEF Live
      <4> QED
        BY <4>2, <4>3, <4>5, <4>6
    <3> QED
      BY <3>3, <3>4, <3>5
  <2>2. CASE \E sh \in FirstShares : g \in Grants(sh.actor, {"read"}, sh.project)
    <3>1. PICK sh \in FirstShares : g \in Grants(sh.actor, {"read"}, sh.project)
      BY <2>2
    <3>2. sh.actor \in Actors /\ sh.project \in Projects /\ home[sh.project] # None
      OBVIOUS
    <3>3. {"read"} \in SUBSET Ops
      OBVIOUS
    <3>4. g \in Capability /\ g = [actor |-> sh.actor, op |-> "read", res |-> sh.project]
      BY <3>1, <3>2, <3>3, GrantsType
    <3> QED
      BY <3>2, <3>4
  <2>3. g \in UNION {Bundle(Founder[o], o, "admin") : o \in Orgs}
          \/ g \in UNION {Grants(sh.actor, {"read"}, sh.project) : sh \in FirstShares}
    BY <1>2
  <2> QED
    BY <2>1, <2>2, <2>3
<1>3. TypeOK
  <2>1. caps \subseteq Capability
    BY <1>2
  <2>2. conn \in [Conns -> Connection]
    BY DEF Connection
  <2>3. req \in [Reqs -> Request \cup {Idle}]
    OBVIOUS
  <2>4. changes \in 0..MaxChanges /\ held \in [Reqs -> SUBSET Right]
    OBVIOUS
  <2> QED
    BY <1>1, <2>1, <2>2, <2>3, <2>4 DEF TypeOK
<1>4. Paired /\ PinIsOwn
  BY DEF Paired, PinIsOwn, Active
<1>5. CapsClosed
  BY <1>2 DEF CapsClosed
<1>6. ASSUME NEW r \in Reqs PROVE Remembers(r) /\ Stage(r)
  <2>1. req[r].stage = "idle"
    OBVIOUS
  <2> HIDE DEF Init
  <2>2. Remembers(r)
    BY <2>1 DEF Remembers, Active
  <2>3. Aimed(r) /\ Resolved(r) /\ Found(r)
    BY <2>1 DEF Aimed, Active, Resolved, Found
  <2>4. Admitted(r) /\ Listed(r)
    BY <2>1 DEF Admitted, Listed
  <2> QED
    BY <2>2, <2>3, <2>4 DEF Stage
<1> QED
  BY <1>3, <1>4, <1>5, <1>6 DEF IInv

-----------------------------------------------------------------------------

\* The parts of the type invariant that are about the database.
DbOK ==
    /\ role \in [Orgs -> [Actors -> Roles \cup {None}]]
    /\ ended \subseteq Orgs
    /\ home \in [Projects -> Orgs \cup {None}]
    /\ gone \subseteq Projects
    /\ caps \subseteq Capability

\* Projects are created, and stay where they are.
HomesStay == \A p \in Projects : home[p] # None => home'[p] = home[p]

\* What an actor holds is a right.
LEMMA RightsType ==
    ASSUME NEW a \in Actors, NEW roles, NEW grants \in SUBSET Capability
    PROVE  RightsOf(a, roles, grants) \subseteq Right
<1>1. ASSUME NEW g \in Capability PROVE g \in Right
  BY DEF Capability, Right
<1>2. ASSUME NEW o \in Orgs
      PROVE  [actor |-> a, op |-> "member", res |-> o] \in Right
  BY DEF Right
<1> QED
  BY <1>1, <1>2 DEF RightsOf

\* Remember, for every request: nothing is forgotten and all is remembered.
LEMMA RememberStep ==
    ASSUME TypeOK, DbOK', CapsClosed', Remember,
           \A r \in Reqs : Remembers(r),
           \A r \in Reqs : Active(r)' = Active(r) /\ (Active(r) => req'[r].actor = req[r].actor)
    PROVE  /\ held' \in [Reqs -> SUBSET Right]
           /\ \A r \in Reqs : held[r] \subseteq held'[r]
           /\ \A r \in Reqs : Remembers(r)'
<1>1. ASSUME NEW r \in Reqs
      PROVE  /\ Active(r) => req[r].actor \in Actors
             /\ held[r] \subseteq Right
  BY DEF TypeOK, Request, Active
<1>2. ASSUME NEW r \in Reqs, Active(r)
      PROVE  /\ held'[r] = held[r] \cup RightsOf(req[r].actor, role', caps')
             /\ RightsOf(req[r].actor, role', caps') \subseteq Right
  <2>1. held'[r] = held[r] \cup RightsOf(req[r].actor, role', caps')
    BY <1>2 DEF Remember
  <2>2. RightsOf(req[r].actor, role', caps') \subseteq Right
    BY <1>1, <1>2, RightsType DEF DbOK
  <2> QED
    BY <2>1, <2>2
<1>3. ASSUME NEW r \in Reqs, ~Active(r) PROVE held'[r] = held[r]
  BY <1>3 DEF Remember
<1>4. held' \in [Reqs -> SUBSET Right]
  <2>1. ASSUME NEW r \in Reqs PROVE held'[r] \in SUBSET Right
    BY <1>1, <1>2, <1>3
  <2> QED
    BY <2>1 DEF Remember
<1>5. ASSUME NEW r \in Reqs PROVE held[r] \subseteq held'[r]
  BY <1>2, <1>3
<1>6. ASSUME NEW r \in Reqs PROVE Remembers(r)'
  <2>1. CASE ~Active(r)
    BY <2>1 DEF Remembers
  <2>2. CASE Active(r)
    <3> DEFINE now == RightsOf(req[r].actor, role', caps')
    <3>1. now = RightsOf(req[r].actor, role, caps)'
      BY <2>2 DEF RightsOf
    <3>2. \A g \in now : g.res \in Projects /\ g.op # "read" =>
             [actor |-> g.actor, op |-> "read", res |-> g.res] \in now
      <4>1. ASSUME NEW g \in now, g.res \in Projects, g.op # "read"
            PROVE  [actor |-> g.actor, op |-> "read", res |-> g.res] \in now
        <5>1. g \in caps' /\ g.actor = req[r].actor
          BY <4>1, TenantRequestsAssumption DEF RightsOf
        <5>2. [actor |-> g.actor, op |-> "read", res |-> g.res] \in caps'
          BY <4>1, <5>1 DEF CapsClosed
        <5> QED
          BY <5>1, <5>2 DEF RightsOf
      <4> QED
        BY <4>1
    <3>3. \A g \in held[r] : g.res \in Projects /\ g.op # "read" =>
             [actor |-> g.actor, op |-> "read", res |-> g.res] \in held[r]
      BY <2>2 DEF Remembers
    <3>4. held'[r] = held[r] \cup now
      BY <1>2, <2>2
    <3>5. req'[r].actor = req[r].actor
      BY <2>2
    <3>6. RightsOf(req'[r].actor, role', caps') = now
      BY <3>5
    <3> HIDE DEF now
    <3> QED
      BY <3>2, <3>3, <3>4, <3>6 DEF Remembers
  <2> QED
    BY <2>1, <2>2
<1> QED
  BY <1>4, <1>5, <1>6

\* What a request has established stays established while others work.
LEMMA StageKept ==
    ASSUME TypeOK, NEW r \in Reqs, Stage(r), req'[r] = req[r],
           held[r] \subseteq held'[r], HomesStay
    PROVE  Stage(r)'
<1>1. CASE req[r].stage = "idle"
  BY <1>1 DEF Stage, Aimed, Active, Resolved, Found, Admitted, Listed
<1>2. CASE req[r].stage # "idle"
  <2>1. req[r] \in Request
    BY <1>2 DEF TypeOK
  <2>2. /\ req[r].org \in Orgs
        /\ req[r].project \in Projects \cup {None}
        /\ req[r].shown \subseteq Projects
    BY <2>1 DEF Request
  <2>3. None \notin Orgs /\ None \notin Projects
    BY TenantRequestsAssumption
  <2>4. \A p \in Projects : home[p] = req[r].org => home'[p] = req[r].org
    BY <2>2, <2>3 DEF HomesStay
  <2>5. Aimed(r)' /\ Resolved(r)' /\ Found(r)'
    BY <1>2, <2>4 DEF Stage, Aimed, Active, Resolved, Found, InOrg, MemberRight
  <2>6. Admitted(r)'
    BY <1>2, <2>4 DEF Stage, Aimed, Active, Admitted, InOrg, Needed, Target
  <2>7. Listed(r)'
    BY <1>2, <2>2, <2>4 DEF Stage, Listed, ReadRight
  <2> QED
    BY <2>5, <2>6, <2>7 DEF Stage
<1> QED
  BY <1>1, <1>2

\* What others commit: the requests stay as they are and remember.
LEMMA ChangedAround ==
    ASSUME IInv, DbOK', CapsClosed', HomesStay, Remember, changes' \in 0..MaxChanges,
           UNCHANGED <<conn, req>>
    PROVE  IInv'
<1>1. /\ held' \in [Reqs -> SUBSET Right]
      /\ \A r \in Reqs : held[r] \subseteq held'[r]
      /\ \A r \in Reqs : Remembers(r)'
  BY RememberStep DEF IInv, Active
<1>2. TypeOK'
  BY <1>1 DEF IInv, TypeOK, DbOK
<1>3. Paired' /\ PinIsOwn'
  BY DEF IInv, Paired, PinIsOwn, Active
<1>4. \A r \in Reqs : Stage(r)'
  BY <1>1, StageKept DEF IInv
<1> QED
  BY <1>1, <1>2, <1>3, <1>4 DEF IInv

\* Joining, leaving, sharing and the end of an organisation.
LEMMA OthersOK == IInv /\ Others => IInv'
<1> SUFFICES ASSUME IInv, Others PROVE IInv'
  OBVIOUS
<1> USE TenantRequestsAssumption
<1>1. ASSUME NEW a \in Actors, NEW o \in Orgs, NEW name \in JoinAs, Joins(a, o, name)
      PROVE  IInv'
  <2>1. /\ Bundle(a, o, name) \subseteq Capability
        /\ \A g \in Bundle(a, o, name) :
              /\ g.actor = a
              /\ \/ g.res = o
                 \/ /\ g.res \in Projects
                    /\ home[g.res] = o
                    /\ [actor |-> a, op |-> "read", res |-> g.res] \in Bundle(a, o, name)
    BY BundleType DEF IInv
  <2>2. DbOK'
    BY <1>1, <2>1 DEF Joins, IInv, TypeOK, DbOK
  <2>3. \A b \in Actors, u \in Orgs : role[u][b] # None => role'[u][b] # None
    BY <1>1 DEF Joins, IInv, TypeOK
  <2>4. role'[o][a] # None
    BY <1>1 DEF Joins, IInv, TypeOK
  <2>5. CapsClosed'
    <3>1. caps' = caps \cup Bundle(a, o, name) /\ home' = home
      BY <1>1 DEF Joins
    <3>2. ASSUME NEW g \in caps'
          PROVE  /\ g.res \in Orgs \/ home[g.res] # None
                 /\ g.res \in Projects /\ g.op # "read" =>
                      /\ role'[home[g.res]][g.actor] # None
                      /\ [actor |-> g.actor, op |-> "read", res |-> g.res] \in caps'
      <4>1. CASE g \in caps
        BY <2>3, <3>1, <4>1 DEF IInv, TypeOK, CapsClosed, Capability
      <4>2. CASE g \in Bundle(a, o, name)
        BY <2>1, <2>4, <3>1, <4>2 DEF Capability
      <4> QED
        BY <3>1, <3>2, <4>1, <4>2
    <3> QED
      BY <3>1, <3>2 DEF CapsClosed
  <2> QED
    BY <1>1, <2>2, <2>5, ChangedAround DEF Joins, Changes, HomesStay, IInv, TypeOK
<1>2. ASSUME NEW a \in Actors, NEW o \in Orgs, Leaves(a, o)
      PROVE  IInv'
  <2>1. DbOK'
    BY <1>2 DEF Leaves, IInv, TypeOK, DbOK
  <2>2. \A b \in Actors, u \in Orgs :
          role[u][b] # None /\ ~(b = a /\ u = o) => role'[u][b] # None
    BY <1>2 DEF Leaves, IInv, TypeOK
  <2>3. CapsClosed'
    BY <1>2, <2>2 DEF Leaves, IInv, TypeOK, CapsClosed, Capability, OrgOf
  <2> QED
    BY <1>2, <2>1, <2>3, ChangedAround DEF Leaves, Changes, HomesStay, IInv, TypeOK
<1>3. ASSUME NEW a \in Actors, NEW p \in Projects, Shared(a, p)
      PROVE  IInv'
  <2>1. /\ Grants(a, {"read"}, p) \subseteq Capability
        /\ \A g \in Grants(a, {"read"}, p) : g.res = p /\ g.op = "read"
    BY GrantsType
  <2>2. DbOK'
    BY <1>3, <2>1 DEF Shared, IInv, TypeOK, DbOK
  <2>3. CapsClosed'
    BY <1>3, <2>1 DEF Shared, IInv, TypeOK, CapsClosed
  <2> QED
    BY <1>3, <2>2, <2>3, ChangedAround DEF Shared, Changes, HomesStay, IInv, TypeOK
<1>4. ASSUME NEW a \in Actors, NEW p \in Projects, Unshared(a, p)
      PROVE  IInv'
  <2>1. \A g \in Grants(a, {"read"}, p) : g.actor = a /\ g.res = p /\ g.op = "read"
    BY GrantsType
  <2>2. DbOK'
    BY <1>4 DEF Unshared, IInv, TypeOK, DbOK
  <2>3. CapsClosed'
    BY <1>4, <2>1 DEF Unshared, IInv, TypeOK, CapsClosed
  <2> QED
    BY <1>4, <2>2, <2>3, ChangedAround DEF Unshared, Changes, HomesStay, IInv, TypeOK
<1>5. ASSUME NEW o \in Orgs, Ends(o)
      PROVE  IInv'
  <2>1. DbOK'
    BY <1>5 DEF Ends, IInv, TypeOK, DbOK
  <2>2. CapsClosed'
    BY <1>5 DEF Ends, IInv, TypeOK, CapsClosed, OrgOf
  <2> QED
    BY <1>5, <2>1, <2>2, ChangedAround DEF Ends, Changes, HomesStay, IInv, TypeOK
<1> QED
  BY <1>1, <1>2, <1>3, <1>4, <1>5 DEF Others

\* A request that goes on to its next stage, on the same connection.
LEMMA Proceeds ==
    ASSUME IInv, NEW r \in Reqs, NEW new \in Request,
           req[r].stage \notin Unresolved, new.stage \notin Unresolved,
           Same(r, new), req' = [req EXCEPT ![r] = new],
           UNCHANGED <<conn, changes>>,
           DbOK', CapsClosed', HomesStay,
           held' \in [Reqs -> SUBSET Right],
           \A q \in Reqs : held[q] \subseteq held'[q] /\ Remembers(q)',
           Stage(r)'
    PROVE  IInv'
<1>1. req' \in [Reqs -> Request \cup {Idle}]
  BY DEF IInv, TypeOK
<1>2. TypeOK'
  BY <1>1 DEF IInv, TypeOK, DbOK
<1>3. /\ req'[r] = new
      /\ \A q \in Reqs \ {r} : req'[q] = req[q]
  BY DEF IInv, TypeOK
<1>4. Paired'
  BY <1>3 DEF IInv, Paired, Active, Same, TypeOK, Connection
<1>5. PinIsOwn'
  BY <1>3 DEF IInv, PinIsOwn, Same, TypeOK, Connection
<1>6. \A q \in Reqs : Stage(q)'
  <2>1. ASSUME NEW q \in Reqs, q # r PROVE Stage(q)'
    BY <1>3, <2>1, StageKept DEF IInv
  <2> QED
    BY <2>1
<1> QED
  BY <1>2, <1>4, <1>5, <1>6 DEF IInv

\* Nothing of the database changes, and nothing is remembered anew.
LEMMA Reads ==
    ASSUME IInv, NEW r \in Reqs, NEW new \in Request,
           req[r].stage # "idle", new.stage # "idle",
           Same(r, new), req' = [req EXCEPT ![r] = new], UNCHANGED <<db, held>>
    PROVE  /\ DbOK' /\ CapsClosed' /\ HomesStay
           /\ held' \in [Reqs -> SUBSET Right]
           /\ \A q \in Reqs : held[q] \subseteq held'[q] /\ Remembers(q)'
<1>1. /\ req'[r] = new
      /\ \A q \in Reqs \ {r} : req'[q] = req[q]
  BY DEF IInv, TypeOK
<1>2. DbOK' /\ CapsClosed' /\ HomesStay
  BY DEF IInv, TypeOK, DbOK, CapsClosed, HomesStay, db
<1>3. \A q \in Reqs : Remembers(q)'
  <2>1. ASSUME NEW q \in Reqs PROVE Remembers(q)'
    <3>1. Active(q)' = Active(q) /\ req'[q].actor = req[q].actor
      BY <1>1 DEF Active, Same
    <3>2. Remembers(q)
      BY DEF IInv
    <3>3. role' = role /\ caps' = caps /\ held' = held
      BY DEF db
    <3>4. RightsOf(req'[q].actor, role', caps') = RightsOf(req[q].actor, role, caps)
      BY <3>1, <3>3
    <3> QED
      BY <3>1, <3>2, <3>3, <3>4 DEF Remembers
  <2> QED
    BY <2>1
<1> QED
  BY <1>2, <1>3 DEF IInv, TypeOK

\* The request of a stage, as a record.
LEMMA RequestType ==
    ASSUME TypeOK, NEW r \in Reqs, req[r].stage # "idle"
    PROVE  /\ req[r] \in Request
           /\ req[r].actor \in Actors /\ req[r].org \in Orgs
           /\ req[r].conn \in Conns /\ req[r].guest \in BOOLEAN
           /\ req[r].kind \in Kinds
           /\ req[r].project \in Projects \cup {None}
           /\ req[r].shown \subseteq Projects
<1>1. req[r] \in Request
  BY DEF TypeOK
<1> QED
  BY <1>1 DEF Request

-----------------------------------------------------------------------------
(* The steps of a request                                                   *)

\* project_context finds a project of the organisation.
LEMMA FindProjectOK == ASSUME IInv, NEW r \in Reqs, FindProject(r) PROVE IInv'
<1> DEFINE new == [req[r] EXCEPT !.stage = "found"]
<1>1. req[r].stage = "resolved" /\ req' = [req EXCEPT ![r] = new]
  BY DEF FindProject, Moves
<1>2. req[r] \in Request
  BY <1>1, RequestType DEF IInv
<1>3. /\ new \in Request /\ new.stage = "found" /\ Same(r, new)
      /\ new.shown = req[r].shown
  BY <1>2 DEF Request, Same
<1> HIDE DEF new
<1>4. req'[r] = new
  BY <1>1 DEF IInv, TypeOK
<1>5. /\ Stage(r)
      /\ req[r].kind \in OnProject /\ home[req[r].project] = req[r].org
      /\ home' = home /\ held' = held
  BY DEF FindProject, IInv, db
<1>6. Stage(r)'
  BY <1>1, <1>3, <1>4, <1>5 DEF Stage, Aimed, Resolved, Found, Admitted, Listed,
     Active, Same, InOrg, MemberRight
<1> QED
  BY <1>1, <1>3, <1>6, Proceeds, Reads DEF FindProject

\* A matching capability is one the actor holds now.
LEMMA MatchIsHeld ==
    ASSUME IInv, NEW r \in Reqs, Active(r), NEW g \in Loaded(r), Matches(r, g)
    PROVE  Needed(r) \in held[r]
<1>1. g \in caps /\ g.actor = req[r].actor /\ g \in Capability
  BY DEF Loaded, IInv, TypeOK
<1>2. g = [actor |-> g.actor, op |-> g.op, res |-> g.res]
  BY <1>1 DEF Capability
<1>3. g = Needed(r)
  BY <1>1, <1>2 DEF Matches, Needed
<1>4. g \in RightsOf(req[r].actor, role, caps)
  BY <1>1 DEF RightsOf
<1> QED
  BY <1>3, <1>4 DEF IInv, Remembers

\* A request whose tenant is pinned has its actor pinned already.
LEMMA PinsAgain ==
    ASSUME IInv, NEW r \in Reqs, req[r].stage \notin Unresolved, PinsActor(r)
    PROVE  conn' = conn
<1> DEFINE c == req[r].conn
<1>1. c \in Conns /\ conn[c].user = r /\ None \notin Reqs
  BY RequestType, TenantRequestsAssumption DEF IInv, Paired, Active
<1>2. conn[c].actor = req[r].actor
  BY <1>1 DEF IInv, PinIsOwn
<1>3. conn \in [Conns -> Connection] /\ conn[c] \in Connection
  BY <1>1 DEF IInv, TypeOK
<1>4. conn[c] = [conn[c] EXCEPT !.actor = req[r].actor]
  BY <1>2, <1>3 DEF Connection
<1>5. conn' = [conn EXCEPT ![c] = [conn[c] EXCEPT !.actor = req[r].actor]]
  BY DEF PinsActor
<1> QED
  BY <1>1, <1>3, <1>4, <1>5

\* can() says yes to what the actor holds.
LEMMA CheckOK == ASSUME IInv, NEW r \in Reqs, Check(r) PROVE IInv'
<1> DEFINE new == [req[r] EXCEPT !.stage = "admitted"]
<1>1. /\ req[r].stage \in {"found", "resolved"}
      /\ req[r].stage = "resolved" => req[r].kind = "create" /\ ~req[r].guest
      /\ req' = [req EXCEPT ![r] = new]
  BY DEF Check, Moves
<1>2. req[r] \in Request
  BY <1>1, RequestType DEF IInv
<1>3. /\ new \in Request /\ new.stage = "admitted" /\ Same(r, new)
      /\ new.shown = req[r].shown
  BY <1>2 DEF Request, Same
<1> HIDE DEF new
<1>4. req'[r] = new
  BY <1>1 DEF IInv, TypeOK
<1>5. Stage(r) /\ home' = home /\ held' = held
  BY DEF Check, IInv, db
<1>6. Needed(r) \in held[r]
  <2>1. PICK g \in Loaded(r) : Matches(r, g)
    BY DEF Check
  <2> QED
    BY <1>1, <2>1, MatchIsHeld DEF Active
<1>7. Needed(r)' = Needed(r)
  BY <1>3, <1>4 DEF Needed, Target, Same
<1>8. Stage(r)'
  BY <1>1, <1>3, <1>4, <1>5, <1>6, <1>7 DEF Stage, Aimed, Resolved, Found, Admitted, Listed,
     Active, Same, InOrg, MemberRight
<1>9. conn' = conn
  BY <1>1, PinsAgain DEF Check
<1> QED
  BY <1>1, <1>3, <1>8, <1>9, Proceeds, Reads DEF Check

\* An answer that shows what it may: the project of the URL to one who was
\* admitted to it, or a list within the organisation.
LEMMA AnswersOK ==
    ASSUME IInv, NEW r \in Reqs, NEW S \in SUBSET Projects, Answers(r, S),
           \/ req[r].stage \in {"admitted", "loaded"}
           \/ req[r].stage = "listed" /\ S \subseteq req[r].shown,
           req[r].kind \in OnProject => S \subseteq {req[r].project},
           req[r].kind = "delete" => S = {},
           \A p \in S : home'[p] = req[r].org,
           req[r].kind = "list" => \A p \in S : ReadRight(r, p) \in held[r],
           UNCHANGED <<conn, changes>>, DbOK', CapsClosed', HomesStay,
           held' \in [Reqs -> SUBSET Right],
           \A q \in Reqs : held[q] \subseteq held'[q],
           \A q \in Reqs : Remembers(q)'
    PROVE  IInv'
<1> DEFINE new == [req[r] EXCEPT !.stage = "done", !.shown = S]
<1>1. req' = [req EXCEPT ![r] = new]
  BY DEF Answers
<1>2. req[r] \in Request
  BY RequestType DEF IInv
<1>3. /\ new \in Request /\ new.stage = "done" /\ Same(r, new)
      /\ new.shown = S
  BY <1>2 DEF Request, Same
<1> HIDE DEF new
<1>4. req'[r] = new
  BY <1>1 DEF IInv, TypeOK
<1>5. Stage(r) /\ None \notin Orgs /\ req[r].org \in Orgs
  BY <1>2, TenantRequestsAssumption DEF IInv, Request
<1>6. Aimed(r)' /\ Resolved(r)' /\ Found(r)'
  BY <1>3, <1>4, <1>5 DEF Stage, Aimed, Resolved, Found, Active, Same, MemberRight
<1>7. Admitted(r)'
  <2>1. Needed(r)' = Needed(r)
    BY <1>3, <1>4 DEF Needed, Target, Same
  <2>2. req[r].stage \in {"admitted", "loaded"} \/ req[r].kind = "list"
    BY <1>5 DEF Stage, Listed
  <2>3. InOrg(r) => InOrg(r)'
    BY <1>3, <1>4, <1>5 DEF InOrg, Same, Stage, Aimed, Active, HomesStay
  <2> QED
    BY <1>3, <1>4, <1>5, <2>1, <2>2, <2>3 DEF Stage, Admitted, Same
<1>8. Listed(r)'
  BY <1>3, <1>4, <1>5 DEF Listed, Same, ReadRight
<1>9. Stage(r)'
  BY <1>6, <1>7, <1>8 DEF Stage
<1> QED
  BY <1>1, <1>3, <1>9, Proceeds

\* An answer and nothing else.
LEMMA AnswersOnlyOK ==
    ASSUME IInv, NEW r \in Reqs, NEW S \in SUBSET Projects, Answers(r, S),
           \/ req[r].stage \in {"admitted", "loaded"}
           \/ req[r].stage = "listed" /\ S \subseteq req[r].shown,
           req[r].kind \in OnProject => S \subseteq {req[r].project},
           req[r].kind = "delete" => S = {},
           \A p \in S : home[p] = req[r].org,
           req[r].kind = "list" => \A p \in S : ReadRight(r, p) \in held[r],
           UNCHANGED <<db, conn, changes, held>>
    PROVE  IInv'
<1> DEFINE new == [req[r] EXCEPT !.stage = "done", !.shown = S]
<1>1. req' = [req EXCEPT ![r] = new]
  BY DEF Answers
<1>2. req[r] \in Request
  BY RequestType DEF IInv
<1>3. new \in Request /\ new.stage = "done" /\ Same(r, new)
  BY <1>2 DEF Request, Same
<1> HIDE DEF new
<1>4. UNCHANGED <<db, held>> /\ home' = home
  BY DEF db
<1>5. /\ DbOK' /\ CapsClosed' /\ HomesStay
      /\ held' \in [Reqs -> SUBSET Right]
      /\ \A q \in Reqs : held[q] \subseteq held'[q] /\ Remembers(q)'
  BY <1>1, <1>3, <1>4, Reads
<1> QED
  BY <1>4, <1>5, AnswersOK

\* get_project and ProjectService.update answer with the project.
LEMMA GetOrUpdateOK ==
    ASSUME IInv, NEW r \in Reqs, GetProject(r) \/ UpdateProject(r)
    PROVE  IInv'
<1>1. /\ req[r].stage \in {"admitted", "loaded"} /\ req[r].kind \in {"get", "update"}
      /\ Answers(r, {req[r].project})
      /\ UNCHANGED <<db, conn, changes, held>>
  BY DEF GetProject, UpdateProject
<1>2. req[r].project \in Projects /\ home[req[r].project] = req[r].org
  BY <1>1 DEF IInv, Stage, Aimed, Active, Admitted, InOrg
<1> QED
  BY <1>1, <1>2, AnswersOnlyOK

\* ProjectService reads the project of one who was admitted to it.
LEMMA LoadProjectOK == ASSUME IInv, NEW r \in Reqs, LoadProject(r) PROVE IInv'
<1> DEFINE new == [req[r] EXCEPT !.stage = "loaded"]
<1>1. /\ req[r].stage = "admitted" /\ req[r].kind \in {"update", "delete"}
      /\ req' = [req EXCEPT ![r] = new]
      /\ UNCHANGED <<db, conn, changes, held>>
  BY DEF LoadProject, Moves
<1>2. req[r] \in Request
  BY <1>1, RequestType DEF IInv
<1>3. /\ new \in Request /\ new.stage = "loaded" /\ Same(r, new)
      /\ new.shown = req[r].shown
  BY <1>2 DEF Request, Same
<1> HIDE DEF new
<1>4. req'[r] = new /\ home' = home /\ held' = held /\ Stage(r)
  BY <1>1 DEF IInv, TypeOK, db
<1>5. Needed(r)' = Needed(r)
  BY <1>3, <1>4 DEF Needed, Target, Same
<1>6. Stage(r)'
  BY <1>1, <1>3, <1>4, <1>5 DEF Stage, Aimed, Resolved, Found, Admitted, Listed,
     Active, Same, InOrg, MemberRight
<1> QED
  BY <1>1, <1>3, <1>6, Proceeds, Reads

\* ProjectService.soft_delete marks the project.
LEMMA DeleteProjectOK == ASSUME IInv, NEW r \in Reqs, DeleteProject(r) PROVE IInv'
<1> DEFINE new == [req[r] EXCEPT !.stage = "done", !.shown = {}]
<1>1. /\ req[r].stage = "loaded" /\ req[r].kind = "delete"
      /\ Answers(r, {}) /\ req' = [req EXCEPT ![r] = new]
      /\ gone' = gone \cup {req[r].project}
      /\ UNCHANGED <<role, ended, home, caps, conn, changes, held>>
  BY DEF DeleteProject, Answers
<1>2. req[r] \in Request /\ req[r].project \in Projects
  BY <1>1, RequestType DEF IInv, Stage, Aimed, Active
<1>3. new \in Request /\ new.stage = "done" /\ Same(r, new)
  BY <1>2 DEF Request, Same
<1> HIDE DEF new
<1>4. DbOK' /\ CapsClosed' /\ HomesStay
  BY <1>1, <1>2 DEF IInv, TypeOK, DbOK, CapsClosed, HomesStay
<1>5. ASSUME NEW q \in Reqs PROVE held[q] \subseteq held'[q] /\ Remembers(q)'
  <2>1. Active(q)' = Active(q) /\ req'[q].actor = req[q].actor
    BY <1>1, <1>3 DEF Active, Same, IInv, TypeOK
  <2>2. RightsOf(req'[q].actor, role', caps') = RightsOf(req[q].actor, role, caps)
    BY <1>1, <2>1
  <2> QED
    BY <1>1, <2>1, <2>2 DEF IInv, Remembers
<1>6. held' \in [Reqs -> SUBSET Right]
  BY <1>1 DEF IInv, TypeOK
<1> QED
  BY <1>1, <1>4, <1>5, <1>6, AnswersOK

\* ProjectService.create grants the project to the members of now.
LEMMA CreateProjectOK ==
    ASSUME IInv, NEW r \in Reqs, NEW p \in Projects, CreateProject(r, p)
    PROVE  IInv'
<1> DEFINE new == [req[r] EXCEPT !.stage = "done", !.shown = {p}]
           o == req[r].org
<1>1. /\ req[r].stage = "admitted" /\ req[r].kind = "create"
      /\ home[p] = None
      /\ home' = [home EXCEPT ![p] = o]
      /\ caps' = caps \cup UNION {Grants(a, ProjectOps[role[o][a]], p) : a \in Members(o)}
      /\ Answers(r, {p}) /\ req' = [req EXCEPT ![r] = new]
      /\ UNCHANGED <<role, ended, gone, conn, changes>>
      /\ Remember
  BY DEF CreateProject, Answers
<1>2. req[r] \in Request /\ o \in Orgs /\ None \notin Orgs
  BY <1>1, RequestType, TenantRequestsAssumption DEF IInv
<1>3. new \in Request /\ new.stage = "done" /\ Same(r, new)
  BY <1>2 DEF Request, Same
<1> HIDE DEF new
<1>4. home' \in [Projects -> Orgs \cup {None}] /\ home'[p] = o /\ HomesStay
  BY <1>1, <1>2 DEF IInv, TypeOK, HomesStay
<1>5. ASSUME NEW a \in Members(o)
      PROVE  /\ a \in Actors /\ role[o][a] # None
             /\ Grants(a, ProjectOps[role[o][a]], p) \subseteq Capability
             /\ \A g \in Grants(a, ProjectOps[role[o][a]], p) : g.actor = a /\ g.res = p
             /\ [actor |-> a, op |-> "read", res |-> p] \in Grants(a, ProjectOps[role[o][a]], p)
  <2>1. a \in Actors /\ role[o][a] # None /\ role[o][a] \in Roles
    BY <1>2 DEF Members, IInv, TypeOK
  <2> QED
    BY <2>1, OpsOfRoles, GrantsType
<1>6. ASSUME NEW g \in caps'
      PROVE  \/ g \in caps
             \/ \E a \in Members(o) : g \in Grants(a, ProjectOps[role[o][a]], p)
  BY <1>1, <1>6
<1>7. DbOK'
  <2>1. caps' \subseteq Capability
    BY <1>5, <1>6 DEF IInv, TypeOK
  <2> QED
    BY <1>1, <1>4, <2>1 DEF IInv, TypeOK, DbOK
<1>8. CapsClosed'
  <2>1. ASSUME NEW g \in caps'
        PROVE  /\ g.res \in Orgs \/ home'[g.res] # None
               /\ g.res \in Projects /\ g.op # "read" =>
                    /\ role[home'[g.res]][g.actor] # None
                    /\ [actor |-> g.actor, op |-> "read", res |-> g.res] \in caps'
    <3>1. CASE g \in caps
      <4>1. g.res \in Orgs \cup Projects /\ (g.res \in Orgs \/ home[g.res] # None)
        BY <3>1 DEF IInv, TypeOK, CapsClosed, Capability
      <4>2. g.res \in Projects => home'[g.res] = home[g.res]
        BY <4>1, <1>4, TenantRequestsAssumption DEF HomesStay
      <4> QED
        BY <1>1, <3>1, <4>1, <4>2 DEF IInv, CapsClosed
    <3>2. CASE \E a \in Members(o) : g \in Grants(a, ProjectOps[role[o][a]], p)
      <4>1. PICK a \in Members(o) : g \in Grants(a, ProjectOps[role[o][a]], p)
        BY <3>2
      <4>2. [actor |-> a, op |-> "read", res |-> p] \in caps'
        BY <1>1, <1>5
      <4> QED
        BY <1>2, <1>4, <1>5, <4>1, <4>2
    <3> QED
      BY <2>1, <1>6, <3>1, <3>2
  <2> QED
    BY <1>1, <2>1 DEF CapsClosed
<1>9. \A q \in Reqs : Active(q)' = Active(q) /\ (Active(q) => req'[q].actor = req[q].actor)
  BY <1>1, <1>3 DEF Active, Same, IInv, TypeOK
<1>10. /\ held' \in [Reqs -> SUBSET Right]
       /\ \A q \in Reqs : held[q] \subseteq held'[q]
       /\ \A q \in Reqs : Remembers(q)'
  BY <1>1, <1>7, <1>8, <1>9, RememberStep DEF IInv
<1> QED
  BY <1>1, <1>4, <1>7, <1>8, <1>10, AnswersOK

\* list_projects reads the projects of the organisation.
LEMMA ListProjectsOK == ASSUME IInv, NEW r \in Reqs, ListProjects(r) PROVE IInv'
<1> DEFINE stage == IF req[r].guest THEN "listed" ELSE "done"
           new == [req[r] EXCEPT !.stage = stage, !.shown = Live(req[r].org)]
<1>1. /\ req[r].stage = "resolved" /\ req[r].kind = "list"
      /\ req' = [req EXCEPT ![r] = new]
      /\ UNCHANGED <<db, conn, changes, held>>
  BY DEF ListProjects
<1>2. req[r] \in Request /\ req[r].guest \in BOOLEAN
  BY <1>1, RequestType DEF IInv
<1>3. /\ Live(req[r].org) \subseteq Projects
      /\ \A p \in Live(req[r].org) : home[p] = req[r].org
  BY DEF Live
<1>4. /\ new \in Request /\ new.stage = stage /\ Same(r, new)
      /\ new.shown = Live(req[r].org)
      /\ stage \in {"listed", "done"} /\ (stage = "listed" <=> req[r].guest)
  BY <1>2, <1>3 DEF Request, Same
<1> HIDE DEF new, stage
<1>5. req'[r] = new /\ home' = home /\ held' = held /\ UNCHANGED <<db, held>>
  BY <1>1 DEF IInv, TypeOK, db
<1>6. Stage(r)
  BY DEF IInv
<1>7. Stage(r)'
  BY <1>1, <1>3, <1>4, <1>5, <1>6 DEF Stage, Aimed, Resolved, Found, Admitted, Listed,
     Active, Same, MemberRight
<1>8. /\ DbOK' /\ CapsClosed' /\ HomesStay
      /\ held' \in [Reqs -> SUBSET Right]
      /\ \A q \in Reqs : held[q] \subseteq held'[q] /\ Remembers(q)'
  BY <1>1, <1>4, <1>5, Reads
<1> QED
  BY <1>1, <1>4, <1>7, <1>8, Proceeds

\* A guest's list holds what the guest can read.
LEMMA ListForGuestOK == ASSUME IInv, NEW r \in Reqs, ListForGuest(r) PROVE IInv'
<1> DEFINE S == {p \in req[r].shown : \E g \in Loaded(r) : g.op = "read" /\ g.res = p}
<1>1. /\ req[r].stage = "listed" /\ Answers(r, S)
      /\ UNCHANGED <<db, conn, changes, held>>
  BY PinsAgain DEF ListForGuest
<1>2. /\ req[r].shown \subseteq Projects /\ req[r].kind = "list"
      /\ \A p \in req[r].shown : home[p] = req[r].org
  BY <1>1, RequestType DEF IInv, Stage, Listed
<1>3. ASSUME NEW p \in S PROVE ReadRight(r, p) \in held[r]
  <2>1. PICK g \in Loaded(r) : g.op = "read" /\ g.res = p
    BY <1>3
  <2>2. g \in caps /\ g.actor = req[r].actor /\ g \in Capability
    BY DEF Loaded, IInv, TypeOK
  <2>3. g = [actor |-> g.actor, op |-> g.op, res |-> g.res]
    BY <2>2 DEF Capability
  <2>4. g = ReadRight(r, p)
    BY <2>1, <2>2, <2>3 DEF ReadRight
  <2>5. g \in RightsOf(req[r].actor, role, caps)
    BY <2>2 DEF RightsOf
  <2> QED
    BY <1>1, <2>4, <2>5 DEF IInv, Remembers, Active
<1>4. S \subseteq req[r].shown
  OBVIOUS
<1> HIDE DEF S
<1> QED
  BY <1>1, <1>2, <1>3, <1>4, AnswersOnlyOK

\* A request begins on a connection nobody uses, which carries no tenant.
LEMMA BeginOK ==
    ASSUME IInv, NEW r \in Reqs, NEW c \in Conns, NEW a \in Actors, NEW kind \in Kinds,
           NEW o \in Orgs, NEW p \in Projects \cup {None}, Begin(r, c, a, kind, o, p)
    PROVE  IInv'
<1> DEFINE new == [stage |-> "begun", actor |-> a, kind |-> kind, org |-> o,
                   project |-> p, guest |-> FALSE, conn |-> c, shown |-> {}]
           taken == [conn[c] EXCEPT !.user = r]
<1>1. /\ req[r].stage = "idle" /\ conn[c].user = None
      /\ kind \in OnProject => p # None
      /\ conn' = [conn EXCEPT ![c] = taken]
      /\ req' = [req EXCEPT ![r] = new]
      /\ held' = [held EXCEPT ![r] = RightsOf(a, role, caps)]
      /\ UNCHANGED <<db, changes>>
  BY DEF Begin, Active
<1>2. conn[c] \in Connection /\ None \notin Reqs
  BY TenantRequestsAssumption DEF IInv, TypeOK
<1>3. /\ new \in Request /\ new.stage = "begun" /\ new.actor = a /\ new.conn = c
      /\ new.kind = kind /\ new.project = p /\ new.guest = FALSE
  BY DEF Request
<1>4. /\ taken \in Connection /\ taken.user = r
      /\ taken.org = conn[c].org /\ taken.actor = conn[c].actor
  BY <1>2 DEF Connection
<1> HIDE DEF new, taken
<1>5. /\ req'[r] = new /\ \A q \in Reqs \ {r} : req'[q] = req[q]
      /\ conn'[c] = taken /\ \A d \in Conns \ {c} : conn'[d] = conn[d]
      /\ held'[r] = RightsOf(a, role, caps)
      /\ \A q \in Reqs \ {r} : held'[q] = held[q]
  BY <1>1 DEF IInv, TypeOK
<1>6. role' = role /\ caps' = caps /\ home' = home /\ DbOK /\ DbOK'
  BY <1>1 DEF db, IInv, TypeOK, DbOK
<1>7. held' \in [Reqs -> SUBSET Right]
  <2>1. RightsOf(a, role, caps) \in SUBSET Right
    BY <1>6, RightsType DEF DbOK
  <2> QED
    BY <1>1, <2>1 DEF IInv, TypeOK
<1>8. TypeOK'
  BY <1>1, <1>3, <1>4, <1>6, <1>7 DEF IInv, TypeOK, DbOK
<1>9. ASSUME NEW d \in Conns, NEW q \in Reqs, conn[d].user = q
      PROVE  q # r /\ d # c
  BY <1>1, <1>2, <1>9 DEF IInv, Paired, Active
<1>10. Paired'
  BY <1>1, <1>2, <1>3, <1>4, <1>5, <1>9 DEF IInv, Paired, Active, TypeOK, Request, Connection
<1>11. PinIsOwn'
  BY <1>1, <1>2, <1>3, <1>4, <1>5, <1>9 DEF IInv, PinIsOwn, TypeOK, Connection
<1>12. CapsClosed'
  BY <1>6 DEF IInv, CapsClosed
<1>13. ASSUME NEW q \in Reqs PROVE Remembers(q)'
  <2>1. CASE q = r
    <3>1. ASSUME NEW g \in RightsOf(a, role, caps), g.res \in Projects, g.op # "read"
          PROVE  [actor |-> g.actor, op |-> "read", res |-> g.res] \in RightsOf(a, role, caps)
      <4>1. g \in caps /\ g.actor = a
        BY <3>1, TenantRequestsAssumption DEF RightsOf
      <4> QED
        BY <3>1, <4>1 DEF RightsOf, IInv, CapsClosed
    <3>2. RightsOf(req'[r].actor, role', caps') = held'[r]
      BY <1>3, <1>5, <1>6
    <3> QED
      BY <1>5, <2>1, <3>1, <3>2 DEF Remembers
  <2>2. CASE q # r
    <3>1. req'[q] = req[q] /\ held'[q] = held[q]
      BY <1>5, <2>2
    <3>2. RightsOf(req'[q].actor, role', caps') = RightsOf(req[q].actor, role, caps)
      BY <1>6, <3>1
    <3> QED
      BY <3>1, <3>2 DEF IInv, Remembers, Active
  <2> QED
    BY <2>1, <2>2
<1>14. ASSUME NEW q \in Reqs PROVE Stage(q)'
  <2>1. CASE q = r
    BY <1>1, <1>3, <1>5, <2>1 DEF Stage, Aimed, Active, Resolved, Found, Admitted, Listed
  <2>2. CASE q # r
    BY <1>5, <1>6, <2>2, StageKept DEF IInv, HomesStay
  <2> QED
    BY <2>1, <2>2
<1> QED
  BY <1>8, <1>10, <1>11, <1>12, <1>13, <1>14 DEF IInv

\* tenant_context pins the tenant it resolved on the request's connection: of a
\* member, or of a guest.
LEMMA PinnedOK ==
    ASSUME IInv, NEW r \in Reqs, NEW guest \in BOOLEAN,
           req[r].stage \in {"begun", "stranger"},
           guest \/ req[r].actor \in Members(req[r].org),
           req' = [req EXCEPT ![r] = [req[r] EXCEPT !.stage = "resolved", !.guest = guest]],
           conn' = [conn EXCEPT ![req[r].conn] = Pinned(r)],
           UNCHANGED <<db, changes, held>>
    PROVE  IInv'
<1> DEFINE a == req[r].actor
           o == req[r].org
           c == req[r].conn
           new == [req[r] EXCEPT !.stage = "resolved", !.guest = guest]
<1>1. /\ req[r].stage \in {"begun", "stranger"}
      /\ req' = [req EXCEPT ![r] = new]
      /\ conn' = [conn EXCEPT ![c] = Pinned(r)]
      /\ UNCHANGED <<db, changes, held>>
  OBVIOUS
<1>2. req[r] \in Request /\ a \in Actors /\ o \in Orgs /\ c \in Conns
  BY <1>1, RequestType DEF IInv
<1>3. /\ new \in Request /\ new.stage = "resolved"
      /\ new.actor = a /\ new.org = o /\ new.conn = c
      /\ new.kind = req[r].kind /\ new.project = req[r].project
      /\ new.guest = guest
  BY <1>2 DEF Request
<1>4. /\ Pinned(r) \in Connection /\ Pinned(r).user = r
      /\ Pinned(r).org = o /\ Pinned(r).actor = a
  BY <1>2 DEF Connection, Pinned
<1> HIDE DEF new
<1>5. /\ req'[r] = new /\ \A q \in Reqs \ {r} : req'[q] = req[q]
      /\ conn'[c] = Pinned(r) /\ \A d \in Conns \ {c} : conn'[d] = conn[d]
      /\ held' = held
  BY <1>1, <1>2 DEF IInv, TypeOK
<1>6. role' = role /\ caps' = caps /\ home' = home
  BY <1>1 DEF db
<1>7. TypeOK'
  BY <1>1, <1>3, <1>4 DEF IInv, TypeOK, db
<1>8. conn[c].user = r /\ None \notin Reqs
  BY <1>1, TenantRequestsAssumption DEF IInv, Paired, Active
<1>9. ASSUME NEW d \in Conns, conn[d].user = r PROVE d = c
  BY <1>8, <1>9 DEF IInv, Paired
<1>10. Paired'
  BY <1>1, <1>2, <1>3, <1>4, <1>5, <1>8, <1>9
     DEF IInv, Paired, Active, TypeOK, Request, Connection
<1>11. PinIsOwn'
  BY <1>3, <1>4, <1>5, <1>8, <1>9 DEF IInv, PinIsOwn, TypeOK, Connection
<1>12. CapsClosed'
  BY <1>6 DEF IInv, CapsClosed
<1>13. ASSUME NEW q \in Reqs PROVE Remembers(q)'
  <2>1. req'[q].actor = req[q].actor /\ Active(q)' = Active(q)
    BY <1>1, <1>3, <1>5 DEF Active
  <2>2. RightsOf(req'[q].actor, role', caps') = RightsOf(req[q].actor, role, caps)
    BY <1>6, <2>1
  <2> QED
    BY <1>5, <2>1, <2>2 DEF IInv, Remembers
<1>14. ASSUME NEW q \in Reqs PROVE Stage(q)'
  <2>1. CASE q = r
    <3>1. a \in Members(o) =>
             [actor |-> a, op |-> "member", res |-> o] \in RightsOf(a, role, caps)
      BY <1>2 DEF Members, RightsOf
    <3>2. a \in Members(o) => [actor |-> a, op |-> "member", res |-> o] \in held[r]
      BY <1>1, <3>1 DEF IInv, Remembers, Active
    <3>3. Resolved(r)'
      BY <1>1, <1>3, <1>5, <3>2 DEF Resolved, MemberRight
    <3>4. Aimed(r)'
      BY <1>1, <1>3, <1>5 DEF IInv, Stage, Aimed, Active
    <3> QED
      BY <1>3, <1>5, <2>1, <3>3, <3>4 DEF Stage, Found, Admitted, Listed
  <2>2. CASE q # r
    BY <1>5, <1>6, <2>2, StageKept DEF IInv, HomesStay
  <2> QED
    BY <2>1, <2>2
<1> QED
  BY <1>7, <1>10, <1>11, <1>12, <1>13, <1>14 DEF IInv

\* Of a member ...
LEMMA ResolveMemberOK == ASSUME IInv, NEW r \in Reqs, ResolveMember(r) PROVE IInv'
<1>1. /\ req[r].stage = "begun" /\ req[r].actor \in Members(req[r].org)
      /\ req' = [req EXCEPT ![r] = [req[r] EXCEPT !.stage = "resolved"]]
      /\ conn' = [conn EXCEPT ![req[r].conn] = Pinned(r)]
      /\ UNCHANGED <<db, changes, held>>
  BY DEF ResolveMember, Moves
<1>2. req[r] \in Request /\ req[r].guest = FALSE
  BY <1>1, RequestType DEF IInv, Stage, Resolved
<1>3. [req[r] EXCEPT !.stage = "resolved"]
        = [req[r] EXCEPT !.stage = "resolved", !.guest = FALSE]
  BY <1>2 DEF Request
<1> QED
  BY <1>1, <1>3, PinnedOK

\* ... and of a guest.
LEMMA ResolveGuestOK == ASSUME IInv, NEW r \in Reqs, ResolveGuest(r) PROVE IInv'
  BY PinnedOK DEF ResolveGuest

\* Nothing is pinned for somebody who is no member.
LEMMA ResolveStrangerOK == ASSUME IInv, NEW r \in Reqs, ResolveStranger(r) PROVE IInv'
<1> DEFINE new == [req[r] EXCEPT !.stage = "stranger"]
<1>1. /\ req[r].stage = "begun" /\ req' = [req EXCEPT ![r] = new]
      /\ UNCHANGED <<db, conn, changes, held>>
  BY DEF ResolveStranger, Moves
<1>2. req[r] \in Request
  BY <1>1, RequestType DEF IInv
<1>3. new \in Request /\ new.stage = "stranger" /\ Same(r, new)
  BY <1>2 DEF Request, Same
<1> HIDE DEF new
<1>4. /\ req'[r] = new /\ \A q \in Reqs \ {r} : req'[q] = req[q]
      /\ UNCHANGED <<db, held>>
  BY <1>1 DEF IInv, TypeOK
<1>5. /\ DbOK' /\ CapsClosed' /\ HomesStay
      /\ held' \in [Reqs -> SUBSET Right]
      /\ \A q \in Reqs : held[q] \subseteq held'[q] /\ Remembers(q)'
  BY <1>1, <1>3, <1>4, Reads
<1>6. TypeOK'
  BY <1>1, <1>3, <1>5 DEF IInv, TypeOK, DbOK
<1>7. Paired' /\ PinIsOwn'
  BY <1>1, <1>3, <1>4 DEF IInv, Paired, PinIsOwn, Active, Same, TypeOK, Connection
<1>8. ASSUME NEW q \in Reqs PROVE Stage(q)'
  <2>1. CASE q = r
    BY <1>1, <1>3, <1>4, <2>1 DEF IInv, Stage, Aimed, Resolved, Found, Admitted, Listed,
       Active, Same
  <2>2. CASE q # r
    BY <1>4, <1>5, <2>2, StageKept DEF IInv
  <2> QED
    BY <2>1, <2>2
<1> QED
  BY <1>5, <1>6, <1>7, <1>8 DEF IInv

\* The end of a request leaves a connection without a tenant.
LEMMA EndOK == ASSUME IInv, NEW r \in Reqs, End(r) PROVE IInv'
<1> DEFINE c == req[r].conn
           free == [user |-> None, org |-> Unpinned(conn[c].org),
                    actor |-> Unpinned(conn[c].actor)]
<1>1. /\ req[r].stage # "idle"
      /\ conn' = [conn EXCEPT ![c] = free]
      /\ req' = [req EXCEPT ![r] = Idle]
      /\ held' = [held EXCEPT ![r] = {}]
      /\ UNCHANGED <<db, changes>>
  BY DEF End, Active
<1>2. c \in Conns
  BY <1>1, RequestType DEF IInv
<1>3. /\ free \in Connection /\ free.user = None
      /\ free.org \in {None, Empty} /\ free.actor \in {None, Empty}
  BY DEF Connection, Unpinned
<1> HIDE DEF free
<1>4. /\ req'[r].stage = "idle" /\ \A q \in Reqs \ {r} : req'[q] = req[q]
      /\ conn'[c] = free /\ \A d \in Conns \ {c} : conn'[d] = conn[d]
      /\ \A q \in Reqs \ {r} : held'[q] = held[q]
  BY <1>1, <1>2 DEF IInv, TypeOK
<1>5. role' = role /\ caps' = caps /\ home' = home
  BY <1>1 DEF db
<1>6. TypeOK'
  BY <1>1, <1>3 DEF IInv, TypeOK, db
<1>7. conn[c].user = r /\ None \notin Reqs
  BY <1>1, TenantRequestsAssumption DEF IInv, Paired, Active
<1>8. ASSUME NEW d \in Conns, conn[d].user = r PROVE d = c
  BY <1>7, <1>8 DEF IInv, Paired
<1>9. Paired'
  BY <1>1, <1>2, <1>3, <1>4, <1>7, <1>8 DEF IInv, Paired, Active, TypeOK, Request, Connection
<1>10. PinIsOwn'
  BY <1>1, <1>3, <1>4, <1>7, <1>8 DEF IInv, PinIsOwn, TypeOK, Connection
<1>11. CapsClosed'
  BY <1>5 DEF IInv, CapsClosed
<1>12. ASSUME NEW q \in Reqs PROVE Remembers(q)' /\ Stage(q)'
  <2>1. CASE q = r
    BY <1>4, <2>1 DEF Remembers, Active, Stage, Aimed, Resolved, Found, Admitted, Listed
  <2>2. CASE q # r
    <3>1. Stage(q)'
      BY <1>4, <1>5, <2>2, StageKept DEF IInv, HomesStay
    <3>2. req'[q] = req[q] /\ held'[q] = held[q]
      BY <1>4, <2>2
    <3>3. RightsOf(req'[q].actor, role', caps') = RightsOf(req[q].actor, role, caps)
      BY <1>5, <3>2
    <3> QED
      BY <3>1, <3>2, <3>3 DEF IInv, Remembers, Active
  <2> QED
    BY <2>1, <2>2
<1> QED
  BY <1>6, <1>9, <1>10, <1>11, <1>12 DEF IInv

\* A step that changes nothing.
LEMMA StutterOK == IInv /\ UNCHANGED vars => IInv'
<1> SUFFICES ASSUME IInv, UNCHANGED vars PROVE IInv'
  OBVIOUS
<1>1. UNCHANGED <<role, ended, home, gone, caps, conn, req, changes, held>>
  BY DEF vars, db
<1>2. TypeOK' /\ Paired' /\ PinIsOwn' /\ CapsClosed'
  BY <1>1 DEF IInv, TypeOK, Paired, PinIsOwn, CapsClosed, Active
<1>3. ASSUME NEW r \in Reqs PROVE Remembers(r)' /\ Stage(r)'
  <2>1. RightsOf(req'[r].actor, role', caps') = RightsOf(req[r].actor, role, caps)
    BY <1>1
  <2>2. Stage(r)'
    BY <1>1, StageKept DEF IInv, HomesStay
  <2> QED
    BY <1>1, <2>1, <2>2 DEF IInv, Remembers, Active
<1> QED
  BY <1>2, <1>3 DEF IInv

\* Every step keeps the invariant.
LEMMA StepOK == IInv /\ [Next]_vars => IInv'
<1> SUFFICES ASSUME IInv, [Next]_vars PROVE IInv'
  OBVIOUS
<1>1. CASE Others
  BY <1>1, OthersOK
<1>2. ASSUME NEW r \in Reqs, NEW c \in Conns, NEW a \in Actors, NEW kind \in Kinds,
             NEW o \in Orgs, NEW p \in Projects \cup {None}, Begin(r, c, a, kind, o, p)
      PROVE  IInv'
  BY <1>2, BeginOK
<1>3. ASSUME NEW r \in Reqs,
             \/ ResolveMember(r) \/ ResolveStranger(r) \/ ResolveGuest(r)
             \/ FindProject(r) \/ Check(r)
             \/ GetProject(r) \/ LoadProject(r) \/ UpdateProject(r) \/ DeleteProject(r)
             \/ ListProjects(r) \/ ListForGuest(r) \/ End(r)
      PROVE  IInv'
  BY <1>3, ResolveMemberOK, ResolveStrangerOK, ResolveGuestOK, FindProjectOK, CheckOK,
     LoadProjectOK, GetOrUpdateOK, DeleteProjectOK,
     ListProjectsOK, ListForGuestOK, EndOK
<1>4. ASSUME NEW r \in Reqs, NEW p \in Projects, CreateProject(r, p) PROVE IInv'
  BY <1>4, CreateProjectOK
<1>5. CASE UNCHANGED vars
  BY <1>5, StutterOK
<1> QED
  BY <1>1, <1>2, <1>3, <1>4, <1>5 DEF Next

\* The invariant holds throughout.
THEOREM Invariance == Spec => []IInv
  BY InitOK, StepOK, PTL DEF Spec

\* The state keeps its types.
THEOREM TypeCorrect == Spec => []TypeOK
<1>1. IInv => TypeOK
  BY DEF IInv
<1> QED
  BY <1>1, Invariance, PTL

\* A pooled connection carries the tenant of the request that uses it, or none.
THEOREM PinsAreOwn == Spec => []PinIsOwn
<1>1. IInv => PinIsOwn
  BY DEF IInv
<1> QED
  BY <1>1, Invariance, PTL

\* What a request does, its actor held the right to since the request began.
THEOREM Authorised == Spec => []ActsAreAuthorised
<1>1. IInv => ActsAreAuthorised
  <2> SUFFICES ASSUME IInv, NEW r \in Reqs, req[r].stage = "done", req[r].kind # "list"
               PROVE  /\ Needed(r) \in held[r]
                      /\ \A p \in req[r].shown : home[p] = req[r].org
                      /\ req[r].kind \in OnProject => home[req[r].project] = req[r].org
    BY DEF ActsAreAuthorised
  <2> QED
    BY DEF IInv, Stage, Admitted, Listed, InOrg
<1> QED
  BY <1>1, Invariance, PTL

\* What an answer shows, its reader was allowed to see since the request began.
THEOREM ShownAllowed == Spec => []ShownWasAllowed
<1>1. IInv => ShownWasAllowed
  <2> SUFFICES ASSUME IInv, NEW r \in Reqs, req[r].stage = "done", NEW p \in req[r].shown
               PROVE  \/ ReadRight(r, p) \in held[r]
                      \/ ~req[r].guest /\ [actor |-> req[r].actor, op |-> "member",
                                           res |-> home[p]] \in held[r]
    BY DEF ShownWasAllowed, ReadRight
  <2>1. /\ Stage(r) /\ Remembers(r) /\ Active(r) /\ home[p] = req[r].org
        /\ req[r].kind \in Kinds /\ req[r].guest \in BOOLEAN /\ p \in Projects
    BY RequestType DEF IInv, Stage, Listed, Active
  <2>2. CASE ~req[r].guest
    BY <2>1, <2>2 DEF Stage, Resolved, MemberRight
  <2>3. CASE req[r].guest
    <3>1. CASE req[r].kind = "list"
      BY <2>1, <2>3, <3>1 DEF Stage, Listed
    <3>2. CASE req[r].kind \in {"get", "update"}
      <4>1. /\ req[r].project = p
            /\ Needed(r) \in held[r]
            /\ Needed(r) = [actor |-> req[r].actor, op |-> Op[req[r].kind], res |-> p]
        BY <2>1, <3>2 DEF Stage, Listed, Admitted, Needed, Target
      <4>2. Op[req[r].kind] \in {"read", "write"}
        BY <3>2 DEF Op
      <4> QED
        BY <2>1, <4>1, <4>2 DEF Remembers, ReadRight
    <3> QED
      BY <2>1, <2>3, <3>1, <3>2 DEF Stage, Listed, Admitted
  <2> QED
    BY <2>1, <2>2, <2>3
<1> QED
  BY <1>1, Invariance, PTL

=============================================================================
