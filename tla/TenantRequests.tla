---------------------------- MODULE TenantRequests ----------------------------
(***************************************************************************)
(* A request to /orgs/{slug}/projects from its first query to its answer   *)
(* (identity/middleware.py, tenants/dependencies.py, authz/check.py,       *)
(* api/projects.py, db.py, the row-level security policies).               *)
(*                                                                         *)
(* A request works in two kinds of transactions.  Its own session, one     *)
(* transaction as app_user on a pooled connection, runs from the first     *)
(* query to the answer: row-level security applies and reads the settings  *)
(* app.current_org and app.current_actor, which are pinned LOCAL to the    *)
(* transaction.  Memberships are resolved and changes are made in short    *)
(* migrator sessions, which bypass row-level security.  At READ COMMITTED  *)
(* each of the request's statements sees what had been committed by then,  *)
(* so whatever was decided may be out of date at the next step.            *)
(*                                                                         *)
(* What other modules take apart is one step here, its commit: joining,    *)
(* leaving, creating a project and the end of an organisation are Tenancy, *)
(* guest access is ProjectShares.                                          *)
(***************************************************************************)
EXTENDS Naturals

CONSTANTS
    Orgs,
    Projects,
    Actors,
    Founder,       \* Founder[o]: the member an organisation starts with
    FirstHome,     \* FirstHome[p]: where a project is from the start, or None
    FirstShares,   \* the shares that have been accepted by then
    Reqs,          \* bound: requests at a time
    Conns,         \* the pool of the app_user engine
    None,
    Empty,         \* a setting as '', which it is after a LOCAL one has ended
    JoinAs,        \* bound: the roles people join with
    MaxChanges     \* bound: joins, departures, shares and their ends

Roles == {"admin", "member", "viewer"}

ASSUME TenantRequestsAssumption ==
    /\ JoinAs \subseteq Roles
    /\ Founder \in [Orgs -> Actors]
    /\ FirstHome \in [Projects -> Orgs \cup {None}]
    /\ FirstShares \subseteq [actor : Actors, project : Projects]
    /\ \A s \in FirstShares : /\ FirstHome[s.project] # None
                              /\ s.actor # Founder[FirstHome[s.project]]
    /\ Orgs \cap Projects = {}
    /\ None \notin Orgs \cup Projects \cup Actors \cup Reqs \cup Conns \cup Roles
    /\ Empty \notin Orgs \cup Actors \cup {None}
    /\ MaxChanges \in Nat

VARIABLES
    role,       \* role[o][a]: organisation_members
    ended,      \* organisations with deleted_at
    home,       \* home[p]: the organisation of a project, None before it exists
    gone,       \* projects with deleted_at
    caps,       \* the active capabilities
    conn,       \* conn[c]: a pooled connection: who uses it and its settings
    req,        \* req[r]: a request
    changes,
    held        \* history: held[r]: all that the actor held since r started

db == <<role, ended, home, gone, caps>>
vars == <<db, conn, req, changes, held>>

\* BUNDLES, as far as these routes ask for it: what a role holds on the
\* organisation itself and on each of its projects ("admin" for the owner too).
OrgOps == [admin |-> {"read", "admin"}, member |-> {"read"}, viewer |-> {"read"}]
ProjectOps == [admin |-> {"read", "write", "admin"},
               member |-> {"read", "write"},
               viewer |-> {"read"}]

\* The routes, those on one project apart from those on the organisation,
\* and what a route asks can() for.
OnProject == {"get", "update", "delete"}
Kinds == OnProject \cup {"list", "create"}
Op == [get |-> "read", update |-> "write", delete |-> "admin", create |-> "admin"]

Ops == {"read", "write", "admin"}
Capability == [actor : Actors, op : Ops, res : Orgs \cup Projects]

\* "member" next to the operations: a row of organisation_members.
Right == [actor : Actors, op : Ops \cup {"member"}, res : Orgs \cup Projects]

Stages == {"idle", "begun", "stranger", "resolved", "found", "admitted",
           "loaded", "listed", "done"}

\* Those of a request whose tenant is not pinned yet.
Unresolved == {"idle", "begun", "stranger"}

Request == [stage : Stages, actor : Actors, kind : Kinds, org : Orgs,
            project : Projects \cup {None}, guest : BOOLEAN, conn : Conns,
            shown : SUBSET Projects]
Idle == [stage |-> "idle"]

Connection == [user : Reqs \cup {None}, org : Orgs \cup {None, Empty},
               actor : Actors \cup {None, Empty}]

-----------------------------------------------------------------------------
OrgOf(res) == IF res \in Orgs THEN res ELSE home[res]

Active(r) == req[r].stage # "idle"

Members(o) == {a \in Actors : role[o][a] # None}

\* mint_bundle: one capability per operation and target.
Grants(a, ops, res) == [actor : {a}, op : ops, res : {res}]
Live(o) == {p \in Projects : home[p] = o /\ p \notin gone}
Bundle(a, o, name) ==
    Grants(a, OrgOps[name], o)
      \cup UNION {Grants(a, ProjectOps[name], p) : p \in Live(o)}

RightsOf(a, roles, grants) ==
    {g \in grants : g.actor = a}
      \cup {[actor |-> a, op |-> "member", res |-> o] :
               o \in {x \in Orgs : roles[x][a] # None}}

\* Every request in flight remembers what its actor holds now.
Remember ==
    held' = [r \in Reqs |-> IF Active(r)
                              THEN held[r] \cup RightsOf(req[r].actor, role', caps')
                              ELSE held[r]]

-----------------------------------------------------------------------------
(* What other transactions commit meanwhile                                 *)

Changes == changes < MaxChanges /\ changes' = changes + 1

\* MembershipService.accept: the row of the member and its bundle.
Joins(a, o, name) ==
    /\ Changes
    /\ o \notin ended
    /\ role[o][a] = None
    /\ role' = [role EXCEPT ![o][a] = name]
    /\ caps' = caps \cup Bundle(a, o, name)
    /\ UNCHANGED <<ended, home, gone, conn, req>>
    /\ Remember

\* MembershipService.remove: the row, and the capabilities with the org_id.
Leaves(a, o) ==
    /\ Changes
    /\ role[o][a] # None
    /\ role' = [role EXCEPT ![o][a] = None]
    /\ caps' = {g \in caps : ~(g.actor = a /\ OrgOf(g.res) = o)}
    /\ UNCHANGED <<ended, home, gone, conn, req>>
    /\ Remember

\* ProjectShareService.accept: read:project for somebody who is no member.
Shared(a, p) ==
    /\ Changes
    /\ home[p] # None
    /\ home[p] \notin ended
    /\ p \notin gone
    /\ role[home[p]][a] = None
    /\ caps' = caps \cup Grants(a, {"read"}, p)
    /\ UNCHANGED <<role, ended, home, gone, conn, req>>
    /\ Remember

\* ProjectShareService.revoke, or the capability expires.  (A member keeps the
\* capability of the bundle.)
Unshared(a, p) ==
    /\ Changes
    /\ home[p] # None
    /\ role[home[p]][a] = None
    /\ Grants(a, {"read"}, p) \subseteq caps
    /\ caps' = caps \ Grants(a, {"read"}, p)
    /\ UNCHANGED <<role, ended, home, gone, conn, req>>
    /\ Remember

\* OrganisationService.soft_delete: memberships and projects stay as they are.
Ends(o) ==
    /\ Changes
    /\ o \notin ended
    /\ ended' = ended \cup {o}
    /\ caps' = {g \in caps : OrgOf(g.res) # o}
    /\ UNCHANGED <<role, home, gone, conn, req>>
    /\ Remember

-----------------------------------------------------------------------------
(* The session of the request                                               *)

Moves(r, stage) == req' = [req EXCEPT ![r] = [@ EXCEPT !.stage = stage]]

Answers(r, S) == req' = [req EXCEPT ![r] = [@ EXCEPT !.stage = "done", !.shown = S]]

\* current_actor, with an access token that verifies: its query is the first
\* of the request and takes a connection from the pool.  An id is known once
\* there is a project of that id.
Begin(r, c, a, kind, o, p) ==
    /\ ~Active(r)
    /\ conn[c].user = None
    /\ IF kind \in OnProject THEN p # None /\ home[p] # None ELSE p = None
    /\ conn' = [conn EXCEPT ![c] = [@ EXCEPT !.user = r]]
    /\ req' = [req EXCEPT ![r] =
                 [stage |-> "begun", actor |-> a, kind |-> kind, org |-> o,
                  project |-> p, guest |-> FALSE, conn |-> c, shown |-> {}]]
    /\ held' = [held EXCEPT ![r] = RightsOf(a, role, caps)]
    /\ UNCHANGED <<db, changes>>

\* Some capability is tagged with the organisation.
Guest(a, o) == \E g \in caps : g.actor = a /\ OrgOf(g.res) = o

\* A slip: the two settings are mixed up.
PinnedMixedUp(r) == [user |-> r, org |-> req[r].actor, actor |-> req[r].org]

Pinned(r) == [user |-> r, org |-> req[r].org, actor |-> req[r].actor]

\* _resolve_membership, a member of an organisation that is not deleted (its row
\* is read first, but nothing joins once it is deleted); then tenant_context pins
\* the request's session.
ResolveMember(r) ==
    /\ req[r].stage = "begun"
    /\ req[r].org \notin ended
    /\ req[r].actor \in Members(req[r].org)
    /\ Moves(r, "resolved")
    /\ conn' = [conn EXCEPT ![req[r].conn] = Pinned(r)]
    /\ UNCHANGED <<db, changes, held>>

\* No row in organisation_members, ...
ResolveStranger(r) ==
    /\ req[r].stage = "begun"
    /\ req[r].org \notin ended
    /\ req[r].actor \notin Members(req[r].org)
    /\ Moves(r, "stranger")
    /\ UNCHANGED <<db, conn, changes, held>>

\* ... and, in the next query, a capability: a guest, also if by now a member.
ResolveGuest(r) ==
    /\ req[r].stage = "stranger"
    /\ Guest(req[r].actor, req[r].org)
    /\ req' = [req EXCEPT ![r] = [@ EXCEPT !.stage = "resolved", !.guest = TRUE]]
    /\ conn' = [conn EXCEPT ![req[r].conn] = Pinned(r)]
    /\ UNCHANGED <<db, changes, held>>

\* The policies of the migrations.  A setting that is '' does not cast to a
\* uuid, and the query fails; one that was never set matches nothing.
Casts(setting) == setting # Empty
ProjectVisible(org, p) == home[p] = org
CapVisible(org, actor, g) == g.actor = actor \/ OrgOf(g.res) = org

\* project_context: the row-level policy and the query's own WHERE.
FindProject(r) ==
    /\ req[r].stage = "resolved"
    /\ req[r].kind \in OnProject
    /\ LET p == req[r].project
           org == conn[req[r].conn].org
       IN  /\ Casts(org)
           /\ ProjectVisible(org, p)
           /\ home[p] = req[r].org
           /\ p \notin gone
    /\ Moves(r, "found")
    /\ UNCHANGED <<db, conn, changes, held>>

\* _load_active_capabilities sets app.current_actor once more, and reads.
PinsActor(r) == conn' = [conn EXCEPT ![req[r].conn].actor = req[r].actor]

Loaded(r) ==
    {g \in caps : /\ g.actor = req[r].actor
                  /\ CapVisible(conn[req[r].conn].org, req[r].actor, g)}

Target(r) == IF req[r].kind = "create" THEN req[r].org ELSE req[r].project

Needed(r) == [actor |-> req[r].actor, op |-> Op[req[r].kind], res |-> Target(r)]

\* A slip: the resource of the capability is not compared.
MatchesAnyResource(r, g) == g.op = Op[req[r].kind]

\* _matches: operation, type and resource.
Matches(r, g) == g.op = Op[req[r].kind] /\ g.res = Target(r)

\* can() in the route; creating a project is not for guests.
Check(r) ==
    /\ \/ req[r].stage = "found"
       \/ req[r].stage = "resolved" /\ req[r].kind = "create" /\ ~req[r].guest
    /\ PinsActor(r)
    /\ \E g \in Loaded(r) : Matches(r, g)
    /\ Moves(r, "admitted")
    /\ UNCHANGED <<db, changes, held>>

-----------------------------------------------------------------------------
(* The routes                                                               *)

\* get_project answers with the row project_context read.
GetProject(r) ==
    /\ req[r].stage = "admitted"
    /\ req[r].kind = "get"
    /\ Answers(r, {req[r].project})
    /\ UNCHANGED <<db, conn, changes, held>>

\* ProjectService.update and soft_delete read the project again, by its id.
LoadProject(r) ==
    /\ req[r].stage = "admitted"
    /\ req[r].kind \in {"update", "delete"}
    /\ req[r].project \notin gone
    /\ Moves(r, "loaded")
    /\ UNCHANGED <<db, conn, changes, held>>

\* update writes the name and the description, by the primary key.
UpdateProject(r) ==
    /\ req[r].stage = "loaded"
    /\ req[r].kind = "update"
    /\ Answers(r, {req[r].project})
    /\ UNCHANGED <<db, conn, changes, held>>

\* soft_delete writes deleted_at (again, if another request has); the
\* project's capabilities stay.
DeleteProject(r) ==
    /\ req[r].stage = "loaded"
    /\ req[r].kind = "delete"
    /\ gone' = gone \cup {req[r].project}
    /\ Answers(r, {})
    /\ UNCHANGED <<role, ended, home, caps, conn, changes, held>>

\* ProjectService.create, for the members it reads; nobody looks whether the
\* organisation still exists.
CreateProject(r, p) ==
    /\ req[r].stage = "admitted"
    /\ req[r].kind = "create"
    /\ home[p] = None
    /\ home' = [home EXCEPT ![p] = req[r].org]
    /\ caps' = caps \cup UNION {Grants(a, ProjectOps[role[req[r].org][a]], p) :
                                   a \in Members(req[r].org)}
    /\ Answers(r, {p})
    /\ UNCHANGED <<role, ended, gone, conn, changes>>
    /\ Remember

\* A slip: guests get the list of a member.
ListToAll(r) ==
    /\ req[r].stage = "resolved"
    /\ req[r].kind = "list"
    /\ Answers(r, Live(req[r].org))
    /\ UNCHANGED <<db, conn, changes, held>>

\* list_projects: the list is read in a migrator session.  A member gets all
\* of it, and no capability is asked for.
ListProjects(r) ==
    /\ req[r].stage = "resolved"
    /\ req[r].kind = "list"
    /\ req' = [req EXCEPT ![r] =
                 [@ EXCEPT !.stage = IF req[r].guest THEN "listed" ELSE "done",
                           !.shown = Live(req[r].org)]]
    /\ UNCHANGED <<db, conn, changes, held>>

\* A guest gets those of its projects the capabilities loaded now allow.
ListForGuest(r) ==
    /\ req[r].stage = "listed"
    /\ PinsActor(r)
    /\ Answers(r, {p \in req[r].shown :
                      \E g \in Loaded(r) : g.op = "read" /\ g.res = p})
    /\ UNCHANGED <<db, changes, held>>

\* A slip: set_config without is_local; the settings stay on the connection.
Kept(setting) == setting

\* A LOCAL setting ends with its transaction and leaves ''.
Unpinned(setting) == IF setting = None THEN None ELSE Empty

\* The answer, a refusal, an error or a client that hangs up: the transaction
\* ends one way or the other and the connection goes back to the pool.
End(r) ==
    /\ Active(r)
    /\ LET c == req[r].conn IN
       conn' = [conn EXCEPT ![c] = [user |-> None, org |-> Unpinned(conn[c].org),
                                    actor |-> Unpinned(conn[c].actor)]]
    /\ req' = [req EXCEPT ![r] = Idle]
    /\ held' = [held EXCEPT ![r] = {}]
    /\ UNCHANGED <<db, changes>>

-----------------------------------------------------------------------------

\* Organisations, projects and shares as their services left them.
Init ==
    /\ role = [o \in Orgs |-> [a \in Actors |-> IF a = Founder[o] THEN "admin" ELSE None]]
    /\ ended = {}
    /\ home = FirstHome
    /\ gone = {}
    /\ caps = (UNION {Bundle(Founder[o], o, "admin") : o \in Orgs})
                \cup UNION {Grants(s.actor, {"read"}, s.project) : s \in FirstShares}
    /\ conn = [c \in Conns |-> [user |-> None, org |-> None, actor |-> None]]
    /\ req = [r \in Reqs |-> Idle]
    /\ changes = 0
    /\ held = [r \in Reqs |-> {}]

Others ==
    \/ \E a \in Actors, o \in Orgs :
         \/ \E name \in JoinAs : Joins(a, o, name)
         \/ Leaves(a, o)
    \/ \E a \in Actors, p \in Projects : Shared(a, p) \/ Unshared(a, p)
    \/ \E o \in Orgs : Ends(o)

Next ==
    \/ Others
    \/ \E r \in Reqs :
         \/ \E c \in Conns, a \in Actors, kind \in Kinds, o \in Orgs,
            p \in Projects \cup {None} :
               Begin(r, c, a, kind, o, p)
         \/ ResolveMember(r) \/ ResolveStranger(r) \/ ResolveGuest(r)
         \/ FindProject(r)
         \/ Check(r)
         \/ GetProject(r)
         \/ LoadProject(r)
         \/ UpdateProject(r)
         \/ DeleteProject(r)
         \/ \E p \in Projects : CreateProject(r, p)
         \/ ListProjects(r)
         \/ ListForGuest(r)
         \/ End(r)

Spec == Init /\ [][Next]_vars

-----------------------------------------------------------------------------
(* Properties                                                               *)

TypeOK ==
    /\ role \in [Orgs -> [Actors -> Roles \cup {None}]]
    /\ ended \subseteq Orgs
    /\ home \in [Projects -> Orgs \cup {None}]
    /\ gone \subseteq Projects
    /\ caps \subseteq Capability
    /\ conn \in [Conns -> Connection]
    /\ req \in [Reqs -> Request \cup {Idle}]
    /\ changes \in 0..MaxChanges
    /\ held \in [Reqs -> SUBSET Right]

\* A connection carries the tenant of the request that uses it, or none: what
\* an earlier request pinned is gone, though the connection is the same one,
\* and a request that has resolved its tenant has it pinned to the end
\* ("set_config(..., true)" in tenants/dependencies.py, session_scope in db.py).
PinIsOwn ==
    \A c \in Conns :
        LET r == conn[c].user IN
        IF r # None /\ req[r].stage \notin Unresolved
          THEN conn[c].org = req[r].org /\ conn[c].actor = req[r].actor
          ELSE conn[c].org \in {None, Empty} /\ conn[c].actor \in {None, Empty}

\* Nothing is done on authority of before the request: however old a decision
\* is when it is acted on, the actor held what the route asks for at some time
\* since the request began, and the project is one of the organisation in the
\* URL (tenant_context, project_context, can and the services that act last).
ActsAreAuthorised ==
    \A r \in Reqs :
        req[r].stage = "done" /\ req[r].kind # "list" =>
            /\ Needed(r) \in held[r]
            /\ \A p \in req[r].shown : home[p] = req[r].org
            /\ req[r].kind \in OnProject => home[req[r].project] = req[r].org

\* An answer shows a project to nobody but those who, at some time since the
\* request began, were members of its organisation or could read it; a guest's
\* list is confined to the projects shared with the guest, whoever joins,
\* leaves or is shared with meanwhile (list_projects, get_project).
ShownWasAllowed ==
    \A r \in Reqs :
        req[r].stage = "done" =>
            \A p \in req[r].shown :
                \/ [actor |-> req[r].actor, op |-> "read", res |-> p] \in held[r]
                \/ ~req[r].guest /\ [actor |-> req[r].actor, op |-> "member",
                                     res |-> home[p]] \in held[r]
=============================================================================
