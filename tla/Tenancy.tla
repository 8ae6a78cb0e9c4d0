------------------------------- MODULE Tenancy -------------------------------
(***************************************************************************)
(* One organisation: its members, their capability bundles, its projects   *)
(* and its invitations (tenants/service.py, authz/service.py, with the     *)
(* gates of api/orgs.py and api/projects.py).                              *)
(*                                                                         *)
(* Each service call is one Postgres transaction at READ COMMITTED, begun  *)
(* after the request has passed the gate of its route.  It is modelled     *)
(* statement by statement: a read sees what is committed at that moment,   *)
(* what the transaction writes is buffered in its record and published by  *)
(* Commit, and a statement that meets a row another transaction has        *)
(* written is disabled until that one ends.  An UPDATE chooses its rows    *)
(* when it starts (scan) and, once it has waited for their locks, revokes  *)
(* those that are still active.                                            *)
(*                                                                         *)
(* All capability rows of one bundle on one target are minted together and *)
(* revoked together: a grant stands for all of them.  The audit rows every *)
(* service adds to its transaction are AuditTrail's; slugs, e-mails and    *)
(* the texts of answers are left out.                                      *)
(***************************************************************************)
EXTENDS Naturals, FiniteSets

CONSTANTS
    Actors,
    Projects,
    Invites,
    Txs,         \* requests that may be in flight together
    Roles,       \* the OrganisationRole values in use
    None

\* The target of the self-scoped templates: the organisation itself.
Org == "org"

AdminRoles == {"owner", "admin"}                  \* bundles with ADMIN rights
SelfOnlyRoles == {"compliance_officer", "dpo"}    \* no all_in_org template
ProjectRoles == Roles \ SelfOnlyRoles
InviteRoles == Roles \ {"owner"}                  \* _INVITE_ROLES

ASSUME RolesAssumption ==
    /\ "owner" \in Roles
    /\ Roles \subseteq {"owner", "admin", "member", "viewer",
                        "compliance_officer", "dpo"}
ASSUME OrgAssumption == Org \notin Projects

VARIABLES
    org,         \* "absent", "active" or "deleted" (deleted_at is set)
    members,     \* organisation_members: the role, None without a row
    projects,    \* "absent", "active" or "deleted"
    caps,        \* the capabilities with no revoked_at
    invites,     \* org_invitations: role, expiry, consumed_by
    tx           \* the open transactions

vars == <<org, members, projects, caps, invites, tx>>

Grant == [actor : Actors, bundle : Roles, on : Projects \cup {Org}]
Invitation == [role : InviteRoles, expired : BOOLEAN, by : Actors \cup {None}]
Kinds == {"change", "remove", "accept", "project", "delete", "invite", "unproject"}
Phases == {"admitted", "read", "seated", "checked", "deleted", "stamped", "revoking",
           "revoked", "minted", "consumed", "joined", "inserted", "ready"}
Transaction ==
    [kind : Kinds, phase : Phases, actor : Actors \cup {None},
     old : Roles \cup {None}, new : Roles \cup {None},
     invite : Invites \cup {None}, project : Projects \cup {None},
     deletes : BOOLEAN,     \* a remove whose DELETE has found the row
     scan : SUBSET Grant, revokes : SUBSET Grant, grants : SUBSET Grant]

ASSUME NoneAssumption ==
    /\ None \notin Roles \cup Actors \cup Projects \cup Invites
    /\ None \notin Invitation
    /\ None \notin Transaction

TypeOK ==
    /\ org \in {"absent", "active", "deleted"}
    /\ members \in [Actors -> Roles \cup {None}]
    /\ projects \in [Projects -> {"absent", "active", "deleted"}]
    /\ caps \subseteq Grant
    /\ invites \in [Invites -> Invitation \cup {None}]
    /\ tx \in [Txs -> Transaction \cup {None}]

-----------------------------------------------------------------------------
\* A request of this kind whose gate has just let it through.
Request(kind) ==
    [kind |-> kind, phase |-> "admitted", actor |-> None, old |-> None,
     new |-> None, invite |-> None, project |-> None, deletes |-> FALSE,
     scan |-> {}, revokes |-> {}, grants |-> {}]

InPhase(t, kind, phase) ==
    tx[t] # None /\ tx[t].kind = kind /\ tx[t].phase = phase

\* mint_bundle: the self templates, and the all_in_org ones on each of ps.
Bundle(a, role, ps) ==
    {[actor |-> a, bundle |-> role, on |-> Org]} \cup
    {[actor |-> a, bundle |-> role, on |-> p] :
        p \in IF role \in ProjectRoles THEN ps ELSE {}}

ActiveProjects == {p \in Projects : projects[p] = "active"}

\* can(by, ADMIN, ...) on the organisation or on a project of it.
CanAdmin(by, target) ==
    \E role \in AdminRoles :
        [actor |-> by, bundle |-> role, on |-> target] \in caps

Owners == {a \in Actors : members[a] = "owner"}

\* Rows another open transaction has written: capabilities it revoked, ...
LockedCaps(t) ==
    UNION {tx[u].revokes : u \in {v \in Txs \ {t} : tx[v] # None}}

\* ... the membership row of a, ...
MemberLocked(t, a) ==
    \E u \in Txs \ {t} :
        /\ tx[u] # None /\ tx[u].actor = a
        /\ \/ tx[u].kind = "change" /\ tx[u].phase = "ready"
           \/ tx[u].kind = "accept" /\ tx[u].phase \in {"joined", "ready"}
           \/ tx[u].kind = "remove" /\ tx[u].deletes

\* ... an invitation, and the organisation row.
InviteLocked(t, i) ==
    \E u \in Txs \ {t} :
        /\ tx[u] # None /\ tx[u].kind = "accept" /\ tx[u].invite = i
        /\ tx[u].phase \in {"consumed", "joined", "ready"}

OrgLocked(t) ==
    \E u \in Txs \ {t} :
        /\ tx[u] # None /\ tx[u].kind = "delete"
        /\ tx[u].phase \in {"stamped", "revoking", "ready"}

Init ==
    /\ org = "absent"
    /\ members = [a \in Actors |-> None]
    /\ projects = [p \in Projects |-> "absent"]
    /\ caps = {}
    /\ invites = [i \in Invites |-> None]
    /\ tx = [t \in Txs |-> None]

-----------------------------------------------------------------------------
\* OrganisationService.create.  Nobody sees the organisation before it
\* commits, so it is one step.
CreateOrg(a) ==
    /\ org = "absent"
    /\ org' = "active"
    /\ members' = [members EXCEPT ![a] = "owner"]
    /\ caps' = caps \cup Bundle(a, "owner", {})
    /\ UNCHANGED <<projects, invites, tx>>

\* A request passes its route's gate.  tenant_context takes an organisation
\* that is not deleted; each gate is a read of its own, before the service's
\* transaction begins.  (TenantRequests takes the gate apart.)
Admit(t, request) ==
    /\ tx[t] = None
    /\ org = "active"
    /\ tx' = [tx EXCEPT ![t] = request]
    /\ UNCHANGED <<org, members, projects, caps, invites>>

\* _require_org_admin: the gate of invite, change_member_role, remove_member.
AdmitOrgAdmin(t, kind, by) ==
    /\ kind \in {"invite", "change", "remove"}
    /\ CanAdmin(by, Org)
    /\ Admit(t, Request(kind))

\* delete_org and create_project refuse guests before they ask can().
AdmitDelete(t, by) ==
    /\ members[by] # None
    /\ CanAdmin(by, Org)
    /\ Admit(t, Request("delete"))

AdmitProject(t, by) ==
    /\ members[by] # None
    /\ CanAdmin(by, Org)
    /\ Admit(t, Request("project"))

\* delete_project: project_context takes a project that is not deleted, can()
\* asks for ADMIN on that project.
AdmitUnproject(t, p, by) ==
    /\ projects[p] = "active"
    /\ CanAdmin(by, p)
    /\ Admit(t, [Request("unproject") EXCEPT !.project = p])

\* A slip: the role lands in consumed_by.
InviteStampsRole(t, i, role) ==
    /\ InPhase(t, "invite", "admitted")
    /\ invites[i] = None
    /\ invites' = [invites EXCEPT ![i] =
                      [role |-> role, expired |-> FALSE, by |-> role]]
    /\ tx' = [tx EXCEPT ![t] = None]
    /\ UNCHANGED <<org, members, projects, caps>>

\* MembershipService.invite: one INSERT, also into an organisation that was
\* deleted meanwhile.  (Its test that the e-mail is no member's is left out:
\* accept does not compare addresses, so anybody may hold the invitation.)
Invite(t, i, role) ==
    /\ InPhase(t, "invite", "admitted")
    /\ invites[i] = None
    /\ invites' = [invites EXCEPT ![i] =
                      [role |-> role, expired |-> FALSE, by |-> None]]
    /\ tx' = [tx EXCEPT ![t] = None]
    /\ UNCHANGED <<org, members, projects, caps>>

\* expires_at passes, for every request still to test it (each takes its `now`
\* when it starts).
ExpireInvite(i) ==
    /\ invites[i] # None
    /\ invites[i].by = None /\ ~invites[i].expired
    /\ invites' = [invites EXCEPT ![i] =
                      [role |-> invites[i].role, expired |-> TRUE, by |-> None]]
    /\ UNCHANGED <<org, members, projects, caps, tx>>

\* ProjectService.soft_delete: a deleted project is not found; one UPDATE, the
\* capabilities stay.  (Two of them that overlap stamp the same row twice.)
DeleteProject(t) ==
    /\ InPhase(t, "unproject", "admitted")
    /\ projects[tx[t].project] = "active"
    /\ projects' = [projects EXCEPT ![tx[t].project] = "deleted"]
    /\ tx' = [tx EXCEPT ![t] = None]
    /\ UNCHANGED <<org, members, caps, invites>>

\* The steps of a transaction from here on: t's record changes, what is
\* committed does not.
Advance(t, record) ==
    /\ tx' = [tx EXCEPT ![t] = record]
    /\ UNCHANGED <<org, members, projects, caps, invites>>

-----------------------------------------------------------------------------
(* change_role                                                              *)

\* Reads the membership; the same role is a no-op.  An owner's is counted
\* among the owners first.
ChangeRead(t, a, role) ==
    /\ InPhase(t, "change", "admitted")
    /\ members[a] \notin {None, role}
    /\ Advance(t, [tx[t] EXCEPT
                      !.phase = IF members[a] = "owner" THEN "read" ELSE "checked",
                      !.actor = a, !.old = members[a], !.new = role])

\* A slip: one owner is enough.
CountOwnersOffByOne(t) ==
    /\ tx[t] # None /\ tx[t].kind \in {"change", "remove"} /\ tx[t].phase = "read"
    /\ Cardinality(Owners) >= 1
    /\ Advance(t, [tx[t] EXCEPT !.phase = "checked"])

\* _assert_not_last_owner: a SELECT of its own.
CountOwners(t) ==
    /\ tx[t] # None /\ tx[t].kind \in {"change", "remove"} /\ tx[t].phase = "read"
    /\ Cardinality(Owners) > 1
    /\ Advance(t, [tx[t] EXCEPT !.phase = "checked"])

\* revoke_bundle: the UPDATE over the old bundle starts.
ChangeRevoke(t) ==
    /\ InPhase(t, "change", "checked")
    /\ Advance(t, [tx[t] EXCEPT !.phase = "revoking",
                      !.scan = {g \in caps : /\ g.actor = tx[t].actor
                                             /\ g.bundle = tx[t].old}])

\* A slip: only the capabilities on projects are minted.
ChangeMintProjectsOnly(t) ==
    /\ InPhase(t, "change", "revoked")
    /\ Advance(t, [tx[t] EXCEPT !.phase = "minted",
                      !.grants = {g \in Bundle(tx[t].actor, tx[t].new,
                                               ActiveProjects) : g.on # Org}])

\* mint_bundle over the projects of this moment.
ChangeMint(t) ==
    /\ InPhase(t, "change", "revoked")
    /\ Advance(t, [tx[t] EXCEPT !.phase = "minted",
                      !.grants = Bundle(tx[t].actor, tx[t].new, ActiveProjects)])

\* A slip: nobody notices that the UPDATE matched no row.
ChangeRowBlind(t) ==
    /\ InPhase(t, "change", "minted")
    /\ ~MemberLocked(t, tx[t].actor)
    /\ Advance(t, [tx[t] EXCEPT !.phase = "ready",
                      !.new = IF members[tx[t].actor] = None THEN None ELSE @])

\* The UPDATE of the membership row, flushed last.  If the row is gone it
\* matches nothing, SQLAlchemy raises StaleDataError, and all rolls back.
ChangeRow(t) ==
    /\ InPhase(t, "change", "minted")
    /\ ~MemberLocked(t, tx[t].actor)
    /\ members[tx[t].actor] # None
    /\ Advance(t, [tx[t] EXCEPT !.phase = "ready"])

-----------------------------------------------------------------------------
(* remove, and soft_delete of the organisation                              *)

\* remove reads the membership, and counts the owners if it is an owner's.
RemoveRead(t, a) ==
    /\ InPhase(t, "remove", "admitted")
    /\ members[a] # None
    /\ Advance(t, [tx[t] EXCEPT
                      !.phase = IF members[a] = "owner" THEN "read" ELSE "checked",
                      !.actor = a, !.old = members[a]])

\* DELETE of the membership row by its key, flushed before the UPDATE.
RemoveDelete(t) ==
    /\ InPhase(t, "remove", "checked")
    /\ members[tx[t].actor] # None
    /\ ~MemberLocked(t, tx[t].actor)
    /\ Advance(t, [tx[t] EXCEPT !.phase = "deleted", !.deletes = TRUE])

\* A DELETE that finds no row is a warning.  It locks nothing and does not wait
\* for an INSERT of the key that is not committed.  (One that waits for another
\* removal finds none either once that commits, even if the actor is back.)
RemoveMissed(t) ==
    /\ InPhase(t, "remove", "checked")
    /\ members[tx[t].actor] = None
    /\ Advance(t, [tx[t] EXCEPT !.phase = "deleted"])

\* The UPDATE over everything the actor holds in this organisation starts.
RemoveRevoke(t) ==
    /\ InPhase(t, "remove", "deleted")
    /\ Advance(t, [tx[t] EXCEPT !.phase = "revoking",
                      !.scan = {g \in caps : g.actor = tx[t].actor}])

\* soft_delete reads the organisation, ...
DeleteRead(t) ==
    /\ InPhase(t, "delete", "admitted")
    /\ org = "active"
    /\ Advance(t, [tx[t] EXCEPT !.phase = "checked"])

\* ... stamps deleted_at by primary key, whoever did before, ...
DeleteStamp(t) ==
    /\ InPhase(t, "delete", "checked")
    /\ ~OrgLocked(t)
    /\ Advance(t, [tx[t] EXCEPT !.phase = "stamped"])

\* A slip: only what is granted on the organisation itself is revoked.
DeleteRevokeSelfOnly(t) ==
    /\ InPhase(t, "delete", "stamped")
    /\ Advance(t, [tx[t] EXCEPT !.phase = "revoking",
                                !.scan = {g \in caps : g.on = Org}])

\* ... and starts the UPDATE over every capability.
DeleteRevoke(t) ==
    /\ InPhase(t, "delete", "stamped")
    /\ Advance(t, [tx[t] EXCEPT !.phase = "revoking", !.scan = caps])

\* The UPDATE of any of the three has all its row locks and ends: rows that
\* somebody else revoked meanwhile no longer have revoked_at IS NULL.
Revoke(t) ==
    /\ tx[t] # None /\ tx[t].phase = "revoking"
    /\ tx[t].scan \cap LockedCaps(t) = {}
    /\ Advance(t, [tx[t] EXCEPT
                      !.phase = IF tx[t].kind = "change"
                                  THEN "revoked" ELSE "ready",
                      !.scan = {}, !.revokes = tx[t].scan \cap caps])

-----------------------------------------------------------------------------
(* accept                                                                   *)

\* Its route has no gate.  It reads an invitation nobody consumed, ...
AcceptRead(t, i, a) ==
    /\ tx[t] = None
    /\ invites[i] # None
    /\ invites[i].by = None /\ ~invites[i].expired
    /\ Advance(t, [Request("accept") EXCEPT
                      !.phase = "read", !.actor = a, !.invite = i,
                      !.new = invites[i].role])

\* ... the organisation, ...
AcceptOrg(t) ==
    /\ InPhase(t, "accept", "read")
    /\ org = "active"
    /\ Advance(t, [tx[t] EXCEPT !.phase = "seated"])

\* ... and the membership: that of a member already is a no-op.
AcceptMember(t) ==
    /\ InPhase(t, "accept", "seated")
    /\ members[tx[t].actor] = None
    /\ Advance(t, [tx[t] EXCEPT !.phase = "checked"])

\* A slip: the UPDATE of the invitation does not test consumed_at again.
AcceptConsumeTwice(t) ==
    /\ InPhase(t, "accept", "checked")
    /\ ~InviteLocked(t, tx[t].invite)
    /\ Advance(t, [tx[t] EXCEPT !.phase = "consumed"])

\* The UPDATE of the invitation: only if nobody consumed it.
AcceptConsume(t) ==
    /\ InPhase(t, "accept", "checked")
    /\ ~InviteLocked(t, tx[t].invite)
    /\ invites[tx[t].invite].by = None
    /\ Advance(t, [tx[t] EXCEPT !.phase = "consumed"])

\* INSERT of the membership, flushed by the query for projects.  It waits for
\* another transaction on the same key; a row that is there by now is an
\* IntegrityError.
AcceptJoin(t) ==
    /\ InPhase(t, "accept", "consumed")
    /\ ~MemberLocked(t, tx[t].actor)
    /\ members[tx[t].actor] = None
    /\ Advance(t, [tx[t] EXCEPT !.phase = "joined"])

\* mint_bundle over the projects of this moment.
AcceptMint(t) ==
    /\ InPhase(t, "accept", "joined")
    /\ Advance(t, [tx[t] EXCEPT !.phase = "ready",
                      !.grants = Bundle(tx[t].actor, tx[t].new, ActiveProjects)])

-----------------------------------------------------------------------------
(* ProjectService.create                                                    *)

\* INSERT of a new row.  (A slug that is taken ends in Rollback.)
ProjectInsert(t, p) ==
    /\ InPhase(t, "project", "admitted")
    /\ projects[p] = "absent"
    /\ \A u \in Txs : tx[u] # None => tx[u].project # p
    /\ Advance(t, [tx[t] EXCEPT !.phase = "inserted", !.project = p])

\* A slip: the fan-out is forgotten.
ProjectFanOutBare(t) ==
    /\ InPhase(t, "project", "inserted")
    /\ Advance(t, [tx[t] EXCEPT !.phase = "ready"])

\* The capabilities of every member it reads, on the new project.
ProjectFanOut(t) ==
    /\ InPhase(t, "project", "inserted")
    /\ Advance(t, [tx[t] EXCEPT !.phase = "ready",
                      !.grants = {[actor |-> a, bundle |-> members[a],
                                   on |-> tx[t].project] :
                                     a \in {b \in Actors :
                                               members[b] \in ProjectRoles}}])

-----------------------------------------------------------------------------
\* What a transaction that gets so far does to the membership row of x.actor:
\* UPDATE, INSERT, or a DELETE that has found it.
WritesRow(x) ==
    \/ x.kind \in {"change", "accept"}
    \/ x.kind = "remove" /\ x.deletes

\* COMMIT publishes what the transaction wrote.  A grant that appears now is
\* a new row: an UPDATE that chose its rows before does not touch it.
Commit(t) ==
    /\ tx[t] # None /\ tx[t].phase = "ready"
    /\ LET x == tx[t] IN
       /\ org' = IF x.kind = "delete" THEN "deleted" ELSE org
       /\ members' = IF WritesRow(x)
                       THEN [members EXCEPT ![x.actor] = x.new] ELSE members
       /\ projects' = IF x.kind = "project"
                        THEN [projects EXCEPT ![x.project] = "active"]
                        ELSE projects
       /\ invites' = IF x.kind = "accept"
                       THEN [invites EXCEPT ![x.invite] =
                                [role |-> x.new, by |-> x.actor,
                                 expired |-> invites[x.invite].expired]]
                       ELSE invites
       /\ caps' = (caps \ x.revokes) \cup x.grants
       /\ tx' = [u \in Txs |->
                    IF u = t \/ tx[u] = None THEN None
                    ELSE [tx[u] EXCEPT !.scan = @ \ x.grants,
                                       !.revokes = @ \ x.grants]]

\* The request ends with nothing written: a refusal, a no-op, a duplicate
\* key, a deadlock victim, a lost connection, a crash.
Rollback(t) ==
    /\ tx[t] # None
    /\ tx' = [tx EXCEPT ![t] = None]
    /\ UNCHANGED <<org, members, projects, caps, invites>>

Gate(t) ==
    \E by \in Actors :
        \/ \E kind \in Kinds : AdmitOrgAdmin(t, kind, by)
        \/ AdmitDelete(t, by)
        \/ AdmitProject(t, by)
        \/ \E p \in Projects : AdmitUnproject(t, p, by)

Change(t) ==
    \/ \E a \in Actors, role \in Roles : ChangeRead(t, a, role)
    \/ CountOwners(t) \/ ChangeRevoke(t) \/ ChangeMint(t) \/ ChangeRow(t)

Withdraw(t) ==
    \/ \E a \in Actors : RemoveRead(t, a)
    \/ RemoveDelete(t) \/ RemoveMissed(t) \/ RemoveRevoke(t)
    \/ DeleteRead(t) \/ DeleteStamp(t) \/ DeleteRevoke(t)
    \/ Revoke(t)

Grow(t) ==
    \/ \E i \in Invites, a \in Actors : AcceptRead(t, i, a)
    \/ AcceptOrg(t) \/ AcceptMember(t) \/ AcceptConsume(t)
    \/ AcceptJoin(t) \/ AcceptMint(t)
    \/ \E p \in Projects : ProjectInsert(t, p)
    \/ ProjectFanOut(t)

End(t) ==
    \/ \E i \in Invites, role \in InviteRoles : Invite(t, i, role)
    \/ DeleteProject(t)
    \/ Commit(t) \/ Rollback(t)

Next ==
    \/ \E a \in Actors : CreateOrg(a)
    \/ \E i \in Invites : ExpireInvite(i)
    \/ \E t \in Txs : Gate(t) \/ Change(t) \/ Withdraw(t) \/ Grow(t) \/ End(t)

Spec == Init /\ [][Next]_vars

-----------------------------------------------------------------------------
(* What holds however the requests interleave.                             *)

\* What the listed role of a gives on the organisation is granted.
HoldsRole(a) ==
    [actor |-> a, bundle |-> members[a], on |-> Org] \in caps

\* The denormalised role of a member is backed by its bundle, whatever requests
\* change, accept or remove at once, and there is one way to lose it: to join
\* again while a removal that found the row gone has yet to revoke.  Every other
\* step leaves each member with the capabilities the listed role has on the
\* organisation, the new role's if it changes (change_role, accept, remove).
OnlyMissedRemovalStrips ==
    [][org' = "active" =>
         \A a \in Actors : members'[a] # None /\ ~HoldsRole(a)' =>
            \/ members'[a] = members[a] /\ ~HoldsRole(a)
            \/ \E t \in Txs : /\ InPhase(t, "remove", "ready") /\ tx'[t] = None
                             /\ tx[t].actor = a /\ ~tx[t].deletes]_vars

\* Who is no member holds nothing on the organisation itself, also when role
\* changes, acceptances and removals of the same actor overlap, one of which
\* may find the row gone (remove; StaleDataError in change_role).
OutsiderHoldsNoOrgGrant ==
    \A g \in caps : g.on = Org => members[g.actor] # None

\* Members come in by the creation of the organisation or by an invitation,
\* one invitation for one of them and in the role it names; a consumed
\* invitation stays with the actor who consumed it (accept, the UPDATE that
\* tests consumed_at again).
JoinsByInvitation ==
    [][/\ \A a \in Actors :
             members[a] = None /\ members'[a] # None =>
                 \/ org = "absent"
                 \/ \E i \in Invites :
                       /\ invites[i] # None
                       /\ invites[i].by = None
                       /\ invites'[i].by = a
                       /\ members'[a] = invites[i].role
       /\ \A i \in Invites :
             invites[i] # None =>
                 invites[i].by \in {None, invites'[i].by}]_vars

-----------------------------------------------------------------------------
(* What holds when requests do not overlap.                                *)

\* "every active org must keep at least one [OWNER]" (tenants/service.py:503,
\* 285-287).
OwnerAlways == org = "active" => Owners # {}

\* The capabilities of an organisation are what its member list and its
\* active projects say, no more and no less; what is left on a deleted
\* project belongs to the role the member still has.
GrantsMatchRoles ==
    org = "active" =>
        /\ {g \in caps : g.on = Org \/ g.on \in ActiveProjects} =
              UNION {Bundle(a, members[a], ActiveProjects) :
                        a \in {b \in Actors : members[b] # None}}
        /\ \A g \in caps : members[g.actor] = g.bundle

\* "Soft-delete the org and revoke every bundle granted within it"
\* (tenants/service.py:181).
DeletedOrgGrantsNothing == org = "deleted" => caps = {}
=============================================================================
