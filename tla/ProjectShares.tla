---------------------------- MODULE ProjectShares ----------------------------
(***************************************************************************)
(* Guest access to one project (ProjectShareService in tenants/service.py, *)
(* with the routes of api/projects.py), next to the membership changes and *)
(* the deletions it meets.  Requests are READ COMMITTED transactions,      *)
(* statement by statement, in the manner of module Tenancy: what a request *)
(* wrote waits in its record, locked against the others, until Commit      *)
(* publishes it.                                                           *)
(*                                                                         *)
(* An owner who stays shares the project and revokes shares; Actors are    *)
(* those who accept them, and who may be members.  Audit rows, e-mails and *)
(* the length of a share's life are left out.                              *)
(***************************************************************************)
CONSTANTS
    Actors,
    Shares,
    Txs,         \* requests that may be in flight together
    None

Owner == "owner"

ASSUME OwnerAssumption == Owner \notin Actors

VARIABLES
    org,         \* "active" or "deleted"
    project,     \* "active" or "deleted"
    members,     \* actors with a row in organisation_members
    shares,      \* project_shares, None without a row
    caps,        \* guest capabilities with no revoked_at
    tx           \* the open requests

VARIABLES        \* history, read by no action
    revoked,     \* shares whose revocation was answered with success ...
    sealed       \* ... and that was in time: after the acceptance or before it

rows == <<org, project, members, shares, caps>>
vars == <<rows, tx, revoked, sealed>>

Cap == [share : Shares, actor : Actors]
Row == [by : Actors \cup {Owner, None},    \* consumed_by, set with consumed_at
        grantee : Actors \cup {None},      \* whose capability is linked
        expired : BOOLEAN]
Kinds == {"share", "accept", "revoke", "remove", "delete"}
Phases == {"admitted", "consumed", "placed", "housed", "outsider", "pending",
           "accepted", "read", "written", "revoking", "ready"}
Transaction ==
    [kind : Kinds, phase : Phases, share : Shares \cup {None},
     actor : Actors \cup {None}, stamps : BOOLEAN,
     deletes : BOOLEAN,     \* a remove whose DELETE has found the row
     scan : SUBSET Cap, revokes : SUBSET Cap, grants : SUBSET Cap]

ASSUME NoneAssumption ==
    /\ None \notin Actors \cup Shares \cup {Owner}
    /\ None \notin Row
    /\ None \notin Transaction

TypeOK ==
    /\ org \in {"active", "deleted"}
    /\ project \in {"active", "deleted"}
    /\ members \subseteq Actors
    /\ shares \in [Shares -> Row \cup {None}]
    /\ caps \subseteq Cap
    /\ tx \in [Txs -> Transaction \cup {None}]
    /\ sealed \subseteq revoked /\ revoked \subseteq Shares

-----------------------------------------------------------------------------
Request(kind, phase) ==
    [kind |-> kind, phase |-> phase, share |-> None, actor |-> None,
     stamps |-> FALSE, deletes |-> FALSE, scan |-> {}, revokes |-> {}, grants |-> {}]

InPhase(t, kind, phase) ==
    tx[t] # None /\ tx[t].kind = kind /\ tx[t].phase = phase

Others(t) == {u \in Txs \ {t} : tx[u] # None}

\* Rows another open request has written: the share s, ...
ShareLocked(t, s) ==
    \E u \in Others(t) :
        tx[u].share = s /\ (tx[u].kind = "accept" \/ tx[u].stamps)

\* ... the membership row of a, the row of the organisation, ...
MemberLocked(t, a) == \E u \in Others(t) : tx[u].actor = a /\ tx[u].deletes

OrgLocked(t) ==
    \E u \in Others(t) :
        tx[u].kind = "delete" /\ tx[u].phase \in {"written", "revoking", "ready"}

\* ... and capabilities.
LockedCaps(t) == UNION {tx[u].revokes : u \in Others(t)}

\* consumed_at is NULL and expires_at is ahead.
Redeemable(s) == shares[s] # None /\ shares[s].by = None /\ ~shares[s].expired

Init ==
    /\ org = "active"
    /\ project = "active"
    /\ members \in SUBSET Actors
    /\ shares = [s \in Shares |-> None]
    /\ caps = {}
    /\ tx = [t \in Txs |-> None]
    /\ revoked = {}
    /\ sealed = {}

-----------------------------------------------------------------------------
\* What surrounds the shares.  Of these requests only the COMMIT is modelled:
\* Tenancy has their statements, and what they tested may be over by then.

\* A member joins (MembershipService.accept): nothing there reads a share.
Join(a) ==
    /\ a \notin members
    /\ members' = members \cup {a}
    /\ UNCHANGED <<org, project, shares, caps, tx, revoked, sealed>>

\* ProjectService.soft_delete leaves shares and capabilities alone.
DeleteProject ==
    /\ project = "active"
    /\ project' = "deleted"
    /\ UNCHANGED <<org, members, shares, caps, tx, revoked, sealed>>

\* The clock passes expires_at, for every request still to test it (each takes
\* its `now` when it starts).  A guest's capability takes expires_at of its
\* share, so both expire together.
Expire(s) ==
    /\ shares[s] # None /\ ~shares[s].expired
    /\ shares' = [shares EXCEPT ![s].expired = TRUE]
    /\ UNCHANGED <<org, project, members, caps, tx, revoked, sealed>>

-----------------------------------------------------------------------------
\* Statements inside a request: its record changes, what is committed does not.
Advance(t, record) ==
    /\ tx' = [tx EXCEPT ![t] = record]
    /\ UNCHANGED <<rows, revoked, sealed>>

\* The owner passes the gate of a route: tenant_context takes an organisation,
\* project_context a project that is not deleted.  Nothing comes back from
\* deletion, so that both held when the first was read.
Admit(t, kind) ==
    /\ tx[t] = None
    /\ kind \in {"share", "revoke", "remove", "delete"}
    /\ org = "active"
    /\ kind \in {"share", "revoke"} => project = "active"
    /\ Advance(t, Request(kind, "admitted"))

\* share: one INSERT.
Share(t, s) ==
    /\ InPhase(t, "share", "admitted")
    /\ shares[s] = None
    /\ shares' = [shares EXCEPT ![s] =
                     [by |-> None, grantee |-> None, expired |-> FALSE]]
    /\ tx' = [tx EXCEPT ![t] = None]
    /\ UNCHANGED <<org, project, members, caps, revoked, sealed>>

\* A slip: the share is read and tested, and consumed without a lock.
AcceptConsumeUnlocked(t, s, a) ==
    /\ tx[t] = None
    /\ Redeemable(s)
    /\ Advance(t, [Request("accept", "consumed") EXCEPT
                      !.share = s, !.actor = a])

\* accept, which has no gate: UPDATE ... WHERE consumed_at IS NULL ... RETURNING.
AcceptConsume(t, s, a) ==
    /\ tx[t] = None
    /\ Redeemable(s)
    /\ ~ShareLocked(t, s)
    /\ Advance(t, [Request("accept", "consumed") EXCEPT
                      !.share = s, !.actor = a])

\* The project must be there (otherwise it raises, and nothing is written), ...
AcceptProject(t) ==
    /\ InPhase(t, "accept", "consumed")
    /\ project = "active"
    /\ Advance(t, [tx[t] EXCEPT !.phase = "placed"])

\* ... so must the organisation, ...
AcceptOrg(t) ==
    /\ InPhase(t, "accept", "placed")
    /\ org = "active"
    /\ Advance(t, [tx[t] EXCEPT !.phase = "housed"])

\* ... and a member is done here, with no capability.
AcceptMember(t) ==
    /\ InPhase(t, "accept", "housed")
    /\ Advance(t, [tx[t] EXCEPT
                      !.phase = IF tx[t].actor \in members
                                  THEN "ready" ELSE "outsider"])

\* A slip: the capability goes to the one who shared.
AcceptMintForSharer(t) ==
    /\ InPhase(t, "accept", "outsider")
    /\ Advance(t, [tx[t] EXCEPT !.phase = "ready",
                      !.grants = {[share |-> tx[t].share, actor |-> Owner]}])

\* Anybody else gets one, which the share links to.
AcceptMint(t) ==
    /\ InPhase(t, "accept", "outsider")
    /\ Advance(t, [tx[t] EXCEPT !.phase = "ready",
                      !.grants = {[share |-> tx[t].share,
                                   actor |-> tx[t].actor]}])

\* revoke reads the share, and does one of three things: nothing to one that
\* was consumed without a capability, ...
RevokeRead(t, s) ==
    /\ InPhase(t, "revoke", "admitted")
    /\ shares[s] # None
    /\ Advance(t, [tx[t] EXCEPT
                      !.share = s, !.actor = shares[s].grantee,
                      !.phase = IF shares[s].by = None THEN "pending"
                                ELSE IF shares[s].grantee = None THEN "ready"
                                ELSE "accepted"])

\* ... a stamp on a pending one, by primary key: consumed_at is not tested
\* again, ...
RevokePending(t) ==
    /\ InPhase(t, "revoke", "pending")
    /\ ~ShareLocked(t, tx[t].share)
    /\ Advance(t, [tx[t] EXCEPT !.phase = "ready", !.stamps = TRUE])

\* A slip: an accepted share's capability is left alone.
RevokeAcceptedNothing(t) ==
    /\ InPhase(t, "revoke", "accepted")
    /\ Advance(t, [tx[t] EXCEPT !.phase = "ready"])

\* ... and an UPDATE of the capability linked to an accepted one, which starts.
RevokeAccepted(t) ==
    /\ InPhase(t, "revoke", "accepted")
    /\ Advance(t, [tx[t] EXCEPT !.phase = "revoking",
                      !.scan = {c \in caps : /\ c.share = tx[t].share
                                             /\ c.actor = tx[t].actor}])

\* MembershipService.remove reads the membership, ...
RemoveRead(t, a) ==
    /\ InPhase(t, "remove", "admitted")
    /\ a \in members
    /\ Advance(t, [tx[t] EXCEPT !.phase = "read", !.actor = a])

\* ... deletes it by its key, ...
RemoveDelete(t) ==
    /\ InPhase(t, "remove", "read")
    /\ tx[t].actor \in members
    /\ ~MemberLocked(t, tx[t].actor)
    /\ Advance(t, [tx[t] EXCEPT !.phase = "written", !.deletes = TRUE])

\* (a row that is gone is a warning, as in Tenancy)
RemoveMissed(t) ==
    /\ InPhase(t, "remove", "read")
    /\ tx[t].actor \notin members
    /\ Advance(t, [tx[t] EXCEPT !.phase = "written"])

\* ... and starts the UPDATE over all the actor holds in the organisation.
RemoveRevoke(t) ==
    /\ InPhase(t, "remove", "written")
    /\ Advance(t, [tx[t] EXCEPT !.phase = "revoking",
                      !.scan = {c \in caps : c.actor = tx[t].actor}])

\* OrganisationService.soft_delete reads the organisation, ...
DeleteRead(t) ==
    /\ InPhase(t, "delete", "admitted")
    /\ org = "active"
    /\ Advance(t, [tx[t] EXCEPT !.phase = "read"])

\* ... stamps deleted_at, ...
DeleteStamp(t) ==
    /\ InPhase(t, "delete", "read")
    /\ ~OrgLocked(t)
    /\ Advance(t, [tx[t] EXCEPT !.phase = "written"])

\* ... and starts the UPDATE over all the organisation granted.
DeleteRevoke(t) ==
    /\ InPhase(t, "delete", "written")
    /\ Advance(t, [tx[t] EXCEPT !.phase = "revoking", !.scan = caps])

\* The UPDATE has all its locks and ends: what another request revoked meanwhile
\* no longer has revoked_at IS NULL.
Revoke(t) ==
    /\ tx[t] # None /\ tx[t].phase = "revoking"
    /\ tx[t].scan \cap LockedCaps(t) = {}
    /\ Advance(t, [tx[t] EXCEPT !.phase = "ready", !.scan = {},
                                !.revokes = tx[t].scan \cap caps])

-----------------------------------------------------------------------------
\* A slip: the stamp of a pending share writes every column it read.
StampAllColumns(row) == [row EXCEPT !.by = Owner, !.grantee = None]

\* The stamp of a pending share writes consumed_at and consumed_by only.
Stamp(row) == [row EXCEPT !.by = Owner]

Commit(t) ==
    /\ tx[t] # None /\ tx[t].phase = "ready"
    /\ LET x == tx[t] IN
       /\ org' = IF x.kind = "delete" THEN "deleted" ELSE org
       /\ members' = IF x.kind = "remove" /\ x.deletes
                       THEN members \ {x.actor} ELSE members
       /\ shares' =
             IF x.kind = "accept"
               THEN [shares EXCEPT ![x.share] =
                       [@ EXCEPT !.by = x.actor,
                                 !.grantee = IF x.grants = {} THEN None
                                                              ELSE x.actor]]
             ELSE IF x.stamps
               THEN [shares EXCEPT ![x.share] = Stamp(@)]
             ELSE shares
       /\ caps' = (caps \ x.revokes) \cup x.grants
       /\ tx' = [tx EXCEPT ![t] = None]
       /\ revoked' = IF x.kind = "revoke" THEN revoked \cup {x.share} ELSE revoked
       /\ sealed' =
             IF x.kind = "revoke" /\ (x.stamps => shares[x.share].grantee = None)
               THEN sealed \cup {x.share} ELSE sealed
    /\ UNCHANGED project

\* A refusal, an error, a crash: nothing is written.
Rollback(t) ==
    /\ tx[t] # None
    /\ tx' = [tx EXCEPT ![t] = None]
    /\ UNCHANGED <<rows, revoked, sealed>>

Accept(t) ==
    \/ \E s \in Shares, a \in Actors : AcceptConsume(t, s, a)
    \/ AcceptProject(t) \/ AcceptOrg(t) \/ AcceptMember(t) \/ AcceptMint(t)

Withdraw(t) ==
    \/ \E s \in Shares : RevokeRead(t, s)
    \/ RevokePending(t) \/ RevokeAccepted(t)
    \/ \E a \in Actors : RemoveRead(t, a)
    \/ RemoveDelete(t) \/ RemoveMissed(t) \/ RemoveRevoke(t)
    \/ DeleteRead(t) \/ DeleteStamp(t) \/ DeleteRevoke(t)
    \/ Revoke(t)

Step(t) ==
    \/ \E kind \in Kinds : Admit(t, kind)
    \/ \E s \in Shares : Share(t, s)
    \/ Accept(t) \/ Withdraw(t)
    \/ Commit(t) \/ Rollback(t)

Next ==
    \/ \E a \in Actors : Join(a)
    \/ DeleteProject
    \/ \E s \in Shares : Expire(s)
    \/ \E t \in Txs : Step(t)

Spec == Init /\ [][Next]_vars

-----------------------------------------------------------------------------
\* A guest's capability can always be found again: whatever accepted, revoked
\* or removed at the same time, the share it came from is linked to it, and a
\* later revocation reaches it (accept, consumed_capability_id; revoke writes
\* only the columns it changed).
GrantIsLinked ==
    \A c \in caps : shares[c.share] # None /\ shares[c.share].grantee = c.actor

\* A share is good for one capability: one appears only in the step that
\* consumes its share for that actor, and a consumed share stays consumed.
\* With GrantIsLinked, no share ever has two guests (accept, the UPDATE that
\* tests consumed_at).
GrantConsumesShare ==
    [][/\ \A c \in caps' \ caps :
             /\ shares[c.share].by = None
             /\ shares'[c.share].by = c.actor
       /\ \A s \in Shares :
             shares[s] # None /\ shares[s].by # None => shares'[s].by # None]_vars

\* A revocation that was in time is final: one that committed before the share
\* was accepted, or that found it accepted, leaves no capability now or later
\* (revoke, accept).
RevocationSticks == \A c \in caps : c.share \notin sealed

\* "the capability row has revoked_at set ... and the next request from the
\* guest returns HTTP 404" once DELETE .../shares/{id} was answered
\* (openspec/specs/authorization/spec.md:81-82).
RevokedShareGrantsNothing == \A c \in caps : c.share \notin revoked
=============================================================================
