# Formal models of fastsaas

TLA+ models of the sessions, the tenancy, the request path and the audit log of
fastsaas, checked with TLC and, for the properties that matter most, proved with
TLAPS. `PROJECT.json` maps
every definition to the lines it stands for (paths below are relative to
`backend/src/fastsaas/` unless they start with `openspec/`, `frontend/` or
`docs/`).

## 1. The system

fastsaas is a multi-tenant SaaS skeleton: a FastAPI backend on Postgres (with
row-level security) and Redis, and a React frontend. Every request runs as a
coroutine of some process; several processes share the two stores, so any
request may be interleaved with any other at every `await`. Nothing else
coordinates them: Postgres runs at READ COMMITTED, Redis executes commands,
MULTI batches and Lua scripts one at a time.

| Component | State | Operations | Talks to |
|---|---|---|---|
| Refresh families (`identity/auth/refresh.py`, `jwt.py`) | Redis: `refresh:fam:*` (current id, actor), `refresh:actor:*` (set of families), a TTL on both; refresh JWTs in browsers | `start_family`, `rotate` (Lua), `revoke_family`, `revoke_all_for_actor`, `encode_refresh`, `decode_refresh` | called by the identity service; the JWT is encoded after Redis answered |
| Identity service and routes (`identity/service.py`, `api/auth.py`) | Postgres: actors, users, OAuth identities, magic links; the refresh cookie | register, verify, log in (password, link, OAuth), reset, refresh, log out | refresh families, magic links, e-mail as a background task, the audit log |
| Magic links (`identity/auth/magic_link.py`) | `magic_link_tokens` rows: purpose, expiry, consumed_at | `mint`, `consume`, `find_active` | identity service, shares |
| Tenants (`tenants/service.py`, `api/orgs.py`, `api/projects.py`) | organisations, organisation_members, org_invitations, projects, project_shares | create / delete organisation, invite, accept, change_role, remove; create / update / delete project; share, accept, revoke | mints and revokes capabilities in the same transaction |
| Capabilities (`authz/`) | `capabilities` rows: actor, operation, target, bundle, revoked_at | `mint_bundle`, `revoke_bundle`, `mint_capability`, `revoke_capability`, `can` | gates of every tenant route |
| Request context (`identity/middleware.py`, `tenants/dependencies.py`, `db.py`) | the transaction, `app.current_org` | resolve the actor and the membership, commit or roll back | everything |
| Audit (`audit/`) | the append-only audit log, intents | record, pending / completed intent, scrub | every mutation |
| Key ring (`jwt.py`, `docs/runbooks/rotate-jwt-keys.md`) | signing key, verification keys by kid, cached per process | sign, verify, reload | tokens |
| Browser (`frontend/src/features/auth`, `frontend/src/lib/api`) | access token in memory, the cookie, one in-flight refresh per tab | refresh, recover from 401, log out | the auth routes |

### What is hard here

* **Two stores, no common transaction.** Redis is changed in the middle of
  requests whose Postgres part may still fail, or commit later.
* **Read, then write, at READ COMMITTED.** `change_role`, `remove`, `accept`,
  `soft_delete` and the project fan-out decide from rows another request may
  be changing; only primary keys, row locks and one re-tested UPDATE
  (`accept`) protect them.
* **Denormalisation.** Membership (`organisation_members.role`) and rights
  (`capabilities`) say the same thing twice, and the rights on projects a third
  time, once per project.
* **Replay.** A refresh id presented twice must end its family, also when the
  first presentation's answer is still being built.
* **Two expiries of one session.** The key's TTL and the JWT's `exp`; and the
  TTL of the index, which rotation does not renew.
* **One cookie, several pages.** Every request carries the cookie of the moment it
  is sent and changes the cookie of the moment its answer arrives; answers may be
  late, in another order, or lost.
* **Values read once.** A process keeps the signing key it started with and the
  ring it read first, through a rotation that other processes are already past.
* **Decisions that age.** A request resolves its membership in one transaction, its
  project and its capabilities by two statements of another, and acts in a third.

### What makes each component correct

* Families: an id is accepted once; one current id per family; an ended family
  stays ended; a reset reaches every session; the cookie does not run out first.
* Tenancy: members hold what their role says, but for one overlap of removals with a
  return; outsiders hold nothing on the organisation; an owner remains; invitations make one member each; a deleted organisation grants nothing.
* Shares: one capability per accepted share; a revoked share grants nothing.
* Auth flows: links are used once; a reset ends every session opened with the
  old password; no e-mail for a row that was rolled back.
* Audit: each mutation has its row in the same transaction; a finished scrub has
  reached every row it could see; nothing but personal data ever changes.
* Keys: a token verifies at every process until it expires; a session in use
  survives a rotation.
* Requests: a connection carries the tenant of its own request; nothing is done
  or shown that was not allowed to the actor during the request.
* Browser: a session is ended by a replay only if two pages, or a lost answer, sent
  one cookie twice; a 401 is answered by a retry, a refusal or a failure.

## 2. Modules

| Module | What it is |
|---|---|
| `SessionChains` | abstract specification: chains of single-use token ids |
| `RefreshFamilies` | the Redis protocol and the JWTs, one action per command batch |
| `RefreshFamiliesProofs` | inductive invariant, safety theorems, refinement |
| `MCRefreshFamilies` | instances for TLC |
| `Tenancy` | one organisation: membership, bundles, projects, invitations, as READ COMMITTED transactions |
| `TenancyProofs` | inductive invariant and safety theorems for any number of requests in flight |
| `MCTenancy` | instances for TLC |
| `ProjectShares` | guest access to one project: share, accept, revoke, next to the membership changes and deletions they meet |
| `ProjectSharesProofs` | inductive invariant and safety theorems |
| `MCProjectShares` | instances for TLC |
| `AuthFlows` | the identity service: accounts, links and sessions, as requests over both stores; composes `RefreshFamilies` |
| `AuthFlowsProofs` | the composition, the inductive invariant and the theorems that need both stores |
| `MCAuthFlows` | instances for TLC |
| `BrowserTabs` | tabs, their calls and auth requests, the cookie they share; composes `SessionChains` |
| `BrowserTabsProofs` | inductive invariant and safety theorems |
| `MCBrowserTabs` | instances for TLC, one for liveness |
| `AuditLedger` | abstract specification: rows are appended, personal data may be erased |
| `AuditTrail` | changes of organisations, their audit rows and scrubs as transactions |
| `AuditTrailProofs` | inductive invariant, safety theorems, refinement |
| `MCAuditTrail` | instances for TLC |
| `KeyRotation` | the key rings of several processes and the rotation runbook |
| `KeyRotationProofs` | inductive invariant and safety theorems |
| `MCKeyRotation` | instances for TLC |
| `TenantRequests` | requests to `/orgs/{slug}/projects` over pooled connections with row-level security |
| `TenantRequestsProofs` | inductive invariant and safety theorems |
| `MCTenantRequests` | instances for TLC |

`RefreshFamilies` implements `SessionChains`; `AuthFlows` drives `RefreshFamilies`
from the server's requests, and `BrowserTabs` meets `SessionChains` from the
browser's side, so what is proved of the families holds for both. `AuditTrail`
implements `AuditLedger`. `TenantRequests` takes as one step what `Tenancy` and
`ProjectShares` take apart.

### RefreshFamilies

| State | Code |
|---|---|
| `now` | the clock that Redis TTLs and JWT `exp` share, in days |
| `fam[f]` | hash `refresh:fam:<f>` with its expiry, `None` when the key is absent |
| `index[a]` | set `refresh:actor:<a>` with its expiry |
| `encoding` | ids written to Redis by a request that has not encoded the JWT yet |
| `jwts` | every refresh JWT ever encoded; any of them may be presented at any time |
| `sweep[s]` | a `revoke_all_for_actor` between SMEMBERS and its MULTI |
| `startedAt`, `accepted`, `burned`, `lost`, `promised` | history variables; no action reads them except `startedAt`, which makes `uuid4` ids fresh |

Every action is one Redis command, MULTI or Lua run. `AbandonEncoding` is a
request that ends after its Redis step (disabled actor, database error, death of
the process) and `RevokeAllDies` a process that dies between the two commands.
A lost response is a JWT that is never presented; a duplicated or delayed one is
a JWT that is presented again. A key is absent once `now` reaches its expiry, so
expiry is a consequence of `Tick`.

`SessionChains` knows no Redis and no clock. The refinement maps a family to a
chain: unborn before `start_family`, live while its key is, over afterwards; the
ids ever accepted are the spent ones. `Tick` maps to `Close` of the families
that expire, a sweep to `Close` of the families it had seen.

### Tenancy

`members`, `projects`, `caps`, `invites` and `org` are what is committed. An open
request is a record in `tx`: its kind, its `phase`, what it read (`old`,
`new`, `actor`), the rows its UPDATE chose (`scan`), those it revoked
(`revokes`) and the capabilities it inserted (`grants`). `Commit` publishes the
record, `Rollback` drops it.

* *READ COMMITTED.* Every statement of the service is a step and takes the committed
  state of its own moment. An UPDATE chooses its rows when it starts, waits for the
  transactions that hold them, and then changes those that still satisfy its WHERE
  (`Revoke`). Rows committed after it started are not seen, which `Commit` expresses
  by taking the new grants out of every other transaction's `scan` and `revokes`.
* *Row locks.* A capability is locked by the transaction that revoked it, a
  membership row by the one that updated, deleted or inserted it, an invitation
  by the one that consumed it, the organisation row by its deletion. A step that
  needs a locked row is disabled.
* *A removal that comes late.* A DELETE by primary key that finds no row (`RemoveMissed`)
  locks nothing, does not wait for an INSERT that is not committed and is only a warning:
  the removal goes on to revoke. `deletes` says which of the two happened; a commit
  without it leaves the membership alone, one that came back meanwhile included.
* *Errors.* A duplicate primary key (accept), an UPDATE that matches no row
  (`StaleDataError` in `change_role`), a second consumption, a refusal, a
  deadlock victim, a crash: all end in `Rollback`, and the guards of the
  successful step exclude them.
* *Gate and service are separate.* `AdmitOrgAdmin`, `AdmitDelete`, `AdmitProject` and
  `AdmitUnproject` are the gates of the routes (`tenant_context` and `can`), in a
  transaction of their own; the service reads again later, when the caller may have lost
  the right. `accept` has no gate. A gate is one step here; `TenantRequests` takes
  it apart.
* *A grant* stands for all rows of one bundle on one target, which are always
  inserted and revoked by the same statements. `Org` is the target of the
  `self` templates. Two batches of identical rows, from concurrent requests, are
  one grant; the lock a third request would take on the older of the two is
  the one detail this drops, and dropping a lock only adds behaviours.
* *Who accepts.* Any actor may accept any invitation: the e-mail is not compared
  with the actor's by the code.
* *One step.* Once admitted, `invite` and the deletion of a project have a single
  writing statement and are one step. Nobody sees an organisation before its
  creation commits.

Guest capabilities live on other rows (`role:guest_viewer`). `remove` and the
deletion of the organisation revoke them too, which is in `ProjectShares`; no
other operation of this module touches them.

### ProjectShares

`shares[s]` is a row of `project_shares`: who consumed it, whose capability it
links (`consumed_capability_id`), whether it has expired. `caps` are the active
guest capabilities, `tx` the open requests, statement by statement as in `Tenancy`.

* *The sharer.* An owner who stays, outside `Actors`, shares, revokes, removes and
  deletes, so `can` always answers yes; `Admit` is what the gates ask of the
  organisation and the project.
* *Accept* is the UPDATE that consumes the share if it is still unconsumed (it locks
  the row), then the reads of the project, the organisation and the membership, then
  the mint. A member gets no capability.
* *Revoke* reads the share first. A pending one is stamped by primary key
  (`RevokePending`, `stamps`), and the flush writes only the columns that changed
  (`Stamp`), so a link an acceptance committed in between survives; an accepted one has
  its capability revoked by an UPDATE (`RevokeAccepted`).
* *Remove* and *delete* are read, lock of their row, UPDATE over the capabilities
  it sees, commit. As in `Tenancy`, a DELETE that finds the member gone locks nothing. *Join* (`MembershipService.accept`) is its commit alone: what it does
  to memberships is `Tenancy`'s.
* *Expiry* is one flag, because the capability takes the share's `expires_at`.
* `revoked` and `sealed` remember the revocations that were answered, and those
  that came in time; no action reads them.

### AuthFlows

| State | Code |
|---|---|
| `users[a]` | the rows of `actors`, `users` and `oauth_identities` of one actor |
| `links[l]` | a row of `magic_link_tokens` |
| `tx[t]` | an open request: `spent` (it consumed its link), `checked` (before its first Redis step), `started` (a family is started or rotated, the tokens are not encoded), `sweeping` (a reset between SMEMBERS and MULTI), `answered` (not committed) |
| `now` ... `promised` | the variables of `RefreshFamilies` |
| `opened`, `raced`, `orphaned` | history: for whom and with what a family was opened, the logins that overlapped a password change, the families whose request did not commit; only the freshness of `uuid7` ids reads them |

*Composition.* `Redis == INSTANCE RefreshFamilies`: a step of a request that
touches Redis is a conjunction of an action of `RefreshFamilies` and a change of
the request's record. A sweep of `RefreshFamilies` is the request that makes it.
`UsesRefreshFamilies` says that every behaviour of the flows is a behaviour of
`RefreshFamilies`; its theorems then hold of the flows, and `ResetEnds` is proved
from one of them.

*Answer before commit.* The session is a dependency with `yield`, which the
pinned FastAPI closes after the response was sent. A request therefore answers, in
a state in which its rows are locked and invisible, and commits afterwards. A
login or a refresh whose request wrote nothing is over when it answers.

*Locks.* A link is locked by the request that consumed it, a row of `users` by
the one that updated it, an address by the open insertion of it (the unique
index). A step that needs one of them is disabled until `Commit` or `Rollback`;
then it sees what was committed.

*Simplifications.* An actor id stands for one address (`Email`), as ids are
random and are drawn for a registration. An account has one provider identity.
`Register`, `RequestLink` and `VerifyEmail` have no Redis step and publish one
thing, and are one step each; an earlier failure of theirs changes nothing. Links
expire at any time. A password is its own hash. Disabling an actor has no route:
`Disable` is an operator's update (marked external). An unknown token or a taken
address raises before a write, and is the absence of a step. What is found after a
write is a step of its own: a link is consumed before its actor is read
(`LoginMagicLink`, `MagicUser`; `ResetLink`, `ResetUser`), and `refresh_session`
rotates before it finds the actor disabled (`RefreshRotate`, then `RefreshAnswer` or
`Rollback`).

### BrowserTabs

| State | Code |
|---|---|
| `phase`, `current`, `spent`, `issuedIn` | the server's families, as `SessionChains` has them |
| `cookie` | the refresh cookie all tabs share |
| `tab[t]` | the module state of one page: rendered or not, `accessToken`, `inFlight` |
| `call[t][c]` | an API call that met a 401: waiting for `recoverFrom401`, or retrying |
| `ask[r]` | an auth request on the wire: with which cookie it was sent, for which tab, how it was answered |
| `burned`, `doubled`, `orphaned`, `latest`, `crossed`, `out` | history; no action reads them, but for each other |

* A request has three steps: it is sent with the cookie of that moment, served, and
  delivered, with `Set-Cookie` taking effect then. `FetchFails` is a fetch that
  rejects: the page goes on, while the server may have served the request, or serve
  it later, and its cookie may still come (`CookieArrives`) or not (`Vanishes`).
* A refused refresh leaves the cookie as it is: the route clears it on the response
  object and then raises `HTTPException`, whose response is another one
  (`api/auth.py:206-211`).
* Any call may meet a 401, a login with a wrong password included, since
  `apiClient` exempts the refresh route alone.
* A page load drops the module state; its requests are abandoned and nobody waits
  for their answers. Which page a tab shows is not kept, since users go from page to
  page by links without a load: what depends on it (a refused refresh loads the
  login page, but not from a page of `/auth`) is a choice (`RefreshRefused`). A boot
  that was refused renders the page without a load (`BootRefused`).
* The server's families end by themselves as well (`EndFamily`: expiry, a log-out
  elsewhere, a password reset).

### AuditTrail

| State | Code |
|---|---|
| `org[o]` | the committed row of an organisation: theme and `deleted_at` |
| `log` | the committed rows of `audit_log` in the order of their commits |
| `tx[t]` | an open transaction: what it read, the row it will commit, the rows a scrub has yet to visit and those it rewrote |

`update_theme` and `soft_delete` stand for the service methods that change a row
and call `audit.record` in the same session. Reading, the flush and the commit are
steps of their own; the UPDATE goes by primary key and waits for the lock of
another one. The scrub's UPDATE chooses its rows from its snapshot, visits
them one by one in any order, waits for a row another scrub has rewritten and
evaluates its WHERE again on what that one left. The receipt commits with the
UPDATE. `scrubs` is history: what a committed scrub could see and what it rewrote. `ip` stands for the four PII keys, which are scrubbed together; the receipt
carries those of the DPO's own request, so a later scrub may erase it too. `at` is
the number of the transaction: `NOW()` in Postgres is the time it started, so rows
are not in the order of `at`. The audit rows of other operations and reads, dry runs
included, change nothing here.

### KeyRotation

A process has the signing kid of the settings it started with and a ring it reads
from the key directory at the first token it verifies. `dir` and `conf` are the
directory and the settings for processes that start now; the operator's actions are
the runbook's steps, with its rollback, and stop nothing else: log-ins, refreshes,
log-outs, OAuth starts and restarts of any process come in between. Tokens are a set
of kid and expiry; a family has the kid of its one valid refresh token and the
moment it was renewed. Refresh tokens do not expire in the model: their 30 days
exceed any wait of the runbook, and expiry only ends obligations. A log-out at a
process that does not know the kid clears the browser's cookie and leaves the
family (`left`). The runbook speaks of pods: that the directory a process reads is
the mounted one, changed for all at once, is how it describes it.

### TenantRequests

| State | Code |
|---|---|
| `role`, `ended`, `home`, `gone`, `caps` | memberships, deleted organisations, projects, deleted projects, active capabilities: what is committed |
| `conn[c]` | a pooled connection: who uses it, and its `app.current_org` and `app.current_actor` |
| `req[r]` | a request: how far it is, what it resolved, what it shows |
| `held[r]` | history: all that its actor held since it began |

A request takes a connection with its first query (`current_actor`), resolves the
membership in a migrator session (`ResolveMember`, or `ResolveStranger` and then, in
another query, `ResolveGuest`) and pins the tenant, looks up the
project under row-level security (`FindProject`), loads the capabilities, under
row-level security too, and matches them (`Check`), and acts in a migrator session
again, where the project is read once more before it is written (`LoadProject`). Between any two of these, members join and leave, shares are accepted and
revoked and organisations end (`MaxChanges` of them). `End` is the answer, a
refusal, an error or a hang-up: the connection returns to the pool, where a setting
made with `set_config(..., true)` has become `''`, not unset, as Postgres leaves it.
A cast of `''` to uuid fails, so a query that runs on such a connection before it is
pinned would be an error (`Casts`); the code pins first. Policies are those of the
migrations for `projects` and `capabilities`. A route without a capability check
(`list` for members) has none here.

## 3. Runs

| Run | Instance | Shows |
|---|---|---|
| `refresh_families` | 1 actor, 2 families, 3 ids, 1 sweep, TTL 2, clock to 3 | all invariants and the refinement; 62 thousand states |
| `tenancy` | 3 actors, 2 invitations, 2 requests in flight, owner and member | what no interleaving breaks, and the one that strips a member; 867 thousand states |
| `tenancy_serial` | 3 actors, 2 projects, 2 invitations, 1 request at a time, owner, viewer, dpo | exact agreement of capabilities, roles and projects; 374 thousand states |
| `shares` | 2 actors, 2 shares, 2 requests in flight | acceptances, revocations, removals, deletions: capabilities stay linked, one per share, and revocations in time are final; 1.2 million states |
| `auth_flows` | 2 actor ids of one address, 2 passwords, 2 links, 2 families, 2 ids, 2 requests, TTL 1, clock to 1 | what every flow, interleaved and failing, keeps; the composition; 842 thousand states |
| `browser` | 2 tabs, 1 call each, 2 requests on the wire, 2 families, 3 ids, no page loads by the user | replays come from overlaps alone; the last word on the cookie; signed-out tabs stay so; 778 thousand states |
| `browser_waits` | 1 tab, 2 calls, 2 requests, 1 family, 2 ids, 1 page load, fair | every load and every waiting call ends; 234 thousand states |
| `audit` | 2 organisations, 2 clients, 2 addresses, 2 themes, 3 filters, 4 transactions | the log accounts for the state, scrubs reach and count, the refinement; 3.0 million states |
| `keys` | 2 processes, 1 session, access TTL 2, state TTL 1, 3 kids, clock to 6 | what verifies where during rotations and rollbacks; 2.9 million states |
| `requests` | 2 organisations, 2 projects, 2 actors, 2 requests, 2 connections, 1 change by others, joins as member, 1 deletion | the tenant of a connection, the authority of acts and answers; 1.4 million states |
| `last_owner` | 2 actors, 2 requests | two owners lose their role at once |
| `share_revoke` | as `shares` | a revocation misses an acceptance it overlaps |

The last two are expected to fail: each states what a document of the
repository says and the code does not ensure. See *Disagreements*.

**Bounds.** `Horizon` = 3 exceeds `RefreshTTL` = 2, so keys, index and JWTs
expire, a rotation renews a family past the index, and a family may be older
than the index's TTL. Three ids allow a login, a rotation and a second one, or
two logins and a rotation; two families are what the index needs to lose one of
them. Two requests in flight suffice for every lost update and write skew of
this code, whose operations read at most once and write at most once per row;
with two, each may overlap the other at every step, and others may run before
and after. Three actors are an admin, a target and a bystander or second owner.
Two invitations let an actor who came in by one be removed and come back by the other
while a second removal is open. That run has no projects: its properties are about the
organisation's own capabilities, which are minted and revoked by the same statements as
those on projects; the theorems have any number of projects, and so has the serial run.
In the serial run the roles cover a bundle with project rights and full
administration (owner), one with project rights only (viewer) and one without
(dpo), and two projects let one be deleted while another lives. In `shares`, two shares
let one actor be offered two and one share be presented twice. In `auth_flows` the
two ids compete for one address; two links make a login link and a reset of one
account meet, or one link be presented by both requests; two families and two
token ids are two logins, or a login and a rotation; a TTL of 1 lets a session
expire under a request.

In `browser` two requests on the wire are a refresh and a log-out or login, or the
refreshes of two tabs; three ids let a refresh rotate what another one still sends,
and a second sign-in follow. Page loads by the user are in `browser_waits`, where
one tab suffices, since a tab waits for its own requests only; that two tabs compete
for the two places on the wire is a bound of the model. In `audit` four transactions
are two scrubs that overlap on rows of two changes, or three changes and a scrub;
the filters overlap by person, by address and by time. In `keys` the clock passes
one wait (3) and then a second rotation's; three kids are two rotations, or one, a
rollback and another; two processes are one on either side of a restart. In
`requests` one change by others may come at any point of two requests, which
themselves create and delete projects, though not both projects (`OneDeletion`, the
only state constraint of a run: the states beyond it are checked and not continued);
each actor belongs to one organisation and may join the other, as a member, which
may write and not administer, and one has a share. Two connections and two requests
let a connection be used again after a request of the other organisation. The
theorems remove these bounds for what they state.

**Symmetry** is used on families, ids, actors, projects, invitations, shares,
links, passwords, requests, tabs, organisations, processes and connections where no
definition tells them apart; never on roles, and not in `browser_waits`, which checks
liveness.

**Deadlock** is off in these runs: when the clock and the ids are used up, or
the organisation is deleted, a model rightly stops. Waiting requests are never
stuck, since each may take `Rollback` or `Fail`, as Postgres's deadlock detection
would make one of them do.

**Fairness.** Only `browser_waits` assumes any (`FairSpec`). Every request on the
wire is eventually served and delivered, or fails: the server answers, or the browser
gives up. A loading page sends its boot refresh: `bootRefresh` runs before anything is
rendered. It is strongly fair only because the model bounds the wire and another
request may hold the place; a browser has no such bound. The retry of a call
ends. Nothing is assumed of users: signing in, signing out and reloading may stop
or go on.

**Mutants.** Operators commented as *A slip* are plausible bugs; each property
is violated when the operation they follow is replaced by its slip.

## 4. Proofs

`RefreshFamiliesProofs` proves, for all constants that satisfy the assumptions
of `RefreshFamilies` (a positive TTL, a `None` that is no value):

* `TypeCorrect`, then `Invariance` of `IInv`, then `ReplayEnds`,
  `CookieOutlives`, `RevokeAllReaches` (with `IndexCovers`, what the index is good
  for), and `Refinement`, that `RefreshFamilies` implements `SessionChains`.
* None of the invariants is inductive alone. `IInv` adds three facts: a key that
  exists belongs to a started family, and its expiry is at most a full TTL away
  (`KeysStarted`), which is what lets a new JWT outlast the key it was made for and
  bounds a family the index no longer covers; the families that a replay or a
  revocation has touched were started (`HistoryStarted`), so `start_family`, whose
  id is fresh, cannot revive one; and a sweep in flight has seen every live family
  it is due to delete, but for those the index lost or is too old for
  (`SweepSees`), which turns into `RevokeAllReach` when its MULTI runs.

`TenancyProofs` proves, for any number of actors, projects, invitations and
requests in flight: `TypeCorrect`, `OutsidersHoldNoOrgGrant`, `JoinsAreInvited` and
`RolesKeepTheirGrants`. The inductive invariant says, beside the types, that outsiders
hold nothing and that there is nothing before the organisation is
created, what each open transaction may count on, as long as it
holds its locks: what it revokes belongs to the actor it works on, what it mints
is the bundle of the role its commit writes, a member it is about to update
exists, an invitation it consumes is unconsumed and no other ready transaction
holds it, and no two transactions write the same membership. A removal may count on
having chosen all its target holds on the organisation only if its DELETE found the row
(`SoundRemove`), because only then does it hold off an acceptance. Requests do not
disturb each other's clauses because a new grant is removed from every other
transaction's chosen rows. A helper lemma (`AdvanceInv`) covers every step that
only moves one transaction's record.

The last two are about steps (`JoinStep`, `StripStep`) that start where the invariant
holds. For `StripStep` only `Commit` matters: if it writes the membership, it mints the
bundle of the new role at once or leaves no row; if it writes none and revokes something
of a member, it is a removal that found no row. That every member always holds its role's
capabilities is not true of the code (see *Disagreements*).

Three further theorems are about requests one at a time, for any number of actors,
projects, invitations and roles: `OwnerStays`, `GrantsAreTheRoles` and
`DeletionRevokesAll`. Their hypothesis is `Serial`, that `Txs` has at most one element,
which is what `tenancy_serial` instantiates. Without it the first is refuted by the run
`last_owner`; so are the others by TLC once `Txs` has two elements: a project's
fan-out misses the member whose acceptance commits meanwhile, and a project created
while its organisation is deleted leaves capabilities. The invariant `SInv`
adds to `IInv` what a request that nobody disturbs may conclude from its earlier
statements (`Alone`): the role it read is the role, the rows it chose are all there
are of the kind, an owner other than the target is left once they were counted, and the
grants it minted are what the member list of its commit asks for.

`ProjectSharesProofs` proves, for any number of actors, shares and requests:
`TypeCorrect`, `GrantsAreLinked`, `RevocationsStick` and `GrantsConsume`. Its
invariant adds, for each kind of request, what it holds while it is open (an
acceptance that consumed its share keeps it unconsumed for everybody else, a
revocation under way works on the capability of its share), that no two requests
hold one share, that a linked share is consumed, and that a sealed one is
consumed too, so no acceptance can follow.

`AuthFlowsProofs` proves, for any number of actors, links, sessions and requests:

* `FlowsUseFamilies`: every step of the flows is a step of `RefreshFamilies` or
  leaves Redis alone (`RedisStep`). `SameRedis` shows that the instance of
  `AuthFlows` and the instance of the proof module are one specification, so
  that theorems of `RefreshFamiliesProofs` can be cited.
* `Invariance` of `IInv`, one lemma per group of actions. It says what an open
  request may count on (`InFlight`: its link is unspent and of its actor, an
  answered OAuth login has inserted its actor), the locks (`Exclusive`,
  `AddressReserved`), who a session was opened for (`OpenedWhenStarted`), which
  sessions a reset has found (`ResetReaches`), and that a session opened by a login
  link belongs to an open request that still holds the link, to a spent one, or to
  a request that did not commit (`LinkAccounted`).
* From it `TypeCorrect`, `LinksOpenOneSession`, `AddressesUnique` and
  `EffectsSpend`; and `ResetEnds`, by `OldPasswordPromised` (a live session of an
  old password raced with the reset, or `revoke_all_for_actor` answered for it) and
  `RevokeAllReaches` of the families. Lemmas carry the parts that most steps
  share: `SessionsKept` (no step but `start_family` and a reset touches what
  sessions promise), `OpenInv` (a request begins), `RequestsKept` (one goes on).

`BrowserTabsProofs` proves `TypeCorrect`, `ReplaysNeedOverlap`, `LastWord` and
`SignedOutStays` for any number of tabs, calls, requests, families and ids. `IInv`
says where an id can be: in the cookie, in the answer of one request, or with those
that sent it; an id whose answer is on the way is nowhere else yet
(`UndeliveredInv`), a spent one is on the wire or its answer is, or it was lost
(`SpentInv`), and two requests that carry one id come from two pages, since a page
has one refresh in flight (`OverlapInv`, `PageInv`). `LastWordInv` says that nothing
else was on the wire when the last word was said, so that all that is on it now
belongs to that session, and `SignedOutInv` that a signed-out tab has nothing in
flight.

`AuditTrailProofs` proves `TypeCorrect`, `TrailMatches`, `ScrubsReach`,
`ErasuresCounted` and `ImplementsLedger` for any organisations, filters and number of
transactions. `IInv`
says what a running scrub's locks give it (`SweepInv`): the rows it rewrote still
match, every row of its snapshot that matches is rewritten or still to be visited,
and two scrubs never hold one row (`LocksInv`); so what it erases at its commit is
what its receipt covers and counts, which is the step of the ledger. That receipts add
up is stated without a sum, which would need induction over a fold: each receipt counts
the rows its scrub rewrote, these sets are disjoint, and together they are the erased
rows.

`KeyRotationProofs` proves `TypeCorrect`, `SignersVerify`, `AccessVerifies` and
`UsedSessionsLast` for any lifetimes, processes, sessions and number of rotations.
`IInv` says for each step of the runbook which kids a process may sign with and
must know (`ProcInv`), which kid a live token carries, and for one under the old
key, that it expires by the end of the wait (`TokenInv`).

`TenantRequestsProofs` proves `TypeCorrect`, `PinsAreOwn`, `Authorised` and
`ShownAllowed` for any number of requests, connections and changes. `IInv` pairs
connections with the requests that use them (`Paired`), says that rights on projects
come with membership and the right to read (`CapsClosed`), that the history covers
what the actor holds now (`Remembers`), and what each stage of a request has
established and no later change can take back (`Stage`). `PinsAgain` is the small fact
that `_load_active_capabilities`, which sets the actor once more, changes nothing on a
connection that is pinned.

All proof modules assume only the named assumptions on the constants: `None`
is no value, the TTLs are numbers, initial projects and shares fit together.

Every safety and action property of a passing run is a theorem. Only model-checked:
liveness (`WaitsEnd`), whose fairness the prover cannot reason about, since it cannot
expand `ENABLED`; and the two violations, which are counterexamples.

## 5. Disagreements found while modelling

Two are stated by runs, which are expected to fail:

* `last_owner`: the last-owner rule is a count without a lock
  (`tenants/service.py:503-504`). `OwnerAlways` holds when requests do not overlap.
* `share_revoke`: `revoke` of a share stamps by primary key what it read as pending
  (`tenants/service.py:1144-1150`). An acceptance that committed in between keeps
  its capability, and the revocation answers success
  (`openspec/specs/authorization/spec.md:82`). `RevocationSticks` and
  `GrantIsLinked`, by which a second revocation works, are what does hold.

The others were met while modelling. Where the models have them, what does hold is a
property of a passing run.

*Sessions.*

* `rotate` renews the TTL of the family and not of the index, so a session refreshed
  for longer than 30 days after the last login is not reached by a password reset
  (`openspec/specs/session-tokens/spec.md:107`). `RevokeAllReach` holds.
* A password reset revokes the sessions before its new hash commits
  (`identity/service.py:297`): the old password logs in until then, and that session
  stays. `ResetEndsEarlierSessions` holds.
* "Concurrent refreshes resolve to one rotation"
  (`openspec/specs/session-tokens/spec.md:45`): the loser is a replay, and the family
  the winner rotated is deleted. `ReplayNeedsOverlap` says when it happens to
  browsers that do nothing wrong.
* The refresh route clears the cookie on a response that is not the one sent
  (`api/auth.py:206-211`), so the browser keeps a dead cookie.
* E-mails are sent before the session commits (`api/auth.py:10-12` says after).
* A spent or expired link answers 400 and not 410
  (`openspec/specs/auth-flows/spec.md:39-48`).
* `clear_cache()` is to be called before a retry after the provider rotated its keys
  (`identity/auth/oauth.py:8-9`); nothing calls it.

*Browser.*

* "Auth/refresh endpoints intentionally surface 401"
  (`frontend/src/lib/api/client.ts:59`): only the refresh route does. A login with a
  wrong password goes through `recoverFrom401` first, which may refresh an older
  session or sign the tab out.
* Logging out clears the store even if the request failed
  (`frontend/src/components/layout/UserMenu.tsx:30`): the session and the cookie live on,
  and the next page load signs in again.
* A refresh that answers after a log-out sets its access token again.
* A new access token does not change the store's current actor: after a log-in elsewhere
  the tab may show one actor and act as another.

*Tenancy.*

* A removed member may keep, or get, project capabilities
  (`openspec/specs/multi-tenancy/spec.md:58`), and any active capability makes
  `tenant_context` treat the actor as a guest. `OutsiderHoldsNoOrgGrant` holds.
* Two concurrent role changes leave two primary bundles (`authz/bundles.py:127-128`), and
  the role is that of one of them.
* A member's role is "the denormalised display name of the actor's primary capability
  bundle" (`tenants/models.py:4-6`). A removal that overlaps another one of the same member
  finds the row gone at `tenants/service.py:582` and goes on; if the actor accepts a new
  invitation before its UPDATE starts (584-590), that revokes the new bundle and leaves a
  listed member without any capability. `OnlyMissedRemovalStrips` holds: nothing else does.
* A project can be visible without all its grants (`tenants/service.py:710-712`), and be
  created in an organisation that was deleted during the request: nothing in
  `ProjectService.create` reads the organisation.
* `change_role` does not refuse `compliance_officer` (`tenants/service.py:504-506`);
  `get_org` admits guests (`openspec/specs/authorization/spec.md:64`); the capability
  cache of that specification (84-104) does not exist.
* The e-mail of an invitation is said to be compared at the route
  (`tenants/service.py:381-384`); the route does not (`api/orgs.py:323-336`).
* `list` of shares asks for the organisation as defence in depth
  (`tenants/service.py:1110-1114`); `revoke` takes the id of a share alone.
* The list of a member who is removed during the request may show a project created
  after the removal. `ShownWasAllowed`, which speaks of the time of the request, holds.

*Audit and keys.*

* "A compliance read can reconstruct re-branding history"
  (`tenants/service.py:151-152`): the rows of two updates that overlap both name the
  theme before either, so the second's change from the first's theme is in no row.
  `TrailMatchesState` holds.
* "Re-running the same filter is a no-op"
  (`requirements/decisions/ADR-010_audit-log-shape.md:243`),
  and the receipt is "NOT scrubbed" (line 247): a receipt may match the filter of the
  next scrub, which then erases and counts it.
* Runbook step 2, "both keys verify" (`docs/runbooks/rotate-jwt-keys.md:32`): a process
  that has read its ring does not see the new key until it restarts. Step 6, "older
  tokens should now fail" (line 40): processes that run keep the old key. The rollback
  (lines 44-46) drops the new key without a wait, so tokens signed with it fail at
  processes that start then.
* A log-out at a process that does not know the token's kid leaves the family alive.
* `JWT_PUBLIC_KEYS_JSON` (`openspec/specs/session-tokens/spec.md:17`) does not exist: the
  ring is read from a directory.

## 6. Plan

Done, in this order: `RefreshFamilies` with `SessionChains`, `Tenancy`, `ProjectShares`,
`AuthFlows` composed with `RefreshFamilies`, `BrowserTabs` with liveness, `AuditTrail`
with `AuditLedger`, `KeyRotation`, `TenantRequests`, each with its proofs.

Left:

1. The OAuth exchange: the state cookie, PKCE and the cached provider keys through a
   provider's rotation.
2. Pages as actors of `AuthFlows`, so that `BrowserTabs` meets a server with two stores
   and not the abstract chains; as a theorem, that the browser's server steps are steps
   of `SessionChains`.
3. A refinement between the gate of `Tenancy` and the statements of `TenantRequests`.

Liveness needs `ENABLED` and stays with TLC. Slugs are a loop around a regular expression
and a unique index, which unit tests reach.

## 7. Not modelled

* *Platform administration*: one route that reads the caller's own name behind a flag of
  `actors` that no route sets.
* *Slugs, themes' contents, e-mail delivery, seeds, configuration*: no protocol.
* *Row-level security* beyond the policies of `projects` and `capabilities`
  (`TenantRequests`): the other policies have the same form, and the tenant services write
  in `migrator` sessions, which bypass them all.
* *Pools as a limited resource*: a request waits for a connection of the application's
  pool with its first query and holds none of it while it waits; nothing in a `migrator`
  session waits for that pool.
* *The audit mixin and the diff's redaction*: which fields a row names. `AuditTrail` has
  the rows and the order in which they come.
* *The OAuth exchange*: providers are remote; what the code does with their answers is in
  `AuthFlows`, the state cookie's key in `KeyRotation`.
* *Cryptography*: password hashes, JWT signatures and token digests are taken as
  unforgeable; a token is the value that was issued.
* *Pages and components, the generated API client*: they render, and call what
  `BrowserTabs` has.
