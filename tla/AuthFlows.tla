------------------------------ MODULE AuthFlows ------------------------------
(***************************************************************************)
(* The flows of identity/service.py as requests: each is one Postgres      *)
(* transaction with Redis steps in its middle.  The Redis steps are those  *)
(* of RefreshFamilies, taken together with a step of the request.          *)
(*                                                                         *)
(* A request answers before it commits: the session dependency of          *)
(* identity/middleware.py is closed after the response was sent (FastAPI   *)
(* 0.136, backend/uv.lock).  What it wrote is locked, and invisible to     *)
(* others, until Commit; Rollback undoes it, and nothing of Redis.         *)
(***************************************************************************)
EXTENDS Naturals

CONSTANTS
    Actors,      \* uuid7 actor ids ...
    Email,       \* ... and the address each would be registered with
    Passwords,
    Links,       \* magic-link tokens
    Families, Jtis,
    Txs,         \* requests that may be in flight together
    None,
    RefreshTTL, Horizon

VARIABLES        \* of RefreshFamilies
    now, fam, index, encoding, jwts, sweep,
    startedAt, accepted, burned, lost, promised

VARIABLES
    users,       \* rows of actors, users and oauth_identities; None without
    links,       \* rows of magic_link_tokens
    tx           \* the open requests

VARIABLES        \* history; FreshActor alone reads it
    opened,      \* for whom and with what each family was opened
    raced,       \* families a login opened while the password was changing
    orphaned     \* families whose request did not commit

Redis == INSTANCE RefreshFamilies WITH Sweeps <- Txs

redis == <<now, fam, index, encoding, jwts, sweep,
           startedAt, accepted, burned, lost, promised>>
postgres == <<users, links>>
history == <<opened, raced, orphaned>>
vars == <<redis, postgres, tx, history>>

Account == [password : Passwords \cup {None}, verified : BOOLEAN,
            linked : BOOLEAN,     \* has a row in oauth_identities
            deleted : BOOLEAN]    \* actors.deleted_at
Purposes == {"verify", "login", "reset"}
Link == [purpose : Purposes, actor : Actors, consumed : BOOLEAN,
         expired : BOOLEAN]
Kinds == {"password", "magic", "oauth", "refresh", "reset"}
Phases == {"spent", "checked", "started", "sweeping", "answered"}
Transaction == [kind : Kinds, phase : Phases, actor : Actors,
                link : Links \cup {None}, password : Passwords \cup {None},
                ticket : Redis!Ticket \cup {None}]
Opening == [actor : Actors, link : Links \cup {None},
            password : Passwords \cup {None}]

ASSUME EmailAssumption == DOMAIN Email = Actors
ASSUME TimeAssumption == RefreshTTL \in Nat \ {0} /\ Horizon \in Nat
ASSUME NoneAssumption ==
    /\ None \notin Redis!FamilyHash \cup Redis!SweepCall \cup Redis!Ticket
    /\ None \notin Nat \cup Jtis \cup Links \cup Passwords
    /\ None \notin Account \cup Link \cup Transaction \cup Opening

TypeOK ==
    /\ Redis!TypeOK
    /\ users \in [Actors -> Account \cup {None}]
    /\ links \in [Links -> Link \cup {None}]
    /\ tx \in [Txs -> Transaction \cup {None}]
    /\ opened \in [Families -> Opening \cup {None}]
    /\ raced \subseteq Families
    /\ orphaned \subseteq Families

-----------------------------------------------------------------------------
Request(kind, phase, a) ==
    [kind |-> kind, phase |-> phase, actor |-> a, link |-> None,
     password |-> None, ticket |-> None]

InPhase(t, kinds, phase) ==
    tx[t] # None /\ tx[t].kind \in kinds /\ tx[t].phase = phase

Active(a) == users[a] # None /\ ~users[a].deleted

\* uuid7: no account, request or session has the id.
FreshActor(a) ==
    /\ users[a] = None
    /\ \A t \in Txs : tx[t] # None => tx[t].actor # a
    /\ \A f \in Families : opened[f] # None => opened[f].actor # a

\* An open complete_oauth that inserted the actor it works for.
Inserts(x) == x.kind = "oauth" /\ users[x.actor] = None

\* The unique index on users.email: no row has the address, and no open
\* request has inserted it.
EmailFree(a) ==
    /\ \A b \in Actors : users[b] # None => Email[b] # Email[a]
    /\ \A t \in Txs : tx[t] # None /\ Inserts(tx[t]) =>
                         Email[tx[t].actor] # Email[a]

\* No open request updated the row of users: to verify the address, or to reset
\* the password.
UserFree(a) ==
    \A t \in Txs : tx[t] # None /\ tx[t].actor = a /\ tx[t].phase # "spent" =>
        /\ tx[t].kind # "reset"
        /\ tx[t].kind = "magic" => users[a].verified

\* A slip: the link is looked up (find_active), and marked by no lock.
RedeemableUnlocked(l, purpose) ==
    /\ links[l] # None
    /\ links[l].purpose = purpose
    /\ ~links[l].consumed /\ ~links[l].expired

\* consume, UPDATE ... WHERE purpose, consumed_at IS NULL, expires_at > now: the
\* row matches, and no open request consumed it.
Redeemable(l, purpose) ==
    /\ links[l] # None
    /\ links[l].purpose = purpose
    /\ ~links[l].consumed /\ ~links[l].expired
    /\ \A t \in Txs : tx[t] # None => tx[t].link # l

Init ==
    /\ Redis!Init
    /\ users = [a \in Actors |-> None]
    /\ links = [l \in Links |-> None]
    /\ tx = [t \in Txs |-> None]
    /\ opened = [f \in Families |-> None]
    /\ raced = {}
    /\ orphaned = {}

-----------------------------------------------------------------------------
\* Requests that do nothing in Redis are one step, their COMMIT: until then they
\* hold rows others wait for, which is as if they had not begun.  What they read
\* before (that an account is there and not deleted) never comes back.

\* register_user: actor, user and verification link.
Register(a, l, p) ==
    /\ FreshActor(a) /\ EmailFree(a)
    /\ links[l] = None
    /\ users' = [users EXCEPT ![a] = [password |-> p, verified |-> FALSE,
                                      linked |-> FALSE, deleted |-> FALSE]]
    /\ links' = [links EXCEPT ![l] = [purpose |-> "verify", actor |-> a,
                                      consumed |-> FALSE, expired |-> FALSE]]
    /\ UNCHANGED <<redis, tx, history>>

\* request_magic_link and request_password_reset differ in the purpose.  Earlier
\* links stay good.
RequestLink(a, l, purpose) ==
    /\ Active(a)
    /\ links[l] = None
    /\ links' = [links EXCEPT ![l] = [purpose |-> purpose, actor |-> a,
                                      consumed |-> FALSE, expired |-> FALSE]]
    /\ UNCHANGED <<redis, users, tx, history>>

\* The clock passes expires_at, for every request still to test it (each takes
\* its `now` when it starts).  Only the expiry of an unspent link can be told.
ExpireLink(l) ==
    /\ links[l] # None /\ ~links[l].consumed /\ ~links[l].expired
    /\ links' = [links EXCEPT ![l].expired = TRUE]
    /\ UNCHANGED <<redis, users, tx, history>>

\* verify_email: the link is consumed, the address verified; deleted_at is not
\* read.
VerifyEmail(l) ==
    /\ Redeemable(l, "verify")
    /\ UserFree(links[l].actor)
    /\ users' = [users EXCEPT ![links[l].actor].verified = TRUE]
    /\ links' = [links EXCEPT ![l].consumed = TRUE]
    /\ UNCHANGED <<redis, tx, history>>

\* An operator sets actors.deleted_at; the application only reads it.
Disable(a) ==
    /\ Active(a)
    /\ users' = [users EXCEPT ![a].deleted = TRUE]
    /\ UNCHANGED <<redis, links, tx, history>>

-----------------------------------------------------------------------------
\* The logins: what they read and write before _issue_tokens.  Accounts stay
\* deleted and identities linked, so that a read of them may be taken together
\* with the read before it.
Open(t, record) ==
    /\ tx[t] = None
    /\ tx' = [tx EXCEPT ![t] = record]
    /\ UNCHANGED <<redis, postgres, history>>

\* login_with_password: the row of users, with the hash to compare, then the
\* actor's.
LoginPassword(t, a, p) ==
    /\ Active(a)
    /\ users[a].password = p
    /\ users[a].verified
    /\ Open(t, [Request("password", "checked", a) EXCEPT !.password = p])

\* Inside a request, with nothing told to Redis.
Advance(t, phase) ==
    /\ tx' = [tx EXCEPT ![t].phase = phase]
    /\ UNCHANGED <<redis, postgres, history>>

\* login_with_magic_link consumes the link, ...
LoginMagicLink(t, l) ==
    /\ Redeemable(l, "login")
    /\ Open(t, [Request("magic", "spent", links[l].actor) EXCEPT !.link = l])

\* ... finds an actor who is not deleted, and verifies the address if it is not
\* (if another request does so meanwhile, it is written once more).
MagicUser(t) ==
    /\ InPhase(t, {"magic"}, "spent")
    /\ Active(tx[t].actor)
    /\ users[tx[t].actor].verified \/ UserFree(tx[t].actor)
    /\ Advance(t, "checked")

\* complete_oauth, the identity is known, and its actor not deleted.
OAuthLinked(t, a) ==
    /\ Active(a) /\ users[a].linked
    /\ Open(t, Request("oauth", "checked", a))

\* A slip: the address is looked up, and inserted under no unique index.
OAuthFirstUnchecked(t, a) ==
    /\ FreshActor(a)
    /\ \A b \in Actors : users[b] # None => Email[b] # Email[a]
    /\ Open(t, Request("oauth", "checked", a))

\* complete_oauth, neither the identity nor the address is: actor, user and
\* identity are inserted.  (With the address known it raises.)
OAuthFirst(t, a) ==
    /\ FreshActor(a) /\ EmailFree(a)
    /\ Open(t, Request("oauth", "checked", a))

\* A password reset of a is past the SMEMBERS of its sweep and not committed.
Resetting(a) ==
    \E u \in Txs : /\ tx[u] # None /\ tx[u].kind = "reset" /\ tx[u].actor = a
                   /\ tx[u].phase \notin {"spent", "checked"}

\* _issue_tokens, start_family.
IssueTokens(t, f, j) ==
    /\ InPhase(t, {"password", "magic", "oauth"}, "checked")
    /\ LET a == tx[t].actor IN
       /\ Redis!StartFamily(a, f, j)
       /\ tx' = [tx EXCEPT ![t] =
                   [@ EXCEPT !.phase = "started",
                             !.ticket = [family |-> f, jti |-> j, actor |-> a]]]
       /\ opened' = [opened EXCEPT ![f] =
                        [actor |-> a, link |-> tx[t].link,
                         password |-> tx[t].password]]
       /\ raced' = IF tx[t].kind = "password"
                      /\ (Resetting(a) \/ users[a].password # tx[t].password)
                     THEN raced \cup {f} ELSE raced
    /\ UNCHANGED <<postgres, orphaned>>

\* refresh_session, rotate accepted.
RefreshRotate(t, k, j) ==
    /\ tx[t] = None
    /\ Redis!RotateAccepted(k, j)
    /\ tx' = [tx EXCEPT ![t] =
                 [Request("refresh", "started", k.actor) EXCEPT
                     !.ticket = [family |-> k.family, jti |-> j,
                                 actor |-> k.actor]]]
    /\ UNCHANGED <<postgres, history>>

\* refresh_session, rotate found a superseded id.
RefreshReused(k) == Redis!RotateReused(k) /\ UNCHANGED <<postgres, tx, history>>

\* A slip: the hash is deleted and the actor's set is not told.
LogoutHashOnly(k) ==
    /\ Redis!Decodes(k)
    /\ fam' = [fam EXCEPT ![k.family] = None]
    /\ UNCHANGED <<now, index, encoding, jwts, sweep, startedAt, accepted, burned,
                   lost, promised, postgres, tx, history>>

\* logout.
Logout(k) == Redis!RevokeFamily(k) /\ UNCHANGED <<postgres, tx, history>>

\* _issue_tokens encodes the tokens, and the login answers.  One that wrote
\* nothing is over.
Answer(t) ==
    /\ InPhase(t, {"password", "magic", "oauth"}, "started")
    /\ Redis!EncodeRefresh(tx[t].ticket)
    /\ tx' = [tx EXCEPT ![t] =
                 IF tx[t].kind = "magic" \/ Inserts(tx[t])
                   THEN [tx[t] EXCEPT !.phase = "answered"]
                   ELSE None]
    /\ UNCHANGED <<postgres, history>>

\* refresh_session reads the actor after the rotation, and then encodes.
RefreshAnswer(t) ==
    /\ InPhase(t, {"refresh"}, "started")
    /\ Active(tx[t].actor)
    /\ Redis!EncodeRefresh(tx[t].ticket)
    /\ tx' = [tx EXCEPT ![t] = None]
    /\ UNCHANGED <<postgres, history>>

-----------------------------------------------------------------------------
\* complete_password_reset consumes the link, ...
ResetLink(t, l, p) ==
    /\ Redeemable(l, "reset")
    /\ Open(t, [Request("reset", "spent", links[l].actor) EXCEPT
                   !.link = l, !.password = p])

\* ... writes the hash (deleted_at is not read), ...
ResetUser(t) ==
    /\ InPhase(t, {"reset"}, "spent")
    /\ UserFree(tx[t].actor)
    /\ Advance(t, "checked")

\* A slip: the sessions are left to run out.
ResetReadSkipsSweep(t) ==
    /\ InPhase(t, {"reset"}, "checked")
    /\ Advance(t, "answered")

\* ... then revoke_all_for_actor, SMEMBERS ...
ResetRead(t) ==
    /\ InPhase(t, {"reset"}, "checked")
    /\ Redis!RevokeAllRead(t, tx[t].actor)
    /\ tx' = [tx EXCEPT ![t].phase =
                 IF Redis!Members(tx[t].actor) = {} THEN "answered"
                                                    ELSE "sweeping"]
    /\ UNCHANGED <<postgres, history>>

\* ... and its MULTI, after which it answers.
ResetDelete(t) ==
    /\ InPhase(t, {"reset"}, "sweeping")
    /\ Redis!RevokeAllDelete(t)
    /\ tx' = [tx EXCEPT ![t].phase = "answered"]
    /\ UNCHANGED <<postgres, history>>

-----------------------------------------------------------------------------
\* A slip: the provider's claim is stored as it came, or did not come.
NewAccountAsClaimed == [password |-> None, verified |-> None, linked |-> TRUE,
                        deleted |-> FALSE]

NewAccount == [password |-> None, verified |-> TRUE, linked |-> TRUE,
               deleted |-> FALSE]

\* A slip: the side effect is committed and the link is not spent.
CommitKeepsLink(t) ==
    /\ tx[t] # None /\ tx[t].phase = "answered"
    /\ LET x == tx[t] IN
       /\ users' = CASE x.kind = "oauth" -> [users EXCEPT ![x.actor] = NewAccount]
                     [] x.kind = "magic" ->
                           [users EXCEPT ![x.actor].verified = TRUE]
                     [] x.kind = "reset" ->
                           [users EXCEPT ![x.actor].password = x.password]
    /\ tx' = [tx EXCEPT ![t] = None]
    /\ UNCHANGED <<redis, links, history>>

Commit(t) ==
    /\ tx[t] # None /\ tx[t].phase = "answered"
    /\ LET x == tx[t] IN
       /\ users' = CASE x.kind = "oauth" -> [users EXCEPT ![x.actor] = NewAccount]
                     [] x.kind = "magic" ->
                           [users EXCEPT ![x.actor].verified = TRUE]
                     [] x.kind = "reset" ->
                           [users EXCEPT ![x.actor].password = x.password]
       /\ links' = IF x.link = None THEN links
                   ELSE [links EXCEPT ![x.link].consumed = TRUE]
    /\ tx' = [tx EXCEPT ![t] = None]
    /\ UNCHANGED <<redis, history>>

\* The database fails, the process dies, or refresh_session finds the actor
\* disabled: Redis keeps what it was told.
Rollback(t) ==
    /\ tx[t] # None
    /\ IF tx[t].phase = "started" THEN Redis!AbandonEncoding(tx[t].ticket)
       ELSE IF tx[t].phase = "sweeping" THEN Redis!RevokeAllDies(t)
       ELSE UNCHANGED redis
    /\ tx' = [tx EXCEPT ![t] = None]
    /\ orphaned' = IF tx[t].kind # "refresh" /\ tx[t].ticket # None
                     THEN orphaned \cup {tx[t].ticket.family} ELSE orphaned
    /\ UNCHANGED <<postgres, opened, raced>>

Step(t) ==
    \/ \E a \in Actors, p \in Passwords : LoginPassword(t, a, p)
    \/ \E l \in Links : LoginMagicLink(t, l)
    \/ MagicUser(t)
    \/ \E a \in Actors : OAuthLinked(t, a) \/ OAuthFirst(t, a)
    \/ \E f \in Families, j \in Jtis : IssueTokens(t, f, j)
    \/ \E k \in jwts, j \in Jtis : RefreshRotate(t, k, j)
    \/ Answer(t) \/ RefreshAnswer(t)
    \/ \E l \in Links, p \in Passwords : ResetLink(t, l, p)
    \/ ResetUser(t) \/ ResetRead(t) \/ ResetDelete(t)
    \/ Commit(t) \/ Rollback(t)

Next ==
    \/ \E a \in Actors, l \in Links :
          \/ \E p \in Passwords : Register(a, l, p)
          \/ \E purpose \in {"login", "reset"} : RequestLink(a, l, purpose)
    \/ \E l \in Links : ExpireLink(l) \/ VerifyEmail(l)
    \/ \E a \in Actors : Disable(a)
    \/ \E t \in Txs : Step(t)
    \/ \E k \in jwts : RefreshReused(k) \/ Logout(k)
    \/ Redis!Tick /\ UNCHANGED <<postgres, tx, history>>

Spec == Init /\ [][Next]_vars

-----------------------------------------------------------------------------
\* The flows use the refresh families as RefreshFamilies says they are used:
\* no request, also one that fails between its Redis steps, changes them in
\* another way, and all that is proved of RefreshFamilies holds of the flows
\* (identity/service.py, the calls of refresh_module).
UsesRefreshFamilies == Redis!Spec

\* What a password reset does end.  A live session was opened with the
\* password the account has now, unless the login overlapped the reset's sweep
\* or commit, or revoke_all_for_actor could not find the family: an overlapping
\* sweep had dropped it from the index, or it is older than the index
\* (complete_password_reset, login_with_password).
SessionOfOldPassword(f) ==
    /\ Redis!Live(f) /\ opened[f] # None /\ opened[f].password # None
    /\ users[opened[f].actor].password # opened[f].password

ResetEndsEarlierSessions ==
    \A f \in Families :
        SessionOfOldPassword(f) =>
            f \in raced \cup lost \/ startedAt[f] + RefreshTTL <= now

\* A login link opens one session, however many requests present it at once
\* and whichever of them fail: two families of one link mean that the request
\* of one of them did not commit (login_with_magic_link, consume).
LinkOpensOneSession ==
    \A f, g \in Families :
        /\ opened[f] # None /\ opened[g] # None
        /\ opened[f].link # None /\ opened[f].link = opened[g].link
        => f = g \/ f \in orphaned \/ g \in orphaned

\* "the database transaction sets consumed_at and applies the side effect
\* together" (openspec/specs/session-tokens/spec.md:80): an account's password
\* changes, and its address becomes verified, in the step that spends a link of
\* its own, and a spent link stays spent.
EffectsSpendLinks ==
    [][/\ \A a \in Actors :
             users[a] # None /\ (users'[a].password # users[a].password
                                 \/ users'[a].verified # users[a].verified) =>
                 \E l \in Links : /\ links[l] # None /\ links[l].actor = a
                                  /\ ~links[l].consumed /\ links'[l].consumed
       /\ \A l \in Links :
             links[l] # None /\ links[l].consumed => links'[l].consumed]_vars

\* An address belongs to one account, whether it registers or comes back from
\* a provider first, or both at once, and failures included (register_user,
\* complete_oauth, the unique index on users.email).
OneAccountPerEmail ==
    \A a, b \in Actors :
        users[a] # None /\ users[b] # None /\ Email[a] = Email[b] => a = b
=============================================================================
