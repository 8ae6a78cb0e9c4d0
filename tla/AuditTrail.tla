----------------------------- MODULE AuditTrail -----------------------------
(***************************************************************************)
(* The audit log and the transactions that write it: changes to an         *)
(* organisation (OrganisationService.update_theme and soft_delete, which   *)
(* stand for every service method that mutates a row and calls             *)
(* audit.record before its session commits) and the GDPR scrub             *)
(* (AuditScrubService.scrub).                                              *)
(*                                                                         *)
(* Every transaction runs in a migrator session at READ COMMITTED.  Its    *)
(* first statement reads; the UPDATE of the organisation waits for the row *)
(* lock of another one; the audit row is added to the same session and     *)
(* appears with the commit.  The scrub is one UPDATE: it picks the rows    *)
(* its snapshot shows, locks them one by one in any order, and looks at a  *)
(* row again once the transaction that held it has ended.                  *)
(*                                                                         *)
(* Left out: what soft_delete does to the capabilities (Tenancy), a dry    *)
(* run, which counts and changes nothing, and the columns no property      *)
(* tells apart (entity, intent hash, actor type, redaction of the diff).   *)
(***************************************************************************)
EXTENDS Naturals, Sequences, FiniteSets

CONSTANTS
    Orgs,
    Actors,     \* who may act; the actor_id of a row
    Admins,     \* those for whom can(admin, organisation) answers yes
    Dpos,       \* those for whom can(scrub, audit_log) answers yes
    IPs,        \* addresses; the ip stands for all four PII keys of a row, which
                \* the intent of a request carries and a scrub rewrites together
    Clients,    \* who sends requests, and from where
    Themes,
    NewTheme,   \* the theme an organisation starts with
    Filters,    \* the filters scrubs are asked with
    NoValue,    \* a filter field that is not set
    Scrubbed,   \* SCRUBBED_GDPR_LITERAL
    NoFilter,   \* in rows that are not receipts of a scrub
    NoRow,      \* of a transaction that is not running
    MaxTx       \* bound: transactions that ever start

Filter == [actor : Actors \cup {NoValue}, ip : IPs \cup {NoValue},
           since : 0..MaxTx, until : 0..MaxTx]

\* ScrubFilter.is_empty: 0 and NoValue are the unset values.
IsEmpty(f) == /\ f.actor = NoValue
              /\ f.ip = NoValue
              /\ f.since = 0
              /\ f.until = 0

VARIABLES
    org,        \* org[o]: the committed row of the organisation
    log,        \* audit_log, in the order of the commits
    tx,         \* tx[t]: the t-th transaction to start
    clock,      \* how many have started; NOW() in the t-th is t
    scrubs      \* history, which no code keeps: scrubs[t] is what the UPDATE of
                \* the committed scrub t could see and what it rewrote

vars == <<org, log, tx, clock, scrubs>>

Txs == 1..MaxTx
Acts == {"update", "delete", "scrub"}

Row == [at : Txs, act : Acts, org : Orgs, who : Actors, ip : IPs \cup {Scrubbed},
        before : Themes, after : Themes,          \* diff of an update
        filter : Filters \cup {NoFilter},         \* diff of a scrub
        count : Nat]                              \* its rows_scrubbed

ASSUME AuditTrailAssumption ==
    /\ Admins \cup Dpos \subseteq Actors
    /\ Clients \subseteq [who : Actors, ip : IPs]
    /\ NewTheme \in Themes
    /\ Filters \subseteq Filter
    /\ MaxTx \in Nat
    /\ Scrubbed \notin IPs \cup {NoValue}
    /\ NoValue \notin Actors \cup IPs
    /\ NoFilter \notin Filters
    /\ NoRow \notin Row

Tx == [pc : {"unborn", "read", "wrote", "sweep", "over"},
       row : Row \cup {NoRow},   \* the audit row it is going to commit
       snap : Nat,               \* rows of the log its snapshot shows
       todo : SUBSET Nat,        \* rows of its snapshot a scrub has yet to visit
       marks : SUBSET Nat]       \* rows it has locked and rewritten

-----------------------------------------------------------------------------
(* Rows                                                                     *)

\* The row record(...) builds for the request of actor a at address p: org_id,
\* actor and intent come from the request, the rest from the caller.
RowOf(t, act, o, a, p, before, after) ==
    [at |-> t, act |-> act, org |-> o, who |-> a, ip |-> p,
     before |-> before, after |-> after,
     filter |-> NoFilter, count |-> 0]

\* The row of a scrub; its count is only known once the UPDATE has ended.
Receipt(t, o, a, p, f) ==
    [RowOf(t, "scrub", o, a, p, NewTheme, NewTheme) EXCEPT !.filter = f]

Unscrubbed(row) == row.ip # Scrubbed

\* _filter_clauses: the set fields are ANDed.
Filtered(row, f) ==
    /\ f.actor = NoValue \/ row.who = f.actor
    /\ f.ip = NoValue \/ row.ip = f.ip
    /\ f.since = 0 \/ row.at >= f.since
    /\ f.until = 0 \/ row.at <= f.until

\* A slip: the scrub is not confined to the organisation.
MatchesAnyOrg(receipt, row) == Filtered(row, receipt.filter) /\ Unscrubbed(row)

\* The WHERE clause of the scrub that leaves this receipt.
Matches(receipt, row) ==
    /\ row.org = receipt.org
    /\ Filtered(row, receipt.filter)
    /\ Unscrubbed(row)

-----------------------------------------------------------------------------

Active(t) == tx[t].pc \in {"read", "wrote", "sweep"}

\* The transactions a row lock of the organisation / of an audit row is held by.
OrgHolders(o) == {u \in Txs : tx[u].pc = "wrote" /\ tx[u].row.org = o}
RowHolders(i) == {u \in Txs : tx[u].pc = "sweep" /\ i \in tx[u].marks}

Starts(t, pc, row, todo) ==
    /\ t \in Txs
    /\ clock' = t
    /\ tx' = [tx EXCEPT ![t] = [pc |-> pc, row |-> row, snap |-> Len(log),
                               todo |-> todo, marks |-> {}]]

Rest(pc) == [pc |-> pc, row |-> NoRow, snap |-> 0, todo |-> {}, marks |-> {}]

Over(t) == tx' = [tx EXCEPT ![t] = Rest("over")]

-----------------------------------------------------------------------------
(* update_theme and soft_delete                                             *)

\* db.get(Organisation): a deleted one is OrgNotFoundError.  The theme read
\* here is the "before" of the diff.
StartTheme(o, a, p, new) ==
    /\ a \in Admins
    /\ ~org[o].deleted
    /\ Starts(clock + 1, "read",
              RowOf(clock + 1, "update", o, a, p, org[o].theme, new), {})
    /\ UNCHANGED <<org, log, scrubs>>

StartDelete(o, a, p) ==
    /\ a \in Admins
    /\ ~org[o].deleted
    /\ Starts(clock + 1, "read",
              RowOf(clock + 1, "delete", o, a, p, NewTheme, NewTheme), {})
    /\ UNCHANGED <<org, log, scrubs>>

\* SQLAlchemy issues no UPDATE for a column that is set to the value it read.
NoWrite(row) == row.act = "update" /\ row.before = row.after

\* The flush: UPDATE organisations waits for the lock of another transaction.
Write(t) ==
    /\ tx[t].pc = "read"
    /\ ~NoWrite(tx[t].row)
    /\ OrgHolders(tx[t].row.org) = {}
    /\ tx' = [tx EXCEPT ![t].pc = "wrote"]
    /\ UNCHANGED <<org, log, clock, scrubs>>

\* The UPDATE goes by primary key alone: it lands on a deleted row too.
Landed(row) ==
    [org EXCEPT ![row.org] =
        [theme |-> IF row.act = "update" /\ ~NoWrite(row) THEN row.after ELSE @.theme,
         deleted |-> @.deleted \/ row.act = "delete"]]

\* The mutation and its audit row appear together.
Commit(t) ==
    /\ tx[t].pc = "wrote" \/ (tx[t].pc = "read" /\ NoWrite(tx[t].row))
    /\ org' = Landed(tx[t].row)
    /\ log' = Append(log, tx[t].row)
    /\ Over(t)
    /\ UNCHANGED <<clock, scrubs>>

-----------------------------------------------------------------------------
(* AuditScrubService.scrub                                                  *)

\* The request was admitted (tenant_context, can) in transactions of its own,
\* so the organisation may be deleted by now.  An empty filter is refused.
StartScrub(o, a, p, f) ==
    /\ a \in Dpos
    /\ ~IsEmpty(f)
    /\ LET receipt == Receipt(clock + 1, o, a, p, f) IN
       Starts(clock + 1, "sweep", receipt,
              {i \in 1..Len(log) : Matches(receipt, log[i])})
    /\ UNCHANGED <<org, log, scrubs>>

\* A slip: the rows of the snapshot are rewritten and counted as they were.
SweepBlind(t, i) ==
    /\ tx[t].pc = "sweep"
    /\ i \in tx[t].todo
    /\ RowHolders(i) = {}
    /\ tx' = [tx EXCEPT ![t] = [@ EXCEPT !.todo = @ \ {i}, !.marks = @ \cup {i}]]
    /\ UNCHANGED <<org, log, clock, scrubs>>

\* A slip: a row another scrub holds is left to it (SKIP LOCKED).
SweepSkipsLocked(t, i) ==
    /\ tx[t].pc = "sweep"
    /\ i \in tx[t].todo
    /\ tx' = [tx EXCEPT ![t] =
                [@ EXCEPT !.todo = @ \ {i},
                          !.marks = IF RowHolders(i) = {} /\ Matches(tx[t].row, log[i])
                                    THEN @ \cup {i} ELSE @]]
    /\ UNCHANGED <<org, log, clock, scrubs>>

\* The UPDATE reaches row i: nobody else holds it, and its WHERE clause is
\* evaluated again on the row as it is committed now.
Sweep(t, i) ==
    /\ tx[t].pc = "sweep"
    /\ i \in tx[t].todo
    /\ RowHolders(i) = {}
    /\ tx' = [tx EXCEPT ![t] =
                [@ EXCEPT !.todo = tx[t].todo \ {i},
                          !.marks = IF Matches(tx[t].row, log[i])
                                    THEN tx[t].marks \cup {i} ELSE tx[t].marks]]
    /\ UNCHANGED <<org, log, clock, scrubs>>

\* A slip: the PII keys are nulled, not replaced by the literal.
EraseToNull(S) ==
    [i \in 1..Len(log) |-> IF i \in S THEN [log[i] EXCEPT !.ip = NoValue] ELSE log[i]]

\* jsonb_set overwrites the PII keys of the rows and nothing else.
Erase(S) ==
    [i \in 1..Len(log) |->
        IF i \in S THEN [log[i] EXCEPT !.ip = Scrubbed] ELSE log[i]]

\* rowcount goes into the receipt; UPDATE and receipt commit together.
CommitScrub(t) ==
    /\ tx[t].pc = "sweep"
    /\ tx[t].todo = {}
    /\ log' = Append(Erase(tx[t].marks),
                     [tx[t].row EXCEPT !.count = Cardinality(tx[t].marks)])
    /\ scrubs' = [scrubs EXCEPT ![t] = [saw |-> tx[t].snap, erased |-> tx[t].marks]]
    /\ Over(t)
    /\ UNCHANGED <<org, clock>>

\* A slip: the audit row is written by a session of its own.
FailLeavesRow(t) ==
    /\ Active(t)
    /\ log' = IF tx[t].pc = "wrote" THEN Append(log, tx[t].row) ELSE log
    /\ Over(t)
    /\ UNCHANGED <<org, clock, scrubs>>

\* Any error, a lost connection, a deadlock's victim: the session rolls back.
Fail(t) ==
    /\ Active(t)
    /\ Over(t)
    /\ UNCHANGED <<org, log, clock, scrubs>>

-----------------------------------------------------------------------------

Init ==
    /\ org = [o \in Orgs |-> [theme |-> NewTheme, deleted |-> FALSE]]
    /\ log = <<>>
    /\ clock = 0
    /\ tx = [t \in Txs |-> Rest("unborn")]
    /\ scrubs = [t \in Txs |-> [saw |-> 0, erased |-> {}]]

Next ==
    \/ \E o \in Orgs, c \in Clients :
         \/ StartDelete(o, c.who, c.ip)
         \/ \E new \in Themes : StartTheme(o, c.who, c.ip, new)
         \/ \E f \in Filters : StartScrub(o, c.who, c.ip, f)
    \/ \E t \in Txs :
         \/ Write(t)
         \/ Commit(t)
         \/ \E i \in tx[t].todo : Sweep(t, i)
         \/ CommitScrub(t)
         \/ Fail(t)

Spec == Init /\ [][Next]_vars

-----------------------------------------------------------------------------
(* Properties                                                               *)

TypeOK ==
    /\ org \in [Orgs -> [theme : Themes, deleted : BOOLEAN]]
    /\ log \in Seq(Row)
    /\ tx \in [Txs -> Tx]
    /\ clock \in 0..MaxTx
    /\ scrubs \in [Txs -> [saw : Nat, erased : SUBSET Nat]]

Receipts == {i \in 1..Len(log) : log[i].act = "scrub"}
Changes(o) == {i \in 1..Len(log) : /\ log[i].org = o
                                  /\ log[i].act = "update"
                                  /\ log[i].before # log[i].after}

\* "the side effect and its audit trail commit or roll back together"
\* (openspec/specs/audit/spec.md:8): the log accounts for the state of every
\* organisation, whatever interleaves, fails or overwrites.  The last change
\* the log tells of is the theme in force, and an organisation is deleted
\* exactly when a row says so.  (A row whose before and after are equal is
\* left by an update that wrote nothing; it may follow a change it missed.)
TrailMatchesState ==
    \A o \in Orgs :
        /\ Changes(o) = {} => org[o].theme = NewTheme
        /\ \A i \in Changes(o) :
              (\A j \in Changes(o) : j <= i) => org[o].theme = log[i].after
        /\ org[o].deleted <=>
              \E i \in 1..Len(log) : log[i].org = o /\ log[i].act = "delete"

\* The rows the scrub with receipt m could see, and those it rewrote.
SeenBy(m) == 1..scrubs[log[m].at].saw
ErasedBy(m) == scrubs[log[m].at].erased

\* Overlapping scrubs share the work and count it once: each receipt counts
\* the rows its scrub rewrote, no row was rewritten by two scrubs, and the rows
\* whose personal data is gone are those that some committed scrub rewrote.
\* So the receipts add up to the erased rows, also when scrubs wait for each
\* other's row locks or roll back half-way (audit/scrub.py:171-177).
EachErasureCountedOnce ==
    /\ \A m \in Receipts : log[m].count = Cardinality(ErasedBy(m))
    /\ \A m, n \in Receipts : m # n => ErasedBy(m) \cap ErasedBy(n) = {}
    /\ \A i \in 1..Len(log) :
          ~Unscrubbed(log[i]) <=> \E m \in Receipts : i \in ErasedBy(m)

\* Once a scrub has its receipt, no row its UPDATE could see matches it any
\* more, even one another scrub held at the time and then gave up.
ScrubReaches ==
    \A m \in Receipts : \A i \in SeenBy(m) : ~Matches(log[m], log[i])

\* What a receipt says its scrub was allowed to touch.
Covers(receipt, row) == row.org = receipt.org /\ Filtered(row, receipt.filter)

Ledger == INSTANCE AuditLedger WITH
    ledger <- log, Rows <- Row, Erased <- Scrubbed, Covers <- Covers

\* The append-only ledger of ADR-010: rows are "immortal", "structural columns"
\* are "NEVER touched" (audit/scrub.py:9-12), and a scrub erases within its
\* organisation and filter or not at all, with its receipt.
LedgerSpec == Ledger!Spec
=============================================================================
