-------------------------- MODULE AuditTrailProofs --------------------------
(***************************************************************************)
(* Proofs about AuditTrail, for every set of organisations, actors,        *)
(* addresses, themes and filters and any number of transactions.           *)
(*                                                                         *)
(* The invariant says of a running scrub what its row locks give it: the   *)
(* rows it has rewritten still match its filter when it commits, nobody    *)
(* else has rewritten them, and every row its snapshot showed either is    *)
(* among them, is still to be visited, or has stopped matching.            *)
(***************************************************************************)
EXTENDS AuditTrail, FiniteSetTheorems, TLAPS

Mutating(t) == /\ tx[t].row \in Row
               /\ tx[t].row.act \in {"update", "delete"}
               /\ tx[t].row.ip \in IPs

Sweeping(t) ==
    /\ tx[t].row \in Row
    /\ tx[t].row.act = "scrub"
    /\ tx[t].row.ip \in IPs
    /\ tx[t].snap <= Len(log)
    /\ tx[t].todo \subseteq 1..tx[t].snap
    /\ tx[t].marks \subseteq 1..tx[t].snap
    /\ \A i \in tx[t].marks : Matches(tx[t].row, log[i])
    /\ \A i \in 1..tx[t].snap :
          Matches(tx[t].row, log[i]) => i \in tx[t].todo \cup tx[t].marks

MutatingInv == \A t \in Txs : tx[t].pc \in {"read", "wrote"} => Mutating(t)
SweepInv == \A t \in Txs : tx[t].pc = "sweep" => Sweeping(t)
LocksInv == \A t, u \in Txs :
    t # u /\ tx[t].pc = "sweep" /\ tx[u].pc = "sweep"
      => tx[t].marks \cap tx[u].marks = {}

\* A transaction leaves one row at most, under its own time, and ends with it.
TimesInv ==
    /\ \A t \in Txs : tx[t].pc \in {"read", "wrote", "sweep"} => tx[t].row.at = t
    /\ \A t \in Txs : t > clock => tx[t].pc = "unborn"
    /\ \A i \in 1..Len(log) : tx[log[i].at].pc = "over"
    /\ \A i, j \in 1..Len(log) : log[i].at = log[j].at => i = j

\* A scrub saw, and rewrote, rows that were there before its receipt.
SeenInv == \A m \in Receipts : /\ scrubs[log[m].at].saw < m
                               /\ ErasedBy(m) \subseteq SeenBy(m)

IInv == /\ TypeOK
        /\ MutatingInv
        /\ SweepInv
        /\ LocksInv
        /\ TimesInv
        /\ SeenInv
        /\ ScrubReaches
        /\ EachErasureCountedOnce
        /\ TrailMatchesState

-----------------------------------------------------------------------------
(* Sequences of rows                                                        *)

\* Appending a row.
LEMMA Grown ==
    ASSUME NEW s \in Seq(Row), NEW r \in Row
    PROVE  /\ Append(s, r) \in Seq(Row)
           /\ Len(Append(s, r)) = Len(s) + 1
           /\ \A i \in 1..Len(s) : Append(s, r)[i] = s[i]
           /\ Append(s, r)[Len(s) + 1] = r
  OBVIOUS

\* What the UPDATE of a scrub does to the rows: their personal data goes, the
\* rest stays.
LEMMA Wiped ==
    ASSUME log \in Seq(Row), NEW S
    PROVE  /\ Erase(S) \in Seq(Row)
           /\ Len(Erase(S)) = Len(log)
           /\ \A i \in 1..Len(log) :
                /\ i \notin S => Erase(S)[i] = log[i]
                /\ i \in S => Erase(S)[i].ip = Scrubbed
                /\ Erase(S)[i].at = log[i].at
                /\ Erase(S)[i].act = log[i].act
                /\ Erase(S)[i].org = log[i].org
                /\ Erase(S)[i].who = log[i].who
                /\ Erase(S)[i].before = log[i].before
                /\ Erase(S)[i].after = log[i].after
                /\ Erase(S)[i].filter = log[i].filter
                /\ Erase(S)[i].count = log[i].count
  <1> DEFINE W(i) == [log[i] EXCEPT !.ip = Scrubbed]
  <1>1. ASSUME NEW i \in 1..Len(log)
        PROVE  /\ W(i) \in Row
               /\ W(i).ip = Scrubbed
               /\ W(i).at = log[i].at /\ W(i).act = log[i].act
               /\ W(i).org = log[i].org /\ W(i).who = log[i].who
               /\ W(i).before = log[i].before /\ W(i).after = log[i].after
               /\ W(i).filter = log[i].filter /\ W(i).count = log[i].count
    <2>1. log[i] \in Row
      OBVIOUS
    <2> QED BY <2>1 DEF Row
  <1> DEFINE E == [i \in 1..Len(log) |-> IF i \in S THEN W(i) ELSE log[i]]
  <1>2. Erase(S) = E
    BY DEF Erase
  <1> HIDE DEF W
  <1>3. E \in [1..Len(log) -> Row]
    BY <1>1
  <1>4. E \in Seq(Row) /\ Len(E) = Len(log)
    BY <1>3
  <1> QED BY <1>1, <1>2, <1>4

\* The rows of the log have their types.
LEMMA LogRows ==
    ASSUME TypeOK
    PROVE  /\ Len(log) \in Nat
           /\ \A i \in 1..Len(log) : log[i] \in Row /\ log[i].at \in Txs
  <1>1. log \in Seq(Row)
    BY DEF TypeOK
  <1>2. \A i \in 1..Len(log) : log[i] \in Row
    BY <1>1
  <1>3. \A row \in Row : row.at \in Txs
    BY DEF Row
  <1> QED BY <1>1, <1>2, <1>3

\* Rows that differ in nothing but lost personal data match no more than before.
LEMMA MatchesLess ==
    ASSUME NEW receipt, NEW row, NEW old,
           row.org = old.org, row.who = old.who, row.at = old.at,
           row.ip = old.ip \/ row.ip = Scrubbed,
           Matches(receipt, row)
    PROVE  Matches(receipt, old)
  BY DEF Matches, Filtered, Unscrubbed

-----------------------------------------------------------------------------
(* The invariant                                                            *)

\* Nothing has started.
LEMMA InitInv == Init => IInv
  <1> SUFFICES ASSUME Init PROVE IInv
    OBVIOUS
  <1> USE AuditTrailAssumption
  <1>1. Len(log) = 0 /\ 1..Len(log) = {}
    BY DEF Init
  <1>2. TypeOK
    BY DEF Init, TypeOK, Rest, Tx, Txs
  <1>3. MutatingInv /\ SweepInv /\ LocksInv
    BY DEF Init, MutatingInv, SweepInv, LocksInv, Rest, Txs
  <1>4. SeenInv /\ ScrubReaches /\ EachErasureCountedOnce
    BY <1>1 DEF SeenInv, ScrubReaches, EachErasureCountedOnce, Receipts
  <1>6. TimesInv
    BY <1>1 DEF Init, TimesInv, Rest, Txs
  <1>5. TrailMatchesState
    BY <1>1 DEF Init, TrailMatchesState, Changes
  <1> QED BY <1>2, <1>3, <1>4, <1>5, <1>6 DEF IInv

\* What the log and the organisations alone say survives a step that leaves them.
LEMMA QuietLog ==
    ASSUME IInv, UNCHANGED <<org, log, scrubs>>
    PROVE  /\ SeenInv' /\ ScrubReaches'
           /\ EachErasureCountedOnce' /\ TrailMatchesState'
  <1>1. SeenInv' /\ ScrubReaches'
    BY DEF IInv, SeenInv, ScrubReaches, Receipts, SeenBy, ErasedBy,
           Matches, Filtered, Unscrubbed
  <1>3. EachErasureCountedOnce'
    BY DEF IInv, EachErasureCountedOnce, Receipts, ErasedBy, Unscrubbed
  <1>2. TrailMatchesState'
    BY DEF IInv, TrailMatchesState, Changes
  <1> QED BY <1>1, <1>2, <1>3

\* A transaction starts.
LEMMA StartsInv ==
    ASSUME IInv, UNCHANGED <<org, log, scrubs>>,
           NEW pc \in {"read", "sweep"}, NEW row \in Row, NEW todo \in SUBSET Nat,
           Starts(clock + 1, pc, row, todo),
           row.ip \in IPs, row.at = clock + 1,
           pc = "read" => row.act \in {"update", "delete"},
           pc = "sweep" => /\ row.act = "scrub"
                           /\ todo = {i \in 1..Len(log) : Matches(row, log[i])}
    PROVE  IInv'
  <1> DEFINE t == clock + 1
  <1> DEFINE new == [pc |-> pc, row |-> row, snap |-> Len(log),
                    todo |-> todo, marks |-> {}]
  <1>1. /\ t \in Txs /\ clock' = t
        /\ tx' = [tx EXCEPT ![t] = new]
    BY DEF Starts
  <1>2. new \in Tx
    BY DEF Tx, IInv, TypeOK
  <1>3. /\ new.pc = pc /\ new.row = row /\ new.todo = todo /\ new.marks = {}
        /\ new.snap = Len(log)
    OBVIOUS
  <1> HIDE DEF new
  <1>4. TypeOK'
    BY <1>1, <1>2, AuditTrailAssumption DEF IInv, TypeOK, Txs
  <1>5. /\ tx'[t] = new
        /\ \A u \in Txs \ {t} : tx'[u] = tx[u]
    BY <1>1 DEF IInv, TypeOK
  <1>9. TimesInv'
    <2>1. /\ tx[t].pc = "unborn" /\ clock \in Nat
          /\ \A i \in 1..Len(log) : log[i].at \in Txs
      BY <1>1, LogRows DEF IInv, TypeOK, TimesInv
    <2>2. /\ UNCHANGED log /\ new.pc \in {"read", "sweep"} /\ new.row.at = t
      BY <1>3
    <2>3. \A u \in Txs : tx'[u].pc \in {"read", "wrote", "sweep"} => tx'[u].row.at = u
      BY <2>2, <1>5 DEF IInv, TimesInv
    <2>4. \A u \in Txs : u > clock' => tx'[u].pc = "unborn"
      BY <2>1, <1>1, <1>5 DEF IInv, TimesInv, Txs
    <2>5. \A i \in 1..Len(log) : tx'[log[i].at].pc = "over"
      BY <2>1, <1>5 DEF IInv, TimesInv
    <2> QED BY <2>2, <2>3, <2>4, <2>5 DEF IInv, TimesInv
  <1> HIDE DEF t
  <1>6. MutatingInv'
    BY <1>3, <1>5 DEF IInv, MutatingInv, Mutating
  <1>7. SweepInv'
    <2> SUFFICES ASSUME NEW u \in Txs, tx'[u].pc = "sweep" PROVE Sweeping(u)'
      BY DEF SweepInv
    <2>1. CASE u = t
      <3>1. log \in Seq(Row) /\ Len(log) \in Nat
        BY DEF IInv, TypeOK
      <3> QED BY <2>1, <3>1, <1>3, <1>5
              DEF Sweeping, Matches, Filtered, Unscrubbed
    <2>2. CASE u # t
      <3>1. tx'[u] = tx[u] /\ Sweeping(u)
        BY <2>2, <1>5 DEF IInv, SweepInv
      <3> QED BY <3>1 DEF Sweeping, Matches, Filtered, Unscrubbed
    <2> QED BY <2>1, <2>2
  <1>8. LocksInv'
    BY <1>3, <1>5 DEF IInv, LocksInv
  <1> QED BY <1>4, <1>6, <1>7, <1>8, <1>9, QuietLog DEF IInv

\* A transaction ends, with whatever it has done to the log already accounted for.
LEMMA RestInv ==
    ASSUME TypeOK, MutatingInv, LocksInv, NEW t \in Txs, Over(t), UNCHANGED clock
    PROVE  /\ tx' \in [Txs -> Tx]
           /\ clock' \in 0..MaxTx
           /\ MutatingInv'
           /\ LocksInv'
           /\ tx'[t].pc = "over"
           /\ \A u \in Txs \ {t} : tx'[u] = tx[u]
  <1>1. Rest("over") \in Tx /\ Rest("over").pc = "over"
    BY DEF Rest, Tx
  <1>2. tx' = [tx EXCEPT ![t] = Rest("over")]
    BY DEF Over
  <1> HIDE DEF Rest
  <1>3. /\ tx'[t].pc = "over"
        /\ \A u \in Txs \ {t} : tx'[u] = tx[u]
    BY <1>1, <1>2 DEF TypeOK
  <1>4. tx' \in [Txs -> Tx] /\ clock' \in 0..MaxTx
    BY <1>1, <1>2 DEF TypeOK
  <1>5. MutatingInv'
    BY <1>3 DEF MutatingInv, Mutating
  <1>6. LocksInv'
    BY <1>3 DEF LocksInv
  <1> QED BY <1>3, <1>4, <1>5, <1>6

\* A rollback.
LEMMA FailInv ==
    ASSUME IInv, NEW t \in Txs, Fail(t)
    PROVE  IInv'
  <1>1. Over(t) /\ UNCHANGED <<org, log, clock, scrubs>>
    BY DEF Fail
  <1>2. /\ tx' \in [Txs -> Tx] /\ clock' \in 0..MaxTx
        /\ MutatingInv' /\ LocksInv'
        /\ tx'[t].pc = "over" /\ \A u \in Txs \ {t} : tx'[u] = tx[u]
    BY <1>1, RestInv DEF IInv
  <1>3. TypeOK'
    BY <1>1, <1>2 DEF IInv, TypeOK
  <1>4. SweepInv'
    BY <1>1, <1>2 DEF IInv, SweepInv, Sweeping, Matches, Filtered, Unscrubbed
  <1>5. TimesInv'
    <2>1. \A i \in 1..Len(log) : log[i].at \in Txs
      BY LogRows DEF IInv
    <2>2. Active(t) /\ log' = log /\ clock' = clock
      BY <1>1 DEF Fail
    <2>3. t <= clock
      BY <2>2 DEF IInv, TypeOK, TimesInv, Active, Txs
    <2>4. \A u \in Txs : u > clock => tx'[u].pc = "unborn"
      BY <2>3, <1>2 DEF IInv, TypeOK, TimesInv, Txs
    <2>5. \A u \in Txs : tx'[u].pc \in {"read", "wrote", "sweep"} => tx'[u].row.at = u
      BY <1>2 DEF IInv, TimesInv
    <2>6. \A i \in 1..Len(log) : tx'[log[i].at].pc = "over"
      BY <2>1, <1>2 DEF IInv, TimesInv
    <2> QED BY <2>2, <2>4, <2>5, <2>6 DEF IInv, TimesInv
  <1> QED BY <1>1, <1>2, <1>3, <1>4, <1>5, QuietLog DEF IInv

\* The UPDATE of an organisation.
LEMMA WriteInv ==
    ASSUME IInv, NEW t \in Txs, Write(t)
    PROVE  IInv'
  <1> DEFINE new == [tx[t] EXCEPT !.pc = "wrote"]
  <1>1. /\ tx' = [tx EXCEPT ![t] = new]
        /\ UNCHANGED <<org, log, clock, scrubs>>
        /\ tx[t].pc = "read"
    BY DEF Write
  <1>2. tx[t] \in Tx
    BY DEF IInv, TypeOK
  <1>3. new \in Tx /\ new.pc = "wrote" /\ new.row = tx[t].row
    BY <1>2 DEF Tx
  <1> HIDE DEF new
  <1>4. tx'[t] = new /\ \A u \in Txs \ {t} : tx'[u] = tx[u]
    BY <1>1 DEF IInv, TypeOK
  <1>5. TypeOK'
    BY <1>1, <1>3 DEF IInv, TypeOK
  <1>6. MutatingInv'
    BY <1>1, <1>3, <1>4 DEF IInv, MutatingInv, Mutating
  <1>7. SweepInv'
    BY <1>1, <1>3, <1>4 DEF IInv, SweepInv, Sweeping, Matches, Filtered, Unscrubbed
  <1>8. LocksInv'
    BY <1>3, <1>4 DEF IInv, LocksInv
  <1>9. TimesInv'
    <2>1. \A i \in 1..Len(log) : log[i].at \in Txs
      BY LogRows DEF IInv
    <2> QED BY <2>1, <1>1, <1>3, <1>4 DEF IInv, TypeOK, TimesInv
  <1> QED BY <1>1, <1>5, <1>6, <1>7, <1>8, <1>9, QuietLog DEF IInv

\* A scrub reaches one row.
LEMMA SweepStepInv ==
    ASSUME IInv, NEW t \in Txs, NEW i, Sweep(t, i)
    PROVE  IInv'
  <1> DEFINE hit == IF Matches(tx[t].row, log[i]) THEN tx[t].marks \cup {i}
                                                 ELSE tx[t].marks
  <1> DEFINE new == [tx[t] EXCEPT !.todo = tx[t].todo \ {i}, !.marks = hit]
  <1>1. /\ tx' = [tx EXCEPT ![t] = new]
        /\ UNCHANGED <<org, log, clock, scrubs>>
        /\ tx[t].pc = "sweep" /\ i \in tx[t].todo /\ RowHolders(i) = {}
    BY DEF Sweep
  <1>2. tx[t] \in Tx /\ Sweeping(t)
    BY <1>1 DEF IInv, TypeOK, SweepInv
  <1>3. i \in 1..tx[t].snap /\ i \in Nat
    BY <1>1, <1>2 DEF Sweeping, Tx
  <1>4. hit \in SUBSET Nat /\ hit \subseteq tx[t].marks \cup {i}
    BY <1>2, <1>3 DEF Tx
  <1>5. \A j \in hit : j \in tx[t].marks \/ (j = i /\ Matches(tx[t].row, log[i]))
    OBVIOUS
  <1>6. tx[t].marks \subseteq hit /\ (Matches(tx[t].row, log[i]) => i \in hit)
    OBVIOUS
  <1> HIDE DEF hit
  <1>7. /\ new \in Tx /\ new.pc = "sweep" /\ new.row = tx[t].row
        /\ new.snap = tx[t].snap
        /\ new.todo = tx[t].todo \ {i} /\ new.marks = hit
    BY <1>1, <1>2, <1>4 DEF Tx
  <1> HIDE DEF new
  <1>8. tx'[t] = new /\ \A u \in Txs \ {t} : tx'[u] = tx[u]
    BY <1>1 DEF IInv, TypeOK
  <1>9. TypeOK'
    BY <1>1, <1>7 DEF IInv, TypeOK
  <1>10. MutatingInv'
    BY <1>7, <1>8 DEF IInv, MutatingInv, Mutating
  <1>11. SweepInv'
    <2> SUFFICES ASSUME NEW u \in Txs, tx'[u].pc = "sweep" PROVE Sweeping(u)'
      BY DEF SweepInv
    <2>1. CASE u = t
      <3>1. /\ tx'[u].row = tx[t].row /\ log' = log /\ tx'[u].snap = tx[t].snap
            /\ tx'[u].todo = tx[t].todo \ {i} /\ tx'[u].marks = hit
        BY <1>1, <1>7, <1>8, <2>1
      <3>2. \A j \in tx'[u].marks : Matches(tx[t].row, log[j])
        BY <1>2, <1>5, <3>1 DEF Sweeping
      <3>3. \A j \in 1..tx[t].snap :
               Matches(tx[t].row, log[j]) => j \in tx'[u].todo \cup tx'[u].marks
        BY <1>2, <1>6, <3>1 DEF Sweeping
      <3>4. tx'[u].marks \subseteq 1..tx[t].snap
        BY <1>2, <1>3, <1>4, <3>1 DEF Sweeping
      <3> QED BY <1>2, <3>1, <3>2, <3>3, <3>4
              DEF Sweeping, Matches, Filtered, Unscrubbed
    <2>2. CASE u # t
      <3>1. tx'[u] = tx[u] /\ Sweeping(u)
        BY <2>2, <1>8 DEF IInv, SweepInv
      <3> QED BY <1>1, <3>1 DEF Sweeping, Matches, Filtered, Unscrubbed
    <2> QED BY <2>1, <2>2
  <1>12. LocksInv'
    <2> SUFFICES ASSUME NEW u \in Txs, NEW v \in Txs, u # v,
                        tx'[u].pc = "sweep", tx'[v].pc = "sweep"
                 PROVE  tx'[u].marks \cap tx'[v].marks = {}
      BY DEF LocksInv
    <2>1. \A w \in Txs : tx[w].pc = "sweep" => i \notin tx[w].marks
      BY <1>1 DEF RowHolders
    <2>2. \A w \in Txs : tx'[w].pc = "sweep" => tx[w].pc = "sweep"
      BY <1>1, <1>8
    <2>3. \A w \in Txs : w # t => tx'[w].marks = tx[w].marks
      BY <1>8
    <2>4. tx'[t].marks \subseteq tx[t].marks \cup {i}
      BY <1>4, <1>7, <1>8
    <2>5. tx[u].marks \cap tx[v].marks = {}
      BY <2>2 DEF IInv, LocksInv
    <2> QED BY <2>1, <2>2, <2>3, <2>4, <2>5
  <1>13. TimesInv'
    <2>1. \A j \in 1..Len(log) : log[j].at \in Txs
      BY LogRows DEF IInv
    <2> QED BY <2>1, <1>1, <1>7, <1>8 DEF IInv, TypeOK, TimesInv
  <1> QED BY <1>1, <1>9, <1>10, <1>11, <1>12, <1>13, QuietLog DEF IInv

\* A transaction ends with a row of its own time at the end of the log.
LEMMA TimesKept ==
    ASSUME IInv, NEW t \in Txs, tx[t].pc \in {"read", "wrote", "sweep"},
           clock' = clock, tx'[t].pc = "over", \A u \in Txs \ {t} : tx'[u] = tx[u],
           Len(log') = Len(log) + 1, log'[Len(log) + 1].at = t,
           \A i \in 1..Len(log) : log'[i].at = log[i].at
    PROVE  TimesInv'
  <1>1. /\ Len(log) \in Nat
        /\ \A i \in 1..Len(log) : log[i].at \in Txs
    BY LogRows DEF IInv
  <1>2. /\ t <= clock
        /\ \A i \in 1..Len(log) : log[i].at # t
    <2>1. t \in Nat /\ clock \in Nat
      BY DEF IInv, TypeOK, Txs
    <2>2. /\ t > clock => tx[t].pc = "unborn"
          /\ \A i \in 1..Len(log) : tx[log[i].at].pc = "over"
      BY DEF IInv, TimesInv
    <2> QED BY <2>1, <2>2
  <1>3. \A u \in Txs : tx'[u].pc \in {"read", "wrote", "sweep"} => tx'[u].row.at = u
    BY DEF IInv, TimesInv
  <1>4. \A u \in Txs : u > clock' => tx'[u].pc = "unborn"
    BY <1>2 DEF IInv, TypeOK, TimesInv, Txs
  <1>5. \A i \in 1..Len(log') : tx'[log'[i].at].pc = "over"
    BY <1>1 DEF IInv, TimesInv
  <1>6. \A i, j \in 1..Len(log') : log'[i].at = log'[j].at => i = j
    BY <1>1, <1>2 DEF IInv, TimesInv
  <1> QED BY <1>3, <1>4, <1>5, <1>6 DEF TimesInv

\* A mutation and its audit row.
LEMMA CommitInv ==
    ASSUME IInv, NEW t \in Txs, Commit(t)
    PROVE  IInv'
  <1> DEFINE row == tx[t].row
  <1> DEFINE last == Len(log) + 1
  <1>1. /\ tx[t].pc \in {"read", "wrote"}
        /\ org' = Landed(row) /\ log' = Append(log, row)
        /\ Over(t) /\ UNCHANGED <<clock, scrubs>>
    BY DEF Commit
  <1>2. /\ row \in Row /\ row.act \in {"update", "delete"} /\ row.ip \in IPs
    BY <1>1 DEF IInv, MutatingInv, Mutating
  <1>3. /\ log \in Seq(Row) /\ Len(log) \in Nat
        /\ org \in [Orgs -> [theme : Themes, deleted : BOOLEAN]]
    BY DEF IInv, TypeOK
  <1>4. /\ log' \in Seq(Row) /\ Len(log') = last
        /\ \A i \in 1..Len(log) : log'[i] = log[i]
        /\ log'[last] = row
    BY <1>1, <1>2, <1>3, Grown
  <1>5. /\ tx' \in [Txs -> Tx] /\ clock' \in 0..MaxTx
        /\ MutatingInv' /\ LocksInv'
        /\ tx'[t].pc = "over" /\ \A u \in Txs \ {t} : tx'[u] = tx[u]
    BY <1>1, RestInv DEF IInv
  <1>6. row.org \in Orgs /\ row.after \in Themes
    BY <1>2 DEF Row
  <1> DEFINE theme == IF row.act = "update" /\ ~NoWrite(row)
                        THEN row.after ELSE org[row.org].theme
  <1> DEFINE deleted == org[row.org].deleted \/ row.act = "delete"
  <1>7. org' = [org EXCEPT ![row.org] = [theme |-> theme, deleted |-> deleted]]
    BY <1>1, <1>3, <1>6 DEF Landed
  <1>8. theme \in Themes /\ deleted \in BOOLEAN
    BY <1>3, <1>6
  <1>9. /\ row.act = "update" /\ row.before # row.after => theme = row.after
        /\ ~(row.act = "update" /\ row.before # row.after) => theme = org[row.org].theme
        /\ deleted <=> (org[row.org].deleted \/ row.act = "delete")
    BY DEF NoWrite
  <1> HIDE DEF row, theme, deleted
  <1>10. /\ org' \in [Orgs -> [theme : Themes, deleted : BOOLEAN]]
         /\ org'[row.org].theme = theme /\ org'[row.org].deleted = deleted
         /\ \A o \in Orgs \ {row.org} : org'[o] = org[o]
    BY <1>3, <1>6, <1>7, <1>8
  <1>11. TypeOK'
    BY <1>1, <1>4, <1>5, <1>10 DEF IInv, TypeOK
  <1>12. SweepInv'
    <2> SUFFICES ASSUME NEW u \in Txs, tx'[u].pc = "sweep" PROVE Sweeping(u)'
      BY DEF SweepInv
    <2>1. tx'[u] = tx[u] /\ Sweeping(u) /\ tx[u] \in Tx
      BY <1>5 DEF IInv, TypeOK, SweepInv
    <2>2. tx[u].snap \in Nat /\ tx[u].snap <= Len(log)
      BY <2>1 DEF Sweeping, Tx
    <2>3. \A j \in 1..tx[u].snap : log'[j] = log[j]
      BY <2>2, <1>3, <1>4
    <2>4. /\ tx[u].marks \subseteq 1..tx[u].snap /\ tx[u].snap <= Len(log')
      BY <2>1, <2>2, <1>3, <1>4 DEF Sweeping
    <2>5. \A j \in tx[u].marks : Matches(tx[u].row, log'[j])
      BY <2>1, <2>3, <2>4 DEF Sweeping
    <2>6. \A j \in 1..tx[u].snap :
             Matches(tx[u].row, log'[j]) => j \in tx[u].todo \cup tx[u].marks
      BY <2>1, <2>3 DEF Sweeping
    <2> QED BY <2>1, <2>4, <2>5, <2>6 DEF Sweeping, Matches, Filtered, Unscrubbed
  <1>13. /\ Receipts' = Receipts
         /\ \A m \in Receipts : /\ m \in 1..Len(log) /\ log'[m] = log[m]
                               /\ SeenBy(m)' = SeenBy(m) /\ ErasedBy(m)' = ErasedBy(m)
                               /\ scrubs[log[m].at].saw < m
                               /\ scrubs[log[m].at].saw \in Nat
                               /\ ErasedBy(m) \subseteq SeenBy(m)
    <2>1. Receipts' = Receipts
      BY <1>2, <1>3, <1>4 DEF Receipts
    <2>2. ASSUME NEW m \in Receipts
          PROVE  /\ m \in 1..Len(log) /\ log'[m] = log[m] /\ log[m].at \in Txs
      BY <1>4, LogRows DEF Receipts, IInv
    <2> QED BY <2>1, <2>2, <1>1 DEF IInv, TypeOK, SeenInv, SeenBy, ErasedBy
  <1>14. SeenInv'
    BY <1>1, <1>13 DEF SeenInv
  <1>16. \A m \in Receipts : SeenBy(m) \subseteq 1..Len(log)
    BY <1>3, <1>13 DEF SeenBy
  <1>17. ScrubReaches'
    <2> SUFFICES ASSUME NEW m \in Receipts, NEW i \in SeenBy(m)
                 PROVE  ~Matches(log'[m], log'[i])
      BY <1>13 DEF ScrubReaches, Matches, Filtered, Unscrubbed
    <2> QED BY <1>4, <1>13, <1>16 DEF IInv, ScrubReaches
  <1>18. EachErasureCountedOnce'
    <2>1. \A m \in Receipts : log'[m].count = Cardinality(ErasedBy(m)')
      BY <1>13 DEF IInv, EachErasureCountedOnce
    <2>2. \A m, n \in Receipts : m # n => ErasedBy(m)' \cap ErasedBy(n)' = {}
      BY <1>13 DEF IInv, EachErasureCountedOnce
    <2>3. ASSUME NEW i \in 1..last
          PROVE  log'[i].ip = Scrubbed <=> \E m \in Receipts : i \in ErasedBy(m)
      <3>1. CASE i = last
        BY <3>1, <1>2, <1>3, <1>4, <1>13, <1>16, AuditTrailAssumption
      <3>2. CASE i \in 1..Len(log)
        BY <3>2, <1>4 DEF IInv, EachErasureCountedOnce, Unscrubbed
      <3> QED BY <3>1, <3>2, <1>3
    <2> QED BY <2>1, <2>2, <2>3, <1>4, <1>13 DEF EachErasureCountedOnce, Unscrubbed
  <1>19. TimesInv'
    <2>1. row.at = t
      BY <1>1 DEF IInv, TimesInv, row
    <2> QED BY <2>1, <1>1, <1>4, <1>5, TimesKept
  <1>15. TrailMatchesState'
    <2> SUFFICES ASSUME NEW o \in Orgs
                 PROVE  /\ Changes(o)' = {} => org'[o].theme = NewTheme
                        /\ \A i \in Changes(o)' :
                              (\A j \in Changes(o)' : j <= i)
                                => org'[o].theme = log'[i].after
                        /\ org'[o].deleted <=>
                              \E i \in 1..Len(log') :
                                 log'[i].org = o /\ log'[i].act = "delete"
      BY DEF TrailMatchesState
    <2> DEFINE mine == row.org = o /\ row.act = "update" /\ row.before # row.after
    <2>1. Changes(o)' = Changes(o) \cup (IF mine THEN {last} ELSE {})
      BY <1>3, <1>4 DEF Changes
    <2>2. \A i \in Changes(o) : i \in 1..Len(log) /\ log'[i] = log[i] /\ i < last
      BY <1>3, <1>4 DEF Changes
    <2>3. org'[o].deleted <=> \E i \in 1..Len(log') :
                                 log'[i].org = o /\ log'[i].act = "delete"
      <3>1. org[o].deleted <=> \E i \in 1..Len(log) :
                                  log[i].org = o /\ log[i].act = "delete"
        BY DEF IInv, TrailMatchesState
      <3>2. org'[o].deleted <=> (org[o].deleted
                                   \/ (row.org = o /\ row.act = "delete"))
        BY <1>9, <1>10
      <3>3. (\E i \in 1..Len(log') : log'[i].org = o /\ log'[i].act = "delete")
              <=> \/ \E i \in 1..Len(log) : log[i].org = o /\ log[i].act = "delete"
                  \/ row.org = o /\ row.act = "delete"
        BY <1>3, <1>4
      <3> QED BY <3>1, <3>2, <3>3
    <2>4. CASE mine
      <3>1. org'[o].theme = row.after
        BY <2>4, <1>9, <1>10
      <3>2. \A i \in Changes(o)' : (\A j \in Changes(o)' : j <= i) => i = last
        <4> SUFFICES ASSUME NEW i \in Changes(o)', \A j \in Changes(o)' : j <= i
                     PROVE  i = last
          OBVIOUS
        <4>1. last \in Changes(o)'
          BY <2>1, <2>4
        <4>2. last <= i
          BY <4>1
        <4>3. i \in Changes(o) \/ i = last
          BY <2>1, <2>4
        <4>4. i \in Changes(o) => i < last /\ i \in Nat /\ last \in Nat
          BY <2>2, <1>3
        <4> QED BY <4>2, <4>3, <4>4
      <3> QED BY <2>1, <2>3, <2>4, <3>1, <3>2, <1>4
    <2>5. CASE ~mine
      <3>1. org'[o].theme = org[o].theme
        BY <2>5, <1>9, <1>10
      <3>2. Changes(o)' = Changes(o)
        BY <2>1, <2>5
      <3> QED BY <2>2, <2>3, <3>1, <3>2 DEF IInv, TrailMatchesState
    <2> QED BY <2>4, <2>5
  <1> QED BY <1>5, <1>11, <1>12, <1>14, <1>15, <1>17, <1>18, <1>19 DEF IInv

\* A scrub: the rows it has rewritten, and its receipt.
LEMMA CommitScrubInv ==
    ASSUME IInv, NEW t \in Txs, CommitScrub(t)
    PROVE  IInv'
  <1> DEFINE row == tx[t].row
  <1> DEFINE S == tx[t].marks
  <1> DEFINE receipt == [row EXCEPT !.count = Cardinality(S)]
  <1> DEFINE last == Len(log) + 1
  <1>1. /\ tx[t].pc = "sweep" /\ tx[t].todo = {}
        /\ log' = Append(Erase(S), receipt)
        /\ scrubs' = [scrubs EXCEPT ![t] = [saw |-> tx[t].snap, erased |-> S]]
        /\ Over(t) /\ UNCHANGED <<org, clock>>
    BY DEF CommitScrub
  <1>2. Sweeping(t) /\ tx[t] \in Tx
    BY <1>1 DEF IInv, SweepInv, TypeOK
  <1>3. log \in Seq(Row) /\ Len(log) \in Nat
    BY DEF IInv, TypeOK
  <1>4. /\ row \in Row /\ tx[t].snap \in Nat /\ tx[t].snap <= Len(log)
        /\ S \subseteq 1..tx[t].snap
    BY <1>2 DEF Sweeping, Tx
  <1>5. Cardinality(S) \in Nat
    <2>1. tx[t].snap \in Int /\ 1 \in Int
      BY <1>4
    <2>2. IsFiniteSet(1..tx[t].snap)
      BY <2>1, FS_Interval
    <2> QED BY <2>2, <1>4, FS_Subset, FS_CardinalityType
  <1>6. /\ receipt \in Row /\ receipt.act = "scrub" /\ receipt.ip \in IPs
        /\ receipt.org = row.org /\ receipt.filter = row.filter
        /\ receipt.at = row.at /\ receipt.count = Cardinality(S)
    BY <1>2, <1>4, <1>5 DEF Sweeping, Row
  <1> HIDE DEF receipt
  <1>7. /\ Erase(S) \in Seq(Row) /\ Len(Erase(S)) = Len(log)
    BY <1>3, Wiped
  <1>8. /\ log' \in Seq(Row) /\ Len(log') = last /\ log'[last] = receipt
        /\ \A i \in 1..Len(log) : log'[i] = Erase(S)[i]
    BY <1>1, <1>6, <1>7, Grown
  <1>9. \A i \in 1..Len(log) :
           /\ i \notin S => log'[i] = log[i]
           /\ i \in S => log'[i].ip = Scrubbed
           /\ log'[i].at = log[i].at /\ log'[i].act = log[i].act
           /\ log'[i].org = log[i].org /\ log'[i].who = log[i].who
           /\ log'[i].before = log[i].before /\ log'[i].after = log[i].after
           /\ log'[i].filter = log[i].filter /\ log'[i].count = log[i].count
    BY <1>3, <1>8, Wiped
  <1>10. /\ tx' \in [Txs -> Tx] /\ clock' \in 0..MaxTx
         /\ MutatingInv' /\ LocksInv'
         /\ tx'[t].pc = "over" /\ \A u \in Txs \ {t} : tx'[u] = tx[u]
    BY <1>1, RestInv DEF IInv
  <1>11. \A i \in 1..Len(log) : ~Matches(receipt, log'[i]) \/ i \notin 1..tx[t].snap
    <2> SUFFICES ASSUME NEW i \in 1..Len(log), i \in 1..tx[t].snap,
                        Matches(receipt, log'[i])
                 PROVE  FALSE
      OBVIOUS
    <2>1. CASE i \in S
      BY <2>1, <1>9 DEF Matches, Unscrubbed
    <2>2. CASE i \notin S
      <3>1. Matches(row, log[i])
        BY <2>2, <1>6, <1>9 DEF Matches, Filtered, Unscrubbed
      <3> QED BY <3>1, <2>2, <1>1, <1>2 DEF Sweeping
    <2> QED BY <2>1, <2>2
  <1>13. \A r, i : i \in 1..Len(log) /\ Matches(r, log'[i]) => Matches(r, log[i])
    <2> SUFFICES ASSUME NEW r, NEW i \in 1..Len(log), Matches(r, log'[i])
                 PROVE  Matches(r, log[i])
      OBVIOUS
    <2> QED BY <1>9, MatchesLess
  <1>14. SweepInv'
    <2> SUFFICES ASSUME NEW u \in Txs, tx'[u].pc = "sweep" PROVE Sweeping(u)'
      BY DEF SweepInv
    <2>1. u # t /\ tx'[u] = tx[u]
      BY <1>10
    <2>2. Sweeping(u) /\ tx[u] \in Tx
      BY <2>1 DEF IInv, TypeOK, SweepInv
    <2>3. /\ tx[u].snap \in Nat /\ tx[u].snap <= Len(log)
          /\ tx[u].marks \subseteq 1..tx[u].snap
      BY <2>2 DEF Sweeping, Tx
    <2>4. tx[u].marks \cap S = {}
      BY <1>1, <2>1 DEF IInv, LocksInv
    <2>5. \A i \in tx[u].marks : log'[i] = log[i]
      BY <2>3, <2>4, <1>3, <1>9
    <2>6. \A i \in tx[u].marks : Matches(tx[u].row, log'[i])
      BY <2>2, <2>5 DEF Sweeping
    <2>7. \A i \in 1..tx[u].snap :
             Matches(tx[u].row, log'[i]) => i \in tx[u].todo \cup tx[u].marks
      <3> SUFFICES ASSUME NEW i \in 1..tx[u].snap, Matches(tx[u].row, log'[i])
                   PROVE  i \in tx[u].todo \cup tx[u].marks
        OBVIOUS
      <3>1. i \in 1..Len(log)
        BY <2>3, <1>3
      <3>2. Matches(tx[u].row, log[i])
        BY <3>1, <1>13
      <3> QED BY <3>2, <2>2 DEF Sweeping
    <2>8. tx[u].snap <= Len(log')
      BY <2>3, <1>3, <1>8
    <2> QED BY <2>1, <2>2, <2>6, <2>7, <2>8 DEF Sweeping, Matches, Filtered, Unscrubbed
  <1>15. /\ row.at = t /\ receipt.at = t
         /\ tx[t].snap \in Nat /\ \A i \in 1..Len(log) : log[i].at \in Txs \ {t}
    <2>1. row.at = t
      BY <1>1 DEF IInv, TimesInv
    <2>2. \A i \in 1..Len(log) : log[i] \in Row /\ log[i].at \in Txs
      BY LogRows DEF IInv
    <2>3. \A i \in 1..Len(log) : log[i].at # t
      BY <1>1 DEF IInv, TimesInv
    <2> QED BY <2>1, <2>2, <2>3, <1>4, <1>6
  <1>16. /\ Receipts' = Receipts \cup {last}
         /\ \A m \in Receipts : /\ m \in 1..Len(log) /\ m # last
                               /\ SeenBy(m)' = SeenBy(m) /\ ErasedBy(m)' = ErasedBy(m)
                               /\ scrubs'[log'[m].at].saw = scrubs[log[m].at].saw
                               /\ scrubs[log[m].at].saw < m
                               /\ scrubs[log[m].at].saw \in Nat
                               /\ ErasedBy(m) \subseteq SeenBy(m)
         /\ scrubs'[log'[last].at].saw = tx[t].snap
         /\ \A m : m = last => SeenBy(m)' = 1..tx[t].snap /\ ErasedBy(m)' = S
         /\ scrubs' \in [Txs -> [saw : Nat, erased : SUBSET Nat]]
    <2>1. Receipts' = Receipts \cup {last}
      BY <1>3, <1>6, <1>8, <1>9 DEF Receipts
    <2> DEFINE mine == [saw |-> tx[t].snap, erased |-> S]
    <2>2. mine \in [saw : Nat, erased : SUBSET Nat]
      BY <1>2 DEF Tx
    <2>3. mine.saw = tx[t].snap /\ mine.erased = S
      OBVIOUS
    <2> HIDE DEF mine
    <2>4. /\ scrubs' \in [Txs -> [saw : Nat, erased : SUBSET Nat]]
          /\ scrubs'[t] = mine
          /\ \A u \in Txs \ {t} : scrubs'[u] = scrubs[u]
      BY <2>2, <1>1 DEF IInv, TypeOK, mine
    <2>5. /\ \A m : m = last => SeenBy(m)' = 1..tx[t].snap /\ ErasedBy(m)' = S
          /\ scrubs'[log'[last].at].saw = tx[t].snap
      BY <2>3, <2>4, <1>8, <1>15 DEF SeenBy, ErasedBy
    <2>6. ASSUME NEW m \in Receipts
          PROVE  /\ m \in 1..Len(log) /\ m # last
                 /\ log'[m].at = log[m].at /\ scrubs'[log'[m].at] = scrubs[log[m].at]
                 /\ scrubs[log[m].at] \in [saw : Nat, erased : SUBSET Nat]
      <3>1. m \in 1..Len(log) /\ m # last
        BY <1>3 DEF Receipts
      <3>2. log'[m].at = log[m].at /\ log[m].at \in Txs \ {t}
        BY <3>1, <1>9, <1>15
      <3> QED BY <3>1, <3>2, <2>4 DEF IInv, TypeOK
    <2>7. ASSUME NEW m \in Receipts
          PROVE  /\ SeenBy(m)' = SeenBy(m) /\ ErasedBy(m)' = ErasedBy(m)
                 /\ scrubs'[log'[m].at].saw = scrubs[log[m].at].saw
                 /\ scrubs[log[m].at].saw < m
                 /\ scrubs[log[m].at].saw \in Nat
                 /\ ErasedBy(m) \subseteq SeenBy(m)
      BY <2>6 DEF SeenBy, ErasedBy, IInv, SeenInv
    <2> QED BY <2>1, <2>4, <2>5, <2>6, <2>7
  <1>12. TypeOK'
    BY <1>1, <1>8, <1>10, <1>16 DEF IInv, TypeOK
  <1>18. SeenInv'
    BY <1>3, <1>4, <1>16 DEF SeenInv
  <1>19. ScrubReaches'
    <2> SUFFICES ASSUME NEW m \in Receipts', NEW i \in SeenBy(m)'
                 PROVE  ~Matches(log'[m], log'[i])
      BY DEF ScrubReaches, Matches, Filtered, Unscrubbed
    <2>1. CASE m = last
      BY <2>1, <1>3, <1>4, <1>8, <1>11, <1>16
    <2>2. CASE m \in Receipts
      <3>1. i \in SeenBy(m) /\ i \in 1..Len(log)
        BY <2>2, <1>3, <1>16 DEF SeenBy
      <3>2. ~Matches(log[m], log'[i])
        BY <2>2, <3>1, <1>13 DEF IInv, ScrubReaches
      <3> QED BY <2>2, <3>2, <1>9, <1>16 DEF Matches, Filtered
    <2> QED BY <2>1, <2>2, <1>16
  <1>20. \A i \in S : /\ i \in 1..Len(log) /\ log[i].ip # Scrubbed
                      /\ \A m \in Receipts : i \notin ErasedBy(m)
    <2> SUFFICES ASSUME NEW i \in S
                 PROVE  /\ i \in 1..Len(log) /\ log[i].ip # Scrubbed
                        /\ \A m \in Receipts : i \notin ErasedBy(m)
      OBVIOUS
    <2>1. i \in 1..Len(log) /\ Unscrubbed(log[i])
      BY <1>2, <1>3, <1>4 DEF Sweeping, Matches
    <2> QED BY <2>1 DEF IInv, EachErasureCountedOnce, Unscrubbed
  <1>21. EachErasureCountedOnce'
    <2>1. \A m \in Receipts' : log'[m].count = Cardinality(ErasedBy(m)')
      <3>1. ASSUME NEW m, m = last PROVE log'[m].count = Cardinality(ErasedBy(m)')
        BY <3>1, <1>6, <1>8, <1>16
      <3>2. ASSUME NEW m \in Receipts PROVE log'[m].count = Cardinality(ErasedBy(m)')
        BY <1>9, <1>16 DEF IInv, EachErasureCountedOnce
      <3> QED BY <3>1, <3>2, <1>16
    <2>2. ASSUME NEW m \in Receipts', NEW n \in Receipts', m # n
          PROVE  ErasedBy(m)' \cap ErasedBy(n)' = {}
      <3>1. CASE m \in Receipts /\ n \in Receipts
        BY <2>2, <3>1, <1>16 DEF IInv, EachErasureCountedOnce
      <3>2. CASE m = last \/ n = last
        BY <2>2, <3>2, <1>16, <1>20
      <3> QED BY <3>1, <3>2, <1>16
    <2>3. ASSUME NEW i \in 1..last
          PROVE  log'[i].ip = Scrubbed <=> \E m \in Receipts' : i \in ErasedBy(m)'
      <3>1. CASE i = last
        <4>1. log'[i].ip # Scrubbed
          BY <3>1, <1>6, <1>8, AuditTrailAssumption
        <4>2. \A m \in Receipts' : i \notin ErasedBy(m)'
          BY <3>1, <1>3, <1>16, <1>20 DEF SeenBy
        <4> QED BY <4>1, <4>2
      <3>2. CASE i \in 1..Len(log) /\ i \in S
        BY <3>2, <1>9, <1>16
      <3>3. CASE i \in 1..Len(log) /\ i \notin S
        <4>1. log'[i].ip = Scrubbed <=> \E m \in Receipts : i \in ErasedBy(m)
          BY <3>3, <1>9 DEF IInv, EachErasureCountedOnce, Unscrubbed
        <4> QED BY <4>1, <3>3, <1>16
      <3> QED BY <3>1, <3>2, <3>3, <1>3
    <2> QED BY <2>1, <2>2, <2>3, <1>8 DEF EachErasureCountedOnce, Unscrubbed
  <1>22. TimesInv'
    BY <1>1, <1>8, <1>9, <1>10, <1>15, TimesKept
  <1>17. TrailMatchesState'
    <2>1. \A o \in Orgs : Changes(o)' = Changes(o)
      BY <1>3, <1>6, <1>8, <1>9 DEF Changes
    <2>2. \A o \in Orgs :
             (\E i \in 1..Len(log') : log'[i].org = o /\ log'[i].act = "delete")
               <=> \E i \in 1..Len(log) : log[i].org = o /\ log[i].act = "delete"
      BY <1>3, <1>6, <1>8, <1>9
    <2>3. \A o \in Orgs : \A i \in Changes(o) : log'[i].after = log[i].after
      BY <1>9 DEF Changes
    <2>4. org' = org
      BY <1>1
    <2>5. \A o \in Orgs :
             /\ Changes(o) = {} => org[o].theme = NewTheme
             /\ \A i \in Changes(o) :
                   (\A j \in Changes(o) : j <= i) => org[o].theme = log[i].after
             /\ org[o].deleted <=>
                   \E i \in 1..Len(log) : log[i].org = o /\ log[i].act = "delete"
      BY DEF IInv, TrailMatchesState
    <2> SUFFICES ASSUME NEW o \in Orgs
                 PROVE  /\ Changes(o)' = {} => org'[o].theme = NewTheme
                        /\ \A i \in Changes(o)' :
                              (\A j \in Changes(o)' : j <= i)
                                => org'[o].theme = log'[i].after
                        /\ org'[o].deleted <=>
                              \E i \in 1..Len(log') :
                                 log'[i].org = o /\ log'[i].act = "delete"
      BY DEF TrailMatchesState
    <2>6. /\ Changes(o)' = {} => org'[o].theme = NewTheme
          /\ org'[o].deleted <=>
                \E i \in 1..Len(log') : log'[i].org = o /\ log'[i].act = "delete"
      BY <2>1, <2>2, <2>4, <2>5
    <2>7. ASSUME NEW i \in Changes(o)', \A j \in Changes(o)' : j <= i
          PROVE  org'[o].theme = log'[i].after
      <3>1. i \in Changes(o) /\ \A j \in Changes(o) : j <= i
        BY <2>1, <2>7
      <3> QED BY <3>1, <2>3, <2>4, <2>5
    <2> QED BY <2>6, <2>7
  <1> QED BY <1>10, <1>12, <1>14, <1>17, <1>18, <1>19, <1>21, <1>22 DEF IInv

\* Every step keeps the invariant.
LEMMA StepInv == IInv /\ [Next]_vars => IInv'
  <1> SUFFICES ASSUME IInv, [Next]_vars PROVE IInv'
    OBVIOUS
  <1>1. ASSUME NEW o \in Orgs, NEW c \in Clients, NEW new \in Themes,
               StartTheme(o, c.who, c.ip, new)
        PROVE  IInv'
    <2> DEFINE row == RowOf(clock + 1, "update", o, c.who, c.ip, org[o].theme, new)
    <2>1. /\ Starts(clock + 1, "read", row, {}) /\ UNCHANGED <<org, log, scrubs>>
      BY <1>1 DEF StartTheme
    <2>2. /\ c.who \in Actors /\ c.ip \in IPs /\ clock + 1 \in Txs
          /\ org[o].theme \in Themes
      BY <2>1, AuditTrailAssumption DEF Starts, IInv, TypeOK
    <2>3. row \in Row /\ row.ip \in IPs /\ row.act = "update" /\ row.at = clock + 1
      BY <2>2 DEF RowOf, Row, Acts
    <2> HIDE DEF row
    <2> QED BY <2>1, <2>3, StartsInv
  <1>2. ASSUME NEW o \in Orgs, NEW c \in Clients, StartDelete(o, c.who, c.ip)
        PROVE  IInv'
    <2> DEFINE row == RowOf(clock + 1, "delete", o, c.who, c.ip, NewTheme, NewTheme)
    <2>1. /\ Starts(clock + 1, "read", row, {}) /\ UNCHANGED <<org, log, scrubs>>
      BY <1>2 DEF StartDelete
    <2>2. c.who \in Actors /\ c.ip \in IPs /\ clock + 1 \in Txs
      BY <2>1, AuditTrailAssumption DEF Starts
    <2>3. row \in Row /\ row.ip \in IPs /\ row.act = "delete" /\ row.at = clock + 1
      BY <2>2, AuditTrailAssumption DEF RowOf, Row, Acts
    <2> HIDE DEF row
    <2> QED BY <2>1, <2>3, StartsInv
  <1>3. ASSUME NEW o \in Orgs, NEW c \in Clients, NEW f \in Filters,
               StartScrub(o, c.who, c.ip, f)
        PROVE  IInv'
    <2> DEFINE row == Receipt(clock + 1, o, c.who, c.ip, f)
    <2> DEFINE todo == {i \in 1..Len(log) : Matches(row, log[i])}
    <2>1. /\ Starts(clock + 1, "sweep", row, todo) /\ UNCHANGED <<org, log, scrubs>>
      BY <1>3 DEF StartScrub
    <2>2. /\ c.who \in Actors /\ c.ip \in IPs /\ clock + 1 \in Txs /\ Len(log) \in Nat
      BY <2>1, AuditTrailAssumption DEF Starts, IInv, TypeOK
    <2>3. /\ row \in Row /\ row.ip \in IPs /\ row.act = "scrub" /\ row.at = clock + 1
      BY <2>2, AuditTrailAssumption DEF Receipt, RowOf, Row, Acts
    <2> HIDE DEF row
    <2>4. todo \in SUBSET Nat
      BY <2>2
    <2> QED BY <2>1, <2>3, <2>4, StartsInv
  <1>4. ASSUME NEW t \in Txs, NEW i, Sweep(t, i) PROVE IInv'
    BY <1>4, SweepStepInv
  <1>5. CASE UNCHANGED vars
    <2>1. UNCHANGED <<org, log, tx, clock, scrubs>>
      BY <1>5 DEF vars
    <2>2. TypeOK' /\ MutatingInv' /\ SweepInv' /\ LocksInv' /\ TimesInv'
      BY <2>1 DEF IInv, TypeOK, MutatingInv, Mutating, SweepInv, Sweeping, LocksInv,
                  TimesInv, Matches, Filtered, Unscrubbed
    <2> QED BY <2>1, <2>2, QuietLog DEF IInv
  <1> QED BY <1>1, <1>2, <1>3, <1>4, <1>5, WriteInv, CommitInv, CommitScrubInv, FailInv
          DEF Next

\* The invariant holds throughout.
LEMMA Invariance == Spec => []IInv
  BY InitInv, StepInv, PTL DEF Spec

-----------------------------------------------------------------------------
(* Theorems                                                                 *)

\* Every variable keeps its type.
THEOREM TypeCorrect == Spec => []TypeOK
  <1>1. IInv => TypeOK
    BY DEF IInv
  <1> QED BY <1>1, Invariance, PTL

\* The log accounts for the theme and the deletion of every organisation,
\* however its transactions overlap, overwrite one another or fail.
THEOREM TrailMatches == Spec => []TrailMatchesState
  <1>1. IInv => TrailMatchesState
    BY DEF IInv
  <1> QED BY <1>1, Invariance, PTL

\* A scrub that committed has left no row it could see that its filter still
\* takes, however many scrubs ran over the same rows and whatever became of them.
THEOREM ScrubsReach == Spec => []ScrubReaches
  <1>1. IInv => ScrubReaches
    BY DEF IInv
  <1> QED BY <1>1, Invariance, PTL

\* Each receipt counts what its scrub rewrote, no row is rewritten by two scrubs,
\* and exactly the rows of some receipt have lost their personal data: for any
\* number of overlapping scrubs, in flight, waiting, committed or rolled back.
THEOREM ErasuresCounted == Spec => []EachErasureCountedOnce
  <1>1. IInv => EachErasureCountedOnce
    BY DEF IInv
  <1> QED BY <1>1, Invariance, PTL

\* The log is an append-only ledger: AuditTrail implements AuditLedger.
THEOREM ImplementsLedger == Spec => LedgerSpec
  <1>1. Init => Ledger!Init
    BY DEF Init, Ledger!Init
  <1>2. ASSUME IInv, NEW t \in Txs, Commit(t)
        PROVE  Ledger!Next
    <2> DEFINE row == tx[t].row
    <2>1. log' = Append(log, row) /\ tx[t].pc \in {"read", "wrote"}
      BY <1>2 DEF Commit
    <2>2. row \in Row /\ row.act # "scrub" /\ row.ip # Scrubbed /\ log \in Seq(Row)
      BY <1>2, <2>1, AuditTrailAssumption DEF IInv, TypeOK, MutatingInv, Mutating
    <2>3. Len(log') = Len(log) + 1 /\ log'[Len(log) + 1] = row
      BY <2>1, <2>2, Grown
    <2>4. Ledger!Entry(row)
      BY <2>1, <2>2 DEF Ledger!Entry
    <2> QED BY <2>2, <2>3, <2>4 DEF Ledger!Next
  <1>3. ASSUME IInv, NEW t \in Txs, CommitScrub(t)
        PROVE  Ledger!Next
    <2> DEFINE S == tx[t].marks
    <2> DEFINE receipt == [tx[t].row EXCEPT !.count = Cardinality(S)]
    <2>1. /\ tx[t].pc = "sweep" /\ log' = Append(Erase(S), receipt)
      BY <1>3 DEF CommitScrub
    <2>2. /\ Sweeping(t) /\ log \in Seq(Row) /\ Len(log) \in Nat /\ log' \in Seq(Row)
      <3>1. IInv'
        BY <1>3, CommitScrubInv
      <3> QED BY <3>1, <1>3, <2>1 DEF IInv, TypeOK, SweepInv
    <2>3. /\ receipt.act = "scrub" /\ receipt.ip # Scrubbed
          /\ receipt.count = Cardinality(S)
          /\ receipt.org = tx[t].row.org /\ receipt.filter = tx[t].row.filter
      BY <2>2, AuditTrailAssumption DEF Sweeping, Row
    <2>4. S \in SUBSET (1..Len(log))
      BY <2>2, <1>3 DEF Sweeping, IInv, TypeOK, Tx
    <2>5. \A i \in S : log[i].ip # Scrubbed /\ Covers(receipt, log[i])
      BY <2>2, <2>3 DEF Sweeping, Matches, Unscrubbed, Covers
    <2>6. Ledger!Wiped(S) = Erase(S)
      BY DEF Ledger!Wiped, Erase
    <2>7. Ledger!Cardinality(S) = Cardinality(S)
      BY DEF Ledger!Cardinality, Cardinality
    <2> HIDE DEF receipt
    <2>8. Ledger!Erasure(receipt, S)
      BY <2>1, <2>3, <2>5, <2>6, <2>7 DEF Ledger!Erasure
    <2>9. Erase(S) \in Seq(Row) /\ Len(Erase(S)) = Len(log)
      BY <2>2, Wiped
    <2>10. Len(log') = Len(log) + 1 /\ log'[Len(log) + 1] = receipt
      BY <2>1, <2>2, <2>9
    <2>11. receipt \in Row
      BY <2>2, <2>10
    <2> QED BY <2>4, <2>8, <2>10, <2>11 DEF Ledger!Next
  <1>4. IInv /\ [Next]_vars => [Ledger!Next]_log
    <2> SUFFICES ASSUME IInv, [Next]_vars PROVE Ledger!Next \/ UNCHANGED log
      OBVIOUS
    <2> QED BY <1>2, <1>3
            DEF Next, vars, StartTheme, StartDelete, StartScrub, Write, Sweep, Fail
  <1> QED BY <1>1, <1>4, Invariance, PTL DEF Spec, LedgerSpec, Ledger!Spec
=============================================================================
