----------------------------- MODULE AuditLedger -----------------------------
(***************************************************************************)
(* What the audit log promises (ADR-010), with no transaction in it: rows  *)
(* are only ever appended, what a row says of who did what when never      *)
(* changes, and the personal data a row carries goes in one way only: an   *)
(* erasure, which appends its own receipt in the same step, touches rows   *)
(* its filter covers and no others, and states in the receipt how many.    *)
(* AuditTrail is shown to implement this module.                           *)
(***************************************************************************)
EXTENDS Naturals, Sequences, FiniteSets

CONSTANTS
    Rows,            \* every row that may be written
    Erased,          \* what stands where a row's personal data stood
    Covers(_, _)     \* Covers(receipt, row): the receipt's filter takes the row

VARIABLE ledger

Init == ledger = <<>>

Entry(row) ==
    /\ row.act # "scrub"
    /\ row.ip # Erased
    /\ ledger' = Append(ledger, row)

Wiped(S) ==
    [i \in 1..Len(ledger) |->
        IF i \in S THEN [ledger[i] EXCEPT !.ip = Erased] ELSE ledger[i]]

\* Only rows that still carry personal data are wiped, and each is counted.
Erasure(receipt, S) ==
    /\ receipt.act = "scrub"
    /\ receipt.ip # Erased
    /\ \A i \in S : ledger[i].ip # Erased /\ Covers(receipt, ledger[i])
    /\ receipt.count = Cardinality(S)
    /\ ledger' = Append(Wiped(S), receipt)

\* One row more; what else changes is for the row to account for.
Next ==
    /\ Len(ledger') = Len(ledger) + 1
    /\ LET row == ledger'[Len(ledger) + 1] IN
       /\ row \in Rows
       /\ \/ Entry(row)
          \/ \E S \in SUBSET (1..Len(ledger)) : Erasure(row, S)

Spec == Init /\ [][Next]_ledger
=============================================================================
