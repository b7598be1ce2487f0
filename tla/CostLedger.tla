----------------------------- MODULE CostLedger -----------------------------
(***************************************************************************)
(* What readers of cost_record may rely on while rules are applied to it,   *)
(* with no sessions, flushes, conflicts or marks in sight.                  *)
(*                                                                         *)
(* The ledger is a set of records, each as its collector wrote it, and of   *)
(* each the parts it has been divided into. A record is entered undivided   *)
(* and stays for ever. Some records at a time are divided, each at once and *)
(* once for all, into one part per team that together cost what it costs    *)
(* and are like it in everything but their team. Allocation.tla is the      *)
(* program's way of keeping that promise.                                   *)
(***************************************************************************)
EXTENDS Integers

CONSTANTS Written,      \* records a collector may write
          Total(_)      \* what a set of rows costs together

VARIABLE parts          \* of every record entered, the rows it is divided into

Records == DOMAIN parts

Undivided == {row \in Records : parts[row] = {}}

Init == Records \subseteq Written /\ Undivided = Records

Enter(row) ==
    /\ row.key \notin {r.key : r \in Records}
    /\ parts' = [r \in Records \cup {row} |-> IF r = row THEN {} ELSE parts[r]]

\* The teams share the cost of the record and differ in nothing else.
Shares(row, rows) ==
    /\ rows # {} /\ Total(rows) = row.amount
    /\ \A a, b \in rows : a.owner["team"] = b.owner["team"] => a = b
    /\ \A part \in rows :
        /\ part.parent = row.key /\ part.amount \in Nat
        /\ part.source = row.source /\ part.model = row.model /\ part.at = row.at
        /\ \A d \in DOMAIN row.owner \ {"team"} : part.owner[d] = row.owner[d]

Divide(rows) ==
    /\ rows \subseteq Undivided
    /\ parts' = [row \in Records |-> IF row \in rows THEN parts'[row] ELSE parts[row]]
    /\ \A row \in rows : Shares(row, parts'[row])

Next == (\E row \in Written : Enter(row)) \/ \E rows \in SUBSET Undivided : Divide(rows)

Spec == Init /\ [][Next]_parts
=============================================================================
