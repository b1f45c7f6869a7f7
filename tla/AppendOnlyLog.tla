--------------------------- MODULE AppendOnlyLog ---------------------------
(***************************************************************************)
(* What the fact table of FactCast promises to everybody who reads it by   *)
(* serial: rows are only ever added, whole batches at a time, and a row    *)
(* that becomes visible has a larger serial than every row that was        *)
(* visible before it.  A reader that has consumed everything up to serial  *)
(* n therefore never has to look below n again.  Serials may have gaps: a  *)
(* PostgreSQL sequence is not rolled back.                                 *)
(***************************************************************************)
EXTENDS Naturals, FiniteSets

CONSTANT FactIds,   \* the UUIDs a fact may carry
         Keys       \* what a FactSpec tells facts apart by (ns, type, aggId)

VARIABLE log        \* the committed rows of table fact

Row == [ser : Nat, id : FactIds, key : Keys]

(* Every row of new is newer than every row of old. *)
Newer(new, old) == \A r \in new, q \in old : q.ser < r.ser

(* No two rows share a serial or a fact id. *)
Distinct(rows) == \A r, q \in rows : (r.ser = q.ser \/ r.id = q.id) => r = q

TypeOK == log \subseteq Row

Init == log = {}

(* The commit of a publishing transaction makes its rows visible. *)
Append(rows) == /\ rows \subseteq Row
                /\ Newer(rows, log)
                /\ Distinct(log \cup rows)
                /\ log' = log \cup rows

(* Append(rows) for the rows that a step adds, so that TLC can evaluate it. *)
Next == /\ log \subseteq log'
        /\ Append(log' \ log)

Spec == Init /\ [][Next]_log

=============================================================================
