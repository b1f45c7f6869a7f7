------------------------------ MODULE FactFeed ------------------------------
(***************************************************************************)
(* What a subscription promises to its observer: every fact that it wants  *)
(* and that comes after its starting point, each one once, in the order of *)
(* the log, and none left out.  After a failed transformation it may leave *)
(* facts out, and promises the rest.                                       *)
(***************************************************************************)
EXTENDS Naturals, Sequences

CONSTANTS Keys,     \* what FactSpecs tell facts apart by
          Wanted    \* the keys that the subscription asks for

VARIABLES log,        \* committed rows of table fact
          from,       \* serial after which the subscription starts
          delivered,  \* serials of the facts that the observer got
          broken      \* a transformation has failed

vars == <<log, from, delivered, broken>>

(* Serial up to which the observer has everything it will ever get. *)
Position == IF delivered = <<>> THEN from ELSE delivered[Len(delivered)]

IsDue(r) == /\ r.key \in Wanted /\ r.ser > Position

Init == log = {} /\ from = 0 /\ delivered = <<>> /\ broken = FALSE

(* The log belongs to somebody else; whatever appears is new. *)
Publish == /\ log \subseteq log'
           /\ \A r \in log' \ log : \A q \in log : q.ser < r.ser
           /\ UNCHANGED <<from, delivered, broken>>

(* The starting point is fixed before anything is delivered. *)
Start == /\ delivered = <<>>
         /\ from' \in Nat
         /\ UNCHANGED <<log, delivered, broken>>

(* The oldest fact that is due, or any once the feed is broken. *)
Deliver == /\ \E r \in log :
                /\ IsDue(r)
                /\ broken \/ \A q \in log : IsDue(q) => r.ser <= q.ser
                /\ delivered' = Append(delivered, r.ser)
           /\ UNCHANGED <<log, from, broken>>

Break == /\ broken' = TRUE
         /\ UNCHANGED <<log, from, delivered>>

Next == Publish \/ Start \/ Deliver \/ Break

Spec == Init /\ [][Next]_vars

=============================================================================
