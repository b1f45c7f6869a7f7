------------------------ MODULE SubscriptionContract ------------------------
(***************************************************************************)
(* What a subscription promises to the application that holds it: the      *)
(* facts one by one and in order, and to whoever awaits the end of the     *)
(* catchup or of the subscription, that it has come, or that there is a    *)
(* reason why it will not.  Connections do not occur: that they break is   *)
(* the subscription's own business.                                        *)
(***************************************************************************)
EXTENDS Naturals, Sequences

CONSTANTS Facts,      \* the facts of the stream are 1 .. Facts
          Stored      \* how many of them the caller waits for

VARIABLES delivered,  \* what the observer got
          disturbed,  \* something has gone wrong
          told,       \* the observer got an error
          closed,
          caller      \* "none", "waiting", "returned" or "thrown"

vars == <<delivered, disturbed, told, closed, caller>>

Init == /\ delivered = <<>> /\ caller = "none"
        /\ disturbed = FALSE /\ told = FALSE /\ closed = FALSE

(* The next fact, whoever waits and whatever has happened. *)
Deliver == /\ Len(delivered) < Facts
           /\ delivered' = Append(delivered, Len(delivered) + 1)
           /\ UNCHANGED <<disturbed, told, closed, caller>>

(* The observer learns of errors that there are, or of none. *)
Fail == /\ disturbed' = TRUE /\ told' \in {told, TRUE}
        /\ UNCHANGED <<delivered, closed, caller>>

Close == /\ closed' = TRUE
         /\ UNCHANGED <<delivered, disturbed, told, caller>>

Await == /\ caller = "none" /\ caller' = "waiting"
         /\ UNCHANGED <<delivered, disturbed, told, closed>>

Return == /\ caller = "waiting" /\ caller' = "returned"
          /\ closed \/ Len(delivered) >= Stored
          /\ UNCHANGED <<delivered, disturbed, told, closed>>

Throw == /\ caller = "waiting" /\ caller' = "thrown"
         /\ closed \/ disturbed
         /\ UNCHANGED <<delivered, disturbed, told, closed>>

Next == Deliver \/ Fail \/ Close \/ Await \/ Return \/ Throw

Spec == Init /\ [][Next]_vars

=============================================================================
