---------------------------- MODULE MCFactStream ----------------------------
(* Instances of FactStream for TLC. *)
EXTENDS FactStream

CONSTANTS t1, t2,    \* types
          plain,     \* delivered as it is
          old,       \* needs a transformation
          hidden,    \* selected by the query, refused by a filter
          other      \* not selected

TypeOfKey == [k \in Keys |-> IF k = other THEN t2 ELSE t1]

Req(c, e, d) == [continuous |-> c, ephemeral |-> e, delayed |-> d]

(* Every kind of subscription; a delay makes no difference to a catchup. *)
AllRequests == {Req(TRUE, FALSE, FALSE), Req(TRUE, FALSE, TRUE),
                Req(TRUE, TRUE, FALSE), Req(FALSE, FALSE, FALSE)}
FollowRequests == {Req(TRUE, FALSE, FALSE), Req(TRUE, FALSE, TRUE)}
InstantFollow == {Req(TRUE, FALSE, FALSE)}

(* Facts that are not even selected, and a batch that is larger than the
   buffer and starts with a fact that needs a transformation. *)
MixedBatches == {<<other, old>>, <<old, plain, old, plain>>}
OldBatches == {<<old>>}

(* Facts, also such as a filter refuses. *)
PlainBatches == {<<plain>>, <<hidden, plain>>}

=============================================================================
