---------------------------- MODULE MCFactStore ----------------------------
(* Instances of FactStore for TLC. *)
EXTENDS FactStore

CONSTANTS f1, f2, acct, other, alice, bob

Ids == {f1, f2}

FactOf(i, k) == [id |-> i, key |-> k]

(* alice's fact is also part of bob's batch. *)
OverlapBatches ==
  [c \in Clients |-> IF c = alice THEN {<<FactOf(f1, acct)>>}
                                  ELSE {<<FactOf(f1, acct), FactOf(f2, other)>>}]

(* alice and bob lock the same account; facts on other are outside. *)
OneScope == [c \in Clients |-> {acct}]

(* Both try twice. *)
Attempts == [c \in Clients |-> 2]

(* What only one of the two is configured for, or offered. *)
OnlyAlice == [c \in Clients |-> c = alice]
OnlyBob == [c \in Clients |-> c = bob]

=============================================================================
