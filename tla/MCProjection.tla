---------------------------- MODULE MCProjection ----------------------------
(* Projection for TLC: two instances, three facts among five serials, and two
   places in a row that the projection can be forwarded to. *)
EXTENDS Projection, TLC

CONSTANTS one, two

SomeFacts == {1, 2, 5}
=============================================================================
