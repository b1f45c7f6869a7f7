---------------------------- MODULE MCQueryPage ----------------------------
(* QueryPage for TLC. *)
EXTENDS QueryPage
=============================================================================
