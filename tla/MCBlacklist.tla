----------------------------- MODULE MCBlacklist -----------------------------
(* Blacklist for TLC: the ids are model values, see the .cfg files.        *)
EXTENDS Blacklist

CONSTANTS i1, i2, i3
=============================================================================
