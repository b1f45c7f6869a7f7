------------------------- MODULE MCObserverAdapter -------------------------
(* ObserverAdapter for TLC: a message has room for less than 9 bytes, that *)
(* is for two facts of 3, for one of 6 and for none of 9.                  *)
EXTENDS ObserverAdapter
=============================================================================
