------------------------ MODULE MCClientSubscription ------------------------
(* ClientSubscription for TLC: all constants are numbers, see the .cfg.    *)
EXTENDS ClientSubscription
=============================================================================
