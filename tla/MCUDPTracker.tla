---------------------------- MODULE MCUDPTracker ----------------------------
(***************************************************************************)
(* UDPTracker for TLC: two scrapers, handleNewTorrent and refreshTracker,  *)
(* and two transactions.                                                   *)
(***************************************************************************)
EXTENDS UDPTracker

CONSTANTS s1, s2, x1, x2
=============================================================================
