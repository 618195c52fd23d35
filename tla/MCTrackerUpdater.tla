-------------------------- MODULE MCTrackerUpdater --------------------------
(* TrackerUpdater with more torrents than one batch or refresh takes.      *)
EXTENDS TrackerUpdater

CONSTANTS t1, t2, t3
=============================================================================
