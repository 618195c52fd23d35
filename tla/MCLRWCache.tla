----------------------------- MODULE MCLRWCache -----------------------------
(* LRWCache on small instances.                                            *)
EXTENDS LRWCache, TLC

CONSTANTS k1, k2, k3, c1, c2, t1, t2, t3, t4

OneCaller == {c1}
TwoCallers == {c1, c2}
ThreeKeys == {k1, k2, k3}
ThreeTimers == {t1, t2, t3}
FourTimers == {t1, t2, t3, t4}

\* Keys, callers and timers are interchangeable in the safety runs.
Symmetry == Permutations(Keys) \cup Permutations(Callers) \cup Permutations(Timers)
=============================================================================
