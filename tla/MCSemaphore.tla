---------------------------- MODULE MCSemaphore ----------------------------
(* The threads other than the main one are interchangeable when they agree  *)
(* on breaks.                                                                *)
EXTENDS Semaphore, TLC

Symmetry == Permutations(Thread \ ({Main} \cup BreakEnabled))
=============================================================================
