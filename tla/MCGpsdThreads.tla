---------------------------- MODULE MCGpsdThreads ----------------------------
(* Model values for the small instances of GpsdThreads that TLC checks. *)
EXTENDS GpsdThreads, TLC

CONSTANTS p1, p2, t1

\* What follows a disturbance is not explored: the properties say nothing of it.
Undisturbed == ~disturbed

\* With both paths on the command line, or none, their names do not matter.
SwapPaths == Permutations({p1, p2})
=============================================================================
