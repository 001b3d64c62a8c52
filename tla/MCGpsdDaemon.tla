---------------------------- MODULE MCGpsdDaemon ----------------------------
(* Model values for the small instances of GpsdDaemon that TLC checks. *)
EXTENDS GpsdDaemon

CONSTANTS p1, p2
=============================================================================
