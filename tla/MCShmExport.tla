---------------------------- MODULE MCShmExport ----------------------------
(* Model values for the small instances of ShmExport that TLC checks. *)
EXTENDS ShmExport

CONSTANTS r1, fd, w1
=============================================================================
