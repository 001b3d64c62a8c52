---------------------------- MODULE MCObdSession ----------------------------
(* The instance of ObdSession that TLC checks. *)
EXTENDS ObdSession
=============================================================================
