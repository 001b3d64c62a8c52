---------------------------- MODULE MCNtpSample ----------------------------
(* Small instances of NtpSample. *)
EXTENDS NtpSample
=============================================================================
