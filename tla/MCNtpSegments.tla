--------------------------- MODULE MCNtpSegments ---------------------------
(* Small instances of NtpSegments. *)
EXTENDS NtpSegments
=============================================================================
