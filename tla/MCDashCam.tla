----------------------------- MODULE MCDashCam -----------------------------
(* The instance of DashCam that TLC checks. *)
EXTENDS DashCam

\* The camera does not look at the files: a second opening and a second recording are
\* explored, but not both in one run.
OneOfEither == opens <= 1 \/ recordings <= 1
=============================================================================
