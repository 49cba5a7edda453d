-------------------------- MODULE MCHostAdmission --------------------------
(* Instance of HostAdmission for TLC: see MCHostAdmission.cfg. *)
EXTENDS HostAdmission
=============================================================================
