-------------------------- MODULE MCRuntimeEngine --------------------------
(* Instances of RuntimeEngine for TLC.                                     *)
EXTENDS RuntimeEngine
=============================================================================
