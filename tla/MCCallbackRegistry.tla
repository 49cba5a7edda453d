------------------------ MODULE MCCallbackRegistry ------------------------
(* Instance of CallbackRegistry for TLC.                                   *)
EXTENDS CallbackRegistry
=============================================================================
