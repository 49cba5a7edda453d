-------------------------- MODULE MCPluginSession --------------------------
(* Instance of PluginSession for TLC.                                      *)
EXTENDS PluginSession
=============================================================================
