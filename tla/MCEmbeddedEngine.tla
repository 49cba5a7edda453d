-------------------------- MODULE MCEmbeddedEngine --------------------------
(* Instances of EmbeddedEngine for TLC.                                    *)
EXTENDS EmbeddedEngine

\* Host calls lead to payloads loaded later, never back.
Forward == {<<1, 2>>}
\* A plugin's host calls lead back to the plugin.
Back == {<<1, 1>>}
=============================================================================
