-------------------------- MODULE MCHostResources --------------------------
(* Instance of HostResources for TLC.                                      *)
EXTENDS HostResources, TLC

Symmetry == Permutations(Threads) \cup Permutations(Addresses)
              \cup Permutations(Objects)
=============================================================================
