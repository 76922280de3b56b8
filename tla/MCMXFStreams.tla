---------------------------- MODULE MCMXFStreams ----------------------------
(* Small instances of MXFStreams for TLC.                                   *)
EXTENDS MXFStreams, TLC

CONSTANTS v1, v2

OneGrid == [sid \in Sids |-> 6]
TwoGrids == [sid \in Sids |-> IF sid = v1 THEN 6 ELSE 12]
Symmetric == Permutations(Sids)
=============================================================================
