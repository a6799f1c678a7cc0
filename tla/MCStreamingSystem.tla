-------------------------- MODULE MCStreamingSystem -------------------------
(* Instances of StreamingSystem for TLC.                                   *)
EXTENDS StreamingSystem, TLC

CONSTANTS k1, k2, k3

TwoConns == {k1, k2}
ThreeConns == {k1, k2, k3}

\* Only the identity of a connection is used. Not for the temporal properties.
ConnSymmetry == Permutations(Conns)
=============================================================================
