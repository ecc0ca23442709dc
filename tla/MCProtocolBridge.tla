--------------------------- MODULE MCProtocolBridge ---------------------------
(* ProtocolBridge on a small instance: two threads, one more stream than      *)
(* threads, so that a dial may come late while both threads hold a stream.    *)
EXTENDS ProtocolBridge, TLC

Symmetry == Permutations(Hosts) \cup Permutations(Streams)
=============================================================================
