-------------------------- MODULE MCInboundStreams --------------------------
(* InboundStreams on a small instance: queues of one handle, so that the      *)
(* second stream of a protocol is over the cap; two protocols, so that a      *)
(* notification may be for the other one.                                     *)
EXTENDS InboundStreams, TLC

Symmetry == Permutations(Streams) \cup Permutations(Hosts) \cup Permutations(Protos)
=============================================================================
