---------------------------- MODULE MCPubsubEvents ----------------------------
(* PubsubEvents with two threads, two topics and two handlers. *)
EXTENDS PubsubEvents, TLC

Symmetry == Permutations(Threads) \cup Permutations(Keys)
===============================================================================
