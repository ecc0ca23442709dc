-------------------------- MODULE MCContextLifecycle --------------------------
(* ContextLifecycle on a small instance: the options are interchangeable, and *)
(* so are the host threads and the contexts, when no liveness is checked.     *)
EXTENDS ContextLifecycle, TLC

Symmetry == Permutations(Threads) \cup Permutations(Ctxs) \cup Permutations(Configs)
=============================================================================
