------------------------------- MODULE Backlog -------------------------------
(***************************************************************************)
(* What a bounded poll queue of the module promises, key by key (a topic   *)
(* or a protocol): it holds no more than its bound, and what does not fit  *)
(* is counted, for good.  TopicQueues implements it; PubsubEvents is built *)
(* on it.                                                                  *)
(***************************************************************************)
EXTENDS Naturals

CONSTANTS Keys, Bounds

VARIABLES
    most,    \* how much a key may hold; 0 disables the queue
    depth,   \* per key, how much waits
    dropped  \* per key, how much was turned away

bkvars == <<most, depth, dropped>>

Init ==
    /\ most \in Bounds
    /\ depth = [k \in Keys |-> 0]
    /\ dropped = [k \in Keys |-> 0]

SetBounds ==
    /\ \A k \in Keys : depth[k] = 0
    /\ most' \in Bounds
    /\ UNCHANGED <<depth, dropped>>

Queue(k) ==
    /\ most > 0 /\ depth[k] < most
    /\ depth' = [depth EXCEPT ![k] = @ + 1]
    /\ UNCHANGED <<most, dropped>>

\* A message may be too large for any queue, so a drop needs no full one.
Drop(k) ==
    /\ most > 0
    /\ dropped' = [dropped EXCEPT ![k] = @ + 1]
    /\ UNCHANGED <<most, depth>>

Take(k) ==
    /\ depth[k] > 0
    /\ depth' = [depth EXCEPT ![k] = @ - 1]
    /\ UNCHANGED <<most, dropped>>

\* What waits goes; what was counted stays.
Release(S) ==
    /\ depth' = [k \in Keys |-> IF k \in S THEN 0 ELSE depth[k]]
    /\ UNCHANGED <<most, dropped>>

Next ==
    \/ SetBounds
    \/ \E k \in Keys : Queue(k) \/ Drop(k) \/ Take(k)
    \/ \E S \in SUBSET Keys : Release(S)

Spec == Init /\ [][Next]_bkvars
==============================================================================
