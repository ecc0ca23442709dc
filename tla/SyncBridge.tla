------------------------------ MODULE SyncBridge ------------------------------
(***************************************************************************)
(* The promise behind every libp2p operation (plugin.h:393-454).  A host   *)
(* thread allocates a promise, hands its raw address to the binding as     *)
(* user_data, and waits on the future with a timeout; a worker of the      *)
(* binding resolves the promise through that address and deletes it        *)
(* (finishPromise).  The future keeps the shared state alive, so the       *)
(* caller may leave before the worker; nothing keeps the promise alive but *)
(* the rule that exactly one party deletes it.                             *)
(*                                                                         *)
(* Addresses are reused: a delete too many, or a worker whose promise was  *)
(* deleted under it, hits the promise of another call.  The context check  *)
(* and its lock are in ContextLifecycle; here a call may find no context.  *)
(***************************************************************************)
EXTENDS Naturals

CONSTANTS Calls,   \* one element per call of an operation
          Cells,   \* addresses a promise can be allocated at
          None

ASSUME NoneAssumption == None \notin Calls /\ None \notin Cells

VARIABLES
    pc,     \* the calling thread: see Phases
    job,    \* the binding's callback: "none" | "pending" | "resolved" | "done"
    heap,   \* per address, the call whose promise is there, or None
    cell,   \* per call, the address p
    shared, \* the shared state: the call whose reply it holds, or None
    answer, \* the call whose reply was returned to the host, or None
    frees   \* how often the promise of a call was deleted

vars == <<pc, job, heap, cell, shared, answer, frees>>

Phases == {"idle", "refused", "awaiting", "detached",
           "answered", "timedOut", "rejected", "noContext"}
Returned == {"detached", "answered", "timedOut", "rejected", "noContext"}

Init ==
    /\ pc = [k \in Calls |-> "idle"] /\ job = [k \in Calls |-> "none"]
    /\ heap = [a \in Cells |-> None] /\ cell = [k \in Calls |-> None]
    /\ shared = [k \in Calls |-> None] /\ answer = [k \in Calls |-> None]
    /\ frees = [k \in Calls |-> 0]

-----------------------------------------------------------------------------
\* delete p: whatever is at the address goes.
Free(k) ==
    /\ frees' = [frees EXCEPT ![k] = @ + 1]
    /\ heap' = [heap EXCEPT ![cell[k]] = None]

\* new SyncPromise, get_future, invoke.
Submit(k, phase, callback) ==
    /\ pc[k] = "idle"
    /\ \E a \in Cells :
         /\ heap[a] = None
         /\ heap' = [heap EXCEPT ![a] = k] /\ cell' = [cell EXCEPT ![k] = a]
    /\ pc' = [pc EXCEPT ![k] = phase]
    /\ job' = [job EXCEPT ![k] = callback]
    /\ UNCHANGED <<shared, answer, frees>>

\* The binding takes the request; callSyncWith waits, callAsync does not.
Accept(k) == Submit(k, "awaiting", "pending") \/ Submit(k, "detached", "pending")

\* The binding refuses, after calling back on this very thread, or without.
RefuseCalling(k) == Submit(k, "refused", "pending")
RefuseSilently(k) == Submit(k, "refused", "none")

NoContext(k) ==
    /\ pc[k] = "idle"
    /\ pc' = [pc EXCEPT ![k] = "noContext"]
    /\ UNCHANGED <<job, heap, cell, shared, answer, frees>>

-----------------------------------------------------------------------------
\* Mutant: the promise is deleted before it is resolved.
SetValueFreed(k) ==
    /\ job[k] = "pending"
    /\ shared' = [c \in Calls |-> IF c = heap[cell[k]] THEN k ELSE shared[c]]
    /\ job' = [job EXCEPT ![k] = "resolved"]
    /\ Free(k)
    /\ UNCHANGED <<pc, cell, answer>>

\* finishPromise: set_value reaches the shared state of the promise found at
\* the address, then the promise is deleted.
SetValue(k) ==
    /\ job[k] = "pending"
    /\ shared' = [c \in Calls |-> IF c = heap[cell[k]] THEN k ELSE shared[c]]
    /\ job' = [job EXCEPT ![k] = "resolved"]
    /\ UNCHANGED <<pc, heap, cell, answer, frees>>

\* Mutant: the callback of a refused request leaves its promise to the caller.
DeleteNot(k) ==
    /\ job[k] = "resolved"
    /\ job' = [job EXCEPT ![k] = "done"]
    /\ IF pc[k] = "refused" THEN UNCHANGED <<heap, frees>> ELSE Free(k)
    /\ UNCHANGED <<pc, cell, shared, answer>>

Delete(k) ==
    /\ job[k] = "resolved"
    /\ job' = [job EXCEPT ![k] = "done"]
    /\ Free(k)
    /\ UNCHANGED <<pc, cell, shared, answer>>

-----------------------------------------------------------------------------
Ready(k) == shared[k] # None

\* Mutant: a refusal always deletes the promise.
RejectDeletes(k) ==
    /\ pc[k] = "refused" /\ job[k] \in {"none", "done"}
    /\ Free(k)
    /\ pc' = [pc EXCEPT ![k] = "rejected"]
    /\ UNCHANGED <<job, cell, shared, answer>>

\* Mutant: a refusal leaves the promise to a callback that may not come.
RejectKeeps(k) ==
    /\ pc[k] = "refused" /\ job[k] \in {"none", "done"}
    /\ pc' = [pc EXCEPT ![k] = "rejected"]
    /\ UNCHANGED <<job, heap, cell, shared, answer, frees>>

\* ret != 0: the callback that ran has deleted the promise, otherwise the caller
\* does.
Reject(k) ==
    /\ pc[k] = "refused" /\ job[k] \in {"none", "done"}
    /\ IF Ready(k) THEN UNCHANGED <<heap, frees>> ELSE Free(k)
    /\ pc' = [pc EXCEPT ![k] = "rejected"]
    /\ UNCHANGED <<job, cell, shared, answer>>

Answer(k) ==
    /\ pc[k] = "awaiting" /\ Ready(k)
    /\ pc' = [pc EXCEPT ![k] = "answered"]
    /\ answer' = [answer EXCEPT ![k] = shared[k]]
    /\ UNCHANGED <<job, heap, cell, shared, frees>>

\* Mutant: the caller deletes the promise it stops waiting for.
TimeoutDeletes(k) ==
    /\ pc[k] = "awaiting" /\ ~Ready(k)
    /\ pc' = [pc EXCEPT ![k] = "timedOut"]
    /\ Free(k)
    /\ UNCHANGED <<job, cell, shared, answer>>

\* The deadline passes with no reply; the operation keeps running.
Timeout(k) ==
    /\ pc[k] = "awaiting" /\ ~Ready(k)
    /\ pc' = [pc EXCEPT ![k] = "timedOut"]
    /\ UNCHANGED <<job, heap, cell, shared, answer, frees>>

-----------------------------------------------------------------------------
Next == \E k \in Calls :
    \/ Accept(k) \/ RefuseCalling(k) \/ RefuseSilently(k) \/ NoContext(k)
    \/ SetValue(k) \/ Delete(k)
    \/ Reject(k) \/ Answer(k) \/ Timeout(k)

Spec == Init /\ [][Next]_vars

\* A caller runs when it can, the callback of a refusal included, which is on its
\* own thread.  A worker need not ever answer.
CallerFairness ==
    \A k \in Calls :
        /\ WF_vars(Reject(k) \/ Answer(k) \/ Timeout(k))
        /\ WF_vars(pc[k] = "refused" /\ (SetValue(k) \/ Delete(k)))

FairSpec == Spec /\ CallerFairness

\* plugin.h:40-42: the binding never cancels a handler, so every callback runs.
HandlersComplete == \A k \in Calls : WF_vars(SetValue(k)) /\ WF_vars(Delete(k))

-----------------------------------------------------------------------------
(* Properties.                                                             *)

\* Every variable stays in its type, and no promise is deleted twice.
TypeOK ==
    /\ pc \in [Calls -> Phases]
    /\ job \in [Calls -> {"none", "pending", "resolved", "done"}]
    /\ heap \in [Cells -> Calls \cup {None}]
    /\ cell \in [Calls -> Cells \cup {None}]
    /\ shared \in [Calls -> Calls \cup {None}]
    /\ answer \in [Calls -> Calls \cup {None}]
    /\ frees \in [Calls -> {0, 1}]

\* The address a callback still has to use holds the promise of its own call,
\* not freed memory and not the promise of a later call, however long after the
\* caller's timeout the callback comes; and no promise is resolved twice, which
\* would throw through the binding.
CallbackOwnsPromise ==
    \A k \in Calls :
        /\ job[k] \in {"pending", "resolved"} => heap[cell[k]] = k
        /\ job[k] = "pending" => shared[k] = None

\* The reply a caller returns is the one to its own request, never that of an
\* earlier call which timed out.
AnswersOwnCall == \A k \in Calls : pc[k] = "answered" => answer[k] = k

\* Every allocated promise has a party that is still to delete it: its callback,
\* or the caller whose request was refused without one.
NoPromiseLost ==
    \A a \in Cells : heap[a] # None =>
        LET k == heap[a] IN
        /\ cell[k] = a
        /\ job[k] \in {"pending", "resolved"} \/ (pc[k] = "refused" /\ job[k] = "none")

\* Every promise is reclaimed, those of timed-out calls included, if every handler
\* completes.
PromisesReclaimed ==
    HandlersComplete => \A a \in Cells : heap[a] # None ~> heap[a] = None

-----------------------------------------------------------------------------
(* The inductive invariant: where the promise of a call is, by the progress  *)
(* of its callback and of its caller.                                        *)
OwnershipInv ==
    \A k \in Calls :
        /\ job[k] \in {"pending", "resolved"} =>
             cell[k] \in Cells /\ heap[cell[k]] = k /\ frees[k] = 0
        /\ pc[k] = "refused" /\ job[k] = "none" =>
             cell[k] \in Cells /\ heap[cell[k]] = k /\ frees[k] = 0 /\ shared[k] = None
        /\ job[k] \in {"none", "pending"} => shared[k] = None
        /\ job[k] \in {"resolved", "done"} => shared[k] = k
        /\ pc[k] = "idle" => job[k] = "none" /\ frees[k] = 0
        /\ job[k] = "none" => pc[k] \notin {"awaiting", "detached", "answered", "timedOut"}

IInv == TypeOK /\ OwnershipInv /\ NoPromiseLost /\ AnswersOwnCall
=============================================================================
