--------------------------- MODULE SyncBridgeProofs ---------------------------
(***************************************************************************)
(* The ownership of promises, for any number of calls and addresses.       *)
(***************************************************************************)
EXTENDS SyncBridge, TLAPS

\* No promise is allocated before the first call.
LEMMA InitIInv == Init => IInv
  BY NoneAssumption DEF Init, IInv, TypeOK, Phases, OwnershipInv, NoPromiseLost,
                        AnswersOwnCall

\* A submit puts a promise at a free address and leaves the others where they are.
LEMMA SubmitStep ==
  ASSUME IInv, NEW k \in Calls, NEW phase, NEW callback, Submit(k, phase, callback),
         \/ phase \in {"awaiting", "detached", "refused"} /\ callback = "pending"
         \/ phase = "refused" /\ callback = "none"
  PROVE  IInv'
<1> USE NoneAssumption DEF IInv
<1>1. PICK a \in Cells : /\ heap[a] = None
                         /\ heap' = [heap EXCEPT ![a] = k]
                         /\ cell' = [cell EXCEPT ![k] = a]
  BY DEF Submit
<1>2. /\ pc[k] = "idle" /\ job[k] = "none" /\ frees[k] = 0 /\ shared[k] = None
      /\ pc' = [pc EXCEPT ![k] = phase] /\ job' = [job EXCEPT ![k] = callback]
      /\ UNCHANGED <<shared, answer, frees>>
  BY DEF Submit, OwnershipInv
<1>3. TypeOK'
  BY <1>1, <1>2 DEF TypeOK, Phases
<1>4. \A l \in Calls \ {k} : /\ pc'[l] = pc[l] /\ job'[l] = job[l] /\ cell'[l] = cell[l]
                             /\ cell[l] # a => heap'[cell[l]] = heap[cell[l]]
  BY <1>1, <1>2 DEF TypeOK
<1>5. cell'[k] = a /\ heap'[a] = k /\ pc'[k] = phase /\ job'[k] = callback
  BY <1>1, <1>2 DEF TypeOK
<1>6. OwnershipInv'
  <2> SUFFICES ASSUME NEW l \in Calls
               PROVE  /\ job'[l] \in {"pending", "resolved"} =>
                           cell'[l] \in Cells /\ heap'[cell'[l]] = l /\ frees'[l] = 0
                      /\ pc'[l] = "refused" /\ job'[l] = "none" =>
                           /\ cell'[l] \in Cells /\ heap'[cell'[l]] = l
                           /\ frees'[l] = 0 /\ shared'[l] = None
                      /\ job'[l] \in {"none", "pending"} => shared'[l] = None
                      /\ job'[l] \in {"resolved", "done"} => shared'[l] = l
                      /\ pc'[l] = "idle" => job'[l] = "none" /\ frees'[l] = 0
                      /\ job'[l] = "none" =>
                           pc'[l] \notin {"awaiting", "detached", "answered", "timedOut"}
    BY DEF OwnershipInv
  <2>1. CASE l = k
    BY <1>2, <1>5, <2>1
  <2>2. CASE l # k
    BY <1>1, <1>2, <1>4, <2>2 DEF OwnershipInv
  <2> QED
    BY <2>1, <2>2
<1>7. NoPromiseLost'
  <2> SUFFICES ASSUME NEW b \in Cells, heap'[b] # None
               PROVE  /\ cell'[heap'[b]] = b
                      /\ \/ job'[heap'[b]] \in {"pending", "resolved"}
                         \/ pc'[heap'[b]] = "refused" /\ job'[heap'[b]] = "none"
    BY DEF NoPromiseLost
  <2>1. CASE b = a
    BY <1>5, <2>1
  <2>2. CASE b # a
    <3>1. heap'[b] = heap[b] /\ heap[b] \in Calls
      BY <1>1, <2>2 DEF TypeOK
    <3>2. cell[heap[b]] = b
      BY <3>1 DEF NoPromiseLost
    <3>3. heap[b] # k
      BY <1>2, <3>1 DEF NoPromiseLost
    <3> QED
      BY <1>4, <3>1, <3>2, <3>3 DEF NoPromiseLost
  <2> QED
    BY <2>1, <2>2
<1>8. AnswersOwnCall'
  BY <1>2, <1>4, <1>5 DEF AnswersOwnCall
<1> QED
  BY <1>3, <1>6, <1>7, <1>8

\* The heap untouched, and the phases of the others.
LEMMA QuietStep ==
  ASSUME IInv, NEW k \in Calls,
         NoContext(k) \/ SetValue(k) \/ Answer(k) \/ Timeout(k)
  PROVE  IInv'
<1> USE NoneAssumption DEF IInv
<1>1. UNCHANGED <<heap, cell, frees>>
  BY DEF NoContext, SetValue, Answer, Timeout
<1>2. \A l \in Calls \ {k} : pc'[l] = pc[l] /\ job'[l] = job[l] /\ answer'[l] = answer[l]
  BY DEF NoContext, SetValue, Answer, Timeout, TypeOK
<1>3. CASE SetValue(k)
  <2>1. heap[cell[k]] = k /\ shared[k] = None
    BY <1>3 DEF SetValue, OwnershipInv
  <2>2. /\ shared' = [shared EXCEPT ![k] = k] /\ job' = [job EXCEPT ![k] = "resolved"]
        /\ UNCHANGED <<pc, answer>>
    BY <1>3, <2>1 DEF SetValue, TypeOK
  <2>3. TypeOK'
    BY <1>1, <2>2 DEF TypeOK
  <2>4. OwnershipInv'
    BY <1>1, <1>3, <2>2 DEF OwnershipInv, TypeOK, SetValue
  <2>5. NoPromiseLost'
    BY <1>1, <1>3, <2>2 DEF NoPromiseLost, TypeOK, SetValue
  <2>6. AnswersOwnCall'
    BY <2>2 DEF AnswersOwnCall
  <2> QED
    BY <2>3, <2>4, <2>5, <2>6
<1>4. CASE NoContext(k) \/ Answer(k) \/ Timeout(k)
  <2>1. UNCHANGED <<job, shared>>
    BY <1>4 DEF NoContext, Answer, Timeout
  <2>2. TypeOK'
    BY <1>4 DEF NoContext, Answer, Timeout, TypeOK, Phases
  <2>3. OwnershipInv'
    BY <1>1, <1>4, <2>1 DEF NoContext, Answer, Timeout, OwnershipInv, TypeOK
  <2>4. NoPromiseLost'
    BY <1>1, <1>4, <2>1 DEF NoContext, Answer, Timeout, NoPromiseLost, TypeOK
  <2>5. AnswersOwnCall'
    <3>1. CASE Answer(k)
      <4>1. shared[k] = k
        BY <3>1 DEF Answer, Ready, OwnershipInv, TypeOK
      <4> QED
        BY <3>1, <4>1 DEF Answer, AnswersOwnCall, TypeOK
    <3>2. CASE NoContext(k) \/ Timeout(k)
      BY <3>2 DEF NoContext, Timeout, AnswersOwnCall, TypeOK
    <3> QED
      BY <1>4, <3>1, <3>2
  <2> QED
    BY <2>2, <2>3, <2>4, <2>5
<1> QED
  BY <1>3, <1>4

\* The party that frees a promise is the one that owned it.
LEMMA FreeStep ==
  ASSUME IInv, NEW k \in Calls, Delete(k) \/ Reject(k)
  PROVE  IInv'
<1> USE NoneAssumption DEF IInv
<1>1. \A l \in Calls \ {k} : pc'[l] = pc[l] /\ job'[l] = job[l] /\ frees'[l] = frees[l]
  BY DEF Delete, Reject, Free, TypeOK
<1>2. UNCHANGED <<cell, shared, answer>>
  BY DEF Delete, Reject
<1>3. /\ pc'[k] = IF Delete(k) THEN pc[k] ELSE "rejected"
      /\ pc[k] # "idle" /\ job'[k] \in {"none", "done"}
      /\ job'[k] = "done" => shared[k] = k
      /\ job'[k] = "none" => pc'[k] = "rejected" /\ shared[k] = None
      /\ pc' \in [Calls -> Phases]
      /\ job' \in [Calls -> {"none", "pending", "resolved", "done"}]
      /\ pc'[k] = "answered" => pc[k] = "answered"
      /\ Reject(k) => pc'[k] = "rejected"
  BY DEF Delete, Reject, Ready, OwnershipInv, TypeOK, Phases
<1>4. CASE UNCHANGED <<heap, frees>>
  <2>1. Reject(k) /\ job[k] = "done" /\ job' = job
    BY <1>4 DEF Delete, Reject, Ready, Free, TypeOK, OwnershipInv
  <2>2. TypeOK'
    BY <1>2, <1>3, <1>4 DEF TypeOK
  <2>3. OwnershipInv'
    BY <1>1, <1>2, <1>3, <1>4, <2>1 DEF OwnershipInv
  <2>4. NoPromiseLost'
    BY <1>1, <1>2, <1>4, <2>1 DEF NoPromiseLost, TypeOK
  <2>5. AnswersOwnCall'
    BY <1>1, <1>2, <1>3 DEF AnswersOwnCall
  <2> QED
    BY <2>2, <2>3, <2>4, <2>5
<1>5. CASE Free(k) /\ ~UNCHANGED <<heap, frees>>
  <2>1. cell[k] \in Cells /\ heap[cell[k]] = k /\ frees[k] = 0
    BY <1>5 DEF Delete, Reject, Ready, OwnershipInv, TypeOK
  <2>2. /\ frees' = [frees EXCEPT ![k] = 1] /\ heap' = [heap EXCEPT ![cell[k]] = None]
    BY <1>5, <2>1 DEF Free, TypeOK
  <2>3. TypeOK'
    BY <1>2, <1>3, <2>1, <2>2 DEF TypeOK
  <2>4. \A l \in Calls \ {k} : heap[cell[l]] = l => heap'[cell[l]] = l
    BY <2>1, <2>2 DEF TypeOK
  <2>5. OwnershipInv'
    <3> SUFFICES ASSUME NEW l \in Calls
                 PROVE  /\ job'[l] \in {"pending", "resolved"} =>
                             cell'[l] \in Cells /\ heap'[cell'[l]] = l /\ frees'[l] = 0
                        /\ pc'[l] = "refused" /\ job'[l] = "none" =>
                             /\ cell'[l] \in Cells /\ heap'[cell'[l]] = l
                             /\ frees'[l] = 0 /\ shared'[l] = None
                        /\ job'[l] \in {"none", "pending"} => shared'[l] = None
                        /\ job'[l] \in {"resolved", "done"} => shared'[l] = l
                        /\ pc'[l] = "idle" => job'[l] = "none" /\ frees'[l] = 0
                        /\ job'[l] = "none" =>
                             pc'[l] \notin {"awaiting", "detached", "answered", "timedOut"}
      BY DEF OwnershipInv
    <3>1. CASE l = k
      BY <1>2, <1>3, <3>1
    <3>2. CASE l # k
      BY <1>1, <1>2, <2>4, <3>2 DEF OwnershipInv
    <3> QED
      BY <3>1, <3>2
  <2>6. NoPromiseLost'
    <3> SUFFICES ASSUME NEW b \in Cells, heap'[b] # None
                 PROVE  /\ cell'[heap'[b]] = b
                        /\ \/ job'[heap'[b]] \in {"pending", "resolved"}
                           \/ pc'[heap'[b]] = "refused" /\ job'[heap'[b]] = "none"
      BY DEF NoPromiseLost
    <3>1. b # cell[k] /\ heap'[b] = heap[b] /\ heap[b] \in Calls /\ cell[heap[b]] = b
      BY <2>1, <2>2 DEF TypeOK, NoPromiseLost
    <3>2. heap[b] # k
      BY <3>1
    <3> QED
      BY <1>1, <1>2, <3>1, <3>2 DEF NoPromiseLost
  <2>7. AnswersOwnCall'
    BY <1>1, <1>2, <1>3 DEF AnswersOwnCall
  <2> QED
    BY <2>3, <2>5, <2>6, <2>7
<1> QED
  BY <1>4, <1>5 DEF Delete, Reject

-----------------------------------------------------------------------------
\* Every step keeps the invariant.
LEMMA StepIInv == IInv /\ [Next]_vars => IInv'
<1> SUFFICES ASSUME IInv, [Next]_vars PROVE IInv'
  OBVIOUS
<1>1. ASSUME NEW k \in Calls, Accept(k) \/ RefuseCalling(k) \/ RefuseSilently(k)
      PROVE  IInv'
  BY <1>1, SubmitStep DEF Accept, RefuseCalling, RefuseSilently
<1>2. ASSUME NEW k \in Calls, NoContext(k) \/ SetValue(k) \/ Answer(k) \/ Timeout(k)
      PROVE  IInv'
  BY <1>2, QuietStep
<1>3. ASSUME NEW k \in Calls, Delete(k) \/ Reject(k) PROVE IInv'
  BY <1>3, FreeStep
<1>4. CASE UNCHANGED vars
  BY <1>4 DEF vars, IInv, TypeOK, OwnershipInv, NoPromiseLost, AnswersOwnCall
<1> QED
  BY <1>1, <1>2, <1>3, <1>4 DEF Next

\* The inductive invariant holds of every behaviour.
THEOREM IInvInvariant == Spec => []IInv
  BY InitIInv, StepIInv, PTL DEF Spec

\* Types, and no promise deleted twice (plugin.h:111-114, 427-433).
THEOREM TypeCorrect == Spec => []TypeOK
<1>1. IInv => TypeOK
  BY DEF IInv
<1> QED
  BY <1>1, IInvInvariant, PTL

\* A callback finds its own promise, however late it comes (plugin.h:40-42).
THEOREM OwnershipSafety == Spec => []CallbackOwnsPromise
<1>1. IInv => CallbackOwnsPromise
  BY DEF IInv, OwnershipInv, CallbackOwnsPromise
<1> QED
  BY <1>1, IInvInvariant, PTL

\* No reply crosses to another call.
THEOREM AnswerSafety == Spec => []AnswersOwnCall
<1>1. IInv => AnswersOwnCall
  BY DEF IInv
<1> QED
  BY <1>1, IInvInvariant, PTL

\* No promise is left without a party to delete it (plugin.h:427-433).
THEOREM ReclaimSafety == Spec => []NoPromiseLost
<1>1. IInv => NoPromiseLost
  BY DEF IInv
<1> QED
  BY <1>1, IInvInvariant, PTL
===============================================================================
