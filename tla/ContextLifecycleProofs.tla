---------------------- MODULE ContextLifecycleProofs ----------------------
(***************************************************************************)
(* The safety of ContextLifecycle, for any number of host threads,         *)
(* contexts, option sets and calls: IInv is inductive, it implies each of  *)
(* the safety properties the runs check, and every step is a step of       *)
(* NodeHandle or leaves it alone.                                          *)
(***************************************************************************)
EXTENDS ContextLifecycle, TLAPS

\* The invariant holds before the first call.
LEMMA InitIInv == Init => IInv
<1> SUFFICES ASSUME Init PROVE IInv
  OBVIOUS
<1> USE NoneAssumption, MaxCallsAssumption
<1> USE DEF Init
<1>1. TypeOK
  <2>1. calls \in [Threads -> 0 .. MaxCalls]
    OBVIOUS
  <2>2. initError \in BOOLEAN
    OBVIOUS
  <2>3. owned \in [Ctxs -> BOOLEAN]
    OBVIOUS
  <2> QED
    BY <2>1, <2>2, <2>3 DEF TypeOK, CreatePath, CallPath, StatusPath, InListener
<1>2. LockInv
  BY DEF LockInv, Holding, Creating, CreatePath
<1>3. HandInv
  BY DEF HandInv
<1>4. ReapInv /\ CtxInv /\ NoOrphanContext
  BY DEF ReapInv, CtxInv, NoOrphanContext
<1>5. GateInv /\ DtorInv
  BY DEF GateInv, DtorInv, InListener
<1> QED
  BY <1>1, <1>2, <1>3, <1>4, <1>5 DEF IInv

\* Entering a call keeps the invariant.
LEMMA CallStep ==
  ASSUME IInv, NEW t \in Threads, Calls(t) PROVE IInv'
<1> USE NoneAssumption, MaxCallsAssumption
<1> USE DEF IInv, TypeOK, LockInv, HandInv, ReapInv, CtxInv, GateInv, DtorInv, NoOrphanContext,
            Holding, Creating, CreatePath, CallPath, StatusPath, InListener,
            CtxLockShared, CtxLockUnique, modvars, nimvars, thrvars, evvars, dtvars,
            Goto, Return
<1>1. CASE CallStart(t)
  BY <1>1 DEF CallStart, Begin
<1>2. CASE CallNewPrivateKey(t)
  BY <1>2 DEF CallNewPrivateKey, Begin
<1>3. CASE CallCreateNode(t)
  BY <1>3 DEF CallCreateNode, Begin
<1>4. CASE CallUse(t)
  BY <1>4 DEF CallUse, Begin
<1>5. CASE CallStatus(t)
  BY <1>5 DEF CallStatus, Begin
<1> QED
  BY <1>1, <1>2, <1>3, <1>4, <1>5 DEF Calls

\* Every step of the create path does.
LEMMA CreateStep ==
  ASSUME IInv, NEW t \in Threads, LockCreate(t) \/ Create(t) \/ Adopt(t)
  PROVE  IInv'
<1> USE NoneAssumption, MaxCallsAssumption
<1> USE DEF IInv, TypeOK, LockInv, HandInv, ReapInv, CtxInv, GateInv, DtorInv, NoOrphanContext,
            Holding, Creating, CreatePath, CallPath, StatusPath, InListener,
            CtxLockShared, CtxLockUnique, modvars, nimvars, thrvars, evvars, dtvars,
            Goto, Return
<1>1. CASE LockCreate(t)
  BY <1>1 DEF LockCreate
<1>2. CASE FoundContext(t)
  BY <1>2 DEF FoundContext
<1>3. CASE FoundNoContext(t)
  BY <1>3 DEF FoundNoContext
<1>4. CASE ApplyOptions(t)
  <2>1. TypeOK'
    <3>1. cfg' \in Configs
      BY <1>4 DEF ApplyOptions
    <3>2. pc' \in [Threads -> {"idle"} \cup CreatePath \cup CallPath \cup StatusPath]
      BY <1>4 DEF ApplyOptions
    <3> QED
      BY <1>4, <3>1, <3>2 DEF ApplyOptions
  <2>2. LockInv'
    BY <1>4 DEF ApplyOptions
  <2>3. HandInv'
    BY <1>4 DEF ApplyOptions
  <2>4. ReapInv'
    BY <1>4 DEF ApplyOptions
  <2>5. CtxInv'
    BY <1>4 DEF ApplyOptions
  <2>6. GateInv'
    BY <1>4 DEF ApplyOptions
  <2>7. DtorInv'
    BY <1>4 DEF ApplyOptions
  <2>8. NoOrphanContext'
    BY <1>4 DEF ApplyOptions
  <2> QED
    BY <2>1, <2>2, <2>3, <2>4, <2>5, <2>6, <2>7, <2>8
<1>5. CASE ClearInitError(t)
  <2>1. TypeOK'
    <3>1. initError' \in BOOLEAN
      BY <1>5 DEF ClearInitError
    <3>2. pc' \in [Threads -> {"idle"} \cup CreatePath \cup CallPath \cup StatusPath]
      BY <1>5 DEF ClearInitError
    <3>3. \A u \in Threads : pc'[u] \in {"await", "adopt", "install"}
                               => hand'[u] \in Ctxs
      BY <1>5 DEF ClearInitError
    <3> QED
      BY <1>5, <3>1, <3>2, <3>3 DEF ClearInitError
  <2>2. LockInv'
    BY <1>5 DEF ClearInitError
  <2>3. HandInv'
    BY <1>5 DEF ClearInitError
  <2>4. ReapInv'
    BY <1>5 DEF ClearInitError
  <2>5. CtxInv'
    BY <1>5 DEF ClearInitError
  <2>6. GateInv'
    BY <1>5 DEF ClearInitError
  <2>7. DtorInv'
    BY <1>5 DEF ClearInitError
  <2>8. NoOrphanContext'
    BY <1>5 DEF ClearInitError
  <2> QED
    BY <2>1, <2>2, <2>3, <2>4, <2>5, <2>6, <2>7, <2>8
<1>6. ASSUME NEW c \in Ctxs, Spawn(t, c) PROVE IInv'
  BY <1>6 DEF Spawn
<1>7. CASE SpawnRefused(t)
  BY <1>7 DEF SpawnRefused
<1>8. CASE AwaitReplied(t)
  BY <1>8 DEF AwaitReplied
<1>9. CASE AwaitTimedOut(t)
  BY <1>9 DEF AwaitTimedOut
<1>10. CASE FailCreate(t)
  BY <1>10 DEF FailCreate
<1>11. CASE Adopt(t)
  BY <1>11 DEF Adopt
<1>12. CASE Install(t)
  BY <1>12, SMTT(20) DEF Install
<1> QED
  BY <1>1, <1>2, <1>3, <1>4, <1>5, <1>6, <1>7, <1>8, <1>9, <1>10, <1>11, <1>12 DEF Create

\* Every step of a call past the create path does.
LEMMA UseStep ==
  ASSUME IInv, NEW t \in Threads, Use(t) PROVE IInv'
<1> USE NoneAssumption, MaxCallsAssumption
<1> USE DEF IInv, TypeOK, LockInv, HandInv, ReapInv, CtxInv, GateInv, DtorInv, NoOrphanContext,
            Holding, Creating, CreatePath, CallPath, StatusPath, InListener,
            CtxLockShared, CtxLockUnique, modvars, nimvars, thrvars, evvars, dtvars,
            Goto, Return
<1>1. CASE Submit(t)
  BY <1>1 DEF Submit
<1>2. CASE InvokeNone(t)
  BY <1>2 DEF InvokeNone
<1>3. CASE Invoke(t)
  BY <1>3 DEF Invoke
<1>4. CASE AwaitReply(t)
  BY <1>4 DEF AwaitReply
<1>5. CASE StatusCheck(t)
  BY <1>5 DEF StatusCheck
<1>6. CASE StatusRead(t)
  BY <1>6 DEF StatusRead
<1> QED
  BY <1>1, <1>2, <1>3, <1>4, <1>5, <1>6 DEF Use

\* A late or early answer to a create, and its reaper, do.
LEMMA NimStep ==
  ASSUME IInv, NEW c \in Ctxs, NimCreated(c) \/ Reap(c) PROVE IInv'
<1> USE NoneAssumption, MaxCallsAssumption
<1> USE DEF IInv, TypeOK, LockInv, HandInv, ReapInv, CtxInv, GateInv, DtorInv, NoOrphanContext,
            Holding, Creating, CreatePath, CallPath, StatusPath, InListener,
            CtxLockShared, CtxLockUnique, modvars, nimvars, thrvars, evvars, dtvars
<1>1. CASE NimCreated(c)
  BY <1>1 DEF NimCreated
<1>2. CASE Reap(c)
  <2>1. TypeOK'
    BY <1>2 DEF Reap
  <2>2. LockInv'
    BY <1>2 DEF Reap
  <2>3. HandInv'
    BY <1>2 DEF Reap
  <2>4. ReapInv'
    BY <1>2 DEF Reap
  <2>5. CtxInv'
    BY <1>2 DEF Reap
  <2>6. GateInv'
    BY <1>2 DEF Reap
  <2>7. DtorInv'
    BY <1>2 DEF Reap
  <2>8. NoOrphanContext'
    BY <1>2 DEF Reap
  <2> QED
    BY <2>1, <2>2, <2>3, <2>4, <2>5, <2>6, <2>7, <2>8
<1> QED
  BY <1>1, <1>2

\* Every step of an event thread does.
LEMMA ListenerStep ==
  ASSUME IInv, NEW c \in Ctxs, Fire(c) \/ Listener(c) PROVE IInv'
<1> USE NoneAssumption, MaxCallsAssumption
<1> USE DEF IInv, TypeOK, LockInv, HandInv, ReapInv, CtxInv, GateInv, DtorInv, NoOrphanContext,
            Holding, Creating, CreatePath, CallPath, StatusPath, InListener,
            CtxLockShared, CtxLockUnique, modvars, nimvars, thrvars, evvars, dtvars
<1>1. CASE Fire(c)
  <2>1. TypeOK'
    BY <1>1 DEF Fire
  <2>2. LockInv'
    BY <1>1 DEF Fire
  <2>3. HandInv'
    BY <1>1 DEF Fire
  <2>4. ReapInv'
    BY <1>1 DEF Fire
  <2>5. CtxInv'
    BY <1>1 DEF Fire
  <2>6. GateInv'
    BY <1>1 DEF Fire
  <2>7. DtorInv'
    BY <1>1 DEF Fire
  <2>8. NoOrphanContext'
    BY <1>1 DEF Fire
  <2> QED
    BY <2>1, <2>2, <2>3, <2>4, <2>5, <2>6, <2>7, <2>8
<1>2. CASE EnterGate(c)
  BY <1>2 DEF EnterGate
<1>3. CASE Deliver(c)
  BY <1>3 DEF Deliver
<1>4. CASE EvSubmit(c)
  BY <1>4 DEF EvSubmit
<1>5. CASE EvInvoke(c)
  BY <1>5 DEF EvInvoke
<1> QED
  BY <1>1, <1>2, <1>3, <1>4, <1>5 DEF Listener

\* Every step of the destructor does.
LEMMA UnloadStep ==
  ASSUME IInv, BeginUnload \/ Destructor PROVE IInv'
<1> USE NoneAssumption, MaxCallsAssumption
<1> USE DEF IInv, TypeOK, LockInv, HandInv, ReapInv, CtxInv, GateInv, DtorInv, NoOrphanContext,
            Holding, Creating, CreatePath, CallPath, StatusPath, InListener,
            CtxLockShared, CtxLockUnique, modvars, nimvars, thrvars, evvars, dtvars
<1>1. CASE BeginUnload
  BY <1>1 DEF BeginUnload
<1>2. CASE DetachListeners
  <2>1. TypeOK'
    <3>1. owned' \in [Ctxs -> BOOLEAN]
      BY <1>2 DEF DetachListeners
    <3> QED
      BY <1>2, <3>1 DEF DetachListeners
  <2>2. LockInv'
    BY <1>2 DEF DetachListeners
  <2>3. HandInv'
    BY <1>2 DEF DetachListeners
  <2>4. ReapInv'
    BY <1>2 DEF DetachListeners
  <2>5. CtxInv'
    BY <1>2 DEF DetachListeners
  <2>6. GateInv'
    BY <1>2 DEF DetachListeners
  <2>7. DtorInv'
    BY <1>2 DEF DetachListeners
  <2>8. NoOrphanContext'
    BY <1>2 DEF DetachListeners
  <2> QED
    BY <2>1, <2>2, <2>3, <2>4, <2>5, <2>6, <2>7, <2>8
<1>3. CASE SwapContext
  <2>1. TypeOK'
    BY <1>3 DEF SwapContext
  <2>2. LockInv'
    BY <1>3 DEF SwapContext
  <2>3. HandInv'
    BY <1>3 DEF SwapContext
  <2>4. ReapInv'
    BY <1>3 DEF SwapContext
  <2>5. CtxInv'
    BY <1>3 DEF SwapContext
  <2>6. GateInv'
    BY <1>3 DEF SwapContext
  <2>7. DtorInv'
    BY <1>3 DEF SwapContext
  <2>8. NoOrphanContext'
    BY <1>3 DEF SwapContext
  <2> QED
    BY <2>1, <2>2, <2>3, <2>4, <2>5, <2>6, <2>7, <2>8
<1>4. CASE DestroyCall
  BY <1>4 DEF DestroyCall
<1>5. CASE Joined
  BY <1>5 DEF Joined
<1>6. CASE JoinFailed
  BY <1>6 DEF JoinFailed
<1>7. CASE DropGate
  BY <1>7 DEF DropGate
<1>8. CASE FreeModule
  BY <1>8 DEF FreeModule
<1> QED
  BY <1>1, <1>2, <1>3, <1>4, <1>5, <1>6, <1>7, <1>8 DEF Destructor

\* Every step of the module keeps the invariant.
LEMMA StepIInv == IInv /\ [Next]_vars => IInv'
<1> SUFFICES ASSUME IInv, [Next]_vars PROVE IInv'
  OBVIOUS
<1>1. ASSUME NEW t \in Threads,
             Calls(t) \/ LockCreate(t) \/ Create(t) \/ Adopt(t) \/ Use(t)
      PROVE  IInv'
  BY <1>1, CallStep, CreateStep, UseStep
<1>2. ASSUME NEW c \in Ctxs, NimCreated(c) \/ Reap(c) \/ Fire(c) \/ Listener(c)
      PROVE  IInv'
  BY <1>2, NimStep, ListenerStep
<1>3. CASE BeginUnload \/ Destructor
  BY <1>3, UnloadStep
<1>4. CASE UNCHANGED vars
  BY <1>4 DEF IInv, TypeOK, LockInv, HandInv, ReapInv, CtxInv, GateInv, DtorInv, NoOrphanContext,
            Holding, Creating, CreatePath, CallPath, StatusPath, InListener,
            CtxLockShared, CtxLockUnique, modvars, nimvars, thrvars, evvars, dtvars, vars
<1> QED
  BY <1>1, <1>2, <1>3, <1>4 DEF Next, Terminated

\* The strengthening from which the safety theorems follow.
THEOREM IInvInvariant == Spec => []IInv
  BY InitIInv, StepIInv, PTL DEF Spec

-----------------------------------------------------------------------------
(* What follows from the invariant.                                        *)

\* No variable ever leaves its type.
THEOREM TypeCorrect == Spec => []TypeOK
  BY IInvInvariant, PTL DEF IInv

\* No context handed to the binding has been destroyed (plugin.h:400).
THEOREM SubmitSafety == Spec => []SubmitsToLiveContext
<1>1. IInv => SubmitsToLiveContext
  BY DEF IInv, HandInv, CtxInv, SubmitsToLiveContext
<1> QED
  BY <1>1, IInvInvariant, PTL

\* No listener is inside the module once its teardown has started.
THEOREM ListenerSafety == Spec => []ListenerKeepsModule
<1>1. IInv => ListenerKeepsModule
  BY DEF IInv, GateInv, ListenerKeepsModule
<1> QED
  BY <1>1, IInvInvariant, PTL

\* No listener locks a gate that was deleted.
THEOREM GateSafety == Spec => []GateOutlivesListener
<1>1. IInv => GateOutlivesListener
  BY DEF IInv, GateInv, GateOutlivesListener
<1> QED
  BY <1>1, IInvInvariant, PTL

\* No context is lost: one that timed out has a reaper, the others an owner.
THEOREM NoContextLost == Spec => []NoOrphanContext
  BY IInvInvariant, PTL DEF IInv

\* Racing creates leave one node.
THEOREM SingleNode == Spec => []OneNode
<1>1. IInv => OneNode
  BY DEF IInv, TypeOK, GateInv, OneNode
<1> QED
  BY <1>1, IInvInvariant, PTL

\* The node runs the options the module holds.
THEOREM NodeRunsItsOptions == Spec => []RunsItsOptions
<1>1. IInv => RunsItsOptions
  BY DEF IInv, CtxInv, RunsItsOptions
<1> QED
  BY <1>1, IInvInvariant, PTL

\* m_createLock keeps every rebuild of the buffers away from every create.
THEOREM BufferSafety == Spec => []BuffersUnraced
<1>1. IInv => BuffersUnraced
  BY NoneAssumption DEF IInv, LockInv, Holding, CreatePath, BuffersUnraced
<1> QED
  BY <1>1, IInvInvariant, PTL

\* A reader of ctx finds a whole context or none.
THEOREM WholeContext == Spec => []InstalledWhole
<1>1. IInv => InstalledWhole
  BY NoneAssumption DEF IInv, TypeOK, CtxInv, GateInv, InstalledWhole
<1> QED
  BY <1>1, IInvInvariant, PTL

\* ctx changes from null to a context and back to null, and in no other way.
THEOREM ContextNeverReplaced == Spec => NeverReplaced
<1>1. IInv /\ [Next]_vars => [ctx' # ctx => ctx = None \/ ctx' = None]_vars
  <2> SUFFICES ASSUME IInv, [Next]_vars, ctx' # ctx PROVE ctx = None \/ ctx' = None
    OBVIOUS
  <2> USE DEF modvars
  <2>1. ASSUME NEW t \in Threads, Adopt(t) PROVE ctx = None
    BY <2>1 DEF Adopt, IInv, LockInv, Creating
  <2>2. ASSUME SwapContext PROVE ctx' = None
    BY <2>2 DEF SwapContext
  <2>3. ASSUME NEW t \in Threads, Calls(t) \/ LockCreate(t) \/ Create(t) \/ Use(t)
        PROVE  FALSE
    BY <2>3 DEF Calls, CallStart, CallNewPrivateKey, CallCreateNode, CallUse,
      CallStatus, Begin, LockCreate, Create, FoundContext, FoundNoContext,
      ApplyOptions, ClearInitError, SpawnRefused, AwaitReplied, AwaitTimedOut,
      FailCreate, Install, Spawn, Use, Submit, InvokeNone, Invoke, AwaitReply,
      StatusCheck, StatusRead
  <2>4. ASSUME NEW c \in Ctxs, NimCreated(c) \/ Reap(c) \/ Fire(c) \/ Listener(c)
        PROVE  FALSE
    BY <2>4 DEF NimCreated, Reap, Fire, Listener, EnterGate, Deliver, EvSubmit,
      EvInvoke
  <2>5. CASE BeginUnload \/ Destructor
    BY <2>2, <2>5 DEF BeginUnload, Destructor, DetachListeners, DestroyCall,
      Joined, JoinFailed, DropGate, FreeModule
  <2> QED
    BY <2>1, <2>3, <2>4, <2>5 DEF Next, Terminated, vars
<1> QED
  BY <1>1, IInvInvariant, PTL DEF Spec, NeverReplaced

\* The success of ensureContext still holds when the call submits.
THEOREM EnsureContextSafety == Spec => []EnsureContextHolds
<1>1. Init => EnsureContextHolds
  BY DEF Init, EnsureContextHolds, CallPath
<1>2. IInv /\ EnsureContextHolds /\ [Next]_vars => EnsureContextHolds'
  <2> SUFFICES ASSUME IInv, EnsureContextHolds, [Next]_vars
               PROVE  EnsureContextHolds'
    OBVIOUS
  <2> USE NoneAssumption DEF EnsureContextHolds, CallPath, modvars, nimvars,
            thrvars, evvars, dtvars, Goto, Return, IInv, TypeOK
  <2>1. ASSUME NEW t \in Threads, Calls(t) PROVE EnsureContextHolds'
    BY <2>1 DEF Calls, CallStart, CallNewPrivateKey, CallCreateNode, CallUse,
      CallStatus, Begin
  <2>2. ASSUME NEW t \in Threads, LockCreate(t) \/ Create(t) \/ Adopt(t)
        PROVE  EnsureContextHolds'
    BY <2>2 DEF LockCreate, Create, Adopt, FoundContext, FoundNoContext,
      ApplyOptions, ClearInitError, SpawnRefused, AwaitReplied, AwaitTimedOut,
      FailCreate, Install, Spawn, LockInv
  <2>3. ASSUME NEW t \in Threads, Use(t) PROVE EnsureContextHolds'
    BY <2>3 DEF Use, Submit, InvokeNone, Invoke, AwaitReply, StatusCheck,
      StatusRead
  <2>4. ASSUME NEW c \in Ctxs, NimCreated(c) \/ Reap(c) \/ Fire(c) \/ Listener(c)
        PROVE  EnsureContextHolds'
    BY <2>4 DEF NimCreated, Reap, Fire, Listener, EnterGate, Deliver, EvSubmit,
      EvInvoke
  <2>5. CASE BeginUnload \/ Destructor
    BY <2>5 DEF BeginUnload, Destructor, DetachListeners, SwapContext,
      DestroyCall, Joined, JoinFailed, DropGate, FreeModule
  <2>6. CASE UNCHANGED vars
    BY <2>6 DEF vars
  <2> QED
    BY <2>1, <2>2, <2>3, <2>4, <2>5, <2>6 DEF Next, Terminated
<1> QED
  BY <1>1, <1>2, IInvInvariant, PTL DEF Spec

-----------------------------------------------------------------------------
(* Refinement of NodeHandle.                                               *)

Phase == IF dtor \notin {"none", "detach", "swap"} THEN "gone"
         ELSE IF ctx = None THEN "none" ELSE "node"
Running == IF ctx = None THEN None ELSE cfgOf[ctx]

\* A step that moves neither ctx, the options, the options of a live context,
\* nor the destructor past its swap is invisible to the host.
LEMMA InvisibleStep ==
  ASSUME UNCHANGED <<ctx, cfg>>, Phase' = Phase, Running' = Running
  PROVE  UNCHANGED Handle!vars
  BY DEF Handle!vars, Phase, Running

\* The module implements NodeHandle: create, configure and unload as the host
\* sees them, under every interleaving.
THEOREM ImplementsHandle == Spec => HandleSpec
<1>1. Init => Handle!Init
  BY NoneAssumption DEF Init, Handle!Init
<1>2. IInv /\ [Next]_vars => [Handle!Next]_(Handle!vars)
  <2> SUFFICES ASSUME IInv, [Next]_vars
               PROVE  Handle!Next \/ UNCHANGED Handle!vars
    OBVIOUS
  <2> USE NoneAssumption DEF IInv, TypeOK, modvars, nimvars, thrvars, evvars,
            dtvars
  <2>1. ASSUME NEW t \in Threads, ApplyOptions(t) PROVE Handle!Configure
    <3>1. ctx = None /\ dtor = "none" /\ want[t] \in Configs
      BY <2>1 DEF ApplyOptions, LockInv, HandInv, Creating, CreatePath
    <3> QED
      BY <2>1, <3>1 DEF ApplyOptions, Handle!Configure
  <2>2. ASSUME NEW t \in Threads, Adopt(t) PROVE Handle!Appear
    <3>1. /\ ctx = None /\ dtor = "none" /\ hand[t] \in Ctxs
          /\ cfgOf[hand[t]] = cfg
      BY <2>2 DEF Adopt, LockInv, HandInv, Creating, CreatePath
    <3> QED
      BY <2>2, <3>1 DEF Adopt, Handle!Appear
  <2>3. CASE SwapContext
    BY <2>3 DEF SwapContext, Handle!Unload, Handle!Next
  <2>4. ASSUME NEW t \in Threads, Calls(t) \/ LockCreate(t) \/ Use(t)
        PROVE  UNCHANGED Handle!vars
    BY <2>4, InvisibleStep DEF Phase, Running, Calls, CallStart,
      CallNewPrivateKey, CallCreateNode, CallUse, CallStatus, Begin, LockCreate,
      Use, Submit, InvokeNone, Invoke, AwaitReply, StatusCheck, StatusRead
  <2>5. ASSUME NEW t \in Threads, Create(t), ~ApplyOptions(t)
        PROVE  UNCHANGED Handle!vars
    BY <2>5, InvisibleStep DEF Phase, Running, Create, FoundContext,
      FoundNoContext, ClearInitError, SpawnRefused, AwaitReplied,
      AwaitTimedOut, FailCreate, Install, Spawn, LockInv, Creating
  <2>6. ASSUME NEW c \in Ctxs, NimCreated(c) \/ Reap(c) \/ Fire(c) \/ Listener(c)
        PROVE  UNCHANGED Handle!vars
    BY <2>6, InvisibleStep DEF Phase, Running, NimCreated, Reap, Fire, Listener,
      EnterGate, Deliver, EvSubmit, EvInvoke
  <2>7. ASSUME BeginUnload \/ Destructor, ~SwapContext
        PROVE  UNCHANGED Handle!vars
    BY <2>7, InvisibleStep DEF Phase, Running, BeginUnload, Destructor,
      DetachListeners, DestroyCall, Joined, JoinFailed, DropGate, FreeModule
  <2>8. CASE UNCHANGED vars
    BY <2>8, InvisibleStep DEF Phase, Running, vars
  <2> QED
    BY <2>1, <2>2, <2>3, <2>4, <2>5, <2>6, <2>7, <2>8
    DEF Next, Terminated, Handle!Next
<1> QED
  BY <1>1, <1>2, IInvInvariant, PTL DEF Spec, HandleSpec, Handle!Spec
=============================================================================
