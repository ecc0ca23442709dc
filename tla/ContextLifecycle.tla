-------------------------- MODULE ContextLifecycle --------------------------
(***************************************************************************)
(* The life of the module's libp2p context: who creates it, who may submit *)
(* to it, how the Nim event thread reaches the module, and how the         *)
(* destructor takes it all down (plugin.h, plugin.cpp, callbacks.cpp).     *)
(*                                                                         *)
(* Actors: the host threads that call the API, the destructor, one event   *)
(* thread per context, the Nim side that answers creates, and the detached *)
(* reaper threads that wait for a create its caller gave up on.            *)
(*                                                                         *)
(* m_ctxLock is not a variable: it is held shared exactly while a thread   *)
(* is at "invoke" (callSyncWith) or an event thread at "invoke"            *)
(* (callAsync), and held unique exactly while a thread is at "install"     *)
(* (createContext).  The gate lock is held shared while an event thread is *)
(* at one of InListener.  Sections with one access in them are one step.   *)
(*                                                                         *)
(* Host contract: the module is not unloaded while a call is on the create *)
(* path (destroyContext does not take m_createLock), no call starts once   *)
(* the unload has begun, and the memory is reclaimed when the calls that   *)
(* were running have returned.                                             *)
(***************************************************************************)
EXTENDS Naturals

CONSTANTS Threads,   \* host threads
          Ctxs,      \* contexts the Nim side can hand out (bounds the creates)
          Configs,   \* option sets a config can stand for
          None,      \* nullptr
          MaxCalls   \* API calls made by one thread (bounds the behaviours)

ASSUME NoneAssumption == None \notin Ctxs /\ None \notin Configs
                         /\ None \notin Threads
ASSUME MaxCallsAssumption == MaxCalls \in Nat

VARIABLES
    ctx,        \* Libp2pModuleImpl::ctx
    cfg,        \* m_libp2pConfig with the buffers its views borrow
    initError,  \* m_initError is not empty
    createLock, \* holder of m_createLock
    gate,       \* m_gate, named by the context it was made for
    gateMem,    \* per context, its ListenerGate: "none" | "live" | "deleted"
    owned,      \* per context, gate->owner is not null
    nim,        \* per context, its state on the Nim side
    cfgOf,      \* per context, the options it was created with
    reapers,    \* contexts a detached reaper waits for
    pc, op, want, hand, res, calls,   \* per host thread
    ev, evHand,                       \* per event thread
    dtor, doomed                      \* the destructor

modvars == <<ctx, cfg, initError, createLock, gate>>
nimvars == <<gateMem, owned, nim, cfgOf, reapers>>
thrvars == <<pc, op, want, hand, res, calls>>
evvars  == <<ev, evHand>>
dtvars  == <<dtor, doomed>>
vars == <<ctx, cfg, initError, createLock, gate, gateMem, owned, nim, cfgOf,
          reapers, pc, op, want, hand, res, calls, ev, evHand, dtor, doomed>>

CreatePath == {"lockCreate", "hasCtx", "apply", "create", "spawn", "await",
               "fail", "adopt", "install"}
CallPath   == {"submit", "invoke", "awaitReply"}
StatusPath == {"status", "statusRead"}
InListener == {"inModule", "release", "invoke"}

\* Mutant: ctx is read and published with no lock.
CtxLockSharedUnlocked == TRUE

\* m_ctxLock can be taken shared, and unique.
CtxLockShared == \A t \in Threads : pc[t] # "install"
\* Mutant: the unique lock does not wait for the shared ones.
CtxLockUniqueNoReaders == \A t \in Threads : pc[t] # "install"

CtxLockUnique == /\ \A t \in Threads : pc[t] \notin {"invoke", "install"}
                 /\ \A c \in Ctxs : ev[c] # "invoke"

Init ==
    /\ ctx = None /\ cfg \in Configs /\ initError = FALSE
    /\ createLock = None /\ gate = None
    /\ gateMem = [c \in Ctxs |-> "none"]
    /\ owned = [c \in Ctxs |-> FALSE]
    /\ nim = [c \in Ctxs |-> "unborn"]
    /\ cfgOf = [c \in Ctxs |-> None]
    /\ reapers = {}
    /\ pc = [t \in Threads |-> "idle"]
    /\ op = [t \in Threads |-> "none"]
    /\ want = [t \in Threads |-> None]
    /\ hand = [t \in Threads |-> None]
    /\ res = [t \in Threads |-> "none"]
    /\ calls = [t \in Threads |-> 0]
    /\ ev = [c \in Ctxs |-> "idle"]
    /\ evHand = [c \in Ctxs |-> None]
    /\ dtor = "none" /\ doomed = None

-----------------------------------------------------------------------------
(* The host calls the API.                                                 *)

Goto(t, l) == pc' = [pc EXCEPT ![t] = l]

Return(t, r) ==
    /\ Goto(t, "idle")
    /\ res' = [res EXCEPT ![t] = r]
    /\ hand' = [hand EXCEPT ![t] = None]

Begin(t, name, c, l) ==
    /\ pc[t] = "idle" /\ dtor = "none" /\ calls[t] < MaxCalls
    /\ calls' = [calls EXCEPT ![t] = @ + 1]
    /\ op' = [op EXCEPT ![t] = name]
    /\ want' = [want EXCEPT ![t] = c]
    /\ res' = [res EXCEPT ![t] = "none"]
    /\ Goto(t, l)
    /\ UNCHANGED <<modvars, nimvars, evvars, dtvars, hand>>

\* start and newPrivateKey go through ensureContext; every other call ("use")
\* submits to the context it finds; a createNode whose JSON does not parse
\* returns before it takes the lock and is not a call here.
CallStart(t) == Begin(t, "start", None, "lockCreate")
CallNewPrivateKey(t) == Begin(t, "newPrivateKey", None, "lockCreate")
CallCreateNode(t) ==
    \E c \in Configs : Begin(t, "createNode", c, "lockCreate")
CallUse(t) == Begin(t, "use", None, "submit")
CallStatus(t) == Begin(t, "status", None, "status")

\* Mutant: the create path takes no lock.
LockCreateNoLock(t) ==
    /\ pc[t] = "lockCreate"
    /\ createLock' = t
    /\ Goto(t, "hasCtx")
    /\ UNCHANGED <<ctx, cfg, initError, gate, nimvars, evvars, dtvars,
                   op, want, hand, res, calls>>

LockCreate(t) ==
    /\ pc[t] = "lockCreate" /\ createLock = None
    /\ createLock' = t
    /\ Goto(t, "hasCtx")
    /\ UNCHANGED <<ctx, cfg, initError, gate, nimvars, evvars, dtvars,
                   op, want, hand, res, calls>>

\* ensureContext is content with the context it finds; createNode is not.
FoundContext(t) ==
    /\ pc[t] = "hasCtx" /\ CtxLockShared /\ ctx # None
    /\ createLock' = None
    /\ IF op[t] = "createNode"
       THEN Return(t, "exists")
       ELSE Goto(t, "submit") /\ UNCHANGED <<res, hand>>
    /\ UNCHANGED <<ctx, cfg, initError, gate, nimvars, evvars, dtvars,
                   op, want, calls>>

FoundNoContext(t) ==
    /\ pc[t] = "hasCtx" /\ CtxLockShared /\ ctx = None
    /\ Goto(t, IF op[t] = "createNode" THEN "apply" ELSE "create")
    /\ UNCHANGED <<modvars, nimvars, evvars, dtvars, op, want, hand, res, calls>>

ApplyOptions(t) ==
    /\ pc[t] = "apply"
    /\ cfg' = want[t]
    /\ Goto(t, "create")
    /\ UNCHANGED <<ctx, initError, createLock, gate, nimvars, evvars, dtvars,
                   op, want, hand, res, calls>>

\* createContext, up to the spawn: the last create's error is forgotten.
ClearInitError(t) ==
    /\ pc[t] = "create"
    /\ initError' = FALSE
    /\ Goto(t, "spawn")
    /\ UNCHANGED <<ctx, cfg, createLock, gate, nimvars, evvars, dtvars,
                   op, want, hand, res, calls>>

\* libp2p_ctx_create copies the options and starts to build context c.
Spawn(t, c) ==
    /\ pc[t] = "spawn" /\ nim[c] = "unborn"
    /\ nim' = [nim EXCEPT ![c] = "creating"]
    /\ cfgOf' = [cfgOf EXCEPT ![c] = cfg]
    /\ hand' = [hand EXCEPT ![t] = c]
    /\ Goto(t, "await")
    /\ UNCHANGED <<modvars, gateMem, owned, reapers, evvars, dtvars,
                   op, want, res, calls>>

SpawnRefused(t) ==
    /\ pc[t] = "spawn"
    /\ Goto(t, "fail")
    /\ UNCHANGED <<modvars, nimvars, evvars, dtvars, op, want, hand, res, calls>>

\* The create replied within kNewContextTimeoutMs.  A failed reply and a reply
\* without a context are both an error.
AwaitReplied(t) ==
    /\ pc[t] = "await" /\ nim[hand[t]] # "creating"
    /\ Goto(t, IF nim[hand[t]] = "failed" THEN "fail" ELSE "adopt")
    /\ UNCHANGED <<modvars, nimvars, evvars, dtvars, op, want, hand, res, calls>>

\* Mutant: the future is dropped, not reaped.
AwaitTimedOutDropped(t) ==
    /\ pc[t] = "await" /\ nim[hand[t]] = "creating"
    /\ Goto(t, "fail")
    /\ UNCHANGED <<modvars, nimvars, evvars, dtvars, op, want, hand, res, calls>>

\* It did not: the future goes to a detached reaper.
AwaitTimedOut(t) ==
    /\ pc[t] = "await" /\ nim[hand[t]] = "creating"
    /\ reapers' = reapers \cup {hand[t]}
    /\ Goto(t, "fail")
    /\ UNCHANGED <<modvars, gateMem, owned, nim, cfgOf, evvars, dtvars,
                   op, want, hand, res, calls>>

\* Mutant: ensureContext reports success whatever createContext returned.
FailCreateUnseen(t) ==
    /\ pc[t] = "fail"
    /\ initError' = TRUE
    /\ createLock' = None
    /\ Goto(t, "submit")
    /\ UNCHANGED <<ctx, cfg, gate, nimvars, evvars, dtvars, op, want, hand,
                   res, calls>>

\* Mutant: m_createLock is still held after a failed create.
FailCreateLocked(t) ==
    /\ pc[t] = "fail"
    /\ initError' = TRUE
    /\ Return(t, "failed")
    /\ UNCHANGED <<ctx, cfg, createLock, gate, nimvars, evvars, dtvars, op,
                   want, calls>>

FailCreate(t) ==
    /\ pc[t] = "fail"
    /\ initError' = TRUE
    /\ createLock' = None
    /\ Return(t, "failed")
    /\ UNCHANGED <<ctx, cfg, gate, nimvars, evvars, dtvars, op, want, calls>>

\* createContext takes m_ctxLock unique and sets ctx ...
Adopt(t) ==
    /\ pc[t] = "adopt" /\ CtxLockUnique
    /\ ctx' = hand[t]
    /\ Goto(t, "install")
    /\ UNCHANGED <<cfg, initError, createLock, gate, nimvars, evvars, dtvars,
                   op, want, hand, res, calls>>

\* ... and, under the same lock, a new gate with both listeners on it.
Install(t) ==
    /\ pc[t] = "install"
    /\ gate' = hand[t]
    /\ gateMem' = [gateMem EXCEPT ![hand[t]] = "live"]
    /\ owned' = [owned EXCEPT ![hand[t]] = TRUE]
    /\ createLock' = None
    /\ IF op[t] = "createNode"
       THEN Return(t, "ok")
       ELSE /\ Goto(t, "submit")
            /\ hand' = [hand EXCEPT ![t] = None]
            /\ UNCHANGED res
    /\ UNCHANGED <<ctx, cfg, initError, nim, cfgOf, reapers, evvars, dtvars,
                   op, want, calls>>

\* callSyncWith: m_ctxLock is taken shared and ctx read ...
Submit(t) ==
    /\ pc[t] = "submit" /\ CtxLockShared
    /\ hand' = [hand EXCEPT ![t] = ctx]
    /\ Goto(t, "invoke")
    /\ UNCHANGED <<modvars, nimvars, evvars, dtvars, op, want, res, calls>>

\* ... a null context is the caller's error ...
InvokeNone(t) ==
    /\ pc[t] = "invoke" /\ hand[t] = None
    /\ Return(t, "noCtx")
    /\ UNCHANGED <<modvars, nimvars, evvars, dtvars, op, want, calls>>

\* ... any other is handed to the binding before the lock is let go.
Invoke(t) ==
    /\ pc[t] = "invoke" /\ hand[t] # None
    /\ \/ /\ Goto(t, "awaitReply")
          /\ hand' = [hand EXCEPT ![t] = None]
          /\ UNCHANGED res
       \/ Return(t, "failed")
    /\ UNCHANGED <<modvars, nimvars, evvars, dtvars, op, want, calls>>

\* awaitReply holds no lock; a reply or the timeout ends it.
AwaitReply(t) ==
    /\ pc[t] = "awaitReply"
    /\ \E r \in {"ok", "failed"} : Return(t, r)
    /\ UNCHANGED <<modvars, nimvars, evvars, dtvars, op, want, calls>>

\* status: hasCtx under the lock, then m_initError under none.
StatusCheck(t) ==
    /\ pc[t] = "status" /\ CtxLockShared
    /\ IF ctx # None
       THEN Return(t, "ok")
       ELSE Goto(t, "statusRead") /\ UNCHANGED <<res, hand>>
    /\ UNCHANGED <<modvars, nimvars, evvars, dtvars, op, want, calls>>

StatusRead(t) ==
    /\ pc[t] = "statusRead"
    /\ Return(t, IF initError THEN "failed" ELSE "noCtx")
    /\ UNCHANGED <<modvars, nimvars, evvars, dtvars, op, want, calls>>

-----------------------------------------------------------------------------
(* The Nim side, its event threads, and the reapers.                       *)

\* A create is answered, however late, with a context or without one.
NimCreated(c) ==
    /\ nim[c] = "creating"
    /\ \E s \in {"live", "failed"} : nim' = [nim EXCEPT ![c] = s]
    /\ UNCHANGED <<modvars, gateMem, owned, cfgOf, reapers, thrvars, evvars,
                   dtvars>>

\* Mutant: the late context is looked at and left alone.
ReapForgets(c) ==
    /\ c \in reapers /\ nim[c] # "creating"
    /\ reapers' = reapers \ {c}
    /\ UNCHANGED <<modvars, gateMem, owned, nim, cfgOf, thrvars, evvars, dtvars>>

\* reapLateContext: destroys a context that arrives after its caller left.
Reap(c) ==
    /\ c \in reapers /\ nim[c] # "creating"
    /\ reapers' = reapers \ {c}
    /\ IF nim[c] = "failed"
       THEN UNCHANGED nim
       ELSE \E s \in {"destroyed", "zombie"} : nim' = [nim EXCEPT ![c] = s]
    /\ UNCHANGED <<modvars, gateMem, owned, cfgOf, thrvars, evvars, dtvars>>

\* A registered listener fires until the teardown has joined its thread.
Fire(c) ==
    /\ ev[c] = "idle" /\ gateMem[c] # "none"
    /\ nim[c] \in {"live", "destroying", "zombie"}
    /\ ev' = [ev EXCEPT ![c] = "atGate"]
    /\ UNCHANGED <<modvars, nimvars, thrvars, evHand, dtvars>>

\* It locks the gate shared and reads the owner: null sends it away.
EnterGate(c) ==
    /\ ev[c] = "atGate"
    /\ ev' = [ev EXCEPT ![c] = IF owned[c] THEN "inModule" ELSE "idle"]
    /\ UNCHANGED <<modvars, nimvars, thrvars, evHand, dtvars>>

\* It queues the stream or the message and emits; or the stream queue is full.
Deliver(c) ==
    /\ ev[c] = "inModule"
    /\ \E l \in {"idle", "release"} : ev' = [ev EXCEPT ![c] = l]
    /\ UNCHANGED <<modvars, nimvars, thrvars, evHand, dtvars>>

\* releaseStreamNoWait: callAsync takes m_ctxLock shared and reads ctx ...
EvSubmit(c) ==
    /\ ev[c] = "release" /\ CtxLockShared
    /\ evHand' = [evHand EXCEPT ![c] = ctx]
    /\ ev' = [ev EXCEPT ![c] = "invoke"]
    /\ UNCHANGED <<modvars, nimvars, thrvars, dtvars>>

\* ... and submits the release to it, if there is one, without waiting.
EvInvoke(c) ==
    /\ ev[c] = "invoke"
    /\ evHand' = [evHand EXCEPT ![c] = None]
    /\ ev' = [ev EXCEPT ![c] = "idle"]
    /\ UNCHANGED <<modvars, nimvars, thrvars, dtvars>>

-----------------------------------------------------------------------------
(* The destructor.                                                         *)

BeginUnload ==
    /\ dtor = "none"
    /\ \A t \in Threads : pc[t] \notin CreatePath
    /\ dtor' = "detach"
    /\ UNCHANGED <<modvars, nimvars, thrvars, evvars, doomed>>

\* Mutant: the owner is taken away under a listener that is inside.
DetachListenersNoWait ==
    /\ dtor = "detach"
    /\ owned' = IF gate = None THEN owned ELSE [owned EXCEPT ![gate] = FALSE]
    /\ dtor' = "swap"
    /\ UNCHANGED <<modvars, gateMem, nim, cfgOf, reapers, thrvars, evvars, doomed>>

\* detachListeners: waits for a listener inside, then takes the owner away.
DetachListeners ==
    /\ dtor = "detach"
    /\ gate # None => ev[gate] \notin InListener
    /\ owned' = IF gate = None THEN owned ELSE [owned EXCEPT ![gate] = FALSE]
    /\ dtor' = "swap"
    /\ UNCHANGED <<modvars, gateMem, nim, cfgOf, reapers, thrvars, evvars, doomed>>

\* Mutant: the unload joins the reapers, and with them creates that may never be
\* answered.
SwapContextJoinsReapers ==
    /\ dtor = "swap" /\ CtxLockUnique /\ reapers = {}
    /\ doomed' = ctx
    /\ ctx' = None
    /\ dtor' = IF ctx = None THEN "left" ELSE "destroy"
    /\ UNCHANGED <<cfg, initError, createLock, gate, nimvars, thrvars, evvars>>

\* Mutant: ctx still points at the context being torn down.
SwapContextKeepsPointer ==
    /\ dtor = "swap" /\ CtxLockUnique
    /\ doomed' = ctx
    /\ dtor' = IF ctx = None THEN "left" ELSE "destroy"
    /\ UNCHANGED <<modvars, nimvars, thrvars, evvars>>

SwapContext ==
    /\ dtor = "swap" /\ CtxLockUnique
    /\ doomed' = ctx
    /\ ctx' = None
    /\ dtor' = IF ctx = None THEN "left" ELSE "destroy"
    /\ UNCHANGED <<cfg, initError, createLock, gate, nimvars, thrvars, evvars>>

DestroyCall ==
    /\ dtor = "destroy"
    /\ nim' = [nim EXCEPT ![doomed] = "destroying"]
    /\ dtor' = "join"
    /\ UNCHANGED <<modvars, gateMem, owned, cfgOf, reapers, thrvars, evvars, doomed>>

\* The teardown succeeds once it has joined the event thread ...
Joined ==
    /\ dtor = "join" /\ ev[doomed] = "idle"
    /\ nim' = [nim EXCEPT ![doomed] = "destroyed"]
    /\ dtor' = "dropGate"
    /\ UNCHANGED <<modvars, gateMem, owned, cfgOf, reapers, thrvars, evvars, doomed>>

\* ... or fails, and leaves the thread running.
JoinFailed ==
    /\ dtor = "join"
    /\ nim' = [nim EXCEPT ![doomed] = "zombie"]
    /\ dtor' = "dropGate"
    /\ UNCHANGED <<modvars, gateMem, owned, cfgOf, reapers, thrvars, evvars, doomed>>

\* Mutant: the gate is freed after a failed teardown too.
DropGateAlways ==
    /\ dtor = "dropGate"
    /\ gateMem' = [gateMem EXCEPT ![gate] = "deleted"]
    /\ gate' = None
    /\ dtor' = "left"
    /\ UNCHANGED <<ctx, cfg, initError, createLock, owned, nim, cfgOf, reapers,
                   thrvars, evvars, doomed>>

\* Only a clean teardown frees the gate.
DropGate ==
    /\ dtor = "dropGate"
    /\ gateMem' = [gateMem EXCEPT ![gate] =
                     IF nim[doomed] = "destroyed" THEN "deleted" ELSE @]
    /\ gate' = None
    /\ dtor' = "left"
    /\ UNCHANGED <<ctx, cfg, initError, createLock, owned, nim, cfgOf, reapers,
                   thrvars, evvars, doomed>>

\* The host reclaims the module once no call is running.
FreeModule ==
    /\ dtor = "left"
    /\ \A t \in Threads : pc[t] = "idle"
    /\ dtor' = "freed"
    /\ UNCHANGED <<modvars, nimvars, thrvars, evvars, doomed>>

Terminated == dtor = "freed" /\ UNCHANGED vars

-----------------------------------------------------------------------------
Calls(t) == \/ CallStart(t) \/ CallNewPrivateKey(t) \/ CallCreateNode(t)
            \/ CallUse(t) \/ CallStatus(t)

Create(t) ==
    \/ FoundContext(t) \/ FoundNoContext(t) \/ ApplyOptions(t)
    \/ ClearInitError(t) \/ SpawnRefused(t) \/ AwaitReplied(t)
    \/ AwaitTimedOut(t) \/ FailCreate(t) \/ Install(t)
    \/ \E c \in Ctxs : Spawn(t, c)

Use(t) == \/ Submit(t) \/ InvokeNone(t) \/ Invoke(t) \/ AwaitReply(t)
          \/ StatusCheck(t) \/ StatusRead(t)

Listener(c) == EnterGate(c) \/ Deliver(c) \/ EvSubmit(c) \/ EvInvoke(c)

Destructor == \/ DetachListeners \/ SwapContext \/ DestroyCall \/ Joined
              \/ JoinFailed \/ DropGate \/ FreeModule

Next ==
    \/ \E t \in Threads :
         Calls(t) \/ LockCreate(t) \/ Create(t) \/ Adopt(t) \/ Use(t)
    \/ \E c \in Ctxs : NimCreated(c) \/ Reap(c) \/ Fire(c) \/ Listener(c)
    \/ BeginUnload \/ Destructor \/ Terminated

Spec == Init /\ [][Next]_vars

\* A thread that can run does, and a lock that keeps coming free is got in the
\* end.  Nothing makes the host call, the Nim side answer a create, a listener
\* fire, the host unload, or a teardown fail.
Fairness ==
    /\ \A t \in Threads : /\ WF_vars(Create(t) \/ Use(t))
                          /\ SF_vars(LockCreate(t) \/ Adopt(t))
    /\ \A c \in Ctxs : WF_vars(Reap(c)) /\ WF_vars(Listener(c))
    /\ SF_vars(DetachListeners \/ SwapContext \/ Joined)
    /\ WF_vars(DestroyCall \/ DropGate \/ FreeModule)

FairSpec == Spec /\ Fairness

-----------------------------------------------------------------------------
(* Properties.                                                             *)

\* Every variable stays in its type; a thread past the spawn has a context in
\* hand.
TypeOK ==
    /\ ctx \in Ctxs \cup {None} /\ cfg \in Configs /\ initError \in BOOLEAN
    /\ createLock \in Threads \cup {None} /\ gate \in Ctxs \cup {None}
    /\ gateMem \in [Ctxs -> {"none", "live", "deleted"}]
    /\ owned \in [Ctxs -> BOOLEAN]
    /\ nim \in [Ctxs -> {"unborn", "creating", "live", "failed",
                         "destroying", "destroyed", "zombie"}]
    /\ cfgOf \in [Ctxs -> Configs \cup {None}]
    /\ reapers \subseteq Ctxs
    /\ pc \in [Threads -> {"idle"} \cup CreatePath \cup CallPath \cup StatusPath]
    /\ op \in [Threads -> {"none", "start", "newPrivateKey", "createNode",
                           "use", "status"}]
    /\ want \in [Threads -> Configs \cup {None}]
    /\ hand \in [Threads -> Ctxs \cup {None}]
    /\ res \in [Threads -> {"none", "ok", "exists", "noCtx", "failed"}]
    /\ calls \in [Threads -> 0 .. MaxCalls]
    /\ ev \in [Ctxs -> {"idle", "atGate"} \cup InListener]
    /\ evHand \in [Ctxs -> Ctxs \cup {None}]
    /\ dtor \in {"none", "detach", "swap", "destroy", "join", "dropGate",
                 "left", "freed"}
    /\ doomed \in Ctxs \cup {None}
    /\ \A t \in Threads :
         pc[t] \in {"await", "adopt", "install"} => hand[t] \in Ctxs

\* A context handed to the binding is one the Nim side still has: the check
\* and the submit are one section of m_ctxLock (plugin.h:400), and a destroy
\* cannot fall between them.
SubmitsToLiveContext ==
    /\ \A t \in Threads : pc[t] = "invoke" /\ hand[t] # None
                            => nim[hand[t]] = "live"
    /\ \A c \in Ctxs : ev[c] = "invoke" /\ evHand[c] # None
                            => nim[evHand[c]] = "live"

\* A listener that has read an owner uses a module whose context is neither
\* being torn down nor gone (detachListeners waits it out, plugin.cpp:268).
ListenerKeepsModule ==
    \A c \in Ctxs : ev[c] \in InListener => dtor \in {"none", "detach"}

\* The gate a listener is about to lock has not been deleted: a failed
\* teardown leaves it to the event thread (plugin.cpp:294).
GateOutlivesListener ==
    \A c \in Ctxs : ev[c] # "idle" => gateMem[c] = "live"

\* A context the Nim side has, or may still hand out, is somebody's: it is the
\* module's, a caller waits for it or is adopting it, a reaper waits for it, or
\* the destructor holds it.
NoOrphanContext ==
    \A c \in Ctxs : nim[c] \in {"creating", "live"} =>
        \/ ctx = c
        \/ c \in reapers
        \/ doomed = c
        \/ \E t \in Threads : pc[t] \in {"await", "adopt"} /\ hand[t] = c

\* Two threads that both find no context do not both end up with one: at most
\* one context ever has the module's listeners on it.
OneNode ==
    \A c, d \in Ctxs : gateMem[c] # "none" /\ gateMem[d] # "none" => c = d

\* The node runs the options the module holds: neither a refused createNode nor
\* one that came late replaces the options of a running node.
RunsItsOptions == ctx # None => cfgOf[ctx] = cfg

\* No thread rebuilds the buffers the config views borrow while another is
\* rebuilding them, filling in the key, or handing them to a create
\* (plugin.h:313, 341).
BuffersUnraced ==
    \A t, u \in Threads : t # u /\ pc[t] = "apply"
                            => pc[u] \notin {"apply", "create", "spawn"}

\* A start or newPrivateKey whose ensureContext succeeded submits to a context,
\* unless the module is being unloaded.
EnsureContextHolds ==
    \A t \in Threads : pc[t] \in CallPath /\ op[t] \in {"start", "newPrivateKey"}
                         /\ dtor \in {"none", "detach"} => ctx # None

\* Every reader of ctx finds no context or a fully installed one
\* (tests/sync.cpp:270).
InstalledWhole ==
    ctx # None /\ CtxLockShared => gate = ctx /\ gateMem[ctx] = "live"

\* ctx is set once, cleared once, and never replaced by another context.
NeverReplaced == [][ctx' # ctx => ctx = None \/ ctx' = None]_vars

\* The module keeps the promise of NodeHandle.
Handle == INSTANCE NodeHandle WITH
    NoConfig <- None,
    phase <- IF dtor \notin {"none", "detach", "swap"} THEN "gone"
             ELSE IF ctx = None THEN "none" ELSE "node",
    requested <- cfg,
    running <- IF ctx = None THEN None ELSE cfgOf[ctx]
HandleSpec == Handle!Spec

\* Every API call returns, whether or not the Nim side answers it.
CallsReturn == \A t \in Threads : pc[t] # "idle" ~> pc[t] = "idle"

\* An unload ends, whatever the listeners are doing.
UnloadEnds == dtor = "detach" ~> dtor = "freed"

\* A context that arrives after its caller gave up is destroyed.
LateContextsReaped ==
    \A c \in Ctxs : c \in reapers /\ nim[c] = "live"
                      ~> nim[c] \in {"destroyed", "zombie"}

\* A reader on another thread while start() installs the context (tests/sync.cpp:270)
\* shares no unguarded memory with it: no thread in status() is about to read the
\* string m_initError while another is about to assign it.
StatusReadUnraced ==
    \A t, u \in Threads : pc[t] = "statusRead" => pc[u] \notin {"create", "fail"}

-----------------------------------------------------------------------------
(* The inductive invariant behind the safety properties.                   *)

Holding == CreatePath \ {"lockCreate"}
Creating == {"apply", "create", "spawn", "await", "fail", "adopt"}

\* m_createLock is held exactly on the create path, on which no unload begins;
\* past the hasCtx check its holder has seen no context, and nobody else can
\* bring one.
LockInv ==
    /\ \A t \in Threads : pc[t] \in Holding <=> createLock = t
    /\ dtor # "none" => \A t \in Threads : pc[t] \notin CreatePath
    /\ \A t \in Threads : pc[t] \in Creating => ctx = None
    /\ \A t \in Threads : pc[t] = "install" => ctx = hand[t] /\ gate = None

\* What is in hand: the context just spawned, or the one read under m_ctxLock,
\* which cannot change before the lock is let go.  A createNode has options.
HandInv ==
    /\ \A t \in Threads :
         /\ pc[t] = "await" => nim[hand[t]] \in {"creating", "live", "failed"}
         /\ pc[t] \in {"adopt", "install"} => nim[hand[t]] = "live"
         /\ pc[t] \in {"await", "adopt", "install"}
              => hand[t] \notin reapers /\ cfgOf[hand[t]] = cfg
         /\ pc[t] = "invoke" => hand[t] = ctx
         /\ pc[t] = "apply" => op[t] = "createNode"
         /\ op[t] = "createNode" => want[t] \in Configs
    /\ \A c \in Ctxs : ev[c] = "invoke" => evHand[c] = ctx

\* The reapers wait for contexts that are not the module's.
ReapInv ==
    \A c \in reapers : nim[c] \in {"creating", "live", "failed"} /\ c # ctx

\* The module's context is live and runs the module's options.
CtxInv ==
    ctx # None => /\ nim[ctx] = "live" /\ cfgOf[ctx] = cfg
                  /\ dtor \in {"none", "detach", "swap"}
                  /\ CtxLockShared => gate = ctx

\* A gate is in use from the install until the teardown, by one context; an
\* owner is on it until the listeners are detached; a listener is inside only
\* under an owner.
GateInv ==
    /\ \A c \in Ctxs : gateMem[c] # "none" =>
         /\ dtor \in {"none", "detach", "swap"} => c = ctx /\ gate = c
         /\ dtor \notin {"none", "detach", "swap"} => c = doomed
    /\ gate # None => gateMem[gate] = "live"
    /\ \A c \in Ctxs : gateMem[c] = "deleted" => nim[c] = "destroyed"
    /\ \A c \in Ctxs : owned[c] => gate = c /\ dtor \in {"none", "detach"}
    /\ \A c \in Ctxs : ev[c] # "idle" => gateMem[c] = "live"
    /\ \A c \in Ctxs : ev[c] \in InListener => owned[c]

\* The destructor, step by step.
DtorInv ==
    /\ dtor \in {"destroy", "join", "dropGate"} =>
         doomed \in Ctxs /\ gate = doomed /\ doomed \notin reapers
    /\ dtor = "destroy" => nim[doomed] = "live"
    /\ dtor = "join" => nim[doomed] = "destroying"
    /\ dtor = "dropGate" => nim[doomed] \in {"destroyed", "zombie"}
    /\ dtor = "dropGate" /\ nim[doomed] = "destroyed" => ev[doomed] = "idle"
    /\ dtor \in {"left", "freed"} =>
         /\ gate = None
         /\ doomed # None => nim[doomed] \in {"destroyed", "zombie"}
    /\ dtor \in {"none", "detach", "swap"} => doomed = None
    /\ \A c \in Ctxs : ev[c] # "idle" => nim[c] # "destroyed"

IInv == /\ TypeOK /\ LockInv /\ HandInv /\ ReapInv
        /\ CtxInv /\ GateInv /\ DtorInv /\ NoOrphanContext
=============================================================================
