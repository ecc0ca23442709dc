----------------------------- MODULE NodeHandle -----------------------------
(***************************************************************************)
(* What the module promises the host about its one libp2p node, with no    *)
(* locks, no Nim contexts and no threads: until a node exists its options  *)
(* may be replaced; the node that appears runs the options in force at     *)
(* that moment; from then on neither the node nor its options change until *)
(* the module is unloaded, after which there is no node again.             *)
(***************************************************************************)
CONSTANTS Configs, NoConfig

VARIABLES phase,     \* "none" | "node" | "gone"
          requested, \* the options a create would use now
          running    \* the options of the node, NoConfig when there is none

vars == <<phase, requested, running>>

TypeOK ==
    /\ phase \in {"none", "node", "gone"}
    /\ requested \in Configs
    /\ running \in Configs \cup {NoConfig}

Init ==
    /\ phase = "none"
    /\ requested \in Configs
    /\ running = NoConfig

\* New options are taken only while there is no node.
Configure ==
    /\ phase = "none"
    /\ requested' \in Configs
    /\ UNCHANGED <<phase, running>>

\* A node appears, and runs what was requested.
Appear ==
    /\ phase = "none"
    /\ phase' = "node"
    /\ running' = requested
    /\ UNCHANGED requested

\* The module is unloaded, with or without a node.
Unload ==
    /\ phase # "gone"
    /\ phase' = "gone"
    /\ running' = NoConfig
    /\ UNCHANGED requested

Next == Configure \/ Appear \/ Unload

Spec == Init /\ [][Next]_vars
=============================================================================
