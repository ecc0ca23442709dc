---------------------------- MODULE MCSyncBridge ----------------------------
(* SyncBridge on a small instance: three calls share two addresses, so the   *)
(* address of a finished call is given out again while another call, maybe    *)
(* timed out, still has its callback to come.                                 *)
EXTENDS SyncBridge
=============================================================================
