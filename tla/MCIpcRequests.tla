---------------------------- MODULE MCIpcRequests ----------------------------
(* IpcRequests on small instances. Its run checks liveness, so connections   *)
(* are not declared symmetric.                                               *)
EXTENDS IpcRequests
=============================================================================
