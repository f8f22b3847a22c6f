---------------------------- MODULE MCIpcSession ----------------------------
(* Finite instances of IpcSession for TLC.  The model shares nothing       *)
(* between two connections but the snapshot, which changes by itself too,  *)
(* so that one connection meets everything a second could do to it.        *)
EXTENDS IpcSession

CONSTANTS p
=============================================================================
