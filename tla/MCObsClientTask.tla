-------------------------- MODULE MCObsClientTask ---------------------------
(* Finite instances of ObsClientTask for TLC: the request of the           *)
(* handshake and two more.                                                 *)
EXTENDS ObsClientTask

CONSTANTS version, c1, c2
=============================================================================
