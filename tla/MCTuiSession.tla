---------------------------- MODULE MCTuiSession ----------------------------
(* A finite instance of TuiSession for TLC: the constants are given by the *)
(* configuration.                                                          *)
EXTENDS TuiSession
=============================================================================
