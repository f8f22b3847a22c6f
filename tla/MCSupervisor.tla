---------------------------- MODULE MCSupervisor ----------------------------
(* Finite instances of Supervisor for TLC.                                 *)
EXTENDS Supervisor, TLC

CONSTANTS s1, s2

(* The reconnect settings of a config, each kind once: never retry, retry  *)
(* for ever, retry a bounded number of times.                              *)
Disabled == [enabled |-> FALSE, endless |-> TRUE, longest |-> 1]
Endless == [enabled |-> TRUE, endless |-> TRUE, longest |-> 1]
Bounded == [enabled |-> TRUE, endless |-> FALSE, longest |-> 1]
AllSettings == {Disabled, Endless, Bounded}

SessionSymmetry == Permutations(Session)
=============================================================================
