---------------------------- MODULE MCConfigFile -----------------------------
(* Finite instances of ConfigFile for TLC.                                 *)
EXTENDS ConfigFile, TLC

CONSTANTS l1, l2, a, b

(* A config with one profile, which is active.                             *)
OneActive == [Default EXCEPT !.profiles[a] = "some", !.active = a]

(* What the user may leave in the file's place.                            *)
Written == {Missing, Broken, OneActive}

(* The lanes are alike.                                                    *)
Lanes == Permutations(Lane)
=============================================================================
