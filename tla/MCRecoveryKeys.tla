--------------------------- MODULE MCRecoveryKeys ---------------------------
(* Model values for RecoveryKeysHistory.  The owners play the same part,   *)
(* so permuting them is a symmetry.                                        *)
EXTENDS RecoveryKeysHistory, TLC

CONSTANTS alice, bob, cold, nobody

Symmetry == Permutations(Owners)
=============================================================================
