------------------------- MODULE MCSpendingWindows -------------------------
(* Model values for SpendingWindows.                                       *)
EXTENDS SpendingWindows, TLC

CONSTANTS alice, bob, daily, cora, dan, pia

Symmetry == Permutations(Accounts)
=============================================================================
