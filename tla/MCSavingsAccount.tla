-------------------------- MODULE MCSavingsAccount --------------------------
(* Model values for SavingsAccount, and the scales of its tokens: usdt has *)
(* the six decimals of the limits, dai more and gusd fewer of them.  A     *)
(* factor of 2 stands for 10 ** 12 and for 10 ** 4.  Accounts play the     *)
(* same part, so permuting them is a symmetry.                             *)
EXTENDS SavingsAccount, TLC

CONSTANTS alice, bob, carol, cold, nobody, daily, weekly, usdt, dai, gusd, shop, home

MCUp == [t \in Tokens |-> IF t = gusd THEN 2 ELSE 1]
MCDown == [t \in Tokens |-> IF t = dai THEN 2 ELSE 1]

Symmetry == Permutations(Accounts)

\* Bound: at any moment the accounts have either periods and bypasses or
\* destinations; withdrawTo alone reads both, as two separate conditions.
LimitsOrAddresses ==
    \/ \A u \in Accounts : request[u] = {} /\ \A d \in Destinations : listed[u][d] = 0
    \/ \A u \in Accounts : bypass[u] = {} /\ \A n \in Names : ~period[u][n].exists
=============================================================================
