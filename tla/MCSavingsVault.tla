--------------------------- MODULE MCSavingsVault ---------------------------
(* Model values for SavingsVault.                                          *)
EXTENDS SavingsVault, TLC

CONSTANTS ann, ben, cat, club, own, usdt, gusd, dai, daily

\* What members move at once in a community vault: so much that a penalty is
\* larger than what its division rounds away.
Unit == 12

MCCreatorOf == [v \in Vaults |-> ann]
MCUp == [t \in Tokens |-> IF t = gusd THEN 2 ELSE 1]
MCDown == [t \in Tokens |-> IF t = dai THEN 2 ELSE 1]

\* Room for three deposits of the first token, and for one or two of another.
MCMaxHeld == [t \in Tokens |-> IF t = usdt THEN 3 * Unit ELSE IF t = dai THEN Unit ELSE 4]

Symmetry == Permutations(Members \ {ann})

\* Bound: an account is frozen only while no change of its limits is on file and
\* nothing was lost; a freeze reads neither, and neither reads a freeze.
CalmFreeze ==
    \/ blocked = {}
    \/ /\ \A v \in Vaults, m \in Members : proposal[<<v, m>>] = {}
       /\ \A t \in Tokens : market[t].lost = 0

\* Bound: the lending pool rounds a unit away once per token, and while no account
\* is frozen and no change of limits is on file, which read nothing of the pool.
RoundedOnce ==
    \A t \in Tokens :
        \/ books[t].rounded = 0
        \/ /\ books[t].rounded = 1 /\ blocked = {}
           /\ \A v \in Vaults, m \in Members : proposal[<<v, m>>] = {}
=============================================================================
