---------------------------- MODULE MCVaultPage ----------------------------
(* Model values for VaultPage: a savings vault of two coins that is the     *)
(* user's own, and a community pot of one coin that somebody else created.  *)
EXTENDS VaultPage, TLC

CONSTANTS savings, pot, usdt, usdc

MCTakes == (savings :> <<usdt, usdc>>) @@ (pot :> <<usdc>>)

MCWith(f) == f @@
    [amounts |-> {1}, wallet |-> 3, slots |-> {1, 2}, reads |-> {}, arrivals |-> {},
     faults |-> 0, moves |-> 3]

\* Deposits of two sizes that share an allowance; sections, selections and
\* reads in any order; withdrawals; the deposit address beside the keeper;
\* the earning switches.
MCDeposits == MCWith([acts |-> {"deposit", "select"}, amounts |-> {1, 2}, faults |-> 1])
MCSections == MCWith([acts |-> {"select", "bypass"}, reads |-> Sections])
MCWithdrawals == MCWith([acts |-> {"select", "withdraw", "penalty", "deposit"},
                         reads |-> {"balances"}, moves |-> 2])
MCSweeps == MCWith([acts |-> {"refresh", "keeper", "select"}, reads |-> {"balances"},
                    arrivals |-> {<<savings, usdt>>, <<savings, usdc>>, <<pot, usdc>>},
                    slots |-> {1}, moves |-> 2, faults |-> 1])
MCEarning == MCWith([acts |-> {"mode", "modes", "execute", "select"},
                     reads |-> {"earning"}, moves |-> 2, faults |-> 1])

MCBounds == {MCDeposits, MCSections, MCWithdrawals, MCSweeps, MCEarning}
=============================================================================
