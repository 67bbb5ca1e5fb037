-------------------------- MODULE SpendingWindows --------------------------
(***************************************************************************)
(* SpendingRules with a ledger: what was metered in each window, second by *)
(* second, since lock-in.  The contract keeps one counter and one date per *)
(* window and forgets everything else; the ledger is what the counter has  *)
(* to stand for.  Recovery hands it on, because the same funds and the     *)
(* same limits continue at another address.                                *)
(***************************************************************************)
EXTENDS SpendingRules, Functions

VARIABLE ledger      \* ledger[s][n][t]: metered in window n of s at time t

windowsVars == <<rulesVars, ledger>>

Blank == [n \in Names |-> [t \in 0 .. MaxTime |-> 0]]

Recorded(s, amount, skipped) ==
    ledger' = [ledger EXCEPT ![s] = [n \in Names |->
        IF period[s][n].active /\ n \notin skipped
        THEN [ledger[s][n] EXCEPT ![now] = @ + amount] ELSE ledger[s][n]]]

WindowsInit == RulesInit /\ ledger = [s \in Scopes |-> Blank]

\* Lock-in opens a blank ledger.
Opened == ledger' = [s \in Scopes |->
              IF committed'[s] # committed[s] THEN Blank ELSE ledger[s]]

WindowsNext ==
    \/ Tick /\ UNCHANGED ledger
    \/ \E s \in Accounts : AccountKeyStep(s) /\ Opened
    \/ \E s \in Scopes \ Accounts : VaultStep(s) /\ Opened
    \/ \E s, to \in Accounts :
          MigrateSpendingRules(s, to) /\ ledger' = [ledger EXCEPT ![to] = ledger[s]]
    \/ \E s \in Scopes, amount \in Amounts, balance \in Balances :
          Spend(s, amount, balance) /\ Recorded(s, amount, {})
    \/ \E s \in Scopes, amount \in Amounts, skip \in Names :
          SpendWithBypass(s, amount, skip) /\ Recorded(s, amount, {skip})

WindowsSpec == WindowsInit /\ [][WindowsNext]_windowsVars

\* What window n of s saw in the seconds `times'.
Seen(s, n, times) == SumFunctionOnSet(ledger[s][n], times \cap (0 .. MaxTime))

-----------------------------------------------------------------------------
(* Properties.                                                             *)

\* The counter never falls short of what was spent since its window began,
\* through every refresh, proposal, bypass and recovery (_checkAndSpend,
\* updateSpendingWithBypass, migratePeriodsTo).
CounterHoldsTheWindow ==
    \A s \in Scopes, n \in Names :
        committed[s] /\ period[s][n].exists
        => Seen(s, n, period[s][n].lastReset .. MaxTime) <= period[s][n].spent

\* However the windows fall, no stretch of time as long as the window sees
\* more than twice its limit: one window's worth before a restart and one
\* after it.  Recovery in between makes no third.  (While no limit proposal
\* has run; percentages follow the balance and are left out.)
NoStretchSeesThreeLimits ==
    \A s \in Scopes, n \in Names, t \in 0 .. MaxTime :
        (/\ committed[s] /\ period[s][n].active /\ ~percentage[s]
         /\ \A q \in Scopes : \A p \in proposal[q] : ~p.executed)
        => Seen(s, n, t .. t + period[s][n].duration - 1) <= 2 * period[s][n].limit
=============================================================================
