--------------------------- MODULE SavingsAccount ---------------------------
(***************************************************************************)
(* The savings account: SavingsCore holds the tokens and the balances, and *)
(* every way out of it asks the other contracts - the spending rules, the  *)
(* recovery module, the approved destinations, the bypass requests.  This  *)
(* module composes them.  Every action is one transaction.                 *)
(*                                                                         *)
(* The tokens revert when a transfer fails and take no fee, as the         *)
(* deployed stablecoins do.  Native coin cannot be deposited.  The scopes  *)
(* are accounts alone: CommunityScopes and PersonalScopes are empty.       *)
(***************************************************************************)
EXTENDS SpendingRules, Functions

CONSTANTS
    Tokens,          \* the stablecoins
    Up, Down,        \* 10 ** |decimals - 6|: what a token's amount is
                     \* multiplied by, or divided by, to be in limit units
    Sums,            \* token amounts that callers use
    MaxHeld,         \* bound on what the core holds of a token
    MaxBypasses,     \* bound on the bypass requests on file per account
    Users, ColdKeys, AskedKeys, NoKey, KeyChangeDelay,     \* RecoveryKeys
    Destinations, Titles, AddressDelay, MaxRequests, MaxEntries
                                                           \* WithdrawalAddresses

ASSUME AccountAssumption ==
    /\ PersonalScopes = {} /\ CommunityScopes = {}
    /\ Accounts \subseteq Users /\ IsFiniteSet(Accounts)
    /\ Up \in [Tokens -> Nat \ {0}] /\ Down \in [Tokens -> Nat \ {0}]
    /\ Sums \subseteq Nat \ {0} /\ MaxHeld \in Nat /\ MaxBypasses \in Nat
    /\ AddressDelay \in Nat \ {0} /\ MaxRequests \in Nat /\ MaxEntries \in Nat

ASSUME AccountKeysAssumption ==
    /\ ColdKeys \subseteq Users /\ NoKey \notin Users
    /\ AskedKeys \subseteq Users \cup {NoKey} /\ KeyChangeDelay \in Nat \ {0}

\* The amounts that the rules are looked at with include what is metered here.
ASSUME MeteredAssumption ==
    /\ 0 \in Balances /\ Sums \subseteq Amounts
    /\ \A t \in Tokens, amount \in Sums : (amount * Up[t]) \div Down[t] \in Amounts

VARIABLES
    recoveryKey, frozen, recovered, recoveredTo, keyChange, pendingKey,
    listed, request,
    balance,         \* SavingsCore.userTokenBalances[user][token]
    coreHolds,       \* IERC20(token).balanceOf(SavingsCore)
    bypassHolds,     \* IERC20(token).balanceOf(BypassSystemModule)
    bypass           \* userBypassRequests[user], the ones that exist

keyVars == <<recoveryKey, frozen, recovered, recoveredTo, keyChange, pendingKey>>
addressVars == <<listed, request>>
fundVars == <<balance, coreHolds, bypassHolds>>
ruleVars == <<period, periodCount, unlockDelay, percentage, committed, totalLocked,
              proposal>>
accountVars == <<now, ruleVars, keyVars, addressVars, fundVars, bypass>>

Keys == INSTANCE RecoveryKeys WITH Owners <- Accounts

Blocked == [u \in Accounts |-> Keys!IsFrozen(u)]

Addresses == INSTANCE WithdrawalAddresses
                WITH Holders <- Accounts, blocked <- Blocked

\* <<skip, amount, token, filed>> is what the contract hashes into the id; a
\* request stays on file once executed.
BypassRequest == [skip : Names, amount : Sums, token : Tokens, filed : Nat,
                  executeAfter : Nat, executed : BOOLEAN]

AccountInit ==
    /\ RulesInit
    /\ Keys!KeysInit
    /\ Addresses!AddressesInit
    /\ balance = [u \in Accounts |-> [t \in Tokens |-> 0]]
    /\ coreHolds = [t \in Tokens |-> 0]
    /\ bypassHolds = [t \in Tokens |-> 0]
    /\ bypass = [u \in Accounts |-> {}]

-----------------------------------------------------------------------------
(* The core: deposits and withdrawals.                                     *)

\* Limits are kept at six decimals; a token with more of them loses the rest.
ToLimitUnits(t, amount) == (amount * Up[t]) \div Down[t]

\* Anyone pays, for themselves or for a beneficiary, frozen or not.
Deposit(u, t, amount) ==
    /\ coreHolds[t] + amount <= MaxHeld
    /\ balance' = [balance EXCEPT ![u][t] = @ + amount]
    /\ coreHolds' = [coreHolds EXCEPT ![t] = @ + amount]
    /\ UNCHANGED <<now, ruleVars, keyVars, addressVars, bypassHolds, bypass>>

Debited(u, t, amount) == balance' = [balance EXCEPT ![u][t] = @ - amount]

\* Mutant: the amount is metered as it is, whatever the token's decimals.
MeteredRaw(u, t, amount) == CheckAndSpend(u, amount, 0)

\* Mutant: the amount is metered without a look at the limits.
MeteredUnchecked(u, t, amount) ==
    period' = [period EXCEPT ![u] =
                  [n \in Names |-> Metered(@[n], ToLimitUnits(t, amount))]]

MeteredOutflow(u, t, amount) == CheckAndSpend(u, ToLimitUnits(t, amount), 0)

\* Mutant: the freeze is not looked at.
MayPayOutAlways(u, t, amount) == amount <= balance[u][t]

MayPayOut(u, t, amount) == ~Keys!IsFrozen(u) /\ amount <= balance[u][t]

Withdraw(u, t, amount) ==
    /\ MayPayOut(u, t, amount)
    /\ MeteredOutflow(u, t, amount)
    /\ Debited(u, t, amount)
    /\ coreHolds[t] >= amount
    /\ coreHolds' = [coreHolds EXCEPT ![t] = @ - amount]
    /\ UNCHANGED <<now, periodCount, unlockDelay, percentage, committed, totalLocked,
                   proposal, keyVars, addressVars, bypassHolds, bypass>>

WithdrawTo(u, t, amount, d) ==
    /\ Addresses!IsValidWithdrawalDestination(u, d)
    /\ Withdraw(u, t, amount)

-----------------------------------------------------------------------------
(* The bypass: one withdrawal that skips one window, after its wait.       *)

BypassWait(u, skip) == UnlockDelay(u, skip)

RequestLimitBypass(u, t, amount, skip) ==
    /\ MayPayOut(u, t, amount)
    /\ FindPeriodLimit(u, skip) > 0
    /\ \A r \in bypass[u] : <<r.skip, r.amount, r.token, r.filed>> # <<skip, amount, t, now>>
    /\ Cardinality(bypass[u]) < MaxBypasses
    /\ bypass' = [bypass EXCEPT ![u] = @ \cup
            {[skip |-> skip, amount |-> amount, token |-> t, filed |-> now,
              executeAfter |-> now + BypassWait(u, skip), executed |-> FALSE]}]
    /\ UNCHANGED <<now, ruleVars, keyVars, addressVars, fundVars>>

Ready(r) == ~r.executed /\ now >= r.executeAfter

\* The amount is checked and metered as it is, and the tokens leave the bypass
\* module's own holdings.
ExecuteBypassWithdrawal(u, r) ==
    /\ r \in bypass[u]
    /\ Ready(r)
    /\ MayPayOut(u, r.token, r.amount)
    /\ CheckLimitsWithBypass(u, r.amount, r.skip)
    /\ UpdateSpendingWithBypass(u, r.amount, r.skip)
    /\ Debited(u, r.token, r.amount)
    /\ bypassHolds[r.token] >= r.amount
    /\ bypassHolds' = [bypassHolds EXCEPT ![r.token] = @ - r.amount]
    /\ bypass' = [bypass EXCEPT ![u] = (@ \ {r}) \cup {[r EXCEPT !.executed = TRUE]}]
    /\ UNCHANGED <<now, periodCount, unlockDelay, percentage, committed, totalLocked,
                   proposal, keyVars, addressVars, coreHolds>>

CancelBypassRequest(u, r) ==
    /\ r \in bypass[u]
    /\ ~r.executed
    /\ bypass' = [bypass EXCEPT ![u] = @ \ {r}]
    /\ UNCHANGED <<now, ruleVars, keyVars, addressVars, fundVars>>

\* Tokens sent to the bypass module from outside: no contract does it, but
\* anybody can, and a bypass is paid from nothing else.
Donate(t, amount) ==
    /\ bypassHolds[t] + amount <= MaxHeld
    /\ bypassHolds' = [bypassHolds EXCEPT ![t] = @ + amount]
    /\ UNCHANGED <<now, ruleVars, keyVars, addressVars, balance, coreHolds, bypass>>

-----------------------------------------------------------------------------
(* Recovery.                                                               *)

\* Mutant: a refusal to migrate is swallowed.
RulesMovedIfPossible(u, newOwner) ==
    IF (\A n \in Names : ~period[newOwner][n].exists) /\ ~committed[newOwner]
    THEN MigratePeriodsTo(u, newOwner) /\ MigrateSetupTo(u, newOwner)
    ELSE UNCHANGED <<period, periodCount, unlockDelay, committed, totalLocked>>

\* The first call moves the rules, and is refused where they cannot move.
RulesMoved(u, newOwner) ==
    IF recovered[u]
    THEN UNCHANGED <<period, periodCount, unlockDelay, committed, totalLocked>>
    ELSE MigratePeriodsTo(u, newOwner) /\ MigrateSetupTo(u, newOwner)

\* Mutant: the balances are copied, as the rules are.
BalancesCopied(u, newOwner, tokens) ==
    balance' = [balance EXCEPT
       ![newOwner] = [t \in Tokens |-> IF t \in tokens THEN @[t] + balance[u][t] ELSE @[t]]]

BalancesMoved(u, newOwner, tokens) ==
    balance' = [balance EXCEPT
       ![u] = [t \in Tokens |-> IF t \in tokens THEN 0 ELSE @[t]],
       ![newOwner] = [t \in Tokens |-> IF t \in tokens THEN @[t] + balance[u][t] ELSE @[t]]]

\* The caller names the tokens whose balances move; the rest may be fetched by
\* another call.
RecoverOwnership(u, newOwner, tokens) ==
    /\ Keys!RecoverKeys(u, newOwner)
    /\ RulesMoved(u, newOwner)
    /\ BalancesMoved(u, newOwner, tokens)
    /\ UNCHANGED <<now, percentage, proposal, addressVars, coreHolds, bypassHolds, bypass>>

-----------------------------------------------------------------------------
(* The next-state relation.                                                *)

RulesStep(u) == AccountKeyStep(u) /\ UNCHANGED <<keyVars, addressVars, fundVars, bypass>>

KeysStep(u) ==
    Keys!KeyStep(u) /\ UNCHANGED <<now, ruleVars, addressVars, fundVars, bypass>>

AddressesStep(u) ==
    Addresses!AddressStep(u) /\ UNCHANGED <<now, ruleVars, keyVars, fundVars, bypass>>

FundsStep(u) ==
    \/ \E t \in Tokens, amount \in Sums :
          \/ Deposit(u, t, amount)
          \/ Withdraw(u, t, amount)
          \/ \E d \in Destinations : WithdrawTo(u, t, amount, d)
          \/ \E skip \in Names : RequestLimitBypass(u, t, amount, skip)
    \/ \E r \in bypass[u] : ExecuteBypassWithdrawal(u, r) \/ CancelBypassRequest(u, r)

AccountTick == Tick /\ UNCHANGED <<keyVars, addressVars, fundVars, bypass>>

AccountNext ==
    \/ AccountTick
    \/ \E u \in Accounts : RulesStep(u) \/ KeysStep(u) \/ AddressesStep(u) \/ FundsStep(u)
    \/ \E u, newOwner \in Accounts, tokens \in SUBSET Tokens :
          RecoverOwnership(u, newOwner, tokens)
    \/ \E t \in Tokens, amount \in Sums : Donate(t, amount)

AccountSpec == AccountInit /\ [][AccountNext]_accountVars

-----------------------------------------------------------------------------
(* Properties.                                                             *)

\* Every variable of the account itself keeps its type, no balance is
\* negative and a request on file has waited no less than the shortest wait
\* when it becomes ready.
AccountTypeOK ==
    /\ balance \in [Accounts -> [Tokens -> Nat]]
    /\ coreHolds \in [Tokens -> Nat] /\ bypassHolds \in [Tokens -> Nat]
    /\ bypass \in [Accounts -> SUBSET BypassRequest]
    /\ \A u \in Accounts : \A r \in bypass[u] : r.executeAfter >= r.filed + MinUnlockDelay
    /\ Addresses!AddressesTypeOK

TotalOwed(t) == SumFunctionOnSet([u \in Accounts |-> balance[u][t]], Accounts)

\* The core always holds what it owes: every withdrawal that the rules admit
\* can be paid, whatever deposits, bypasses and recoveries came before.
CoreCoversBalances ==
    /\ AccountTypeOK
    /\ \A t \in Tokens : TotalOwed(t) <= coreHolds[t]

\* Whether the windows of u other than `skipped' have counted `units' in this
\* step and still keep within their limits.
Counted(u, units, skipped) ==
    \A n \in Names \ skipped :
        period[u][n].active =>
            /\ period'[u][n].spent = Refreshed(period[u][n]).spent + units
            /\ period'[u][n].spent <= period[u][n].limit

\* Nothing leaves an account unmetered: what its balance loses, other than to
\* the account it was recovered to, is counted in limit units by every active
\* window within its limit - or belongs to a bypass that was filed for one
\* window, has served its wait and was not used before, and every other
\* window has counted it.
MeteredOrBypassed ==
    [][\A u \in Accounts, t \in Tokens :
          LET paid == balance[u][t] - balance'[u][t]
          IN  (paid > 0 /\ ~recovered'[u]) =>
                 \/ Counted(u, ToLimitUnits(t, paid), {})
                 \/ \E r \in bypass[u] :
                       /\ ~r.executed /\ r.token = t /\ r.amount = paid
                       /\ now >= r.filed + MinUnlockDelay
                       /\ r \notin bypass'[u]
                       /\ Counted(u, paid, {r.skip})]_accountVars

\* A frozen account loses nothing but to a recovery, and then no token leaves:
\* every unit is credited to the one address the account was recovered to
\* (notFrozen, enforceNotFrozen).
FrozenMeansNoOutflow ==
    [][\A u \in Accounts, t \in Tokens :
          (Keys!IsFrozen(u) /\ balance'[u][t] < balance[u][t]) =>
             /\ recovered'[u]
             /\ UNCHANGED <<coreHolds, bypassHolds>>
             /\ LET v == recoveredTo'[u]
                IN  balance'[v][t] = balance[v][t] + balance[u][t]]_accountVars

\* Recovery is no way out of the limits: the address that receives the funds
\* of a locked-in account is locked in, under rules that admit no more than
\* the old ones did at that moment.
FundsStayBound ==
    [][\A u, v \in Accounts, t \in Tokens :
          (/\ u # v /\ committed[u] /\ ~recovered[u]
           /\ balance'[u][t] < balance[u][t] /\ balance'[v][t] > balance[v][t])
          => /\ committed'[v]
             /\ \A amount \in Amounts :
                   LimitsAdmit(v, amount, 0)' => LimitsAdmit(u, amount, 0)]_accountVars

\* Payouts, bypasses and recoveries touch the rules only in ways that the
\* spending rules allow by themselves, so that what was shown of them alone
\* holds in the account (SavingsCore.withdraw, _migrateSpendingRules).
ImplementsRules == RulesSpec

\* After lock-in a destination becomes valid only while the account is not
\* frozen and by a request that was on file for the whole delay and is used up,
\* with the lock-in, the freezes and the recoveries of the real modules.
NewDestinationServed == Addresses!NewDestinationServed

\* The same for the withdrawal addresses: the real lock-in is for good, as
\* that module takes for granted, and only its own calls change the lists.
ImplementsAddresses == Addresses!AddressesSpec

\* A bypass always pays in the end: one that has served its wait, of an account
\* that is not frozen, has the balance and keeps within the other limits, can
\* be paid (SECURITY.md:29-31).
MaturedBypassPays ==
    \A u \in Accounts : \A r \in bypass[u] :
        (/\ Ready(r) /\ MayPayOut(u, r.token, r.amount)
         /\ CheckLimitsWithBypass(u, r.amount, r.skip))
        => bypassHolds[r.token] >= r.amount
=============================================================================
