----------------------- MODULE SavingsAccount_proofs -----------------------
(***************************************************************************)
(* Proofs about the composed account, for any accounts, tokens, scales and *)
(* amounts.  Every transaction of the account is, for each of the three    *)
(* components, one of its own steps or none: so that what was proved of    *)
(* the spending rules, of the recovery keys and of the destinations alone  *)
(* holds where all of them run together over shared lock-in and freeze.    *)
(***************************************************************************)
EXTENDS SavingsAccount, SpendingRules_proofs, SumTheorems

-----------------------------------------------------------------------------
(* What is true of the funds and the bypass requests in every state.       *)

\* The bypasses on file name a window, a sum and a token, and have their wait.
BypassOK ==
    /\ bypass \in [Accounts -> SUBSET BypassRequest]
    /\ \A u \in Accounts : \A r \in bypass[u] : r.executeAfter >= r.filed + MinUnlockDelay

FundsOK ==
    /\ balance \in [Accounts -> [Tokens -> Nat]]
    /\ coreHolds \in [Tokens -> Nat] /\ bypassHolds \in [Tokens -> Nat]

\* What a token amount is in limit units is an amount that the rules know.
LEMMA UnitsAreAmounts ==
    ASSUME NEW t \in Tokens, NEW amount \in Sums
    PROVE  /\ ToLimitUnits(t, amount) \in Amounts /\ amount \in Amounts
           /\ 0 \in Balances
  BY MeteredAssumption DEF ToLimitUnits

LEMMA AccountsAreScopes == Scopes = Accounts
  BY AccountAssumption DEF Scopes, CommunityScopes

-----------------------------------------------------------------------------
(* The spending rules.                                                     *)

\* A payout is a Spend, whoever it goes to.
LEMMA WithdrawIsSpend ==
    ASSUME NEW u \in Accounts, NEW t \in Tokens, NEW amount \in Sums,
           Withdraw(u, t, amount)
    PROVE  RulesNext
  <1>1. Spend(u, ToLimitUnits(t, amount), 0)
    BY DEF Withdraw, MeteredOutflow, Spend
  <1>2. CustodianStep(u)
    BY <1>1, UnitsAreAmounts DEF CustodianStep
  <1> QED BY <1>2, AccountsAreScopes DEF RulesNext

\* So is a bypass, of the one window it names.
LEMMA BypassIsSpend ==
    ASSUME BypassOK, NEW u \in Accounts, NEW r \in bypass[u],
           ExecuteBypassWithdrawal(u, r)
    PROVE  RulesNext
  <1>1. r.amount \in Amounts /\ r.skip \in Names
    BY UnitsAreAmounts DEF BypassOK, BypassRequest
  <1>2. SpendWithBypass(u, r.amount, r.skip)
    BY DEF ExecuteBypassWithdrawal, SpendWithBypass
  <1>3. CustodianStep(u)
    BY <1>1, <1>2 DEF CustodianStep
  <1> QED BY <1>3, AccountsAreScopes DEF RulesNext

\* The first recovery of an account hands on its rules, a repeated one leaves
\* all rules alone.
LEMMA RecoveryIsMigration ==
    ASSUME NEW u \in Accounts, NEW newOwner \in Accounts, NEW tokens \in SUBSET Tokens,
           RecoverOwnership(u, newOwner, tokens)
    PROVE  RulesNext \/ UNCHANGED rulesVars
  <1>1. CASE recovered[u]
    BY <1>1 DEF RecoverOwnership, RulesMoved, rulesVars
  <1>2. CASE ~recovered[u]
    <2>1. MigrateSpendingRules(u, newOwner)
      BY <1>2 DEF RecoverOwnership, RulesMoved, MigrateSpendingRules
    <2> QED BY <2>1 DEF AccountStep, RulesNext
  <1> QED BY <1>1, <1>2

\* Every transaction is a step of the rules or leaves them alone.
LEMMA RulesRefinement ==
    ASSUME BypassOK, [AccountNext]_accountVars
    PROVE  [RulesNext]_rulesVars
  <1>1. CASE AccountTick
    BY <1>1 DEF AccountTick, RulesNext
  <1>2. ASSUME NEW u \in Accounts, RulesStep(u)  PROVE RulesNext
    BY <1>2 DEF RulesStep, RulesNext, AccountStep
  <1>3. ASSUME NEW u \in Accounts, KeysStep(u) \/ AddressesStep(u)
        PROVE  UNCHANGED rulesVars
    BY <1>3 DEF KeysStep, AddressesStep, ruleVars, rulesVars
  <1>4. ASSUME NEW u \in Accounts, FundsStep(u)  PROVE [RulesNext]_rulesVars
    <2>1. ASSUME NEW t \in Tokens, NEW amount \in Sums,
                 \/ Deposit(u, t, amount)
                 \/ \E skip \in Names : RequestLimitBypass(u, t, amount, skip)
          PROVE  UNCHANGED rulesVars
      BY <2>1 DEF Deposit, RequestLimitBypass, ruleVars, rulesVars
    <2>2. ASSUME NEW t \in Tokens, NEW amount \in Sums,
                 \/ Withdraw(u, t, amount)
                 \/ \E d \in Destinations : WithdrawTo(u, t, amount, d)
          PROVE  RulesNext
      BY <2>2, WithdrawIsSpend DEF WithdrawTo
    <2>3. ASSUME NEW r \in bypass[u], ExecuteBypassWithdrawal(u, r)
          PROVE  RulesNext
      BY <2>3, BypassIsSpend
    <2>4. ASSUME NEW r \in bypass[u], CancelBypassRequest(u, r)
          PROVE  UNCHANGED rulesVars
      BY <2>4 DEF CancelBypassRequest, ruleVars, rulesVars
    <2> QED BY <1>4, <2>1, <2>2, <2>3, <2>4 DEF FundsStep
  <1>5. ASSUME NEW u \in Accounts, NEW newOwner \in Accounts, NEW tokens \in SUBSET Tokens,
               RecoverOwnership(u, newOwner, tokens)
        PROVE  [RulesNext]_rulesVars
    BY <1>5, RecoveryIsMigration
  <1>6. ASSUME NEW t \in Tokens, NEW amount \in Sums, Donate(t, amount)
        PROVE  UNCHANGED rulesVars
    BY <1>6 DEF Donate, ruleVars, rulesVars
  <1>7. CASE UNCHANGED accountVars
    BY <1>7 DEF accountVars, ruleVars, rulesVars
  <1> QED BY <1>1, <1>2, <1>3, <1>4, <1>5, <1>6, <1>7 DEF AccountNext
-----------------------------------------------------------------------------
(* The funds and the requests.                                             *)

\* A payout takes from one balance no more than is there.
LEMMA DebitedType ==
    ASSUME FundsOK, NEW u \in Accounts, NEW t \in Tokens, NEW amount \in Nat,
           amount <= balance[u][t], Debited(u, t, amount)
    PROVE  balance' \in [Accounts -> [Tokens -> Nat]]
  <1>1. balance[u][t] - amount \in Nat
    BY DEF FundsOK
  <1> QED BY <1>1 DEF FundsOK, Debited

\* What the four calls that move tokens leave of the types; a holding is never
\* overdrawn, because a transfer that would do it reverts.
LEMMA FundsStepType ==
    ASSUME FundsOK, BypassOK, NEW u \in Accounts, FundsStep(u)
    PROVE  FundsOK'
  <1>1. ASSUME NEW t \in Tokens, NEW amount \in Sums, Deposit(u, t, amount)
        PROVE  FundsOK'
    BY <1>1, AccountAssumption DEF Deposit, FundsOK
  <1>2. ASSUME NEW t \in Tokens, NEW amount \in Sums, Withdraw(u, t, amount)
        PROVE  FundsOK'
    <2>1. amount \in Nat /\ coreHolds[t] - amount \in Nat
      BY <1>2, AccountAssumption DEF Withdraw, FundsOK
    <2>2. balance' \in [Accounts -> [Tokens -> Nat]]
      BY <1>2, <2>1, DebitedType DEF Withdraw, MayPayOut
    <2> QED BY <1>2, <2>1, <2>2 DEF Withdraw, FundsOK
  <1>3. ASSUME NEW r \in bypass[u], ExecuteBypassWithdrawal(u, r)
        PROVE  FundsOK'
    <2>0. r \in BypassRequest
      BY DEF BypassOK
    <2>1. r.token \in Tokens /\ r.amount \in Nat
      BY <2>0, AccountAssumption DEF BypassRequest
    <2>2. bypassHolds[r.token] - r.amount \in Nat
      BY <1>3, <2>1 DEF ExecuteBypassWithdrawal, FundsOK
    <2>3. balance' \in [Accounts -> [Tokens -> Nat]]
      BY <1>3, <2>1, DebitedType DEF ExecuteBypassWithdrawal, MayPayOut
    <2>4. /\ bypassHolds' = [bypassHolds EXCEPT ![r.token] = @ - r.amount]
          /\ UNCHANGED coreHolds
      BY <1>3 DEF ExecuteBypassWithdrawal
    <2> QED BY <2>1, <2>2, <2>3, <2>4 DEF FundsOK
  <1>4. ASSUME \/ \E t \in Tokens, amount \in Sums, skip \in Names :
                     RequestLimitBypass(u, t, amount, skip)
               \/ \E r \in bypass[u] : CancelBypassRequest(u, r)
        PROVE  FundsOK'
    BY <1>4 DEF RequestLimitBypass, CancelBypassRequest, fundVars, FundsOK
  <1> QED BY <1>1, <1>2, <1>3, <1>4 DEF FundsStep, WithdrawTo

\* A recovery credits one balance and clears another.
LEMMA RecoveryFundsType ==
    ASSUME FundsOK, NEW u \in Accounts, NEW newOwner \in Accounts,
           NEW tokens \in SUBSET Tokens, RecoverOwnership(u, newOwner, tokens)
    PROVE  FundsOK'
  BY DEF RecoverOwnership, BalancesMoved, FundsOK

\* Requests are filed with the wait of their window and otherwise only marked
\* or dropped.
LEMMA BypassStepType ==
    ASSUME RulesTypeOK, FundsOK, BypassOK, NEW u \in Accounts, FundsStep(u)
    PROVE  BypassOK'
  <1>1. ASSUME NEW t \in Tokens, NEW amount \in Sums, NEW skip \in Names,
               RequestLimitBypass(u, t, amount, skip)
        PROVE  BypassOK'
    <2> DEFINE new == [skip |-> skip, amount |-> amount, token |-> t, filed |-> now,
                       executeAfter |-> now + BypassWait(u, skip), executed |-> FALSE]
    <2>1. now \in Nat /\ UnlockDelay(u, skip) \in MinUnlockDelay .. MaxUnlockDelay
      BY AccountsAreScopes, UnlockDelayBounds DEF RulesTypeOK
    <2>2. new \in BypassRequest /\ new.executeAfter >= new.filed + MinUnlockDelay
      BY <2>1, RulesAssumption DEF BypassRequest, BypassWait
    <2>3. bypass' = [bypass EXCEPT ![u] = @ \cup {new}]
      BY <1>1 DEF RequestLimitBypass
    <2> HIDE DEF new
    <2> QED BY <2>2, <2>3 DEF BypassOK
  <1>2. ASSUME NEW r \in bypass[u], ExecuteBypassWithdrawal(u, r)
        PROVE  BypassOK'
    <2> DEFINE used == [r EXCEPT !.executed = TRUE]
    <2>0. r \in BypassRequest /\ r.executeAfter >= r.filed + MinUnlockDelay
      BY DEF BypassOK
    <2>1. used \in BypassRequest /\ used.executeAfter >= used.filed + MinUnlockDelay
      BY <2>0 DEF BypassRequest
    <2>2. bypass' = [bypass EXCEPT ![u] = (@ \ {r}) \cup {used}]
      BY <1>2 DEF ExecuteBypassWithdrawal
    <2> HIDE DEF used
    <2> QED BY <2>1, <2>2 DEF BypassOK
  <1>3. ASSUME NEW r \in bypass[u], CancelBypassRequest(u, r)
        PROVE  BypassOK'
    BY <1>3 DEF CancelBypassRequest, BypassOK
  <1>4. ASSUME NEW t \in Tokens, NEW amount \in Sums,
               Deposit(u, t, amount) \/ Withdraw(u, t, amount)
        PROVE  BypassOK'
    BY <1>4 DEF Deposit, Withdraw, BypassOK
  <1> QED BY <1>1, <1>2, <1>3, <1>4 DEF FundsStep, WithdrawTo

-----------------------------------------------------------------------------
(* The invariant of the composition, and what it implements.               *)

AccountInv == RulesTypeOK /\ FundsOK /\ BypassOK

LEMMA AccountInvStep ==
    ASSUME AccountInv, [AccountNext]_accountVars
    PROVE  AccountInv'
  <1> USE DEF AccountInv
  <1>1. RulesTypeOK'
    BY RulesRefinement, RulesTypeStep
  <1>2. CASE UNCHANGED <<fundVars, bypass>>
    BY <1>1, <1>2 DEF fundVars, FundsOK, BypassOK
  <1>3. ASSUME NEW u \in Accounts, FundsStep(u)  PROVE AccountInv'
    BY <1>1, <1>3, FundsStepType, BypassStepType
  <1>4. ASSUME NEW u \in Accounts, NEW newOwner \in Accounts, NEW tokens \in SUBSET Tokens,
               RecoverOwnership(u, newOwner, tokens)
        PROVE  AccountInv'
    BY <1>1, <1>4, RecoveryFundsType DEF RecoverOwnership, BypassOK
  <1>5. ASSUME NEW t \in Tokens, NEW amount \in Sums, Donate(t, amount)
        PROVE  AccountInv'
    BY <1>1, <1>5, AccountAssumption DEF Donate, FundsOK, BypassOK
  <1>6. CASE \/ AccountTick
             \/ \E u \in Accounts : RulesStep(u) \/ KeysStep(u) \/ AddressesStep(u)
             \/ UNCHANGED accountVars
    BY <1>2, <1>6 DEF AccountTick, RulesStep, KeysStep, AddressesStep, accountVars
  <1> QED BY <1>3, <1>4, <1>5, <1>6 DEF AccountNext

LEMMA AccountInvariant == AccountSpec => []AccountInv
  <1>1. AccountInit => AccountInv
    BY RulesAssumption DEF AccountInit, RulesInit, AccountInv, RulesTypeOK, FundsOK,
       BypassOK, AbsentPeriod, Period
  <1>2. AccountInv /\ [AccountNext]_accountVars => AccountInv'
    BY AccountInvStep
  <1> QED BY <1>1, <1>2, PTL DEF AccountSpec

\* Payouts, bypasses and recoveries touch the rules only as the spending rules
\* allow (SavingsCore.withdraw, executeBypassWithdrawal, _migrateSpendingRules).
THEOREM RulesImplemented == AccountSpec => ImplementsRules
  <1>1. AccountInit => RulesInit
    BY DEF AccountInit
  <1>2. AccountInv /\ [AccountNext]_accountVars => [RulesNext]_rulesVars
    BY RulesRefinement DEF AccountInv
  <1> QED BY <1>1, <1>2, AccountInvariant, PTL DEF AccountSpec, RulesSpec, ImplementsRules

\* Hence, in the account as in the rules alone: locked rules change only by
\* served proposals, time alone forgives what was spent, and room grows only
\* after a served proposal, and a recovery keeps the lock - whatever is
\* deposited, paid, bypassed or recovered.
THEOREM LimitsHoldInTheAccount ==
    AccountSpec => /\ LockedRulesChangeOnlyByProposal
                   /\ SpentIsForgottenOnlyByTime
                   /\ RoomNeverGrowsForFree
                   /\ LockInSurvives
  BY RulesImplemented, LockedRulesProof, SpentProof, RoomProof, LockInProof
     DEF ImplementsRules

-----------------------------------------------------------------------------
(* The freeze.                                                             *)

\* The keys are looked up by every address; nothing else of their types is
\* needed here.
KeysShape == recovered \in [Users -> BOOLEAN] /\ DOMAIN recoveredTo = Users

LEMMA KeysShapeStep ==
    ASSUME KeysShape, [AccountNext]_accountVars
    PROVE  KeysShape'
  <1>1. CASE UNCHANGED <<recovered, recoveredTo>>
    BY <1>1 DEF KeysShape
  <1>2. ASSUME NEW u \in Accounts, NEW newOwner \in Accounts, NEW tokens \in SUBSET Tokens,
               RecoverOwnership(u, newOwner, tokens)
        PROVE  KeysShape'
    BY <1>2 DEF RecoverOwnership, Keys!RecoverKeys, KeysShape
  <1>3. ASSUME NEW u \in Accounts, KeysStep(u)
        PROVE  UNCHANGED <<recovered, recoveredTo>>
    BY <1>3 DEF KeysStep, Keys!KeyStep, Keys!SetRecoveryAddress, Keys!AcceptRecoveryRole,
       Keys!UpdateRecoveryAddress, Keys!RequestRecoveryAddressChange,
       Keys!CancelRecoveryKeyProposal, Keys!ExecuteRecoveryAddressChange,
       Keys!CancelRecoveryAddressChange, Keys!Freeze, Keys!Unfreeze
  <1>4. ASSUME NEW u \in Accounts, FundsStep(u)
        PROVE  UNCHANGED <<recovered, recoveredTo>>
    BY <1>4 DEF FundsStep, Deposit, Withdraw, WithdrawTo, RequestLimitBypass,
       ExecuteBypassWithdrawal, CancelBypassRequest, keyVars
  <1>5. CASE \/ AccountTick
             \/ \E u \in Accounts : RulesStep(u) \/ AddressesStep(u)
             \/ \E t \in Tokens, amount \in Sums : Donate(t, amount)
             \/ UNCHANGED accountVars
    BY <1>1, <1>5 DEF AccountTick, RulesStep, AddressesStep, Donate, accountVars, keyVars
  <1> QED BY <1>1, <1>2, <1>3, <1>4, <1>5 DEF AccountNext

\* Of the transactions three can lower a balance: two payouts, which refuse a
\* frozen account, and a recovery, which lets nothing out of the core.
LEMMA FrozenStep ==
    ASSUME FundsOK, KeysShape, BypassOK, [AccountNext]_accountVars,
           NEW u \in Accounts, NEW t \in Tokens,
           Keys!IsFrozen(u), balance'[u][t] < balance[u][t]
    PROVE  /\ recovered'[u]
           /\ UNCHANGED <<coreHolds, bypassHolds>>
           /\ balance'[recoveredTo'[u]][t] = balance[recoveredTo'[u]][t] + balance[u][t]
  <1>1. balance' # balance
    BY DEF FundsOK
  <1>2. ASSUME NEW v \in Accounts, FundsStep(v)  PROVE FALSE
    <2>1. ASSUME NEW s \in Tokens, NEW amount \in Sums, Deposit(v, s, amount)
          PROVE  FALSE
      BY <2>1, AccountAssumption DEF Deposit, FundsOK
    <2>2. ASSUME NEW s, NEW amount, MayPayOut(v, s, amount), Debited(v, s, amount)
          PROVE  FALSE
      <3>1. v # u
        BY <2>2 DEF MayPayOut
      <3> QED BY <2>2, <3>1 DEF Debited, FundsOK
    <2> QED BY <1>1, <1>2, <2>1, <2>2 DEF FundsStep, Withdraw, WithdrawTo, RequestLimitBypass,
            ExecuteBypassWithdrawal, CancelBypassRequest, fundVars
  <1>3. PICK v \in Accounts, newOwner \in Accounts, tokens \in SUBSET Tokens :
            RecoverOwnership(v, newOwner, tokens)
    BY <1>1, <1>2 DEF AccountNext, AccountTick, RulesStep, KeysStep, AddressesStep, Donate,
       fundVars, accountVars
  <1>4. v # newOwner
    BY <1>3 DEF RecoverOwnership, Keys!RecoverKeys, Keys!MayRecoverTo
  <1>5. v = u /\ t \in tokens
    BY <1>3, <1>4 DEF RecoverOwnership, BalancesMoved, FundsOK
  <1>6. recovered'[u] /\ recoveredTo'[u] = newOwner
    BY <1>3, <1>5, AccountAssumption DEF RecoverOwnership, Keys!RecoverKeys, KeysShape
  <1>7. balance'[newOwner][t] = balance[newOwner][t] + balance[u][t]
    BY <1>3, <1>4, <1>5 DEF RecoverOwnership, BalancesMoved, FundsOK
  <1> QED BY <1>3, <1>6, <1>7 DEF RecoverOwnership

\* A frozen account loses nothing but to a recovery, and then no token leaves
\* (notFrozen, enforceNotFrozen).
THEOREM FrozenProof == AccountSpec => FrozenMeansNoOutflow
  <1>1. AccountInit => KeysShape
    BY DEF AccountInit, Keys!KeysInit, KeysShape
  <1>2. KeysShape /\ [AccountNext]_accountVars => KeysShape'
    BY KeysShapeStep
  <1>3. AccountInv /\ KeysShape /\ [AccountNext]_accountVars
        => [\A u \in Accounts, t \in Tokens :
              (Keys!IsFrozen(u) /\ balance'[u][t] < balance[u][t]) =>
                 /\ recovered'[u]
                 /\ UNCHANGED <<coreHolds, bypassHolds>>
                 /\ LET v == recoveredTo'[u]
                    IN  balance'[v][t] = balance[v][t] + balance[u][t]]_accountVars
    BY FrozenStep DEF AccountInv
  <1> QED BY <1>1, <1>2, <1>3, AccountInvariant, PTL DEF AccountSpec, FrozenMeansNoOutflow

-----------------------------------------------------------------------------
(* What is paid is counted.                                                *)

\* An account's limits are amounts, never percentages: no call of an account
\* says otherwise.
LimitsAreAmounts == \A s \in Scopes : percentage[s] = FALSE

LEMMA PercentageUntouched ==
    ASSUME [AccountNext]_accountVars
    PROVE  UNCHANGED percentage
  <1>1. ASSUME NEW u \in Accounts, RulesStep(u)  PROVE UNCHANGED percentage
    BY <1>1 DEF RulesStep, AccountKeyStep, SetPeriodLimit, SetPeriodLimits,
       CommitSetupWithPeriods, CommitInitialSetup, ProposeLimitRemoval,
       RecalculateTotalLockedValue, ProposalStep, ProposeLimitChange,
       ProposeUnlockDelayChange, File, ExecuteLimitProposal, CancelLimitProposal
  <1>2. ASSUME NEW u \in Accounts, FundsStep(u)  PROVE UNCHANGED percentage
    BY <1>2 DEF FundsStep, Deposit, Withdraw, WithdrawTo, RequestLimitBypass,
       ExecuteBypassWithdrawal, CancelBypassRequest, ruleVars
  <1> QED BY <1>1, <1>2 DEF AccountNext, AccountTick, Tick, KeysStep, AddressesStep,
          RecoverOwnership, Donate, accountVars, ruleVars

\* A metered window counts the amount on top of what it had, from zero if it
\* had run out.
LEMMA MeteredCounts ==
    ASSUME NEW p \in Period, now \in Nat, NEW units \in Nat, p.active
    PROVE  Metered(p, units).spent = Refreshed(p).spent + units
  BY RefreshedType DEF Metered, Period

\* What a withdrawal takes is counted by every active window within its limit.
LEMMA WithdrawCounts ==
    ASSUME RulesTypeOK, LimitsAreAmounts, NEW u \in Accounts, NEW t \in Tokens,
           NEW amount \in Sums, Withdraw(u, t, amount)
    PROVE  Counted(u, ToLimitUnits(t, amount), {})
  <1> DEFINE units == ToLimitUnits(t, amount)
  <1>1. units \in Nat /\ u \in Scopes
    BY UnitsAreAmounts, RulesAssumption, AccountsAreScopes
  <1> HIDE DEF units
  <1>2. /\ LimitsAdmit(u, units, 0)
        /\ period' = [period EXCEPT ![u] = [n \in Names |-> Metered(@[n], units)]]
    BY DEF Withdraw, MeteredOutflow, CheckAndSpend, units
  <1>3. ASSUME NEW n \in Names, period[u][n].active
        PROVE  /\ period'[u][n].spent = Refreshed(period[u][n]).spent + units
               /\ period'[u][n].spent <= period[u][n].limit
    <2>1. period[u][n] \in Period /\ now \in Nat
      BY <1>1 DEF RulesTypeOK
    <2>2. period'[u][n] = Metered(period[u][n], units)
      BY <1>1, <1>2 DEF RulesTypeOK
    <2>3. period'[u][n].spent = Refreshed(period[u][n]).spent + units
      BY <1>1, <1>3, <2>1, <2>2, MeteredCounts
    <2>4. Refreshed(period[u][n]).spent + units <= period[u][n].limit
      BY <1>1, <1>2, <1>3 DEF LimitsAdmit, EffectiveLimit, LimitsAreAmounts
    <2> QED BY <2>3, <2>4
  <1> QED BY <1>3 DEF Counted, units

\* What a bypass takes is counted by every active window but the one it is for.
LEMMA BypassCounts ==
    ASSUME RulesTypeOK, BypassOK, NEW u \in Accounts, NEW r \in bypass[u],
           ExecuteBypassWithdrawal(u, r)
    PROVE  Counted(u, r.amount, {r.skip})
  <1>1. r.amount \in Nat /\ u \in Scopes
    <2>1. r \in BypassRequest
      BY DEF BypassOK
    <2> QED BY <2>1, AccountAssumption, AccountsAreScopes DEF BypassRequest
  <1>2. /\ CheckLimitsWithBypass(u, r.amount, r.skip)
        /\ period' = [period EXCEPT ![u] = [n \in Names |->
                         IF n = r.skip THEN @[n] ELSE Metered(@[n], r.amount)]]
    BY DEF ExecuteBypassWithdrawal, UpdateSpendingWithBypass
  <1>3. ASSUME NEW n \in Names \ {r.skip}, period[u][n].active
        PROVE  /\ period'[u][n].spent = Refreshed(period[u][n]).spent + r.amount
               /\ period'[u][n].spent <= period[u][n].limit
    <2>1. period[u][n] \in Period /\ now \in Nat
      BY <1>1 DEF RulesTypeOK
    <2>2. period'[u][n] = Metered(period[u][n], r.amount)
      BY <1>1, <1>2 DEF RulesTypeOK
    <2>3. period'[u][n].spent = Refreshed(period[u][n]).spent + r.amount
      BY <1>1, <1>3, <2>1, <2>2, MeteredCounts
    <2>4. Refreshed(period[u][n]).spent + r.amount <= period[u][n].limit
      BY <1>2, <1>3 DEF CheckLimitsWithBypass
    <2> QED BY <2>3, <2>4
  <1> QED BY <1>3 DEF Counted

\* A bypass that pays is one that has served the shortest wait and is used up.
LEMMA BypassIsServed ==
    ASSUME RulesTypeOK, BypassOK, NEW u \in Accounts, NEW r \in bypass[u],
           ExecuteBypassWithdrawal(u, r)
    PROVE  /\ ~r.executed
           /\ now >= r.filed + MinUnlockDelay
           /\ r \notin bypass'[u]
  <1>1. r \in BypassRequest /\ r.executeAfter >= r.filed + MinUnlockDelay
    BY DEF BypassOK
  <1>2. ~r.executed /\ now >= r.executeAfter
    BY DEF ExecuteBypassWithdrawal, Ready
  <1>3. [r EXCEPT !.executed = TRUE] # r
    <2>1. [r EXCEPT !.executed = TRUE].executed
      BY <1>1 DEF BypassRequest
    <2> QED BY <1>2, <2>1
  <1>4. bypass'[u] = (bypass[u] \ {r}) \cup {[r EXCEPT !.executed = TRUE]}
    BY DEF ExecuteBypassWithdrawal, BypassOK
  <1>5. now \in Nat /\ r.filed \in Nat /\ r.executeAfter \in Nat /\ MinUnlockDelay \in Nat
    BY <1>1, RulesAssumption DEF BypassRequest, RulesTypeOK
  <1> QED BY <1>1, <1>2, <1>3, <1>4, <1>5

\* A balance that is lower afterwards, of an account that was not recovered,
\* was paid from by that account, by the whole difference.
LEMMA LowerBalance ==
    ASSUME FundsOK, KeysShape, BypassOK, [AccountNext]_accountVars,
           NEW u \in Accounts, NEW t \in Tokens,
           balance'[u][t] < balance[u][t], ~recovered'[u]
    PROVE  \/ \E amount \in Sums : /\ Withdraw(u, t, amount)
                                   /\ balance[u][t] - balance'[u][t] = amount
           \/ \E r \in bypass[u] : /\ ExecuteBypassWithdrawal(u, r)
                                   /\ r.token = t
                                   /\ balance[u][t] - balance'[u][t] = r.amount
  <1>1. balance' # balance
    BY DEF FundsOK
  <1>2. ASSUME NEW v \in Accounts, NEW newOwner \in Accounts, NEW tokens \in SUBSET Tokens,
               RecoverOwnership(v, newOwner, tokens)
        PROVE  FALSE
    <2>1. v # newOwner
      BY <1>2 DEF RecoverOwnership, Keys!RecoverKeys, Keys!MayRecoverTo
    <2>2. v = u
      BY <1>2, <2>1 DEF RecoverOwnership, BalancesMoved, FundsOK
    <2> QED BY <1>2, <2>2, AccountAssumption
         DEF RecoverOwnership, Keys!RecoverKeys, KeysShape
  <1>3. PICK v \in Accounts : FundsStep(v)
    BY <1>1, <1>2 DEF AccountNext, AccountTick, RulesStep, KeysStep, AddressesStep, Donate,
       fundVars, accountVars
  <1>4. ASSUME NEW s \in Tokens, NEW amount \in Sums, Deposit(v, s, amount)
        PROVE  FALSE
    BY <1>4, AccountAssumption DEF Deposit, FundsOK
  <1>5. ASSUME NEW s \in Tokens, NEW amount \in Nat, Debited(v, s, amount)
        PROVE  v = u /\ s = t /\ balance[u][t] - balance'[u][t] = amount
    BY <1>5 DEF Debited, FundsOK
  <1>6. ASSUME NEW s \in Tokens, NEW amount \in Sums, Withdraw(v, s, amount)
        PROVE  Withdraw(u, t, amount) /\ balance[u][t] - balance'[u][t] = amount
    <2>1. amount \in Nat /\ Debited(v, s, amount)
      BY <1>6, AccountAssumption DEF Withdraw
    <2>2. v = u /\ s = t /\ balance[u][t] - balance'[u][t] = amount
      BY <1>5, <2>1
    <2> QED BY <1>6, <2>2
  <1>7. ASSUME NEW r \in bypass[v], ExecuteBypassWithdrawal(v, r)
        PROVE  v = u /\ r.token = t /\ balance[u][t] - balance'[u][t] = r.amount
    <2>1. r \in BypassRequest
      BY DEF BypassOK
    <2>2. r.token \in Tokens /\ r.amount \in Nat
      BY <2>1, AccountAssumption DEF BypassRequest
    <2> QED BY <1>5, <1>7, <2>2 DEF ExecuteBypassWithdrawal
  <1>8. \/ \E s \in Tokens, amount \in Sums : Withdraw(v, s, amount)
        \/ \E r \in bypass[v] : ExecuteBypassWithdrawal(v, r)
    BY <1>1, <1>3, <1>4 DEF FundsStep, WithdrawTo, RequestLimitBypass, CancelBypassRequest,
       fundVars
  <1> QED BY <1>6, <1>7, <1>8

\* Nothing leaves an account unmetered or unwaited (SavingsCore.withdraw,
\* executeBypassWithdrawal).
THEOREM MeteredProof == AccountSpec => MeteredOrBypassed
  <1>1. AccountInit => KeysShape /\ LimitsAreAmounts
    BY DEF AccountInit, RulesInit, Keys!KeysInit, KeysShape, LimitsAreAmounts
  <1>2. KeysShape /\ LimitsAreAmounts /\ [AccountNext]_accountVars
        => KeysShape' /\ LimitsAreAmounts'
    BY KeysShapeStep, PercentageUntouched DEF LimitsAreAmounts
  <1>3. ASSUME AccountInv, KeysShape, LimitsAreAmounts, [AccountNext]_accountVars,
               NEW u \in Accounts, NEW t \in Tokens,
               balance[u][t] - balance'[u][t] > 0, ~recovered'[u]
        PROVE  LET paid == balance[u][t] - balance'[u][t]
               IN  \/ Counted(u, ToLimitUnits(t, paid), {})
                   \/ \E r \in bypass[u] :
                         /\ ~r.executed /\ r.token = t /\ r.amount = paid
                         /\ now >= r.filed + MinUnlockDelay
                         /\ r \notin bypass'[u]
                         /\ Counted(u, paid, {r.skip})
    <2>1. balance'[u][t] < balance[u][t]
      <3>1. balance[u][t] \in Nat /\ balance'[u][t] \in Nat
        BY <1>3, AccountInvStep DEF AccountInv, FundsOK
      <3> QED BY <1>3, <3>1
    <2> DEFINE paid == balance[u][t] - balance'[u][t]
    <2>2. \/ \E amount \in Sums : Withdraw(u, t, amount) /\ paid = amount
          \/ \E r \in bypass[u] : ExecuteBypassWithdrawal(u, r) /\ r.token = t /\ paid = r.amount
      BY <1>3, <2>1, LowerBalance DEF AccountInv
    <2> HIDE DEF paid
    <2>3. CASE \E amount \in Sums : Withdraw(u, t, amount) /\ paid = amount
      <3>1. Counted(u, ToLimitUnits(t, paid), {})
        BY <1>3, <2>3, WithdrawCounts DEF AccountInv
      <3> QED BY <3>1 DEF paid
    <2>4. ASSUME NEW r \in bypass[u], ExecuteBypassWithdrawal(u, r), r.token = t,
                 paid = r.amount
          PROVE  /\ ~r.executed /\ r.token = t /\ r.amount = paid
                 /\ now >= r.filed + MinUnlockDelay
                 /\ r \notin bypass'[u]
                 /\ Counted(u, paid, {r.skip})
      <3>1. Counted(u, r.amount, {r.skip})
        BY <1>3, <2>4, BypassCounts DEF AccountInv
      <3> QED BY <1>3, <2>4, <3>1, BypassIsServed DEF AccountInv
    <2> QED BY <2>2, <2>3, <2>4 DEF paid
  <1>4. AccountInv /\ KeysShape /\ LimitsAreAmounts /\ [AccountNext]_accountVars
        => [\A u \in Accounts, t \in Tokens :
              LET paid == balance[u][t] - balance'[u][t]
              IN  (paid > 0 /\ ~recovered'[u]) =>
                     \/ Counted(u, ToLimitUnits(t, paid), {})
                     \/ \E r \in bypass[u] :
                           /\ ~r.executed /\ r.token = t /\ r.amount = paid
                           /\ now >= r.filed + MinUnlockDelay
                           /\ r \notin bypass'[u]
                           /\ Counted(u, paid, {r.skip})]_accountVars
    BY <1>3
  <1> QED BY <1>1, <1>2, <1>4, AccountInvariant, PTL DEF AccountSpec, MeteredOrBypassed

-----------------------------------------------------------------------------
(* Recovery is no way out of the limits.                                   *)

\* The address that gains what another one loses is the one the other is
\* recovered to, and a first recovery hands on lock-in and limits as they are.
LEMMA BoundStep ==
    ASSUME FundsOK, RulesTypeOK, LimitsAreAmounts, [AccountNext]_accountVars,
           NEW u \in Accounts, NEW v \in Accounts, NEW t \in Tokens,
           u # v, committed[u], ~recovered[u],
           balance'[u][t] < balance[u][t], balance'[v][t] > balance[v][t]
    PROVE  /\ committed'[v]
           /\ \A amount \in Amounts : LimitsAdmit(v, amount, 0)' => LimitsAdmit(u, amount, 0)
  <1>1. balance' # balance
    BY DEF FundsOK
  <1>2. ASSUME NEW w \in Accounts, FundsStep(w)  PROVE FALSE
    <2>1. ASSUME NEW s, NEW amount,
                 \/ balance' = [balance EXCEPT ![w][s] = @ + amount]
                 \/ balance' = [balance EXCEPT ![w][s] = @ - amount]
          PROVE  FALSE
      BY <2>1 DEF FundsOK
    <2> QED BY <1>1, <1>2, <2>1 DEF FundsStep, Deposit, Withdraw, WithdrawTo, Debited,
            RequestLimitBypass, ExecuteBypassWithdrawal, CancelBypassRequest, fundVars
  <1>3. PICK w \in Accounts, newOwner \in Accounts, tokens \in SUBSET Tokens :
            RecoverOwnership(w, newOwner, tokens)
    BY <1>1, <1>2 DEF AccountNext, AccountTick, RulesStep, KeysStep, AddressesStep, Donate,
       fundVars, accountVars
  <1>4. w # newOwner
    BY <1>3 DEF RecoverOwnership, Keys!RecoverKeys, Keys!MayRecoverTo
  <1>5. w = u /\ newOwner = v
    BY <1>3, <1>4 DEF RecoverOwnership, BalancesMoved, FundsOK
  <1>6. /\ period' = [period EXCEPT ![v] = period[u]]
        /\ committed' = [committed EXCEPT ![v] = committed[u]]
        /\ UNCHANGED <<now, percentage>>
    BY <1>3, <1>5 DEF RecoverOwnership, RulesMoved, MigratePeriodsTo, MigrateSetupTo
  <1>7. committed'[v] /\ period'[v] = period[u]
    BY <1>6, AccountsAreScopes DEF RulesTypeOK
  <1>8. ASSUME NEW amount \in Amounts, LimitsAdmit(v, amount, 0)'
        PROVE  LimitsAdmit(u, amount, 0)
    <2>1. percentage'[v] = FALSE /\ percentage[u] = FALSE
      BY <1>6, AccountsAreScopes DEF LimitsAreAmounts
    <2> QED BY <1>6, <1>7, <1>8, <2>1 DEF LimitsAdmit, EffectiveLimit, Refreshed
  <1> QED BY <1>7, <1>8

\* The address that receives the funds of a locked-in account is locked in, and
\* its rules admit no more than the old ones did (_migrateSpendingRules).
THEOREM FundsStayBoundProof == AccountSpec => FundsStayBound
  <1>1. AccountInit => LimitsAreAmounts
    BY DEF AccountInit, RulesInit, LimitsAreAmounts
  <1>2. LimitsAreAmounts /\ [AccountNext]_accountVars => LimitsAreAmounts'
    BY PercentageUntouched DEF LimitsAreAmounts
  <1>3. AccountInv /\ LimitsAreAmounts /\ [AccountNext]_accountVars
        => [\A u, v \in Accounts, t \in Tokens :
              (/\ u # v /\ committed[u] /\ ~recovered[u]
               /\ balance'[u][t] < balance[u][t] /\ balance'[v][t] > balance[v][t])
              => /\ committed'[v]
                 /\ \A amount \in Amounts :
                       LimitsAdmit(v, amount, 0)' => LimitsAdmit(u, amount, 0)]_accountVars
    BY BoundStep DEF AccountInv
  <1> QED BY <1>1, <1>2, <1>3, AccountInvariant, PTL DEF AccountSpec, FundsStayBound

-----------------------------------------------------------------------------
(* The recovery keys.                                                      *)

\* The proved facts about the recovery keys, with the accounts as owners.
KeysP == INSTANCE RecoveryKeysHistory_proofs
            WITH Owners <- Accounts, proposedUnder <- NoKey, asked <- 0

LEMMA KeysAssumed == KeysP!KeysAssumption
  BY AccountAssumption, AccountKeysAssumption, RulesAssumption DEF KeysP!KeysAssumption

\* A call of the keys, and their part of a recovery, as that module has them.
LEMMA KeyCallsAgree ==
    ASSUME NEW u \in Accounts
    PROVE  /\ Keys!KeyStep(u) => KeysP!KeyStep(u)
           /\ \A newOwner \in Accounts : Keys!RecoverKeys(u, newOwner) => KeysP!RecoverKeys(u, newOwner)
  <1>1. \A key : /\ Keys!SetRecoveryAddress(u, key) => KeysP!SetRecoveryAddress(u, key)
                 /\ Keys!AcceptRecoveryRole(u, key) => KeysP!AcceptRecoveryRole(u, key)
                 /\ Keys!UpdateRecoveryAddress(u, key) => KeysP!UpdateRecoveryAddress(u, key)
    BY DEF Keys!SetRecoveryAddress, KeysP!SetRecoveryAddress, Keys!MayPropose,
       KeysP!MayPropose, Keys!AcceptRecoveryRole, KeysP!AcceptRecoveryRole,
       Keys!UpdateRecoveryAddress, KeysP!UpdateRecoveryAddress
  <1>2. \A key : Keys!RequestRecoveryAddressChange(u, key)
                 => KeysP!RequestRecoveryAddressChange(u, key)
    BY DEF Keys!RequestRecoveryAddressChange, KeysP!RequestRecoveryAddressChange,
       Keys!MayChangeKey, KeysP!MayChangeKey
  <1>3. Keys!CancelRecoveryKeyProposal(u) => KeysP!CancelRecoveryKeyProposal(u)
    BY DEF Keys!CancelRecoveryKeyProposal, KeysP!CancelRecoveryKeyProposal
  <1>4. Keys!ExecuteRecoveryAddressChange(u) => KeysP!ExecuteRecoveryAddressChange(u)
    BY DEF Keys!ExecuteRecoveryAddressChange, KeysP!ExecuteRecoveryAddressChange,
       Keys!MayChangeKey, KeysP!MayChangeKey, Keys!ServedTimelock, KeysP!ServedTimelock
  <1>5. \A by : /\ Keys!CancelRecoveryAddressChange(u, by) => KeysP!CancelRecoveryAddressChange(u, by)
                /\ Keys!Freeze(u, by) => KeysP!Freeze(u, by)
    BY DEF Keys!CancelRecoveryAddressChange, KeysP!CancelRecoveryAddressChange,
       Keys!Freeze, KeysP!Freeze
  <1>6. Keys!Unfreeze(u) => KeysP!Unfreeze(u)
    BY DEF Keys!Unfreeze, KeysP!Unfreeze
  <1>7. \A newOwner \in Accounts : Keys!RecoverKeys(u, newOwner) => KeysP!RecoverKeys(u, newOwner)
    BY DEF Keys!RecoverKeys, KeysP!RecoverKeys, Keys!MayRecoverTo, KeysP!MayRecoverTo
  <1> QED BY <1>1, <1>2, <1>3, <1>4, <1>5, <1>6, <1>7 DEF Keys!KeyStep, KeysP!KeyStep

\* Every transaction is a step of the keys or leaves them alone.
LEMMA KeysRefinement ==
    ASSUME [AccountNext]_accountVars
    PROVE  [KeysP!KeysNext]_<<now, KeysP!keyVars>>
  <1> USE DEF keyVars, KeysP!keyVars
  <1>1. CASE AccountTick
    BY <1>1 DEF AccountTick, Tick, KeysP!KeysNext, KeysP!KeysTick
  <1>2. ASSUME NEW u \in Accounts, KeysStep(u)  PROVE KeysP!KeysNext
    BY <1>2, KeyCallsAgree DEF KeysStep, KeysP!KeysNext
  <1>3. ASSUME NEW u \in Accounts, NEW newOwner \in Accounts, NEW tokens \in SUBSET Tokens,
               RecoverOwnership(u, newOwner, tokens)
        PROVE  KeysP!KeysNext
    BY <1>3, KeyCallsAgree, AccountAssumption DEF RecoverOwnership, KeysP!KeysNext
  <1>4. ASSUME NEW u \in Accounts, RulesStep(u) \/ AddressesStep(u)
        PROVE  UNCHANGED <<now, keyVars>>
    BY <1>4 DEF RulesStep, AddressesStep, AccountKeyStep, SetPeriodLimit, SetPeriodLimits,
       CommitSetupWithPeriods, CommitInitialSetup, ProposeLimitRemoval,
       RecalculateTotalLockedValue, ProposalStep, ProposeLimitChange,
       ProposeUnlockDelayChange, File, ExecuteLimitProposal, CancelLimitProposal
  <1>5. ASSUME NEW u \in Accounts, FundsStep(u)  PROVE UNCHANGED <<now, keyVars>>
    BY <1>5 DEF FundsStep, Deposit, Withdraw, WithdrawTo, RequestLimitBypass,
       ExecuteBypassWithdrawal, CancelBypassRequest
  <1>6. CASE \/ \E t \in Tokens, amount \in Sums : Donate(t, amount)
             \/ UNCHANGED accountVars
    BY <1>6 DEF Donate, accountVars
  <1> QED BY <1>1, <1>2, <1>3, <1>4, <1>5, <1>6 DEF AccountNext

\* What was proved of the keys alone holds of the account: recovery is final
\* there too, with the funds and the rules that it moves (recoverOwnership).
THEOREM KeysHoldInTheAccount ==
    AccountSpec => KeysP!KeysSpec /\ KeysP!RecoveryIsFinal
  <1>1. AccountInit => now = 0 /\ KeysP!KeysInit
    BY DEF AccountInit, RulesInit, Keys!KeysInit, KeysP!KeysInit
  <1>2. [AccountNext]_accountVars => [KeysP!KeysNext]_<<now, KeysP!keyVars>>
    BY KeysRefinement
  <1>3. AccountSpec => KeysP!KeysSpec
    BY <1>1, <1>2, PTL DEF AccountSpec, KeysP!KeysSpec
  <1> QED BY <1>3, KeysAssumed, KeysP!RecoveryFinalProof

-----------------------------------------------------------------------------
(* The destinations.                                                       *)

\* Where the lists are left alone, lock-in and freeze move as that module
\* expects of its surroundings.
LEMMA SurroundingsFit ==
    ASSUME AccountInv, [AccountNext]_accountVars, UNCHANGED <<now, addressVars>>
    PROVE  Addresses!Elsewhere
  <1>1. committed' \in [Accounts -> BOOLEAN]
    BY AccountInvStep, AccountsAreScopes DEF AccountInv, RulesTypeOK
  <1>2. \A u \in Accounts : committed[u] => committed'[u]
    BY RulesRefinement, LockInStays, AccountsAreScopes DEF AccountInv
  <1>3. Blocked' \in [Accounts -> BOOLEAN]
    BY Zenon DEF Blocked, Keys!IsFrozen
  <1> QED BY <1>1, <1>2, <1>3 DEF Addresses!Elsewhere, Addresses!addressVars, addressVars

\* Every transaction is a step of the destinations or of their surroundings.
LEMMA AddressesRefinement ==
    ASSUME AccountInv, [AccountNext]_accountVars
    PROVE  [Addresses!AddressesNext]_(Addresses!addressesAllVars)
  <1> USE DEF addressVars, Addresses!addressVars
  <1>1. CASE AccountTick
    <2>1. UNCHANGED Blocked
      BY <1>1, Zenon DEF AccountTick, keyVars, Blocked, Keys!IsFrozen
    <2> QED BY <1>1, <2>1
         DEF AccountTick, Tick, Addresses!AddressesNext, Addresses!AddressesTick
  <1>2. ASSUME NEW u \in Accounts, AddressesStep(u)
        PROVE  Addresses!AddressesNext
    <2>1. UNCHANGED Blocked
      BY <1>2, Zenon DEF AddressesStep, keyVars, Blocked, Keys!IsFrozen
    <2>2. Addresses!AddressStep(u) /\ UNCHANGED <<now, committed>>
      BY <1>2 DEF AddressesStep, ruleVars
    <2> QED BY <2>1, <2>2 DEF Addresses!AddressesNext
  <1>3. CASE UNCHANGED <<now, addressVars>>
    BY <1>3, SurroundingsFit DEF Addresses!AddressesNext
  <1>4. ASSUME NEW u \in Accounts, RulesStep(u)  PROVE UNCHANGED <<now, addressVars>>
    BY <1>4 DEF RulesStep, AccountKeyStep, SetPeriodLimit, SetPeriodLimits,
       CommitSetupWithPeriods, CommitInitialSetup, ProposeLimitRemoval,
       RecalculateTotalLockedValue, ProposalStep, ProposeLimitChange,
       ProposeUnlockDelayChange, File, ExecuteLimitProposal, CancelLimitProposal
  <1>5. ASSUME NEW u \in Accounts, FundsStep(u)  PROVE UNCHANGED <<now, addressVars>>
    BY <1>5 DEF FundsStep, Deposit, Withdraw, WithdrawTo, RequestLimitBypass,
       ExecuteBypassWithdrawal, CancelBypassRequest
  <1>6. CASE \/ \E u \in Accounts : KeysStep(u)
             \/ \E u, newOwner \in Accounts, tokens \in SUBSET Tokens :
                   RecoverOwnership(u, newOwner, tokens)
             \/ \E t \in Tokens, amount \in Sums : Donate(t, amount)
             \/ UNCHANGED accountVars
    BY <1>3, <1>6 DEF KeysStep, RecoverOwnership, Donate, accountVars
  <1> QED BY <1>1, <1>2, <1>3, <1>4, <1>5, <1>6 DEF AccountNext

\* The real lock-in and freeze, and the calls of the account, are what the
\* destinations take for granted of their surroundings (isSetupCommitted,
\* isFrozen).
THEOREM AddressesImplemented == AccountSpec => ImplementsAddresses
  <1>1. AccountInit => /\ now = 0 /\ Addresses!AddressesInit
                       /\ committed = [u \in Accounts |-> FALSE]
                       /\ Blocked = [u \in Accounts |-> FALSE]
    BY AccountsAreScopes, AccountAssumption
       DEF AccountInit, RulesInit, Keys!KeysInit, Blocked, Keys!IsFrozen
  <1>2. AccountInv /\ [AccountNext]_accountVars
        => [Addresses!AddressesNext]_(Addresses!addressesAllVars)
    BY AddressesRefinement
  <1> QED BY <1>1, <1>2, AccountInvariant, PTL
       DEF AccountSpec, ImplementsAddresses, Addresses!AddressesSpec

\* A new request is a request, and one that is executed or cancelled stays one.
LEMMA RequestsAreTyped ==
  /\ \A title \in Titles, d \in Destinations, filed, due \in Nat :
        [title |-> title, destination |-> d, filed |-> filed,
         executeAfter |-> due, executed |-> FALSE] \in Addresses!Request
  /\ \A r \in Addresses!Request : /\ [r EXCEPT !.executed = TRUE] \in Addresses!Request
                        /\ [r EXCEPT !.executed = TRUE].executeAfter = r.executeAfter
                        /\ [r EXCEPT !.executed = TRUE].filed = r.filed
                        /\ [r EXCEPT !.executed = TRUE].executed
  BY DEF Addresses!Request

\* Marking a request keeps the type of what is on file.
LEMMA SpentType ==
  ASSUME Addresses!AddressesTypeOK, NEW u \in Accounts, NEW r \in request[u],
         Addresses!Spent(u, r)
  PROVE  /\ request' \in [Accounts -> SUBSET Addresses!Request]
         /\ \A v \in Accounts : \A q \in request'[v] : q.executeAfter = q.filed + AddressDelay
  <1>1. r \in Addresses!Request
    BY DEF Addresses!AddressesTypeOK
  <1>2. [r EXCEPT !.executed = TRUE] \in Addresses!Request
    BY <1>1, RequestsAreTyped
  <1>3. /\ [r EXCEPT !.executed = TRUE].executeAfter = r.executeAfter
        /\ [r EXCEPT !.executed = TRUE].filed = r.filed
    BY <1>1, RequestsAreTyped
  <1> DEFINE marked == [r EXCEPT !.executed = TRUE]
  <1> HIDE DEF marked
  <1>4. request' = [request EXCEPT ![u] = (request[u] \ {r}) \cup {marked}]
    BY DEF Addresses!Spent, marked
  <1>5. marked \in Addresses!Request /\ marked.executeAfter = marked.filed + AddressDelay
    BY <1>2, <1>3, AccountAssumption DEF marked, Addresses!AddressesTypeOK
  <1> QED
    BY <1>4, <1>5 DEF Addresses!AddressesTypeOK

\* Every call of an account keeps the types.
LEMMA AddressStepType ==
  ASSUME Addresses!AddressesTypeOK, NEW u \in Accounts,
         Addresses!AddressStep(u), UNCHANGED <<now, committed, Blocked>>
  PROVE  Addresses!AddressesTypeOK'
  <1>1. CASE \E title \in Titles, d \in Destinations :
                 Addresses!RequestWithdrawalAddress(u, title, d)
    <2>1. PICK title \in Titles, d \in Destinations :
             Addresses!RequestWithdrawalAddress(u, title, d)
      BY <1>1
    <2> DEFINE new == [title |-> title, destination |-> d, filed |-> now,
                       executeAfter |-> Addresses!MaturesAt, executed |-> FALSE]
    <2>2. new \in Addresses!Request /\ new.executeAfter = new.filed + AddressDelay
      BY RequestsAreTyped, AccountAssumption DEF Addresses!MaturesAt,
         Addresses!AddressesTypeOK
    <2>3. \E kept \in SUBSET request[u] :
             request' = [request EXCEPT ![u] = kept \cup {new}] /\ UNCHANGED listed
      BY <2>1 DEF Addresses!RequestWithdrawalAddress
    <2> HIDE DEF new
    <2> QED
      BY <2>2, <2>3 DEF Addresses!AddressesTypeOK
  <1>2. CASE \E d \in Destinations : Addresses!AddWithdrawalAddressDirect(u, d)
    BY <1>2 DEF Addresses!AddWithdrawalAddressDirect, Addresses!AddressesTypeOK
  <1>3. CASE \E r \in request[u] : Addresses!ExecuteWithdrawalAddressRequest(u, r)
    <2>1. PICK r \in request[u] : Addresses!ExecuteWithdrawalAddressRequest(u, r)
      BY <1>3
    <2>2. r.destination \in Destinations
      BY DEF Addresses!AddressesTypeOK, Addresses!Request
    <2>3. listed' \in [Accounts -> [Destinations -> Nat]]
      BY <2>1, <2>2 DEF Addresses!ExecuteWithdrawalAddressRequest, Addresses!AddressesTypeOK
    <2> QED
      BY <2>1, <2>3, SpentType DEF Addresses!ExecuteWithdrawalAddressRequest,
         Addresses!AddressesTypeOK
  <1>4. CASE \E r \in request[u] : Addresses!CancelWithdrawalAddressRequest(u, r)
    BY <1>4, SpentType DEF Addresses!CancelWithdrawalAddressRequest,
       Addresses!AddressesTypeOK
  <1>5. CASE \E d \in Destinations : Addresses!RemoveWithdrawalAddress(u, d)
    BY <1>5 DEF Addresses!RemoveWithdrawalAddress, Addresses!AddressesTypeOK
  <1> QED
    BY <1>1, <1>2, <1>3, <1>4, <1>5 DEF Addresses!AddressStep

\* The lists keep their type and every request on file carries the whole delay
\* (ApprovalSystemModule).
THEOREM AddressesTypeCorrect ==
  Addresses!AddressesSpec => []Addresses!AddressesTypeOK
  <1>1. /\ now = 0 /\ Addresses!AddressesInit
        /\ committed = [u \in Accounts |-> FALSE] /\ Blocked = [u \in Accounts |-> FALSE]
        => Addresses!AddressesTypeOK
    BY DEF Addresses!AddressesInit, Addresses!AddressesTypeOK
  <1>2. Addresses!AddressesTypeOK /\ [Addresses!AddressesNext]_(Addresses!addressesAllVars)
        => Addresses!AddressesTypeOK'
    <2> SUFFICES ASSUME Addresses!AddressesTypeOK,
                        [Addresses!AddressesNext]_(Addresses!addressesAllVars)
                 PROVE  Addresses!AddressesTypeOK'
      OBVIOUS
    <2>1. CASE Addresses!AddressesTick
      BY <2>1 DEF Addresses!AddressesTick, Addresses!addressVars, Addresses!AddressesTypeOK
    <2>2. CASE Addresses!Elsewhere
      BY <2>2 DEF Addresses!Elsewhere, Addresses!addressVars, Addresses!AddressesTypeOK
    <2>3. CASE \E u \in Accounts : Addresses!AddressStep(u) /\ UNCHANGED <<now, committed, Blocked>>
      BY <2>3, AddressStepType
    <2>4. CASE UNCHANGED Addresses!addressesAllVars
      BY <2>4 DEF Addresses!addressesAllVars, Addresses!addressVars,
         Addresses!AddressesTypeOK
    <2> QED
      BY <2>1, <2>2, <2>3, <2>4 DEF Addresses!AddressesNext
  <1> QED
    BY <1>1, <1>2, PTL DEF Addresses!AddressesSpec

\* Of the five calls, two lengthen the list, and lock-in stops the first.
LEMMA ServedStep ==
  ASSUME Addresses!AddressesTypeOK, [Addresses!AddressesNext]_(Addresses!addressesAllVars),
         NEW u \in Accounts, NEW d \in Destinations,
         committed[u], listed'[u][d] > listed[u][d]
  PROVE  /\ ~Blocked[u]
         /\ \E r \in request[u] :
               /\ r.destination = d /\ ~r.executed
               /\ now >= r.filed + AddressDelay
               /\ r \notin request'[u]
  <1> USE DEF Addresses!AddressesTypeOK
  <1>1. PICK v \in Accounts : Addresses!AddressStep(v)
    BY DEF Addresses!AddressesNext, Addresses!AddressesTick, Addresses!Elsewhere,
       Addresses!addressesAllVars, Addresses!addressVars
  <1>2. ~\E title \in Titles, e \in Destinations :
             Addresses!RequestWithdrawalAddress(v, title, e)
    <2>1. listed' # listed
      OBVIOUS
    <2> QED
      BY <2>1 DEF Addresses!RequestWithdrawalAddress
  <1>3. ~\E e \in Destinations : Addresses!AddWithdrawalAddressDirect(v, e)
    <2> SUFFICES ASSUME NEW e \in Destinations, Addresses!AddWithdrawalAddressDirect(v, e)
                 PROVE  FALSE
      OBVIOUS
    <2>1. listed' = [listed EXCEPT ![v][e] = 1] /\ ~committed[v]
      BY DEF Addresses!AddWithdrawalAddressDirect
    <2>2. u # v
      BY <2>1
    <2> QED
      BY <2>1, <2>2
  <1>4. ~\E q \in request[v] : Addresses!CancelWithdrawalAddressRequest(v, q)
    <2>1. listed' # listed
      OBVIOUS
    <2> QED
      BY <2>1 DEF Addresses!CancelWithdrawalAddressRequest
  <1>5. ~\E e \in Destinations : Addresses!RemoveWithdrawalAddress(v, e)
    BY DEF Addresses!RemoveWithdrawalAddress
  <1>6. PICK r \in request[v] : Addresses!ExecuteWithdrawalAddressRequest(v, r)
    BY <1>1, <1>2, <1>3, <1>4, <1>5 DEF Addresses!AddressStep
  <1>7. r \in Addresses!Request
    OBVIOUS
  <1>8. r.destination \in Destinations
    BY <1>7 DEF Addresses!Request
  <1>9. u = v /\ r.destination = d
    BY <1>6, <1>8 DEF Addresses!ExecuteWithdrawalAddressRequest
  <1>10. ~r.executed /\ now >= r.filed + AddressDelay
    BY <1>6, AccountAssumption DEF Addresses!ExecuteWithdrawalAddressRequest,
       Addresses!Runnable
  <1>11. r \notin request'[u]
    <2>1. [r EXCEPT !.executed = TRUE] # r
      BY <1>7, <1>10, RequestsAreTyped
    <2>2. request'[u] = (request[u] \ {r}) \cup {[r EXCEPT !.executed = TRUE]}
      BY <1>6, <1>9 DEF Addresses!ExecuteWithdrawalAddressRequest, Addresses!Spent
    <2> QED
      BY <2>1, <2>2
  <1> QED
    BY <1>6, <1>9, <1>10, <1>11 DEF Addresses!ExecuteWithdrawalAddressRequest

\* After lock-in a destination becomes valid only by a request that waited and
\* is used up (executeWithdrawalAddressRequest).
THEOREM NewDestinationProof ==
  Addresses!AddressesSpec => Addresses!NewDestinationServed
  <1>1. Addresses!AddressesTypeOK /\ [Addresses!AddressesNext]_(Addresses!addressesAllVars)
        => [\A u \in Accounts, d \in Destinations :
               (committed[u] /\ listed'[u][d] > listed[u][d])
               => /\ ~Blocked[u]
                  /\ \E r \in request[u] :
                        /\ r.destination = d /\ ~r.executed
                        /\ now >= r.filed + AddressDelay
                        /\ r \notin request'[u]]_(Addresses!addressesAllVars)
    BY ServedStep
  <1> QED
    BY <1>1, AddressesTypeCorrect, PTL DEF Addresses!AddressesSpec,
       Addresses!NewDestinationServed

\* Hence the same of the destinations in the account: one that becomes valid
\* after lock-in was asked for, waited for and not blocked by a freeze.
THEOREM NewDestinationInTheAccount == AccountSpec => NewDestinationServed
  BY AddressesImplemented, NewDestinationProof
     DEF ImplementsAddresses, NewDestinationServed

-----------------------------------------------------------------------------
(* The core covers the balances.                                           *)

\* The sums of the core are sums of naturals over a finite set.
LEMMA OwedIsSum ==
    ASSUME FundsOK, NEW t \in Tokens
    PROVE  /\ \A u \in Accounts : [v \in Accounts |-> balance[v][t]][u] \in Int
           /\ TotalOwed(t) \in Int
  <1> DEFINE f == [v \in Accounts |-> balance[v][t]]
  <1>1. \A u \in Accounts : f[u] \in Int
    BY DEF FundsOK
  <1>2. SumFunctionOnSet(f, Accounts) \in Int
    <2> HIDE DEF f
    <2> QED BY <1>1, SumInt, AccountAssumption
  <1> QED BY <1>1, <1>2 DEF TotalOwed

\* When one balance changes, what the core owes changes by as much.
LEMMA OwedAfterChange ==
    ASSUME FundsOK, FundsOK', NEW u \in Accounts, NEW t \in Tokens,
           \A v \in Accounts \ {u} : balance'[v][t] = balance[v][t]
    PROVE  TotalOwed(t)' = TotalOwed(t) + (balance'[u][t] - balance[u][t])
  <1> DEFINE f == [v \in Accounts |-> balance[v][t]]
             g == [v \in Accounts |-> balance'[v][t]]
  <1>1. \A v \in Accounts : f[v] \in Int
    BY DEF FundsOK
  <1>2. g[u] \in Int /\ \A v \in Accounts \ {u} : g[v] = f[v]
    BY DEF FundsOK
  <1>3. f[u] = balance[u][t] /\ g[u] = balance'[u][t]
    OBVIOUS
  <1>4. TotalOwed(t) = SumFunctionOnSet(f, Accounts)
    BY DEF TotalOwed
  <1>5. TotalOwed(t)' = SumFunctionOnSet(g, Accounts)
    BY DEF TotalOwed
  <1> HIDE DEF f, g
  <1>6. SumFunctionOnSet(g, Accounts) = SumFunctionOnSet(f, Accounts) + (g[u] - f[u])
    BY <1>1, <1>2, SumUpdate, AccountAssumption
  <1> QED BY <1>3, <1>4, <1>5, <1>6

\* When two change, it changes by both.
LEMMA OwedAfterMove ==
    ASSUME FundsOK, FundsOK', NEW t \in Tokens,
           NEW u \in Accounts, NEW w \in Accounts, u # w,
           \A v \in Accounts \ {u, w} : balance'[v][t] = balance[v][t]
    PROVE  TotalOwed(t)' = TotalOwed(t) + (balance'[u][t] - balance[u][t])
                                        + (balance'[w][t] - balance[w][t])
  <1> DEFINE f == [v \in Accounts |-> balance[v][t]]
             g == [v \in Accounts |-> balance'[v][t]]
  <1>1. \A v \in Accounts : f[v] \in Int
    BY DEF FundsOK
  <1>2. g[u] \in Int /\ g[w] \in Int /\ \A v \in Accounts \ {u, w} : g[v] = f[v]
    BY DEF FundsOK
  <1>3. /\ f[u] = balance[u][t] /\ g[u] = balance'[u][t]
        /\ f[w] = balance[w][t] /\ g[w] = balance'[w][t]
    OBVIOUS
  <1>4. TotalOwed(t) = SumFunctionOnSet(f, Accounts)
    BY DEF TotalOwed
  <1>5. TotalOwed(t)' = SumFunctionOnSet(g, Accounts)
    BY DEF TotalOwed
  <1> HIDE DEF f, g
  <1>6. SumFunctionOnSet(g, Accounts)
          = SumFunctionOnSet(f, Accounts) + (g[u] - f[u]) + (g[w] - f[w])
    BY <1>1, <1>2, SumMove, AccountAssumption
  <1> QED BY <1>3, <1>4, <1>5, <1>6

CoversOwed == \A t \in Tokens : TotalOwed(t) <= coreHolds[t]

\* A deposit and a payout move what the core holds and what it owes together;
\* a bypass lowers the debt alone, since it is paid from elsewhere.
LEMMA FundsCovered ==
    ASSUME AccountInv, AccountInv', CoversOwed, NEW u \in Accounts, FundsStep(u)
    PROVE  CoversOwed'
  <1> SUFFICES ASSUME NEW c \in Tokens
               PROVE  TotalOwed(c)' <= coreHolds'[c]
    BY DEF CoversOwed
  <1>0. /\ FundsOK /\ FundsOK' /\ TotalOwed(c) \in Int
        /\ TotalOwed(c) <= coreHolds[c] /\ coreHolds[c] \in Nat
    BY OwedIsSum DEF AccountInv, CoversOwed, FundsOK
  <1>1. ASSUME NEW t \in Tokens, NEW amount \in Sums, Deposit(u, t, amount)
        PROVE  TotalOwed(c)' <= coreHolds'[c]
    <2>1. /\ \A v \in Accounts \ {u} : balance'[v][c] = balance[v][c]
          /\ balance'[u][c] - balance[u][c] = coreHolds'[c] - coreHolds[c]
          /\ coreHolds'[c] \in Int /\ balance'[u][c] - balance[u][c] \in Int
      BY <1>0, <1>1, AccountAssumption DEF Deposit, FundsOK
    <2> QED BY <1>0, <2>1, OwedAfterChange
  <1>2. ASSUME NEW t \in Tokens, NEW amount \in Sums, Withdraw(u, t, amount)
        PROVE  TotalOwed(c)' <= coreHolds'[c]
    <2>1. /\ \A v \in Accounts \ {u} : balance'[v][c] = balance[v][c]
          /\ balance'[u][c] - balance[u][c] = coreHolds'[c] - coreHolds[c]
          /\ coreHolds'[c] \in Int /\ balance'[u][c] - balance[u][c] \in Int
      BY <1>0, <1>2, AccountAssumption DEF Withdraw, Debited, FundsOK
    <2> QED BY <1>0, <2>1, OwedAfterChange
  <1>3. ASSUME NEW r \in bypass[u], ExecuteBypassWithdrawal(u, r)
        PROVE  TotalOwed(c)' <= coreHolds'[c]
    <2>a. bypass \in [Accounts -> SUBSET BypassRequest]
      BY DEF AccountInv, BypassOK
    <2>b. r \in BypassRequest
      BY <2>a
    <2>0. r.token \in Tokens /\ r.amount \in Nat
      BY <2>b, AccountAssumption DEF BypassRequest
    <2>1. /\ \A v \in Accounts \ {u} : balance'[v][c] = balance[v][c]
          /\ balance'[u][c] - balance[u][c] \in Int
          /\ balance'[u][c] - balance[u][c] <= 0
          /\ coreHolds'[c] = coreHolds[c]
      <3>1. /\ balance' = [balance EXCEPT ![u][r.token] = @ - r.amount]
            /\ coreHolds' = coreHolds
        BY <1>3 DEF ExecuteBypassWithdrawal, Debited
      <3>2. CASE c = r.token
        BY <1>0, <2>0, <3>1, <3>2 DEF FundsOK
      <3>3. CASE c # r.token
        BY <1>0, <2>0, <3>1, <3>3 DEF FundsOK
      <3> QED BY <3>2, <3>3
    <2> QED BY <1>0, <2>1, OwedAfterChange
  <1>4. ASSUME \/ \E t \in Tokens, amount \in Sums, skip \in Names :
                     RequestLimitBypass(u, t, amount, skip)
               \/ \E r \in bypass[u] : CancelBypassRequest(u, r)
        PROVE  TotalOwed(c)' <= coreHolds'[c]
    BY <1>0, <1>4 DEF RequestLimitBypass, CancelBypassRequest, fundVars, TotalOwed
  <1> QED BY <1>1, <1>2, <1>3, <1>4 DEF FundsStep, WithdrawTo

\* A recovery moves debts from one account to another one, never to itself.
LEMMA RecoveryCovered ==
    ASSUME AccountInv, AccountInv', CoversOwed, NEW u \in Accounts,
           NEW newOwner \in Accounts, NEW tokens \in SUBSET Tokens,
           RecoverOwnership(u, newOwner, tokens)
    PROVE  CoversOwed'
  <1> SUFFICES ASSUME NEW c \in Tokens
               PROVE  TotalOwed(c)' <= coreHolds'[c]
    BY DEF CoversOwed
  <1>0. FundsOK /\ FundsOK' /\ TotalOwed(c) \in Int /\ TotalOwed(c) <= coreHolds[c]
    BY OwedIsSum DEF AccountInv, CoversOwed
  <1>1. u # newOwner /\ coreHolds' = coreHolds
    BY DEF RecoverOwnership, Keys!RecoverKeys, Keys!MayRecoverTo
  <1>2. \A v \in Accounts \ {u, newOwner} : balance'[v][c] = balance[v][c]
    BY <1>0 DEF RecoverOwnership, BalancesMoved, FundsOK
  <1>3. /\ balance'[u][c] - balance[u][c] \in Int
        /\ balance'[newOwner][c] - balance[newOwner][c] \in Int
        /\ (balance'[u][c] - balance[u][c])
             + (balance'[newOwner][c] - balance[newOwner][c]) = 0
    BY <1>0, <1>1 DEF RecoverOwnership, BalancesMoved, FundsOK
  <1>4. TotalOwed(c)' = TotalOwed(c) + (balance'[u][c] - balance[u][c])
                          + (balance'[newOwner][c] - balance[newOwner][c])
    BY <1>0, <1>1, <1>2, OwedAfterMove
  <1> HIDE DEF FundsOK
  <1>5. TotalOwed(c)' = TotalOwed(c)
    BY <1>0, <1>3, <1>4
  <1> QED BY <1>0, <1>1, <1>5

LEMMA CoveredStep ==
    ASSUME AccountInv, CoversOwed, [AccountNext]_accountVars
    PROVE  CoversOwed'
  <1>0. AccountInv'
    BY AccountInvStep
  <1>1. ASSUME NEW u \in Accounts, FundsStep(u)  PROVE CoversOwed'
    BY <1>0, <1>1, FundsCovered
  <1>2. ASSUME NEW u \in Accounts, NEW newOwner \in Accounts, NEW tokens \in SUBSET Tokens,
               RecoverOwnership(u, newOwner, tokens)
        PROVE  CoversOwed'
    BY <1>0, <1>2, RecoveryCovered
  <1>3. CASE UNCHANGED <<balance, coreHolds>>
    BY <1>3 DEF CoversOwed, TotalOwed
  <1>4. CASE \/ AccountTick
             \/ \E u \in Accounts : RulesStep(u) \/ KeysStep(u) \/ AddressesStep(u)
             \/ \E t \in Tokens, amount \in Sums : Donate(t, amount)
             \/ UNCHANGED accountVars
    BY <1>3, <1>4 DEF AccountTick, RulesStep, KeysStep, AddressesStep, Donate,
       accountVars, fundVars
  <1> QED BY <1>1, <1>2, <1>4 DEF AccountNext

\* Nothing is owed at the start.
LEMMA NothingOwed == AccountInit => CoversOwed
  <1> SUFFICES ASSUME AccountInit, NEW t \in Tokens
               PROVE  TotalOwed(t) <= coreHolds[t]
    BY DEF CoversOwed
  <1> DEFINE f == [u \in Accounts |-> balance[u][t]]
  <1>1. \A u \in Accounts : f[u] = 0
    BY DEF AccountInit
  <1>2. coreHolds[t] = 0
    BY DEF AccountInit
  <1>3. TotalOwed(t) = SumFunctionOnSet(f, Accounts)
    BY DEF TotalOwed
  <1> HIDE DEF f
  <1>4. SumFunctionOnSet(f, Accounts) = 0
    BY <1>1, SumZero, AccountAssumption
  <1> QED BY <1>2, <1>3, <1>4

\* The type invariant of the account, with that of the destinations in it.
THEOREM AccountTypeCorrect == AccountSpec => []AccountTypeOK
  <1>1. AccountInv /\ Addresses!AddressesTypeOK => AccountTypeOK
    BY DEF AccountInv, FundsOK, BypassOK, AccountTypeOK
  <1> QED BY <1>1, AccountInvariant, AddressesImplemented, AddressesTypeCorrect, PTL
             DEF ImplementsAddresses

\* The core always holds what it owes, whatever was deposited, paid out,
\* bypassed and recovered before (SavingsCore's userTokenBalances).
THEOREM CoreCoversProof == AccountSpec => []CoreCoversBalances
  <1>1. AccountInv /\ CoversOwed /\ [AccountNext]_accountVars => CoversOwed'
    BY CoveredStep
  <1>2. AccountTypeOK /\ CoversOwed => CoreCoversBalances
    BY DEF CoversOwed, CoreCoversBalances
  <1> QED BY <1>1, <1>2, NothingOwed, AccountInvariant, AccountTypeCorrect, PTL
       DEF AccountSpec
=============================================================================
