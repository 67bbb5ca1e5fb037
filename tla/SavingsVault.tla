---------------------------- MODULE SavingsVault ----------------------------
(***************************************************************************)
(* Savings vaults: SavingsVaultModule keeps the money, VaultYieldModule    *)
(* and AaveV3Strategy put it to work (VaultLedger), and the rules of each  *)
(* member are a scope <<vault, member>> of the limit modules               *)
(* (SpendingRules), which BypassSystemModule and VaultRulesModule reach.   *)
(* Every action is one transaction.                                        *)
(*                                                                         *)
(* Tokens revert when a transfer fails and take no fee; the native coin    *)
(* and its own paths are left out.  A payout goes to the member or to an   *)
(* approved destination: which of them changes nothing here.  A vault      *)
(* created in Stables accepts several tokens and counts dollars, any other *)
(* one accepts one token.  The owner's configuration (treasury, strategy   *)
(* and fee changes, the pause) is fixed.                                   *)
(***************************************************************************)
EXTENDS VaultLedger, FiniteSets, Functions

CONSTANTS
    Community,           \* the community vaults; the others are personal
    Stables,             \* the vaults of kind STABLES; the others are of kind COIN
    CreatorOf,           \* who creates which vault
    PenaltyBps,          \* penaltyRateBps
    Tokens, Up, Down,    \* 10 ** |decimals - 6| of a token, above or below 6
    Sums,                \* amounts that members use
    Interest, Losses,    \* what the strategy may earn, or lose, at once
    Freezable,           \* the members whose accounts get frozen
    MaxHeld,             \* bound on what the vaults hold of each token
    MaxPenalties,        \* bound on the penalties ever paid in a vault
    MaxInterest, MaxLoss,    \* bounds on what the strategy ever earns and loses
    MaxBypasses,         \* bound on the bypass requests on file per member
    Names, Limits, Durations, Delays, Amounts, Balances, MinUnlockDelay,
    DefaultUnlockDelay, MaxUnlockDelay, MinPeriodDuration, MaxBps, MaxTime,
    MaxProposals                                             \* SpendingRules

\* A token has its power of ten on one side only.
ASSUME VaultAssumption ==
    /\ IsFiniteSet(Members) /\ IsFiniteSet(Vaults)
    /\ IsFiniteSet(Tokens) /\ IsFiniteSet(Names)
    /\ Community \subseteq Vaults /\ Stables \subseteq Vaults
    /\ CreatorOf \in [Vaults -> Members]
    /\ PenaltyBps \in 1 .. MaxBps /\ Sums \subseteq Nat \ {0}
    /\ Interest \subseteq Nat /\ Losses \subseteq Nat
    /\ Up \in [Tokens -> Nat \ {0}] /\ Down \in [Tokens -> Nat \ {0}]
    /\ \A t \in Tokens : Up[t] = 1 \/ Down[t] = 1

VARIABLES
    now, period, periodCount, unlockDelay, percentage, committed, totalLocked,
    proposal,        \* SpendingRules
    members,         \* memberList[vault]; {} before the vault is created
    accepted,        \* acceptedList[vault]
    books,           \* the books of each token
    bypass,          \* the bypass requests of a scope, with bypassToken
    blocked,         \* members that enforceNotFrozen refuses
    penalties,       \* how many penalties were paid in each vault
    market           \* what the lending pool of each token ever earned and lost

Personal == Vaults \ Community

Rules == INSTANCE SpendingRules WITH
    Accounts <- {},
    PersonalScopes <- {<<v, CreatorOf[v]>> : v \in Personal},
    Founders <- {<<v, CreatorOf[v]>> : v \in Community},
    Joiners <- {s \in Community \X Members : s[2] # CreatorOf[s[1]]}

ASSUME VaultRulesAssumption == Rules!RulesAssumption

ruleVars == <<period, periodCount, unlockDelay, percentage, committed, totalLocked,
              proposal>>
fixedRuleVars == <<periodCount, unlockDelay, percentage, committed, totalLocked, proposal>>
vaultVars == <<members, accepted, books, bypass, blocked, penalties, market>>
vars == <<now, ruleVars, vaultVars>>

\* <<skip, amount, token, filed>> is what the contract hashes into the id.
BypassRequest == [skip : Names, amount : Nat, token : Tokens, filed : Nat,
                  executeAfter : Nat, executed : BOOLEAN]

VaultInit ==
    /\ Rules!RulesInit
    /\ members = [v \in Vaults |-> {}]
    /\ accepted = [v \in Vaults |-> {}]
    /\ books = [t \in Tokens |-> EmptyBooks]
    /\ bypass = [s \in Vaults \X Members |-> {}]
    /\ blocked = {}
    /\ penalties = [v \in Vaults |-> 0]
    /\ market = [t \in Tokens |-> [earned |-> 0, lost |-> 0]]

-----------------------------------------------------------------------------
(* Life of a vault.                                                        *)

\* A percentage cap needs a single asset.
CreateVault(v, tokens, batch, arePercentage) ==
    /\ members[v] = {}
    /\ tokens # {}
    /\ v \notin Stables => Cardinality(tokens) = 1
    /\ v \in Stables => ~arePercentage
    /\ Rules!InstallRules(<<v, CreatorOf[v]>>, batch, arePercentage)
    /\ members' = [members EXCEPT ![v] = {CreatorOf[v]}]
    /\ accepted' = [accepted EXCEPT ![v] = tokens]
    /\ UNCHANGED <<books, bypass, blocked, penalties, market>>

\* The creator's terms may move while nobody else has joined under them.
TermsOpen(v) == v \in Personal \/ Cardinality(members[v]) = 1

AddAcceptedToken(v, t) ==
    /\ members[v] # {} /\ TermsOpen(v) /\ v \in Stables /\ t \notin accepted[v]
    /\ accepted' = [accepted EXCEPT ![v] = @ \cup {t}]
    /\ UNCHANGED <<now, ruleVars, members, books, bypass, blocked, penalties, market>>

\* Mutant: the joiner's copy of the rules is not locked in.
JoinVaultUnlocked(v, m) ==
    /\ v \in Community /\ members[v] # {} /\ m \notin members[v]
    /\ Rules!MigratePeriodsTo(<<v, CreatorOf[v]>>, <<v, m>>)
    /\ members' = [members EXCEPT ![v] = @ \cup {m}]
    /\ UNCHANGED <<now, percentage, committed, totalLocked, proposal, accepted, books, bypass,
                   blocked, penalties, market>>

\* The copy of the rules is refused where the joiner's scope has rules, from an
\* earlier stay for one.
JoinVault(v, m) ==
    /\ v \in Community /\ members[v] # {} /\ m \notin members[v]
    /\ Rules!JoinRules(<<v, CreatorOf[v]>>, <<v, m>>)
    /\ members' = [members EXCEPT ![v] = @ \cup {m}]
    /\ UNCHANGED <<accepted, books, bypass, blocked, penalties, market>>

LeaveVault(v, m) ==
    /\ m \in members[v] /\ m # CreatorOf[v]
    /\ books' = [t \in Tokens |-> IF t \in accepted[v] THEN Settle(books[t], v, m, now)
                                                       ELSE books[t]]
    /\ \A t \in accepted[v] : /\ books'[t].balance[v][m] = 0
                              /\ books'[t].unclaimed[v][m] = 0
    /\ members' = [members EXCEPT ![v] = @ \ {m}]
    /\ UNCHANGED <<now, ruleVars, accepted, bypass, blocked, penalties, market>>

-----------------------------------------------------------------------------
(* Funds.                                                                  *)

Post(t, b) == books' = [books EXCEPT ![t] = b]

Credit(b, v, m, amount) ==
    [b EXCEPT !.held = @ + amount, !.balance[v][m] = @ + amount, !.total[v] = @ + amount]

Debit(b, v, m, amount) ==
    [b EXCEPT !.held = @ - amount, !.balance[v][m] = @ - amount, !.total[v] = @ - amount]

\* deposit, and depositFor by anybody; answer says what the strategy makes of
\* what is then idle.
Deposit(v, m, t, amount, answer) ==
    LET credited == Snapshot(Credit(Settle(books[t], v, m, now), v, m, amount), v, m)
    IN  /\ m \in members[v] /\ t \in accepted[v]
        /\ books[t].held + books[t].pool + amount <= MaxHeld[t]
        /\ CanInvest(credited, v)
        /\ Post(t, InvestIdle(credited, v, now, answer))
        /\ UNCHANGED <<now, ruleVars, members, accepted, bypass, blocked, penalties, market>>

\* A member's own money, with the member settled: s is the books after that.
MayTake(s, v, m, amount) ==
    /\ m \in members[v] \ blocked
    /\ amount > 0 /\ amount <= s.balance[v][m]
    /\ CanEnsureLiquidity(s, v, amount)

ToDollars(t, amount) == (amount * Up[t]) \div Down[t]
FromDollars(t, amount) == (amount * Down[t]) \div Up[t]

DollarBalance(held, v, m) ==
    SumFunctionOnSet([t \in Tokens |-> ToDollars(t, held[t].balance[v][m])], accepted[v])

\* Mutant: a stables vault counts raw amounts.
MeasuredRaw(v, t, amount) == amount

\* An amount as the limits count it, and the balance a percentage is taken of.
Measured(v, t, amount) == IF v \in Stables THEN ToDollars(t, amount) ELSE amount
Against(held, v, m, t) ==
    IF v \in Stables THEN DollarBalance(held, v, m) ELSE held[t].balance[v][m]

\* The tokens go to the member or an approved destination.
Paid(s, v, m, amount) == Debit(EnsureLiquidity(s, v, amount, now), v, m, amount)

\* paid is transferred out of what is held once amount was made liquid.
Payable(s, v, amount, paid) == paid <= EnsureLiquidity(s, v, amount, now).held

Withdraw(v, m, t, amount) ==
    LET s == Settle(books[t], v, m, now)
    IN  /\ MayTake(s, v, m, amount)
        /\ Rules!CheckAndSpend(<<v, m>>, Measured(v, t, amount),
                               Against([books EXCEPT ![t] = s], v, m, t))
        /\ Payable(s, v, amount, amount)
        /\ Post(t, Snapshot(Paid(s, v, m, amount), v, m))
        /\ UNCHANGED <<now, fixedRuleVars, members, accepted, bypass, blocked, penalties,
                       market>>

PenaltyOf(amount) == (amount * PenaltyBps) \div MaxBps

\* Mutant: the penalty is shared and paid to the treasury as well.
SharedTwice(b, v, penalty) ==
    IF v \in Community /\ b.total[v] > 0
    THEN [b EXCEPT !.accPenalty[v] = @ + (penalty * PenaltyPrecision) \div b.total[v]]
    ELSE b

\* The penalty of a community vault stays behind for those who still hold
\* something; with nobody to share it goes to the treasury.
Shared(b, v, penalty) ==
    IF v \in Community /\ b.total[v] > 0
    THEN [b EXCEPT !.held = @ + penalty,
                   !.accPenalty[v] = @ + (penalty * PenaltyPrecision) \div b.total[v]]
    ELSE b

\* What a penalty leaves behind is never paid out.
Retained(s, v, amount) ==
    IF v \in Community /\ s.total[v] > amount THEN PenaltyOf(amount) ELSE 0

WithdrawWithPenalty(v, m, t, amount) ==
    LET s == Settle(books[t], v, m, now)
    IN  /\ t \in accepted[v]
        /\ MayTake(s, v, m, amount)
        /\ Payable(s, v, amount, amount - Retained(s, v, amount))
        /\ penalties[v] < MaxPenalties
        /\ penalties' = [penalties EXCEPT ![v] = @ + 1]
        /\ Post(t, Snapshot(Shared(Paid(s, v, m, amount), v, PenaltyOf(amount)), v, m))
        /\ UNCHANGED <<now, ruleVars, members, accepted, bypass, blocked, market>>

ClaimPenaltyRewards(v, m, t) ==
    LET s == SettlePenalties(books[t], v, m)
        amount == s.unclaimed[v][m]
    IN  /\ m \in members[v] \ blocked
        /\ amount > 0 /\ amount <= s.held
        /\ Post(t, [s EXCEPT !.unclaimed[v][m] = 0, !.held = @ - amount])
        /\ UNCHANGED <<now, ruleVars, members, accepted, bypass, blocked, penalties, market>>

-----------------------------------------------------------------------------
(* The bypass of one limit: the wait is kept by BypassSystemModule under   *)
(* the member's scope, the money is paid here.                             *)

RequestBypass(v, m, t, amount, skip) ==
    LET s == <<v, m>>
        measured == Measured(v, t, amount)
    IN  /\ m \in members[v] /\ t \in accepted[v]
        /\ amount <= books[t].balance[v][m]
        /\ measured > 0 /\ measured <= Against(books, v, m, t)
        /\ Rules!FindPeriodLimit(s, skip) > 0
        /\ \A r \in bypass[s] :
              <<r.skip, r.amount, r.token, r.filed>> # <<skip, measured, t, now>>
        /\ Cardinality(bypass[s]) < MaxBypasses
        /\ bypass' = [bypass EXCEPT ![s] = @ \cup
              {[skip |-> skip, amount |-> measured, token |-> t, filed |-> now,
                executeAfter |-> now + Rules!UnlockDelay(s, skip), executed |-> FALSE]}]
        /\ UNCHANGED <<now, ruleVars, members, accepted, books, blocked, penalties, market>>

Ready(r) == ~r.executed /\ now >= r.executeAfter

ExecuteBypass(v, m, r) ==
    LET s == Settle(books[r.token], v, m, now)
        amount == IF v \in Stables THEN FromDollars(r.token, r.amount) ELSE r.amount
    IN  /\ r \in bypass[<<v, m>>] /\ Ready(r)
        /\ Rules!CheckLimitsWithBypass(<<v, m>>, r.amount, r.skip)
        /\ Rules!UpdateSpendingWithBypass(<<v, m>>, r.amount, r.skip)
        /\ MayTake(s, v, m, amount)
        /\ Payable(s, v, amount, amount)
        /\ Post(r.token, Snapshot(Paid(s, v, m, amount), v, m))
        /\ bypass' = [bypass EXCEPT ![<<v, m>>] = (@ \ {r}) \cup {[r EXCEPT !.executed = TRUE]}]
        /\ UNCHANGED <<now, fixedRuleVars, members, accepted, blocked, penalties, market>>

CancelBypass(v, m, r) ==
    /\ m \in members[v] /\ r \in bypass[<<v, m>>] /\ ~r.executed
    /\ bypass' = [bypass EXCEPT ![<<v, m>>] = @ \ {r}]
    /\ UNCHANGED <<now, ruleVars, members, accepted, books, blocked, penalties, market>>

-----------------------------------------------------------------------------
(* Earning.                                                                *)

\* Off brings everything home; on invests what is there.
SetYieldMode(v, t, on, answer) ==
    LET home == IF on THEN books[t] ELSE DivestAll(books[t], v, now)
        set == [home EXCEPT !.earning[v] = on]
    IN  /\ EarningDeployed
        /\ members[v] # {} /\ TermsOpen(v) /\ t \in accepted[v]
        /\ ~on => CanDivest(books[t], v, now)
        /\ on => CanInvest(set, v)
        /\ Post(t, IF on THEN InvestIdle(set, v, now, answer) ELSE set)
        /\ UNCHANGED <<now, ruleVars, members, accepted, bypass, blocked, penalties, market>>

\* Anybody may call it for a member.
CompoundYield(v, m, t) ==
    /\ m \in members[v]
    /\ Post(t, SnapshotYield(SettleYield(books[t], v, m, now), v, m))
    /\ UNCHANGED <<now, ruleVars, members, accepted, bypass, blocked, penalties, market>>

\* accrue, realizeFees and sweepFees: anybody may call them.
AccrueYield(v, t) ==
    /\ EarningDeployed
    /\ Post(t, Accrue(books[t], v, now))
    /\ UNCHANGED <<now, ruleVars, members, accepted, bypass, blocked, penalties, market>>

RealizeFees(v, t) ==
    LET a == Accrue(books[t], v, now)
    IN  /\ EarningDeployed
        /\ a.position[v].shares > 0 => CanRedeem(a, a.position[v].fees)
        /\ Post(t, TakeFees(a, v))
        /\ UNCHANGED <<now, ruleVars, members, accepted, bypass, blocked, penalties, market>>

SweepFees(t) ==
    /\ books[t].feesHeld > 0
    /\ Post(t, [books[t] EXCEPT !.feesHeld = 0])
    /\ UNCHANGED <<now, ruleVars, members, accepted, bypass, blocked, penalties, market>>

-----------------------------------------------------------------------------
(* The surroundings.                                                       *)

\* Interest of the lending pool, or a loss in it.
Earn(t, amount) ==
    /\ books[t].poolShares > 0 /\ market[t].earned + amount <= MaxInterest
    /\ market' = [market EXCEPT ![t].earned = @ + amount]
    /\ Post(t, [books[t] EXCEPT !.pool = @ + amount])
    /\ UNCHANGED <<now, ruleVars, members, accepted, bypass, blocked, penalties>>

Lose(t, amount) ==
    /\ amount <= TotalAssets(books[t]) /\ market[t].lost + amount <= MaxLoss
    /\ market' = [market EXCEPT ![t].lost = @ + amount]
    /\ Post(t, [books[t] EXCEPT !.pool = @ - amount])
    /\ UNCHANGED <<now, ruleVars, members, accepted, bypass, blocked, penalties>>

\* A member's account is frozen, unfrozen or recovered.
Elsewhere(m) ==
    /\ blocked' = IF m \in blocked THEN blocked \ {m} ELSE blocked \cup {m}
    /\ UNCHANGED <<now, ruleVars, members, accepted, books, bypass, penalties, market>>

\* VaultRulesModule: a member of a personal vault, frozen or not.
ChangeRules(v) ==
    /\ members[v] # {} /\ v \in Personal
    /\ Rules!ProposalStep(<<v, CreatorOf[v]>>)
    /\ UNCHANGED vaultVars

VaultTick == Rules!Tick /\ UNCHANGED vaultVars

LifeStep(v) ==
    \/ \E tokens \in SUBSET Tokens, batch \in Rules!Batches, arePercentage \in BOOLEAN :
          CreateVault(v, tokens, batch, arePercentage)
    \/ \E t \in Tokens : AddAcceptedToken(v, t)
    \/ \E m \in Members : JoinVault(v, m) \/ LeaveVault(v, m)
    \/ ChangeRules(v)

FundsStep(v) ==
    \E m \in Members :
       \/ \E t \in Tokens, amount \in Sums :
             \/ \E answer \in Answers : Deposit(v, m, t, amount, answer)
             \/ Withdraw(v, m, t, amount)
             \/ WithdrawWithPenalty(v, m, t, amount)
             \/ \E skip \in Names : RequestBypass(v, m, t, amount, skip)
       \/ \E t \in Tokens : ClaimPenaltyRewards(v, m, t)
       \/ \E r \in bypass[<<v, m>>] : ExecuteBypass(v, m, r) \/ CancelBypass(v, m, r)

EarningStep(v) ==
    \E t \in Tokens :
       \/ \E on \in BOOLEAN, answer \in Answers : SetYieldMode(v, t, on, answer)
       \/ \E m \in Members : CompoundYield(v, m, t)
       \/ AccrueYield(v, t)
       \/ RealizeFees(v, t)

VaultNext ==
    \/ VaultTick
    \/ \E v \in Vaults : LifeStep(v) \/ FundsStep(v) \/ EarningStep(v)
    \/ \E t \in Tokens : SweepFees(t)
    \/ \E t \in Tokens : \/ \E amount \in Interest : Earn(t, amount)
                         \/ \E amount \in Losses : Lose(t, amount)
    \/ \E m \in Freezable : Elsewhere(m)

VaultSpec == VaultInit /\ [][VaultNext]_vars

-----------------------------------------------------------------------------
(* Properties.                                                             *)

\* Every variable keeps its type; what a vault owes in all is the sum of what
\* its members hold, and whoever is not a member is owed nothing.
VaultTypeOK ==
    /\ books \in [Tokens -> Books]
    /\ bypass \in [Vaults \X Members -> SUBSET BypassRequest]
    /\ \A v \in Vaults : /\ members[v] \subseteq Members
                         /\ accepted[v] \subseteq Tokens
    /\ \A t \in Tokens, v \in Vaults :
          /\ books[t].total[v] = SumFunctionOnSet(books[t].balance[v], Members)
          /\ \A m \in Members \ members[v] :
                books[t].balance[v][m] = 0 /\ books[t].unclaimed[v][m] = 0

\* The penalties of others that m has coming in v.
Reward(b, v, m) == b.unclaimed[v][m] + PendingPenalty(b, v, m)

\* All that one vault, and all of them, owe in a token, the treasury's part included.
OwedIn(b, v) == b.total[v] + b.position[v].owed + b.position[v].fees
                + SumFunctionOnSet([m \in Members |-> Reward(b, v, m)], Members)

Owed(b) == SumFunctionOnSet([v \in Vaults |-> OwedIn(b, v)], Vaults)

\* Each penalty that is shared may round up by a unit for each who shares it.
Dust == (Cardinality(Members) - 1) * SumFunctionOnSet(penalties, Vaults)

\* What the vault module holds and what its strategy has cover everything
\* that is owed: balances, penalties kept for those who stayed, yield credited
\* and not yet settled, and fees, which are therefore never part of a deposit.
\* A loss of the lending pool, or what it rounds away of a supply, is missing
\* once, and later yield repays it before anybody is credited.  Stated of one
\* vault in the strategy: where several share it, a loss leaves positions with
\* shares that were burned for another (OwnFundsOnly), and what new deposits
\* make those worth is credited as yield.
MembersCovered ==
    /\ VaultTypeOK
    /\ \A t \in Tokens :
          Owed(books[t]) <= books[t].held + books[t].pool + market[t].lost + Dust

\* A member's reward grows only when somebody else leaves early and pays for
\* it: the payer has no part in it, a newcomer none in what was paid before.
RewardsStep ==
    \A t \in Tokens, v \in Vaults, m \in Members :
        Reward(books'[t], v, m) > Reward(books[t], v, m)
        => \E n \in members[v] \ {m} :
              /\ books'[t].balance[v][n] < Settle(books[t], v, n, now).balance[v][n]
              /\ penalties'[v] > penalties[v]

RewardsComeFromLeavers == [][RewardsStep]_vars

\* What is left of the token in the vaults, wherever it is.
Assets(b) == b.held + b.pool + b.feesHeld

\* Whether the windows of a scope other than `skipped' have counted `units' in
\* this step.
Counted(s, units, skipped) ==
    \A n \in Names \ skipped :
        period[s][n].active =>
            period'[s][n].spent = Rules!Refreshed(period[s][n]).spent + units

\* The units of a vault's limits: dollars, or the one token of a coin vault.
InUnits(v, t, amount) == IF v \in Stables THEN (amount * Up[t]) \div Down[t] ELSE amount

\* The part of a settled balance that m gave up in this step.
GivenUp(v, m, t) == Settle(books[t], v, m, now).balance[v][m] - books'[t].balance[v][m]

\* What leaves all vaults in this step, and the four reasons of a member.
Out(t) == Assets(books[t]) - Assets(books'[t])

ByLimits(v, m, t, out) ==
    out = GivenUp(v, m, t) /\ Counted(<<v, m>>, InUnits(v, t, out), {})

ByPenalty(v, m, t, out) ==
    /\ penalties'[v] > penalties[v]
    /\ out = GivenUp(v, m, t) - (IF v \in Community /\ books'[t].total[v] > 0
                                 THEN PenaltyOf(GivenUp(v, m, t)) ELSE 0)

ByBypass(v, m, t, out) ==
    /\ out = GivenUp(v, m, t)
    /\ \E r \in bypass[<<v, m>>] : /\ ~r.executed /\ r \notin bypass'[<<v, m>>]
                                   /\ now >= r.filed + MinUnlockDelay
                                   /\ InUnits(v, t, out) = r.amount
                                   /\ Counted(<<v, m>>, r.amount, {r.skip})

ByReward(v, m, t, out) == out = Reward(books[t], v, m) - Reward(books'[t], v, m)

Explained(t) ==
    (Out(t) > 0 /\ market'[t] = market[t]) =>
        \/ Out(t) = books[t].feesHeld /\ books'[t].feesHeld = 0
        \/ \E v \in Vaults, m \in Members \ blocked :
              \/ ByLimits(v, m, t, Out(t)) \/ ByPenalty(v, m, t, Out(t))
              \/ ByBypass(v, m, t, Out(t)) \/ ByReward(v, m, t, Out(t))

\* Money leaves a vault in five ways only, none of them for a frozen member:
\* counted by every window of that member in the units of the limits; at the
\* full price of the penalty, which stays if there is anybody to share it; by a
\* bypass that has served its wait, counted by every window it does not skip;
\* as a reward; or as the treasury's fee.  A loss is no payment.
OutflowHasAReason == [][\A t \in Tokens : Explained(t)]_vars

\* Withdrawals, bypasses, joining and leaving touch the rules only in ways the
\* spending rules allow by themselves, so that what was shown of them alone
\* holds in every vault.
ImplementsRules == Rules!RulesSpec
\* What a vault could fetch of its token from the strategy now.
Fetchable(b, v) == AtMost(Worth(b, b.position[v].shares), TotalAssets(b))

\* "One vault can never spend another's funds": while the market stands still
\* and a vault's own shares are not touched, what it could fetch with them falls
\* by no more than the unit that a division rounds away.  (It does not hold: a
\* vault is paid its recorded principal after a loss, too, for which the strategy
\* burns more shares than that vault has.)
OwnFundsOnly ==
    [][\A t \in Tokens, v \in Vaults :
          /\ market'[t] = market[t]
          /\ books'[t].position[v].shares = books[t].position[v].shares
          => Fetchable(books'[t], v) >= Fetchable(books[t], v) - 1]_vars
=============================================================================
