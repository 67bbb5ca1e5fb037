--------------------------- MODULE SpendingRules ---------------------------
(***************************************************************************)
(* The spending rules of a scope: TimePeriodLimitsModule (the periods and  *)
(* their counters) together with ProposalSystemModule (lock-in and the     *)
(* timelocked changes).  The two contracts call each other, so they are    *)
(* one state machine here.  A scope is a savings account or one member of  *)
(* one vault: both modules key everything by an address.                   *)
(*                                                                         *)
(* Every action is one transaction, which the chain runs atomically; a     *)
(* call that reverts changes nothing and is not an action.  The names of   *)
(* the sub-actions are those of the contract functions.  developmentMode   *)
(* is off, as it is in production.  The 7-day increase tally, which no     *)
(* guard reads, is left out except for the checked subtraction in it.      *)
(***************************************************************************)
EXTENDS Integers, FiniteSets

CONSTANTS
    Accounts,            \* savings accounts: their own key calls the contracts
    PersonalScopes,      \* scopes of personal vaults, reached through VaultRulesModule
    Founders,            \* the creator's scope of a community vault
    Joiners,             \* the scopes of the members who join that vault
    Names,               \* period names
    Limits,              \* limits a caller may ask for
    Durations,           \* durations a caller may ask for
    Delays,              \* unlock delays a caller may ask for
    Amounts,             \* amounts a custodian may meter
    Balances,            \* balances a custodian may supply
    MinUnlockDelay, DefaultUnlockDelay, MaxUnlockDelay,
    MinPeriodDuration,
    MaxBps,              \* the basis-point scale
    MaxTime,             \* bound on the clock
    MaxProposals         \* bound on the proposals ever filed per scope

CommunityScopes == Founders \cup Joiners

Scopes == Accounts \cup PersonalScopes \cup CommunityScopes

ASSUME RulesAssumption ==
    /\ Accounts \cap (PersonalScopes \cup CommunityScopes) = {}
    /\ PersonalScopes \cap CommunityScopes = {}
    /\ Founders \cap Joiners = {}
    /\ IsFiniteSet(Names)
    /\ Limits \subseteq Nat \ {0} /\ Durations \subseteq Nat
    /\ Delays \subseteq Nat /\ Amounts \subseteq Nat /\ Balances \subseteq Nat
    /\ MinUnlockDelay \in Nat \ {0} /\ MaxUnlockDelay \in Nat
    /\ DefaultUnlockDelay \in MinUnlockDelay .. MaxUnlockDelay
    /\ MinPeriodDuration \in Nat \ {0} /\ MaxBps \in Nat \ {0}
    /\ MaxTime \in Nat /\ MaxProposals \in Nat

VARIABLES
    now,             \* block.timestamp
    period,          \* userSpendingLimits[scope].periods, by name
    periodCount,     \* userSpendingLimits[scope].periodCount
    unlockDelay,     \* periodUnlockDelays[scope][name]; 0 is "never set"
    percentage,      \* scopeLimitsArePercentage[scope]
    committed,       \* userSetupData[scope].hasCommittedSetup
    totalLocked,     \* userSetupData[scope].totalLockedValue
    proposal         \* userProposals[scope], the ones that exist

rulesVars == <<now, period, periodCount, unlockDelay, percentage, committed,
               totalLocked, proposal>>

Period == [exists : BOOLEAN, active : BOOLEAN, limit : Nat, duration : Nat,
           spent : Nat, lastReset : Nat]

AbsentPeriod == [exists |-> FALSE, active |-> FALSE, limit |-> 0,
                 duration |-> 0, spent |-> 0, lastReset |-> 0]

\* value is the new limit ("limit"), the new unlock delay ("delay") or 0
\* ("removal"); <<kind, period, value, filed>> is what the contract hashes
\* into the proposal's id.
Proposal == [kind : {"limit", "delay", "removal"}, period : Names, value : Nat,
             filed : Nat, executeAfter : Nat, executed : BOOLEAN,
             isIncrease : BOOLEAN]

RulesInit ==
    /\ now = 0
    /\ period = [s \in Scopes |-> [n \in Names |-> AbsentPeriod]]
    /\ periodCount = [s \in Scopes |-> 0]
    /\ unlockDelay = [s \in Scopes |-> [n \in Names |-> 0]]
    /\ percentage = [s \in Scopes |-> FALSE]
    /\ committed = [s \in Scopes |-> FALSE]
    /\ totalLocked = [s \in Scopes |-> 0]
    /\ proposal = [s \in Scopes |-> {}]

-----------------------------------------------------------------------------
(* What the periods mean now.                                              *)

UnlockDelay(s, n) ==
    IF unlockDelay[s][n] = 0 THEN DefaultUnlockDelay ELSE unlockDelay[s][n]

\* Mutant: the counter is cleared and the start of the window is not moved.
RefreshedKeepsStart(p) ==
    IF now >= p.lastReset + p.duration THEN [p EXCEPT !.spent = 0] ELSE p

\* A period as the next call sees it: the window restarts on the first call
\* after it has run out.
Refreshed(p) ==
    IF now >= p.lastReset + p.duration
    THEN [p EXCEPT !.lastReset = now, !.spent = 0]
    ELSE p

EffectiveLimit(s, limit, balance) ==
    IF percentage[s] THEN (balance * limit) \div MaxBps ELSE limit

\* The limit of an active period, 0 when there is none.
FindPeriodLimit(s, n) ==
    IF period[s][n].exists /\ period[s][n].active THEN period[s][n].limit ELSE 0

\* Whether every active window has room for amount.
LimitsAdmit(s, amount, balance) ==
    \A n \in Names :
        period[s][n].active =>
            Refreshed(period[s][n]).spent + amount
                <= EffectiveLimit(s, period[s][n].limit, balance)

\* The same for a bypass of one period: the stored limit is read as it is,
\* even in a scope whose limits are percentages.
CheckLimitsWithBypass(s, amount, skip) ==
    \A n \in Names \ {skip} :
        period[s][n].active =>
            Refreshed(period[s][n]).spent + amount <= period[s][n].limit

Metered(p, amount) ==
    IF p.active THEN [Refreshed(p) EXCEPT !.spent = @ + amount] ELSE p

-----------------------------------------------------------------------------
(* Calls other contracts make; each constrains only the variables it       *)
(* names, so that a custodian's action can conjoin it.                     *)

CheckAndSpend(s, amount, balance) ==
    /\ LimitsAdmit(s, amount, balance)
    /\ period' = [period EXCEPT ![s] = [n \in Names |-> Metered(@[n], amount)]]

UpdateSpendingWithBypass(s, amount, skip) ==
    period' = [period EXCEPT ![s] =
                 [n \in Names |-> IF n = skip THEN @[n] ELSE Metered(@[n], amount)]]

ValidDelay(d) == MinUnlockDelay <= d /\ d <= MaxUnlockDelay

\* One period written by _setPeriod.  A period that already exists keeps its
\* counter and its window.
Written(p, limit, duration) ==
    IF p.exists
    THEN [p EXCEPT !.limit = limit, !.duration = duration, !.active = TRUE]
    ELSE [exists |-> TRUE, active |-> TRUE, limit |-> limit,
          duration |-> duration, spent |-> 0, lastReset |-> now]

ActiveLimits(rules) == {rules[n].limit : n \in {m \in Names : rules[m].active}}

\* The largest active limit, 0 when there is none.
MaxLimit(rules) ==
    LET isTop(x) == \A y \in ActiveLimits(rules) : y <= x
    IN  IF \E x \in ActiveLimits(rules) : isTop(x)
        THEN CHOOSE x \in ActiveLimits(rules) : isTop(x)
        ELSE 0

\* Mutant: the counters are not carried over.
MigratePeriodsUnspent(from, to) ==
    /\ to # from
    /\ \A n \in Names : ~period[to][n].exists
    /\ period' = [period EXCEPT ![to] =
                    [n \in Names |-> [period[from][n] EXCEPT !.spent = 0]]]
    /\ unlockDelay' = [unlockDelay EXCEPT ![to] = unlockDelay[from]]
    /\ periodCount' = [periodCount EXCEPT ![to] = periodCount[from]]

MigratePeriodsTo(from, to) ==
    /\ to # from
    /\ \A n \in Names : ~period[to][n].exists
    /\ period' = [period EXCEPT ![to] = period[from]]
    /\ unlockDelay' = [unlockDelay EXCEPT ![to] =
            [n \in Names |-> IF period[from][n].exists THEN unlockDelay[from][n]
                                                       ELSE @[n]]]
    /\ periodCount' = [periodCount EXCEPT ![to] = periodCount[from]]

\* Mutant: a target that is locked in already is overwritten.
MigrateSetupAnyway(from, to) ==
    /\ to # from
    /\ committed' = [committed EXCEPT ![to] = committed[from]]
    /\ totalLocked' = [totalLocked EXCEPT ![to] = totalLocked[from]]

MigrateSetupTo(from, to) ==
    /\ to # from
    /\ ~committed[to]
    /\ committed' = [committed EXCEPT ![to] = committed[from]]
    /\ totalLocked' = [totalLocked EXCEPT ![to] = totalLocked[from]]

-----------------------------------------------------------------------------
(* Transactions of the account key.                                        *)

\* Mutant: lock-in is not looked at.
RewritableAlways(s, n) == TRUE

\* Before lock-in everything may be rewritten, after it only a new name added.
Rewritable(s, n) == period[s][n].exists => ~committed[s]

\* setPeriodLimit, and addTimePeriodLimit, which passes the delay the period
\* already has.  After lock-in only a new name is accepted, with the default
\* wait whatever was asked, and the locked value is recomputed.
SetPeriodLimit(s, n, limit, duration, delay) ==
    LET new == ~period[s][n].exists
        wait == IF new /\ committed[s] THEN DefaultUnlockDelay ELSE delay
    IN  /\ duration >= MinPeriodDuration
        /\ ValidDelay(wait)
        /\ Rewritable(s, n)
        /\ period' = [period EXCEPT ![s][n] = Written(@, limit, duration)]
        /\ periodCount' = IF new THEN [periodCount EXCEPT ![s] = @ + 1]
                                 ELSE periodCount
        /\ unlockDelay' = [unlockDelay EXCEPT ![s][n] = wait]
        /\ totalLocked' = IF committed[s]
                          THEN [totalLocked EXCEPT ![s] = MaxLimit(period'[s])]
                          ELSE totalLocked
        /\ UNCHANGED <<now, percentage, committed, proposal>>

\* A batch maps the names it mentions to [limit, duration, delay]; of a name
\* mentioned twice the last mention wins.
Batches == UNION {[ns -> [limit : Limits, duration : Durations, delay : Delays]]
                    : ns \in (SUBSET Names) \ {{}}}

\* The rules and waits of a scope after _setPeriodLimits, its order check
\* applied to the periods of the batch only.
BatchValid(s, batch) ==
    /\ ~committed[s]
    /\ \A n, m \in DOMAIN batch :
          batch[n].duration < batch[m].duration => batch[n].limit <= batch[m].limit
    /\ \A n \in DOMAIN batch : /\ batch[n].duration >= MinPeriodDuration
                               /\ ValidDelay(batch[n].delay)

WriteBatch(s, batch) ==
    /\ BatchValid(s, batch)
    /\ period' = [period EXCEPT ![s] =
            [n \in Names |-> IF n \in DOMAIN batch
                             THEN Written(@[n], batch[n].limit, batch[n].duration)
                             ELSE @[n]]]
    /\ unlockDelay' = [unlockDelay EXCEPT ![s] =
            [n \in Names |-> IF n \in DOMAIN batch THEN batch[n].delay ELSE @[n]]]
    /\ periodCount' = [periodCount EXCEPT ![s] =
            @ + Cardinality({n \in DOMAIN batch : ~period[s][n].exists})]

SetPeriodLimits(s, batch) ==
    /\ WriteBatch(s, batch)
    /\ UNCHANGED <<now, percentage, committed, totalLocked, proposal>>

\* _commitInitialSetup over the rules as they are after the same call.
Commit(s, rules) ==
    /\ ~committed[s]
    /\ committed' = [committed EXCEPT ![s] = TRUE]
    /\ totalLocked' = [totalLocked EXCEPT ![s] = MaxLimit(rules)]

CommitInitialSetup(s) ==
    /\ Commit(s, period[s])
    /\ UNCHANGED <<now, period, periodCount, unlockDelay, percentage, proposal>>

CommitSetupWithPeriods(s, batch) ==
    /\ WriteBatch(s, batch)
    /\ Commit(s, period'[s])
    /\ UNCHANGED <<now, percentage, proposal>>

\* Common to the three ways of filing: locked in, the period active, and no
\* proposal with the same id on file.
File(s, kind, n, value, isIncrease) ==
    /\ committed[s]
    /\ FindPeriodLimit(s, n) > 0
    /\ \A p \in proposal[s] : <<p.kind, p.period, p.value, p.filed>>
                                 # <<kind, n, value, now>>
    /\ Cardinality(proposal[s]) < MaxProposals
    /\ proposal' = [proposal EXCEPT ![s] = @ \cup
            {[kind |-> kind, period |-> n, value |-> value, filed |-> now,
              executeAfter |-> now + UnlockDelay(s, n), executed |-> FALSE,
              isIncrease |-> isIncrease]}]
    /\ UNCHANGED <<now, period, periodCount, unlockDelay, percentage, committed,
                   totalLocked>>

ProposeLimitChange(s, n, newLimit) ==
    File(s, "limit", n, newLimit, newLimit > FindPeriodLimit(s, n))

ProposeUnlockDelayChange(s, n, delay) ==
    /\ ValidDelay(delay)
    /\ delay # UnlockDelay(s, n)
    /\ File(s, "delay", n, delay, FALSE)

ProposeLimitRemoval(s, n) == File(s, "removal", n, 0, FALSE)

\* Mutant: a proposal may run as soon as it is filed.
MaturedAtOnce(p) == now >= p.filed

Matured(p) == now >= p.executeAfter

\* An increase filed against a lower limit than the one now in force makes
\* the unsigned subtraction revert.  Nothing here looks at a freeze.
ExecuteLimitProposal(s, p) ==
    /\ p \in proposal[s]
    /\ ~p.executed
    /\ Matured(p)
    /\ p.isIncrease => FindPeriodLimit(s, p.period) <= p.value
    /\ proposal' = [proposal EXCEPT ![s] =
                      (@ \ {p}) \cup {[p EXCEPT !.executed = TRUE]}]
    /\ period[s][p.period].exists
    /\ \/ /\ p.kind = "delay"
          /\ ValidDelay(p.value)
          /\ unlockDelay' = [unlockDelay EXCEPT ![s][p.period] = p.value]
          /\ UNCHANGED <<period, periodCount>>
       \/ /\ p.kind = "removal"
          /\ periodCount[s] > 0
          /\ period' = [period EXCEPT ![s][p.period].active = FALSE]
          /\ periodCount' = [periodCount EXCEPT ![s] = @ - 1]
          /\ UNCHANGED unlockDelay
       \/ /\ p.kind = "limit"
          /\ period' = [period EXCEPT ![s][p.period].limit = p.value]
          /\ UNCHANGED <<unlockDelay, periodCount>>
    /\ UNCHANGED <<now, percentage, committed, totalLocked>>

CancelLimitProposal(s, p) ==
    /\ p \in proposal[s]
    /\ ~p.executed
    /\ proposal' = [proposal EXCEPT ![s] = @ \ {p}]
    /\ UNCHANGED <<now, period, periodCount, unlockDelay, percentage, committed,
                   totalLocked>>

RecalculateTotalLockedValue(s) ==
    /\ committed[s]
    /\ totalLocked' = [totalLocked EXCEPT ![s] = MaxLimit(period[s])]
    /\ UNCHANGED <<now, period, periodCount, unlockDelay, percentage, committed,
                   proposal>>

-----------------------------------------------------------------------------
(* What custodians and recovery do to a scope, seen from this component.   *)

Spend(s, amount, balance) ==
    /\ CheckAndSpend(s, amount, balance)
    /\ UNCHANGED <<now, periodCount, unlockDelay, percentage, committed,
                   totalLocked, proposal>>

SpendWithBypass(s, amount, skip) ==
    /\ CheckLimitsWithBypass(s, amount, skip)
    /\ UpdateSpendingWithBypass(s, amount, skip)
    /\ UNCHANGED <<now, periodCount, unlockDelay, percentage, committed,
                   totalLocked, proposal>>

\* RecoverySystemModule._migrateSpendingRules, with both modules registered.
MigrateSpendingRules(from, to) ==
    /\ MigratePeriodsTo(from, to)
    /\ MigrateSetupTo(from, to)
    /\ UNCHANGED <<now, percentage, proposal>>

\* SavingsVaultModule._installRules: the creator's scope of a new vault.
InstallRules(s, batch, arePercentage) ==
    /\ WriteBatch(s, batch)
    /\ percentage' = [percentage EXCEPT ![s] = arePercentage]
    /\ Commit(s, period'[s])
    /\ UNCHANGED <<now, proposal>>

\* Mutant: the joiner's limits are amounts whatever the creator's are.
JoinRulesAsAmounts(creator, joiner) ==
    /\ committed[creator]
    /\ MigratePeriodsTo(creator, joiner)
    /\ Commit(joiner, period'[joiner])
    /\ UNCHANGED <<now, percentage, proposal>>

\* SavingsVaultModule.joinVault: the creator's rules copied to the joiner.
JoinRules(creator, joiner) ==
    /\ committed[creator]            \* the vault has been created
    /\ MigratePeriodsTo(creator, joiner)
    /\ percentage' = [percentage EXCEPT ![joiner] = percentage[creator]]
    /\ Commit(joiner, period'[joiner])
    /\ UNCHANGED <<now, proposal>>

Tick ==
    /\ now < MaxTime
    /\ now' = now + 1
    /\ UNCHANGED <<period, periodCount, unlockDelay, percentage, committed,
                   totalLocked, proposal>>

\* The three ways to file a proposal and the two ways it ends.
ProposalStep(s) ==
    \/ \E n \in Names, limit \in Limits : ProposeLimitChange(s, n, limit)
    \/ \E n \in Names, delay \in Delays : ProposeUnlockDelayChange(s, n, delay)
    \/ \E p \in proposal[s] : ExecuteLimitProposal(s, p)
    \/ \E p \in proposal[s] : CancelLimitProposal(s, p)

AccountKeyStep(s) ==
    \/ \E n \in Names, limit \in Limits, duration \in Durations, delay \in Delays :
          SetPeriodLimit(s, n, limit, duration, delay)
    \/ \E batch \in Batches : SetPeriodLimits(s, batch)
    \/ \E batch \in Batches : CommitSetupWithPeriods(s, batch)
    \/ CommitInitialSetup(s)
    \/ \E n \in Names : ProposeLimitRemoval(s, n)
    \/ RecalculateTotalLockedValue(s)
    \/ ProposalStep(s)

AccountStep(s) ==
    \/ AccountKeyStep(s)
    \/ \E to \in Accounts : MigrateSpendingRules(s, to)

\* VaultRulesModule._scopeFor: "Community rules immutable".
MayChangeRules(s) == s \in PersonalScopes

\* A stables vault has dollar limits; a coin vault may have percentages.  The
\* terms of a community vault are fixed when it is created.
VaultStep(s) ==
    \/ /\ s \notin Joiners
       /\ \E batch \in Batches, arePercentage \in BOOLEAN :
             InstallRules(s, batch, arePercentage)
    \/ MayChangeRules(s) /\ ProposalStep(s)
    \/ s \in Founders /\ \E to \in Joiners : JoinRules(s, to)

CustodianStep(s) ==
    \/ \E amount \in Amounts, balance \in Balances : Spend(s, amount, balance)
    \/ \E amount \in Amounts, skip \in Names : SpendWithBypass(s, amount, skip)

RulesNext ==
    \/ Tick
    \/ \E s \in Accounts : AccountStep(s)
    \/ \E s \in Scopes \ Accounts : VaultStep(s)
    \/ \E s \in Scopes : CustodianStep(s)

RulesSpec == RulesInit /\ [][RulesNext]_rulesVars

-----------------------------------------------------------------------------
(* Properties.                                                             *)

\* Every variable keeps its type, and a period that exists has a wait of its
\* own within the bounds, whichever of the five ways it was written
\* (_validateUnlockDelay).
RulesTypeOK ==
    /\ now \in Nat
    /\ period \in [Scopes -> [Names -> Period]]
    /\ periodCount \in [Scopes -> Nat]
    /\ unlockDelay \in [Scopes -> [Names -> {0} \cup (MinUnlockDelay .. MaxUnlockDelay)]]
    /\ percentage \in [Scopes -> BOOLEAN]
    /\ committed \in [Scopes -> BOOLEAN]
    /\ totalLocked \in [Scopes -> Nat]
    /\ proposal \in [Scopes -> SUBSET Proposal]
    /\ \A s \in Scopes, n \in Names :
          period[s][n].exists => unlockDelay[s][n] # 0

\* A proposal on file that has served at least the shortest wait the system
\* accepts.
Served(s, n) ==
    \E p \in proposal[s] : /\ p.period = n /\ ~p.executed
                           /\ now >= p.executeAfter
                           /\ now >= p.filed + MinUnlockDelay

\* After lock-in nothing about an existing period - its limit, its window,
\* whether it applies, its wait - changes except by a proposal for that
\* period that has served its wait, and in a community vault nothing changes
\* at all (executeLimitProposal; the guard of _setPeriod; VaultRulesModule).
LockedRuleStep ==
    \A s \in Scopes, n \in Names :
        (/\ committed[s] /\ period[s][n].exists
         /\ \/ period'[s][n].limit # period[s][n].limit
            \/ period'[s][n].duration # period[s][n].duration
            \/ period'[s][n].active # period[s][n].active
            \/ unlockDelay'[s][n] # unlockDelay[s][n])
        => Served(s, n) /\ s \notin CommunityScopes

LockedRulesChangeOnlyByProposal == [][LockedRuleStep]_rulesVars

\* After lock-in, what the limits admit at a given moment never grows unless
\* a served proposal ran: adding periods, filing and cancelling proposals,
\* spending and recovery can only take room away.
RoomStep ==
    \A s \in Scopes, amount \in Amounts, balance \in Balances :
        (/\ committed[s] /\ now' = now
         /\ ~LimitsAdmit(s, amount, balance)
         /\ LimitsAdmit(s, amount, balance)')
        => \E n \in Names : Served(s, n)

RoomNeverGrowsForFree == [][RoomStep]_rulesVars

\* Lock-in is for good, and recovery hands the new address rules that admit
\* no more than the old ones did, locked in if they were (migratePeriodsTo,
\* migrateSetupTo).
LockInSurvives ==
    [][\A s \in Scopes : committed[s] =>
          /\ committed'[s]
          /\ \A to \in Accounts : s \in Accounts /\ MigrateSpendingRules(s, to) =>
                /\ committed'[to]
                /\ \A amount \in Amounts, balance \in Balances :
                      LimitsAdmit(to, amount, balance)' => LimitsAdmit(s, amount, balance)
                /\ \A n \in Names :
                      period[s][n].exists => UnlockDelay(to, n)' >= UnlockDelay(s, n)
      ]_rulesVars

\* A window's counter goes down only when the window has run out: no rewrite
\* of the rules forgives what was already spent in it.
SpentStep ==
    \A s \in Scopes, n \in Names :
        (period[s][n].exists /\ period'[s][n].spent < period[s][n].spent)
        => now >= period[s][n].lastReset + period[s][n].duration

SpentIsForgottenOnlyByTime == [][SpentStep]_rulesVars

\* Every member of a community vault lives under the creator's terms - the
\* same limits, windows and waits, all of them locked in - however the vault
\* was joined and whatever was spent since (joinVault; "Community rules
\* immutable" in VaultRulesModule._scopeFor).
MembersShareTheTerms ==
    \A f \in Founders, j \in Joiners : committed[j] =>
        /\ committed[f]
        /\ percentage[j] = percentage[f]
        /\ \A n \in Names :
              /\ period[j][n].active = period[f][n].active
              /\ period[j][n].limit = period[f][n].limit
              /\ period[j][n].duration = period[f][n].duration
              /\ UnlockDelay(j, n) = UnlockDelay(f, n)
=============================================================================
