---------------------------- MODULE SolanaVault ----------------------------
(***************************************************************************)
(* The savings-core program on Solana: a vault of one token, personal or   *)
(* shared, with limits per day, week and month.  One action is one         *)
(* instruction; the constraints of its accounts are part of its guard.     *)
(* The SOL and the SPL version of an instruction differ in how the money   *)
(* is carried and are one action here.  Nothing ever clears is_active.     *)
(* Amounts are small: the checked additions of u64 never overflow, and     *)
(* the rent the account keeps is not part of the funds.                    *)
(***************************************************************************)
EXTENDS Integers, FiniteSets, Functions

CONSTANTS
    Members, Nobody,
    Destinations,        \* addresses that may be approved, members included
    DAILY_DURATION, WEEKLY_DURATION, MONTHLY_DURATION,
    PROPOSAL_TIMELOCK, WITHDRAWAL_DESTINATION_TIMELOCK, BYPASS_REQUEST_TIMELOCK,
    PRECISION, MAX_BPS, MAX_PENALTY_BPS,
    Bounds               \* the bounds a behaviour may be under:
                         \* admin      who sets the program up
                         \* creators   who creates the vault
                         \* members    who uses it
                         \* groups     the groups of instructions that are used
                         \* community  the types of vault that are created
                         \* rules      the rules a vault is created with
                         \* changes    the changes of rules that are asked for
                         \* amounts    the amounts that are moved, never zero
                         \* held       what the vault may hold
                         \* caps       the limits that withdrawals are judged by
                         \* visits     how often a member's account is opened
                         \* moves      how often a balance changes
                         \* time       the last moment

Periods == {"daily", "weekly", "monthly"}

ASSUME SolanaAssumption ==
    /\ Nobody \notin Members
    /\ {DAILY_DURATION, WEEKLY_DURATION, MONTHLY_DURATION} \subseteq Nat \ {0}
    /\ {PROPOSAL_TIMELOCK, WITHDRAWAL_DESTINATION_TIMELOCK,
        BYPASS_REQUEST_TIMELOCK} \subseteq Nat
    /\ PRECISION \in Nat \ {0} /\ MAX_BPS \in Nat \ {0} /\ MAX_PENALTY_BPS \in 1 .. MAX_BPS
    /\ \A b \in Bounds :
          /\ b.admin \in Members /\ b.members \subseteq Members
          /\ b.community \subseteq BOOLEAN /\ b.amounts \subseteq Nat \ {0}
          /\ b.time \in Nat /\ b.caps \subseteq Nat
          /\ b.rules \subseteq [limit : [Periods -> Nat], pct : BOOLEAN, penalty : Nat]
          /\ b.changes \subseteq [limit : [Periods -> SUBSET Nat], pct : SUBSET BOOLEAN,
                                  penalty : SUBSET Nat]

VARIABLES
    config,      \* ProgramConfig, {} before it is initialized
    vault,       \* creator, community, rules, count, total, acc
    joined,      \* the members whose VaultMember account exists
    member,      \* VaultMember: balance, spent, reset, debt, unclaimed
    funds,       \* the vault's lamports above the rent, or its token account
    proposal,    \* RuleChangeProposal, at most one
    bypass,      \* BypassRequests
    pending,     \* PendingDestinationRequests
    approved,    \* WithdrawalDestinations, as <<member, destination>>
    now,
    revenue,     \* what the vault has paid to each treasury
    taken,       \* history: what m withdrew since it joined, by period, by cap
                 \* on the limit it was held to, and by moment
    before,      \* history: the same, of the times m was a member before
    opened,      \* history: how often the account of m was opened, by moment
    moves,       \* history: how often a balance changed
    dust,        \* history: how often a debt was rounded down
    bound        \* the bounds of this behaviour, chosen once

requestVars == <<proposal, bypass, pending, approved>>
historyVars == <<taken, before, opened>>
moneyVars == <<joined, member, funds, revenue, historyVars, moves, dust>>
solanaVars == <<config, vault, moneyVars, requestVars, now, bound>>

Duration == [p \in Periods |-> CASE p = "daily" -> DAILY_DURATION
                                 [] p = "weekly" -> WEEKLY_DURATION
                                 [] p = "monthly" -> MONTHLY_DURATION]

\* Option<T>: {} or {value}; unwrap_or.
Or(option, default) == IF option = {} THEN default ELSE CHOOSE x \in option : TRUE

-----------------------------------------------------------------------------
(* state.rs                                                                *)

\* validate_vault_params, without the name and the description.
ValidRules(r) ==
    /\ r.pct => \A p \in Periods : r.limit[p] <= MAX_BPS
    /\ \E p \in Periods : r.limit[p] > 0
    /\ r.penalty \in 1 .. MAX_PENALTY_BPS
    /\ \A pair \in {<<"daily", "weekly">>, <<"weekly", "monthly">>} :
          r.limit[pair[1]] > 0 /\ r.limit[pair[2]] > 0 => r.limit[pair[2]] >= r.limit[pair[1]]
    /\ r.limit["daily"] > 0 /\ r.limit["monthly"] > 0 /\ r.limit["weekly"] = 0 =>
          r.limit["monthly"] >= r.limit["daily"]

NoVault == [creator |-> Nobody, community |-> FALSE, count |-> 0, total |-> 0, acc |-> 0,
            rules |-> [limit |-> [p \in Periods |-> 0], pct |-> FALSE, penalty |-> 0]]

\* init_member_fields
NewMember == [balance |-> 0, spent |-> [p \in Periods |-> 0],
              reset |-> [p \in Periods |-> now], debt |-> 0, unclaimed |-> 0]

Never == [t \in 0 .. bound.time |-> 0]

NothingTaken == [p \in Periods |-> [c \in bound.caps |-> Never]]

\* Vault::effective_limit
EffectiveLimit(r, p, balance) ==
    IF r.pct THEN (balance * r.limit[p]) \div MAX_BPS ELSE r.limit[p]

\* Vault::record_penalty
RecordPenalty(acc, total, penalty) ==
    IF total > 0 THEN acc + (penalty * PRECISION) \div total ELSE acc

Share(balance, acc) == (balance * acc) \div PRECISION

\* VaultMember::settle_penalties
Settled(r, acc) ==
    LET pendingShare == Share(r.balance, acc)
        debt == IF r.debt < pendingShare THEN r.debt ELSE pendingShare
    IN  [r EXCEPT !.unclaimed = @ + pendingShare - debt, !.debt = pendingShare]

\* Mutant: the debt is left as it was.
SnapshotForgotten(r, acc) == r

\* VaultMember::snapshot_debt
Snapshot(r, acc) == [r EXCEPT !.debt = Share(r.balance, acc)]

\* Mutant: an expired window is emptied and not moved.
RolledInPlace(r, rules, p) ==
    IF rules.limit[p] > 0 /\ now >= r.reset[p] + Duration[p]
    THEN [spent |-> 0, reset |-> r.reset[p]]
    ELSE [spent |-> r.spent[p], reset |-> r.reset[p]]

\* The reset at the head of each period of check_and_update_limits.
Rolled(r, rules, p) ==
    IF rules.limit[p] > 0 /\ now >= r.reset[p] + Duration[p]
    THEN [spent |-> 0, reset |-> now]
    ELSE [spent |-> r.spent[p], reset |-> r.reset[p]]

\* VaultMember::check_and_update_limits: {} when it refuses.
Metered(r, rules, amount) ==
    LET window == [p \in Periods |-> Rolled(r, rules, p)]
        limited == {p \in Periods : rules.limit[p] > 0}
    IN  IF \E p \in limited : window[p].spent + amount > EffectiveLimit(rules, p, r.balance)
        THEN {}
        ELSE {[r EXCEPT
                 !.spent = [p \in Periods |-> window[p].spent + IF p \in limited THEN amount ELSE 0],
                 !.reset = [p \in Periods |-> window[p].reset]]}

-----------------------------------------------------------------------------
(* instructions.rs: configuration, vaults and membership.                  *)

SolanaInit ==
    /\ bound \in Bounds
    /\ config = {} /\ vault = NoVault /\ joined = {} /\ funds = 0 /\ now = 0 /\ moves = 0 /\ dust = 0
    /\ member = [m \in Members |-> NewMember]
    /\ revenue = [m \in Members |-> 0]
    /\ taken = [m \in Members |-> NothingTaken] /\ before = taken
    /\ opened = [m \in Members |-> Never]
    /\ proposal = {} /\ bypass = {} /\ pending = {} /\ approved = {}

\* The first to call it is the administrator.
InitializeProgramConfig(admin, rate) ==
    /\ config = {}
    /\ rate \in 1 .. MAX_PENALTY_BPS
    /\ config' = {[admin |-> admin, treasury |-> admin, rate |-> rate]}
    /\ UNCHANGED <<vault, moneyVars, requestVars, now, bound>>

UpdateProgramConfig(admin, treasury, rate) ==
    \E c \in config :
        /\ c.admin = admin
        /\ rate \subseteq 1 .. MAX_PENALTY_BPS
        /\ config' = {[c EXCEPT !.treasury = Or(treasury, @), !.rate = Or(rate, @)]}
        /\ UNCHANGED <<vault, moneyVars, requestVars, now, bound>>

\* create_vault and create_spl_vault
CreateVault(creator, community, rules) ==
    /\ vault = NoVault
    /\ ValidRules(rules)
    /\ vault' = [NoVault EXCEPT !.creator = creator, !.community = community,
                                !.rules = rules, !.count = 1]
    /\ joined' = {creator}
    /\ member' = [member EXCEPT ![creator] = NewMember]
    /\ opened' = [opened EXCEPT ![creator][now] = @ + 1]
    /\ UNCHANGED <<config, funds, revenue, taken, before, moves, dust, requestVars, now, bound>>

\* What m took out in all the times it was a member.
TakenInAll(m) ==
    [p \in Periods |-> [c \in bound.caps |->
        [t \in 0 .. bound.time |-> taken[m][p][c][t] + before[m][p][c][t]]]]

\* The windows of the new account know nothing of an earlier one.
JoinVault(m) ==
    /\ vault.community /\ m \notin joined
    /\ SumFunctionOnSet(opened[m], 0 .. bound.time) < bound.visits
    /\ vault' = [vault EXCEPT !.count = @ + 1]
    /\ joined' = joined \cup {m}
    /\ member' = [member EXCEPT ![m] = NewMember]
    /\ taken' = [taken EXCEPT ![m] = NothingTaken]
    /\ before' = [before EXCEPT ![m] = TakenInAll(m)]
    /\ opened' = [opened EXCEPT ![m][now] = @ + 1]
    /\ UNCHANGED <<config, funds, revenue, moves, dust, requestVars, now, bound>>

\* Mutant: rewards that were not claimed do not keep a member in.
NothingLeftInBalance(r) == r.balance = 0

\* The two requirements of leave_vault.
NothingLeft(r) == r.balance = 0 /\ r.unclaimed = 0

\* The account of the member is closed; requests and destinations are not.
LeaveVault(m) ==
    /\ m \in joined /\ NothingLeft(member[m])
    /\ vault' = [vault EXCEPT !.count = IF @ = 0 THEN 0 ELSE @ - 1]
    /\ joined' = joined \ {m}
    /\ UNCHANGED <<config, member, funds, revenue, historyVars, moves, dust, requestVars, now, bound>>

-----------------------------------------------------------------------------
(* instructions.rs: money.                                                 *)

\* The member's account, derived from the vault and the signer.
Enters(m) == m \in joined

\* The same, and the treasury of the configuration.
PaysPenalty(m) == config # {} /\ Enters(m)

\* The last lines of every handler that changes the balance of m: r is its
\* settled and metered account, acc the accumulator in the end.
Move(m, r, change, acc) ==
    /\ moves < bound.moves
    /\ member' = [member EXCEPT ![m] = Snapshot([r EXCEPT !.balance = @ + change], acc)]
    /\ vault' = [vault EXCEPT !.total = @ + change, !.acc = acc]
    /\ moves' = moves + 1
    /\ dust' = dust + IF ((r.balance + change) * acc) % PRECISION = 0 THEN 0 ELSE 1

\* deposit_sol and deposit_spl
Deposit(m, amount) ==
    /\ Enters(m)
    /\ funds + amount <= bound.held
    /\ Move(m, Settled(member[m], vault.acc), amount, vault.acc)
    /\ funds' = funds + amount
    /\ UNCHANGED <<config, joined, revenue, historyVars, requestVars, now, bound>>

\* What m has taken, with this amount: it counts under every cap that the
\* limit it is held to stays within, and under none where p has no limit.
Remembered(m, amount) ==
    [p \in Periods |-> [c \in bound.caps |->
        IF vault.rules.limit[p] > 0 /\ EffectiveLimit(vault.rules, p, member[m].balance) <= c
        THEN [taken[m][p][c] EXCEPT ![now] = @ + amount]
        ELSE taken[m][p][c]]]

\* withdraw_sol and withdraw_spl
Withdraw(m, amount) ==
    /\ Enters(m) /\ member[m].balance >= amount /\ funds >= amount
    /\ \E r \in Metered(Settled(member[m], vault.acc), vault.rules, amount) :
          Move(m, r, -amount, vault.acc)
    /\ funds' = funds - amount
    /\ taken' = [taken EXCEPT ![m] = Remembered(m, amount)]
    /\ UNCHANGED <<config, joined, revenue, before, opened, requestVars, now, bound>>

PenaltyOf(amount) == (amount * vault.rules.penalty) \div MAX_BPS

\* Mutant: the member is paid out in full and the treasury goes without.
TreasuryForgotten(penalty) == revenue

\* The treasury of the configuration is paid the penalty.
PayTreasury(penalty) ==
    [t \in Members |-> revenue[t] + IF \E c \in config : c.treasury = t THEN penalty ELSE 0]

\* withdraw_sol_with_penalty and withdraw_spl_with_penalty: the penalty stays
\* for the others in a community vault, and goes to the treasury otherwise.
WithdrawWithPenalty(m, amount) ==
    /\ PaysPenalty(m) /\ member[m].balance >= amount
    /\ LET penalty == PenaltyOf(amount)
           out == IF vault.community THEN amount - penalty ELSE amount
           acc == IF vault.community
                  THEN RecordPenalty(vault.acc, vault.total - amount, penalty)
                  ELSE vault.acc
       IN  /\ funds >= out
           /\ Move(m, Settled(member[m], vault.acc), -amount, acc)
           /\ funds' = funds - out
           /\ revenue' = IF vault.community THEN revenue ELSE PayTreasury(penalty)
    /\ UNCHANGED <<config, joined, historyVars, requestVars, now, bound>>

\* claim_penalty_rewards and claim_spl_penalty_rewards
ClaimPenaltyRewards(m) ==
    /\ Enters(m)
    /\ LET r == Settled(member[m], vault.acc)
       IN  /\ r.unclaimed > 0 /\ funds >= r.unclaimed
           /\ funds' = funds - r.unclaimed
           /\ member' = [member EXCEPT ![m] = [r EXCEPT !.unclaimed = 0]]
    /\ UNCHANGED <<config, vault, joined, revenue, historyVars, moves, dust, requestVars, now, bound>>

-----------------------------------------------------------------------------
(* instructions.rs: the rules of a personal vault.                         *)

Changed(r, change) ==
    [limit |-> [p \in Periods |-> Or(change.limit[p], r.limit[p])],
     pct |-> Or(change.pct, r.pct), penalty |-> Or(change.penalty, r.penalty)]

\* The counters of the windows stay what they are.
SetRules(r) == vault' = [vault EXCEPT !.rules = r]

\* The rules of a community vault have no owner.
OwnsRules(m) == m = vault.creator /\ ~vault.community

\* Mutant: the rules a direct change leads to are not looked at.
UpdateVaultRulesUnchecked(m, change) ==
    /\ OwnsRules(m)
    /\ SetRules(Changed(vault.rules, change))
    /\ UNCHANGED <<config, moneyVars, requestVars, now, bound>>

UpdateVaultRules(m, change) ==
    /\ OwnsRules(m)
    /\ ValidRules(Changed(vault.rules, change))
    /\ SetRules(Changed(vault.rules, change))
    /\ UNCHANGED <<config, moneyVars, requestVars, now, bound>>

\* basis is history: the rules the proposal was checked against.
ProposeRuleChange(m, change) ==
    /\ OwnsRules(m)
    /\ proposal = {}
    /\ ValidRules(Changed(vault.rules, change))
    /\ proposal' = {[change |-> change, basis |-> vault.rules, created |-> now,
                     after |-> now + PROPOSAL_TIMELOCK]}
    /\ UNCHANGED <<config, vault, moneyVars, bypass, pending, approved, now, bound>>

\* The result is not validated again.
ExecuteRuleChange(m) ==
    /\ OwnsRules(m)
    /\ \E p \in proposal : now >= p.after /\ SetRules(Changed(vault.rules, p.change))
    /\ proposal' = {}
    /\ UNCHANGED <<config, moneyVars, bypass, pending, approved, now, bound>>

CancelRuleChange(m) ==
    /\ m = vault.creator /\ proposal # {}
    /\ proposal' = {}
    /\ UNCHANGED <<config, vault, moneyVars, bypass, pending, approved, now, bound>>

-----------------------------------------------------------------------------
(* instructions.rs: withdrawal destinations and bypass requests.           *)

\* The accounts of the requests are derived from the vault and the member,
\* not from the membership: they outlive it.
PendingOf(m) == {q \in pending : q.member = m}

BypassOf(m) == {q \in bypass : q.member = m}

AddWithdrawalDestination(m, d) ==
    /\ m \in joined /\ d # m /\ <<m, d>> \notin approved
    /\ approved' = approved \cup {<<m, d>>}
    /\ UNCHANGED <<config, vault, moneyVars, proposal, bypass, pending, now, bound>>

RequestWithdrawalDestination(m, d) ==
    /\ m \in joined /\ d # m
    /\ ~\E q \in PendingOf(m) : q.destination = d
    /\ pending' = pending \cup {[member |-> m, destination |-> d, created |-> now,
                                 after |-> now + WITHDRAWAL_DESTINATION_TIMELOCK]}
    /\ UNCHANGED <<config, vault, moneyVars, proposal, bypass, approved, now, bound>>

ExecuteDestinationRequest(m, q) ==
    /\ m \in joined /\ q \in PendingOf(m) /\ now >= q.after
    /\ <<m, q.destination>> \notin approved
    /\ pending' = pending \ {q}
    /\ approved' = approved \cup {<<m, q.destination>>}
    /\ UNCHANGED <<config, vault, moneyVars, proposal, bypass, now, bound>>

CancelDestinationRequest(m, q) ==
    /\ m \in joined /\ q \in PendingOf(m)
    /\ pending' = pending \ {q}
    /\ UNCHANGED <<config, vault, moneyVars, proposal, bypass, approved, now, bound>>

RemoveWithdrawalDestination(m, d) ==
    /\ m \in joined /\ <<m, d>> \in approved
    /\ approved' = approved \ {<<m, d>>}
    /\ UNCHANGED <<config, vault, moneyVars, proposal, bypass, pending, now, bound>>

\* Mutant: the wait runs from the start of time.
BypassDueAtOnce == 0

BypassDue == now + BYPASS_REQUEST_TIMELOCK

RequestBypass(m, amount) ==
    /\ m \in joined /\ member[m].balance >= amount
    /\ BypassOf(m) = {}
    /\ bypass' = bypass \cup {[member |-> m, amount |-> amount, created |-> now,
                               after |-> BypassDue]}
    /\ UNCHANGED <<config, vault, moneyVars, proposal, pending, approved, now, bound>>

\* execute_bypass_sol and execute_bypass_spl
ExecuteBypass(m, q) ==
    /\ m \in joined /\ q \in BypassOf(m) /\ now >= q.after
    /\ member[m].balance >= q.amount /\ funds >= q.amount
    /\ Move(m, Settled(member[m], vault.acc), -q.amount, vault.acc)
    /\ funds' = funds - q.amount
    /\ bypass' = bypass \ {q}
    /\ UNCHANGED <<config, joined, revenue, historyVars, proposal, pending, approved, now, bound>>

CancelBypass(m, q) ==
    /\ m \in joined /\ q \in BypassOf(m)
    /\ bypass' = bypass \ {q}
    /\ UNCHANGED <<config, vault, moneyVars, proposal, pending, approved, now, bound>>

Tick ==
    /\ now < bound.time
    /\ now' = now + 1
    /\ UNCHANGED <<config, vault, moneyVars, requestVars, bound>>

-----------------------------------------------------------------------------
Uses(group) == group \in bound.groups

SetUpStep ==
    \/ InitializeProgramConfig(bound.admin, 1)
    \/ \E m \in bound.members :
          \/ \E rules \in bound.rules, community \in bound.community :
                m \in bound.creators /\ CreateVault(m, community, rules)
          \/ JoinVault(m)
          \/ LeaveVault(m)

ConfigStep ==
    \E m \in Members, t \in {{}} \cup {{d} : d \in Members}, rate \in {{}, {2}} :
        UpdateProgramConfig(m, t, rate)

WithdrawStep == \E m \in joined, a \in bound.amounts : Withdraw(m, a)

DepositStep == \E m \in joined, a \in bound.amounts : Deposit(m, a)

PenaltyStep ==
    \E m \in joined :
        \/ \E a \in bound.amounts : WithdrawWithPenalty(m, a)
        \/ ClaimPenaltyRewards(m)

RulesStep ==
    \E m \in Members :
        \/ \E change \in bound.changes : UpdateVaultRules(m, change) \/ ProposeRuleChange(m, change)
        \/ ExecuteRuleChange(m) \/ CancelRuleChange(m)

DestinationStep ==
    \E m \in joined :
        \/ \E d \in Destinations :
              \/ AddWithdrawalDestination(m, d) \/ RequestWithdrawalDestination(m, d)
              \/ RemoveWithdrawalDestination(m, d)
        \/ \E q \in pending : ExecuteDestinationRequest(m, q) \/ CancelDestinationRequest(m, q)

BypassStep ==
    \E m \in joined :
        \/ \E a \in bound.amounts : RequestBypass(m, a)
        \/ \E q \in bypass : ExecuteBypass(m, q) \/ CancelBypass(m, q)

SolanaNext ==
    \/ SetUpStep
    \/ Tick
    \/ Uses("config") /\ ConfigStep
    \/ Uses("deposit") /\ DepositStep
    \/ Uses("withdraw") /\ WithdrawStep
    \/ Uses("penalty") /\ PenaltyStep
    \/ Uses("rules") /\ RulesStep
    \/ Uses("destination") /\ DestinationStep
    \/ Uses("bypass") /\ BypassStep

SolanaSpec == SolanaInit /\ [][SolanaNext]_solanaVars

-----------------------------------------------------------------------------
(* Properties.                                                             *)

SolanaTypeOK ==
    /\ config \subseteq [admin : Members, treasury : Members, rate : 1 .. MAX_PENALTY_BPS]
    /\ vault.creator \in Members \cup {Nobody} /\ vault.community \in BOOLEAN
    /\ vault.total \in Nat /\ vault.acc \in Nat
    /\ joined \subseteq Members /\ funds \in Nat /\ now \in Nat
    /\ \A m \in joined :
          /\ member[m].balance \in Nat /\ member[m].unclaimed \in Nat /\ member[m].debt \in Nat
          /\ member[m].debt <= Share(member[m].balance, vault.acc)
          /\ \A p \in Periods : member[m].reset[p] \in 0 .. now /\ member[m].spent[p] \in Nat
    /\ Cardinality(proposal) <= 1
    /\ \A q, q2 \in bypass : q.member = q2.member => q = q2

\* What m could take out, were the limits lifted.
Owed(m) == LET r == Settled(member[m], vault.acc) IN r.balance + r.unclaimed

\* The two counters of the vault agree with its members: shares are computed
\* from the first, and a wrong one would pay rewards that do not exist.
BooksAgree ==
    /\ vault.total = SumFunctionOnSet([m \in Members |-> member[m].balance], joined)
    /\ vault.count = Cardinality(joined)

\* The vault can pay everybody: what it holds covers every balance and every
\* reward, claimed or not, whoever joined, paid a penalty, left and came back
\* in between.  A debt that does not come out even is rounded down when a
\* balance changes; each time that may promise less than one unit too much,
\* and nothing else may (settle_penalties, snapshot_debt, record_penalty).
OwedIsCovered ==
    /\ SolanaTypeOK /\ BooksAgree
    /\ SumFunctionOnSet([m \in Members |-> Owed(m)], joined) <= funds + dust

\* The limits hold over any stretch as long as a period, and not only within
\* the windows that the program keeps: of what was withdrawn under a limit of
\* c or less, an account that is there when the stretch begins takes at most
\* 2 * c, since a window may begin where one ends, and each account opened
\* within the stretch at most c.  So closing the account and joining again
\* does give a member another limit, and no more than that; neither changes of
\* the rules nor limits in percent of a growing balance give any
\* (check_and_update_limits, leave_vault, join_vault, update_vault_rules).
TwoLimitsPerStretch ==
    \A m \in Members, p \in Periods, c \in bound.caps, t \in 0 .. now :
        LET stretch == {u \in t .. now : u < t + Duration[p]}
        IN  SumFunctionOnSet(taken[m][p][c], stretch) + SumFunctionOnSet(before[m][p][c], stretch)
              <= c * (SumFunctionOnSet(opened[m], stretch)
                        + IF \E u \in 0 .. t - 1 : opened[m][u] > 0 THEN 2 ELSE 0)

\* Money leaves a vault in four ways only: counted in every limited window of
\* one member; with the penalty left to the others, or in the hands of the
\* treasury in force, to the last unit; as a bypass, asked for and used up,
\* that waited its time in full; or as a reward somebody earned.  No other
\* way pays a treasury or uses up a request (withdraw_sol,
\* withdraw_sol_with_penalty, execute_bypass_sol, claim_penalty_rewards).
OutflowHasAReason ==
    [][ funds' < funds =>
        \E m \in joined :
          LET paid == funds - funds'
              lost == member[m].balance - member'[m].balance
              penalty == (lost * vault.rules.penalty) \div MAX_BPS
          IN  \/ /\ lost = paid
                 /\ \A p \in Periods : vault.rules.limit[p] > 0 =>
                        /\ member'[m].spent[p] >= paid
                        /\ member'[m].spent[p] <= EffectiveLimit(vault.rules, p, member[m].balance)
                 /\ UNCHANGED <<revenue, bypass>>
              \/ /\ vault.community /\ config # {} /\ paid = lost - penalty
                 /\ UNCHANGED <<revenue, bypass>>
              \/ \E c \in config :
                    /\ ~vault.community /\ paid = lost
                    /\ revenue' = [revenue EXCEPT ![c.treasury] = @ + penalty]
                    /\ UNCHANGED bypass
              \/ \E q \in bypass \ bypass' :
                    /\ q.member = m /\ q.amount = paid /\ lost = paid
                    /\ now >= q.created + BYPASS_REQUEST_TIMELOCK
                    /\ UNCHANGED revenue
              \/ /\ lost = 0 /\ member'[m].unclaimed = 0 /\ paid <= Owed(m) - member[m].balance
                 /\ UNCHANGED <<revenue, bypass>>
      ]_solanaVars

\* Leaving never forfeits: the account that is closed has nothing in it, not
\* even a reward that was never settled (leave_vault).
LeavingForfeitsNothing ==
    [][ \A m \in joined \ joined' : Owed(m) = 0 ]_solanaVars

\* The rules in force always satisfy what create_vault demands, with one
\* exception that the code allows: a proposal is checked when it is made and
\* not when it is executed, so rules that were changed directly in between may
\* combine with it into anything (update_vault_rules, execute_rule_change).
RulesStaySound ==
    [][ vault'.rules # vault.rules =>
          \/ ValidRules(vault'.rules)
          \/ \E p \in proposal : p.basis # vault.rules
      ]_solanaVars
=============================================================================
