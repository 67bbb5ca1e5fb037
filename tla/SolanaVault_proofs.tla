------------------------- MODULE SolanaVault_proofs -------------------------
(***************************************************************************)
(* Proofs about the savings-core program, for any members, amounts, rules, *)
(* changes and timelocks.  Three inductive invariants, each resting on the *)
(* one before:                                                             *)
(*                                                                         *)
(*   SolanaInv   the types of what the arithmetic touches, and that a rule *)
(*               change on file would be sound if nothing else changed the *)
(*               rules;                                                    *)
(*   Orders      totals are what the members add up to, nothing on file is *)
(*               there twice, and the funds cover the members' claims      *)
(*               counted before any division rounds them (ClaimsCovered);  *)
(*   Stretches   every window is a meter of what its member took out since *)
(*               it joined, in the sense of SumTheorems (MeterFits), and   *)
(*               what it took in earlier memberships fits the limits those *)
(*               had (Within), whatever the rules were in between.         *)
(* Configured, beside them, keeps the treasuries and what they were paid.  *)
(***************************************************************************)
EXTENDS SolanaVault, SumTheorems, TLAPS

Account == [balance : Nat, spent : [Periods -> Nat], reset : [Periods -> Nat],
            debt : Nat, unclaimed : Nat]

Rules == [limit : [Periods -> Nat], pct : BOOLEAN, penalty : Nat]

Changes == [limit : [Periods -> SUBSET Nat], pct : SUBSET BOOLEAN, penalty : SUBSET Nat]

\* The vault is a record whose accumulator never falls below zero, and whose
\* rules keep their type whatever proposals and changes have made of them.
VaultShape ==
    /\ vault = [creator |-> vault.creator, community |-> vault.community,
                count |-> vault.count, total |-> vault.total, acc |-> vault.acc,
                rules |-> vault.rules]
    /\ vault.total \in Int /\ vault.acc \in Nat /\ vault.rules \in Rules

\* A change on file leads from the rules it was checked against to sound ones.
ProposalsWereSound ==
    \A p \in proposal : ValidRules(Changed(p.basis, p.change)) /\ p.change \in Changes

\* A bypass on file has its whole wait before it.
BypassesWait ==
    \A q \in bypass : q.amount \in Nat /\ q.after = q.created + BYPASS_REQUEST_TIMELOCK

\* Nobody is in a vault that is not created yet.
EmptyBefore == vault.creator = Nobody => joined = {} /\ ~vault.community

Config == [admin : Members, treasury : Members, rate : Nat]

\* There is at most one configuration; treasuries are paid in whole units.
Configured ==
    /\ \A c, d \in config : c = d
    /\ config \subseteq Config
    /\ revenue \in [Members -> Nat]

SolanaInv ==
    /\ bound \in Bounds /\ now \in Nat
    /\ joined \subseteq Members /\ member \in [Members -> Account]
    /\ funds \in Nat
    /\ BypassesWait /\ VaultShape /\ ProposalsWereSound /\ EmptyBefore

-----------------------------------------------------------------------------
(* Arithmetic.                                                             *)

\* A share is a whole number, and nobody has a share in nothing.
LEMMA ShareType ==
  ASSUME NEW balance \in Nat, NEW acc \in Nat
  PROVE  Share(balance, acc) \in Nat /\ (balance = 0 => Share(balance, acc) = 0)
<1>1. balance * acc \in Nat /\ (balance = 0 => balance * acc = 0)
  OBVIOUS
<1>2. \A x \in Nat : x \div PRECISION \in Nat /\ (x = 0 => x \div PRECISION = 0)
  BY SolanaAssumption
<1> QED
  BY <1>1, <1>2 DEF Share

\* The accumulator only grows (record_penalty).
LEMMA RecordPenaltyType ==
  ASSUME NEW acc \in Nat, NEW total \in Int, NEW penalty \in Nat
  PROVE  RecordPenalty(acc, total, penalty) \in Nat
<1>1. penalty * PRECISION \in Nat
  BY SolanaAssumption
<1>2. \A x \in Nat : total > 0 => x \div total \in Nat
  OBVIOUS
<1> QED
  BY <1>1, <1>2 DEF RecordPenalty

LEMMA PenaltyOfType ==
  ASSUME VaultShape, NEW amount \in Nat
  PROVE  PenaltyOf(amount) \in Nat
<1>1. amount * vault.rules.penalty \in Nat
  BY DEF VaultShape, Rules
<1>2. \A x \in Nat : x \div MAX_BPS \in Nat
  BY SolanaAssumption
<1> QED
  BY <1>1, <1>2 DEF PenaltyOf

\* Settling adds to the rewards and leaves the balance alone
\* (settle_penalties).
LEMMA SettledType ==
  ASSUME NEW r \in Account, NEW acc \in Nat
  PROVE  /\ Settled(r, acc) \in Account
         /\ Settled(r, acc).balance = r.balance
         /\ Settled(r, acc).unclaimed >= r.unclaimed
         /\ r.balance = 0 => Settled(r, acc).unclaimed = r.unclaimed
<1> DEFINE share == Share(r.balance, acc)
           debt == IF r.debt < share THEN r.debt ELSE share
<1>1. r.balance \in Nat /\ r.debt \in Nat /\ r.unclaimed \in Nat
  BY DEF Account
<1>2. share \in Nat /\ (r.balance = 0 => share = 0)
  BY <1>1, ShareType
<1> HIDE DEF share
<1>3. /\ r.unclaimed + share - debt \in Nat
      /\ r.unclaimed + share - debt >= r.unclaimed
      /\ r.balance = 0 => r.unclaimed + share - debt = r.unclaimed
  BY <1>1, <1>2
<1>4. Settled(r, acc) = [r EXCEPT !.unclaimed = r.unclaimed + share - debt, !.debt = share]
  BY DEF Settled, share
<1> HIDE DEF debt
<1> DEFINE rewards == r.unclaimed + share - debt
<1>5. rewards \in Nat /\ rewards >= r.unclaimed /\ (r.balance = 0 => rewards = r.unclaimed)
  BY <1>3
<1>6. Settled(r, acc) = [r EXCEPT !.unclaimed = rewards, !.debt = share]
  BY <1>4
<1> HIDE DEF rewards
<1> QED
  BY <1>1, <1>2, <1>5, <1>6 DEF Account

\* Metering moves windows and adds to counters, and leaves the money alone
\* (check_and_update_limits).
LEMMA MeteredType ==
  ASSUME NEW r \in Account, NEW rules, NEW amount \in Nat, now \in Nat,
         NEW s \in Metered(r, rules, amount)
  PROVE  s \in Account /\ s.balance = r.balance
<1>1. \A p \in Periods : Rolled(r, rules, p).spent \in Nat /\ Rolled(r, rules, p).reset \in Nat
  <2> SUFFICES ASSUME NEW p \in Periods
               PROVE  Rolled(r, rules, p).spent \in Nat /\ Rolled(r, rules, p).reset \in Nat
    OBVIOUS
  <2>1. r.spent[p] \in Nat /\ r.reset[p] \in Nat
    BY DEF Account
  <2>2. CASE rules.limit[p] > 0 /\ now >= r.reset[p] + Duration[p]
    BY <2>2 DEF Rolled
  <2>3. CASE ~(rules.limit[p] > 0 /\ now >= r.reset[p] + Duration[p])
    BY <2>1, <2>3 DEF Rolled
  <2> QED
    BY <2>2, <2>3
<1> DEFINE window == [p \in Periods |-> Rolled(r, rules, p)]
           limited == {p \in Periods : rules.limit[p] > 0}
           spent == [p \in Periods |-> window[p].spent + IF p \in limited THEN amount ELSE 0]
           reset == [p \in Periods |-> window[p].reset]
<1>2. spent \in [Periods -> Nat] /\ reset \in [Periods -> Nat]
  BY <1>1
<1>3. s \in IF \E p \in limited : window[p].spent + amount > EffectiveLimit(rules, p, r.balance)
           THEN {} ELSE {[r EXCEPT !.spent = spent, !.reset = reset]}
  BY Zenon DEF Metered
<1>4. s = [r EXCEPT !.spent = spent, !.reset = reset]
  BY <1>3
<1> HIDE DEF spent, reset
<1> QED
  BY <1>2, <1>4 DEF Account

-----------------------------------------------------------------------------
(* The steps, by the part of the state they touch.                         *)

\* What any step does to members and rules: it leaves them alone, or makes sound ones,
\* or carries out a proposal that was checked against other rules.
RulesFate ==
    /\ joined \subseteq joined' \/ \E m \in joined : LeaveVault(m)
    /\ \/ vault'.rules = vault.rules
       \/ ValidRules(vault'.rules)
       \/ \E p \in proposal : p.basis # vault.rules

\* Money moves, in an account and in the vault, and nothing else does.
MoneyMoves ==
    /\ member' \in [Members -> Account] /\ VaultShape'
    /\ vault'.rules = vault.rules /\ vault'.creator = vault.creator
    /\ vault'.community = vault.community

\* The end of every handler that changes a balance.
LEMMA MoveType ==
  ASSUME SolanaInv, NEW m \in Members, NEW r \in Account, NEW change \in Int,
         r.balance + change \in Nat, NEW acc \in Nat, Move(m, r, change, acc)
  PROVE  MoneyMoves
<1> DEFINE moved == [r EXCEPT !.balance = r.balance + change]
           s == [moved EXCEPT !.debt = Share(moved.balance, acc)]
<1>1. moved \in Account
  BY DEF Account
<1>2. Share(moved.balance, acc) \in Nat
  BY <1>1, ShareType DEF Account
<1> HIDE DEF moved
<1>3. s \in Account
  BY <1>1, <1>2 DEF Account
<1>4. member' = [member EXCEPT ![m] = s]
  BY DEF Move, Snapshot, moved
<1> HIDE DEF s
<1>5. member' \in [Members -> Account]
  BY <1>3, <1>4 DEF SolanaInv
<1>6. vault' = [vault EXCEPT !.total = vault.total + change, !.acc = acc]
  BY DEF Move
<1>7. /\ VaultShape' /\ vault'.rules = vault.rules /\ vault'.creator = vault.creator
      /\ vault'.community = vault.community
  <2>1. vault' = [creator |-> vault.creator, community |-> vault.community,
                  count |-> vault.count, total |-> vault.total + change, acc |-> acc,
                  rules |-> vault.rules]
    BY <1>6 DEF SolanaInv, VaultShape
  <2>2. vault'.total \in Int /\ vault'.acc \in Nat /\ vault'.rules = vault.rules
    BY <2>1 DEF SolanaInv, VaultShape
  <2>3. vault'.creator = vault.creator /\ vault'.community = vault.community
    BY <2>1
  <2>4. vault' = [creator |-> vault'.creator, community |-> vault'.community,
                  count |-> vault'.count, total |-> vault'.total, acc |-> vault'.acc,
                  rules |-> vault'.rules]
    BY <2>1
  <2> QED
    BY <2>2, <2>3, <2>4 DEF SolanaInv, VaultShape
<1> QED
  BY <1>5, <1>7 DEF MoneyMoves

\* A handler that moves money and nothing but money keeps the invariant.
LEMMA MoneyKept ==
  ASSUME SolanaInv, MoneyMoves, UNCHANGED <<joined, proposal, now, bound>>,
         bypass' \subseteq bypass, funds' \in Nat
  PROVE  SolanaInv' /\ RulesFate
  BY DEF SolanaInv, MoneyMoves, EmptyBefore, ProposalsWereSound, BypassesWait, RulesFate

\* So does one that leaves money and rules alone, if what it files is sound.
LEMMA PaperKept ==
  ASSUME SolanaInv, UNCHANGED <<vault, moneyVars, bound>>, now' \in Nat,
         BypassesWait', ProposalsWereSound'
  PROVE  SolanaInv' /\ RulesFate
  BY DEF SolanaInv, moneyVars, EmptyBefore, VaultShape, RulesFate

\* Creation, joining and leaving.
LEMMA SetUpType ==
  ASSUME SolanaInv, SetUpStep
  PROVE  SolanaInv' /\ RulesFate
<1> USE SolanaAssumption
<1>0. bound.members \subseteq Members /\ bound.rules \subseteq Rules /\ NewMember \in Account
  BY DEF SolanaInv, NewMember, Account, Rules
<1>1. CASE InitializeProgramConfig(bound.admin, 1)
  BY <1>1, PaperKept DEF InitializeProgramConfig, SolanaInv, requestVars, ProposalsWereSound, BypassesWait
<1>2. ASSUME NEW m \in Members, NEW rules \in Rules, NEW community, CreateVault(m, community, rules)
      PROVE  SolanaInv' /\ RulesFate
  <2>1. /\ vault = NoVault /\ ValidRules(rules) /\ joined' = {m}
        /\ member' = [member EXCEPT ![m] = NewMember]
        /\ UNCHANGED <<funds, requestVars, now, bound>>
    BY <1>2 DEF CreateVault
  <2>2. vault' = [creator |-> m, community |-> community, count |-> 1, total |-> 0,
                  acc |-> 0, rules |-> rules]
    BY <1>2 DEF CreateVault, NoVault
  <2>4. VaultShape' /\ vault'.rules = rules /\ vault'.creator = m
    BY <2>2 DEF VaultShape
  <2>5. joined = {}
    BY <2>1 DEF SolanaInv, EmptyBefore, NoVault
  <2>6. member' \in [Members -> Account] /\ joined' \subseteq Members
    BY <1>0, <1>2, <2>1 DEF SolanaInv
  <2>7. EmptyBefore'
    BY <2>4 DEF EmptyBefore
  <2>8. ProposalsWereSound'
    BY <2>1 DEF SolanaInv, ProposalsWereSound, requestVars
  <2>9. ValidRules(vault'.rules)
    BY <2>1, <2>4
  <2> QED
    BY <2>1, <2>4, <2>5, <2>6, <2>7, <2>8, <2>9 DEF SolanaInv, requestVars, RulesFate,
       BypassesWait
<1>3. ASSUME NEW m \in Members, JoinVault(m)
      PROVE  SolanaInv' /\ RulesFate
  <2>1. vault' = [creator |-> vault.creator, community |-> vault.community,
                  count |-> vault.count + 1, total |-> vault.total, acc |-> vault.acc,
                  rules |-> vault.rules]
    BY <1>3 DEF JoinVault, SolanaInv, VaultShape
  <2>2. VaultShape' /\ vault'.rules = vault.rules /\ vault'.creator = vault.creator
    BY <2>1 DEF SolanaInv, VaultShape
  <2>3. vault.creator # Nobody
    BY <1>3 DEF JoinVault, SolanaInv, EmptyBefore
  <2>4. member' \in [Members -> Account] /\ joined' \subseteq Members /\ joined \subseteq joined'
    BY <1>0, <1>3 DEF JoinVault, SolanaInv
  <2> QED
    BY <1>3, <2>2, <2>3, <2>4 DEF JoinVault, SolanaInv, requestVars, EmptyBefore,
       ProposalsWereSound, RulesFate,
       BypassesWait
<1>4. ASSUME NEW m \in Members, LeaveVault(m)
      PROVE  SolanaInv' /\ RulesFate
  <2>1. \E n : vault' = [creator |-> vault.creator, community |-> vault.community,
                         count |-> n, total |-> vault.total, acc |-> vault.acc,
                         rules |-> vault.rules]
    BY <1>4 DEF LeaveVault, SolanaInv, VaultShape
  <2>2. /\ VaultShape' /\ vault'.rules = vault.rules /\ vault'.creator = vault.creator
        /\ vault'.community = vault.community
    BY <2>1 DEF SolanaInv, VaultShape
  <2>3. m \in joined /\ joined' = joined \ {m} /\ UNCHANGED <<member, funds, requestVars, now, bound>>
    BY <1>4 DEF LeaveVault
  <2> QED
    BY <1>4, <2>2, <2>3 DEF SolanaInv, requestVars, EmptyBefore, ProposalsWereSound, RulesFate,
       BypassesWait
<1> QED
  BY <1>0, <1>1, <1>2, <1>3, <1>4 DEF SetUpStep

\* Deposits, withdrawals and claims.
LEMMA MoneyType ==
  ASSUME SolanaInv, DepositStep \/ WithdrawStep \/ PenaltyStep
  PROVE  SolanaInv' /\ RulesFate
<1> USE SolanaAssumption
<1>0. joined \subseteq Members /\ bound.amounts \subseteq Nat /\ vault.acc \in Nat
  BY DEF SolanaInv, VaultShape
<1>1. \A m \in Members : /\ Settled(member[m], vault.acc) \in Account
                         /\ Settled(member[m], vault.acc).balance = member[m].balance
                         /\ member[m].balance \in Nat
  BY <1>0, SettledType DEF SolanaInv, Account
<1>2. ASSUME NEW m \in Members, NEW a \in Nat, Deposit(m, a)
      PROVE  SolanaInv' /\ RulesFate
  <2>1. Move(m, Settled(member[m], vault.acc), a, vault.acc)
        /\ UNCHANGED <<joined, requestVars, now, bound>> /\ funds' \in Nat
    BY <1>2 DEF Deposit, SolanaInv
  <2>2. Settled(member[m], vault.acc).balance + a \in Nat /\ a \in Int
        /\ Settled(member[m], vault.acc) \in Account
    BY <1>1
  <2>3. MoneyMoves
    BY <1>0, <2>1, <2>2, MoveType
  <2> QED
    BY <2>1, <2>3, MoneyKept DEF requestVars
<1>3. ASSUME NEW m \in Members, NEW a \in Nat, Withdraw(m, a)
      PROVE  SolanaInv' /\ RulesFate
  <2>1. PICK r \in Metered(Settled(member[m], vault.acc), vault.rules, a) :
           Move(m, r, -a, vault.acc)
    BY <1>3 DEF Withdraw
  <2>2. r \in Account /\ r.balance = member[m].balance
    BY <1>1, MeteredType DEF SolanaInv
  <2>3. member[m].balance >= a /\ UNCHANGED <<joined, requestVars, now, bound>>
        /\ funds' \in Nat
    BY <1>3 DEF Withdraw, SolanaInv
  <2>4. -a \in Int /\ r.balance + (-a) \in Nat
    BY <1>1, <2>2, <2>3
  <2>5. MoneyMoves
    BY <1>0, <2>1, <2>2, <2>4, MoveType
  <2> QED
    BY <2>3, <2>5, MoneyKept DEF requestVars
<1>4. ASSUME NEW m \in Members, NEW a \in Nat, WithdrawWithPenalty(m, a)
      PROVE  SolanaInv' /\ RulesFate
  <2>1. PICK acc : /\ acc = IF vault.community
                            THEN RecordPenalty(vault.acc, vault.total - a, PenaltyOf(a))
                            ELSE vault.acc
                   /\ Move(m, Settled(member[m], vault.acc), -a, acc)
    BY <1>4 DEF WithdrawWithPenalty
  <2>2. acc \in Nat
    <3>1. PenaltyOf(a) \in Nat /\ vault.total - a \in Int
      BY PenaltyOfType DEF SolanaInv, VaultShape
    <3>2. RecordPenalty(vault.acc, vault.total - a, PenaltyOf(a)) \in Nat
      BY <1>0, <3>1, RecordPenaltyType
    <3> QED
      BY <1>0, <2>1, <3>2
  <2>3. member[m].balance >= a /\ UNCHANGED <<joined, requestVars, now, bound>>
    BY <1>4 DEF WithdrawWithPenalty
  <2>6. funds' \in Nat
    <3>1. PenaltyOf(a) \in Nat /\ funds \in Nat
      BY PenaltyOfType DEF SolanaInv
    <3>2. PICK out \in {a - PenaltyOf(a), a} : funds >= out /\ funds' = funds - out
      BY <1>4 DEF WithdrawWithPenalty
    <3> QED
      BY <3>1, <3>2
  <2>4. -a \in Int /\ Settled(member[m], vault.acc).balance + (-a) \in Nat
    BY <1>1, <2>3
  <2>5. MoneyMoves
    BY <1>1, <2>1, <2>2, <2>4, MoveType
  <2> QED
    BY <2>3, <2>5, <2>6, MoneyKept DEF requestVars
<1>5. ASSUME NEW m \in Members, ClaimPenaltyRewards(m)
      PROVE  SolanaInv' /\ RulesFate
  <2>1. /\ member' = [member EXCEPT ![m] = [Settled(member[m], vault.acc) EXCEPT !.unclaimed = 0]]
        /\ UNCHANGED <<vault, joined, requestVars, now, bound>>
    BY <1>5 DEF ClaimPenaltyRewards
  <2>4. funds' \in Nat
    <3>1. Settled(member[m], vault.acc).unclaimed \in Nat
      BY <1>1 DEF Account
    <3> QED
      BY <1>5, <3>1 DEF ClaimPenaltyRewards, SolanaInv
  <2>2. [Settled(member[m], vault.acc) EXCEPT !.unclaimed = 0] \in Account
    BY <1>1 DEF Account
  <2>3. MoneyMoves
    BY <2>1, <2>2 DEF SolanaInv, MoneyMoves, VaultShape
  <2> QED
    BY <2>1, <2>3, <2>4, MoneyKept DEF requestVars
<1> QED
  BY <1>0, <1>2, <1>3, <1>4, <1>5 DEF DepositStep, WithdrawStep, PenaltyStep

\* A change of rules names values that were looked at when it was filed, or
\* none: whatever it is combined with keeps the type of rules.
LEMMA ChangedType ==
  ASSUME NEW r \in Rules, NEW change \in Changes
  PROVE  Changed(r, change) \in Rules
<1>1. \A p \in Periods : r.limit[p] \in Nat /\ change.limit[p] \in SUBSET Nat
  BY DEF Rules, Changes
<1>2. /\ r.pct \in BOOLEAN /\ change.pct \in SUBSET BOOLEAN
      /\ r.penalty \in Nat /\ change.penalty \in SUBSET Nat
  BY DEF Rules, Changes
<1>3. \A T, option, default : option \in SUBSET T /\ default \in T => Or(option, default) \in T
  BY DEF Or
<1>4. /\ \A p \in Periods : Or(change.limit[p], r.limit[p]) \in Nat
      /\ Or(change.pct, r.pct) \in BOOLEAN /\ Or(change.penalty, r.penalty) \in Nat
  BY <1>1, <1>2, <1>3
<1> QED
  BY <1>4 DEF Changed, Rules

\* Writing rules changes nothing else of the vault.
LEMMA SetRulesType ==
  ASSUME SolanaInv, NEW r \in Rules, SetRules(r),
         UNCHANGED <<joined, member, funds, now, bound>>, bypass' = bypass, ProposalsWereSound'
  PROVE  SolanaInv' /\ vault'.rules = r
<1>1. vault' = [creator |-> vault.creator, community |-> vault.community,
                count |-> vault.count, total |-> vault.total, acc |-> vault.acc, rules |-> r]
  BY DEF SetRules, SolanaInv, VaultShape
<1>2. /\ VaultShape' /\ vault'.rules = r /\ vault'.creator = vault.creator
      /\ vault'.community = vault.community
  BY <1>1 DEF SolanaInv, VaultShape
<1> QED
  BY <1>2 DEF SolanaInv, EmptyBefore, BypassesWait

\* Direct changes, proposals and their execution.
LEMMA RulesType ==
  ASSUME SolanaInv, RulesStep
  PROVE  SolanaInv' /\ RulesFate
<1>1. ASSUME NEW m \in Members, NEW change \in Changes, UpdateVaultRules(m, change)
      PROVE  SolanaInv' /\ RulesFate
  <2>1. /\ ValidRules(Changed(vault.rules, change)) /\ SetRules(Changed(vault.rules, change))
        /\ UNCHANGED <<joined, member, funds, now, bound, requestVars>>
    BY <1>1 DEF UpdateVaultRules, moneyVars
  <2>2. Changed(vault.rules, change) \in Rules
    BY ChangedType DEF SolanaInv, VaultShape
  <2>3. ProposalsWereSound'
    BY <2>1 DEF SolanaInv, ProposalsWereSound, requestVars
  <2>4. SolanaInv' /\ vault'.rules = Changed(vault.rules, change)
    BY <2>1, <2>2, <2>3, SetRulesType DEF requestVars
  <2>5. ValidRules(vault'.rules)
    BY <2>1, <2>4
  <2> QED
    BY <2>1, <2>4, <2>5 DEF RulesFate
<1>2. ASSUME NEW m \in Members, NEW change \in Changes, ProposeRuleChange(m, change)
      PROVE  SolanaInv' /\ RulesFate
  <2>1. /\ ValidRules(Changed(vault.rules, change))
        /\ proposal' = {[change |-> change, basis |-> vault.rules, created |-> now,
                         after |-> now + PROPOSAL_TIMELOCK]}
        /\ UNCHANGED <<vault, moneyVars, bypass, now, bound>>
    BY <1>2 DEF ProposeRuleChange
  <2>2. ProposalsWereSound'
    <3>1. \A p \in proposal' : p.basis = vault.rules /\ p.change = change
      BY <2>1
    <3> QED
      BY <2>1, <3>1 DEF ProposalsWereSound
  <2> QED
    BY <2>1, <2>2, PaperKept DEF SolanaInv, BypassesWait
<1>3. ASSUME NEW m \in Members, ExecuteRuleChange(m)
      PROVE  SolanaInv' /\ RulesFate
  <2>1. PICK p \in proposal : SetRules(Changed(vault.rules, p.change))
    BY <1>3 DEF ExecuteRuleChange
  <2>2. proposal' = {} /\ UNCHANGED <<joined, member, funds, bypass, now, bound>>
    BY <1>3 DEF ExecuteRuleChange, moneyVars
  <2>3. ValidRules(Changed(p.basis, p.change)) /\ p.change \in Changes
    BY DEF SolanaInv, ProposalsWereSound
  <2>4. Changed(vault.rules, p.change) \in Rules
    BY <2>3, ChangedType DEF SolanaInv, VaultShape
  <2>5. ProposalsWereSound'
    BY <2>2 DEF ProposalsWereSound
  <2>6. SolanaInv' /\ vault'.rules = Changed(vault.rules, p.change)
    BY <2>1, <2>2, <2>4, <2>5, SetRulesType
  <2>7. CASE p.basis = vault.rules
    <3>1. ValidRules(vault'.rules)
      BY <2>3, <2>6, <2>7
    <3> QED
      BY <2>2, <2>6, <3>1 DEF RulesFate
  <2>8. CASE p.basis # vault.rules
    BY <2>2, <2>6, <2>8 DEF RulesFate
  <2> QED
    BY <2>7, <2>8
<1>4. ASSUME NEW m \in Members, CancelRuleChange(m)
      PROVE  SolanaInv' /\ RulesFate
  BY <1>4, PaperKept DEF CancelRuleChange, SolanaInv, ProposalsWereSound, BypassesWait
<1>5. bound.changes \subseteq Changes
  BY SolanaAssumption DEF SolanaInv, Changes
<1> QED
  BY <1>1, <1>2, <1>3, <1>4, <1>5 DEF RulesStep

\* Destinations, bypasses, configuration and time.
LEMMA RequestsType ==
  ASSUME SolanaInv, DestinationStep \/ BypassStep \/ ConfigStep \/ Tick
  PROVE  SolanaInv' /\ RulesFate
<1> USE SolanaAssumption
<1>0. joined \subseteq Members /\ bound.amounts \subseteq Nat /\ vault.acc \in Nat
      /\ now \in Nat /\ \A q \in bypass : q.amount \in Nat
  BY DEF SolanaInv, VaultShape, BypassesWait
<1>1. /\ UNCHANGED proposal => ProposalsWereSound'
      /\ bypass' \subseteq bypass => BypassesWait'
  BY DEF SolanaInv, ProposalsWereSound, BypassesWait
<1>2. CASE DestinationStep
  <2>1. UNCHANGED <<vault, moneyVars, proposal, bypass, now, bound>>
    BY <1>2 DEF DestinationStep, AddWithdrawalDestination, RequestWithdrawalDestination,
       RemoveWithdrawalDestination, ExecuteDestinationRequest, CancelDestinationRequest
  <2> QED
    BY <1>0, <1>1, <2>1, PaperKept
<1>3. ASSUME NEW m \in Members, NEW a \in Nat, RequestBypass(m, a)
      PROVE  SolanaInv' /\ RulesFate
  <2>1. /\ bypass' = bypass \cup {[member |-> m, amount |-> a, created |-> now,
                                   after |-> BypassDue]}
        /\ UNCHANGED <<vault, moneyVars, proposal, now, bound>>
    BY <1>3 DEF RequestBypass
  <2>2. BypassesWait'
    BY <2>1 DEF BypassesWait, BypassDue, SolanaInv
  <2> QED
    BY <1>0, <1>1, <2>1, <2>2, PaperKept
<1>4. ASSUME NEW m \in Members, NEW q \in bypass, ExecuteBypass(m, q)
      PROVE  SolanaInv' /\ RulesFate
  <2>1. /\ member[m].balance >= q.amount /\ bypass' = bypass \ {q}
        /\ Move(m, Settled(member[m], vault.acc), -q.amount, vault.acc)
        /\ UNCHANGED <<joined, proposal, now, bound>>
        /\ funds >= q.amount /\ funds' = funds - q.amount
    BY <1>4 DEF ExecuteBypass
  <2>2. /\ Settled(member[m], vault.acc) \in Account
        /\ Settled(member[m], vault.acc).balance = member[m].balance
        /\ member[m].balance \in Nat
    BY <1>0, SettledType DEF SolanaInv, Account
  <2>3. -q.amount \in Int /\ Settled(member[m], vault.acc).balance + (-q.amount) \in Nat
    BY <1>0, <2>1, <2>2
  <2>4. MoneyMoves
    BY <1>0, <2>1, <2>2, <2>3, MoveType
  <2>5. funds' \in Nat
    BY <1>0, <2>1 DEF SolanaInv
  <2> QED
    BY <2>1, <2>4, <2>5, MoneyKept
<1>5. ASSUME NEW m \in Members, NEW q \in bypass, CancelBypass(m, q)
      PROVE  SolanaInv' /\ RulesFate
  BY <1>0, <1>1, <1>5, PaperKept DEF CancelBypass
<1>6. CASE ConfigStep
  <2>1. UNCHANGED <<vault, moneyVars, requestVars, now, bound>>
    BY <1>6 DEF ConfigStep, UpdateProgramConfig
  <2> QED
    BY <1>0, <1>1, <2>1, PaperKept DEF requestVars
<1>7. CASE Tick
  <2>1. now' = now + 1 /\ UNCHANGED <<vault, moneyVars, requestVars, bound>>
    BY <1>7 DEF Tick
  <2> QED
    BY <1>0, <1>1, <2>1, PaperKept DEF requestVars
<1> QED
  BY <1>0, <1>2, <1>3, <1>4, <1>5, <1>6, <1>7 DEF BypassStep

\* Every step keeps the invariant and treats members and rules as RulesFate
\* says.
LEMMA SolanaStep ==
  ASSUME SolanaInv, [SolanaNext]_solanaVars
  PROVE  SolanaInv' /\ RulesFate
<1>1. CASE UNCHANGED solanaVars
  <2>1. ProposalsWereSound'
    BY <1>1 DEF solanaVars, requestVars, SolanaInv, ProposalsWereSound
  <2> QED
    BY <1>1, <2>1, PaperKept DEF solanaVars, requestVars, SolanaInv, BypassesWait
<1> QED
  BY <1>1, SetUpType, MoneyType, RulesType, RequestsType DEF SolanaNext

-----------------------------------------------------------------------------
(* The theorems.                                                           *)

\* Balances and rules keep their type, and whatever is proposed was sound when
\* it was checked (propose_rule_change), through every instruction.
THEOREM SolanaInvariant == SolanaSpec => []SolanaInv
<1>1. SolanaInit => SolanaInv
  <2> SUFFICES ASSUME SolanaInit PROVE SolanaInv
    OBVIOUS
  <2>1. NewMember \in Account
    BY DEF SolanaInit, NewMember, Account
  <2>2. VaultShape /\ EmptyBefore
    <3>1. [limit |-> [p \in Periods |-> 0], pct |-> FALSE, penalty |-> 0] \in Rules
      BY DEF Rules
    <3> QED
      BY <3>1 DEF SolanaInit, VaultShape, EmptyBefore, NoVault
  <2> QED
    BY <2>1, <2>2 DEF SolanaInit, SolanaInv, ProposalsWereSound, BypassesWait
<1> QED
  BY <1>1, SolanaStep, PTL DEF SolanaSpec

\* The rules in force satisfy what create_vault demands after every change of
\* them, but for a proposal that was checked against other rules
\* (execute_rule_change).
THEOREM SoundRulesProof == SolanaSpec => RulesStaySound
<1>1. SolanaInv /\ [SolanaNext]_solanaVars
      => [vault'.rules # vault.rules =>
            \/ ValidRules(vault'.rules)
            \/ \E p \in proposal : p.basis # vault.rules]_solanaVars
  BY SolanaStep DEF RulesFate
<1> QED
  BY <1>1, SolanaInvariant, PTL DEF SolanaSpec, RulesStaySound

\* Whoever leaves has nothing coming, not even a reward that no instruction
\* has settled yet (leave_vault).
THEOREM LeavingProof == SolanaSpec => LeavingForfeitsNothing
<1>1. SolanaInv /\ [SolanaNext]_solanaVars
      => [\A m \in joined \ joined' : Owed(m) = 0]_solanaVars
  <2> SUFFICES ASSUME SolanaInv, [SolanaNext]_solanaVars, NEW m \in joined \ joined'
               PROVE  Owed(m) = 0
    OBVIOUS
  <2>1. LeaveVault(m)
    BY SolanaStep DEF RulesFate, LeaveVault
  <2>2. member[m].balance = 0 /\ member[m].unclaimed = 0
    BY <2>1 DEF LeaveVault, NothingLeft
  <2>3. member[m] \in Account /\ vault.acc \in Nat
    BY DEF SolanaInv, VaultShape
  <2> QED
    BY <2>2, <2>3, SettledType DEF Owed
<1> QED
  BY <1>1, SolanaInvariant, PTL DEF SolanaSpec, LeavingForfeitsNothing

-----------------------------------------------------------------------------
(* What leaves the vault.                                                  *)

\* What a move leaves in the account of m.
LEMMA MoveEffect ==
  ASSUME member \in [Members -> Account], NEW m \in Members, NEW r \in Account,
         NEW change \in Int, NEW acc \in Nat, Move(m, r, change, acc)
  PROVE  /\ member'[m].balance = r.balance + change
         /\ member'[m].unclaimed = r.unclaimed
         /\ member'[m].debt = Share(r.balance + change, acc)
         /\ member'[m].spent = r.spent /\ member'[m].reset = r.reset
         /\ \A n \in Members : n # m => member'[n] = member[n]
<1> DEFINE moved == [r EXCEPT !.balance = @ + change]
           s == [moved EXCEPT !.debt = Share(moved.balance, acc)]
<1>1. /\ moved.balance = r.balance + change /\ moved.unclaimed = r.unclaimed
      /\ moved.spent = r.spent /\ moved.reset = r.reset
      /\ DOMAIN moved = {"balance", "spent", "reset", "debt", "unclaimed"}
  BY DEF Account
<1> HIDE DEF moved
<1>2. /\ s.balance = moved.balance /\ s.unclaimed = moved.unclaimed
      /\ s.spent = moved.spent /\ s.reset = moved.reset
      /\ s.debt = Share(moved.balance, acc)
  BY <1>1
<1>3. member' = [member EXCEPT ![m] = s]
  BY DEF Move, Snapshot, moved
<1> HIDE DEF s
<1> QED
  BY <1>1, <1>2, <1>3

\* Settling touches no window, and metering checks and counts every one that
\* has a limit (check_and_update_limits).
LEMMA SettledKeepsWindows ==
  ASSUME NEW r \in Account, NEW acc
  PROVE  Settled(r, acc).spent = r.spent /\ Settled(r, acc).reset = r.reset
BY DEF Settled, Account

LEMMA MeteredEffect ==
  ASSUME NEW r \in Account, NEW rules, NEW amount \in Nat, now \in Nat,
         NEW s \in Metered(r, rules, amount)
  PROVE  /\ s.unclaimed = r.unclaimed /\ s.debt = r.debt
         /\ \A p \in Periods : rules.limit[p] > 0 =>
               /\ s.spent[p] = Rolled(r, rules, p).spent + amount
               /\ ~(s.spent[p] > EffectiveLimit(rules, p, r.balance))
         /\ \A p \in Periods : ~(rules.limit[p] > 0) => s.spent[p] = Rolled(r, rules, p).spent
         /\ \A p \in Periods : /\ Rolled(r, rules, p).spent \in Nat
                               /\ s.reset[p] = Rolled(r, rules, p).reset
<1> DEFINE window == [p \in Periods |-> Rolled(r, rules, p)]
           limited == {p \in Periods : rules.limit[p] > 0}
           spent == [p \in Periods |-> window[p].spent + IF p \in limited THEN amount ELSE 0]
           reset == [p \in Periods |-> window[p].reset]
<1>1. s \in IF \E p \in limited : window[p].spent + amount > EffectiveLimit(rules, p, r.balance)
           THEN {} ELSE {[r EXCEPT !.spent = spent, !.reset = reset]}
  BY Zenon DEF Metered
<1>2. /\ s = [r EXCEPT !.spent = spent, !.reset = reset]
      /\ \A p \in limited : ~(window[p].spent + amount > EffectiveLimit(rules, p, r.balance))
  BY <1>1
<1>3. s.spent = spent /\ s.reset = reset /\ s.unclaimed = r.unclaimed /\ s.debt = r.debt
  <2> HIDE DEF spent, reset
  <2> QED
    BY <1>2 DEF Account
<1>4. \A p \in Periods : Rolled(r, rules, p).spent \in Nat
  BY DEF Rolled, Account
<1> QED
  BY <1>2, <1>3, <1>4

\* The four ways out, the second of which differs with the type of vault.
Counted(m, paid) ==
  /\ member[m].balance - member'[m].balance = paid
  /\ \A p \in Periods : vault.rules.limit[p] > 0 =>
        /\ member'[m].spent[p] >= paid
        /\ member'[m].spent[p] <= EffectiveLimit(vault.rules, p, member[m].balance)
  /\ UNCHANGED <<revenue, bypass>>

LeftToOthers(m, paid, lost) ==
  /\ lost = member[m].balance - member'[m].balance
  /\ vault.community /\ config # {} /\ paid = lost - (lost * vault.rules.penalty) \div MAX_BPS
  /\ UNCHANGED <<revenue, bypass>>

SharedWithTreasury(m, paid, lost) ==
  /\ lost = member[m].balance - member'[m].balance
  /\ \E c \in config :
        /\ ~vault.community /\ paid = lost
        /\ revenue' = [revenue EXCEPT ![c.treasury] = @ + (lost * vault.rules.penalty) \div MAX_BPS]
        /\ UNCHANGED bypass

Bypassed(m, paid) ==
  \E q \in bypass \ bypass' :
     /\ q.member = m /\ q.amount = paid /\ member[m].balance - member'[m].balance = paid
     /\ now >= q.created + BYPASS_REQUEST_TIMELOCK
     /\ UNCHANGED revenue

Rewarded(m, paid) ==
  /\ member[m].balance - member'[m].balance = 0 /\ member'[m].unclaimed = 0
  /\ paid <= Owed(m) - member[m].balance
  /\ UNCHANGED <<revenue, bypass>>

WayOut(m, paid) ==
  \/ Counted(m, paid) \/ Bypassed(m, paid) \/ Rewarded(m, paid)
  \/ LeftToOthers(m, paid, member[m].balance - member'[m].balance)
  \/ SharedWithTreasury(m, paid, member[m].balance - member'[m].balance)

\* There is one configuration, and it names one treasury: paying it is adding
\* to one account.
LEMMA PayTreasuryEffect ==
  ASSUME Configured, NEW penalty \in Nat, NEW c \in config
  PROVE  PayTreasury(penalty) = [revenue EXCEPT ![c.treasury] = @ + penalty]
<1>1. /\ revenue \in [Members -> Nat] /\ c.treasury \in Members
      /\ \A d \in config : d = c
  BY DEF Configured, Config
<1>2. \A t \in Members : (\E d \in config : d.treasury = t) <=> t = c.treasury
  BY <1>1
<1>3. \A t \in Members : /\ revenue[t] \in Nat
                         /\ PayTreasury(penalty)[t] = revenue[t] + IF t = c.treasury THEN penalty ELSE 0
  BY <1>1, <1>2 DEF PayTreasury
<1>4. \A t \in Members :
         PayTreasury(penalty)[t] = [revenue EXCEPT ![c.treasury] = @ + penalty][t]
  BY <1>1, <1>3
<1>5. DOMAIN PayTreasury(penalty) = Members
      /\ PayTreasury(penalty) = [t \in Members |-> PayTreasury(penalty)[t]]
  BY DEF PayTreasury
<1>6. [revenue EXCEPT ![c.treasury] = @ + penalty]
        = [t \in Members |-> [revenue EXCEPT ![c.treasury] = @ + penalty][t]]
  BY <1>1
<1> QED
  BY <1>4, <1>5, <1>6

\* Only initialize_program_config and update_program_config touch the
\* configuration, and only a penalty of a personal vault what treasuries got.
LEMMA ConfiguredStep ==
  ASSUME SolanaInv, Configured, [SolanaNext]_solanaVars
  PROVE  Configured'
<1> USE SolanaAssumption
<1>0. joined \subseteq Members /\ bound.amounts \subseteq Nat /\ bound.admin \in Members
  BY DEF SolanaInv
<1>1. ASSUME UNCHANGED <<config, revenue>>
      PROVE  Configured'
  BY <1>1 DEF Configured
<1>2. CASE InitializeProgramConfig(bound.admin, 1)
  <2>1. config' = {[admin |-> bound.admin, treasury |-> bound.admin, rate |-> 1]} /\ revenue' = revenue
    BY <1>2 DEF InitializeProgramConfig, moneyVars
  <2> QED
    BY <1>0, <2>1 DEF Configured, Config
<1>3. CASE ConfigStep
  <2>1. PICK m \in Members, t \in {{}} \cup {{d} : d \in Members}, rate \in {{}, {2}} :
          UpdateProgramConfig(m, t, rate)
    BY <1>3 DEF ConfigStep
  <2>2. PICK c \in config : config' = {[c EXCEPT !.treasury = Or(t, @), !.rate = Or(rate, @)]}
    BY <2>1 DEF UpdateProgramConfig
  <2>3. revenue' = revenue
    BY <2>1 DEF UpdateProgramConfig, moneyVars
  <2>4. Or(t, c.treasury) \in Members
    <3>1. c \in Config /\ c.treasury \in Members
      BY <2>2 DEF Configured, Config
    <3>2. t = {} \/ \E e \in Members : t = {e}
      BY <2>1
    <3> QED
      BY <3>1, <3>2 DEF Or
  <2>0. Or(rate, c.rate) \in Nat
    <3>1. c \in Config /\ c.rate \in Nat
      BY <2>2 DEF Configured, Config
    <3>2. rate = {} \/ rate = {2}
      BY <2>1
    <3> QED
      BY <3>1, <3>2 DEF Or
  <2> DEFINE d == [c EXCEPT !.treasury = Or(t, @), !.rate = Or(rate, @)]
  <2>5. d.treasury \in Members
    <3>1. c \in Config
      BY <2>2 DEF Configured
    <3>2. d.treasury = Or(t, c.treasury)
      BY <3>1 DEF Config
    <3> QED
      BY <2>4, <3>2
  <2>6. d \in Config
    <3>1. c \in Config
      BY <2>2 DEF Configured
    <3> QED
      BY <2>0, <2>4, <3>1 DEF Config
  <2> HIDE DEF d
  <2>7. config' = {d}
    BY <2>2 DEF d
  <2> QED
    BY <2>3, <2>5, <2>6, <2>7 DEF Configured
<1>4. CASE PenaltyStep
  <2>1. ASSUME NEW m \in joined, NEW a \in Nat, WithdrawWithPenalty(m, a)
        PROVE  Configured'
    <3>1. PenaltyOf(a) \in Nat
      BY PenaltyOfType DEF SolanaInv
    <3>2. PayTreasury(PenaltyOf(a)) \in [Members -> Nat]
      BY <3>1 DEF PayTreasury, Configured
    <3>3. config' = config /\ revenue' \in {revenue, PayTreasury(PenaltyOf(a))}
      BY <2>1 DEF WithdrawWithPenalty
    <3> QED
      BY <3>2, <3>3 DEF Configured
  <2> QED
    BY <1>0, <1>1, <1>4, <2>1 DEF PenaltyStep, ClaimPenaltyRewards
<1>5. CASE SetUpStep /\ ~InitializeProgramConfig(bound.admin, 1)
  BY <1>1, <1>5 DEF SetUpStep, CreateVault, JoinVault, LeaveVault
<1>6. CASE DepositStep \/ WithdrawStep \/ BypassStep
  BY <1>1, <1>6 DEF DepositStep, Deposit, WithdrawStep, Withdraw, BypassStep, RequestBypass,
     ExecuteBypass, CancelBypass, moneyVars
<1>7. CASE RulesStep
  BY <1>1, <1>7 DEF RulesStep, UpdateVaultRules, ProposeRuleChange, ExecuteRuleChange,
     CancelRuleChange, moneyVars
<1>8. CASE DestinationStep \/ Tick
  BY <1>1, <1>8 DEF DestinationStep, AddWithdrawalDestination, RequestWithdrawalDestination,
     RemoveWithdrawalDestination, ExecuteDestinationRequest, CancelDestinationRequest, Tick, moneyVars
<1>9. CASE UNCHANGED solanaVars
  BY <1>1, <1>9 DEF solanaVars, moneyVars
<1> QED
  BY <1>2, <1>3, <1>4, <1>5, <1>6, <1>7, <1>8, <1>9 DEF SolanaNext

THEOREM SolanaConfigured == SolanaSpec => []Configured
<1>1. SolanaInit => Configured
  BY DEF SolanaInit, Configured
<1>2. SolanaInv /\ Configured /\ [SolanaNext]_solanaVars => Configured'
  BY ConfiguredStep
<1> QED
  BY <1>1, <1>2, SolanaInvariant, PTL DEF SolanaSpec

LEMMA OutflowStep ==
  ASSUME SolanaInv, Configured, SolanaNext, funds' < funds
  PROVE  \E m \in joined : WayOut(m, funds - funds')
<1> USE SolanaAssumption
<1>0. /\ joined \subseteq Members /\ bound.amounts \subseteq Nat /\ vault.acc \in Nat
      /\ now \in Nat /\ funds \in Nat /\ member \in [Members -> Account]
  BY SolanaAssumption DEF SolanaInv, VaultShape
<1>1. \A m \in Members :
         /\ Settled(member[m], vault.acc) \in Account
         /\ Settled(member[m], vault.acc).balance = member[m].balance
         /\ Settled(member[m], vault.acc).spent = member[m].spent
         /\ member[m].balance \in Nat
  BY <1>0, SettledType, SettledKeepsWindows DEF Account
<1>2. ASSUME NEW m \in joined, NEW a \in Nat, Withdraw(m, a)
      PROVE  Counted(m, funds - funds')
  <2>1. PICK r \in Metered(Settled(member[m], vault.acc), vault.rules, a) :
           Move(m, r, -a, vault.acc)
    BY <1>2 DEF Withdraw
  <2>2. r \in Account /\ r.balance = member[m].balance
    BY <1>0, <1>1, MeteredType
  <2>3. funds - funds' = a /\ m \in Members /\ -a \in Int
    BY <1>0, <1>2 DEF Withdraw
  <2>4. /\ member'[m].balance = r.balance + (-a)
        /\ member'[m].spent = r.spent
    BY ONLY <1>0, <2>1, <2>2, <2>3, MoveEffect
  <2>5. member[m].balance - member'[m].balance = a
    BY <1>0, <1>1, <2>2, <2>4
  <2>6. ASSUME NEW p \in Periods, vault.rules.limit[p] > 0
        PROVE  r.spent[p] >= a /\ r.spent[p] <= EffectiveLimit(vault.rules, p, member[m].balance)
    <3>1. /\ Rolled(Settled(member[m], vault.acc), vault.rules, p).spent \in Nat
          /\ r.spent[p] = Rolled(Settled(member[m], vault.acc), vault.rules, p).spent + a
          /\ ~(r.spent[p] > EffectiveLimit(vault.rules, p, member[m].balance))
      BY <1>0, <1>1, <2>6, MeteredEffect
    <3>2. EffectiveLimit(vault.rules, p, member[m].balance) \in Nat
      <4>1. vault.rules.limit[p] \in Nat
        BY DEF SolanaInv, VaultShape, Rules
      <4>2. member[m].balance * vault.rules.limit[p] \in Nat
        BY <1>0, <1>1, <4>1
      <4>3. \A x \in Nat : x \div MAX_BPS \in Nat
        OBVIOUS
      <4> QED
        BY <4>1, <4>2, <4>3 DEF EffectiveLimit
    <3> QED
      BY <3>1, <3>2
  <2> QED
    BY <1>2, <2>3, <2>4, <2>5, <2>6 DEF Counted, Withdraw, requestVars
<1>3. ASSUME NEW m \in joined, NEW a \in Nat, WithdrawWithPenalty(m, a)
      PROVE  LET lost == member[m].balance - member'[m].balance
             IN  \/ LeftToOthers(m, funds - funds', lost)
                 \/ SharedWithTreasury(m, funds - funds', lost)
  <2>1. PICK acc : /\ acc = IF vault.community
                            THEN RecordPenalty(vault.acc, vault.total - a, PenaltyOf(a))
                            ELSE vault.acc
                   /\ Move(m, Settled(member[m], vault.acc), -a, acc)
    BY <1>3 DEF WithdrawWithPenalty
  <2>2. PenaltyOf(a) \in Nat
    BY PenaltyOfType DEF SolanaInv
  <2>3. acc \in Nat
    <3>1. vault.total \in Int /\ vault.total - a \in Int
      BY DEF SolanaInv, VaultShape
    <3>2. RecordPenalty(vault.acc, vault.total - a, PenaltyOf(a)) \in Nat
      BY <1>0, <2>2, <3>1, RecordPenaltyType
    <3> QED
      BY <1>0, <2>1, <3>2
  <2>4. /\ member'[m].balance = member[m].balance + (-a)
        /\ member'[m].spent = member[m].spent
    BY <1>0, <1>1, <2>1, <2>3, MoveEffect
  <2>5. member[m].balance - member'[m].balance = a
    BY <1>0, <1>1, <2>4
  <2>6. config # {} /\ bypass' = bypass
    BY <1>3 DEF WithdrawWithPenalty, PaysPenalty, requestVars
  <2>7. CASE vault.community
    <3>1. funds' = funds - (a - PenaltyOf(a)) /\ revenue' = revenue
      BY <1>3, <2>7 DEF WithdrawWithPenalty
    <3>2. funds - funds' = a - PenaltyOf(a)
      BY <1>0, <2>2, <3>1
    <3> QED
      BY <2>5, <2>6, <2>7, <3>1, <3>2 DEF LeftToOthers, PenaltyOf
  <2>8. CASE ~vault.community
    <3>1. funds' = funds - a /\ revenue' = PayTreasury(PenaltyOf(a))
      BY <1>3, <2>8 DEF WithdrawWithPenalty
    <3>2. funds - funds' = a
      BY <1>0, <3>1
    <3>3. PICK c \in config : TRUE
      BY <2>6
    <3>4. revenue' = [revenue EXCEPT ![c.treasury] = @ + PenaltyOf(a)]
      BY <2>2, <3>1, PayTreasuryEffect
    <3> QED
      BY <2>5, <2>6, <2>8, <3>2, <3>4 DEF SharedWithTreasury, PenaltyOf
  <2> QED
    BY <2>7, <2>8
<1>4. ASSUME NEW m \in joined, ClaimPenaltyRewards(m)
      PROVE  Rewarded(m, funds - funds')
  <2> DEFINE r == Settled(member[m], vault.acc)
  <2>1. member' = [member EXCEPT ![m] = [r EXCEPT !.unclaimed = 0]] /\ funds' = funds - r.unclaimed
    BY <1>4 DEF ClaimPenaltyRewards
  <2>2. r \in Account /\ r.balance = member[m].balance
    BY <1>0, <1>1
  <2>3. Owed(m) = r.balance + r.unclaimed
    BY DEF Owed
  <2> HIDE DEF r
  <2>4. member'[m].balance = member[m].balance /\ member'[m].unclaimed = 0
    BY <1>0, <2>1, <2>2 DEF Account
  <2>5. funds - funds' = r.unclaimed /\ r.unclaimed \in Nat /\ r.balance \in Nat
    BY <1>0, <2>1, <2>2 DEF Account
  <2> QED
    BY <1>4, <2>2, <2>3, <2>4, <2>5 DEF Rewarded, ClaimPenaltyRewards, requestVars
<1>5. ASSUME NEW m \in joined, NEW q \in bypass, ExecuteBypass(m, q)
      PROVE  Bypassed(m, funds - funds')
  <2>1. /\ q.member = m /\ now >= q.after /\ funds' = funds - q.amount
        /\ bypass' = bypass \ {q}
        /\ Move(m, Settled(member[m], vault.acc), -q.amount, vault.acc)
    BY <1>5 DEF ExecuteBypass, BypassOf
  <2>2. q.amount \in Nat /\ now >= q.created + BYPASS_REQUEST_TIMELOCK
    BY <2>1 DEF SolanaInv, BypassesWait
  <2>3. member'[m].balance = member[m].balance + (-q.amount)
    BY <1>0, <1>1, <2>1, <2>2, MoveEffect
  <2>4. /\ funds - funds' = q.amount
        /\ member[m].balance - member'[m].balance = q.amount
    BY <1>0, <1>1, <2>1, <2>2, <2>3
  <2> QED
    BY <1>5, <2>1, <2>2, <2>4 DEF Bypassed, ExecuteBypass
<1>6. ASSUME NEW m \in joined, NEW a \in Nat, Deposit(m, a)
      PROVE  FALSE
  BY <1>0, <1>6 DEF Deposit
<1>7. funds' # funds
  BY <1>0
<1>8. CASE PenaltyStep
  BY <1>0, <1>3, <1>4, <1>8 DEF PenaltyStep, WayOut
<1>9. CASE BypassStep
  BY <1>5, <1>7, <1>9 DEF BypassStep, WayOut, RequestBypass, CancelBypass, moneyVars
<1>10. CASE WithdrawStep
  BY <1>0, <1>2, <1>10 DEF WithdrawStep, WayOut
<1>11. CASE DepositStep
  BY <1>0, <1>6, <1>11 DEF DepositStep
<1>12. ~SetUpStep
  BY <1>7 DEF SetUpStep, InitializeProgramConfig, CreateVault, JoinVault, LeaveVault, moneyVars
<1>13. ~RulesStep
  BY <1>7 DEF RulesStep, UpdateVaultRules, ProposeRuleChange, ExecuteRuleChange,
     CancelRuleChange, moneyVars
<1>14. ~DestinationStep /\ ~ConfigStep /\ ~Tick
  BY <1>7 DEF DestinationStep, AddWithdrawalDestination, RequestWithdrawalDestination,
     RemoveWithdrawalDestination, ExecuteDestinationRequest, CancelDestinationRequest,
     ConfigStep, UpdateProgramConfig, Tick, moneyVars
<1> QED
  BY <1>8, <1>9, <1>10, <1>11, <1>12, <1>13, <1>14 DEF SolanaNext

\* Money leaves in four ways only: counted within the limits; with the penalty
\* left to the others or paid to the treasury in force; as a bypass that has
\* waited and is used up; or as a reward that was earned (withdraw_sol,
\* withdraw_sol_with_penalty, execute_bypass_sol, claim_penalty_rewards).
THEOREM OutflowProof == SolanaSpec => OutflowHasAReason
<1>1. ASSUME SolanaInv, Configured, [SolanaNext]_solanaVars, funds' < funds
      PROVE  \E m \in joined : WayOut(m, funds - funds')
  <2>1. CASE UNCHANGED solanaVars
    BY <1>1, <2>1 DEF solanaVars, moneyVars, SolanaInv
  <2> QED
    BY <1>1, <2>1, OutflowStep
<1>2. ASSUME SolanaInv, Configured, [SolanaNext]_solanaVars, funds' < funds
      PROVE
        \E m \in joined :
          LET paid == funds - funds'
              lost == member[m].balance - member'[m].balance
              penalty == (lost * vault.rules.penalty) \div MAX_BPS
          IN  \/ /\ lost = paid
                 /\ \A p \in Periods : vault.rules.limit[p] > 0 =>
                        /\ member'[m].spent[p] >= paid
                        /\ member'[m].spent[p] <= EffectiveLimit(vault.rules, p, member[m].balance)
                 /\ UNCHANGED <<revenue, bypass>>
              \/ /\ vault.community /\ config # {} /\ paid = lost - penalty
                 /\ UNCHANGED <<revenue, bypass>>
              \/ \E c \in config :
                    /\ ~vault.community /\ paid = lost
                    /\ revenue' = [revenue EXCEPT ![c.treasury] = @ + penalty]
                    /\ UNCHANGED bypass
              \/ \E q \in bypass \ bypass' :
                    /\ q.member = m /\ q.amount = paid /\ lost = paid
                    /\ now >= q.created + BYPASS_REQUEST_TIMELOCK
                    /\ UNCHANGED revenue
              \/ /\ lost = 0 /\ member'[m].unclaimed = 0 /\ paid <= Owed(m) - member[m].balance
                 /\ UNCHANGED <<revenue, bypass>>
  BY <1>1, <1>2, Zenon DEF WayOut, Counted, LeftToOthers, SharedWithTreasury, Bypassed, Rewarded
<1> QED
  BY <1>2, SolanaInvariant, SolanaConfigured, PTL DEF SolanaSpec, OutflowHasAReason

-----------------------------------------------------------------------------
(* What the vault owes.  Each account has a claim: its balance and rewards,*)
(* less the debt of its last settlement.  What the accumulator promises on *)
(* top is in proportion to the total, so that claims, promises and funds   *)
(* can be compared without dividing.                                       *)

Balances == [m \in Members |-> member[m].balance]

Claims == [m \in Members |-> member[m].balance + member[m].unclaimed - member[m].debt]

DebtsFit == \A m \in joined : member[m].debt <= Share(member[m].balance, vault.acc)

ClaimsCovered ==
    PRECISION * SumFunctionOnSet(Claims, joined) + vault.acc * vault.total
        <= PRECISION * (funds + dust)

Books ==
    /\ IsFiniteSet(joined) /\ dust \in Nat
    /\ vault.total = SumFunctionOnSet(Balances, joined) /\ vault.count = Cardinality(joined)
    /\ DebtsFit /\ ClaimsCovered

\* What is on paper has its type, and nothing on paper is there twice.
PaperInOrder ==
    /\ config \subseteq [admin : Members, treasury : Members, rate : 1 .. MAX_PENALTY_BPS]
    /\ vault.creator \in Members \cup {Nobody} /\ vault.community \in BOOLEAN
    /\ Cardinality(proposal) <= 1
    /\ \A q, q2 \in bypass : q.member = q2.member => q = q2

WindowsHaveBegun == \A m \in joined, p \in Periods : member[m].reset[p] <= now

\* A division rounds down, by less than the divisor.
LEMMA Division ==
  ASSUME NEW x \in Nat, NEW d \in Nat \ {0}
  PROVE  /\ x \div d \in Nat /\ x % d \in Nat /\ x % d < d
         /\ d * (x \div d) = x - (x % d)
OBVIOUS

LEMMA ShareMonotone ==
  ASSUME NEW balance \in Nat, NEW acc \in Nat, NEW acc2 \in Nat, acc <= acc2
  PROVE  Share(balance, acc) <= Share(balance, acc2)
<1>1. balance * acc \in Nat /\ balance * acc2 \in Nat /\ balance * acc <= balance * acc2
  OBVIOUS
<1>2. \A x, y \in Nat : x <= y => x \div PRECISION <= y \div PRECISION
  BY SolanaAssumption
<1> QED
  BY <1>1, <1>2 DEF Share

\* With debts that fit, settling turns all that accrued into rewards.
LEMMA SettledEffect ==
  ASSUME NEW r \in Account, NEW acc \in Nat, r.debt <= Share(r.balance, acc)
  PROVE  /\ Settled(r, acc).debt = Share(r.balance, acc)
         /\ Settled(r, acc).unclaimed = r.unclaimed + Share(r.balance, acc) - r.debt
<1>1. r.balance \in Nat /\ r.debt \in Nat /\ r.unclaimed \in Nat
  BY DEF Account
<1> DEFINE share == Share(r.balance, acc)
           debt == IF r.debt < share THEN r.debt ELSE share
<1>2. share \in Nat
  BY <1>1, ShareType
<1>3. Settled(r, acc) = [r EXCEPT !.unclaimed = r.unclaimed + share - debt, !.debt = share]
  BY DEF Settled
<1> HIDE DEF share
<1>4. debt = r.debt
  BY <1>1, <1>2 DEF share
<1> HIDE DEF debt
<1> DEFINE rewards == r.unclaimed + share - debt
<1>5. Settled(r, acc) = [r EXCEPT !.unclaimed = rewards, !.debt = share]
  BY <1>3
<1>6. rewards = r.unclaimed + share - r.debt
  BY <1>4
<1> HIDE DEF rewards
<1>7. Settled(r, acc).debt = share /\ Settled(r, acc).unclaimed = rewards
  BY <1>5 DEF Account
<1> QED
  BY <1>6, <1>7 DEF share

\* The arithmetic of a move: the claims C change by what goes in or out and by
\* what is settled, less the new debt; the funds F, the accumulator and the
\* count D of debts that were rounded keep up.
LEMMA MoveCovered ==
  ASSUME NEW C \in Int, NEW T \in Int, NEW F \in Int, NEW F2 \in Int, NEW D \in Int,
         NEW acc \in Nat, NEW acc2 \in Nat, acc <= acc2,
         NEW balance \in Nat, NEW change \in Int, balance + change \in Nat,
         PRECISION * C + acc * T <= PRECISION * (F + D),
         (acc2 - acc) * (T + change) <= PRECISION * (F2 - F - change),
         NEW rounded \in Int,
         rounded = IF ((balance + change) * acc2) % PRECISION = 0 THEN 0 ELSE 1
  PROVE  PRECISION * (C + change + Share(balance, acc) - Share(balance + change, acc2))
           + acc2 * (T + change) <= PRECISION * (F2 + (D + rounded))
<1> DEFINE P == PRECISION
           x == balance * acc
           y == (balance + change) * acc2
           sh == x \div P
           sh2 == y \div P
<1>1. P \in Nat \ {0} /\ x \in Nat /\ y \in Nat
  BY SolanaAssumption
<1>2. /\ sh \in Nat /\ x % P \in Nat /\ P * sh = x - (x % P)
      /\ sh2 \in Nat /\ y % P \in Nat /\ y % P < P /\ P * sh2 = y - (y % P)
  <2> HIDE DEF P, x, y
  <2>1. sh \in Nat /\ x % P \in Nat /\ P * sh = x - (x % P)
    BY <1>1, Division
  <2>2. sh2 \in Nat /\ y % P \in Nat /\ y % P < P /\ P * sh2 = y - (y % P)
    BY <1>1, Division
  <2> QED
    BY <2>1, <2>2
<1>3. y % P <= P * rounded
  BY <1>1, <1>2
<1>4. P * sh <= x /\ P * sh2 >= y - P * rounded
  <2>1. P * sh \in Int /\ P * sh2 \in Int /\ P * rounded \in Int
    BY <1>1, <1>2
  <2> HIDE DEF P, x, y, sh, sh2
  <2> QED
    BY <1>1, <1>2, <1>3, <2>1
<1>5. Share(balance, acc) = sh /\ Share(balance + change, acc2) = sh2
  BY DEF Share
<1> HIDE DEF sh, sh2
<1>6. x + acc * change <= y
  <2>1. y = x + acc * change + (acc2 - acc) * (balance + change)
    OBVIOUS
  <2>2. (acc2 - acc) * (balance + change) \in Nat
    OBVIOUS
  <2>3. x \in Int /\ acc * change \in Int
    OBVIOUS
  <2> HIDE DEF x, y
  <2> QED
    BY <2>1, <2>2, <2>3
<1> HIDE DEF x, y
<1> DEFINE grown == (acc2 - acc) * (T + change)
<1>7. acc2 * (T + change) = acc * T + acc * change + grown
  OBVIOUS
<1>8. grown <= P * F2 - P * F - P * change
  <2>1. P * (F2 - F - change) = P * F2 - P * F - P * change
    BY <1>1
  <2> QED
    BY <2>1
<1>9. P * C + acc * T <= P * F + P * D
  <2>1. P * (F + D) = P * F + P * D
    BY <1>1
  <2> QED
    BY <2>1
<1>10. P * (C + change + sh - sh2) = P * C + P * change + P * sh - P * sh2
  BY <1>1, <1>2
<1>11. P * (F2 + (D + rounded)) = P * F2 + P * D + P * rounded
  BY <1>1
<1>12. /\ P * C \in Int /\ acc * T \in Int /\ P * F \in Int /\ P * D \in Int /\ P * F2 \in Int
       /\ P * change \in Int /\ acc * change \in Int /\ grown \in Int /\ P * rounded \in Int
       /\ P * sh \in Int /\ P * sh2 \in Int
  BY <1>1, <1>2
<1>13. P * C + P * change + P * sh - P * sh2 + (acc * T + acc * change + grown)
         <= P * F2 + P * D + P * rounded
  <2> HIDE DEF P, grown
  <2> QED
    BY <1>1, <1>4, <1>6, <1>8, <1>9, <1>12
<1> QED
  BY <1>5, <1>7, <1>10, <1>11, <1>13

\* What is added up.
LEMMA BooksType ==
  ASSUME SolanaInv, Books
  PROVE  /\ \A m \in joined : Balances[m] \in Nat /\ Claims[m] \in Int
         /\ SumFunctionOnSet(Balances, joined) \in Nat /\ SumFunctionOnSet(Claims, joined) \in Int
         /\ vault.total \in Nat /\ vault.acc \in Nat /\ funds \in Nat
<1>1. \A m \in joined : /\ member[m] \in Account /\ m \in Members
                        /\ member[m].balance \in Nat /\ member[m].unclaimed \in Nat
                        /\ member[m].debt \in Nat
  BY DEF SolanaInv, Account
<1>2. \A m \in joined : Balances[m] \in Nat /\ Claims[m] \in Int
  BY <1>1 DEF Balances, Claims
<1>3. SumFunctionOnSet(Balances, joined) \in Nat /\ SumFunctionOnSet(Claims, joined) \in Int
  <2>1. IsFiniteSet(joined)
    BY DEF Books
  <2> HIDE DEF Balances, Claims
  <2> QED
    BY <1>2, <2>1, SumNat, SumInt
<1> QED
  BY <1>2, <1>3 DEF Books, SolanaInv, VaultShape

\* What a step does to the sums when it writes one account.
LEMMA SumsOfOne ==
  ASSUME SolanaInv, Books, NEW m \in joined, NEW b \in Int, NEW c \in Int,
         member'[m].balance = member[m].balance + b,
         member'[m].unclaimed \in Int, member'[m].debt \in Int,
         member'[m].balance + member'[m].unclaimed - member'[m].debt = Claims[m] + c,
         \A n \in Members : n # m => member'[n] = member[n]
  PROVE  /\ SumFunctionOnSet(Balances', joined) = SumFunctionOnSet(Balances, joined) + b
         /\ SumFunctionOnSet(Claims', joined) = SumFunctionOnSet(Claims, joined) + c
<1>1. /\ \A n \in joined : Balances[n] \in Int /\ Claims[n] \in Int
      /\ IsFiniteSet(joined)
  BY BooksType DEF Books
<1>2. m \in Members /\ joined \subseteq Members
  BY DEF SolanaInv
<1>3. Balances'[m] = Balances[m] + b /\ Claims'[m] = Claims[m] + c
  <2> DEFINE claim == Claims[m] + c
  <2> HIDE DEF claim
  <2>1. Balances'[m] = member'[m].balance /\ Balances[m] = member[m].balance
        /\ Claims'[m] = member'[m].balance + member'[m].unclaimed - member'[m].debt
    BY <1>2 DEF Balances, Claims
  <2> QED
    BY <2>1
<1>4. \A n \in joined \ {m} : Balances'[n] = Balances[n] /\ Claims'[n] = Claims[n]
  BY <1>2 DEF Balances, Claims
<1> DEFINE B == Balances
           C == Claims
           B2 == Balances'
           C2 == Claims'
<1>5. /\ B[m] \in Int /\ C[m] \in Int /\ B2[m] \in Int /\ C2[m] \in Int
      /\ B2[m] = B[m] + b /\ C2[m] = C[m] + c
      /\ \A n \in joined : B[n] \in Int /\ C[n] \in Int
      /\ \A n \in joined \ {m} : B2[n] = B[n] /\ C2[n] = C[n]
  BY <1>1, <1>3, <1>4
<1> HIDE DEF B, C, B2, C2
<1>6. /\ SumFunctionOnSet(B2, joined) = SumFunctionOnSet(B, joined) + (B2[m] - B[m])
      /\ SumFunctionOnSet(C2, joined) = SumFunctionOnSet(C, joined) + (C2[m] - C[m])
  BY <1>1, <1>5, SumUpdate
<1>7. B2[m] - B[m] = b /\ C2[m] - C[m] = c
  BY <1>5
<1> QED
  BY <1>6, <1>7 DEF B, C, B2, C2

\* The money of m moves: its account is settled, metered or not, and written
\* with the new accumulator, which promises no more than what was left behind.
CoveredMove(m, r, change, acc) ==
    /\ m \in joined /\ r \in Account /\ r.balance = member[m].balance
    /\ r.debt = Share(member[m].balance, vault.acc)
    /\ r.unclaimed = member[m].unclaimed + r.debt - member[m].debt
    /\ change \in Int /\ r.balance + change \in Nat /\ acc \in Nat /\ vault.acc <= acc
    /\ (acc - vault.acc) * (vault.total + change) <= PRECISION * (funds' - funds - change)
    /\ Move(m, r, change, acc) /\ joined' = joined

LEMMA MoveBooks ==
  ASSUME SolanaInv, SolanaInv', Books, NEW m, NEW r, NEW change, NEW acc,
         CoveredMove(m, r, change, acc)
  PROVE  Books'
<1>1. /\ m \in joined /\ m \in Members /\ r \in Account /\ change \in Int /\ acc \in Nat
      /\ member \in [Members -> Account] /\ joined' = joined /\ Move(m, r, change, acc)
  BY DEF CoveredMove, SolanaInv
<1> DEFINE sh == Share(r.balance, vault.acc)
           sh2 == Share(r.balance + change, acc)
           rounded == IF ((r.balance + change) * acc) % PRECISION = 0 THEN 0 ELSE 1
<1>2. /\ r.balance = member[m].balance /\ r.debt = sh
      /\ r.unclaimed = member[m].unclaimed + sh - member[m].debt
  BY DEF CoveredMove
<1>3. /\ member[m].balance \in Nat /\ member[m].unclaimed \in Nat /\ member[m].debt \in Nat
      /\ r.balance + change \in Nat /\ r.balance \in Nat /\ vault.acc \in Nat /\ vault.acc <= acc
      /\ sh \in Nat /\ sh2 \in Nat
  <2>1. /\ member[m].balance \in Nat /\ member[m].unclaimed \in Nat /\ member[m].debt \in Nat
        /\ r.balance + change \in Nat /\ r.balance \in Nat
        /\ vault.acc \in Nat /\ vault.acc <= acc
    BY <1>1 DEF CoveredMove, SolanaInv, VaultShape, Account
  <2> QED
    BY <1>1, <2>1, ShareType
<1>4. /\ member'[m].balance = r.balance + change
      /\ member'[m].unclaimed = r.unclaimed
      /\ member'[m].debt = sh2
      /\ \A n \in Members : n # m => member'[n] = member[n]
  BY <1>1, MoveEffect
<1>5. vault'.total = vault.total + change /\ vault'.acc = acc /\ vault'.count = vault.count
      /\ dust' = dust + rounded
  BY <1>1 DEF Move, SolanaInv, VaultShape
<1>6. rounded \in {0, 1}
  OBVIOUS
<1> HIDE DEF sh, sh2, rounded
<1>7. Claims[m] = member[m].balance + member[m].unclaimed - member[m].debt
  BY <1>1 DEF Claims
<1> DEFINE more == change + sh - sh2
<1>8. /\ member'[m].balance = member[m].balance + change
      /\ member'[m].unclaimed \in Int /\ member'[m].debt \in Int
      /\ member'[m].balance + member'[m].unclaimed - member'[m].debt = Claims[m] + more
      /\ more \in Int
  BY <1>1, <1>2, <1>3, <1>4, <1>7
<1> HIDE DEF more
<1>9. /\ SumFunctionOnSet(Balances', joined) = SumFunctionOnSet(Balances, joined) + change
      /\ SumFunctionOnSet(Claims', joined) = SumFunctionOnSet(Claims, joined) + more
  BY <1>1, <1>4, <1>8, SumsOfOne
<1>10. DebtsFit'
  <2> SUFFICES ASSUME NEW n \in joined
               PROVE  member'[n].debt <= Share(member'[n].balance, acc)
    BY <1>1, <1>5 DEF DebtsFit
  <2>1. CASE n = m
    BY <1>3, <1>4, <2>1 DEF sh2
  <2>2. CASE n # m
    <3>1. /\ member'[n] = member[n] /\ member[n] \in Account
          /\ member[n].debt <= Share(member[n].balance, vault.acc)
      BY <1>4, <2>2 DEF SolanaInv, Books, DebtsFit
    <3>2. member[n].balance \in Nat /\ member[n].debt \in Nat
      BY <3>1 DEF Account
    <3>3. /\ Share(member[n].balance, vault.acc) <= Share(member[n].balance, acc)
          /\ Share(member[n].balance, vault.acc) \in Nat /\ Share(member[n].balance, acc) \in Nat
      BY <1>1, <1>3, <3>2, ShareMonotone, ShareType
    <3> QED
      BY <3>1, <3>2, <3>3
  <2> QED
    BY <2>1, <2>2
<1>11. ClaimsCovered'
  <2> DEFINE C == SumFunctionOnSet(Claims, joined)
             T == vault.total
             F == funds
             F2 == funds'
             D == dust
  <2>1. C \in Int /\ T \in Nat /\ F \in Nat /\ F2 \in Nat /\ D \in Nat
    BY BooksType DEF Books, SolanaInv
  <2>2. PRECISION * C + vault.acc * T <= PRECISION * (F + D)
    BY DEF Books, ClaimsCovered
  <2>3. (acc - vault.acc) * (T + change) <= PRECISION * (F2 - F - change)
    BY DEF CoveredMove
  <2>4. SumFunctionOnSet(Claims', joined) = C + change + sh - sh2
    BY <1>1, <1>3, <1>9, <2>1 DEF more
  <2> HIDE DEF C, T, F, F2, D
  <2>5. PRECISION * (C + change + Share(r.balance, vault.acc) - Share(r.balance + change, acc))
          + acc * (T + change) <= PRECISION * (F2 + (D + rounded))
    <3> DEFINE b == r.balance
               acc1 == vault.acc
    <3>1. rounded \in Int /\ rounded = IF ((b + change) * acc) % PRECISION = 0 THEN 0 ELSE 1
      BY <1>6 DEF rounded
    <3>2. /\ b \in Nat /\ acc1 \in Nat /\ acc \in Nat /\ acc1 <= acc /\ change \in Int
          /\ b + change \in Nat
          /\ PRECISION * C + acc1 * T <= PRECISION * (F + D)
          /\ (acc - acc1) * (T + change) <= PRECISION * (F2 - F - change)
          /\ C \in Int /\ T \in Int /\ F \in Int /\ F2 \in Int /\ D \in Int
      BY <1>1, <1>3, <2>1, <2>2, <2>3
    <3> HIDE DEF b, acc1
    <3>3. PRECISION * (C + change + Share(b, acc1) - Share(b + change, acc))
            + acc * (T + change) <= PRECISION * (F2 + (D + rounded))
      BY ONLY <3>1, <3>2, MoveCovered
    <3> QED
      BY <3>3 DEF b, acc1
  <2>6. SumFunctionOnSet(Claims', joined)
          = C + change + Share(r.balance, vault.acc) - Share(r.balance + change, acc)
    BY <2>4 DEF sh, sh2
  <2>7. PRECISION * SumFunctionOnSet(Claims', joined) + acc * (T + change)
          <= PRECISION * (F2 + (D + rounded))
    BY <2>5, <2>6
  <2> QED
    BY <1>1, <1>5, <2>7 DEF ClaimsCovered, T, F2, D
<1> QED
  BY <1>1, <1>5, <1>6, <1>9, <1>10, <1>11 DEF Books

\* A claim takes from the funds what it takes from the claims.
LEMMA ClaimBooks ==
  ASSUME SolanaInv, Books, NEW m \in joined, ClaimPenaltyRewards(m)
  PROVE  Books'
<1> DEFINE r == Settled(member[m], vault.acc)
           sh == Share(member[m].balance, vault.acc)
           paid == r.unclaimed
<1>1. /\ m \in Members /\ member[m] \in Account /\ vault.acc \in Nat /\ funds \in Nat
      /\ member \in [Members -> Account]
  BY DEF SolanaInv, VaultShape
<1>2. /\ member[m].balance \in Nat /\ member[m].unclaimed \in Nat /\ member[m].debt \in Nat
      /\ member[m].debt <= sh
  BY <1>1 DEF Account, Books, DebtsFit
<1>3. /\ r \in Account /\ r.balance = member[m].balance /\ r.debt = sh
      /\ paid = member[m].unclaimed + sh - member[m].debt
  BY <1>1, <1>2, SettledType, SettledEffect
<1>4. /\ member' = [member EXCEPT ![m] = [r EXCEPT !.unclaimed = 0]]
      /\ funds' = funds - paid /\ joined' = joined /\ vault' = vault /\ dust' = dust
  BY DEF ClaimPenaltyRewards
<1>5. sh \in Nat
  BY <1>1, <1>2, ShareType
<1> HIDE DEF r, sh
<1>6. /\ member'[m].balance = member[m].balance /\ member'[m].unclaimed = 0
      /\ member'[m].debt = sh /\ \A n \in Members : n # m => member'[n] = member[n]
  BY <1>1, <1>3, <1>4 DEF Account
<1>7. paid \in Nat
  BY <1>3 DEF Account
<1> HIDE DEF paid
<1>8. Claims[m] = member[m].balance + member[m].unclaimed - member[m].debt
  BY <1>1 DEF Claims
<1>9. /\ member'[m].balance = member[m].balance + 0
      /\ member'[m].unclaimed \in Int /\ member'[m].debt \in Int
      /\ member'[m].balance + member'[m].unclaimed - member'[m].debt = Claims[m] + (-paid)
      /\ -paid \in Int
  BY <1>2, <1>3, <1>5, <1>6, <1>7, <1>8
<1>10. /\ SumFunctionOnSet(Balances', joined) = SumFunctionOnSet(Balances, joined) + 0
       /\ SumFunctionOnSet(Claims', joined) = SumFunctionOnSet(Claims, joined) + (-paid)
  BY <1>6, <1>9, SumsOfOne
<1>11. DebtsFit'
  BY <1>1, <1>4, <1>5, <1>6 DEF DebtsFit, Books, SolanaInv, sh
<1>12. ClaimsCovered'
  <2> DEFINE C == SumFunctionOnSet(Claims, joined)
             promised == vault.acc * vault.total
             F == funds
             D == dust
  <2>1. C \in Int /\ promised \in Int /\ F \in Int /\ D \in Int
        /\ PRECISION * C + promised <= PRECISION * (F + D)
    BY BooksType DEF Books, ClaimsCovered
  <2>2. /\ SumFunctionOnSet(Claims', joined') = C + (-paid) /\ funds' = F - paid /\ dust' = D
        /\ vault'.acc * vault'.total = promised
    BY <1>4, <1>10
  <2> HIDE DEF C, promised, F, D
  <2>3. PRECISION * (C + (-paid)) + promised <= PRECISION * ((F - paid) + D)
    <3>1. PRECISION \in Int
      BY SolanaAssumption
    <3>2. /\ PRECISION * (C + (-paid)) = PRECISION * C - PRECISION * paid
          /\ PRECISION * ((F - paid) + D) = PRECISION * (F + D) - PRECISION * paid
          /\ PRECISION * C \in Int /\ PRECISION * (F + D) \in Int /\ PRECISION * paid \in Int
      BY <1>7, <2>1, <3>1
    <3> QED
      BY <2>1, <3>2
  <2> QED
    BY <2>2, <2>3 DEF ClaimsCovered
<1> QED
  BY <1>4, <1>10, <1>11, <1>12, BooksType DEF Books

\* Who enters brings an empty account.
LEMMA EnterBooks ==
  ASSUME SolanaInv, Books, NEW m \in Members, m \notin joined, joined' = joined \cup {m},
         member' = [member EXCEPT ![m] = NewMember],
         vault'.total = vault.total, vault'.acc = vault.acc, vault'.count = vault.count + 1,
         UNCHANGED <<funds, dust>>
  PROVE  Books'
<1>1. /\ member'[m].balance = 0 /\ member'[m].unclaimed = 0 /\ member'[m].debt = 0
      /\ \A n \in joined : member'[n] = member[n]
      /\ joined \subseteq Members
  BY DEF SolanaInv, NewMember
<1>2. Balances'[m] = 0 /\ Claims'[m] = 0
  BY <1>1 DEF Balances, Claims
<1>3. /\ \A n \in joined : Balances'[n] = Balances[n] /\ Claims'[n] = Claims[n]
      /\ \A n \in joined : Balances[n] \in Int /\ Claims[n] \in Int
  BY <1>1, BooksType DEF Balances, Claims
<1>4. IsFiniteSet(joined) /\ IsFiniteSet(joined') /\ Cardinality(joined') = Cardinality(joined) + 1
  BY FS_AddElement DEF Books
<1>5. /\ SumFunctionOnSet(Balances', joined') = SumFunctionOnSet(Balances, joined)
      /\ SumFunctionOnSet(Claims', joined') = SumFunctionOnSet(Claims, joined)
  <2> DEFINE B == Balances
             C == Claims
             B2 == Balances'
             C2 == Claims'
             more == joined'
  <2>1. /\ \A n \in joined : B2[n] = B[n] /\ C2[n] = C[n]
        /\ \A n \in more : B2[n] \in Int /\ C2[n] \in Int
        /\ m \in more /\ more \ {m} = joined /\ B2[m] = 0 /\ C2[m] = 0 /\ IsFiniteSet(more)
    BY <1>2, <1>3, <1>4
  <2> HIDE DEF B, C, B2, C2, more
  <2>2. /\ SumFunctionOnSet(B2, more) = B2[m] + SumFunctionOnSet(B2, more \ {m})
        /\ SumFunctionOnSet(C2, more) = C2[m] + SumFunctionOnSet(C2, more \ {m})
    BY <2>1, SumRemove
  <2>3. /\ SumFunctionOnSet(B2, joined) = SumFunctionOnSet(B, joined)
        /\ SumFunctionOnSet(C2, joined) = SumFunctionOnSet(C, joined)
    BY <1>4, <2>1, SumSame
  <2>4. SumFunctionOnSet(B2, joined) \in Int /\ SumFunctionOnSet(C2, joined) \in Int
    BY <1>4, <2>1, SumInt
  <2>5. /\ SumFunctionOnSet(B2, more) = 0 + SumFunctionOnSet(B2, joined)
        /\ SumFunctionOnSet(C2, more) = 0 + SumFunctionOnSet(C2, joined)
    BY <2>1, <2>2, Zenon
  <2>6. /\ SumFunctionOnSet(B2, more) = SumFunctionOnSet(B, joined)
        /\ SumFunctionOnSet(C2, more) = SumFunctionOnSet(C, joined)
    BY <2>3, <2>4, <2>5
  <2> QED
    BY <2>6 DEF B, C, B2, C2, more
<1>6. DebtsFit'
  <2> SUFFICES ASSUME NEW n \in joined'
               PROVE  member'[n].debt <= Share(member'[n].balance, vault.acc)
    BY DEF DebtsFit
  <2>1. CASE n = m
    BY <1>1, <2>1, ShareType DEF SolanaInv, VaultShape
  <2>2. CASE n # m
    BY <1>1, <2>2 DEF Books, DebtsFit
  <2> QED
    BY <2>1, <2>2
<1> QED
  BY <1>4, <1>5, <1>6 DEF Books, ClaimsCovered

\* Who leaves takes no claim along.
LEMMA LeaveBooks ==
  ASSUME SolanaInv, Books, NEW m \in joined, LeaveVault(m)
  PROVE  Books'
<1>1. /\ member[m].balance = 0 /\ member[m].unclaimed = 0 /\ joined' = joined \ {m}
      /\ UNCHANGED <<member, funds, dust>>
      /\ member[m] \in Account /\ m \in Members /\ vault.acc \in Nat /\ joined \subseteq Members
  BY DEF LeaveVault, NothingLeft, SolanaInv, VaultShape
<1>2. /\ vault'.total = vault.total /\ vault'.acc = vault.acc
      /\ vault'.count = IF vault.count = 0 THEN 0 ELSE vault.count - 1
  BY DEF LeaveVault, SolanaInv, VaultShape
<1>3. member[m].debt = 0
  <2>1. member[m].debt <= Share(member[m].balance, vault.acc)
    BY DEF Books, DebtsFit
  <2>2. Share(member[m].balance, vault.acc) = 0
    BY <1>1, ShareType
  <2> QED
    BY <1>1, <2>1, <2>2 DEF Account
<1>4. Balances[m] = 0 /\ Claims[m] = 0
  BY <1>1, <1>3 DEF Balances, Claims
<1>5. /\ IsFiniteSet(joined) /\ IsFiniteSet(joined') /\ Cardinality(joined) \in Nat
      /\ Cardinality(joined') = Cardinality(joined) - 1 /\ Cardinality(joined) # 0
  BY <1>1, FS_RemoveElement, FS_CardinalityType, FS_EmptySet DEF Books
<1>6. /\ SumFunctionOnSet(Balances, joined') = SumFunctionOnSet(Balances, joined)
      /\ SumFunctionOnSet(Claims, joined') = SumFunctionOnSet(Claims, joined)
  <2> DEFINE B == Balances
             C == Claims
  <2>1. B[m] = 0 /\ C[m] = 0 /\ \A n \in joined : B[n] \in Int /\ C[n] \in Int
    BY <1>4, BooksType
  <2>3. \A n \in joined \ {m} : B[n] \in Int /\ C[n] \in Int
    BY <2>1
  <2>4. IsFiniteSet(joined \ {m}) /\ joined' = joined \ {m}
    BY <1>1, <1>5
  <2> HIDE DEF B, C
  <2>2. /\ SumFunctionOnSet(B, joined) = B[m] + SumFunctionOnSet(B, joined \ {m})
        /\ SumFunctionOnSet(C, joined) = C[m] + SumFunctionOnSet(C, joined \ {m})
        /\ SumFunctionOnSet(B, joined \ {m}) \in Int /\ SumFunctionOnSet(C, joined \ {m}) \in Int
    BY <1>5, <2>1, <2>3, <2>4, SumRemove, SumInt
  <2>5. /\ SumFunctionOnSet(B, joined) = SumFunctionOnSet(B, joined')
        /\ SumFunctionOnSet(C, joined) = SumFunctionOnSet(C, joined')
    BY <2>1, <2>2, <2>4
  <2> QED
    BY <2>5 DEF B, C
<1>7. /\ Balances' = Balances /\ Claims' = Claims
  BY <1>1 DEF Balances, Claims
<1>8. DebtsFit'
  BY <1>1, <1>2 DEF Books, DebtsFit
<1>9. vault'.count = Cardinality(joined')
  BY <1>2, <1>5 DEF Books
<1> QED
  BY <1>1, <1>2, <1>5, <1>6, <1>7, <1>8, <1>9 DEF Books, ClaimsCovered

Orders == Books /\ PaperInOrder /\ WindowsHaveBegun

\* An account, settled: what its owner owns, and none of the debt.
LEMMA SettledAccount ==
  ASSUME SolanaInv, Books, NEW m \in joined
  PROVE  LET r == Settled(member[m], vault.acc)
             sh == Share(member[m].balance, vault.acc)
         IN  /\ r \in Account /\ r.balance = member[m].balance /\ r.debt = sh
             /\ r.unclaimed = member[m].unclaimed + sh - member[m].debt
             /\ r.spent = member[m].spent /\ r.reset = member[m].reset
<1>1. member[m] \in Account /\ vault.acc \in Nat /\ member[m].debt <= Share(member[m].balance, vault.acc)
  BY DEF SolanaInv, VaultShape, Books, DebtsFit
<1> QED
  BY <1>1, SettledType, SettledEffect, SettledKeepsWindows

\* A move that leaves the paper alone, but for a bypass it uses up.
LEMMA MoveOrders ==
  ASSUME SolanaInv, SolanaInv', Orders, NEW m, NEW r, NEW change, NEW acc,
         CoveredMove(m, r, change, acc), \A p \in Periods : r.reset[p] <= now,
         UNCHANGED <<config, proposal, now>>, bypass' \subseteq bypass
  PROVE  Orders'
<1>1. Books'
  BY MoveBooks DEF Orders
<1>2. /\ m \in Members /\ r \in Account /\ change \in Int /\ acc \in Nat
      /\ member \in [Members -> Account] /\ Move(m, r, change, acc) /\ joined' = joined
      /\ joined \subseteq Members
  BY DEF CoveredMove, SolanaInv
<1>3. WindowsHaveBegun'
  <2>1. member'[m].reset = r.reset /\ \A n \in Members : n # m => member'[n] = member[n]
    BY <1>2, MoveEffect
  <2> QED
    BY <1>2, <2>1 DEF Orders, WindowsHaveBegun
<1>4. vault'.creator = vault.creator /\ vault'.community = vault.community
  BY <1>2 DEF Move, SolanaInv, VaultShape
<1>5. PaperInOrder'
  BY <1>4 DEF Orders, PaperInOrder
<1> QED
  BY <1>1, <1>3, <1>5 DEF Orders

\* A step that leaves money and windows alone.
LEMMA PaperOrders ==
  ASSUME SolanaInv, SolanaInv', Orders, UNCHANGED <<joined, member, funds, dust>>,
         vault'.total = vault.total, vault'.acc = vault.acc, vault'.count = vault.count,
         now <= now', PaperInOrder'
  PROVE  Orders'
<1>1. Balances' = Balances /\ Claims' = Claims
  BY DEF Balances, Claims
<1>2. Books'
  BY <1>1 DEF Orders, Books, DebtsFit, ClaimsCovered
<1>3. WindowsHaveBegun'
  <2> SUFFICES ASSUME NEW m \in joined, NEW p \in Periods
               PROVE  member[m].reset[p] <= now'
    BY DEF WindowsHaveBegun
  <2>1. member[m].reset[p] <= now /\ member[m].reset[p] \in Nat /\ now \in Nat /\ now' \in Nat
    BY DEF Orders, WindowsHaveBegun, SolanaInv, Account
  <2> QED
    BY <2>1
<1> QED
  BY <1>2, <1>3 DEF Orders

LEMMA SetUpOrders ==
  ASSUME SolanaInv, SolanaInv', Orders, SetUpStep
  PROVE  Orders'
<1>0. /\ bound.admin \in Members /\ bound.members \subseteq Members
      /\ bound.community \subseteq BOOLEAN /\ 1 \in 1 .. MAX_PENALTY_BPS
  BY SolanaAssumption DEF SolanaInv
<1>1. CASE InitializeProgramConfig(bound.admin, 1)
  <2>1. PaperInOrder'
    BY <1>0, <1>1 DEF InitializeProgramConfig, Orders, PaperInOrder, requestVars
  <2> QED
    BY <1>1, <2>1, PaperOrders DEF InitializeProgramConfig, moneyVars, SolanaInv
<1>2. ASSUME NEW m \in Members, m \notin joined, joined' = joined \cup {m},
             member' = [member EXCEPT ![m] = NewMember],
             vault'.total = vault.total, vault'.acc = vault.acc, vault'.count = vault.count + 1,
             UNCHANGED <<funds, dust, now>>, PaperInOrder'
      PROVE  Orders'
  <2>1. Books'
    BY <1>2, EnterBooks DEF Orders
  <2>2. WindowsHaveBegun'
    <3>1. /\ \A p \in Periods : member'[m].reset[p] = now
          /\ \A n \in joined : n # m => member'[n] = member[n]
          /\ now \in Nat
      BY <1>2 DEF SolanaInv, NewMember
    <3> QED
      BY <1>2, <3>1 DEF Orders, WindowsHaveBegun
  <2> QED
    BY <1>2, <2>1, <2>2 DEF Orders
<1>3. ASSUME NEW m \in Members, NEW rules, NEW community \in BOOLEAN,
             CreateVault(m, community, rules)
      PROVE  Orders'
  <2>1. /\ vault = NoVault /\ joined' = {m} /\ member' = [member EXCEPT ![m] = NewMember]
        /\ UNCHANGED <<config, funds, dust, requestVars, now>>
    BY <1>3 DEF CreateVault
  <2>2. vault' = [creator |-> m, community |-> community, count |-> 1, total |-> 0,
                  acc |-> 0, rules |-> rules]
    BY <1>3 DEF CreateVault, NoVault
  <2>3. joined = {} /\ vault.total = 0 /\ vault.acc = 0 /\ vault.count = 0
    BY <2>1 DEF SolanaInv, EmptyBefore, NoVault
  <2>4. PaperInOrder'
    BY <2>1, <2>2 DEF Orders, PaperInOrder, requestVars
  <2>5. /\ m \notin joined /\ joined' = joined \cup {m}
        /\ vault'.total = vault.total /\ vault'.acc = vault.acc /\ vault'.count = vault.count + 1
    BY <2>1, <2>2, <2>3
  <2> QED
    BY <1>2, <2>1, <2>4, <2>5
<1>4. ASSUME NEW m \in Members, JoinVault(m)
      PROVE  Orders'
  <2>1. /\ m \notin joined /\ joined' = joined \cup {m}
        /\ member' = [member EXCEPT ![m] = NewMember]
        /\ UNCHANGED <<config, funds, dust, requestVars, now>>
    BY <1>4 DEF JoinVault
  <2>2. /\ vault'.total = vault.total /\ vault'.acc = vault.acc /\ vault'.count = vault.count + 1
        /\ vault'.creator = vault.creator /\ vault'.community = vault.community
    BY <1>4 DEF JoinVault, SolanaInv, VaultShape
  <2>3. PaperInOrder'
    BY <2>1, <2>2 DEF Orders, PaperInOrder, requestVars
  <2> QED
    BY <1>2, <2>1, <2>2, <2>3
<1>5. ASSUME NEW m \in Members, LeaveVault(m)
      PROVE  Orders'
  <2>1. /\ m \in joined /\ joined' = joined \ {m}
        /\ UNCHANGED <<config, member, funds, dust, requestVars, now>>
    BY <1>5 DEF LeaveVault
  <2>2. vault'.creator = vault.creator /\ vault'.community = vault.community
    BY <1>5 DEF LeaveVault, SolanaInv, VaultShape
  <2>3. Books'
    BY <1>5, <2>1, LeaveBooks DEF Orders
  <2>4. WindowsHaveBegun' /\ PaperInOrder'
    BY <2>1, <2>2 DEF Orders, WindowsHaveBegun, PaperInOrder, requestVars
  <2> QED
    BY <2>3, <2>4 DEF Orders
<1> QED
  BY <1>0, <1>1, <1>3, <1>4, <1>5 DEF SetUpStep

\* What stays for the others pays for what the accumulator promises them.
LEMMA RecordPenaltyCovered ==
  ASSUME NEW acc \in Nat, NEW total \in Int, NEW penalty \in Nat
  PROVE  /\ acc <= RecordPenalty(acc, total, penalty)
         /\ (RecordPenalty(acc, total, penalty) - acc) * total <= PRECISION * penalty
<1> DEFINE x == penalty * PRECISION
           share == x \div total
<1>1. x \in Nat /\ x = PRECISION * penalty
  BY SolanaAssumption
<1> HIDE DEF x
<1>2. CASE total > 0
  <2>1. share \in Nat /\ total * share <= x
    <3>1. total \in Nat \ {0}
      BY <1>2
    <3>2. share \in Nat /\ x % total \in Nat /\ total * share = x - (x % total)
      BY <1>1, <3>1, Division
    <3>3. total * share \in Int
      BY <3>2
    <3> HIDE DEF share
    <3> QED
      BY <1>1, <3>2, <3>3
  <2>2. RecordPenalty(acc, total, penalty) = acc + share
    BY <1>2 DEF RecordPenalty, x
  <2> HIDE DEF share
  <2>3. (acc + share - acc) * total = total * share
    BY <2>1
  <2>4. acc <= acc + share
    BY <2>1
  <2> QED
    BY <1>1, <2>1, <2>2, <2>3, <2>4
<1>3. CASE ~(total > 0)
  <2>1. RecordPenalty(acc, total, penalty) = acc
    BY <1>3 DEF RecordPenalty
  <2>2. (acc - acc) * total = 0
    OBVIOUS
  <2> QED
    BY <1>1, <2>1, <2>2
<1> QED
  BY <1>2, <1>3

LEMMA MoneyOrders ==
  ASSUME SolanaInv, SolanaInv', Orders, DepositStep \/ WithdrawStep \/ PenaltyStep
  PROVE  Orders'
<1> USE SolanaAssumption
<1>0. /\ joined \subseteq Members /\ bound.amounts \subseteq Nat /\ vault.acc \in Nat
      /\ vault.total \in Int /\ now \in Nat /\ funds \in Nat /\ member \in [Members -> Account]
  BY DEF SolanaInv, VaultShape
<1>1. \A m \in joined :
         LET r == Settled(member[m], vault.acc)
             sh == Share(member[m].balance, vault.acc)
         IN  /\ r \in Account /\ r.balance = member[m].balance /\ r.debt = sh
             /\ r.unclaimed = member[m].unclaimed + sh - member[m].debt
             /\ r.spent = member[m].spent /\ r.reset = member[m].reset
  BY SettledAccount DEF Orders
<1>2. \A m \in joined, p \in Periods : member[m].reset[p] <= now
  BY DEF Orders, WindowsHaveBegun
<1>3. \A m \in joined : member[m].balance \in Nat
  BY <1>0 DEF Account
<1>4. \A n \in Int : (vault.acc - vault.acc) * n = 0 /\ PRECISION * 0 = 0
  BY <1>0
<1>5. ASSUME NEW m \in joined, NEW a \in Nat, Deposit(m, a)
      PROVE  Orders'
  <2> DEFINE r == Settled(member[m], vault.acc)
  <2>1. /\ Move(m, r, a, vault.acc) /\ funds' = funds + a
        /\ UNCHANGED <<config, joined, requestVars, now>>
    BY <1>5 DEF Deposit
  <2>2. /\ r \in Account /\ r.balance = member[m].balance /\ r.reset = member[m].reset
        /\ r.debt = Share(member[m].balance, vault.acc)
        /\ r.unclaimed = member[m].unclaimed + r.debt - member[m].debt
    BY <1>1
  <2> HIDE DEF r
  <2>3. funds' - funds - a = 0 /\ r.balance + a \in Nat /\ vault.total + a \in Int
    BY <1>0, <1>3, <2>1, <2>2
  <2>4. (vault.acc - vault.acc) * (vault.total + a) <= PRECISION * (funds' - funds - a)
    BY <1>4, <2>3
  <2>5. CoveredMove(m, r, a, vault.acc)
    BY <1>0, <2>1, <2>2, <2>3, <2>4 DEF CoveredMove
  <2> QED
    BY <1>2, <2>1, <2>2, <2>5, MoveOrders DEF requestVars
<1>6. ASSUME NEW m \in joined, NEW a \in Nat, Withdraw(m, a)
      PROVE  Orders'
  <2> DEFINE s == Settled(member[m], vault.acc)
  <2>1. PICK r \in Metered(s, vault.rules, a) : Move(m, r, -a, vault.acc)
    BY <1>6 DEF Withdraw
  <2>2. /\ s \in Account /\ s.balance = member[m].balance /\ s.reset = member[m].reset
        /\ s.debt = Share(member[m].balance, vault.acc)
        /\ s.unclaimed = member[m].unclaimed + s.debt - member[m].debt
    BY <1>1
  <2> HIDE DEF s
  <2>3. /\ r \in Account /\ r.balance = s.balance /\ r.debt = s.debt /\ r.unclaimed = s.unclaimed
        /\ \A p \in Periods : r.reset[p] = Rolled(s, vault.rules, p).reset
    BY <1>0, <2>1, <2>2, MeteredType, MeteredEffect
  <2>4. \A p \in Periods : r.reset[p] <= now
    <3>1. \A p \in Periods : Rolled(s, vault.rules, p).reset \in {now, s.reset[p]}
      BY DEF Rolled
    <3> QED
      BY <1>0, <1>2, <2>2, <2>3, <3>1
  <2>5. /\ member[m].balance >= a /\ funds' = funds - a
        /\ UNCHANGED <<config, joined, requestVars, now>>
    BY <1>6 DEF Withdraw
  <2>6. /\ funds' - funds - (-a) = 0 /\ r.balance + (-a) \in Nat /\ vault.total + (-a) \in Int
        /\ -a \in Int
    BY <1>0, <1>3, <2>2, <2>3, <2>5
  <2>7. (vault.acc - vault.acc) * (vault.total + (-a)) <= PRECISION * (funds' - funds - (-a))
    BY <1>4, <2>6
  <2>8. CoveredMove(m, r, -a, vault.acc)
    BY <1>0, <2>1, <2>2, <2>3, <2>5, <2>6, <2>7 DEF CoveredMove
  <2> QED
    BY <2>4, <2>5, <2>8, MoveOrders DEF requestVars
<1>7. ASSUME NEW m \in joined, NEW a \in Nat, WithdrawWithPenalty(m, a)
      PROVE  Orders'
  <2> DEFINE r == Settled(member[m], vault.acc)
             lost == IF vault.community THEN PenaltyOf(a) ELSE 0
  <2>1. PICK acc : /\ acc = IF vault.community
                            THEN RecordPenalty(vault.acc, vault.total - a, PenaltyOf(a))
                            ELSE vault.acc
                   /\ Move(m, r, -a, acc)
                   /\ funds' = funds - (IF vault.community THEN a - PenaltyOf(a) ELSE a)
    BY <1>7 DEF WithdrawWithPenalty
  <2>2. /\ r \in Account /\ r.balance = member[m].balance /\ r.reset = member[m].reset
        /\ r.debt = Share(member[m].balance, vault.acc)
        /\ r.unclaimed = member[m].unclaimed + r.debt - member[m].debt
    BY <1>1
  <2> HIDE DEF r
  <2>3. member[m].balance >= a /\ UNCHANGED <<config, joined, requestVars, now>>
    BY <1>7 DEF WithdrawWithPenalty
  <2>4. PenaltyOf(a) \in Nat /\ vault.total - a \in Int /\ vault.total + (-a) = vault.total - a
    BY <1>0, PenaltyOfType DEF SolanaInv
  <2>5. /\ funds' - funds - (-a) = lost /\ r.balance + (-a) \in Nat /\ -a \in Int
    BY <1>0, <1>3, <2>1, <2>2, <2>3, <2>4
  <2>6. /\ acc \in Nat /\ vault.acc <= acc
        /\ (acc - vault.acc) * (vault.total - a) <= PRECISION * lost
    <3>1. CASE vault.community
      BY <1>0, <2>1, <2>4, <3>1, RecordPenaltyType, RecordPenaltyCovered
    <3>2. CASE ~vault.community
      BY <1>0, <1>4, <2>1, <2>4, <3>2
    <3> QED
      BY <3>1, <3>2
  <2> HIDE DEF lost
  <2>7. (acc - vault.acc) * (vault.total + (-a)) <= PRECISION * (funds' - funds - (-a))
    BY <2>4, <2>5, <2>6
  <2>8. CoveredMove(m, r, -a, acc)
    BY <1>0, <2>1, <2>2, <2>3, <2>5, <2>6, <2>7 DEF CoveredMove
  <2> QED
    BY <1>2, <2>2, <2>3, <2>8, MoveOrders DEF requestVars
<1>8. ASSUME NEW m \in joined, ClaimPenaltyRewards(m)
      PROVE  Orders'
  <2> DEFINE r == Settled(member[m], vault.acc)
  <2>1. /\ member' = [member EXCEPT ![m] = [r EXCEPT !.unclaimed = 0]]
        /\ UNCHANGED <<config, vault, joined, requestVars, now>>
    BY <1>8 DEF ClaimPenaltyRewards
  <2>2. r \in Account /\ r.reset = member[m].reset
    BY <1>1
  <2> HIDE DEF r
  <2>3. member'[m].reset = member[m].reset /\ \A n \in Members : n # m => member'[n] = member[n]
    BY <1>0, <2>1, <2>2 DEF Account
  <2>4. WindowsHaveBegun'
    BY <1>0, <1>2, <2>1, <2>3 DEF WindowsHaveBegun
  <2>5. PaperInOrder'
    BY <2>1 DEF Orders, PaperInOrder, requestVars
  <2> QED
    BY <1>8, <2>4, <2>5, ClaimBooks DEF Orders
<1> QED
  BY <1>0, <1>5, <1>6, <1>7, <1>8 DEF DepositStep, WithdrawStep, PenaltyStep

LEMMA RulesOrders ==
  ASSUME SolanaInv, SolanaInv', Orders, RulesStep
  PROVE  Orders'
<1>1. UNCHANGED <<config, joined, member, funds, dust, bypass, now>>
  BY DEF RulesStep, UpdateVaultRules, ProposeRuleChange, ExecuteRuleChange, CancelRuleChange,
     moneyVars, requestVars
<1>2. /\ vault'.total = vault.total /\ vault'.acc = vault.acc /\ vault'.count = vault.count
      /\ vault'.creator = vault.creator /\ vault'.community = vault.community
  <2>1. vault' = vault \/ \E r : vault' = [vault EXCEPT !.rules = r]
    BY DEF RulesStep, UpdateVaultRules, ProposeRuleChange, ExecuteRuleChange, CancelRuleChange,
       SetRules
  <2> QED
    BY <2>1 DEF SolanaInv, VaultShape
<1>3. Cardinality(proposal') <= 1
  <2>1. proposal' = proposal \/ proposal' = {} \/ \E p : proposal' = {p}
    BY DEF RulesStep, UpdateVaultRules, ProposeRuleChange, ExecuteRuleChange, CancelRuleChange,
       requestVars
  <2>2. CASE proposal' = proposal
    BY <2>2 DEF Orders, PaperInOrder
  <2>3. CASE proposal' = {}
    BY <2>3, FS_EmptySet
  <2>4. ASSUME NEW p, proposal' = {p}
        PROVE  Cardinality(proposal') <= 1
    <3>1. Cardinality({p}) = 1
      BY FS_Singleton
    <3> QED
      BY <2>4, <3>1
  <2> QED
    BY <2>1, <2>2, <2>3, <2>4
<1>4. PaperInOrder'
  BY <1>1, <1>2, <1>3 DEF Orders, PaperInOrder
<1>5. now <= now'
  BY <1>1 DEF SolanaInv
<1> QED
  BY <1>1, <1>2, <1>4, <1>5, PaperOrders

LEMMA RequestsOrders ==
  ASSUME SolanaInv, SolanaInv', Orders, DestinationStep \/ BypassStep \/ ConfigStep \/ Tick
  PROVE  Orders'
<1> USE SolanaAssumption
<1>0. /\ joined \subseteq Members /\ vault.acc \in Nat /\ vault.total \in Int /\ now \in Nat
      /\ funds \in Nat
  BY DEF SolanaInv, VaultShape
<1>1. ASSUME UNCHANGED <<vault, moneyVars>>, now <= now', PaperInOrder'
      PROVE  Orders'
  BY <1>1, PaperOrders DEF moneyVars
<1>2. CASE DestinationStep
  <2>1. UNCHANGED <<config, vault, moneyVars, proposal, bypass, now>>
    BY <1>2 DEF DestinationStep, AddWithdrawalDestination, RequestWithdrawalDestination,
       RemoveWithdrawalDestination, ExecuteDestinationRequest, CancelDestinationRequest
  <2> QED
    BY <1>0, <1>1, <2>1 DEF Orders, PaperInOrder
<1>3. ASSUME NEW m \in joined, NEW a, RequestBypass(m, a)
      PROVE  Orders'
  <2>1. /\ \A q \in bypass : q.member # m
        /\ bypass' = bypass \cup {[member |-> m, amount |-> a, created |-> now,
                                   after |-> BypassDue]}
        /\ UNCHANGED <<config, vault, moneyVars, proposal, now>>
    BY <1>3 DEF RequestBypass, BypassOf
  <2>2. \A q, q2 \in bypass' : q.member = q2.member => q = q2
    BY <2>1 DEF Orders, PaperInOrder
  <2> QED
    BY <1>0, <1>1, <2>1, <2>2 DEF Orders, PaperInOrder
<1>4. ASSUME NEW m \in joined, NEW q \in bypass, CancelBypass(m, q)
      PROVE  Orders'
  BY <1>0, <1>1, <1>4 DEF CancelBypass, Orders, PaperInOrder
<1>5. ASSUME NEW m \in joined, NEW q \in bypass, ExecuteBypass(m, q)
      PROVE  Orders'
  <2> DEFINE r == Settled(member[m], vault.acc)
  <2>1. /\ Move(m, r, -q.amount, vault.acc) /\ funds' = funds - q.amount
        /\ member[m].balance >= q.amount /\ bypass' = bypass \ {q}
        /\ UNCHANGED <<config, joined, proposal, now>>
    BY <1>5 DEF ExecuteBypass
  <2>2. /\ r \in Account /\ r.balance = member[m].balance /\ r.reset = member[m].reset
        /\ r.debt = Share(member[m].balance, vault.acc)
        /\ r.unclaimed = member[m].unclaimed + r.debt - member[m].debt
    BY SettledAccount DEF Orders
  <2> HIDE DEF r
  <2>3. q.amount \in Nat /\ r.balance \in Nat
    BY <2>2 DEF SolanaInv, BypassesWait, Account
  <2> DEFINE a == q.amount
  <2> HIDE DEF a
  <2>4. /\ a \in Nat /\ Move(m, r, -a, vault.acc) /\ funds' = funds - a
        /\ member[m].balance >= a
    BY <2>1, <2>3 DEF a
  <2>5. /\ funds' - funds - (-a) = 0 /\ r.balance + (-a) \in Nat /\ vault.total + (-a) \in Int
        /\ -a \in Int
    BY <1>0, <2>2, <2>3, <2>4
  <2>6. (vault.acc - vault.acc) * (vault.total + (-a)) = 0 /\ PRECISION * 0 = 0
    BY <1>0, <2>5
  <2>7. (vault.acc - vault.acc) * (vault.total + (-a)) <= PRECISION * (funds' - funds - (-a))
    BY <2>5, <2>6
  <2>8. CoveredMove(m, r, -a, vault.acc)
    BY <1>0, <2>1, <2>2, <2>4, <2>5, <2>7 DEF CoveredMove
  <2>9. \A p \in Periods : r.reset[p] <= now
    BY <2>2 DEF Orders, WindowsHaveBegun
  <2> QED
    BY <2>1, <2>8, <2>9, MoveOrders
<1>6. CASE ConfigStep
  <2>1. UNCHANGED <<vault, moneyVars, requestVars, now>>
    BY <1>6 DEF ConfigStep, UpdateProgramConfig
  <2>2. config' \subseteq [admin : Members, treasury : Members, rate : 1 .. MAX_PENALTY_BPS]
    <3>1. PICK m \in Members, t \in {{}} \cup {{d} : d \in Members}, rate \in {{}, {2}} :
             UpdateProgramConfig(m, t, rate)
      BY <1>6 DEF ConfigStep
    <3>2. PICK c \in config : /\ rate \subseteq 1 .. MAX_PENALTY_BPS
                              /\ config' = {[c EXCEPT !.treasury = Or(t, c.treasury),
                                                      !.rate = Or(rate, c.rate)]}
      BY <3>1 DEF UpdateProgramConfig
    <3>3. c \in [admin : Members, treasury : Members, rate : 1 .. MAX_PENALTY_BPS]
      BY DEF Orders, PaperInOrder
    <3>4. \A T, option, default : option \in SUBSET T /\ default \in T => Or(option, default) \in T
      BY DEF Or
    <3>5. Or(t, c.treasury) \in Members /\ Or(rate, c.rate) \in 1 .. MAX_PENALTY_BPS
      <4>1. t \in SUBSET Members /\ c.treasury \in Members
        BY <3>3
      <4>2. c.rate \in 1 .. MAX_PENALTY_BPS /\ rate \in SUBSET (1 .. MAX_PENALTY_BPS)
        BY <3>2, <3>3
      <4> QED
        BY ONLY <3>4, <4>1, <4>2, Zenon
    <3> QED
      BY <3>2, <3>3, <3>5
  <2> QED
    BY <1>0, <1>1, <2>1, <2>2 DEF Orders, PaperInOrder, requestVars
<1>7. CASE Tick
  <2>1. now' = now + 1 /\ UNCHANGED <<config, vault, moneyVars, requestVars>>
    BY <1>7 DEF Tick
  <2> QED
    BY <1>0, <1>1, <2>1 DEF Orders, PaperInOrder, requestVars
<1> QED
  BY <1>2, <1>3, <1>4, <1>5, <1>6, <1>7 DEF BypassStep

\* The claims are covered from the first instruction on.
LEMMA OrdersStart == SolanaInit => Orders
<1> SUFFICES ASSUME SolanaInit PROVE Orders
  OBVIOUS
<1>1. /\ joined = {} /\ dust = 0 /\ funds = 0 /\ config = {} /\ proposal = {} /\ bypass = {}
      /\ vault.total = 0 /\ vault.count = 0 /\ vault.acc = 0 /\ vault.creator = Nobody
      /\ vault.community = FALSE
  BY DEF SolanaInit, NoVault
<1>2. /\ IsFiniteSet({}) /\ Cardinality({}) = 0
      /\ \A f : SumFunctionOnSet(f, {}) = 0
  BY FS_EmptySet, SumEmpty
<1>3. PRECISION * 0 + 0 * 0 <= PRECISION * (0 + 0)
  BY SolanaAssumption
<1>4. ClaimsCovered
  BY <1>1, <1>2, <1>3 DEF ClaimsCovered
<1>5. Books
  BY <1>1, <1>2, <1>4 DEF Books, DebtsFit
<1>6. PaperInOrder
  <2>1. Cardinality(proposal) = 0 /\ 0 <= 1
    BY <1>1, <1>2
  <2> QED
    BY <1>1, <2>1 DEF PaperInOrder
<1> QED
  BY <1>1, <1>5, <1>6 DEF Orders, WindowsHaveBegun

LEMMA OrdersStep ==
  ASSUME SolanaInv, SolanaInv', Orders, [SolanaNext]_solanaVars
  PROVE  Orders'
<1>1. CASE UNCHANGED solanaVars
  <2>1. PaperInOrder' /\ now <= now'
    BY <1>1 DEF solanaVars, requestVars, Orders, PaperInOrder, SolanaInv
  <2> QED
    BY <1>1, <2>1, PaperOrders DEF solanaVars, moneyVars
<1> QED
  BY <1>1, SetUpOrders, MoneyOrders, RulesOrders, RequestsOrders DEF SolanaNext

THEOREM SolanaOrders == SolanaSpec => [](SolanaInv /\ Orders)
<1>1. SolanaInv /\ Orders /\ SolanaInv' /\ [SolanaNext]_solanaVars => Orders'
  BY OrdersStep
<1> QED
  BY <1>1, OrdersStart, SolanaInvariant, PTL DEF SolanaSpec

\* What a member could take out is its claim, and its part of what the
\* accumulator promises.
LEMMA OwedByShares ==
  ASSUME SolanaInv, Books, NEW m \in joined
  PROVE  /\ Owed(m) \in Nat
         /\ PRECISION * Owed(m) <= PRECISION * Claims[m] + vault.acc * Balances[m]
<1> DEFINE b == member[m].balance
           sh == Share(b, vault.acc)
           x == b * vault.acc
           c == b + member[m].unclaimed - member[m].debt
<1>1. /\ m \in Members /\ vault.acc \in Nat /\ b \in Nat /\ member[m].unclaimed \in Nat
      /\ member[m].debt \in Nat /\ member[m].debt <= sh /\ PRECISION \in Nat \ {0} /\ x \in Nat
  BY SolanaAssumption DEF SolanaInv, VaultShape, Account, Books, DebtsFit
<1>2. Owed(m) = b + (member[m].unclaimed + sh - member[m].debt)
  BY SettledAccount DEF Owed
<1>3. Claims[m] = c /\ Balances[m] = b
  BY <1>1 DEF Claims, Balances
<1>4. sh = x \div PRECISION
  BY DEF Share
<1> HIDE DEF b, x, sh
<1>5. sh \in Nat /\ PRECISION * sh <= x
  <2>1. sh \in Nat /\ x % PRECISION \in Nat /\ PRECISION * sh = x - (x % PRECISION)
    BY <1>1, <1>4, Division
  <2> QED
    BY <1>1, <2>1
<1>6. Owed(m) = c + sh /\ c \in Int /\ Owed(m) \in Nat
  BY <1>1, <1>2, <1>5
<1> HIDE DEF c
<1>7. PRECISION * Owed(m) = PRECISION * c + PRECISION * sh
  BY <1>1, <1>5, <1>6
<1>8. PRECISION * c \in Int /\ PRECISION * sh \in Int
  BY <1>1, <1>5, <1>6
<1>9. x = vault.acc * b
  BY <1>1 DEF x
<1>10. PRECISION * Owed(m) <= PRECISION * c + x
  <2> HIDE DEF x
  <2> QED
    BY <1>1, <1>5, <1>7, <1>8
<1> QED
  BY <1>3, <1>6, <1>9, <1>10

\* The vault can pay everybody, whoever joined, paid a penalty, left and came
\* back: what is promised beyond the funds is less than one unit for each debt
\* that was rounded (settle_penalties, snapshot_debt, record_penalty).
THEOREM CoveredProof == SolanaSpec => []OwedIsCovered
<1>1. ASSUME SolanaInv, Orders
      PROVE  OwedIsCovered
  <2> DEFINE owed == [m \in Members |-> Owed(m)]
             scaled == [m \in joined |-> PRECISION * owed[m]]
             claimed == [m \in joined |-> PRECISION * Claims[m]]
             promised == [m \in joined |-> vault.acc * Balances[m]]
             both == [m \in joined |-> claimed[m] + promised[m]]
             C == Claims
             B == Balances
  <2>1. /\ IsFiniteSet(joined) /\ joined \subseteq Members /\ dust \in Nat /\ funds \in Nat
        /\ PRECISION \in Nat \ {0} /\ vault.acc \in Nat /\ vault.total \in Nat
        /\ vault.total = SumFunctionOnSet(B, joined)
    BY <1>1, BooksType, SolanaAssumption DEF Orders, Books, SolanaInv
  <2>2. \A m \in joined : /\ owed[m] \in Nat /\ C[m] \in Int /\ B[m] \in Int
                          /\ PRECISION * owed[m] <= PRECISION * C[m] + vault.acc * B[m]
    BY <1>1, <2>1, OwedByShares, BooksType DEF Orders
  <2> HIDE DEF owed, C, B
  <2>3. \A m \in joined : /\ scaled[m] = PRECISION * owed[m] /\ claimed[m] = PRECISION * C[m]
                          /\ promised[m] = vault.acc * B[m] /\ both[m] = claimed[m] + promised[m]
                          /\ scaled[m] \in Int /\ claimed[m] \in Int /\ promised[m] \in Int
                          /\ both[m] \in Int /\ scaled[m] <= both[m]
    BY <2>1, <2>2 DEF C, B
  <2> HIDE DEF scaled, claimed, promised, both
  <2>4. /\ SumFunctionOnSet(scaled, joined) = PRECISION * SumFunctionOnSet(owed, joined)
        /\ SumFunctionOnSet(claimed, joined) = PRECISION * SumFunctionOnSet(C, joined)
        /\ SumFunctionOnSet(promised, joined) = vault.acc * SumFunctionOnSet(B, joined)
    <3>1. PRECISION \in Int /\ vault.acc \in Int
      BY <2>1
    <3> DEFINE acc == vault.acc
    <3> HIDE DEF acc
    <3>2. acc \in Int /\ \A m \in joined : promised[m] = acc * B[m]
      BY <2>3, <3>1 DEF acc
    <3>3. SumFunctionOnSet(promised, joined) = acc * SumFunctionOnSet(B, joined)
      BY <2>1, <2>2, <3>2, SumScale
    <3>4. \A m \in joined : owed[m] \in Int
      BY <2>2
    <3>5. SumFunctionOnSet(scaled, joined) = PRECISION * SumFunctionOnSet(owed, joined)
      BY <2>1, <2>3, <3>1, <3>4, SumScale
    <3>6. SumFunctionOnSet(claimed, joined) = PRECISION * SumFunctionOnSet(C, joined)
      BY <2>1, <2>2, <2>3, <3>1, SumScale
    <3> QED
      BY <3>3, <3>5, <3>6 DEF acc
  <2>5. SumFunctionOnSet(both, joined)
          = SumFunctionOnSet(claimed, joined) + SumFunctionOnSet(promised, joined)
    BY <2>1, <2>3, SumPlus
  <2>6. SumFunctionOnSet(scaled, joined) <= SumFunctionOnSet(both, joined)
    BY <2>1, <2>3, SumLeq
  <2>7. PRECISION * SumFunctionOnSet(C, joined) + vault.acc * SumFunctionOnSet(B, joined)
          <= PRECISION * (funds + dust)
    BY <1>1, <2>1 DEF Orders, Books, ClaimsCovered, C
  <2>8. SumFunctionOnSet(owed, joined) \in Nat
    BY <2>1, <2>2, SumNat
  <2>9. PRECISION * SumFunctionOnSet(owed, joined) <= PRECISION * (funds + dust)
    <3>1. SumFunctionOnSet(both, joined)
            = PRECISION * SumFunctionOnSet(C, joined) + vault.acc * SumFunctionOnSet(B, joined)
      BY <2>4, <2>5
    <3>2. /\ SumFunctionOnSet(both, joined) \in Int
          /\ PRECISION * SumFunctionOnSet(owed, joined) <= SumFunctionOnSet(both, joined)
      BY <2>1, <2>3, <2>4, <2>6, SumInt
    <3>3. SumFunctionOnSet(both, joined) <= PRECISION * (funds + dust)
      BY <2>7, <3>1
    <3>4. PRECISION * SumFunctionOnSet(owed, joined) \in Int /\ PRECISION * (funds + dust) \in Int
      BY <2>1, <2>8
    <3> QED
      BY ONLY <3>2, <3>3, <3>4
  <2>10. SumFunctionOnSet(owed, joined) <= funds + dust
    <3> DEFINE sum == SumFunctionOnSet(owed, joined)
               held == funds + dust
    <3>1. sum \in Nat /\ held \in Nat /\ PRECISION * sum <= PRECISION * held
      BY <2>1, <2>8, <2>9
    <3> HIDE DEF sum, held
    <3>2. sum <= held
      BY <2>1, <3>1
    <3> QED
      BY <3>2 DEF sum, held
  <2>11. SolanaTypeOK
    <3>1. \A m \in joined :
            /\ member[m].balance \in Nat /\ member[m].unclaimed \in Nat /\ member[m].debt \in Nat
            /\ member[m].debt <= Share(member[m].balance, vault.acc)
            /\ \A p \in Periods : member[m].reset[p] \in 0 .. now /\ member[m].spent[p] \in Nat
      <4> SUFFICES ASSUME NEW m \in joined
                   PROVE
            /\ member[m].balance \in Nat /\ member[m].unclaimed \in Nat /\ member[m].debt \in Nat
            /\ member[m].debt <= Share(member[m].balance, vault.acc)
            /\ \A p \in Periods : member[m].reset[p] \in 0 .. now /\ member[m].spent[p] \in Nat
        OBVIOUS
      <4>1. member[m] \in Account /\ now \in Nat
        BY <1>1 DEF SolanaInv
      <4>2. \A p \in Periods : member[m].reset[p] \in Nat /\ member[m].reset[p] <= now
        BY <1>1, <4>1 DEF Orders, WindowsHaveBegun, Account
      <4> QED
        BY <1>1, <4>1, <4>2 DEF Orders, Books, DebtsFit, Account
    <3> QED
      BY <1>1, <2>1, <3>1 DEF SolanaTypeOK, Orders, PaperInOrder, SolanaInv
  <2>12. BooksAgree
    BY <1>1 DEF BooksAgree, Orders, Books, Balances
  <2> QED
    BY <2>10, <2>11, <2>12 DEF OwedIsCovered, owed
<1> QED
  BY <1>1, SolanaOrders, PTL

-----------------------------------------------------------------------------
(* What leaves within the limits.  The row L holds what a member withdrew  *)
(* since its account was opened at from, B what it withdrew before that,   *)
(* and O how often the account was opened; c is a cap on the limits it was *)
(* held to, and its windows are a meter of L (SumTheorems).  These lemmas  *)
(* know nothing of the program.                                            *)

\* How many caps a stretch may see.
Allowed(O, N, t, D) ==
    Over(O, N, t .. t + D - 1) + IF \E u \in 0 .. t - 1 : O[u] > 0 THEN 2 ELSE 0

Within(L, B, O, N, D, c) ==
    \A t \in Moments(N) :
        Over(L, N, t .. t + D - 1) + Over(B, N, t .. t + D - 1) <= c * Allowed(O, N, t, D)

VisitFits(L, B, O, N, at, reset, D, spent, c, from) ==
    /\ MeterFits(L, N, at, reset, D, spent) /\ CapFits(L, N, reset, D, c)
    /\ FirstFits(L, N, from, reset, D, c)
    /\ \A t \in Moments(N) : (L[t] > 0 => from <= t) /\ (B[t] > 0 => t <= from)
    /\ \A t \in Moments(N) :
          Over(B, N, t .. t + D - 1) + (IF from \in t .. t + D - 1 THEN c ELSE 0)
            <= c * Allowed(O, N, t, D)

LEMMA AllowedType ==
  ASSUME NEW N \in Nat, NEW O \in [Moments(N) -> Nat], NEW t \in Nat, NEW D \in Nat
  PROVE  Allowed(O, N, t, D) \in Nat
<1> DEFINE seen == Over(O, N, t .. t + D - 1)
<1>1. seen \in Nat
  BY OverType
<1> HIDE DEF seen
<1>2. seen + (IF \E u \in 0 .. t - 1 : O[u] > 0 THEN 2 ELSE 0) \in Nat
  BY <1>1
<1> QED
  BY <1>2 DEF Allowed, seen

\* More leave means more caps.
LEMMA Caps ==
  ASSUME NEW c \in Nat, NEW k \in Nat, NEW n \in Nat, k <= n
  PROVE  c * k \in Nat /\ c * k <= c * n
<1>1. PICK d \in Nat : n = k + d
  <2>1. n - k \in Nat /\ n = k + (n - k)
    OBVIOUS
  <2> QED
    BY <2>1
<1>2. c * (k + d) = c * k + c * d /\ c * k \in Nat /\ c * d \in Nat
  OBVIOUS
<1> QED
  BY <1>1, <1>2

\* The stretches of all that was withdrawn: an account that was opened before
\* the stretch has two windows in it, one opened within it its first one, and
\* one opened after it none.
LEMMA VisitTotal ==
  ASSUME NEW N \in Nat, NEW L \in [Moments(N) -> Nat], NEW B \in [Moments(N) -> Nat],
         NEW O \in [Moments(N) -> Nat], NEW at, NEW reset, NEW D \in Nat, D >= 1, NEW spent,
         NEW c \in Nat, NEW from \in Moments(N), O[from] > 0,
         VisitFits(L, B, O, N, at, reset, D, spent, c, from)
  PROVE  Within(L, B, O, N, D, c)
<1> SUFFICES ASSUME NEW t \in Moments(N)
             PROVE  Over(L, N, t .. t + D - 1) + Over(B, N, t .. t + D - 1)
                      <= c * Allowed(O, N, t, D)
  BY DEF Within
<1> DEFINE S == t .. t + D - 1
           K == Allowed(O, N, t, D)
           first == from .. from + D - 1
<1>1. t \in Nat /\ from \in Nat
  BY DEF Moments
<1>2. Over(L, N, S) \in Nat /\ Over(B, N, S) \in Nat /\ K \in Nat
  BY <1>1, OverType, AllowedType
<1>3. /\ Over(L, N, S) <= 2 * c /\ Over(L, N, first) <= c
      /\ \A u \in Moments(N) : (L[u] > 0 => from <= u) /\ (B[u] > 0 => u <= from)
      /\ Over(B, N, S) + (IF from \in S THEN c ELSE 0) <= c * K
  BY DEF VisitFits, CapFits, FirstFits
<1>4. c * K \in Nat
  BY <1>2
<1>5. CASE from < t
  <2>1. \A u \in S \cap Moments(N) : B[u] = 0
    <3>1. \A u \in S \cap Moments(N) : ~(u <= from) /\ B[u] \in Nat
      BY <1>1, <1>5 DEF Moments
    <3> QED
      BY <1>3, <3>1
  <2> HIDE DEF S, first
  <2>2. Over(B, N, S) = 0
    BY <2>1, OverZero
  <2>3. K >= 2
    <3> DEFINE seen == Over(O, N, S)
    <3>1. seen \in Nat
      BY OverType
    <3>2. from \in 0 .. t - 1
      BY <1>1, <1>5
    <3>3. K = seen + 2
      BY <3>2 DEF Allowed, S
    <3> HIDE DEF seen, K
    <3> QED
      BY <3>1, <3>3
  <2> HIDE DEF K
  <2>4. c * 2 <= c * K
    BY <1>2, <2>3, Caps
  <2>5. Over(L, N, S) + Over(B, N, S) <= c * K
    BY <1>2, <1>3, <1>4, <2>2, <2>4
  <2> QED
    BY <2>5 DEF S, K
<1>6. CASE from \in S
  <2>1. \A u \in Moments(N) : u \in S /\ u \notin first => L[u] = 0
    <3>1. \A u \in Moments(N) : u \in S /\ u \notin first => ~(from <= u) /\ L[u] \in Nat
      BY <1>1, <1>6 DEF Moments
    <3> QED
      BY <1>3, <3>1
  <2> HIDE DEF S, first, K
  <2>2. Over(L, N, S) <= Over(L, N, first)
    BY <2>1, OverSupport
  <2>3. Over(L, N, first) \in Nat
    BY OverType
  <2>4. Over(L, N, S) + Over(B, N, S) <= c * K
    BY <1>2, <1>3, <1>4, <1>6, <2>2, <2>3
  <2> QED
    BY <2>4 DEF S, K
<1>7. CASE ~(from < t) /\ from \notin S
  <2>1. \A u \in S \cap Moments(N) : L[u] = 0
    <3>1. \A u \in S \cap Moments(N) : ~(from <= u) /\ L[u] \in Nat
      BY <1>1, <1>7 DEF Moments
    <3> QED
      BY <1>3, <3>1
  <2> HIDE DEF S, first, K
  <2>2. Over(L, N, S) = 0
    BY <2>1, OverZero
  <2>3. Over(L, N, S) + Over(B, N, S) <= c * K
    BY <1>2, <1>3, <1>4, <1>7, <2>2
  <2> QED
    BY <2>3 DEF S, K
<1> QED
  BY <1>5, <1>6, <1>7

\* A withdrawal that the windows count, held to a limit within the cap.
LEMMA VisitRecorded ==
  ASSUME NEW N \in Nat, NEW L \in [Moments(N) -> Nat], NEW B, NEW O, NEW at \in Moments(N),
         NEW reset \in Nat, reset <= at, NEW D \in Nat, D >= 1, NEW spent \in Nat,
         NEW amount \in Nat, NEW c \in Nat, NEW from \in Moments(N), from <= at,
         VisitFits(L, B, O, N, at, reset, D, spent, c, from),
         NEW M, RecordedAt(L, M, N, at, amount), NEW start, NEW count,
         \/ at < reset + D /\ start = reset /\ count = spent + amount
         \/ at >= reset + D /\ start = at /\ count = amount,
         count <= c
  PROVE  VisitFits(M, B, O, N, at, start, D, count, c, from)
<1>1. MeterFits(M, N, at, start, D, count)
  BY MeterKept DEF VisitFits
<1>2. CapFits(M, N, start, D, c)
  BY CapKept DEF VisitFits
<1>3. FirstFits(M, N, from, start, D, c)
  <2>1. from \in Nat
    BY DEF Moments
  <2> QED
    BY <1>2, <2>1, FirstKept DEF VisitFits
<1>4. \A t \in Moments(N) : M[t] > 0 => from <= t
  BY DEF RecordedAt, VisitFits
<1> QED
  BY <1>1, <1>2, <1>3, <1>4 DEF VisitFits

\* One that was held to a higher limit: the windows go on and the row does not.
LEMMA VisitIdle ==
  ASSUME NEW N \in Nat, NEW L \in [Moments(N) -> Nat], NEW B, NEW O, NEW at \in Moments(N),
         NEW reset \in Nat, reset <= at, NEW D \in Nat, D >= 1, NEW spent \in Nat,
         NEW amount \in Nat, NEW c \in Nat, NEW from \in Moments(N), from <= at,
         VisitFits(L, B, O, N, at, reset, D, spent, c, from),
         NEW start, NEW count,
         \/ at < reset + D /\ start = reset /\ count = spent + amount
         \/ at >= reset + D /\ start = at /\ count = amount
  PROVE  VisitFits(L, B, O, N, at, start, D, count, c, from)
<1>1. MeterFits(L, N, at, start, D, count) /\ CapFits(L, N, start, D, c)
  BY FitIdle DEF VisitFits
<1>2. RecordedAt(L, L, N, at, 0) /\ from \in Nat
  BY DEF RecordedAt, Moments
<1>3. FirstFits(L, N, from, start, D, c)
  BY <1>1, <1>2, FirstKept DEF VisitFits
<1> QED
  BY <1>1, <1>3 DEF VisitFits

LEMMA VisitLater ==
  ASSUME NEW N \in Nat, NEW L, NEW B, NEW O, NEW at \in Nat, NEW later \in Nat, at <= later,
         NEW reset, NEW D, NEW spent, NEW c, NEW from,
         VisitFits(L, B, O, N, at, reset, D, spent, c, from)
  PROVE  VisitFits(L, B, O, N, later, reset, D, spent, c, from)
<1>1. \A t \in Moments(N) : t \in Nat
  BY DEF Moments
<1>2. \A t \in Moments(N) : L[t] > 0 => t <= later
  BY <1>1 DEF VisitFits, MeterFits
<1> QED
  BY <1>2 DEF VisitFits, MeterFits

\* The account is opened: the row starts blank, what it held joins the earlier
\* ones, and the stretches that see the moment are allowed one cap more.
LEMMA VisitOpened ==
  ASSUME NEW N \in Nat, NEW L \in [Moments(N) -> Nat], NEW B \in [Moments(N) -> Nat],
         NEW O \in [Moments(N) -> Nat], NEW D \in Nat, D >= 1, NEW c \in Nat,
         NEW at \in Moments(N), Within(L, B, O, N, D, c),
         \A t \in Moments(N) : (L[t] > 0 => t <= at) /\ (B[t] > 0 => t <= at),
         NEW blank, \A t \in Moments(N) : blank[t] = 0,
         NEW both \in [Moments(N) -> Nat], \A t \in Moments(N) : both[t] = L[t] + B[t],
         NEW spent \in Nat, NEW P, RecordedAt(O, P, N, at, 1)
  PROVE  VisitFits(blank, both, P, N, at, at, D, spent, c, at)
<1>0. at \in Nat /\ P \in [Moments(N) -> Nat]
  <2>1. at \in Nat
    BY DEF Moments
  <2>2. P \in [Moments(N) -> Nat]
    BY DEF RecordedAt
  <2> QED
    BY <2>1, <2>2
<1>1. MeterFits(blank, N, at, at, D, spent) /\ CapFits(blank, N, at, D, c)
  BY <1>0, EmptyRowFits
<1>2. FirstFits(blank, N, at, at, D, c)
  <2> DEFINE first == at .. at + D - 1
  <2> HIDE DEF first
  <2>1. Over(blank, N, first) = 0
    BY OverZero
  <2> QED
    BY <2>1 DEF FirstFits, first
<1>3. \A t \in Moments(N) : (blank[t] > 0 => at <= t) /\ (both[t] > 0 => t <= at)
  <2>1. \A t \in Moments(N) : L[t] \in Nat /\ B[t] \in Nat
    OBVIOUS
  <2>2. \A t \in Moments(N) : L[t] + B[t] > 0 => L[t] > 0 \/ B[t] > 0
    BY <2>1
  <2> QED
    BY <2>2
<1>4. ASSUME NEW t \in Moments(N)
      PROVE  Over(both, N, t .. t + D - 1) + (IF at \in t .. t + D - 1 THEN c ELSE 0)
               <= c * Allowed(P, N, t, D)
  <2> DEFINE S == t .. t + D - 1
             K == Allowed(O, N, t, D)
             K2 == Allowed(P, N, t, D)
             more == IF at \in S THEN 1 ELSE 0
             older == IF \E u \in 0 .. t - 1 : O[u] > 0 THEN 2 ELSE 0
             older2 == IF \E u \in 0 .. t - 1 : P[u] > 0 THEN 2 ELSE 0
  <2>1. t \in Nat /\ t <= N
    BY DEF Moments
  <2>2. K \in Nat /\ K2 \in Nat
    BY <1>0, <2>1, AllowedType
  <2>3. Over(L, N, S) + Over(B, N, S) <= c * K
    BY DEF Within
  <2>4. older <= older2 /\ older \in Nat /\ older2 \in Nat
    <3>1. \A u \in Moments(N) : O[u] > 0 => P[u] > 0
      BY DEF RecordedAt
    <3>2. \A u \in 0 .. t - 1 : u \in Moments(N)
      BY <2>1 DEF Moments
    <3>3. (\E u \in 0 .. t - 1 : O[u] > 0) => \E u \in 0 .. t - 1 : P[u] > 0
      BY <3>1, <3>2
    <3> QED
      BY <3>3
  <2>5. K = Over(O, N, S) + older /\ K2 = Over(P, N, S) + older2
    BY DEF Allowed
  <2> HIDE DEF K, K2, older, older2
  <2>6. Over(P, N, S) = Over(O, N, S) + more
    <3> HIDE DEF S
    <3>1. Over(O, N, S) \in Nat
      BY OverType
    <3> QED
      BY <3>1, OverRecorded
  <2>7. /\ Over(L, N, S) \in Nat /\ Over(B, N, S) \in Nat /\ Over(O, N, S) \in Nat
        /\ Over(both, N, S) = Over(L, N, S) + Over(B, N, S)
    <3> HIDE DEF S
    <3> QED
      BY OverType, OverPlus
  <2> HIDE DEF S
  <2>8. more \in {0, 1} /\ K + more \in Nat /\ K + more <= K2
    BY <2>2, <2>4, <2>5, <2>6, <2>7
  <2>9. c * (K + more) <= c * K2
    BY <2>2, <2>8, Caps
  <2>10. c * (K + more) = c * K + (IF at \in S THEN c ELSE 0) /\ c * K \in Nat
    <3>1. c * (K + 1) = c * K + c /\ c * (K + 0) = c * K + 0 /\ c * K \in Nat
      BY <2>2
    <3> QED
      BY <3>1
  <2>11. c * K2 \in Nat
    BY <2>2
  <2>12. Over(both, N, S) + (IF at \in S THEN c ELSE 0) <= c * K2
    BY <2>3, <2>7, <2>9, <2>10, <2>11
  <2> QED
    BY <2>12 DEF S, K2
<1> QED
  BY <1>1, <1>2, <1>3, <1>4 DEF VisitFits

-----------------------------------------------------------------------------
(* The windows of every member, and of every period and cap, are such a    *)
(* meter, from the day its account was last opened.                        *)

Blank(L) == \A t \in Moments(bound.time) : L[t] = 0

Ledgers == [Periods -> [bound.caps -> [Moments(bound.time) -> Nat]]]

\* m has never been a member.
Untouched(m) ==
    /\ m \notin joined
    /\ \A p \in Periods, c \in bound.caps : Blank(taken[m][p][c]) /\ Blank(before[m][p][c])

\* m is a member, or was one and has left.
Visited(m) ==
    \E from \in Moments(bound.time) :
        /\ from <= now /\ opened[m][from] > 0
        /\ \A p \in Periods, c \in bound.caps :
              VisitFits(taken[m][p][c], before[m][p][c], opened[m], bound.time, now,
                        member[m].reset[p], Duration[p], member[m].spent[p], c, from)

Rows ==
    /\ now \in Moments(bound.time)
    /\ taken \in [Members -> Ledgers] /\ before \in [Members -> Ledgers]
    /\ opened \in [Members -> [Moments(bound.time) -> Nat]]
    /\ \A m \in Members, t \in Moments(bound.time) : opened[m][t] > 0 => t <= now
    /\ vault.creator = Nobody => \A m \in Members : Untouched(m)

Stretches == Rows /\ \A m \in Members : Untouched(m) \/ Visited(m)

LEMMA DurationType == \A p \in Periods : Duration[p] \in Nat /\ Duration[p] >= 1
<1>1. Duration["daily"] = DAILY_DURATION
  BY DEF Duration, Periods
<1>2. Duration["weekly"] = WEEKLY_DURATION
  BY DEF Duration, Periods
<1>3. Duration["monthly"] = MONTHLY_DURATION
  BY DEF Duration, Periods
<1>4. \A d \in Nat \ {0} : d \in Nat /\ d >= 1
  OBVIOUS
<1> QED
  BY <1>1, <1>2, <1>3, <1>4, SolanaAssumption DEF Periods

LEMMA NothingTakenType ==
  ASSUME SolanaInv
  PROVE  /\ bound.time \in Nat /\ bound.caps \subseteq Nat
         /\ NothingTaken \in Ledgers /\ Never \in [Moments(bound.time) -> Nat]
         /\ \A p \in Periods, c \in bound.caps : Blank(NothingTaken[p][c])
         /\ Blank(Never)
BY SolanaAssumption DEF SolanaInv, NothingTaken, Never, Blank, Moments, Ledgers

\* One row of each history, and the account that goes with them.
LEMMA RowTypes ==
  ASSUME SolanaInv, Rows, NEW m \in Members, NEW p \in Periods, NEW c \in bound.caps
  PROVE  /\ taken[m][p][c] \in [Moments(bound.time) -> Nat]
         /\ before[m][p][c] \in [Moments(bound.time) -> Nat]
         /\ opened[m] \in [Moments(bound.time) -> Nat]
         /\ c \in Nat /\ Duration[p] \in Nat /\ Duration[p] >= 1
         /\ member[m].spent[p] \in Nat /\ member[m].reset[p] \in Nat
<1>1. c \in Nat /\ Duration[p] \in Nat /\ Duration[p] >= 1
  BY NothingTakenType, DurationType
<1>2. member[m].spent[p] \in Nat /\ member[m].reset[p] \in Nat
  BY DEF SolanaInv, Account
<1> QED
  BY <1>1, <1>2 DEF Rows, Ledgers

\* A step that takes nothing within the limits, opens no account and leaves
\* the windows alone.  What becomes of the rules does not matter.
LEMMA QuietStretches ==
  ASSUME SolanaInv, Stretches,
         UNCHANGED <<taken, before, opened, bound>>, joined' \subseteq joined,
         vault.creator # Nobody => vault'.creator # Nobody,
         now <= now', now' \in Moments(bound.time),
         \A m \in Members : /\ member'[m].spent = member[m].spent
                            /\ member'[m].reset = member[m].reset
  PROVE  Stretches'
<1>0. now \in Nat /\ now' \in Nat /\ bound.time \in Nat
  BY NothingTakenType DEF SolanaInv, Moments
<1>1. \A m \in Members : Untouched(m) => Untouched(m)'
  BY DEF Untouched, Blank
<1>2. ASSUME NEW m \in Members, Visited(m)
      PROVE  Visited(m)'
  <2>1. PICK from \in Moments(bound.time) :
           /\ from <= now /\ opened[m][from] > 0
           /\ \A p \in Periods, c \in bound.caps :
                 VisitFits(taken[m][p][c], before[m][p][c], opened[m], bound.time, now,
                           member[m].reset[p], Duration[p], member[m].spent[p], c, from)
    BY <1>2 DEF Visited
  <2>2. \A p \in Periods, c \in bound.caps :
           VisitFits(taken[m][p][c], before[m][p][c], opened[m], bound.time, now',
                     member[m].reset[p], Duration[p], member[m].spent[p], c, from)
    BY <1>0, <2>1, VisitLater
  <2>3. from <= now'
    BY <1>0, <2>1 DEF Moments
  <2> QED
    BY <2>1, <2>2, <2>3 DEF Visited
<1>3. Rows'
  <2>1. \A m \in Members, t \in Moments(bound.time) : opened[m][t] > 0 => t <= now'
    <3>1. \A t \in Moments(bound.time) : t <= now => t <= now'
      BY <1>0 DEF Moments
    <3> QED
      BY <3>1 DEF Stretches, Rows
  <2> QED
    BY <1>1, <2>1 DEF Stretches, Rows, Ledgers
<1> QED
  BY <1>1, <1>2, <1>3 DEF Stretches

\* A withdrawal within the limits: every limited window rolls and counts it,
\* and each row of a cap that the limit is within.
LEMMA WithdrawStretches ==
  ASSUME SolanaInv, Orders, Stretches, NEW m \in joined, NEW a \in Nat, Withdraw(m, a)
  PROVE  Stretches'
<1> DEFINE s == Settled(member[m], vault.acc)
           N == bound.time
<1>1. PICK r \in Metered(s, vault.rules, a) : Move(m, r, -a, vault.acc)
  BY DEF Withdraw
<1>2. /\ s \in Account /\ s.balance = member[m].balance
      /\ s.spent = member[m].spent /\ s.reset = member[m].reset
  BY SettledAccount DEF Orders
<1>3. /\ m \in Members /\ joined \subseteq Members /\ member \in [Members -> Account]
      /\ now \in Nat /\ vault.acc \in Nat /\ N \in Nat /\ vault.rules \in Rules
      /\ Rows /\ now \in Moments(N)
  BY NothingTakenType DEF SolanaInv, VaultShape, Stretches, Rows
<1> HIDE DEF s
<1>4. /\ r \in Account
      /\ \A p \in Periods : r.reset[p] = Rolled(s, vault.rules, p).reset
      /\ \A p \in Periods : vault.rules.limit[p] > 0 =>
            /\ r.spent[p] = Rolled(s, vault.rules, p).spent + a
            /\ ~(r.spent[p] > EffectiveLimit(vault.rules, p, s.balance))
      /\ \A p \in Periods : ~(vault.rules.limit[p] > 0) =>
            r.spent[p] = Rolled(s, vault.rules, p).spent
  BY <1>1, <1>2, <1>3, MeteredType, MeteredEffect
<1>5. /\ member'[m].spent = r.spent /\ member'[m].reset = r.reset
      /\ \A n \in Members : n # m => member'[n] = member[n]
  <2>1. -a \in Int
    OBVIOUS
  <2> QED
    BY <1>1, <1>3, <1>4, <2>1, MoveEffect
<1>6. /\ vault'.creator = vault.creator
      /\ UNCHANGED <<joined, now, bound, before, opened>>
      /\ taken' = [taken EXCEPT ![m] = Remembered(m, a)]
  BY <1>1 DEF Withdraw, Move, SolanaInv, VaultShape
<1>7. Remembered(m, a) \in Ledgers
  BY <1>3 DEF Remembered, Rows, Ledgers
<1>8. /\ taken' \in [Members -> Ledgers] /\ taken'[m] = Remembered(m, a)
      /\ \A n \in Members : n # m => taken'[n] = taken[n]
  BY <1>3, <1>6, <1>7 DEF Rows
<1>9. Rows'
  <2>1. vault.creator # Nobody
    BY DEF SolanaInv, EmptyBefore
  <2> QED
    BY <1>3, <1>6, <1>8, <2>1 DEF Rows, Ledgers
<1>10. PICK from \in Moments(N) :
         /\ from <= now /\ opened[m][from] > 0
         /\ \A p \in Periods, c \in bound.caps :
               VisitFits(taken[m][p][c], before[m][p][c], opened[m], N, now,
                         member[m].reset[p], Duration[p], member[m].spent[p], c, from)
  BY <1>3 DEF Stretches, Untouched, Visited
<1>11. ASSUME NEW p \in Periods, NEW c \in bound.caps
       PROVE  VisitFits(taken'[m][p][c], before[m][p][c], opened[m], N, now,
                        r.reset[p], Duration[p], r.spent[p], c, from)
  <2> DEFINE L == taken[m][p][c]
             M == [L EXCEPT ![now] = @ + a]
             B == before[m][p][c]
             O == opened[m]
             reset == member[m].reset[p]
             spent == member[m].spent[p]
             start == r.reset[p]
             count == r.spent[p]
             D == Duration[p]
             limit == EffectiveLimit(vault.rules, p, member[m].balance)
  <2>1. /\ L \in [Moments(N) -> Nat] /\ c \in Nat /\ D \in Nat /\ D >= 1
        /\ spent \in Nat /\ reset \in Nat /\ reset <= now
    BY <1>3, RowTypes DEF Orders, WindowsHaveBegun
  <2>2. VisitFits(L, B, O, N, now, reset, D, spent, c, from)
    BY <1>10
  <2>3. taken'[m][p][c] = IF vault.rules.limit[p] > 0 /\ limit <= c THEN M ELSE L
    BY <1>8 DEF Remembered
  <2>4. CASE ~(vault.rules.limit[p] > 0)
    <3>1. start = reset /\ count = spent
      BY <1>2, <1>4, <2>4 DEF Rolled
    <3> QED
      BY <2>2, <2>3, <2>4, <3>1
  <2>5. CASE vault.rules.limit[p] > 0
    <3>1. \/ now < reset + D /\ start = reset /\ count = spent + a
          \/ now >= reset + D /\ start = now /\ count = a
      <4>1. start = Rolled(s, vault.rules, p).reset /\ count = Rolled(s, vault.rules, p).spent + a
        BY <1>4, <2>5
      <4>2. s.reset[p] = reset /\ s.spent[p] = spent
        BY <1>2
      <4>3. CASE now >= reset + D
        BY <2>5, <4>1, <4>2, <4>3 DEF Rolled
      <4>4. CASE ~(now >= reset + D)
        <5>1. now < reset + D
          BY <1>3, <2>1, <4>4
        <5>2. start = reset /\ count = spent + a
          BY <4>1, <4>2, <4>4 DEF Rolled
        <5> QED
          BY <5>1, <5>2
      <4> QED
        BY <4>3, <4>4
    <3>2. limit \in Nat /\ count \in Nat /\ ~(count > limit)
      <4>1. member[m].balance \in Nat /\ vault.rules.limit[p] \in Nat
        BY <1>3 DEF Account, Rules
      <4>2. member[m].balance * vault.rules.limit[p] \in Nat
        BY <4>1
      <4>3. \A x \in Nat : x \div MAX_BPS \in Nat
        BY SolanaAssumption
      <4>4. limit \in Nat
        BY <4>1, <4>2, <4>3 DEF EffectiveLimit
      <4> QED
        BY <1>2, <1>4, <2>5, <4>4 DEF Account
    <3> HIDE DEF L, M, B, O, reset, spent, start, count, D, limit, N
    <3>3. CASE limit <= c
      <4>1. RecordedAt(L, M, N, now, a)
        BY <1>3, <2>1, RecordedByUpdate DEF M
      <4>2. count <= c
        BY <2>1, <3>2, <3>3
      <4>3. VisitFits(M, B, O, N, now, start, D, count, c, from)
        BY <1>3, <1>10, <2>1, <2>2, <3>1, <4>1, <4>2, VisitRecorded
      <4> QED
        BY <2>3, <2>5, <3>3, <4>3 DEF L, B, O, N, start, count, D
    <3>4. CASE ~(limit <= c)
      <4>1. VisitFits(L, B, O, N, now, start, D, count, c, from)
        BY <1>3, <1>10, <2>1, <2>2, <3>1, VisitIdle
      <4> QED
        BY <2>3, <2>5, <3>4, <4>1 DEF L, B, O, N, start, count, D
    <3> QED
      BY <3>3, <3>4
  <2> QED
    BY <2>4, <2>5
<1>12. Visited(m)'
  <2>1. /\ from \in Moments(bound'.time) /\ from <= now' /\ opened'[m][from] > 0
    BY <1>6, <1>10
  <2>2. \A p \in Periods, c \in bound'.caps :
          VisitFits(taken'[m][p][c], before'[m][p][c], opened'[m], bound'.time, now',
                    member'[m].reset[p], Duration[p], member'[m].spent[p], c, from)
    BY <1>5, <1>6, <1>11
  <2> QED
    BY <2>1, <2>2 DEF Visited
<1>13. ASSUME NEW n \in Members, n # m
       PROVE  (Untouched(n) => Untouched(n)') /\ (Visited(n) => Visited(n)')
  <2>1. /\ taken'[n] = taken[n] /\ member'[n] = member[n]
        /\ UNCHANGED <<joined, now, bound, before, opened>>
    BY <1>5, <1>6, <1>8, <1>13
  <2> QED
    BY <2>1 DEF Untouched, Visited, Blank
<1> QED
  BY <1>9, <1>12, <1>13 DEF Stretches

\* A settled account has the windows it had.
LEMMA MoveStretches ==
  ASSUME SolanaInv, Orders, Stretches, NEW m \in joined, NEW change \in Int,
         NEW acc \in Nat, Move(m, Settled(member[m], vault.acc), change, acc),
         UNCHANGED <<historyVars, bound, joined, now>>
  PROVE  Stretches'
<1> DEFINE r == Settled(member[m], vault.acc)
<1>1. r \in Account /\ r.spent = member[m].spent /\ r.reset = member[m].reset
  BY SettledAccount DEF Orders
<1>2. Move(m, r, change, acc)
  OBVIOUS
<1> HIDE DEF r
<1>3. /\ m \in Members /\ joined \subseteq Members /\ member \in [Members -> Account]
      /\ now \in Nat /\ now \in Moments(bound.time)
  BY DEF SolanaInv, Stretches, Rows
<1>4. /\ member'[m].spent = member[m].spent /\ member'[m].reset = member[m].reset
      /\ \A n \in Members : n # m => member'[n] = member[n]
  BY <1>1, <1>2, <1>3, MoveEffect
<1>5. vault'.creator = vault.creator
  BY <1>2 DEF Move, SolanaInv, VaultShape
<1> QED
  BY <1>3, <1>4, <1>5, QuietStretches DEF historyVars

\* An account is opened, for the first time or again: its windows and its rows
\* begin here, and what was taken before is kept.
LEMMA OpenedStretches ==
  ASSUME SolanaInv, SolanaInv', Stretches, NEW m \in Members, m \notin joined,
         joined' = joined \cup {m}, UNCHANGED <<now, bound>>, vault'.creator # Nobody,
         member' = [member EXCEPT ![m] = NewMember],
         opened' = [opened EXCEPT ![m][now] = @ + 1],
         \/ /\ taken' = [taken EXCEPT ![m] = NothingTaken]
            /\ before' = [before EXCEPT ![m] = TakenInAll(m)]
         \/ UNCHANGED <<taken, before>> /\ Untouched(m)
  PROVE  Stretches'
<1> DEFINE N == bound.time
           P == [opened[m] EXCEPT ![now] = @ + 1]
<1>1. /\ N \in Nat /\ now \in Nat /\ now \in Moments(N) /\ Rows /\ bound.caps \subseteq Nat
      /\ NothingTaken \in Ledgers /\ NewMember \in Account
      /\ \A p \in Periods, c \in bound.caps : Blank(NothingTaken[p][c])
  BY NothingTakenType DEF SolanaInv, Stretches, Rows, NewMember, Account
<1>2. TakenInAll(m) \in Ledgers
  <2>1. \A p \in Periods, c \in bound.caps, t \in 0 .. bound.time :
           taken[m][p][c][t] + before[m][p][c][t] \in Nat
    <3>1. taken[m] \in Ledgers /\ before[m] \in Ledgers
      BY <1>1 DEF Rows
    <3>2. \A R \in Ledgers, p \in Periods, c \in bound.caps, t \in 0 .. bound.time : R[p][c][t] \in Nat
      <4> TAKE R \in Ledgers, p \in Periods, c \in bound.caps, t \in 0 .. bound.time
      <4>1. R[p] \in [bound.caps -> [Moments(bound.time) -> Nat]]
        BY DEF Ledgers
      <4>2. R[p][c] \in [Moments(bound.time) -> Nat]
        BY <4>1
      <4> QED
        BY <4>2 DEF Moments
    <3> QED
      BY <3>1, <3>2
  <2> QED
    BY <2>1 DEF TakenInAll, Ledgers, Moments
<1>3. /\ taken' \in [Members -> Ledgers] /\ before' \in [Members -> Ledgers]
      /\ \A n \in Members : n # m => taken'[n] = taken[n] /\ before'[n] = before[n]
  BY <1>1, <1>2 DEF Rows
<1>4. /\ P \in [Moments(N) -> Nat] /\ opened'[m] = P
      /\ opened' \in [Members -> [Moments(N) -> Nat]]
      /\ \A n \in Members : n # m => opened'[n] = opened[n] /\ member'[n] = member[n]
      /\ member'[m] = NewMember
  BY <1>1 DEF Rows, SolanaInv
<1>5. RecordedAt(opened[m], P, N, now, 1)
  BY <1>1, RecordedByUpdate DEF Rows
<1>6. P[now] > 0 /\ \A t \in Moments(N) : P[t] > 0 => t <= now
  <2>1. \A t \in Moments(N) : t # now => P[t] = opened[m][t]
    BY <1>5 DEF RecordedAt
  <2>2. P[now] = opened[m][now] + 1 /\ opened[m][now] \in Nat
    BY <1>1, <1>5 DEF RecordedAt, Rows
  <2> QED
    BY <1>1, <2>1, <2>2 DEF Rows
<1>7. Rows'
  <2>1. \A n \in Members, t \in Moments(N) : opened'[n][t] > 0 => t <= now
    BY <1>1, <1>4, <1>6 DEF Rows
  <2>2. now' \in Moments(bound.time)' /\ Ledgers' = Ledgers /\ Moments(bound.time)' = Moments(N)
    BY <1>1 DEF Ledgers, Moments
  <2>3. /\ taken' \in [Members -> Ledgers'] /\ before' \in [Members -> Ledgers']
        /\ opened' \in [Members -> [Moments(bound.time)' -> Nat]]
    BY <1>3, <1>4, <2>2
  <2>4. \A n \in Members, t \in Moments(bound.time)' : opened'[n][t] > 0 => t <= now'
    BY <2>1, <2>2
  <2> QED
    BY <2>2, <2>3, <2>4 DEF Rows
<1>8. ASSUME NEW p \in Periods, NEW c \in bound.caps
      PROVE  VisitFits(taken'[m][p][c], before'[m][p][c], P, N, now,
                       NewMember.reset[p], Duration[p], NewMember.spent[p], c, now)
  <2> DEFINE L == taken[m][p][c]
             B == before[m][p][c]
             O == opened[m]
             D == Duration[p]
             blank == taken'[m][p][c]
             both == before'[m][p][c]
  <2>1. /\ L \in [Moments(N) -> Nat] /\ B \in [Moments(N) -> Nat] /\ O \in [Moments(N) -> Nat]
        /\ D \in Nat /\ D >= 1 /\ c \in Nat
    BY <1>1, RowTypes
  <2>2. NewMember.reset[p] = now /\ NewMember.spent[p] = 0
    BY DEF NewMember
  <2>3. /\ \A t \in Moments(N) : blank[t] = 0
        /\ both \in [Moments(N) -> Nat] /\ \A t \in Moments(N) : both[t] = L[t] + B[t]
    <3>1. both \in [Moments(N) -> Nat]
      BY <1>3 DEF Ledgers
    <3>2. CASE /\ taken' = [taken EXCEPT ![m] = NothingTaken]
               /\ before' = [before EXCEPT ![m] = TakenInAll(m)]
      <4>1. blank = NothingTaken[p][c] /\ both = TakenInAll(m)[p][c]
        BY <1>1, <3>2 DEF Rows
      <4>2. \A t \in Moments(N) : TakenInAll(m)[p][c][t] = L[t] + B[t]
        BY DEF TakenInAll, Moments
      <4> QED
        BY <1>1, <3>1, <4>1, <4>2 DEF Blank
    <3>3. CASE UNCHANGED <<taken, before>> /\ Untouched(m)
      BY <2>1, <3>1, <3>3 DEF Untouched, Blank
    <3> QED
      BY <3>2, <3>3
  <2>4. /\ Within(L, B, O, N, D, c)
        /\ \A t \in Moments(N) : (L[t] > 0 => t <= now) /\ (B[t] > 0 => t <= now)
    <3>1. CASE Untouched(m)
      <4>1. \A t \in Moments(N) : L[t] = 0 /\ B[t] = 0
        BY <3>1 DEF Untouched, Blank
      <4> HIDE DEF L, B, O, N, D
      <4>2. \A t \in Moments(N) : t \in Nat
        BY DEF Moments
      <4>3. ASSUME NEW t \in Moments(N)
            PROVE  Over(L, N, t .. t + D - 1) + Over(B, N, t .. t + D - 1)
                     <= c * Allowed(O, N, t, D)
        <5> DEFINE S == t .. t + D - 1
                   K == Allowed(O, N, t, D)
        <5>1. K \in Nat
          BY <1>1, <2>1, <4>2, AllowedType
        <5> HIDE DEF S, K
        <5>2. Over(L, N, S) = 0 /\ Over(B, N, S) = 0
          BY <1>1, <4>1, OverZero DEF N
        <5>3. c * K \in Nat
          BY <2>1, <5>1
        <5>4. Over(L, N, S) + Over(B, N, S) <= c * K
          BY <5>2, <5>3
        <5> QED
          BY <5>4 DEF S, K
      <4> QED
        BY <4>1, <4>3 DEF Within
    <3>2. CASE Visited(m)
      <4>1. PICK from \in Moments(N) :
              /\ from <= now /\ O[from] > 0
              /\ VisitFits(L, B, O, N, now, member[m].reset[p], D, member[m].spent[p], c, from)
        BY <3>2 DEF Visited
      <4> HIDE DEF L, B, O, N, D
      <4>2. Within(L, B, O, N, D, c)
        BY <1>1, <2>1, <4>1, VisitTotal DEF N
      <4>3. \A t \in Moments(N) : (L[t] > 0 => t <= now) /\ (B[t] > 0 => t <= from)
        BY <4>1 DEF VisitFits, MeterFits
      <4>4. \A t \in Moments(N) : t <= from => t <= now
        BY <1>1, <4>1 DEF Moments, N
      <4> QED
        BY <4>2, <4>3, <4>4
    <3> QED
      BY <3>1, <3>2 DEF Stretches
  <2> HIDE DEF L, B, O, D, N, P, blank, both
  <2>5. VisitFits(blank, both, P, N, now, now, D, 0, c, now)
    BY <1>1, <1>5, <2>1, <2>3, <2>4, VisitOpened DEF N, O
  <2> QED
    BY <2>2, <2>5 DEF D, blank, both
<1>9. Visited(m)'
  <2>1. now \in Moments(bound'.time) /\ now <= now' /\ opened'[m][now] > 0
    BY <1>1, <1>4, <1>6
  <2>2. \A p \in Periods, c \in bound'.caps :
          VisitFits(taken'[m][p][c], before'[m][p][c], opened'[m], bound'.time, now',
                    member'[m].reset[p], Duration[p], member'[m].spent[p], c, now)
    BY <1>4, <1>8
  <2> QED
    BY <2>1, <2>2 DEF Visited
<1>10. ASSUME NEW n \in Members, n # m
       PROVE  (Untouched(n) => Untouched(n)') /\ (Visited(n) => Visited(n)')
  <2>1. /\ taken'[n] = taken[n] /\ before'[n] = before[n] /\ opened'[n] = opened[n]
        /\ member'[n] = member[n] /\ UNCHANGED <<now, bound>> /\ (n \notin joined => n \notin joined')
    BY <1>3, <1>4, <1>10
  <2> QED
    BY <2>1 DEF Untouched, Visited, Blank
<1> QED
  BY <1>7, <1>9, <1>10 DEF Stretches

LEMMA SetUpStretches ==
  ASSUME SolanaInv, SolanaInv', Stretches, SetUpStep
  PROVE  Stretches'
<1>0. /\ bound.members \subseteq Members /\ bound.rules \subseteq Rules
      /\ now \in Nat /\ now \in Moments(bound.time) /\ joined \subseteq Members
  BY SolanaAssumption DEF SolanaInv, Rules, Stretches, Rows
<1>1. CASE InitializeProgramConfig(bound.admin, 1)
  BY <1>0, <1>1, QuietStretches DEF InitializeProgramConfig, moneyVars, historyVars
<1>2. ASSUME NEW m \in Members, NEW rules \in Rules, NEW community, CreateVault(m, community, rules)
      PROVE  Stretches'
  <2>1. /\ vault = NoVault /\ joined' = {m} /\ member' = [member EXCEPT ![m] = NewMember]
        /\ opened' = [opened EXCEPT ![m][now] = @ + 1]
        /\ UNCHANGED <<taken, before, now, bound>>
    BY <1>2 DEF CreateVault
  <2>2. vault'.creator = m /\ m # Nobody
    BY <1>2, SolanaAssumption DEF CreateVault, NoVault
  <2>3. Untouched(m) /\ joined = {}
    BY <2>1 DEF Stretches, Rows, NoVault, SolanaInv, EmptyBefore
  <2>4. m \notin joined /\ joined' = joined \cup {m} /\ vault'.creator # Nobody
    BY <2>1, <2>2, <2>3
  <2> QED
    BY <2>1, <2>3, <2>4, OpenedStretches
<1>3. ASSUME NEW m \in Members, JoinVault(m)
      PROVE  Stretches'
  <2>1. /\ m \notin joined /\ joined' = joined \cup {m}
        /\ member' = [member EXCEPT ![m] = NewMember]
        /\ taken' = [taken EXCEPT ![m] = NothingTaken]
        /\ before' = [before EXCEPT ![m] = TakenInAll(m)]
        /\ opened' = [opened EXCEPT ![m][now] = @ + 1]
        /\ UNCHANGED <<now, bound>> /\ vault.community
    BY <1>3 DEF JoinVault
  <2>2. vault'.creator # Nobody
    BY <1>3, <2>1 DEF JoinVault, SolanaInv, VaultShape, EmptyBefore
  <2> QED
    BY <2>1, <2>2, OpenedStretches
<1>4. ASSUME NEW m \in Members, LeaveVault(m)
      PROVE  Stretches'
  <2>1. vault'.creator = vault.creator
    BY <1>4 DEF LeaveVault, SolanaInv, VaultShape
  <2> QED
    BY <1>0, <1>4, <2>1, QuietStretches DEF LeaveVault, historyVars
<1> QED
  BY <1>0, <1>1, <1>2, <1>3, <1>4 DEF SetUpStep

\* Nothing but money, and the opening of an account, touches a window.
LEMMA StretchesStep ==
  ASSUME SolanaInv, SolanaInv', Orders, Stretches, [SolanaNext]_solanaVars
  PROVE  Stretches'
<1>0. /\ joined \subseteq Members /\ bound.amounts \subseteq Nat /\ bound.time \in Nat
      /\ vault.acc \in Nat /\ vault.total \in Int /\ now \in Nat /\ now \in Moments(bound.time)
  BY SolanaAssumption DEF SolanaInv, VaultShape, Stretches, Rows
<1>1. ASSUME UNCHANGED <<moneyVars, now, bound>>, vault.creator # Nobody => vault'.creator # Nobody
      PROVE  Stretches'
  BY <1>0, <1>1, QuietStretches DEF moneyVars, historyVars
<1>2. CASE DepositStep
  <2>1. PICK m \in joined, a \in bound.amounts : Deposit(m, a)
    BY <1>2 DEF DepositStep
  <2> QED
    BY <1>0, <2>1, MoveStretches DEF Deposit
<1>3. CASE WithdrawStep
  BY <1>0, <1>3, WithdrawStretches DEF WithdrawStep
<1>4. CASE PenaltyStep
  <2>1. ASSUME NEW m \in joined, NEW a \in Nat, WithdrawWithPenalty(m, a)
        PROVE  Stretches'
    <3>1. PICK acc : /\ acc = IF vault.community
                              THEN RecordPenalty(vault.acc, vault.total - a, PenaltyOf(a))
                              ELSE vault.acc
                     /\ Move(m, Settled(member[m], vault.acc), -a, acc)
      BY <2>1 DEF WithdrawWithPenalty
    <3>2. PenaltyOf(a) \in Nat /\ vault.total - a \in Int /\ -a \in Int
      BY <1>0, PenaltyOfType DEF SolanaInv
    <3>3. acc \in Nat
      BY <1>0, <3>1, <3>2, RecordPenaltyType
    <3>4. UNCHANGED <<historyVars, bound, joined, now>>
      BY <2>1 DEF WithdrawWithPenalty
    <3> QED
      BY <3>1, <3>2, <3>3, <3>4, MoveStretches
  <2>2. ASSUME NEW m \in joined, ClaimPenaltyRewards(m)
        PROVE  Stretches'
    <3> DEFINE r == Settled(member[m], vault.acc)
    <3>1. /\ member' = [member EXCEPT ![m] = [r EXCEPT !.unclaimed = 0]]
          /\ UNCHANGED <<vault, joined, historyVars, now, bound>>
      BY <2>2 DEF ClaimPenaltyRewards
    <3>2. r \in Account /\ r.spent = member[m].spent /\ r.reset = member[m].reset
      BY SettledAccount DEF Orders
    <3> HIDE DEF r
    <3>3. \A n \in Members : member'[n].spent = member[n].spent /\ member'[n].reset = member[n].reset
      BY <1>0, <3>1, <3>2 DEF Account, SolanaInv
    <3> QED
      BY <1>0, <3>1, <3>3, QuietStretches DEF historyVars
  <2> QED
    BY <1>0, <1>4, <2>1, <2>2 DEF PenaltyStep
<1>5. CASE BypassStep
  <2>1. ASSUME NEW m \in joined, NEW q \in bypass, ExecuteBypass(m, q)
        PROVE  Stretches'
    <3>1. q.amount \in Nat
      BY DEF SolanaInv, BypassesWait
    <3>2. -q.amount \in Int
      BY <3>1
    <3> QED
      BY <1>0, <2>1, <3>2, MoveStretches DEF ExecuteBypass
  <2> QED
    BY <1>1, <1>5, <2>1 DEF BypassStep, RequestBypass, CancelBypass
<1>6. CASE DestinationStep
  BY <1>1, <1>6 DEF DestinationStep, AddWithdrawalDestination, RequestWithdrawalDestination,
     RemoveWithdrawalDestination, ExecuteDestinationRequest, CancelDestinationRequest
<1>7. CASE ConfigStep
  BY <1>1, <1>7 DEF ConfigStep, UpdateProgramConfig
<1>8. CASE Tick
  <2>1. now' = now + 1 /\ now < bound.time /\ UNCHANGED <<vault, moneyVars, bound>>
    BY <1>8 DEF Tick
  <2>2. now <= now' /\ now' \in Moments(bound.time)
    BY <1>0, <2>1 DEF Moments
  <2> QED
    BY <2>1, <2>2, QuietStretches DEF moneyVars, historyVars
<1>9. CASE UNCHANGED solanaVars
  BY <1>1, <1>9 DEF solanaVars
<1>10. CASE RulesStep
  <2>1. UNCHANGED <<moneyVars, now, bound>>
    BY <1>10 DEF RulesStep, UpdateVaultRules, ProposeRuleChange, ExecuteRuleChange, CancelRuleChange
  <2>2. vault' = vault \/ \E r : SetRules(r)
    BY <1>10 DEF RulesStep, UpdateVaultRules, ProposeRuleChange, ExecuteRuleChange, CancelRuleChange
  <2>3. vault'.creator = vault.creator
    BY <2>2 DEF SetRules, SolanaInv, VaultShape
  <2> QED
    BY <1>1, <2>1, <2>3
<1> QED
  BY <1>2, <1>3, <1>4, <1>5, <1>6, <1>7, <1>8, <1>9, <1>10, SetUpStretches DEF SolanaNext

LEMMA StretchesStart == SolanaInit /\ SolanaInv => Stretches
<1> SUFFICES ASSUME SolanaInit, SolanaInv PROVE Stretches
  OBVIOUS
<1>1. /\ joined = {} /\ now = 0 /\ taken = [m \in Members |-> NothingTaken] /\ before = taken
      /\ opened = [m \in Members |-> Never]
  BY DEF SolanaInit
<1>2. /\ NothingTaken \in Ledgers /\ \A p \in Periods, c \in bound.caps : Blank(NothingTaken[p][c])
      /\ Never \in [Moments(bound.time) -> Nat] /\ Blank(Never)
  BY NothingTakenType
<1>3. 0 \in Moments(bound.time)
  BY NothingTakenType DEF Moments
<1>4. \A m \in Members : Untouched(m)
  BY <1>1, <1>2 DEF Untouched
<1>5. \A m \in Members, t \in Moments(bound.time) : ~(opened[m][t] > 0)
  BY <1>1, <1>2 DEF Blank
<1> QED
  BY <1>1, <1>2, <1>3, <1>4, <1>5 DEF Stretches, Rows

\* No stretch as long as a period sees more leave within the limits than two
\* caps, for an account that was there before, and one for each account that
\* was opened in it; nothing is forgotten when an account is closed and opened
\* again or when the rules change (check_and_update_limits, leave_vault,
\* join_vault, update_vault_rules, execute_rule_change).
THEOREM TwoLimitsProof == SolanaSpec => []TwoLimitsPerStretch
<1>1. ASSUME SolanaInv, Stretches
      PROVE  TwoLimitsPerStretch
  <2> SUFFICES ASSUME NEW m \in Members, NEW p \in Periods, NEW c \in bound.caps, NEW t \in 0 .. now
               PROVE  LET stretch == {u \in t .. now : u < t + Duration[p]}
                      IN  SumFunctionOnSet(taken[m][p][c], stretch)
                            + SumFunctionOnSet(before[m][p][c], stretch)
                          <= c * (SumFunctionOnSet(opened[m], stretch)
                                    + IF \E u \in 0 .. t - 1 : opened[m][u] > 0 THEN 2 ELSE 0)
    BY DEF TwoLimitsPerStretch
  <2> DEFINE N == bound.time
             D == Duration[p]
             L == taken[m][p][c]
             B == before[m][p][c]
             O == opened[m]
             seen == {u \in t .. now : u < t + D}
             stretch == t .. t + D - 1
             older == IF \E u \in 0 .. t - 1 : O[u] > 0 THEN 2 ELSE 0
  <2>1. /\ N \in Nat /\ now \in 0 .. N /\ c \in Nat /\ D \in Nat /\ D >= 1
        /\ L \in [Moments(N) -> Nat] /\ B \in [Moments(N) -> Nat] /\ O \in [Moments(N) -> Nat]
    BY <1>1, NothingTakenType, RowTypes DEF Stretches, Rows, Moments
  <2>2. /\ \A u \in Moments(N) : (L[u] > 0 => u <= now) /\ (B[u] > 0 => u <= now) /\ (O[u] > 0 => u <= now)
        /\ Over(L, N, stretch) + Over(B, N, stretch) <= c * (Over(O, N, stretch) + older)
    <3>1. t \in Moments(N)
      BY <2>1 DEF Moments
    <3>2. \A u \in Moments(N) : O[u] > 0 => u <= now
      BY <1>1 DEF Stretches, Rows
    <3>3. CASE Untouched(m)
      <4>1. \A u \in Moments(N) : L[u] = 0 /\ B[u] = 0
        BY <3>3 DEF Untouched, Blank
      <4>2. older \in Nat /\ Over(O, N, stretch) \in Nat
        BY <2>1, OverType
      <4> HIDE DEF N, D, L, B, O, stretch, older
      <4>3. Over(L, N, stretch) = 0 /\ Over(B, N, stretch) = 0
        BY <2>1, <4>1, OverZero
      <4>4. c * (Over(O, N, stretch) + older) \in Nat
        BY <2>1, <4>2
      <4> QED
        BY <3>2, <4>1, <4>3, <4>4
    <3>4. CASE Visited(m)
      <4>1. PICK from \in Moments(N) :
              /\ from <= now /\ O[from] > 0
              /\ VisitFits(L, B, O, N, now, member[m].reset[p], D, member[m].spent[p], c, from)
        BY <3>4 DEF Visited
      <4>2. \A u \in Moments(N) : u <= from => u <= now
        BY <2>1, <4>1 DEF Moments
      <4> HIDE DEF N, D, L, B, O
      <4>3. Within(L, B, O, N, D, c)
        BY <2>1, <4>1, VisitTotal
      <4>4. Over(L, N, stretch) + Over(B, N, stretch) <= c * (Over(O, N, stretch) + older)
        BY <3>1, <4>3 DEF Within, Allowed
      <4>5. \A u \in Moments(N) : (L[u] > 0 => u <= now) /\ (B[u] > 0 => u <= now)
        BY <4>1, <4>2 DEF VisitFits, MeterFits
      <4> QED
        BY <3>2, <4>4, <4>5
    <3> QED
      BY <1>1, <3>3, <3>4 DEF Stretches
  <2>3. /\ seen \subseteq stretch /\ seen \subseteq Moments(N)
        /\ \A u \in stretch \cap Moments(N) : u \notin seen => ~(u <= now)
    <3>1. t \in Nat /\ now \in Nat /\ now <= N
      BY <2>1
    <3> HIDE DEF N, D
    <3>2. \A u : u \in seen <=> u \in Nat /\ t <= u /\ u <= now /\ u < t + D
      BY <3>1
    <3>3. \A u : u \in stretch <=> u \in Nat /\ t <= u /\ u <= t + D - 1
      BY <2>1, <3>1
    <3>4. \A u : u \in Moments(N) <=> u \in Nat /\ u <= N
      BY <2>1 DEF Moments
    <3> HIDE DEF seen, stretch
    <3> QED
      BY <2>1, <3>1, <3>2, <3>3, <3>4
  <2> HIDE DEF N, D, seen, stretch, older
  <2>4. ASSUME NEW R \in [Moments(N) -> Nat], \A u \in Moments(N) : R[u] > 0 => u <= now
        PROVE  SumFunctionOnSet(R, seen) = Over(R, N, stretch)
    <3>1. IsFiniteSet(stretch \cap Moments(N))
      BY <2>1, FiniteTimes
    <3>2. \A u \in (stretch \cap Moments(N)) \ seen : R[u] = 0
      BY <2>3, <2>4
    <3>3. SumFunctionOnSet(R, stretch \cap Moments(N)) = SumFunctionOnSet(R, seen)
      <4>1. seen \in SUBSET (stretch \cap Moments(N)) /\ \A u \in stretch \cap Moments(N) : R[u] \in Int
        BY <2>3, <2>4
      <4> QED
        BY <3>1, <3>2, <4>1, SumSupport
    <3> QED
      BY <3>3 DEF Over
  <2>5. /\ SumFunctionOnSet(L, seen) = Over(L, N, stretch)
        /\ SumFunctionOnSet(B, seen) = Over(B, N, stretch)
        /\ SumFunctionOnSet(O, seen) = Over(O, N, stretch)
    BY <2>1, <2>2, <2>4
  <2>6. SumFunctionOnSet(L, seen) + SumFunctionOnSet(B, seen)
          <= c * (SumFunctionOnSet(O, seen) + older)
    BY <2>2, <2>5
  <2> QED
    BY <2>6 DEF seen, older, D
<1>2. SolanaInv /\ SolanaInv' /\ Orders /\ Stretches /\ [SolanaNext]_solanaVars => Stretches'
  BY StretchesStep
<1> QED
  BY <1>1, <1>2, StretchesStart, SolanaOrders, PTL DEF SolanaSpec
=============================================================================
