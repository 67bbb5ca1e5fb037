------------------------ MODULE SpendingRules_proofs ------------------------
(***************************************************************************)
(* Proofs about SpendingRules and, at the end, about what its counters     *)
(* stand for (SpendingWindows): for any number of scopes, period names,    *)
(* limits, waits and proposals, and an unbounded clock as far as MaxTime   *)
(* allows.                                                                 *)
(***************************************************************************)
EXTENDS SpendingWindows, SumTheorems

-----------------------------------------------------------------------------
(* What the operators return.                                              *)

LEMMA RefreshedType ==
    ASSUME NEW p \in Period, now \in Nat
    PROVE  /\ Refreshed(p) \in Period
           /\ Refreshed(p).exists = p.exists
           /\ Refreshed(p).active = p.active
           /\ Refreshed(p).limit = p.limit
           /\ Refreshed(p).duration = p.duration
  BY DEF Refreshed, Period

LEMMA MeteredType ==
    ASSUME NEW p \in Period, now \in Nat, NEW amount \in Nat
    PROVE  /\ Metered(p, amount) \in Period
           /\ Metered(p, amount).exists = p.exists
           /\ Metered(p, amount).active = p.active
           /\ Metered(p, amount).limit = p.limit
           /\ Metered(p, amount).duration = p.duration
  <1>1. CASE p.active
    <2>1. Refreshed(p) \in Period  BY RefreshedType
    <2>2. [Refreshed(p) EXCEPT !.spent = @ + amount] \in Period
      BY <2>1 DEF Period
    <2> QED BY <1>1, <2>1, <2>2, RefreshedType DEF Metered, Period
  <1>2. CASE ~p.active
    BY <1>2 DEF Metered
  <1> QED BY <1>1, <1>2

LEMMA WrittenType ==
    ASSUME NEW p \in Period, now \in Nat, NEW limit \in Nat, NEW duration \in Nat
    PROVE  Written(p, limit, duration) \in Period /\ Written(p, limit, duration).exists
  BY DEF Written, Period

LEMMA MaxLimitType ==
    ASSUME NEW rules \in [Names -> Period]
    PROVE  MaxLimit(rules) \in Nat
  <1>1. ActiveLimits(rules) \subseteq Nat  BY DEF ActiveLimits, Period
  <1> QED BY <1>1 DEF MaxLimit

LEMMA BatchType ==
    ASSUME NEW batch \in Batches
    PROVE  /\ DOMAIN batch \subseteq Names
           /\ \A n \in DOMAIN batch : /\ batch[n].limit \in Nat
                                      /\ batch[n].duration \in Nat
                                      /\ batch[n].delay \in Nat
  <1>1. PICK ns \in SUBSET Names :
           batch \in [ns -> [limit : Limits, duration : Durations, delay : Delays]]
    BY DEF Batches
  <1>2. DOMAIN batch = ns  BY <1>1
  <1>3. \A n \in ns : batch[n] \in [limit : Limits, duration : Durations, delay : Delays]
    BY <1>1
  <1> QED BY <1>2, <1>3, RulesAssumption

LEMMA UnlockDelayBounds ==
    ASSUME RulesTypeOK, NEW s \in Scopes, NEW n \in Names
    PROVE  UnlockDelay(s, n) \in MinUnlockDelay .. MaxUnlockDelay
  BY RulesAssumption DEF RulesTypeOK, UnlockDelay

-----------------------------------------------------------------------------
(* Type correctness.                                                       *)

\* The part of the type invariant that the period-writing calls disturb.
PeriodsOK ==
    /\ period \in [Scopes -> [Names -> Period]]
    /\ unlockDelay \in [Scopes -> [Names -> {0} \cup (MinUnlockDelay .. MaxUnlockDelay)]]
    /\ \A s \in Scopes, n \in Names : period[s][n].exists => unlockDelay[s][n] # 0

LEMMA WriteBatchType ==
    ASSUME RulesTypeOK, NEW s \in Scopes, NEW batch \in Batches, WriteBatch(s, batch)
    PROVE  PeriodsOK' /\ periodCount' \in [Scopes -> Nat]
  <1> DEFINE rules == [n \in Names |-> IF n \in DOMAIN batch
                          THEN Written(period[s][n], batch[n].limit, batch[n].duration)
                          ELSE period[s][n]]
             waits == [n \in Names |-> IF n \in DOMAIN batch THEN batch[n].delay
                                                           ELSE unlockDelay[s][n]]
             new == {n \in DOMAIN batch : ~period[s][n].exists}
  <1>1. period' = [period EXCEPT ![s] = rules]  BY DEF WriteBatch, RulesTypeOK
  <1>2. unlockDelay' = [unlockDelay EXCEPT ![s] = waits]  BY DEF WriteBatch, RulesTypeOK
  <1>3. \A n \in Names : period[s][n] \in Period  BY DEF RulesTypeOK
  <1>4. rules \in [Names -> Period]
    BY <1>3, BatchType, WrittenType DEF RulesTypeOK
  <1>5. \A n \in DOMAIN batch : batch[n].delay \in MinUnlockDelay .. MaxUnlockDelay
    BY BatchType, RulesAssumption DEF WriteBatch, BatchValid, ValidDelay
  <1>6. waits \in [Names -> {0} \cup (MinUnlockDelay .. MaxUnlockDelay)]
    BY <1>5, BatchType DEF RulesTypeOK
  <1>7. \A n \in Names : rules[n].exists => waits[n] # 0
    BY <1>5, RulesAssumption DEF RulesTypeOK
  <1>8. \A r \in Scopes : r # s => period'[r] = period[r] /\ unlockDelay'[r] = unlockDelay[r]
    BY <1>1, <1>2 DEF RulesTypeOK
  <1>9. period'[s] = rules /\ unlockDelay'[s] = waits
    BY <1>1, <1>2 DEF RulesTypeOK
  <1>10. \A r \in Scopes, n \in Names : period'[r][n].exists => unlockDelay'[r][n] # 0
    <2> SUFFICES ASSUME NEW r \in Scopes, NEW n \in Names, period'[r][n].exists
                 PROVE  unlockDelay'[r][n] # 0
      OBVIOUS
    <2>1. CASE r = s  BY <2>1, <1>7, <1>9
    <2>2. CASE r # s  BY <2>2, <1>8 DEF RulesTypeOK
    <2> QED BY <2>1, <2>2
  <1>11. Cardinality(new) \in Nat
    <2>1. new \subseteq Names  BY BatchType
    <2> QED BY <2>1, FS_Subset, FS_CardinalityType, RulesAssumption
  <1>12. periodCount' \in [Scopes -> Nat]
    BY <1>11 DEF WriteBatch, RulesTypeOK
  <1>13. period' \in [Scopes -> [Names -> Period]]
    BY <1>1, <1>4 DEF RulesTypeOK
  <1>14. unlockDelay' \in [Scopes -> [Names -> {0} \cup (MinUnlockDelay .. MaxUnlockDelay)]]
    BY <1>2, <1>6 DEF RulesTypeOK
  <1> QED BY <1>10, <1>12, <1>13, <1>14 DEF PeriodsOK

LEMMA CommitType ==
    ASSUME RulesTypeOK, NEW s \in Scopes, NEW rules \in [Names -> Period],
           Commit(s, rules)
    PROVE  committed' \in [Scopes -> BOOLEAN] /\ totalLocked' \in [Scopes -> Nat]
  BY MaxLimitType DEF Commit, RulesTypeOK

LEMMA MigratePeriodsType ==
    ASSUME RulesTypeOK, NEW from \in Scopes, NEW to \in Scopes,
           MigratePeriodsTo(from, to)
    PROVE  PeriodsOK' /\ periodCount' \in [Scopes -> Nat]
  <1>1. period' = [period EXCEPT ![to] = period[from]]  BY DEF MigratePeriodsTo
  <1>2. period' \in [Scopes -> [Names -> Period]]  BY <1>1 DEF RulesTypeOK
  <1> DEFINE waits == [n \in Names |-> IF period[from][n].exists THEN unlockDelay[from][n]
                                                              ELSE unlockDelay[to][n]]
  <1>3. unlockDelay' = [unlockDelay EXCEPT ![to] = waits]
    BY DEF MigratePeriodsTo, RulesTypeOK
  <1>4. waits \in [Names -> {0} \cup (MinUnlockDelay .. MaxUnlockDelay)]
    BY DEF RulesTypeOK
  <1>5. unlockDelay' \in [Scopes -> [Names -> {0} \cup (MinUnlockDelay .. MaxUnlockDelay)]]
    BY <1>3, <1>4 DEF RulesTypeOK
  <1>6. \A r \in Scopes, n \in Names : period'[r][n].exists => unlockDelay'[r][n] # 0
    <2> SUFFICES ASSUME NEW r \in Scopes, NEW n \in Names, period'[r][n].exists
                 PROVE  unlockDelay'[r][n] # 0
      OBVIOUS
    <2>1. CASE r = to
      <3>1. period'[to] = period[from] /\ unlockDelay'[to] = waits
        BY <1>1, <1>3 DEF RulesTypeOK
      <3> QED BY <2>1, <3>1 DEF RulesTypeOK
    <2>2. CASE r # to
      <3>1. period'[r] = period[r] /\ unlockDelay'[r] = unlockDelay[r]
        BY <2>2, <1>1, <1>3 DEF RulesTypeOK
      <3> QED BY <3>1 DEF RulesTypeOK
    <2> QED BY <2>1, <2>2
  <1>7. periodCount' \in [Scopes -> Nat]  BY DEF MigratePeriodsTo, RulesTypeOK
  <1> QED BY <1>2, <1>5, <1>6, <1>7 DEF PeriodsOK

\* Both ways of metering write only counters and window starts.
LEMMA MeteringType ==
    ASSUME RulesTypeOK, NEW s \in Scopes, NEW amount \in Nat, NEW skipped \in SUBSET Names,
           period' = [period EXCEPT ![s] =
               [n \in Names |-> IF n \in skipped THEN @[n] ELSE Metered(@[n], amount)]],
           unlockDelay' = unlockDelay
    PROVE  /\ PeriodsOK'
           /\ \A r \in Scopes, n \in Names :
                 /\ period'[r][n].exists = period[r][n].exists
                 /\ period'[r][n].active = period[r][n].active
                 /\ period'[r][n].limit = period[r][n].limit
                 /\ period'[r][n].duration = period[r][n].duration
  <1> DEFINE rules == [n \in Names |-> IF n \in skipped THEN period[s][n]
                                                       ELSE Metered(period[s][n], amount)]
  <1>1. period' = [period EXCEPT ![s] = rules]  BY DEF RulesTypeOK
  <1>2. \A n \in Names : period[s][n] \in Period  BY DEF RulesTypeOK
  <1>3. now \in Nat  BY DEF RulesTypeOK
  <1>4. \A n \in Names : /\ rules[n] \in Period
                         /\ rules[n].exists = period[s][n].exists
                         /\ rules[n].active = period[s][n].active
                         /\ rules[n].limit = period[s][n].limit
                         /\ rules[n].duration = period[s][n].duration
    BY <1>2, <1>3, MeteredType
  <1>5. period' \in [Scopes -> [Names -> Period]]
    <2>1. rules \in [Names -> Period]  BY <1>4
    <2> QED BY <1>1, <2>1 DEF RulesTypeOK
  <1>6. \A r \in Scopes, n \in Names :
           /\ period'[r][n].exists = period[r][n].exists
           /\ period'[r][n].active = period[r][n].active
           /\ period'[r][n].limit = period[r][n].limit
           /\ period'[r][n].duration = period[r][n].duration
    <2> SUFFICES ASSUME NEW r \in Scopes, NEW n \in Names
                 PROVE  /\ period'[r][n].exists = period[r][n].exists
                        /\ period'[r][n].active = period[r][n].active
                        /\ period'[r][n].limit = period[r][n].limit
                        /\ period'[r][n].duration = period[r][n].duration
      OBVIOUS
    <2>1. CASE r = s
      <3>1. period'[s] = rules  BY <1>1 DEF RulesTypeOK
      <3> QED BY <2>1, <3>1, <1>4
    <2>2. CASE r # s
      <3>1. period'[r] = period[r]  BY <2>2, <1>1 DEF RulesTypeOK
      <3> QED BY <3>1
    <2> QED BY <2>1, <2>2
  <1>7. \A r \in Scopes, n \in Names : period'[r][n].exists => unlockDelay'[r][n] # 0
    BY <1>6 DEF RulesTypeOK
  <1> QED BY <1>5, <1>6, <1>7 DEF PeriodsOK, RulesTypeOK

LEMMA FileType ==
    ASSUME RulesTypeOK, NEW s \in Scopes, NEW n \in Names,
           NEW kind \in {"limit", "delay", "removal"}, NEW value \in Nat,
           NEW isIncrease \in BOOLEAN, File(s, kind, n, value, isIncrease)
    PROVE  RulesTypeOK'
  <1> DEFINE new == [kind |-> kind, period |-> n, value |-> value, filed |-> now,
                     executeAfter |-> now + UnlockDelay(s, n), executed |-> FALSE,
                     isIncrease |-> isIncrease]
  <1>1. new \in Proposal
    BY UnlockDelayBounds, RulesAssumption DEF Proposal, RulesTypeOK
  <1>2. proposal' = [proposal EXCEPT ![s] = @ \cup {new}]
    BY DEF File
  <1>3. proposal' \in [Scopes -> SUBSET Proposal]
    BY <1>1, <1>2 DEF RulesTypeOK
  <1> QED BY <1>3 DEF File, RulesTypeOK

LEMMA ExecuteType ==
    ASSUME RulesTypeOK, NEW s \in Scopes, NEW p, ExecuteLimitProposal(s, p)
    PROVE  RulesTypeOK'
  <1>1. p \in Proposal /\ p.period \in Names /\ p.value \in Nat
    BY DEF ExecuteLimitProposal, RulesTypeOK, Proposal
  <1>2. proposal' \in [Scopes -> SUBSET Proposal]
    <2>1. [p EXCEPT !.executed = TRUE] \in Proposal  BY <1>1 DEF Proposal
    <2> QED BY <2>1 DEF ExecuteLimitProposal, RulesTypeOK
  <1>3. PeriodsOK' /\ periodCount' \in [Scopes -> Nat]
    <2>1. CASE p.kind = "delay"
      <3>1. /\ ValidDelay(p.value)
            /\ unlockDelay' = [unlockDelay EXCEPT ![s][p.period] = p.value]
            /\ UNCHANGED <<period, periodCount>>
        BY <2>1 DEF ExecuteLimitProposal
      <3>2. p.value \in MinUnlockDelay .. MaxUnlockDelay /\ p.value # 0
        BY <3>1, <1>1, RulesAssumption DEF ValidDelay
      <3> QED BY <3>1, <3>2, <1>1 DEF RulesTypeOK, PeriodsOK
    <2>2. CASE p.kind = "removal"
      <3>1. /\ periodCount[s] > 0
            /\ period' = [period EXCEPT ![s][p.period].active = FALSE]
            /\ periodCount' = [periodCount EXCEPT ![s] = @ - 1]
            /\ UNCHANGED unlockDelay
        BY <2>2 DEF ExecuteLimitProposal
      <3> DEFINE old == period[s][p.period]
                 off == [old EXCEPT !.active = FALSE]
      <3>2. old \in Period  BY <1>1 DEF RulesTypeOK
      <3>3. off \in Period /\ off.exists = old.exists  BY <3>2 DEF Period
      <3>4. period' = [period EXCEPT ![s][p.period] = off]  BY <3>1
      <3> HIDE DEF off
      <3>5. period' \in [Scopes -> [Names -> Period]]
        BY <3>3, <3>4, <1>1 DEF RulesTypeOK
      <3>6. \A r \in Scopes, n \in Names : period'[r][n].exists = period[r][n].exists
        BY <3>3, <3>4, <1>1 DEF RulesTypeOK
      <3> QED BY <3>1, <3>5, <3>6 DEF RulesTypeOK, PeriodsOK
    <2>3. CASE p.kind = "limit"
      <3>1. /\ period' = [period EXCEPT ![s][p.period].limit = p.value]
            /\ UNCHANGED <<unlockDelay, periodCount>>
        BY <2>3 DEF ExecuteLimitProposal
      <3> DEFINE old == period[s][p.period]
                 set == [old EXCEPT !.limit = p.value]
      <3>2. old \in Period  BY <1>1 DEF RulesTypeOK
      <3>3. set \in Period /\ set.exists = old.exists  BY <3>2, <1>1 DEF Period
      <3>4. period' = [period EXCEPT ![s][p.period] = set]  BY <3>1
      <3> HIDE DEF set
      <3>5. period' \in [Scopes -> [Names -> Period]]
        BY <3>3, <3>4, <1>1 DEF RulesTypeOK
      <3>6. \A r \in Scopes, n \in Names : period'[r][n].exists = period[r][n].exists
        BY <3>3, <3>4, <1>1 DEF RulesTypeOK
      <3> QED BY <3>1, <3>5, <3>6 DEF RulesTypeOK, PeriodsOK
    <2> QED BY <2>1, <2>2, <2>3, <1>1 DEF Proposal
  <1> QED BY <1>2, <1>3 DEF ExecuteLimitProposal, RulesTypeOK, PeriodsOK

LEMMA SetPeriodLimitType ==
    ASSUME RulesTypeOK, NEW s \in Scopes, NEW n \in Names, NEW limit \in Limits,
           NEW duration \in Durations, NEW delay \in Delays,
           SetPeriodLimit(s, n, limit, duration, delay)
    PROVE  RulesTypeOK'
  <1> DEFINE new == ~period[s][n].exists
             wait == IF new /\ committed[s] THEN DefaultUnlockDelay ELSE delay
  <1>1. /\ ValidDelay(wait)
        /\ period' = [period EXCEPT ![s][n] = Written(@, limit, duration)]
        /\ periodCount' = IF new THEN [periodCount EXCEPT ![s] = @ + 1] ELSE periodCount
        /\ unlockDelay' = [unlockDelay EXCEPT ![s][n] = wait]
        /\ totalLocked' = IF committed[s]
                          THEN [totalLocked EXCEPT ![s] = MaxLimit(period'[s])]
                          ELSE totalLocked
        /\ UNCHANGED <<now, percentage, committed, proposal>>
    BY DEF SetPeriodLimit
  <1>2. wait \in MinUnlockDelay .. MaxUnlockDelay /\ wait # 0
    BY <1>1, RulesAssumption DEF ValidDelay
  <1>3. Written(period[s][n], limit, duration) \in Period
    BY WrittenType, RulesAssumption DEF RulesTypeOK
  <1>4. period' = [period EXCEPT ![s] = [period[s] EXCEPT ![n] = Written(period[s][n], limit, duration)]]
    BY <1>1
  <1>5. period' \in [Scopes -> [Names -> Period]]
    BY <1>3, <1>4 DEF RulesTypeOK
  <1>6. unlockDelay' \in [Scopes -> [Names -> {0} \cup (MinUnlockDelay .. MaxUnlockDelay)]]
    BY <1>1, <1>2 DEF RulesTypeOK
  <1>7. \A r \in Scopes, m \in Names : period'[r][m].exists => unlockDelay'[r][m] # 0
    BY <1>1, <1>2, <1>4 DEF RulesTypeOK
  <1>8. periodCount' \in [Scopes -> Nat]
    BY <1>1 DEF RulesTypeOK
  <1>9. totalLocked' \in [Scopes -> Nat]
    BY <1>1, <1>5, MaxLimitType DEF RulesTypeOK
  <1> QED BY <1>1, <1>5, <1>6, <1>7, <1>8, <1>9 DEF RulesTypeOK

LEMMA ProposalStepType ==
    ASSUME RulesTypeOK, NEW s \in Scopes, ProposalStep(s)
    PROVE  RulesTypeOK'
  <1>1. CASE \E n \in Names, limit \in Limits : ProposeLimitChange(s, n, limit)
    <2>1. PICK n \in Names, limit \in Limits : ProposeLimitChange(s, n, limit)  BY <1>1
    <2>2. (limit > FindPeriodLimit(s, n)) \in BOOLEAN  OBVIOUS
    <2>3. limit \in Nat  BY RulesAssumption
    <2> QED BY <2>1, <2>2, <2>3, FileType DEF ProposeLimitChange
  <1>2. CASE \E n \in Names, delay \in Delays : ProposeUnlockDelayChange(s, n, delay)
    BY <1>2, FileType, RulesAssumption DEF ProposeUnlockDelayChange
  <1>3. CASE \E p \in proposal[s] : ExecuteLimitProposal(s, p)
    BY <1>3, ExecuteType
  <1>4. CASE \E p \in proposal[s] : CancelLimitProposal(s, p)
    BY <1>4 DEF CancelLimitProposal, RulesTypeOK
  <1> QED BY <1>1, <1>2, <1>3, <1>4 DEF ProposalStep

LEMMA RulesTypeStep ==
    ASSUME RulesTypeOK, [RulesNext]_rulesVars
    PROVE  RulesTypeOK'
  <1>1. CASE Tick  BY <1>1 DEF Tick, RulesTypeOK
  <1>2. ASSUME NEW s \in Accounts, AccountStep(s)  PROVE RulesTypeOK'
    <2>0. s \in Scopes  BY DEF Scopes
    <2>1. CASE \E n \in Names, limit \in Limits, duration \in Durations, delay \in Delays :
                  SetPeriodLimit(s, n, limit, duration, delay)
      BY <2>0, <2>1, SetPeriodLimitType
    <2>2. CASE \E batch \in Batches : SetPeriodLimits(s, batch)
      <3>1. PICK batch \in Batches : SetPeriodLimits(s, batch)  BY <2>2
      <3>2. PeriodsOK' /\ periodCount' \in [Scopes -> Nat]
        BY <2>0, <3>1, WriteBatchType DEF SetPeriodLimits
      <3> QED BY <3>1, <3>2 DEF SetPeriodLimits, RulesTypeOK, PeriodsOK
    <2>3. CASE \E batch \in Batches : CommitSetupWithPeriods(s, batch)
      <3>1. PICK batch \in Batches : CommitSetupWithPeriods(s, batch)  BY <2>3
      <3>2. PeriodsOK' /\ periodCount' \in [Scopes -> Nat]
        BY <2>0, <3>1, WriteBatchType DEF CommitSetupWithPeriods
      <3>3. period'[s] \in [Names -> Period]  BY <2>0, <3>2 DEF PeriodsOK
      <3>4. committed' \in [Scopes -> BOOLEAN] /\ totalLocked' \in [Scopes -> Nat]
        BY <2>0, <3>1, <3>3, CommitType DEF CommitSetupWithPeriods
      <3> QED BY <3>1, <3>2, <3>4 DEF CommitSetupWithPeriods, RulesTypeOK, PeriodsOK
    <2>4. CASE CommitInitialSetup(s)
      <3>1. period[s] \in [Names -> Period]  BY <2>0 DEF RulesTypeOK
      <3>2. committed' \in [Scopes -> BOOLEAN] /\ totalLocked' \in [Scopes -> Nat]
        BY <2>0, <2>4, <3>1, CommitType DEF CommitInitialSetup
      <3> QED BY <2>4, <3>2 DEF CommitInitialSetup, RulesTypeOK
    <2>5. CASE \E n \in Names : ProposeLimitRemoval(s, n)
      BY <2>0, <2>5, FileType DEF ProposeLimitRemoval
    <2>6. CASE RecalculateTotalLockedValue(s)
      <3>1. MaxLimit(period[s]) \in Nat  BY <2>0, MaxLimitType DEF RulesTypeOK
      <3> QED BY <2>6, <3>1 DEF RecalculateTotalLockedValue, RulesTypeOK
    <2>7. CASE ProposalStep(s)  BY <2>0, <2>7, ProposalStepType
    <2>8. CASE \E to \in Accounts : MigrateSpendingRules(s, to)
      <3>1. PICK to \in Accounts : MigrateSpendingRules(s, to)  BY <2>8
      <3>2. to \in Scopes  BY DEF Scopes
      <3>3. PeriodsOK' /\ periodCount' \in [Scopes -> Nat]
        BY <2>0, <3>1, <3>2, MigratePeriodsType DEF MigrateSpendingRules
      <3>4. committed' \in [Scopes -> BOOLEAN] /\ totalLocked' \in [Scopes -> Nat]
        BY <2>0, <3>1, <3>2 DEF MigrateSpendingRules, MigrateSetupTo, RulesTypeOK
      <3> QED BY <3>1, <3>3, <3>4 DEF MigrateSpendingRules, RulesTypeOK, PeriodsOK
    <2> QED BY <1>2, <2>1, <2>2, <2>3, <2>4, <2>5, <2>6, <2>7, <2>8 DEF AccountStep, AccountKeyStep
  <1>3. ASSUME NEW s \in Scopes \ Accounts, VaultStep(s)  PROVE RulesTypeOK'
    <2>1. CASE \E batch \in Batches, arePercentage \in BOOLEAN :
                  InstallRules(s, batch, arePercentage)
      <3>1. PICK batch \in Batches, arePercentage \in BOOLEAN :
               InstallRules(s, batch, arePercentage)
        BY <2>1
      <3>2. PeriodsOK' /\ periodCount' \in [Scopes -> Nat]
        BY <3>1, WriteBatchType DEF InstallRules
      <3>3. period'[s] \in [Names -> Period]  BY <3>2 DEF PeriodsOK
      <3>4. committed' \in [Scopes -> BOOLEAN] /\ totalLocked' \in [Scopes -> Nat]
        BY <3>1, <3>3, CommitType DEF InstallRules
      <3> QED BY <3>1, <3>2, <3>4 DEF InstallRules, RulesTypeOK, PeriodsOK
    <2>2. CASE MayChangeRules(s) /\ ProposalStep(s)  BY <2>2, ProposalStepType
    <2>3. CASE s \in Founders /\ \E to \in Joiners : JoinRules(s, to)
      <3>1. PICK to \in Joiners : JoinRules(s, to)  BY <2>3
      <3>2. to \in Scopes  BY DEF Scopes, CommunityScopes
      <3>3. PeriodsOK' /\ periodCount' \in [Scopes -> Nat]
        BY <3>1, <3>2, MigratePeriodsType DEF JoinRules
      <3>4. period'[to] \in [Names -> Period]  BY <3>2, <3>3 DEF PeriodsOK
      <3>5. committed' \in [Scopes -> BOOLEAN] /\ totalLocked' \in [Scopes -> Nat]
        BY <3>1, <3>2, <3>4, CommitType DEF JoinRules
      <3> QED BY <3>1, <3>3, <3>5 DEF JoinRules, RulesTypeOK, PeriodsOK
    <2> QED BY <1>3, <2>1, <2>2, <2>3 DEF VaultStep
  <1>4. ASSUME NEW s \in Scopes, CustodianStep(s)  PROVE RulesTypeOK'
    <2>1. CASE \E amount \in Amounts, balance \in Balances : Spend(s, amount, balance)
      <3>1. PICK amount \in Amounts, balance \in Balances : Spend(s, amount, balance)
        BY <2>1
      <3>2. period' = [period EXCEPT ![s] =
               [n \in Names |-> IF n \in {} THEN @[n] ELSE Metered(@[n], amount)]]
        BY <3>1 DEF Spend, CheckAndSpend
      <3>3. PeriodsOK'
        BY <3>1, <3>2, MeteringType, RulesAssumption DEF Spend
      <3> QED BY <3>1, <3>3 DEF Spend, RulesTypeOK, PeriodsOK
    <2>2. CASE \E amount \in Amounts, skip \in Names : SpendWithBypass(s, amount, skip)
      <3>1. PICK amount \in Amounts, skip \in Names : SpendWithBypass(s, amount, skip)
        BY <2>2
      <3>2. period' = [period EXCEPT ![s] =
               [n \in Names |-> IF n \in {skip} THEN @[n] ELSE Metered(@[n], amount)]]
        BY <3>1 DEF SpendWithBypass, UpdateSpendingWithBypass
      <3>3. amount \in Nat /\ {skip} \in SUBSET Names /\ unlockDelay' = unlockDelay
        BY <3>1, RulesAssumption DEF SpendWithBypass
      <3>4. PeriodsOK'
        BY <3>2, <3>3, MeteringType
      <3> QED BY <3>1, <3>4 DEF SpendWithBypass, RulesTypeOK, PeriodsOK
    <2> QED BY <1>4, <2>1, <2>2 DEF CustodianStep
  <1>5. CASE UNCHANGED rulesVars  BY <1>5 DEF rulesVars, RulesTypeOK
  <1> QED BY <1>1, <1>2, <1>3, <1>4, <1>5 DEF RulesNext

\* Every reachable state has the types the contracts' storage is read with,
\* and every period a wait of its own within the bounds.
THEOREM RulesTypeCorrect == RulesSpec => []RulesTypeOK
  <1>1. RulesInit => RulesTypeOK
    BY RulesAssumption DEF RulesInit, RulesTypeOK, AbsentPeriod, Period
  <1>2. RulesTypeOK /\ [RulesNext]_rulesVars => RulesTypeOK'
    BY RulesTypeStep
  <1> QED BY <1>1, <1>2, PTL DEF RulesSpec

-----------------------------------------------------------------------------
(* Lock-in.  The wait of a proposal is fixed when it is filed and is never *)
(* below the shortest wait, which is what makes a matured one "served".    *)

WaitsAreServed ==
    \A s \in Scopes : \A p \in proposal[s] : p.executeAfter >= p.filed + MinUnlockDelay

RulesInv == RulesTypeOK /\ WaitsAreServed

LEMMA WaitsStep ==
    ASSUME RulesInv, [RulesNext]_rulesVars
    PROVE  WaitsAreServed'
  <1> USE DEF RulesInv
  <1>1. ASSUME NEW s \in Scopes, NEW n \in Names, NEW kind, NEW value, NEW isIncrease,
               File(s, kind, n, value, isIncrease)
        PROVE  WaitsAreServed'
    <2>1. now + UnlockDelay(s, n) >= now + MinUnlockDelay
      BY UnlockDelayBounds, RulesAssumption DEF RulesTypeOK
    <2> QED BY <1>1, <2>1 DEF File, WaitsAreServed, RulesTypeOK
  <1>2. ASSUME NEW s \in Scopes, ProposalStep(s)  PROVE WaitsAreServed'
    <2>1. CASE \E n \in Names, limit \in Limits : ProposeLimitChange(s, n, limit)
      BY <1>1, <2>1 DEF ProposeLimitChange
    <2>2. CASE \E n \in Names, delay \in Delays : ProposeUnlockDelayChange(s, n, delay)
      BY <1>1, <2>2 DEF ProposeUnlockDelayChange
    <2>3. CASE \E p \in proposal[s] : ExecuteLimitProposal(s, p)
      <3>1. PICK p \in proposal[s] : ExecuteLimitProposal(s, p)  BY <2>3
      <3>2. proposal' = [proposal EXCEPT ![s] =
                           (@ \ {p}) \cup {[p EXCEPT !.executed = TRUE]}]
        BY <3>1 DEF ExecuteLimitProposal
      <3>3. /\ [p EXCEPT !.executed = TRUE].executeAfter = p.executeAfter
            /\ [p EXCEPT !.executed = TRUE].filed = p.filed
        BY DEF RulesTypeOK, Proposal
      <3> QED BY <3>2, <3>3 DEF WaitsAreServed, RulesTypeOK
    <2>4. CASE \E p \in proposal[s] : CancelLimitProposal(s, p)
      BY <2>4 DEF CancelLimitProposal, WaitsAreServed, RulesTypeOK
    <2> QED BY <1>2, <2>1, <2>2, <2>3, <2>4 DEF ProposalStep
  <1>3. CASE UNCHANGED proposal  BY <1>3 DEF WaitsAreServed
  <1>4. ASSUME NEW s \in Accounts, AccountStep(s)  PROVE WaitsAreServed'
    <2>0. s \in Scopes  BY DEF Scopes
    <2>1. CASE ProposalStep(s)  BY <2>0, <2>1, <1>2
    <2>2. CASE \E n \in Names : ProposeLimitRemoval(s, n)
      BY <2>0, <2>2, <1>1 DEF ProposeLimitRemoval
    <2> QED BY <1>4, <2>1, <2>2, <1>3
         DEF AccountStep, AccountKeyStep, SetPeriodLimit, SetPeriodLimits, CommitSetupWithPeriods,
             CommitInitialSetup, RecalculateTotalLockedValue, MigrateSpendingRules
  <1>5. ASSUME NEW s \in Scopes \ Accounts, VaultStep(s)  PROVE WaitsAreServed'
    BY <1>5, <1>2, <1>3 DEF VaultStep, InstallRules, JoinRules
  <1>6. ASSUME NEW s \in Scopes, CustodianStep(s)  PROVE WaitsAreServed'
    BY <1>6, <1>3 DEF CustodianStep, Spend, SpendWithBypass
  <1>7. CASE Tick  BY <1>7, <1>3 DEF Tick
  <1>8. CASE UNCHANGED rulesVars  BY <1>8, <1>3 DEF rulesVars
  <1> QED BY <1>4, <1>5, <1>6, <1>7, <1>8 DEF RulesNext

LEMMA RulesInvariant == RulesSpec => []RulesInv
  <1>1. RulesInit => WaitsAreServed  BY DEF RulesInit, WaitsAreServed
  <1>2. RulesInit => RulesTypeOK
    BY RulesAssumption DEF RulesInit, RulesTypeOK, AbsentPeriod, Period
  <1>3. RulesInv /\ [RulesNext]_rulesVars => RulesInv'
    BY RulesTypeStep, WaitsStep DEF RulesInv
  <1> QED BY <1>1, <1>2, <1>3, PTL DEF RulesSpec, RulesInv

-----------------------------------------------------------------------------
(* What one step can do to one period.                                     *)

Untouched(s, n) == period'[s][n] = period[s][n] /\ unlockDelay'[s][n] = unlockDelay[s][n]

MeteredBy(s, n) == /\ \E amount \in Nat : period'[s][n] = Metered(period[s][n], amount)
                   /\ unlockDelay'[s][n] = unlockDelay[s][n]

WrittenBy(s, n) == /\ Rewritable(s, n)
                   /\ \E limit, duration \in Nat :
                         /\ duration >= MinPeriodDuration
                         /\ period'[s][n] = Written(period[s][n], limit, duration)

CopiedTo(s, n) == /\ ~period[s][n].exists
                  /\ \E r \in Scopes : period'[s][n] = period[r][n]

ChangedByProposal(s, n) ==
    /\ Served(s, n) /\ s \notin CommunityScopes
    /\ \E p \in proposal'[s] : p.executed
    /\ period[s][n].exists /\ period'[s][n].exists
    /\ period'[s][n].spent = period[s][n].spent
    /\ period'[s][n].lastReset = period[s][n].lastReset
    /\ period'[s][n].duration = period[s][n].duration

Rewrite(s, n) == \/ Untouched(s, n) \/ WrittenBy(s, n)
                 \/ CopiedTo(s, n) \/ ChangedByProposal(s, n)

Fate(s, n) == Rewrite(s, n) \/ MeteredBy(s, n)

LEMMA WriteBatchFate ==
    ASSUME RulesTypeOK, NEW r \in Scopes, NEW batch \in Batches, WriteBatch(r, batch),
           NEW s \in Scopes, NEW n \in Names
    PROVE  Rewrite(s, n)
  <1>1. CASE s = r /\ n \in DOMAIN batch
    <2>1. period'[s][n] = Written(period[s][n], batch[n].limit, batch[n].duration)
      BY <1>1 DEF WriteBatch, RulesTypeOK
    <2>2. ~committed[s] /\ batch[n].duration >= MinPeriodDuration
      BY <1>1 DEF WriteBatch, BatchValid
    <2> QED BY <1>1, <2>1, <2>2, BatchType DEF Rewrite, WrittenBy, Rewritable
  <1>2. CASE ~(s = r /\ n \in DOMAIN batch)
    <2>1. period'[s][n] = period[s][n]  BY <1>2 DEF WriteBatch, RulesTypeOK
    <2>2. unlockDelay'[s][n] = unlockDelay[s][n]  BY <1>2 DEF WriteBatch, RulesTypeOK
    <2> QED BY <2>1, <2>2 DEF Rewrite, Untouched
  <1> QED BY <1>1, <1>2

LEMMA MigrateFate ==
    ASSUME RulesTypeOK, NEW from \in Scopes, NEW to \in Scopes, MigratePeriodsTo(from, to),
           NEW s \in Scopes, NEW n \in Names
    PROVE  Rewrite(s, n)
  <1>1. CASE s = to
    <2>1. period'[s][n] = period[from][n] /\ ~period[s][n].exists
      BY <1>1 DEF MigratePeriodsTo, RulesTypeOK
    <2> QED BY <2>1 DEF Rewrite, CopiedTo
  <1>2. CASE s # to
    BY <1>2 DEF MigratePeriodsTo, RulesTypeOK, Rewrite, Untouched
  <1> QED BY <1>1, <1>2

LEMMA ExecuteFate ==
    ASSUME RulesInv, NEW r \in Scopes \ CommunityScopes, NEW p,
           ExecuteLimitProposal(r, p), NEW s \in Scopes, NEW n \in Names
    PROVE  Rewrite(s, n)
  <1> USE DEF RulesInv
  <1>1. p \in Proposal /\ p.period \in Names /\ p \in proposal[r] /\ ~p.executed
    BY DEF ExecuteLimitProposal, RulesTypeOK, Proposal
  <1>2. Served(r, p.period)
    <2>1. now >= p.executeAfter  BY DEF ExecuteLimitProposal, Matured
    <2>2. p.executeAfter >= p.filed + MinUnlockDelay  BY <1>1 DEF WaitsAreServed
    <2>3. now >= p.filed + MinUnlockDelay
      BY <1>1, <2>1, <2>2, RulesAssumption DEF RulesTypeOK, Proposal
    <2> QED BY <1>1, <2>1, <2>3 DEF Served
  <1>3. period[r][p.period].exists  BY DEF ExecuteLimitProposal
  <1>7. \E q \in proposal'[r] : q.executed
    <2>1. [p EXCEPT !.executed = TRUE].executed  BY <1>1 DEF Proposal
    <2>2. [p EXCEPT !.executed = TRUE] \in proposal'[r]
      BY DEF ExecuteLimitProposal, RulesTypeOK
    <2> QED BY <2>1, <2>2
  <1> DEFINE old == period[r][p.period]
  <1>4. old \in Period  BY <1>1 DEF RulesTypeOK
  <1>5. CASE s = r /\ n = p.period
    <2>1. CASE period' = period
      BY <1>2, <1>3, <1>5, <1>7, <2>1 DEF Rewrite, ChangedByProposal
    <2>2. CASE period' = [period EXCEPT ![r][p.period].active = FALSE]
      <3>1. period'[s][n] = [old EXCEPT !.active = FALSE]
        BY <1>5, <2>2 DEF RulesTypeOK
      <3>2. /\ [old EXCEPT !.active = FALSE].exists = old.exists
            /\ [old EXCEPT !.active = FALSE].spent = old.spent
            /\ [old EXCEPT !.active = FALSE].lastReset = old.lastReset
            /\ [old EXCEPT !.active = FALSE].duration = old.duration
        BY <1>4 DEF Period
      <3> QED BY <1>2, <1>3, <1>5, <1>7, <3>1, <3>2 DEF Rewrite, ChangedByProposal
    <2>3. CASE period' = [period EXCEPT ![r][p.period].limit = p.value]
      <3>1. period'[s][n] = [old EXCEPT !.limit = p.value]
        BY <1>5, <2>3 DEF RulesTypeOK
      <3>2. /\ [old EXCEPT !.limit = p.value].exists = old.exists
            /\ [old EXCEPT !.limit = p.value].spent = old.spent
            /\ [old EXCEPT !.limit = p.value].lastReset = old.lastReset
            /\ [old EXCEPT !.limit = p.value].duration = old.duration
        BY <1>4 DEF Period
      <3> QED BY <1>2, <1>3, <1>5, <1>7, <3>1, <3>2 DEF Rewrite, ChangedByProposal
    <2> QED BY <2>1, <2>2, <2>3 DEF ExecuteLimitProposal
  <1>6. CASE ~(s = r /\ n = p.period)
    <2>1. period'[s][n] = period[s][n]
      BY <1>1, <1>6 DEF ExecuteLimitProposal, RulesTypeOK
    <2>2. unlockDelay'[s][n] = unlockDelay[s][n]
      BY <1>1, <1>6 DEF ExecuteLimitProposal, RulesTypeOK
    <2> QED BY <2>1, <2>2 DEF Rewrite, Untouched
  <1> QED BY <1>5, <1>6

LEMMA SetPeriodLimitFate ==
    ASSUME RulesTypeOK, NEW r \in Scopes, NEW m \in Names, NEW limit \in Nat,
           NEW duration \in Nat, NEW delay, SetPeriodLimit(r, m, limit, duration, delay),
           NEW s \in Scopes, NEW n \in Names
    PROVE  Rewrite(s, n)
  <1>1. CASE s = r /\ n = m
    <2>1. period'[s][n] = Written(period[s][n], limit, duration)
      BY <1>1 DEF SetPeriodLimit, RulesTypeOK
    <2> QED BY <1>1, <2>1 DEF SetPeriodLimit, Rewrite, WrittenBy
  <1>2. CASE ~(s = r /\ n = m)
    <2>1. period'[s][n] = period[s][n]  BY <1>2 DEF SetPeriodLimit, RulesTypeOK
    <2>2. unlockDelay'[s][n] = unlockDelay[s][n]  BY <1>2 DEF SetPeriodLimit, RulesTypeOK
    <2> QED BY <2>1, <2>2 DEF Rewrite, Untouched
  <1> QED BY <1>1, <1>2

LEMMA MeteringFate ==
    ASSUME RulesTypeOK, NEW r \in Scopes, NEW amount \in Nat, NEW skipped \in SUBSET Names,
           period' = [period EXCEPT ![r] =
               [n \in Names |-> IF n \in skipped THEN @[n] ELSE Metered(@[n], amount)]],
           unlockDelay' = unlockDelay, NEW s \in Scopes, NEW n \in Names
    PROVE  Fate(s, n)
  <1>1. CASE s = r /\ n \notin skipped
    <2>1. period'[s][n] = Metered(period[s][n], amount)  BY <1>1 DEF RulesTypeOK
    <2> QED BY <2>1 DEF Fate, Rewrite, MeteredBy
  <1>2. CASE ~(s = r /\ n \notin skipped)
    <2>1. period'[s][n] = period[s][n]  BY <1>2 DEF RulesTypeOK
    <2> QED BY <2>1 DEF Fate, Rewrite, Untouched
  <1> QED BY <1>1, <1>2

\* A call of an account or a vault rewrites rules; it does not meter.
LEMMA CallFate ==
    ASSUME RulesInv, NEW s \in Scopes, NEW n \in Names,
           \/ \E r \in Accounts : AccountStep(r)
           \/ \E r \in Scopes \ Accounts : VaultStep(r)
    PROVE  Rewrite(s, n)
  <1> USE DEF RulesInv
  <1>1. CASE UNCHANGED <<period, unlockDelay>>  BY <1>1 DEF Rewrite, Untouched
  <1>2. ASSUME NEW r \in Scopes \ CommunityScopes, ProposalStep(r)  PROVE Rewrite(s, n)
    BY <1>2, <1>1, ExecuteFate
       DEF ProposalStep, ProposeLimitChange, ProposeUnlockDelayChange, File, CancelLimitProposal
  <1>3. ASSUME NEW r \in Accounts, AccountStep(r)  PROVE Rewrite(s, n)
    <2>0. r \in Scopes \ CommunityScopes  BY RulesAssumption DEF Scopes, CommunityScopes
    <2>1. CASE \E m \in Names, limit \in Limits, duration \in Durations, delay \in Delays :
                  SetPeriodLimit(r, m, limit, duration, delay)
      BY <2>0, <2>1, SetPeriodLimitFate, RulesAssumption
    <2>2. CASE \E batch \in Batches : SetPeriodLimits(r, batch)
      BY <2>0, <2>2, WriteBatchFate DEF SetPeriodLimits
    <2>3. CASE \E batch \in Batches : CommitSetupWithPeriods(r, batch)
      BY <2>0, <2>3, WriteBatchFate DEF CommitSetupWithPeriods
    <2>4. CASE \E to \in Accounts : MigrateSpendingRules(r, to)
      BY <2>0, <2>4, MigrateFate DEF MigrateSpendingRules, Scopes
    <2>5. CASE ProposalStep(r)  BY <2>0, <2>5, <1>2
    <2>6. CASE CommitInitialSetup(r) \/ RecalculateTotalLockedValue(r)
      BY <2>6, <1>1 DEF CommitInitialSetup, RecalculateTotalLockedValue
    <2>7. CASE \E m \in Names : ProposeLimitRemoval(r, m)
      BY <2>7, <1>1 DEF ProposeLimitRemoval, File
    <2> QED BY <1>3, <2>1, <2>2, <2>3, <2>4, <2>5, <2>6, <2>7 DEF AccountStep, AccountKeyStep
  <1>4. ASSUME NEW r \in Scopes \ Accounts, VaultStep(r)  PROVE Rewrite(s, n)
    <2>1. CASE \E batch \in Batches, arePercentage \in BOOLEAN :
                  InstallRules(r, batch, arePercentage)
      BY <2>1, WriteBatchFate DEF InstallRules
    <2>2. CASE MayChangeRules(r) /\ ProposalStep(r)
      BY <2>2, <1>2, RulesAssumption DEF MayChangeRules
    <2>3. CASE r \in Founders /\ \E to \in Joiners : JoinRules(r, to)
      BY <2>3, MigrateFate DEF JoinRules, Scopes, CommunityScopes
    <2> QED BY <1>4, <2>1, <2>2, <2>3 DEF VaultStep
  <1> QED BY <1>3, <1>4

LEMMA StepFate ==
    ASSUME RulesInv, [RulesNext]_rulesVars, NEW s \in Scopes, NEW n \in Names
    PROVE  Fate(s, n)
  <1> USE DEF RulesInv
  <1>1. CASE UNCHANGED <<period, unlockDelay>>  BY <1>1 DEF Fate, Rewrite, Untouched
  <1>3. ASSUME NEW r \in Accounts, AccountStep(r)  PROVE Fate(s, n)
    BY <1>3, CallFate DEF Fate
  <1>4. ASSUME NEW r \in Scopes \ Accounts, VaultStep(r)  PROVE Fate(s, n)
    BY <1>4, CallFate DEF Fate
  <1>5. ASSUME NEW r \in Scopes, CustodianStep(r)  PROVE Fate(s, n)
    <2>1. CASE \E amount \in Amounts, balance \in Balances : Spend(r, amount, balance)
      <3>1. PICK amount \in Amounts, balance \in Balances : Spend(r, amount, balance)
        BY <2>1
      <3>2. amount \in Nat /\ unlockDelay' = unlockDelay
        BY <3>1, RulesAssumption DEF Spend
      <3> DEFINE skipped == {}
      <3>3. skipped \in SUBSET Names  OBVIOUS
      <3>4. period' = [period EXCEPT ![r] =
               [m \in Names |-> IF m \in skipped THEN @[m] ELSE Metered(@[m], amount)]]
        BY <3>1 DEF Spend, CheckAndSpend
      <3> HIDE DEF skipped
      <3> QED BY <3>2, <3>3, <3>4, MeteringFate
    <2>2. CASE \E amount \in Amounts, skip \in Names : SpendWithBypass(r, amount, skip)
      <3>1. PICK amount \in Amounts, skip \in Names : SpendWithBypass(r, amount, skip)
        BY <2>2
      <3>2. amount \in Nat /\ unlockDelay' = unlockDelay
        BY <3>1, RulesAssumption DEF SpendWithBypass
      <3> DEFINE skipped == {skip}
      <3>3. skipped \in SUBSET Names  OBVIOUS
      <3>4. period' = [period EXCEPT ![r] =
               [m \in Names |-> IF m \in skipped THEN @[m] ELSE Metered(@[m], amount)]]
        BY <3>1 DEF SpendWithBypass, UpdateSpendingWithBypass
      <3> HIDE DEF skipped
      <3> QED BY <3>2, <3>3, <3>4, MeteringFate
    <2> QED BY <1>5, <2>1, <2>2 DEF CustodianStep
  <1>6. CASE Tick  BY <1>6, <1>1 DEF Tick
  <1>7. CASE UNCHANGED rulesVars  BY <1>7, <1>1 DEF rulesVars
  <1> QED BY <1>3, <1>4, <1>5, <1>6, <1>7 DEF RulesNext

\* After lock-in a period's limit, window, activity and wait change only by a
\* proposal for it that has served its wait, and never in a community vault.
THEOREM LockedRulesProof == RulesSpec => LockedRulesChangeOnlyByProposal
  <1>1. ASSUME RulesInv, [RulesNext]_rulesVars  PROVE LockedRuleStep
    <2> SUFFICES ASSUME NEW s \in Scopes, NEW n \in Names,
                        committed[s], period[s][n].exists,
                        ~(Served(s, n) /\ s \notin CommunityScopes)
                 PROVE  /\ period'[s][n].limit = period[s][n].limit
                        /\ period'[s][n].duration = period[s][n].duration
                        /\ period'[s][n].active = period[s][n].active
                        /\ unlockDelay'[s][n] = unlockDelay[s][n]
      BY DEF LockedRuleStep
    <2>1. Untouched(s, n) \/ MeteredBy(s, n)
      BY <1>1, StepFate DEF Fate, Rewrite, WrittenBy, Rewritable, CopiedTo, ChangedByProposal
    <2>2. period[s][n] \in Period /\ now \in Nat  BY <1>1 DEF RulesInv, RulesTypeOK
    <2> QED BY <2>1, <2>2, MeteredType DEF Untouched, MeteredBy
  <1> QED BY <1>1, RulesInvariant, PTL DEF RulesSpec, LockedRulesChangeOnlyByProposal

\* What has been spent in a window is forgotten only when the window runs out.
THEOREM SpentProof == RulesSpec => SpentIsForgottenOnlyByTime
  <1>1. ASSUME RulesInv, [RulesNext]_rulesVars  PROVE SpentStep
    <2> SUFFICES ASSUME NEW s \in Scopes, NEW n \in Names, period[s][n].exists,
                        ~(now >= period[s][n].lastReset + period[s][n].duration)
                 PROVE  ~(period'[s][n].spent < period[s][n].spent)
      BY DEF SpentStep
    <2> DEFINE p == period[s][n]
    <2>1. p \in Period /\ now \in Nat  BY <1>1 DEF RulesInv, RulesTypeOK
    <2>2. CASE MeteredBy(s, n)
      <3>1. PICK amount \in Nat : period'[s][n] = Metered(p, amount)
        BY <2>2 DEF MeteredBy
      <3>2. Refreshed(p) = p  BY DEF Refreshed
      <3>3. Metered(p, amount).spent >= p.spent
        <4>1. CASE p.active
          <5>1. Metered(p, amount).spent = p.spent + amount
            BY <2>1, <3>2, <4>1 DEF Metered, Period
          <5> QED BY <2>1, <5>1 DEF Period
        <4>2. CASE ~p.active
          BY <2>1, <4>2 DEF Metered, Period
        <4> QED BY <4>1, <4>2
      <3>4. Metered(p, amount) \in Period  BY <2>1, MeteredType
      <3> QED BY <2>1, <3>1, <3>3, <3>4 DEF Period
    <2>3. CASE WrittenBy(s, n)
      <3>1. period'[s][n].spent = p.spent  BY <2>1, <2>3 DEF WrittenBy, Written, Period
      <3> QED BY <2>1, <3>1 DEF Period
    <2>4. CASE Untouched(s, n) \/ ChangedByProposal(s, n)
      BY <2>1, <2>4 DEF Untouched, ChangedByProposal, Period
    <2> QED BY <1>1, <2>2, <2>3, <2>4, StepFate DEF Fate, Rewrite, CopiedTo
  <1> QED BY <1>1, RulesInvariant, PTL DEF RulesSpec, SpentIsForgottenOnlyByTime

-----------------------------------------------------------------------------
(* Room.  The limit that refuses an amount belongs to an active period,    *)
(* which exists, so lock-in protects it.                                   *)

ActiveExists == \A s \in Scopes, n \in Names : period[s][n].active => period[s][n].exists

LEMMA ActiveStep ==
    ASSUME RulesInv, ActiveExists, [RulesNext]_rulesVars
    PROVE  ActiveExists'
  <1> SUFFICES ASSUME NEW s \in Scopes, NEW n \in Names, period'[s][n].active
               PROVE  period'[s][n].exists
    BY DEF ActiveExists
  <1>1. period[s][n] \in Period /\ now \in Nat  BY DEF RulesInv, RulesTypeOK
  <1>2. CASE Untouched(s, n)  BY <1>2 DEF Untouched, ActiveExists
  <1>3. CASE MeteredBy(s, n)  BY <1>1, <1>3, MeteredType DEF MeteredBy, ActiveExists
  <1>4. CASE WrittenBy(s, n)  BY <1>1, <1>4, WrittenType DEF WrittenBy
  <1>5. CASE CopiedTo(s, n)  BY <1>5 DEF CopiedTo, ActiveExists
  <1>6. CASE ChangedByProposal(s, n)  BY <1>6 DEF ChangedByProposal
  <1> QED BY <1>2, <1>3, <1>4, <1>5, <1>6, StepFate DEF Fate, Rewrite

LEMMA PercentageStep ==
    ASSUME RulesInv, [RulesNext]_rulesVars, NEW s \in Scopes, committed[s]
    PROVE  percentage'[s] = percentage[s]
  <1> USE DEF RulesInv, RulesTypeOK
  <1>1. CASE UNCHANGED percentage  BY <1>1
  <1>2. ASSUME NEW r \in Scopes, ProposalStep(r)  PROVE UNCHANGED percentage
    BY <1>2 DEF ProposalStep, ProposeLimitChange, ProposeUnlockDelayChange, File,
                ExecuteLimitProposal, CancelLimitProposal
  <1>3. ASSUME NEW r \in Accounts, AccountStep(r)  PROVE UNCHANGED percentage
    BY <1>2, <1>3 DEF AccountStep, AccountKeyStep, SetPeriodLimit, SetPeriodLimits, CommitSetupWithPeriods,
         CommitInitialSetup, ProposeLimitRemoval, File, RecalculateTotalLockedValue,
         MigrateSpendingRules, Scopes
  <1>4. ASSUME NEW r \in Scopes \ Accounts, VaultStep(r)
        PROVE  percentage'[s] = percentage[s]
    <2>1. CASE \E batch \in Batches, arePercentage \in BOOLEAN :
                  InstallRules(r, batch, arePercentage)
      BY <2>1 DEF InstallRules, Commit
    <2>2. CASE MayChangeRules(r) /\ ProposalStep(r)  BY <2>2, <1>1, <1>2
    <2>3. CASE r \in Founders /\ \E to \in Joiners : JoinRules(r, to)
      BY <2>3 DEF JoinRules, Commit
    <2> QED BY <1>4, <2>1, <2>2, <2>3 DEF VaultStep
  <1>5. ASSUME NEW r \in Scopes, CustodianStep(r)  PROVE UNCHANGED percentage
    BY <1>5 DEF CustodianStep, Spend, SpendWithBypass
  <1>6. CASE Tick  BY <1>6, <1>1 DEF Tick
  <1>7. CASE UNCHANGED rulesVars  BY <1>7, <1>1 DEF rulesVars
  <1> QED BY <1>1, <1>3, <1>4, <1>5, <1>6, <1>7 DEF RulesNext

\* Metering never lowers the counter the next call will see.
LEMMA MeteringKeepsSpent ==
    ASSUME NEW p \in Period, now \in Nat, NEW amount \in Nat, p.active
    PROVE  Refreshed(Metered(p, amount)).spent >= Refreshed(p).spent
  <1> DEFINE q == Refreshed(p)
             r == [q EXCEPT !.spent = @ + amount]
  <1>1. Metered(p, amount) = r  BY DEF Metered
  <1>2. q \in Period /\ q.duration = p.duration  BY RefreshedType
  <1>3. /\ r \in Period /\ r.spent = q.spent + amount
        /\ r.lastReset = q.lastReset /\ r.duration = q.duration
    BY <1>2 DEF Period
  <1>4. CASE now >= p.lastReset + p.duration
    <2>1. q.spent = 0  BY <1>4 DEF Refreshed, Period
    <2>2. Refreshed(r).spent \in Nat  BY <1>3, RefreshedType DEF Period
    <2> QED BY <1>1, <2>1, <2>2
  <1>5. CASE ~(now >= p.lastReset + p.duration)
    <2>1. q = p  BY <1>5 DEF Refreshed
    <2>2. Refreshed(r) = r  BY <1>3, <1>5, <2>1 DEF Refreshed
    <2> QED BY <1>1, <1>2, <1>3, <2>2 DEF Period
  <1> QED BY <1>4, <1>5

\* At a given moment what a locked-in scope admits grows only by a proposal
\* that has served its wait.
THEOREM RoomProof == RulesSpec => RoomNeverGrowsForFree
  <1>1. ASSUME RulesInv, ActiveExists, [RulesNext]_rulesVars  PROVE RoomStep
    <2> SUFFICES ASSUME NEW s \in Scopes, NEW amount \in Amounts, NEW balance \in Balances,
                        committed[s], now' = now, ~LimitsAdmit(s, amount, balance),
                        \A n \in Names : ~Served(s, n)
                 PROVE  ~LimitsAdmit(s, amount, balance)'
      BY DEF RoomStep
    <2>1. PICK n \in Names :
             /\ period[s][n].active
             /\ ~(Refreshed(period[s][n]).spent + amount
                     <= EffectiveLimit(s, period[s][n].limit, balance))
      BY DEF LimitsAdmit
    <2> DEFINE p == period[s][n]
               q == period'[s][n]
               cap == EffectiveLimit(s, p.limit, balance)
    <2>2. p \in Period /\ now \in Nat  BY <1>1 DEF RulesInv, RulesTypeOK
    <2>3. Untouched(s, n) \/ MeteredBy(s, n)
      <3>1. p.exists  BY <1>1, <2>1 DEF ActiveExists
      <3> QED BY <1>1, <3>1, StepFate
           DEF Fate, Rewrite, WrittenBy, Rewritable, CopiedTo, ChangedByProposal
    <2>4. q \in Period /\ q.active /\ q.limit = p.limit
      <3>1. CASE Untouched(s, n)  BY <2>1, <2>2, <3>1 DEF Untouched
      <3>2. CASE MeteredBy(s, n)
        <4>1. PICK spend \in Nat : q = Metered(p, spend)  BY <3>2 DEF MeteredBy
        <4>2. /\ Metered(p, spend) \in Period
              /\ Metered(p, spend).active = p.active
              /\ Metered(p, spend).limit = p.limit
          BY <2>2, MeteredType
        <4> QED BY <2>1, <4>1, <4>2
      <3> QED BY <2>3, <3>1, <3>2
    <2>5. Refreshed(q).spent >= Refreshed(p).spent
      <3>1. Refreshed(p) \in Period  BY <2>2, RefreshedType
      <3>2. CASE Untouched(s, n)  BY <3>1, <3>2 DEF Untouched, Period
      <3>3. CASE MeteredBy(s, n)
        <4>1. PICK spend \in Nat : q = Metered(p, spend)  BY <3>3 DEF MeteredBy
        <4>2. p.active  BY <2>1
        <4> HIDE DEF p, q
        <4> QED BY <2>2, <4>1, <4>2, MeteringKeepsSpent
      <3> QED BY <2>3, <3>2, <3>3
    <2>6. percentage'[s] = percentage[s]  BY <1>1, PercentageStep
    <2>7. EffectiveLimit(s, period[s][n].limit, balance)' = cap
      BY <2>4, <2>6 DEF EffectiveLimit
    <2>8. Refreshed(period[s][n])' = Refreshed(q)
      BY DEF Refreshed
    <2>9. ~(Refreshed(q).spent + amount <= cap)
      <3>1. cap \in Int
        <4>1. p.limit \in Nat /\ balance \in Nat  BY <2>2, RulesAssumption DEF Period
        <4>2. balance * p.limit \in Nat  BY <4>1
        <4> QED BY <4>1, <4>2, RulesAssumption DEF EffectiveLimit
      <3>2. Refreshed(p).spent \in Nat /\ Refreshed(q).spent \in Nat /\ amount \in Nat
        BY <2>2, <2>4, RefreshedType, RulesAssumption DEF Period
      <3> HIDE DEF cap, p, q
      <3> QED BY <2>1, <2>5, <3>1, <3>2 DEF p, cap
    <2> QED BY <2>4, <2>7, <2>8, <2>9 DEF LimitsAdmit
  <1>2. RulesInit => ActiveExists  BY DEF RulesInit, ActiveExists, AbsentPeriod
  <1>3. RulesInv /\ ActiveExists /\ [RulesNext]_rulesVars => ActiveExists'
    BY ActiveStep
  <1> QED BY <1>1, <1>2, <1>3, RulesInvariant, PTL DEF RulesSpec, RoomNeverGrowsForFree
-----------------------------------------------------------------------------
(* Recovery.                                                               *)

\* Lock-in is for good: a move of the rules overwrites it nowhere.
LEMMA LockInStays ==
    ASSUME RulesTypeOK, [RulesNext]_rulesVars, NEW s \in Scopes, committed[s]
    PROVE  committed'[s]
  <1>1. ASSUME NEW r \in Scopes, NEW rules, Commit(r, rules)  PROVE committed'[s]
    BY <1>1 DEF Commit, RulesTypeOK
  <1>2. ASSUME NEW from \in Scopes, NEW to \in Scopes, MigrateSetupTo(from, to)
        PROVE  committed'[s]
    BY <1>2 DEF MigrateSetupTo, RulesTypeOK
  <1>3. ASSUME NEW r \in Accounts, AccountStep(r)  PROVE committed'[s]
    <2>0. Accounts \subseteq Scopes
      BY DEF Scopes
    <2>1. CASE \E batch \in Batches : CommitSetupWithPeriods(r, batch)
      BY <1>1, <2>0, <2>1 DEF CommitSetupWithPeriods
    <2>2. CASE CommitInitialSetup(r)
      BY <1>1, <2>0, <2>2 DEF CommitInitialSetup
    <2>3. CASE \E to \in Accounts : MigrateSpendingRules(r, to)
      BY <1>2, <2>0, <2>3 DEF MigrateSpendingRules
    <2> QED BY <1>3, <2>1, <2>2, <2>3
         DEF AccountStep, AccountKeyStep, SetPeriodLimit, SetPeriodLimits,
             ProposeLimitRemoval, RecalculateTotalLockedValue, ProposalStep,
             ProposeLimitChange, ProposeUnlockDelayChange, File,
             ExecuteLimitProposal, CancelLimitProposal
  <1>4. ASSUME NEW r \in Scopes \ Accounts, VaultStep(r)  PROVE committed'[s]
    <2>0. Joiners \subseteq Scopes
      BY DEF Scopes, CommunityScopes
    <2>1. CASE \E batch \in Batches, arePercentage \in BOOLEAN :
                  InstallRules(r, batch, arePercentage)
      BY <1>1, <2>1 DEF InstallRules
    <2>2. CASE \E to \in Joiners : JoinRules(r, to)
      BY <1>1, <2>0, <2>2 DEF JoinRules
    <2>3. CASE ProposalStep(r)
      BY <2>3 DEF ProposalStep, ProposeLimitChange, ProposeUnlockDelayChange, File,
         ExecuteLimitProposal, CancelLimitProposal
    <2> QED BY <1>4, <2>1, <2>2, <2>3 DEF VaultStep
  <1>5. ASSUME NEW r \in Scopes, CustodianStep(r)  PROVE committed'[s]
    BY <1>5 DEF CustodianStep, Spend, SpendWithBypass
  <1> QED BY <1>3, <1>4, <1>5 DEF RulesNext, Tick, rulesVars

\* The limits of an account are amounts: only the rules of a vault may be
\* percentages.
AccountsHaveAmounts == \A s \in Accounts : percentage[s] = FALSE

LEMMA AmountsStep ==
    ASSUME RulesTypeOK, AccountsHaveAmounts, [RulesNext]_rulesVars
    PROVE  AccountsHaveAmounts'
  <1>1. CASE UNCHANGED percentage
    BY <1>1 DEF AccountsHaveAmounts
  <1>2. ASSUME NEW r \in Scopes \ Accounts, VaultStep(r)  PROVE AccountsHaveAmounts'
    <2>1. CASE \E batch \in Batches, arePercentage \in BOOLEAN :
                  InstallRules(r, batch, arePercentage)
      BY <2>1 DEF InstallRules, AccountsHaveAmounts, RulesTypeOK
    <2>2. CASE \E to \in Joiners : JoinRules(r, to)
      BY <2>2, RulesAssumption
         DEF JoinRules, AccountsHaveAmounts, RulesTypeOK, CommunityScopes
    <2>3. CASE ProposalStep(r)
      BY <1>1, <2>3 DEF ProposalStep, ProposeLimitChange, ProposeUnlockDelayChange, File,
         ExecuteLimitProposal, CancelLimitProposal
    <2> QED BY <1>2, <2>1, <2>2, <2>3 DEF VaultStep
  <1>3. ASSUME NEW r \in Accounts, AccountStep(r)  PROVE UNCHANGED percentage
    BY <1>3 DEF AccountStep, AccountKeyStep, SetPeriodLimit, SetPeriodLimits,
       CommitSetupWithPeriods, CommitInitialSetup, ProposeLimitRemoval,
       RecalculateTotalLockedValue, ProposalStep, ProposeLimitChange,
       ProposeUnlockDelayChange, File, ExecuteLimitProposal, CancelLimitProposal,
       MigrateSpendingRules
  <1>4. ASSUME NEW r \in Scopes, CustodianStep(r)  PROVE UNCHANGED percentage
    BY <1>4 DEF CustodianStep, Spend, SpendWithBypass
  <1> QED BY <1>1, <1>2, <1>3, <1>4 DEF RulesNext, Tick, rulesVars

\* What a recovery hands on: lock-in, windows with what they have counted, and
\* waits of their own, which every existing period has.
LEMMA HandedOn ==
    ASSUME RulesTypeOK, AccountsHaveAmounts, NEW s \in Accounts, NEW to \in Accounts,
           committed[s], MigrateSpendingRules(s, to)
    PROVE  /\ committed'[to]
           /\ \A amount \in Amounts, balance \in Balances :
                 LimitsAdmit(to, amount, balance)' => LimitsAdmit(s, amount, balance)
           /\ \A n \in Names :
                 period[s][n].exists => UnlockDelay(to, n)' >= UnlockDelay(s, n)
  <1>0. s \in Scopes /\ to \in Scopes
    BY DEF Scopes
  <1>1. committed'[to] /\ period'[to] = period[s]
    BY <1>0 DEF MigrateSpendingRules, MigratePeriodsTo, MigrateSetupTo, RulesTypeOK
  <1>2. ASSUME NEW amount \in Amounts, NEW balance \in Balances,
               LimitsAdmit(to, amount, balance)'
        PROVE  LimitsAdmit(s, amount, balance)
    <2>1. percentage'[to] = FALSE /\ percentage[s] = FALSE /\ now' = now
      BY DEF MigrateSpendingRules, AccountsHaveAmounts
    <2> QED BY <1>1, <1>2, <2>1 DEF LimitsAdmit, EffectiveLimit, Refreshed
  <1>3. ASSUME NEW n \in Names, period[s][n].exists
        PROVE  UnlockDelay(to, n)' >= UnlockDelay(s, n)
    <2>1. unlockDelay'[to][n] = unlockDelay[s][n]
      BY <1>0, <1>3 DEF MigrateSpendingRules, MigratePeriodsTo, RulesTypeOK
    <2>2. UnlockDelay(to, n)' = UnlockDelay(s, n)
      BY <2>1 DEF UnlockDelay
    <2>3. UnlockDelay(s, n) \in MinUnlockDelay .. MaxUnlockDelay
      BY <1>0, UnlockDelayBounds DEF RulesTypeOK
    <2> QED BY <2>2, <2>3, RulesAssumption
  <1> QED BY <1>1, <1>2, <1>3

\* Lock-in is for good, and a recovery hands the new address rules that admit
\* no more and wait no less than the old ones (migratePeriodsTo,
\* migrateSetupTo).
THEOREM LockInProof == RulesSpec => LockInSurvives
  <1>1. RulesInit => RulesTypeOK /\ AccountsHaveAmounts
    BY RulesAssumption DEF RulesInit, RulesTypeOK, AccountsHaveAmounts, AbsentPeriod, Period,
       Scopes
  <1>2. RulesTypeOK /\ AccountsHaveAmounts /\ [RulesNext]_rulesVars
        => RulesTypeOK' /\ AccountsHaveAmounts'
    BY RulesTypeStep, AmountsStep
  <1>3. RulesTypeOK /\ AccountsHaveAmounts /\ [RulesNext]_rulesVars
        => [\A s \in Scopes : committed[s] =>
              /\ committed'[s]
              /\ \A to \in Accounts : s \in Accounts /\ MigrateSpendingRules(s, to) =>
                    /\ committed'[to]
                    /\ \A amount \in Amounts, balance \in Balances :
                          LimitsAdmit(to, amount, balance)' => LimitsAdmit(s, amount, balance)
                    /\ \A n \in Names :
                          period[s][n].exists => UnlockDelay(to, n)' >= UnlockDelay(s, n)
           ]_rulesVars
    BY LockInStays, HandedOn
  <1> QED BY <1>1, <1>2, <1>3, PTL DEF RulesSpec, LockInSurvives

-----------------------------------------------------------------------------
(* How a row L of the ledger fits the period p it belongs to: the counter   *)
(* and the date of p are a meter of the row (SumTheorems).                 *)

Times == Moments(MaxTime)

RecordedIn(L, M, amount) == RecordedAt(L, M, MaxTime, now, amount)

LedgerFits(L, p) ==
    IF p.exists THEN MeterFits(L, MaxTime, now, p.lastReset, p.duration, p.spent)
                ELSE \A t \in Times : L[t] = 0

LimitFits(L, p) == p.active => CapFits(L, MaxTime, p.lastReset, p.duration, p.limit)

\* What the next call makes of a period it meters: the window it is in, or a
\* new one.
LEMMA MeteredWindow ==
    ASSUME NEW p \in Period, p.active, p.exists, NEW amount \in Nat, now \in Nat
    PROVE  LET q == Metered(p, amount)
           IN  \/ now < p.lastReset + p.duration /\ q.lastReset = p.lastReset
                                                /\ q.spent = p.spent + amount
               \/ now >= p.lastReset + p.duration /\ q.lastReset = now /\ q.spent = amount
  BY DEF Metered, Refreshed, Period

\* Metering keeps the fit, and the limit when the limits admit the amount.
LEMMA RecordedFits ==
    ASSUME NEW L \in [Times -> Nat], NEW p \in Period, p.active, p.exists, p.duration >= 1,
           now \in Times, p.lastReset <= now, NEW amount \in Nat, LedgerFits(L, p),
           NEW M, RecordedIn(L, M, amount)
    PROVE  /\ LedgerFits(M, Metered(p, amount))
           /\ LimitFits(L, p) /\ Refreshed(p).spent + amount <= p.limit
                 => LimitFits(M, Metered(p, amount))
  <1> DEFINE q == Metered(p, amount)
  <1>0. MaxTime \in Nat /\ now \in Moments(MaxTime) /\ L \in [Moments(MaxTime) -> Nat]
    BY RulesAssumption DEF Times
  <1>1. now \in Nat
    BY <1>0 DEF Moments
  <1>2. /\ p.lastReset \in Nat /\ p.duration \in Nat /\ p.spent \in Nat /\ p.limit \in Nat
        /\ q.active /\ q.exists /\ q.limit = p.limit /\ q.duration = p.duration
    BY <1>1, MeteredType DEF Period
  <1>3. \/ now < p.lastReset + p.duration /\ q.lastReset = p.lastReset
                                         /\ q.spent = p.spent + amount
        \/ now >= p.lastReset + p.duration /\ q.lastReset = now /\ q.spent = amount
    BY <1>1, MeteredWindow
  <1>4. MeterFits(L, MaxTime, now, p.lastReset, p.duration, p.spent)
        /\ RecordedAt(L, M, MaxTime, now, amount)
    BY DEF LedgerFits, RecordedIn
  <1>5. LedgerFits(M, q)
    <2> HIDE DEF q
    <2>1. MeterFits(M, MaxTime, now, q.lastReset, p.duration, q.spent)
      BY <1>0, <1>2, <1>3, <1>4, MeterKept
    <2> QED BY <1>2, <2>1 DEF LedgerFits
  <1>6. ASSUME LimitFits(L, p), Refreshed(p).spent + amount <= p.limit
        PROVE  LimitFits(M, q)
    <2>1. q.spent <= p.limit
      BY <1>1, <1>2, <1>6 DEF Metered, Refreshed, Period
    <2>2. CapFits(L, MaxTime, p.lastReset, p.duration, p.limit)
      BY <1>6 DEF LimitFits
    <2> HIDE DEF q
    <2>3. /\ now < p.lastReset + p.duration => /\ q.lastReset = p.lastReset
                                              /\ q.spent = p.spent + amount
          /\ now >= p.lastReset + p.duration => q.lastReset = now /\ q.spent = amount
      BY <1>1, <1>2, <1>3
    <2>4. CapFits(M, MaxTime, q.lastReset, p.duration, p.limit)
      <3>1. CASE now < p.lastReset + p.duration
        <4>1. q.lastReset = p.lastReset /\ q.spent = p.spent + amount
          BY <2>3, <3>1
        <4> QED BY ONLY <1>0, <1>2, <1>4, <2>1, <2>2, <3>1, <4>1, CapKept, p.lastReset <= now,
                        p.duration >= 1, amount \in Nat
      <3>2. CASE now >= p.lastReset + p.duration
        <4>1. q.lastReset = now /\ q.spent = amount
          BY <2>3, <3>2
        <4> QED BY ONLY <1>0, <1>2, <1>4, <2>1, <2>2, <3>2, <4>1, CapKept, p.lastReset <= now,
                        p.duration >= 1, amount \in Nat
      <3> QED BY <1>1, <1>2, <3>1, <3>2
    <2> QED BY <1>2, <2>4 DEF LimitFits
  <1> QED BY <1>5, <1>6

-----------------------------------------------------------------------------
(* The ledger through every step.                                          *)

\* While no proposal has run, a locked-in limit is the one the windows began
\* with.
Quiet == \A q \in Scopes : \A p \in proposal[q] : ~p.executed

Fits(s, n) ==
    /\ LedgerFits(ledger[s][n], period[s][n])
    /\ ~percentage[s] /\ Quiet => LimitFits(ledger[s][n], period[s][n])

PeriodsDated ==
    \A s \in Scopes, n \in Names :
        /\ period[s][n].lastReset <= now
        /\ period[s][n].exists => period[s][n].duration >= 1

WindowsInv ==
    /\ RulesInv /\ ActiveExists /\ AccountsHaveAmounts /\ PeriodsDated
    /\ now \in Times /\ ledger \in [Scopes -> [Names -> [Times -> Nat]]]
    /\ \A s \in Scopes, n \in Names : committed[s] => Fits(s, n)

\* With its ledger a scope makes the steps of the rules.
LEMMA WindowsAreRules ==
    ASSUME [WindowsNext]_windowsVars
    PROVE  [RulesNext]_rulesVars
  <1>1. ASSUME NEW s \in Scopes \ Accounts, VaultStep(s)  PROVE RulesNext
    BY <1>1 DEF RulesNext
  <1>2. ASSUME NEW s \in Accounts,
               AccountKeyStep(s) \/ \E to \in Accounts : MigrateSpendingRules(s, to)
        PROVE  RulesNext
    BY <1>2 DEF RulesNext, AccountStep
  <1>3. ASSUME NEW s \in Scopes,
               \/ \E amount \in Amounts, balance \in Balances : Spend(s, amount, balance)
               \/ \E amount \in Amounts, skip \in Names : SpendWithBypass(s, amount, skip)
        PROVE  RulesNext
    BY <1>3 DEF RulesNext, CustodianStep
  <1>4. CASE Tick  BY <1>4 DEF RulesNext
  <1>5. CASE UNCHANGED windowsVars  BY <1>5 DEF windowsVars
  <1> QED BY <1>1, <1>2, <1>3, <1>4, <1>5 DEF WindowsNext

\* The clock stands still but for its own step.
LEMMA ClockStep ==
    ASSUME RulesTypeOK, now \in Times, [RulesNext]_rulesVars
    PROVE  now' \in Times /\ now <= now' /\ (~Tick => now' = now)
  <1>1. now' = now => now' \in Times /\ now <= now'
    BY DEF RulesTypeOK
  <1>2. CASE Tick
    BY <1>2, RulesAssumption DEF Tick, Times, Moments
  <1>3. ASSUME NEW r \in Scopes, ProposalStep(r)  PROVE now' = now
    BY <1>3 DEF ProposalStep, ProposeLimitChange, ProposeUnlockDelayChange, File,
       ExecuteLimitProposal, CancelLimitProposal
  <1>4. ASSUME NEW r \in Accounts, AccountStep(r)  PROVE now' = now
    BY <1>3, <1>4 DEF AccountStep, AccountKeyStep, SetPeriodLimit, SetPeriodLimits,
       CommitSetupWithPeriods, CommitInitialSetup, ProposeLimitRemoval, File,
       RecalculateTotalLockedValue, MigrateSpendingRules, Scopes
  <1>5. ASSUME NEW r \in Scopes \ Accounts, VaultStep(r)  PROVE now' = now
    BY <1>3, <1>5 DEF VaultStep, InstallRules, JoinRules
  <1>6. ASSUME NEW r \in Scopes, CustodianStep(r)  PROVE now' = now
    BY <1>6 DEF CustodianStep, Spend, SpendWithBypass
  <1> QED BY <1>1, <1>2, <1>4, <1>5, <1>6 DEF RulesNext, rulesVars

\* An executed proposal stays on file.
LEMMA QuietBefore ==
    ASSUME RulesTypeOK, [RulesNext]_rulesVars, Quiet'
    PROVE  Quiet
  <1>1. CASE UNCHANGED proposal
    BY <1>1 DEF Quiet
  <1>2. ASSUME NEW r \in Scopes, NEW kind, NEW n, NEW value, NEW isIncrease,
               File(r, kind, n, value, isIncrease)
        PROVE  Quiet
    BY <1>2 DEF File, Quiet, RulesTypeOK
  <1>3. ASSUME NEW r \in Scopes, NEW p, CancelLimitProposal(r, p)  PROVE Quiet
    BY <1>3 DEF CancelLimitProposal, Quiet, RulesTypeOK
  <1>4. ASSUME NEW r \in Scopes, NEW p, ExecuteLimitProposal(r, p)  PROVE Quiet
    BY <1>4 DEF ExecuteLimitProposal, Quiet, RulesTypeOK
  <1>5. ASSUME NEW r \in Scopes, ProposalStep(r)  PROVE Quiet
    BY <1>2, <1>3, <1>4, <1>5 DEF ProposalStep, ProposeLimitChange, ProposeUnlockDelayChange
  <1>6. ASSUME NEW r \in Accounts, AccountStep(r)  PROVE Quiet
    BY <1>1, <1>2, <1>5, <1>6 DEF AccountStep, AccountKeyStep, SetPeriodLimit,
       SetPeriodLimits, CommitSetupWithPeriods, CommitInitialSetup, ProposeLimitRemoval,
       RecalculateTotalLockedValue, MigrateSpendingRules, Scopes
  <1>7. ASSUME NEW r \in Scopes \ Accounts, VaultStep(r)  PROVE Quiet
    BY <1>1, <1>5, <1>7 DEF VaultStep, InstallRules, JoinRules
  <1>8. ASSUME NEW r \in Scopes, CustodianStep(r)  PROVE Quiet
    BY <1>1, <1>8 DEF CustodianStep, Spend, SpendWithBypass
  <1> QED BY <1>1, <1>6, <1>7, <1>8 DEF RulesNext, Tick, rulesVars

\* A window never starts in the future, and no period that exists is empty.
LEMMA DatedStep ==
    ASSUME RulesInv, now \in Times, PeriodsDated, [RulesNext]_rulesVars
    PROVE  PeriodsDated'
  <1> SUFFICES ASSUME NEW s \in Scopes, NEW n \in Names
               PROVE  /\ period'[s][n].lastReset <= now'
                      /\ period'[s][n].exists => period'[s][n].duration >= 1
    BY DEF PeriodsDated
  <1> DEFINE p == period[s][n]
             q == period'[s][n]
  <1>1. /\ now \in Nat /\ now' \in Nat /\ now <= now'
        /\ p \in Period /\ p.lastReset \in Nat /\ p.lastReset <= now
        /\ p.exists => p.duration >= 1
    BY ClockStep, RulesAssumption DEF RulesInv, RulesTypeOK, PeriodsDated, Period, Times, Moments
  <1>2. CASE Untouched(s, n)
    BY <1>1, <1>2 DEF Untouched
  <1>3. CASE MeteredBy(s, n)
    <2>1. PICK amount \in Nat : q = Metered(p, amount)
      BY <1>3 DEF MeteredBy
    <2>2. q.exists = p.exists /\ q.duration = p.duration
      <3>1. /\ Metered(p, amount).exists = p.exists
            /\ Metered(p, amount).duration = p.duration
        <4> HIDE DEF p
        <4> QED BY <1>1, MeteredType
      <3> QED BY <2>1, <3>1
    <2>3. q.lastReset \in {p.lastReset, now}
      BY <1>1, <2>1 DEF Metered, Refreshed, Period
    <2> QED BY <1>1, <2>2, <2>3
  <1>4. CASE WrittenBy(s, n)
    <2>1. PICK limit, duration \in Nat :
             duration >= MinPeriodDuration /\ q = Written(p, limit, duration)
      BY <1>4 DEF WrittenBy
    <2>2. q.duration = duration /\ q.lastReset \in {p.lastReset, now}
      BY <1>1, <2>1 DEF Written, Period
    <2> QED BY <1>1, <2>1, <2>2, RulesAssumption
  <1>5. CASE CopiedTo(s, n)
    <2>1. PICK r \in Scopes : q = period[r][n]
      BY <1>5 DEF CopiedTo
    <2>2. /\ period[r][n].lastReset <= now /\ period[r][n].lastReset \in Nat
          /\ period[r][n].exists => period[r][n].duration >= 1
      BY DEF PeriodsDated, RulesInv, RulesTypeOK, Period
    <2> QED BY <1>1, <2>1, <2>2
  <1>6. CASE ChangedByProposal(s, n)
    BY <1>1, <1>6 DEF ChangedByProposal
  <1> QED BY <1>2, <1>3, <1>4, <1>5, <1>6, StepFate DEF Fate, Rewrite

\* The ledger keeps its type.
LEMMA LedgerType ==
    ASSUME WindowsInv, [WindowsNext]_windowsVars
    PROVE  ledger' \in [Scopes -> [Names -> [Times -> Nat]]]
  <1> USE DEF WindowsInv
  <1>1. Blank \in [Names -> [Times -> Nat]]
    BY DEF Blank, Times, Moments
  <1>2. CASE Opened
    BY <1>1, <1>2 DEF Opened
  <1>3. ASSUME NEW s \in Scopes, NEW amount \in Amounts, NEW skipped, Recorded(s, amount, skipped)
        PROVE  ledger' \in [Scopes -> [Names -> [Times -> Nat]]]
    <2>1. amount \in Nat
      BY RulesAssumption
    <2>2. \A n \in Names : [ledger[s][n] EXCEPT ![now] = @ + amount] \in [Times -> Nat]
      BY <2>1
    <2> QED BY <1>3, <2>2 DEF Recorded
  <1>4. ASSUME NEW s \in Accounts, NEW to \in Accounts,
               ledger' = [ledger EXCEPT ![to] = ledger[s]]
        PROVE  ledger' \in [Scopes -> [Names -> [Times -> Nat]]]
    BY <1>4 DEF Scopes
  <1> QED BY <1>2, <1>3, <1>4 DEF WindowsNext, windowsVars

\* A blank row fits whatever the period has become.
LEMMA BlankFits ==
    ASSUME NEW s \in Scopes, NEW n \in Names, period'[s][n] \in Period,
           \A t \in Times : ledger'[s][n][t] = 0
    PROVE  Fits(s, n)'
  <1> DEFINE L == ledger'[s][n]
             p == period'[s][n]
  <1>1. MaxTime \in Nat /\ p.spent \in Nat /\ p.limit \in Nat
    BY RulesAssumption DEF Period
  <1>2. \A t \in Moments(MaxTime) : L[t] = 0
    BY DEF Times
  <1>3. /\ MeterFits(L, MaxTime, now', p.lastReset, p.duration, p.spent)
        /\ CapFits(L, MaxTime, p.lastReset, p.duration, p.limit)
    <2> HIDE DEF L, p
    <2> QED BY <1>1, <1>2, EmptyRowFits
  <1>4. LedgerFits(ledger[s][n], period[s][n])' /\ LimitFits(ledger[s][n], period[s][n])'
    BY <1>3 DEF LedgerFits, LimitFits
  <1> QED BY <1>4 DEF Fits

\* A row and a period that are both left alone go on fitting; a proposal may
\* change the limit, but then it has run.
LEMMA KeptFits ==
    ASSUME WindowsInv, [RulesNext]_rulesVars, NEW s \in Scopes, NEW n \in Names,
           committed[s], ledger'[s][n] = ledger[s][n],
           Untouched(s, n) \/ ChangedByProposal(s, n)
    PROVE  Fits(s, n)'
  <1> DEFINE L == ledger[s][n]
             p == period[s][n]
             q == period'[s][n]
  <1>0. /\ now \in Nat /\ now' \in Nat /\ now <= now'
        /\ Quiet' => Quiet
        /\ percentage'[s] = percentage[s]
        /\ L \in [Times -> Nat]
    BY ClockStep, QuietBefore, PercentageStep, RulesAssumption
       DEF WindowsInv, RulesInv, RulesTypeOK, Times, Moments
  <1>1. /\ q.exists = p.exists /\ q.lastReset = p.lastReset /\ q.duration = p.duration
        /\ q.spent = p.spent /\ (Quiet' => q = p)
    BY DEF Untouched, ChangedByProposal, Quiet
  <1>2. Fits(s, n)
    BY DEF WindowsInv
  <1>3. LedgerFits(ledger[s][n], period[s][n])'
    <2>1. \A t \in Moments(MaxTime) : t <= now => t <= now'
      BY <1>0, RulesAssumption DEF Moments
    <2> QED BY <1>0, <1>1, <1>2, <2>1 DEF Fits, LedgerFits, MeterFits
  <1>4. ~percentage'[s] /\ Quiet' => LimitFits(ledger[s][n], period[s][n])'
    BY <1>0, <1>1, <1>2 DEF Fits, LimitFits
  <1> QED BY <1>3, <1>4 DEF Fits

\* Metering and recording go together.
LEMMA MeteredFits ==
    ASSUME WindowsInv, NEW s \in Scopes, NEW n \in Names, committed[s],
           UNCHANGED <<now, percentage, proposal>>, NEW amount \in Nat,
           period[s][n].active, period'[s][n] = Metered(period[s][n], amount),
           RecordedIn(ledger[s][n], ledger'[s][n], amount),
           ~percentage[s] => Refreshed(period[s][n]).spent + amount <= period[s][n].limit
    PROVE  Fits(s, n)'
  <1> DEFINE L == ledger[s][n]
             M == ledger'[s][n]
             p == period[s][n]
  <1>1. /\ L \in [Times -> Nat] /\ p \in Period /\ p.active /\ p.exists /\ p.duration >= 1
        /\ now \in Times /\ p.lastReset <= now /\ Fits(s, n)
    BY DEF WindowsInv, RulesInv, RulesTypeOK, ActiveExists, PeriodsDated
  <1>2. LedgerFits(L, p) /\ RecordedIn(L, M, amount)
    BY <1>1 DEF Fits
  <1>3. LedgerFits(M, Metered(p, amount))
    <2> HIDE DEF L, M, p
    <2> QED BY <1>1, <1>2, RecordedFits
  <1>4. LedgerFits(ledger[s][n], period[s][n])'
    BY <1>3 DEF LedgerFits
  <1>5. ASSUME ~percentage'[s], Quiet'
        PROVE  LimitFits(ledger[s][n], period[s][n])'
    <2>1. Refreshed(p).spent + amount <= p.limit /\ LimitFits(L, p)
      BY <1>1, <1>5 DEF Fits, Quiet
    <2>2. LimitFits(M, Metered(p, amount))
      <3> HIDE DEF L, M, p
      <3> QED BY <1>1, <1>2, <2>1, RecordedFits
    <2> QED BY <2>2 DEF LimitFits
  <1> QED BY <1>4, <1>5 DEF Fits

\* A call opens a blank ledger with lock-in; after it, it can add a period,
\* which has nothing in the ledger, or run a proposal.
LEMMA CallFits ==
    ASSUME WindowsInv, [RulesNext]_rulesVars, Opened,
           \/ \E r \in Accounts : AccountStep(r)
           \/ \E r \in Scopes \ Accounts : VaultStep(r),
           NEW s \in Scopes, NEW n \in Names, committed'[s]
    PROVE  Fits(s, n)'
  <1>1. period'[s][n] \in Period /\ committed' \in [Scopes -> BOOLEAN]
    BY RulesTypeStep DEF WindowsInv, RulesInv, RulesTypeOK
  <1>2. CASE ~committed[s]
    <2>1. ledger'[s] = Blank
      BY <1>2 DEF Opened
    <2>2. \A t \in Times : ledger'[s][n][t] = 0
      BY <2>1 DEF Blank, Times, Moments
    <2> QED BY <1>1, <2>2, BlankFits
  <1>3. CASE committed[s]
    <2>1. committed'[s] = committed[s]
      BY <1>1, <1>3, LockInStays DEF WindowsInv, RulesInv, RulesTypeOK
    <2>2. ledger'[s][n] = ledger[s][n]
      BY <2>1 DEF Opened
    <2>3. CASE Untouched(s, n) \/ ChangedByProposal(s, n)
      BY <1>3, <2>2, <2>3, KeptFits
    <2>4. CASE ~period[s][n].exists
      <3>1. LedgerFits(ledger[s][n], period[s][n]) /\ ledger[s][n] \in [Times -> Nat]
        BY <1>3 DEF WindowsInv, Fits
      <3>2. \A t \in Times : ledger[s][n][t] = 0
        BY <2>4, <3>1 DEF LedgerFits
      <3> QED BY <1>1, <2>2, <3>2, BlankFits
    <2>5. Rewrite(s, n)
      BY CallFate DEF WindowsInv
    <2> QED BY <1>3, <2>3, <2>4, <2>5 DEF Rewrite, WrittenBy, Rewritable, CopiedTo
  <1> QED BY <1>2, <1>3

\* The ledger that goes with recovered rules fits them at their new address.
LEMMA HandedFits ==
    ASSUME WindowsInv, NEW r \in Accounts, NEW to \in Accounts,
           MigrateSpendingRules(r, to), ledger' = [ledger EXCEPT ![to] = ledger[r]],
           [RulesNext]_rulesVars, NEW s \in Scopes, NEW n \in Names, committed'[s]
    PROVE  Fits(s, n)'
  <1>0. r \in Scopes /\ to \in Scopes
    BY DEF Scopes
  <1>1. CASE s = to
    <2>1. /\ committed[r] /\ period'[s][n] = period[r][n] /\ ledger'[s][n] = ledger[r][n]
          /\ now' = now /\ proposal' = proposal /\ percentage'[s] = percentage[r]
      BY <1>0, <1>1 DEF MigrateSpendingRules, MigratePeriodsTo, MigrateSetupTo,
         WindowsInv, RulesInv, RulesTypeOK, AccountsHaveAmounts
    <2>2. Fits(r, n)
      BY <1>0, <2>1 DEF WindowsInv
    <2> QED BY <2>1, <2>2 DEF Fits, LedgerFits, LimitFits, Quiet
  <1>2. CASE s # to
    <2>1. /\ committed[s] /\ period'[s][n] = period[s][n] /\ ledger'[s][n] = ledger[s][n]
          /\ unlockDelay'[s][n] = unlockDelay[s][n]
      BY <1>0, <1>2 DEF MigrateSpendingRules, MigratePeriodsTo, MigrateSetupTo,
         WindowsInv, RulesInv, RulesTypeOK
    <2> QED BY <2>1, KeptFits DEF Untouched
  <1> QED BY <1>1, <1>2

\* What a custodian meters is recorded, in the windows it does not skip.
LEMMA RecordingFits ==
    ASSUME WindowsInv, [RulesNext]_rulesVars,
           NEW r \in Scopes, NEW amount \in Amounts, NEW skipped \in SUBSET Names,
           Recorded(r, amount, skipped),
           period' = [period EXCEPT ![r] =
               [m \in Names |-> IF m \in skipped THEN @[m] ELSE Metered(@[m], amount)]],
           UNCHANGED <<now, unlockDelay, percentage, committed, proposal>>,
           \A m \in Names \ skipped : period[r][m].active /\ ~percentage[r] =>
               Refreshed(period[r][m]).spent + amount <= period[r][m].limit,
           NEW s \in Scopes, NEW n \in Names, committed'[s]
    PROVE  Fits(s, n)'
  <1>0. /\ committed[s] /\ amount \in Nat /\ now \in Times
        /\ ledger[s][n] \in [Times -> Nat]
    BY RulesAssumption DEF WindowsInv
  <1>1. CASE s = r /\ n \notin skipped /\ period[s][n].active
    <2>1. period'[s][n] = Metered(period[s][n], amount)
      BY <1>1 DEF WindowsInv, RulesInv, RulesTypeOK
    <2>2. ledger'[s][n] = [ledger[s][n] EXCEPT ![now] = @ + amount]
      BY <1>1 DEF Recorded, WindowsInv
    <2>3. RecordedIn(ledger[s][n], ledger'[s][n], amount)
      BY <1>0, <2>2, RecordedByUpdate DEF RecordedIn, Times
    <2> QED BY <1>0, <1>1, <2>1, <2>3, MeteredFits
  <1>2. CASE ~(s = r /\ n \notin skipped /\ period[s][n].active)
    <2>1. period'[s][n] = period[s][n]
      BY <1>2 DEF Metered, WindowsInv, RulesInv, RulesTypeOK
    <2>2. ledger'[s][n] = ledger[s][n]
      BY <1>2 DEF Recorded, WindowsInv
    <2> QED BY <1>0, <2>1, <2>2, KeptFits DEF Untouched
  <1> QED BY <1>1, <1>2

LEMMA FitsStep ==
    ASSUME WindowsInv, [WindowsNext]_windowsVars, NEW s \in Scopes, NEW n \in Names,
           committed'[s]
    PROVE  Fits(s, n)'
  <1>0. [RulesNext]_rulesVars
    BY WindowsAreRules
  <1>1. CASE UNCHANGED <<period, unlockDelay, committed, ledger>>
    BY <1>0, <1>1, KeptFits DEF Untouched
  <1>2. ASSUME NEW r \in Accounts, AccountKeyStep(r), Opened  PROVE Fits(s, n)'
    BY <1>0, <1>2, CallFits DEF AccountStep
  <1>3. ASSUME NEW r \in Scopes \ Accounts, VaultStep(r), Opened  PROVE Fits(s, n)'
    BY <1>0, <1>3, CallFits
  <1>4. ASSUME NEW r \in Accounts, NEW to \in Accounts, MigrateSpendingRules(r, to),
               ledger' = [ledger EXCEPT ![to] = ledger[r]]
        PROVE  Fits(s, n)'
    BY <1>0, <1>4, HandedFits
  <1>5. ASSUME NEW r \in Scopes, NEW amount \in Amounts, NEW balance \in Balances,
               Spend(r, amount, balance), Recorded(r, amount, {})
        PROVE  Fits(s, n)'
    <2> DEFINE skipped == {}
    <2>1. /\ skipped \in SUBSET Names /\ Recorded(r, amount, skipped)
          /\ period' = [period EXCEPT ![r] =
               [m \in Names |-> IF m \in skipped THEN @[m] ELSE Metered(@[m], amount)]]
          /\ UNCHANGED <<now, unlockDelay, percentage, committed, proposal>>
          /\ \A m \in Names \ skipped : period[r][m].active /\ ~percentage[r] =>
               Refreshed(period[r][m]).spent + amount <= period[r][m].limit
      BY <1>5 DEF Spend, CheckAndSpend, LimitsAdmit, EffectiveLimit
    <2> HIDE DEF skipped
    <2> QED BY <1>0, <2>1, RecordingFits
  <1>6. ASSUME NEW r \in Scopes, NEW amount \in Amounts, NEW skip \in Names,
               SpendWithBypass(r, amount, skip), Recorded(r, amount, {skip})
        PROVE  Fits(s, n)'
    <2> DEFINE skipped == {skip}
    <2>1. /\ skipped \in SUBSET Names /\ Recorded(r, amount, skipped)
          /\ period' = [period EXCEPT ![r] =
               [m \in Names |-> IF m \in skipped THEN @[m] ELSE Metered(@[m], amount)]]
          /\ UNCHANGED <<now, unlockDelay, percentage, committed, proposal>>
          /\ \A m \in Names \ skipped : period[r][m].active /\ ~percentage[r] =>
               Refreshed(period[r][m]).spent + amount <= period[r][m].limit
      BY <1>6 DEF SpendWithBypass, UpdateSpendingWithBypass, CheckLimitsWithBypass
    <2> HIDE DEF skipped
    <2> QED BY <1>0, <2>1, RecordingFits
  <1> QED BY <1>1, <1>2, <1>3, <1>4, <1>5, <1>6
       DEF WindowsNext, Tick, windowsVars, rulesVars

LEMMA WindowsInvariant == WindowsSpec => []WindowsInv
  <1>1. WindowsInit => WindowsInv
    <2> SUFFICES ASSUME WindowsInit PROVE WindowsInv
      OBVIOUS
    <2>1. RulesInv /\ AccountsHaveAmounts
      BY RulesAssumption DEF WindowsInit, RulesInit, RulesInv, RulesTypeOK, WaitsAreServed,
         AccountsHaveAmounts, AbsentPeriod, Period, Scopes
    <2>2. ActiveExists /\ PeriodsDated /\ \A s \in Scopes : ~committed[s]
      BY DEF WindowsInit, RulesInit, ActiveExists, PeriodsDated, AbsentPeriod
    <2>3. now \in Times /\ ledger \in [Scopes -> [Names -> [Times -> Nat]]]
      BY RulesAssumption DEF WindowsInit, RulesInit, Blank, Times, Moments
    <2> QED BY <2>1, <2>2, <2>3 DEF WindowsInv
  <1>2. ASSUME WindowsInv, [WindowsNext]_windowsVars  PROVE WindowsInv'
    <2>1. [RulesNext]_rulesVars
      BY <1>2, WindowsAreRules
    <2>2. RulesInv' /\ ActiveExists' /\ AccountsHaveAmounts'
      BY <1>2, <2>1, RulesTypeStep, WaitsStep, ActiveStep, AmountsStep
         DEF WindowsInv, RulesInv
    <2>3. PeriodsDated' /\ now' \in Times
      BY <1>2, <2>1, DatedStep, ClockStep DEF WindowsInv, RulesInv
    <2>4. ledger' \in [Scopes -> [Names -> [Times -> Nat]]]
      BY <1>2, LedgerType
    <2>5. \A s \in Scopes, n \in Names : committed'[s] => Fits(s, n)'
      BY <1>2, FitsStep
    <2> QED BY <2>2, <2>3, <2>4, <2>5 DEF WindowsInv
  <1> QED BY <1>1, <1>2, PTL DEF WindowsSpec

LEMMA SeenIsOver == \A s, n, times : Seen(s, n, times) = Over(ledger[s][n], MaxTime, times)
  BY DEF Seen, Over, Moments

\* The one counter and the one date that the contract keeps stand for all that
\* was metered in the running window (_checkAndSpend, updateSpendingWithBypass,
\* migratePeriodsTo).
THEOREM CounterProof == WindowsSpec => []CounterHoldsTheWindow
  <1>1. WindowsInv => CounterHoldsTheWindow
    BY SeenIsOver DEF WindowsInv, Fits, LedgerFits, MeterFits, CounterHoldsTheWindow
  <1> QED BY <1>1, WindowsInvariant, PTL

\* And they are enough: no stretch as long as a window sees more than two
\* limits, through restarts, bypasses and recoveries.
THEOREM StretchProof == WindowsSpec => []NoStretchSeesThreeLimits
  <1>1. WindowsInv => NoStretchSeesThreeLimits
    BY SeenIsOver
       DEF WindowsInv, Fits, LimitFits, CapFits, Quiet, NoStretchSeesThreeLimits, Moments
  <1> QED BY <1>1, WindowsInvariant, PTL

-----------------------------------------------------------------------------
(* The terms of a community vault.  A community scope is written twice at  *)
(* most, by the call that locks it in: its creator's, or its own joining.  *)

\* Nothing but the counters of c changes.
SameTerms(c) ==
    /\ percentage'[c] = percentage[c]
    /\ committed'[c] = committed[c]
    /\ \A n \in Names : /\ period'[c][n].exists = period[c][n].exists
                        /\ period'[c][n].active = period[c][n].active
                        /\ period'[c][n].limit = period[c][n].limit
                        /\ period'[c][n].duration = period[c][n].duration
                        /\ unlockDelay'[c][n] = unlockDelay[c][n]

\* The creator's call fixes the terms of a scope that is no joiner's.
FixedBy(c) == /\ c \in Founders
              /\ \E batch \in Batches, arePercentage \in BOOLEAN :
                    InstallRules(c, batch, arePercentage)

JoinedBy(c) == c \in Joiners /\ \E f \in Founders : JoinRules(f, c)

LEMMA CommunityFate ==
    ASSUME RulesTypeOK, [RulesNext]_rulesVars, NEW c \in CommunityScopes
    PROVE  SameTerms(c) \/ FixedBy(c) \/ JoinedBy(c)
  <1>0. c \in Scopes /\ c \notin Accounts /\ c \notin PersonalScopes
    BY RulesAssumption DEF Scopes
  <1>1. CASE UNCHANGED <<period, unlockDelay, percentage, committed>>
    BY <1>1 DEF SameTerms
  <1>2. ASSUME NEW r \in Scopes, r # c,
               /\ \E x : period' = [period EXCEPT ![r] = x]
               /\ \E x : unlockDelay' = [unlockDelay EXCEPT ![r] = x]
               /\ \E x : percentage' = [percentage EXCEPT ![r] = x]
               /\ \E x : committed' = [committed EXCEPT ![r] = x]
        PROVE  SameTerms(c)
    BY <1>0, <1>2 DEF SameTerms, RulesTypeOK
  <1>3. ASSUME NEW r \in Scopes, NEW to \in Scopes, r # c, to # c,
               \/ AccountKeyStep(r) \/ MigrateSpendingRules(r, to)
        PROVE  SameTerms(c)
    <2>1. period'[c] = period[c] /\ unlockDelay'[c] = unlockDelay[c]
          /\ percentage'[c] = percentage[c] /\ committed'[c] = committed[c]
      <3>1. CASE AccountKeyStep(r)
        <4>1. CASE \E n \in Names, limit \in Limits, duration \in Durations, delay \in Delays :
                      SetPeriodLimit(r, n, limit, duration, delay)
          BY <1>0, <1>3, <4>1 DEF SetPeriodLimit, RulesTypeOK
        <4>2. CASE ProposalStep(r)
          BY <1>0, <1>3, <4>2 DEF ProposalStep, ProposeLimitChange,
             ProposeUnlockDelayChange, File, ExecuteLimitProposal, CancelLimitProposal,
             RulesTypeOK
        <4>3. CASE \E batch \in Batches :
                      SetPeriodLimits(r, batch) \/ CommitSetupWithPeriods(r, batch)
          BY <1>0, <1>3, <4>3 DEF SetPeriodLimits, CommitSetupWithPeriods, WriteBatch,
             Commit, RulesTypeOK
        <4> QED BY <1>0, <1>3, <3>1, <4>1, <4>2, <4>3 DEF AccountKeyStep,
               CommitInitialSetup, Commit, ProposeLimitRemoval, File,
               RecalculateTotalLockedValue, RulesTypeOK
      <3>2. CASE MigrateSpendingRules(r, to)
        BY <1>0, <1>3, <3>2 DEF MigrateSpendingRules, MigratePeriodsTo, MigrateSetupTo,
           RulesTypeOK
      <3> QED BY <1>3, <3>1, <3>2
    <2> QED BY <2>1 DEF SameTerms
  <1>4. ASSUME NEW r \in Accounts, AccountStep(r)  PROVE SameTerms(c)
    BY <1>0, <1>3, <1>4 DEF AccountStep, Scopes
  <1>5. ASSUME NEW r \in Scopes \ Accounts, VaultStep(r)
        PROVE  SameTerms(c) \/ FixedBy(c) \/ JoinedBy(c)
    <2>1. ASSUME r \notin Joiners, NEW batch \in Batches, NEW arePercentage \in BOOLEAN,
                 InstallRules(r, batch, arePercentage)
          PROVE  SameTerms(c) \/ FixedBy(c)
      <3>1. CASE r = c
        BY <2>1, <3>1 DEF FixedBy, CommunityScopes
      <3>2. CASE r # c
        BY <1>2, <2>1, <3>2 DEF InstallRules, WriteBatch, Commit
      <3> QED BY <3>1, <3>2
    <2>2. CASE MayChangeRules(r) /\ ProposalStep(r)
      BY <1>0, <1>3, <2>2 DEF MayChangeRules, AccountKeyStep
    <2>3. ASSUME r \in Founders, NEW to \in Joiners, JoinRules(r, to)
          PROVE  SameTerms(c) \/ JoinedBy(c)
      <3>1. CASE to = c
        BY <2>3, <3>1 DEF JoinedBy
      <3>2. CASE to # c
        BY <1>2, <2>3, <3>2 DEF JoinRules, MigratePeriodsTo, Commit, Scopes, CommunityScopes
      <3> QED BY <3>1, <3>2
    <2> QED BY <1>5, <2>1, <2>2, <2>3 DEF VaultStep
  <1>6. ASSUME NEW r \in Scopes, CustodianStep(r)  PROVE SameTerms(c)
    <2>1. UNCHANGED <<unlockDelay, percentage, committed>>
      BY <1>6 DEF CustodianStep, Spend, SpendWithBypass
    <2>2. ASSUME NEW n \in Names
          PROVE  /\ period'[c][n].exists = period[c][n].exists
                 /\ period'[c][n].active = period[c][n].active
                 /\ period'[c][n].limit = period[c][n].limit
                 /\ period'[c][n].duration = period[c][n].duration
      <3>1. period'[c][n] = period[c][n]
            \/ \E amount \in Nat : period'[c][n] = Metered(period[c][n], amount)
        <4>1. ASSUME NEW amount \in Amounts, NEW balance \in Balances,
                     Spend(r, amount, balance)
              PROVE  period'[c][n] \in {period[c][n], Metered(period[c][n], amount)}
          BY <1>0, <4>1 DEF Spend, CheckAndSpend, RulesTypeOK
        <4>2. ASSUME NEW amount \in Amounts, NEW skip \in Names,
                     SpendWithBypass(r, amount, skip)
              PROVE  period'[c][n] \in {period[c][n], Metered(period[c][n], amount)}
          BY <1>0, <4>2 DEF SpendWithBypass, UpdateSpendingWithBypass, RulesTypeOK
        <4> QED BY <1>6, <4>1, <4>2, RulesAssumption DEF CustodianStep
      <3>2. period[c][n] \in Period /\ now \in Nat  BY <1>0 DEF RulesTypeOK
      <3> QED BY <3>1, <3>2, MeteredType
    <2> QED BY <2>1, <2>2 DEF SameTerms
  <1>7. CASE Tick  BY <1>1, <1>7 DEF Tick
  <1>8. CASE UNCHANGED rulesVars  BY <1>1, <1>8 DEF rulesVars
  <1> QED BY <1>4, <1>5, <1>6, <1>7, <1>8 DEF RulesNext

\* A wait of its own is only ever set on a period that exists, so that the
\* waits of the names nobody used agree as well.
TermsInv ==
    /\ RulesTypeOK
    /\ \A c \in CommunityScopes, n \in Names :
          ~period[c][n].exists => unlockDelay[c][n] = 0
    /\ MembersShareTheTerms

\* Writing a batch sets the waits of the periods it makes exist.
LEMMA BatchSetsWaits ==
    ASSUME RulesTypeOK, NEW c \in Scopes, NEW batch \in Batches, WriteBatch(c, batch),
           NEW n \in Names, ~period'[c][n].exists
    PROVE  ~period[c][n].exists /\ unlockDelay'[c][n] = unlockDelay[c][n]
  <1>1. period[c][n] \in Period /\ now \in Nat  BY DEF RulesTypeOK
  <1>2. period'[c][n] = IF n \in DOMAIN batch
                        THEN Written(period[c][n], batch[n].limit, batch[n].duration)
                        ELSE period[c][n]
    BY DEF WriteBatch, RulesTypeOK
  <1>3. n \notin DOMAIN batch  BY <1>1, <1>2, WrittenType, BatchType
  <1> QED BY <1>2, <1>3 DEF WriteBatch, RulesTypeOK

\* Joining copies every term, and locks the joiner in.
LEMMA JoiningCopies ==
    ASSUME RulesTypeOK, NEW f \in Founders, NEW j \in Joiners, JoinRules(f, j),
           \A c \in CommunityScopes, n \in Names :
              ~period[c][n].exists => unlockDelay[c][n] = 0
    PROVE  /\ committed[f] /\ committed'[f] /\ ~committed[j]
           /\ percentage'[j] = percentage'[f]
           /\ \A n \in Names : /\ period'[j][n] = period'[f][n]
                               /\ unlockDelay'[j][n] = unlockDelay'[f][n]
  <1>1. f \in CommunityScopes /\ j \in CommunityScopes /\ f # j
        /\ f \in Scopes /\ j \in Scopes
    BY RulesAssumption DEF Scopes, CommunityScopes
  <1>2. /\ committed[f] /\ committed'[f] /\ ~committed[j]
        /\ percentage'[j] = percentage'[f]
    BY <1>1 DEF JoinRules, Commit, RulesTypeOK
  <1>3. ASSUME NEW n \in Names
        PROVE  period'[j][n] = period'[f][n] /\ unlockDelay'[j][n] = unlockDelay'[f][n]
    <2>1. period'[j][n] = period'[f][n] /\ ~period[j][n].exists
      BY <1>1 DEF JoinRules, MigratePeriodsTo, RulesTypeOK
    <2>2. /\ unlockDelay'[f][n] = unlockDelay[f][n]
          /\ unlockDelay'[j][n] = IF period[f][n].exists THEN unlockDelay[f][n]
                                                        ELSE unlockDelay[j][n]
      BY <1>1 DEF JoinRules, MigratePeriodsTo, RulesTypeOK
    <2> QED BY <1>1, <2>1, <2>2
  <1> QED BY <1>2, <1>3

LEMMA TermsStep ==
    ASSUME TermsInv, [RulesNext]_rulesVars, \A f, g \in Founders : f = g
    PROVE  TermsInv'
  <1> DEFINE Unset(c) == \A n \in Names : ~period[c][n].exists => unlockDelay[c][n] = 0
  <1>0. RulesTypeOK /\ RulesTypeOK' /\ CommunityScopes \subseteq Scopes
    BY RulesTypeStep DEF TermsInv, Scopes
  <1>1. \A c \in CommunityScopes : Unset(c)  BY DEF TermsInv
  <1>2. ASSUME NEW c \in CommunityScopes  PROVE Unset(c)'
    <2>1. CASE SameTerms(c)  BY <1>1, <2>1 DEF SameTerms
    <2>2. CASE FixedBy(c)
      BY <1>0, <1>1, <2>2, BatchSetsWaits DEF FixedBy, InstallRules
    <2>3. CASE JoinedBy(c)
      <3>1. PICK f \in Founders : JoinRules(f, c)  BY <2>3 DEF JoinedBy
      <3>2. f \in CommunityScopes /\ f \in Scopes /\ f # c /\ c \in Joiners
        BY <1>0, <2>3, RulesAssumption DEF JoinedBy, CommunityScopes
      <3>3. period'[f] = period[f] /\ unlockDelay'[f] = unlockDelay[f]
        BY <1>0, <3>1, <3>2 DEF JoinRules, MigratePeriodsTo, RulesTypeOK
      <3>4. Unset(f)'  BY <1>1, <3>2, <3>3
      <3> QED BY <1>0, <1>1, <3>1, <3>2, <3>4, JoiningCopies
    <2> QED BY <1>0, <2>1, <2>2, <2>3, CommunityFate
  <1>3. ASSUME NEW f \in Founders, NEW j \in Joiners, committed'[j]
        PROVE  /\ committed'[f]
               /\ percentage'[j] = percentage'[f]
               /\ \A n \in Names :
                     /\ period'[j][n].active = period'[f][n].active
                     /\ period'[j][n].limit = period'[f][n].limit
                     /\ period'[j][n].duration = period'[f][n].duration
                     /\ UnlockDelay(j, n)' = UnlockDelay(f, n)'
    <2>0. f \in CommunityScopes /\ j \in CommunityScopes /\ f \notin Joiners /\ j \notin Founders
      BY RulesAssumption DEF CommunityScopes
    <2>1. CASE JoinedBy(j)
      BY <1>0, <1>1, <2>1, JoiningCopies DEF JoinedBy, UnlockDelay
    <2>2. CASE SameTerms(j) /\ SameTerms(f)
      <3>1. committed[j]  BY <1>3, <2>2 DEF SameTerms
      <3>2. /\ committed[f] /\ percentage[j] = percentage[f]
            /\ \A n \in Names : /\ period[j][n].active = period[f][n].active
                                /\ period[j][n].limit = period[f][n].limit
                                /\ period[j][n].duration = period[f][n].duration
                                /\ UnlockDelay(j, n) = UnlockDelay(f, n)
        BY <3>1 DEF TermsInv, MembersShareTheTerms
      <3> QED BY <2>2, <3>2 DEF SameTerms, UnlockDelay
    <2>3. CASE SameTerms(j) /\ FixedBy(f)
      BY <1>3, <2>3 DEF SameTerms, FixedBy, InstallRules, Commit, TermsInv,
         MembersShareTheTerms
    <2> QED BY <1>0, <2>0, <2>1, <2>2, <2>3, CommunityFate DEF FixedBy, JoinedBy
  <1> QED BY <1>0, <1>2, <1>3 DEF TermsInv, MembersShareTheTerms

\* In the vault of one creator every member lives under the creator's terms,
\* however late it joined (joinVault, VaultRulesModule._scopeFor).  A second
\* founder would be another vault, whose terms are its own.
THEOREM TermsProof ==
    ASSUME \A f, g \in Founders : f = g
    PROVE  RulesSpec => []MembersShareTheTerms
  <1>1. RulesInit => TermsInv
    BY RulesAssumption DEF RulesInit, TermsInv, RulesTypeOK, MembersShareTheTerms,
       AbsentPeriod, Period, Scopes, CommunityScopes
  <1>2. TermsInv /\ [RulesNext]_rulesVars => TermsInv'
    BY TermsStep
  <1>3. TermsInv => MembersShareTheTerms
    BY DEF TermsInv
  <1> QED BY <1>1, <1>2, <1>3, PTL DEF RulesSpec
=============================================================================
