---------------------------- MODULE VaultLedger ----------------------------
(***************************************************************************)
(* The books of one token across all vaults: what SavingsVaultModule owes  *)
(* its members (balances, totals, early-exit penalties), what              *)
(* VaultYieldModule has invested for each vault, and the shares of         *)
(* AaveV3Strategy that back it.  All vaults share one holding of the token *)
(* and one strategy, so all of it is one record.                           *)
(*                                                                         *)
(* A vault transaction runs several of these steps one after the other on  *)
(* the same books.  Each step is a function from books to books, and what  *)
(* would make it revert is a predicate of its own.  Amounts are integers   *)
(* and every division rounds as the contracts' does.                       *)
(***************************************************************************)
EXTENDS Integers

CONSTANTS
    Members,             \* the people who may be in a vault
    Vaults,              \* the vault ids
    PenaltyPrecision,    \* PENALTY_PRECISION
    YieldPrecision,      \* YIELD_PRECISION
    FeeBps, FeeScale,    \* managementFeeBps, MAX_BPS * SECONDS_PER_YEAR
    EarningDeployed,     \* whether setYieldModule has been called
    Roundings            \* what a supply may round away, within ROUNDING_TOLERANCE

ASSUME LedgerAssumption ==
    /\ PenaltyPrecision \in Nat \ {0} /\ YieldPrecision \in Nat \ {0}
    /\ FeeBps \in Nat /\ FeeScale \in Nat \ {0} /\ EarningDeployed \in BOOLEAN
    /\ Roundings \subseteq Nat

\* positions[vault][token].  The event-only lifetime totals are left out.
Position == [shares : Nat, principal : Nat, owed : Nat, fees : Nat,
             deficit : Nat, feeDebt : Nat, acc : Nat, since : Nat]

\* held is the vault module's own holding of the token, feesHeld the yield
\* module's; pool is what the strategy has in the lending pool, rounded the part
\* of it that its balance there does not show, poolShares its totalShares.
Books == [held : Nat, feesHeld : Nat, pool : Nat, rounded : Nat, poolShares : Nat,
          total : [Vaults -> Nat], balance : [Vaults -> [Members -> Nat]],
          accPenalty : [Vaults -> Nat], penaltyDebt : [Vaults -> [Members -> Nat]],
          unclaimed : [Vaults -> [Members -> Nat]],
          position : [Vaults -> Position], yieldDebt : [Vaults -> [Members -> Nat]],
          earning : [Vaults -> BOOLEAN]]

EmptyBooks ==
    LET none == [v \in Vaults |-> [m \in Members |-> 0]]
    IN  [held |-> 0, feesHeld |-> 0, pool |-> 0, rounded |-> 0, poolShares |-> 0,
         total |-> [v \in Vaults |-> 0], balance |-> none,
         accPenalty |-> [v \in Vaults |-> 0], penaltyDebt |-> none,
         unclaimed |-> none,
         position |-> [v \in Vaults |->
             [shares |-> 0, principal |-> 0, owed |-> 0, fees |-> 0, deficit |-> 0,
              feeDebt |-> 0, acc |-> 0, since |-> 0]],
         yieldDebt |-> none, earning |-> [v \in Vaults |-> FALSE]]

AtMost(x, y) == IF x <= y THEN x ELSE y

-----------------------------------------------------------------------------
(* Penalties.                                                              *)

AccruedPenalty(b, v, m) == (b.balance[v][m] * b.accPenalty[v]) \div PenaltyPrecision

\* What m has not been credited yet: nothing for a debt above the accrual.
PendingPenalty(b, v, m) ==
    AccruedPenalty(b, v, m) - AtMost(b.penaltyDebt[v][m], AccruedPenalty(b, v, m))

SettlePenalties(b, v, m) ==
    IF b.accPenalty[v] = 0 THEN b
    ELSE [b EXCEPT !.unclaimed[v][m] = @ + PendingPenalty(b, v, m),
                   !.penaltyDebt[v][m] = AccruedPenalty(b, v, m)]

\* Mutant: nothing is noted when the balance has moved.
SnapshotNothing(b, v, m) == b

SnapshotPenalties(b, v, m) ==
    [b EXCEPT !.penaltyDebt[v][m] = AccruedPenalty(b, v, m)]

-----------------------------------------------------------------------------
(* The strategy.                                                           *)

TotalAssets(b) == b.pool - AtMost(b.rounded, b.pool)

\* convertToAssets.
Worth(b, shares) ==
    IF b.poolShares = 0 THEN 0 ELSE (shares * TotalAssets(b)) \div b.poolShares

SharesFor(b, gained) ==
    IF b.poolShares = 0 \/ TotalAssets(b) = 0 THEN gained
    ELSE (gained * b.poolShares) \div TotalAssets(b)

\* withdraw pays no more than the strategy has.
CanRedeem(b, assets) == assets <= TotalAssets(b)

\* withdraw burns shares rounded up, all of them at most; the position gives up
\* as many as it has.
Redeem(b, v, assets) ==
    LET burned == AtMost((assets * b.poolShares + TotalAssets(b) - 1) \div TotalAssets(b),
                         b.poolShares)
    IN  [b EXCEPT !.pool = @ - assets, !.poolShares = @ - burned,
                  !.position[v].shares = @ - AtMost(burned, @)]

-----------------------------------------------------------------------------
(* The yield accountant.                                                   *)

\* _accrue: the surplus of the position's worth over what is accounted for
\* repays a recorded deficit (a shortfall adds to it), then the fee for the time
\* passed, and the rest is spread over the vault's total.
Accrue(b, v, time) ==
    LET p == b.position[v]
        accounted == p.principal + p.owed + p.fees
        surplus == Worth(b, p.shares) + p.deficit - accounted
        repaid == AtMost(surplus, p.deficit)
        gross == IF surplus >= 0 THEN surplus - repaid ELSE 0
        feeOwed == p.feeDebt + (p.principal * FeeBps * (time - p.since)) \div FeeScale
        fee == AtMost(feeOwed, gross)
        net == IF b.total[v] > 0 THEN gross - fee ELSE 0
    IN  IF p.shares = 0 THEN [b EXCEPT !.position[v].since = time]
        ELSE [b EXCEPT !.position[v] =
                 [p EXCEPT !.deficit = p.deficit - repaid,
                           !.feeDebt = feeOwed - fee, !.fees = @ + fee,
                           !.acc = IF net = 0 THEN @
                                   ELSE @ + (net * YieldPrecision) \div b.total[v],
                           !.owed = @ + net, !.since = time]]

AccruedYield(b, v, m) == (b.balance[v][m] * b.position[v].acc) \div YieldPrecision

\* settleMember and what the vault module credits of it.  The yield is inside
\* the strategy already: while the position has shares it becomes principal.
SettleYield(b, v, m, time) ==
    LET a == Accrue(b, v, time)
        p == a.position[v]
        accrued == AccruedYield(a, v, m)
        credit == AtMost(accrued - AtMost(a.yieldDebt[v][m], accrued), p.owed)
    IN  IF ~EarningDeployed THEN b
        ELSE IF p.acc = 0 THEN a
        ELSE [a EXCEPT !.yieldDebt[v][m] = accrued,
                       !.position[v] =
                          [p EXCEPT !.owed = @ - credit,
                                    !.principal = IF p.shares > 0 THEN @ + credit ELSE @],
                       !.balance[v][m] = @ + credit, !.total[v] = @ + credit]

SnapshotYield(b, v, m) ==
    IF EarningDeployed THEN [b EXCEPT !.yieldDebt[v][m] = AccruedYield(b, v, m)] ELSE b

\* _settlePenalties and _settleYield before a balance moves, and the two
\* snapshots after it.
Settle(b, v, m, time) == SettleYield(SettlePenalties(b, v, m), v, m, time)
Snapshot(b, v, m) == SnapshotYield(SnapshotPenalties(b, v, m), v, m)

\* onDeposit invests what the vault has and has not invested; the transfer that
\* brings it reverts when the vault module does not hold as much.
Idle(b, v) == b.total[v] - AtMost(b.position[v].principal, b.total[v])

Invests(b, v) == EarningDeployed /\ b.earning[v] /\ Idle(b, v) > 0

CanInvest(b, v) == Invests(b, v) => Idle(b, v) <= b.held

\* What the lending pool makes of a supply.
Answers == [accepts : BOOLEAN, rounding : Roundings]

\* The strategy may refuse, and does when what it gains is not worth a share: the
\* tokens then stay where they are.
InvestIdle(b, v, time, answer) ==
    LET a == Accrue(b, v, time)
        p == a.position[v]
        amount == Idle(a, v)
        lost == AtMost(answer.rounding, amount)
        shares == SharesFor(a, amount - lost)
    IN  IF ~(EarningDeployed /\ b.earning[v] /\ b.total[v] > 0) THEN b
        ELSE IF amount = 0 \/ ~answer.accepts \/ shares = 0 THEN a
        ELSE [a EXCEPT !.held = @ - amount, !.pool = @ + amount, !.rounded = @ + lost,
                       !.poolShares = @ + shares,
                       !.position[v] = [p EXCEPT !.shares = @ + shares,
                                                 !.principal = @ + amount]]

\* ensureLiquidity brings back what an outflow needs beyond the idle part.
Shortfall(b, v, needed) ==
    IF EarningDeployed /\ b.position[v].principal > 0 /\ needed > Idle(b, v)
    THEN needed - Idle(b, v) ELSE 0

CanEnsureLiquidity(b, v, needed) ==
    Shortfall(b, v, needed) > 0 =>
        /\ Shortfall(b, v, needed) <= b.position[v].principal
        /\ CanRedeem(b, Shortfall(b, v, needed))

EnsureLiquidity(b, v, needed, time) ==
    LET short == Shortfall(b, v, needed)
    IN  IF short = 0 THEN b
        ELSE [Redeem(Accrue(b, v, time), v, short)
                 EXCEPT !.position[v].principal = @ - short, !.held = @ + short]

\* Mutant: the fees stay on the position's account after they were taken.
TakeFeesAgain(b, v) ==
    LET fees == b.position[v].fees
    IN  IF fees = 0 \/ b.position[v].shares = 0 THEN b
        ELSE [Redeem(b, v, fees) EXCEPT !.feesHeld = @ + fees]

\* The treasury's part of a position, moved to the yield module: realizeFees,
\* and the first half of divestAll.
TakeFees(b, v) ==
    LET fees == b.position[v].fees
    IN  IF fees = 0 \/ b.position[v].shares = 0 THEN b
        ELSE [Redeem(b, v, fees) EXCEPT !.position[v].fees = 0, !.feesHeld = @ + fees]

\* divestAll takes the fees out first and redeems the rest of the shares; owed
\* stays owed.
WithoutFees(b, v, time) ==
    TakeFees([Accrue(b, v, time) EXCEPT !.position[v].principal = 0], v)

CanDivest(b, v, time) ==
    LET a == Accrue(b, v, time)
    IN  a.position[v].shares > 0 =>
           /\ CanRedeem(a, a.position[v].fees)
           /\ WithoutFees(b, v, time).position[v].shares
                 <= WithoutFees(b, v, time).poolShares

DivestAll(b, v, time) ==
    LET c == WithoutFees(b, v, time)
        shares == c.position[v].shares
        assets == Worth(c, shares)
    IN  [c EXCEPT !.held = @ + assets, !.pool = @ - assets,
                  !.poolShares = @ - shares, !.position[v].shares = 0]
=============================================================================
