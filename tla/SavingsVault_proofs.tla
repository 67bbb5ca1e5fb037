------------------------ MODULE SavingsVault_proofs ------------------------
(***************************************************************************)
(* Proofs about the vaults, for any members, vaults, tokens, amounts and   *)
(* decimals.  From below: what each function of the ledger changes of the  *)
(* books of a token and what it leaves alone (`Settled', `Shifted',        *)
(* `Transacted', ...); then what each transaction is in those terms; then  *)
(* four results from one invariant, VaultInv, which says that a vault's    *)
(* total is the sum of its members' balances, that nobody outside a vault  *)
(* has anything in it, that no position was accrued in the future, and     *)
(* that every bypass on file has its wait and the amount it was measured   *)
(* at:                                                                     *)
(*   - seen from the rules the vaults are the rules of SpendingRules;      *)
(*   - whatever leaves the contracts has a reason;                         *)
(*   - a reward grows when somebody else leaves early;                     *)
(*   - what is owed is covered: with nothing earning, because no step      *)
(*     leaves more of a token missing than the market lost and the         *)
(*     division of a penalty rounds (NoWorse), and for one personal vault  *)
(*     that earns because its position never promises more than there is   *)
(*     (Backed).                                                           *)
(***************************************************************************)
EXTENDS SavingsVault, SumTheorems, TLAPS

-----------------------------------------------------------------------------
(* Naturals.                                                               *)

\* What the ledger divides by is never zero, and a quotient is a number.
LEMMA DivNat == ASSUME NEW x \in Nat, NEW d \in Nat \ {0} PROVE x \div d \in Nat
  OBVIOUS

\* So is a product: stated once, for the provers.
LEMMA MulNat == ASSUME NEW x \in Nat, NEW y \in Nat PROVE x * y \in Nat
  OBVIOUS

\* The lesser of two amounts is no more than either, and leaves a number of each.
LEMMA AtMostNat ==
    ASSUME NEW x \in Nat, NEW y \in Nat
    PROVE  /\ AtMost(x, y) \in Nat /\ AtMost(x, y) <= x /\ AtMost(x, y) <= y
           /\ x - AtMost(x, y) \in Nat /\ y - AtMost(x, y) \in Nat
  BY DEF AtMost

\* A share of a whole is no more than the whole.
LEMMA ShareOfWhole ==
    ASSUME NEW x \in Nat, NEW whole \in Nat, NEW d \in Nat \ {0}, x <= d
    PROVE  (x * whole) \div d \in Nat /\ (x * whole) \div d <= whole
  <1>1. x * whole \in Nat /\ x * whole <= d * whole
    BY MulNat
  <1> QED BY <1>1

-----------------------------------------------------------------------------
(* What a step of the ledger leaves alone.                                 *)

\* What is held, in the module, in the yield module and in the strategy.
HoldingsKept(b, c) == /\ c.held = b.held /\ c.feesHeld = b.feesHeld
                      /\ c.pool = b.pool /\ c.rounded = b.rounded
                      /\ c.poolShares = b.poolShares
\* The members' balances and the vaults' totals.
BalancesKept(b, c) == c.total = b.total /\ c.balance = b.balance
\* All that early exits have left to be claimed.
PenaltiesKept(b, c) == /\ c.accPenalty = b.accPenalty /\ c.penaltyDebt = b.penaltyDebt
                       /\ c.unclaimed = b.unclaimed
\* The earning side: positions, what members were credited, the mode.
YieldKept(b, c) == /\ c.position = b.position /\ c.yieldDebt = b.yieldDebt
                   /\ c.earning = b.earning

\* The books are typed, a vault owes what its members hold, and no position was
\* accrued in the future.
LedgerOK(b) ==
    /\ b \in Books
    /\ \A v \in Vaults : b.total[v] = SumFunctionOnSet(b.balance[v], Members)
    /\ \A v \in Vaults : b.position[v].since <= now

\* Books that keep the balances and the accrual times keep all of that.
LEMMA LedgerKept ==
    ASSUME NEW b, LedgerOK(b), NEW c \in Books, BalancesKept(b, c),
           \A v \in Vaults : c.position[v].since = b.position[v].since
    PROVE  LedgerOK(c)
  BY DEF LedgerOK, BalancesKept

-----------------------------------------------------------------------------
(* Penalties.                                                              *)

\* A share of the penalties is a number, and none where there never was a penalty.
LEMMA PenaltyTypes ==
    ASSUME NEW b \in Books, NEW v \in Vaults, NEW m \in Members
    PROVE  /\ AccruedPenalty(b, v, m) \in Nat /\ PendingPenalty(b, v, m) \in Nat
           /\ b.accPenalty[v] = 0 => /\ AccruedPenalty(b, v, m) = 0
                                     /\ PendingPenalty(b, v, m) = 0
  <1> DEFINE accrued == AccruedPenalty(b, v, m)
             debt == b.penaltyDebt[v][m]
             balance == b.balance[v][m]
  <1>1. balance \in Nat /\ b.accPenalty[v] \in Nat /\ debt \in Nat
    BY DEF Books
  <1>2. accrued \in Nat
    <2> HIDE DEF balance
    <2>1. balance * b.accPenalty[v] \in Nat
      BY <1>1, MulNat
    <2> QED BY <2>1, DivNat, LedgerAssumption DEF AccruedPenalty, accrued, balance
  <1>3. PendingPenalty(b, v, m) = accrued - AtMost(debt, accrued)
    BY DEF PendingPenalty
  <1>4. ASSUME b.accPenalty[v] = 0 PROVE accrued = 0
    <2>1. balance * b.accPenalty[v] = 0
      BY <1>1, <1>4
    <2>2. 0 \div PenaltyPrecision = 0
      BY LedgerAssumption
    <2> QED BY <2>1, <2>2 DEF AccruedPenalty
  <1> HIDE DEF accrued, debt
  <1>5. AtMost(debt, accrued) \in Nat /\ accrued - AtMost(debt, accrued) \in Nat
        /\ AtMost(debt, accrued) <= accrued
    BY <1>1, <1>2, AtMostNat
  <1> QED BY <1>2, <1>3, <1>4, <1>5 DEF accrued

\* A reward depends on the member's own entries and the penalties of the vault.
LEMMA RewardDepends ==
    ASSUME NEW b, NEW c, NEW v, NEW m,
           c.balance[v][m] = b.balance[v][m], c.accPenalty[v] = b.accPenalty[v],
           c.penaltyDebt[v][m] = b.penaltyDebt[v][m], c.unclaimed[v][m] = b.unclaimed[v][m]
    PROVE  Reward(c, v, m) = Reward(b, v, m)
  BY DEF Reward, PendingPenalty, AccruedPenalty

\* So is what a member has coming.
LEMMA RewardType ==
    ASSUME NEW b \in Books, NEW v \in Vaults, NEW m \in Members
    PROVE  Reward(b, v, m) \in Nat
  <1>1. b.unclaimed[v][m] \in Nat
    BY DEF Books
  <1> QED BY <1>1, PenaltyTypes DEF Reward

\* Writing one member's entry writes that entry alone.
LEMMA EntryUpdate ==
    ASSUME NEW f \in [Vaults -> [Members -> Nat]], NEW v \in Vaults, NEW m \in Members,
           NEW x \in Nat
    PROVE  /\ [f EXCEPT ![v][m] = x] \in [Vaults -> [Members -> Nat]]
           /\ [f EXCEPT ![v][m] = x][v][m] = x
           /\ \A u \in Vaults, n \in Members : <<u, n>> # <<v, m>> =>
                 [f EXCEPT ![v][m] = x][u][n] = f[u][n]
           /\ \A u \in Vaults \ {v} : [f EXCEPT ![v][m] = x][u] = f[u]
  OBVIOUS

\* Settling moves what is pending for a member to what is unclaimed: the reward
\* is the same before and after, and nobody else's changes.
LEMMA SettlePenaltiesShape ==
    ASSUME NEW b \in Books, NEW v \in Vaults, NEW m \in Members,
           NEW c, c = SettlePenalties(b, v, m)
    PROVE  /\ c \in Books /\ HoldingsKept(b, c) /\ BalancesKept(b, c) /\ YieldKept(b, c)
           /\ c.accPenalty = b.accPenalty
           /\ \A u \in Vaults, n \in Members : <<u, n>> # <<v, m>> =>
                 /\ c.unclaimed[u][n] = b.unclaimed[u][n]
                 /\ c.penaltyDebt[u][n] = b.penaltyDebt[u][n]
           /\ c.unclaimed[v][m] = Reward(b, v, m)
           /\ PendingPenalty(c, v, m) = 0
  <1> DEFINE accrued == AccruedPenalty(b, v, m)
             pending == PendingPenalty(b, v, m)
  <1>1. accrued \in Nat /\ pending \in Nat
    BY PenaltyTypes
  <1>2. CASE b.accPenalty[v] = 0
    <2>1. pending = 0
      BY <1>2, PenaltyTypes
    <2>2. c = b
      BY <1>2 DEF SettlePenalties
    <2>3. c.unclaimed[v][m] = Reward(b, v, m)
      <3>1. b.unclaimed[v][m] \in Nat
        BY DEF Books
      <3> QED BY <2>1, <2>2, <3>1 DEF Reward
    <2> QED BY <2>1, <2>2, <2>3 DEF HoldingsKept, BalancesKept, YieldKept
  <1>3. CASE b.accPenalty[v] # 0
    <2>1. c = [b EXCEPT !.unclaimed[v][m] = @ + pending, !.penaltyDebt[v][m] = accrued]
      BY <1>3 DEF SettlePenalties
    <2> HIDE DEF pending, accrued
    <2>8. c \in Books
      <3> DEFINE f == [b.penaltyDebt EXCEPT ![v][m] = accrued]
                 g == [b.unclaimed EXCEPT ![v][m] = @ + pending]
      <3>1. f \in [Vaults -> [Members -> Nat]]
        BY <1>1, EntryUpdate DEF Books
      <3>2. g \in [Vaults -> [Members -> Nat]]
        <4>1. b.unclaimed[v][m] + pending \in Nat
          BY <1>1 DEF Books
        <4> QED BY <4>1, EntryUpdate DEF Books
      <3>3. c = [b EXCEPT !.unclaimed = g, !.penaltyDebt = f]
        BY <2>1
      <3> HIDE DEF f, g
      <3> QED BY <3>1, <3>2, <3>3 DEF Books
    <2>2. HoldingsKept(b, c) /\ BalancesKept(b, c) /\ YieldKept(b, c)
          /\ c.accPenalty = b.accPenalty
      BY <2>1 DEF Books, HoldingsKept, BalancesKept, YieldKept
    <2>3. \A u \in Vaults, n \in Members : <<u, n>> # <<v, m>> =>
                 /\ c.unclaimed[u][n] = b.unclaimed[u][n]
                 /\ c.penaltyDebt[u][n] = b.penaltyDebt[u][n]
      BY <1>1, <2>1 DEF Books
    <2>4. c.unclaimed[v][m] = b.unclaimed[v][m] + pending /\ c.penaltyDebt[v][m] = accrued
      BY <1>1, <2>1 DEF Books
    <2>5. c.unclaimed[v][m] = Reward(b, v, m)
      BY <2>4 DEF Reward, pending
    <2>6. AccruedPenalty(c, v, m) = accrued
      BY <2>2 DEF AccruedPenalty, BalancesKept, accrued
    <2>7. PendingPenalty(c, v, m) = 0
      BY <1>1, <2>4, <2>6 DEF PendingPenalty, AtMost
    <2> QED BY <2>2, <2>3, <2>5, <2>7, <2>8
  <1> QED BY <1>2, <1>3

\* A snapshot leaves nothing pending for the member and what is unclaimed as it was.
LEMMA SnapshotPenaltiesShape ==
    ASSUME NEW b \in Books, NEW v \in Vaults, NEW m \in Members,
           NEW c, c = SnapshotPenalties(b, v, m)
    PROVE  /\ c \in Books /\ HoldingsKept(b, c) /\ BalancesKept(b, c) /\ YieldKept(b, c)
           /\ c.accPenalty = b.accPenalty /\ c.unclaimed = b.unclaimed
           /\ \A u \in Vaults, n \in Members : <<u, n>> # <<v, m>> =>
                 c.penaltyDebt[u][n] = b.penaltyDebt[u][n]
           /\ PendingPenalty(c, v, m) = 0
  <1> DEFINE accrued == AccruedPenalty(b, v, m)
  <1>1. accrued \in Nat
    BY PenaltyTypes
  <1>2. c = [b EXCEPT !.penaltyDebt[v][m] = accrued]
    BY DEF SnapshotPenalties
  <1> HIDE DEF accrued
  <1>3. HoldingsKept(b, c) /\ BalancesKept(b, c) /\ YieldKept(b, c)
        /\ c.accPenalty = b.accPenalty /\ c.unclaimed = b.unclaimed
    BY <1>2 DEF Books, HoldingsKept, BalancesKept, YieldKept
  <1>7. c \in Books
    <2> DEFINE f == [b.penaltyDebt EXCEPT ![v][m] = accrued]
    <2>1. f \in [Vaults -> [Members -> Nat]]
      BY <1>1, EntryUpdate DEF Books
    <2>2. c = [b EXCEPT !.penaltyDebt = f]
      BY <1>2
    <2> HIDE DEF f
    <2> QED BY <2>1, <2>2 DEF Books
  <1>4. /\ \A u \in Vaults, n \in Members : <<u, n>> # <<v, m>> =>
              c.penaltyDebt[u][n] = b.penaltyDebt[u][n]
        /\ c.penaltyDebt[v][m] = accrued
    BY <1>1, <1>2 DEF Books
  <1>5. AccruedPenalty(c, v, m) = accrued
    BY <1>3 DEF AccruedPenalty, BalancesKept, accrued
  <1>6. PendingPenalty(c, v, m) = 0
    BY <1>1, <1>4, <1>5 DEF PendingPenalty, AtMost
  <1> QED BY <1>3, <1>4, <1>6, <1>7

-----------------------------------------------------------------------------
(* Yield.                                                                  *)

\* What the strategy can see of the pool is no more than the pool.
LEMMA TotalAssetsType ==
    ASSUME NEW b \in Books
    PROVE  TotalAssets(b) \in Nat /\ TotalAssets(b) <= b.pool
  <1> DEFINE pool == b.pool
             rounded == b.rounded
  <1>1. pool \in Nat /\ rounded \in Nat
    BY DEF Books
  <1> HIDE DEF pool, rounded
  <1>2. AtMost(rounded, pool) \in Nat /\ AtMost(rounded, pool) <= pool
    BY <1>1, AtMostNat
  <1>3. pool - AtMost(rounded, pool) \in Nat /\ pool - AtMost(rounded, pool) <= pool
    BY <1>1, <1>2
  <1> QED BY <1>3 DEF TotalAssets, pool, rounded

\* Shares are worth a number, and some of them never more than the pool.
LEMMA WorthType ==
    ASSUME NEW b \in Books, NEW shares \in Nat
    PROVE  Worth(b, shares) \in Nat /\ (shares <= b.poolShares => Worth(b, shares) <= b.pool)
  <1>1. b.pool \in Nat /\ b.poolShares \in Nat
    BY DEF Books
  <1>2. CASE b.poolShares = 0
    BY <1>1, <1>2 DEF Worth
  <1>3. CASE b.poolShares # 0
    <2>1. Worth(b, shares) = (shares * TotalAssets(b)) \div b.poolShares
      BY <1>3 DEF Worth
    <2> DEFINE assets == TotalAssets(b)
               pool == b.pool
               all == b.poolShares
    <2>2. /\ assets \in Nat /\ pool \in Nat /\ assets <= pool /\ all \in Nat \ {0}
          /\ Worth(b, shares) = (shares * assets) \div all
      BY <1>1, <1>3, <2>1, TotalAssetsType
    <2> HIDE DEF assets, pool, all
    <2>3. (shares * assets) \div all \in Nat
      BY <2>2, MulNat, DivNat
    <2>4. shares <= all => (shares * assets) \div all <= assets
      BY <2>2, ShareOfWhole
    <2> QED BY <2>2, <2>3, <2>4 DEF pool, all
  <1> QED BY <1>2, <1>3

\* Books in which the position of v was set.
Positioned(b, v, p) == [b EXCEPT !.position[v] = p]

\* Setting a position sets nothing else.
LEMMA PositionUpdate ==
    ASSUME NEW b \in Books, NEW v \in Vaults, NEW p \in Position,
           NEW c, c = Positioned(b, v, p)
    PROVE  /\ c \in Books /\ HoldingsKept(b, c) /\ BalancesKept(b, c)
           /\ PenaltiesKept(b, c) /\ c.yieldDebt = b.yieldDebt /\ c.earning = b.earning
           /\ \A u \in Vaults \ {v} : c.position[u] = b.position[u]
           /\ c.position[v] = p
  <1> DEFINE f == [b.position EXCEPT ![v] = p]
  <1>1. /\ f \in [Vaults -> Position] /\ f[v] = p
        /\ \A u \in Vaults \ {v} : f[u] = b.position[u]
    BY DEF Books
  <1>2. c = [b EXCEPT !.position = f]
    BY DEF Positioned
  <1> HIDE DEF f
  <1>3. c.position = f
    BY <1>2 DEF Books
  <1>4. c \in Books
    BY <1>1, <1>2 DEF Books
  <1>5. /\ HoldingsKept(b, c) /\ BalancesKept(b, c) /\ PenaltiesKept(b, c)
        /\ c.yieldDebt = b.yieldDebt /\ c.earning = b.earning
    BY <1>2 DEF Books, HoldingsKept, BalancesKept, PenaltiesKept
  <1> QED BY <1>1, <1>3, <1>4, <1>5

\* An accrual credits the position with no more than it is worth.
Accrued(b, c, v) ==
    /\ LedgerOK(c) /\ HoldingsKept(b, c) /\ BalancesKept(b, c) /\ PenaltiesKept(b, c)
    /\ c.yieldDebt = b.yieldDebt /\ c.earning = b.earning
    /\ \A u \in Vaults \ {v} : c.position[u] = b.position[u]
    /\ c.position[v].shares = b.position[v].shares
    /\ c.position[v].principal = b.position[v].principal
    /\ \/ /\ c.position[v].owed = b.position[v].owed
          /\ c.position[v].fees = b.position[v].fees
       \/ /\ b.position[v].shares > 0
          /\ c.position[v].principal + c.position[v].owed + c.position[v].fees
                <= Worth(b, b.position[v].shares)

\* What accrueYield computes stays within what the shares are worth: fee and net
\* together are at most the surplus, after what a loss left to make up.
LEMMA AccrueShape ==
    ASSUME now \in Nat, NEW b, LedgerOK(b), NEW v \in Vaults, NEW c, c = Accrue(b, v, now)
    PROVE  Accrued(b, c, v)
  <1> DEFINE p == b.position[v]
             q == c.position[v]
             worth == Worth(b, p.shares)
             accounted == p.principal + p.owed + p.fees
             surplus == worth + p.deficit - accounted
             repaid == AtMost(surplus, p.deficit)
             gross == IF surplus >= 0 THEN surplus - repaid ELSE 0
             feeOwed == p.feeDebt + (p.principal * FeeBps * (now - p.since)) \div FeeScale
             fee == AtMost(feeOwed, gross)
             net == IF b.total[v] > 0 THEN gross - fee ELSE 0
             acc == IF net = 0 THEN p.acc
                    ELSE p.acc + (net * YieldPrecision) \div b.total[v]
             accrued == [p EXCEPT !.deficit = p.deficit - repaid, !.feeDebt = feeOwed - fee,
                                  !.fees = @ + fee, !.acc = acc, !.owed = @ + net,
                                  !.since = now]
  <1>1. b \in Books /\ p \in Position /\ p.since <= now /\ b.total[v] \in Nat
    BY DEF LedgerOK, Books
  <1>2. worth \in Nat
    BY <1>1, WorthType DEF Position
  <1>3. feeOwed \in Nat
    <2>1. p.principal \in Nat /\ p.feeDebt \in Nat /\ now - p.since \in Nat
      BY <1>1 DEF Position
    <2> DEFINE principal == p.principal
               elapsed == now - p.since
    <2>2. principal * FeeBps * elapsed \in Nat
      <3> HIDE DEF principal, elapsed
      <3>1. principal \in Nat /\ elapsed \in Nat
        BY <2>1 DEF principal, elapsed
      <3>2. principal * FeeBps \in Nat
        BY <3>1, MulNat, LedgerAssumption
      <3> QED BY <3>1, <3>2, MulNat
    <2>3. (principal * FeeBps * elapsed) \div FeeScale \in Nat
      BY <2>2, DivNat, LedgerAssumption
    <2> QED BY <2>1, <2>3
  <1>4. accounted \in Nat /\ p.deficit \in Nat /\ p.acc \in Nat
    BY <1>1 DEF Position
  <1>5. /\ p.deficit - repaid \in Nat /\ feeOwed - fee \in Nat /\ fee \in Nat /\ net \in Nat
        /\ net # 0 => b.total[v] > 0
        /\ fee + net # 0 => accounted + fee + net <= worth
    <2> DEFINE deficit == p.deficit
               total == b.total[v]
    <2>1. deficit \in Nat /\ total \in Nat
      BY <1>1, <1>4
    <2> HIDE DEF worth, accounted, feeOwed, deficit, total
    <2>2. /\ deficit - repaid \in Nat /\ feeOwed - fee \in Nat /\ fee \in Nat /\ net \in Nat
          /\ net # 0 => total > 0
          /\ fee + net # 0 => accounted + fee + net <= worth
      BY <1>2, <1>3, <1>4, <2>1 DEF deficit, total, AtMost
    <2> QED BY <2>2 DEF deficit, total
  <1>6. acc \in Nat
    <2> DEFINE total == b.total[v]
    <2> HIDE DEF net
    <2>1. CASE net = 0
      BY <1>4, <2>1
    <2>2. CASE net # 0
      <3>1. total \in Nat \ {0}
        BY <1>1, <1>5, <2>2
      <3> HIDE DEF total
      <3>2. (net * YieldPrecision) \div total \in Nat
        BY <1>5, <3>1, MulNat, DivNat, LedgerAssumption
      <3> QED BY <1>4, <2>2, <3>2 DEF total
    <2> QED BY <2>1, <2>2
  <1>7. CASE p.shares = 0
    <2> DEFINE still == [p EXCEPT !.since = now]
    <2>1. c = Positioned(b, v, still)
      BY <1>7 DEF Accrue, Positioned
    <2>2. still \in Position /\ still.since = now /\ still.shares = p.shares
          /\ still.principal = p.principal /\ still.owed = p.owed /\ still.fees = p.fees
      BY <1>1 DEF Position
    <2> HIDE DEF still, p
    <2>3. /\ c \in Books /\ HoldingsKept(b, c) /\ BalancesKept(b, c)
          /\ PenaltiesKept(b, c) /\ c.yieldDebt = b.yieldDebt /\ c.earning = b.earning
          /\ \A u \in Vaults \ {v} : c.position[u] = b.position[u]
          /\ c.position[v] = still
      BY <1>1, <2>1, <2>2, PositionUpdate
    <2>4. LedgerOK(c)
      BY <2>2, <2>3 DEF LedgerOK, BalancesKept
    <2> QED BY <2>2, <2>3, <2>4 DEF p, Accrued
  <1>8. CASE p.shares # 0
    <2>1. c = Positioned(b, v, accrued)
      BY <1>8 DEF Accrue, Positioned
    <2>2. p.shares \in Nat /\ p.owed \in Nat /\ p.fees \in Nat /\ p.principal \in Nat
      BY <1>1 DEF Position
    <2>3. /\ accrued.since = now /\ accrued.shares = p.shares
          /\ accrued.principal = p.principal /\ accrued.owed = p.owed + net
          /\ accrued.fees = p.fees + fee
      <3> HIDE DEF repaid, feeOwed, fee, net, acc
      <3> QED BY <1>1 DEF Position
    <2>4. accrued \in Position
      <3> DEFINE x == p.deficit - repaid
                 y == feeOwed - fee
      <3>1. x \in Nat /\ y \in Nat
        BY <1>5
      <3> HIDE DEF x, y, fee, net, acc
      <3>2. accrued = [p EXCEPT !.deficit = x, !.feeDebt = y, !.fees = @ + fee, !.acc = acc,
                                !.owed = @ + net, !.since = now]
        BY DEF x, y
      <3>3. p.fees + fee \in Nat /\ p.owed + net \in Nat
        BY <1>5, <2>2
      <3> HIDE DEF accrued
      <3> QED BY <1>1, <1>6, <3>1, <3>2, <3>3 DEF Position
    <2> HIDE DEF accrued, p
    <2>5. /\ c \in Books /\ HoldingsKept(b, c) /\ BalancesKept(b, c)
          /\ PenaltiesKept(b, c) /\ c.yieldDebt = b.yieldDebt /\ c.earning = b.earning
          /\ \A u \in Vaults \ {v} : c.position[u] = b.position[u]
          /\ c.position[v] = accrued
      BY <1>1, <2>1, <2>4, PositionUpdate
    <2>6. LedgerOK(c)
      BY <2>3, <2>5 DEF LedgerOK, BalancesKept
    <2>7. \/ c.position[v].owed = p.owed /\ c.position[v].fees = p.fees
          \/ c.position[v].principal + c.position[v].owed + c.position[v].fees <= worth
      <3> HIDE DEF fee, net, worth
      <3>1. accounted = p.principal + p.owed + p.fees
        OBVIOUS
      <3> HIDE DEF accounted
      <3> QED BY <1>2, <1>5, <2>2, <2>3, <2>5, <3>1
    <2> QED BY <1>8, <2>2, <2>3, <2>5, <2>6, <2>7 DEF p, worth, Accrued
  <1> QED BY <1>7, <1>8
\* The balances and totals when m holds x.
Rebalanced(b, v, m, x) == [b.balance EXCEPT ![v][m] = x]
Retotalled(b, v, m, x) == [b.total EXCEPT ![v] = b.total[v] + (x - b.balance[v][m])]

\* The totals are the sums of the balances.
SumsAgree(f, g) ==
    /\ f \in [Vaults -> [Members -> Nat]] /\ g \in [Vaults -> Nat]
    /\ \A u \in Vaults : g[u] = SumFunctionOnSet(f[u], Members)

\* A vault's total follows a member's balance, and is never less than it.
LEMMA TotalFollows ==
    ASSUME NEW b, LedgerOK(b), NEW v \in Vaults, NEW m \in Members, NEW x \in Nat
    PROVE  /\ SumsAgree(Rebalanced(b, v, m, x), Retotalled(b, v, m, x))
           /\ b.balance[v][m] <= b.total[v]
  <1> DEFINE f == Rebalanced(b, v, m, x)
             g == Retotalled(b, v, m, x)
  <1>1. /\ b.balance \in [Vaults -> [Members -> Nat]] /\ b.total \in [Vaults -> Nat]
        /\ \A u \in Vaults : b.total[u] = SumFunctionOnSet(b.balance[u], Members)
    BY DEF LedgerOK, Books
  <1>2. /\ f \in [Vaults -> [Members -> Nat]] /\ f[v][m] = x
        /\ \A n \in Members \ {m} : f[v][n] = b.balance[v][n]
        /\ \A u \in Vaults \ {v} : f[u] = b.balance[u]
    BY <1>1 DEF Rebalanced
  <1> DEFINE old == b.balance[v]
             new == f[v]
  <1>3. old \in [Members -> Nat] /\ new \in [Members -> Nat]
    BY <1>1, <1>2
  <1>4. SumFunctionOnSet(new, Members) = SumFunctionOnSet(old, Members) + (new[m] - old[m])
    <2>1. /\ \A n \in Members : old[n] \in Int
          /\ new[m] \in Int /\ \A n \in Members \ {m} : new[n] = old[n]
      BY <1>2, <1>3
    <2> HIDE DEF old, new
    <2> QED BY <2>1, SumUpdate, VaultAssumption
  <1>5. SumFunctionOnSet(new, Members) \in Nat
    <2> HIDE DEF new
    <2>1. \A n \in Members : new[n] \in Nat
      BY <1>3
    <2> QED BY <2>1, SumNat, VaultAssumption
  <1>6. old[m] <= SumFunctionOnSet(old, Members)
    <2> HIDE DEF old
    <2>1. \A n \in Members : old[n] \in Nat
      BY <1>3
    <2> QED BY <2>1, SumMember, VaultAssumption
  <1>7. /\ \A u \in Vaults \ {v} : g[u] = b.total[u]
        /\ g[v] = b.total[v] + (x - old[m])
        /\ g = [u \in Vaults |-> g[u]]
    BY <1>1 DEF Retotalled
  <1>8. g[v] = SumFunctionOnSet(new, Members)
    BY <1>1, <1>2, <1>4, <1>7
  <1>9. \A u \in Vaults : g[u] = SumFunctionOnSet(f[u], Members)
    BY <1>1, <1>2, <1>7, <1>8
  <1>10. g \in [Vaults -> Nat]
    BY <1>1, <1>5, <1>7, <1>8
  <1> QED BY <1>1, <1>2, <1>6, <1>9, <1>10 DEF SumsAgree

\* Settling the yield moves what the position owes the member to the balance, and
\* to the principal while the position has shares.
YieldSettled(b, c, v, m) ==
    /\ LedgerOK(c) /\ HoldingsKept(b, c) /\ PenaltiesKept(b, c) /\ c.earning = b.earning
    /\ \A u \in Vaults \ {v} : /\ c.total[u] = b.total[u] /\ c.balance[u] = b.balance[u]
                               /\ c.position[u] = b.position[u]
    /\ \A n \in Members \ {m} : c.balance[v][n] = b.balance[v][n]

\* The credit of a settlement: from what the position owes to the balance.
Credited(a, c, v, m, credit) ==
    /\ c.balance[v][m] = a.balance[v][m] + credit
    /\ c.total[v] = a.total[v] + credit
    /\ a.balance[v][m] = 0 => credit = 0
    /\ c.position[v].shares = a.position[v].shares
    /\ c.position[v].fees = a.position[v].fees
    /\ c.position[v].owed = a.position[v].owed - credit
    /\ c.position[v].principal = a.position[v].principal
          + (IF a.position[v].shares > 0 THEN credit ELSE 0)

\* Settling yield accrues, and credits the one member with a part of what is owed.
LEMMA SettleYieldShape ==
    ASSUME now \in Nat, NEW b, LedgerOK(b), NEW v \in Vaults, NEW m \in Members,
           NEW c, c = SettleYield(b, v, m, now)
    PROVE  /\ YieldSettled(b, c, v, m)
           /\ ~EarningDeployed => c = b
           /\ c = b \/ \E credit \in Nat : Credited(Accrue(b, v, now), c, v, m, credit)
  <1> DEFINE a == Accrue(b, v, now)
             p == a.position[v]
             accrued == AccruedYield(a, v, m)
             debt == a.yieldDebt[v][m]
             credit == AtMost(accrued - AtMost(debt, accrued), p.owed)
             q == [p EXCEPT !.owed = @ - credit,
                            !.principal = IF p.shares > 0 THEN @ + credit ELSE @]
             x == a.balance[v][m] + credit
             F == Rebalanced(a, v, m, x)
             G == Retotalled(a, v, m, x)
             Y == [a.yieldDebt EXCEPT ![v][m] = accrued]
             P == [a.position EXCEPT ![v] = q]
  <1>0. Accrued(b, a, v)
    BY AccrueShape
  <1> HIDE DEF a
  <1>1. LedgerOK(a)
    BY <1>0 DEF Accrued
  <1>2. a \in Books /\ a.position[v].since <= now
    BY <1>1 DEF LedgerOK
  <1>3. p \in Position /\ p.owed \in Nat /\ p.principal \in Nat /\ a.balance[v][m] \in Nat
        /\ debt \in Nat /\ a.total[v] \in Nat
    BY <1>2 DEF Books, Position
  <1>4. accrued \in Nat
    <2> DEFINE balance == a.balance[v][m]
               acc == p.acc
    <2>1. balance \in Nat /\ acc \in Nat
      BY <1>3 DEF Position
    <2> HIDE DEF balance, acc
    <2>2. (balance * acc) \div YieldPrecision \in Nat
      BY <2>1, MulNat, DivNat, LedgerAssumption
    <2> QED BY <2>2 DEF balance, acc, AccruedYield
  <1>5. credit \in Nat /\ p.owed - credit \in Nat
    <2> HIDE DEF accrued, debt, p
    <2>1. accrued - AtMost(debt, accrued) \in Nat
      BY <1>3, <1>4, AtMostNat
    <2> QED BY <1>3, <2>1, AtMostNat
  <1>13. a.balance[v][m] = 0 => credit = 0
    <2>1. ASSUME a.balance[v][m] = 0 PROVE accrued = 0
      <3> DEFINE acc == p.acc
      <3>1. acc \in Nat
        BY <1>3 DEF Position
      <3> HIDE DEF acc
      <3>2. (0 * acc) \div YieldPrecision = 0
        BY <3>1, LedgerAssumption
      <3> QED BY <2>1, <3>2 DEF AccruedYield, acc
    <2> HIDE DEF accrued, debt, p
    <2> QED BY <1>3, <2>1 DEF AtMost
  <1>6. x \in Nat
    <2> HIDE DEF credit
    <2> QED BY <1>3, <1>5
  <1> HIDE DEF accrued, credit, p, debt
  <1>7. /\ q \in Position /\ q.since = p.since /\ q.shares = p.shares /\ q.fees = p.fees
        /\ q.owed = p.owed - credit
        /\ q.principal = p.principal + (IF p.shares > 0 THEN credit ELSE 0)
    <2> DEFINE owed == p.owed - credit
               principal == IF p.shares > 0 THEN p.principal + credit ELSE p.principal
    <2>1. owed \in Nat /\ principal \in Nat
          /\ principal = p.principal + (IF p.shares > 0 THEN credit ELSE 0)
      BY <1>3, <1>5
    <2>2. q = [p EXCEPT !.owed = owed, !.principal = principal]
      OBVIOUS
    <2> HIDE DEF owed, principal, q
    <2>3. q \in Position /\ q.since = p.since /\ q.shares = p.shares /\ q.fees = p.fees
          /\ q.owed = owed /\ q.principal = principal
      BY <1>3, <2>1, <2>2 DEF Position
    <2> QED BY <2>1, <2>3 DEF owed
  <1>8. SumsAgree(F, G)
    <2> HIDE DEF x
    <2> QED BY <1>1, <1>6, TotalFollows
  <1>9. /\ F[v][m] = a.balance[v][m] + credit /\ G[v] = a.total[v] + credit
        /\ \A u \in Vaults \ {v} : F[u] = a.balance[u] /\ G[u] = a.total[u]
        /\ \A n \in Members \ {m} : F[v][n] = a.balance[v][n]
    BY <1>2, <1>3, <1>5 DEF Books, Rebalanced, Retotalled
  <1>10. CASE ~EarningDeployed
    <2>1. c = b
      BY <1>10 DEF SettleYield
    <2> QED BY <2>1 DEF HoldingsKept, PenaltiesKept, YieldSettled
  <1>11. CASE EarningDeployed /\ p.acc = 0
    <2>1. c = a
      BY <1>11 DEF SettleYield, p, a
    <2>2. Credited(a, c, v, m, 0)
      <3> HIDE DEF a
      <3> QED BY <1>3, <2>1 DEF Credited, p
    <2>3. YieldSettled(b, c, v, m)
      BY <1>0, <2>1 DEF Accrued, YieldSettled, BalancesKept
    <2> QED BY <1>11, <2>2, <2>3 DEF a
  <1>12. CASE EarningDeployed /\ p.acc # 0
    <2>1. c = [a EXCEPT !.yieldDebt[v][m] = accrued, !.position[v] = q,
                        !.balance[v][m] = @ + credit, !.total[v] = @ + credit]
      BY <1>12 DEF SettleYield, a, p, credit, accrued, debt
    <2>2. /\ [a.balance EXCEPT ![v][m] = @ + credit] = F
          /\ [a.total EXCEPT ![v] = @ + credit] = G
      <3>1. a.total[v] + credit = a.total[v] + (x - a.balance[v][m])
        BY <1>3, <1>5
      <3> QED BY <3>1 DEF Rebalanced, Retotalled
    <2>3. c = [a EXCEPT !.yieldDebt = Y, !.position = P, !.balance = F, !.total = G]
      <3> HIDE DEF q
      <3> QED BY <2>1, <2>2
    <2>4. Y \in [Vaults -> [Members -> Nat]]
      BY <1>2, <1>4, EntryUpdate DEF Books
    <2>5. P \in [Vaults -> Position] /\ P[v] = q /\ \A u \in Vaults \ {v} : P[u] = a.position[u]
      <3> HIDE DEF q
      <3> QED BY <1>2, <1>7 DEF Books
    <2> HIDE DEF Y, P, F, G, q
    <2>6. /\ HoldingsKept(a, c) /\ PenaltiesKept(a, c) /\ c.earning = a.earning
          /\ c.position = P /\ c.balance = F /\ c.total = G
      BY <1>2, <2>3 DEF Books, HoldingsKept, PenaltiesKept
    <2>7. c \in Books
      BY <1>2, <1>8, <2>3, <2>4, <2>5 DEF Books, SumsAgree
    <2>8. LedgerOK(c)
      BY <1>1, <1>2, <1>7, <1>8, <2>5, <2>6, <2>7 DEF LedgerOK, SumsAgree, p
    <2>9. YieldSettled(b, c, v, m)
      BY <1>0, <1>9, <2>5, <2>6, <2>8
         DEF Accrued, YieldSettled, HoldingsKept, PenaltiesKept, BalancesKept
    <2>10. Credited(a, c, v, m, credit)
      BY <1>7, <1>9, <1>13, <2>5, <2>6 DEF Credited, p
    <2> QED BY <1>5, <1>12, <2>9, <2>10 DEF a
  <1> QED BY <1>10, <1>11, <1>12
\* What a settlement and a snapshot change, all in all.
Settled(b, c, v, m) ==
    /\ LedgerOK(c) /\ HoldingsKept(b, c)
    /\ c.accPenalty = b.accPenalty /\ c.earning = b.earning
    /\ \A u \in Vaults \ {v} : /\ c.total[u] = b.total[u] /\ c.balance[u] = b.balance[u]
                               /\ c.position[u] = b.position[u]
    /\ \A n \in Members \ {m} : c.balance[v][n] = b.balance[v][n]
    /\ \A u \in Vaults, n \in Members : <<u, n>> # <<v, m>> =>
          /\ c.unclaimed[u][n] = b.unclaimed[u][n]
          /\ c.penaltyDebt[u][n] = b.penaltyDebt[u][n]
    /\ c.unclaimed[v][m] = Reward(b, v, m)
    /\ b.balance[v][m] = 0 => c.balance[v][m] = 0
    /\ ~EarningDeployed => BalancesKept(b, c) /\ YieldKept(b, c) /\ PendingPenalty(c, v, m) = 0

\* What noting the accumulators changes: the debts of the member.
Snapped(b, c, v, m) ==
    /\ LedgerOK(c) /\ HoldingsKept(b, c) /\ BalancesKept(b, c)
    /\ c.accPenalty = b.accPenalty /\ c.unclaimed = b.unclaimed
    /\ c.position = b.position /\ c.earning = b.earning
    /\ \A u \in Vaults, n \in Members : <<u, n>> # <<v, m>> =>
          c.penaltyDebt[u][n] = b.penaltyDebt[u][n]
    /\ PendingPenalty(c, v, m) = 0

\* A snapshot of the yield touches the member's yield debt only.
LEMMA SnapshotYieldShape ==
    ASSUME NEW b \in Books, NEW v \in Vaults, NEW m \in Members,
           NEW c, c = SnapshotYield(b, v, m)
    PROVE  /\ c \in Books /\ HoldingsKept(b, c) /\ BalancesKept(b, c) /\ PenaltiesKept(b, c)
           /\ c.position = b.position /\ c.earning = b.earning
  <1>1. CASE ~EarningDeployed
    BY <1>1 DEF SnapshotYield, HoldingsKept, BalancesKept, PenaltiesKept
  <1>2. CASE EarningDeployed
    <2> DEFINE accrued == AccruedYield(b, v, m)
               Y == [b.yieldDebt EXCEPT ![v][m] = accrued]
               x == b.balance[v][m]
               y == b.position[v].acc
    <2>1. x \in Nat /\ y \in Nat
      BY DEF Books, Position
    <2>2. accrued \in Nat
      <3> HIDE DEF x, y
      <3>1. (x * y) \div YieldPrecision \in Nat
        BY <2>1, MulNat, DivNat, LedgerAssumption
      <3> QED BY <3>1 DEF x, y, AccruedYield
    <2> HIDE DEF accrued
    <2>3. Y \in [Vaults -> [Members -> Nat]]
      BY <2>2, EntryUpdate DEF Books
    <2>4. c = [b EXCEPT !.yieldDebt = Y]
      BY <1>2 DEF SnapshotYield, accrued
    <2> HIDE DEF Y
    <2>5. c \in Books
      BY <2>3, <2>4 DEF Books
    <2>6. /\ HoldingsKept(b, c) /\ BalancesKept(b, c) /\ PenaltiesKept(b, c)
          /\ c.position = b.position /\ c.earning = b.earning
      BY <2>4 DEF Books, HoldingsKept, BalancesKept, PenaltiesKept
    <2> QED BY <2>5, <2>6
  <1> QED BY <1>1, <1>2

\* Both settlements of a transaction, and ...
LEMMA SettleShape ==
    ASSUME now \in Nat, NEW b, LedgerOK(b), NEW v \in Vaults, NEW m \in Members,
           NEW c, c = Settle(b, v, m, now)
    PROVE  Settled(b, c, v, m)
  <1> DEFINE a == SettlePenalties(b, v, m)
  <1>1. b \in Books
    BY DEF LedgerOK
  <1>2. /\ a \in Books /\ HoldingsKept(b, a) /\ BalancesKept(b, a) /\ YieldKept(b, a)
        /\ a.accPenalty = b.accPenalty
        /\ \A u \in Vaults, n \in Members : <<u, n>> # <<v, m>> =>
              /\ a.unclaimed[u][n] = b.unclaimed[u][n]
              /\ a.penaltyDebt[u][n] = b.penaltyDebt[u][n]
        /\ a.unclaimed[v][m] = Reward(b, v, m)
        /\ PendingPenalty(a, v, m) = 0
    <2> HIDE DEF a
    <2> QED BY <1>1, SettlePenaltiesShape DEF a
  <1> HIDE DEF a
  <1>3. LedgerOK(a)
    BY <1>2, LedgerKept DEF YieldKept
  <1>4. c = SettleYield(a, v, m, now)
    BY DEF Settle, a
  <1>5. YieldSettled(a, c, v, m) /\ (~EarningDeployed => c = a)
    BY <1>3, <1>4, SettleYieldShape
  <1>6. a.balance[v][m] = 0 => c.balance[v][m] = 0
    <2>1. CASE c = a
      BY <2>1
    <2>2. ASSUME NEW credit \in Nat, Credited(Accrue(a, v, now), c, v, m, credit)
          PROVE  a.balance[v][m] = 0 => c.balance[v][m] = 0
      <3>1. Accrued(a, Accrue(a, v, now), v)
        BY <1>3, AccrueShape
      <3>2. Accrue(a, v, now).balance = a.balance
        BY <3>1 DEF Accrued, BalancesKept
      <3> QED BY <2>2, <3>2 DEF Credited
    <2> QED BY <1>3, <1>4, <2>1, <2>2, SettleYieldShape
  <1> QED BY <1>2, <1>5, <1>6
          DEF Settled, YieldSettled, HoldingsKept, BalancesKept, YieldKept, PenaltiesKept

\* ... both snapshots.
LEMMA SnapshotShape ==
    ASSUME NEW b, LedgerOK(b), NEW v \in Vaults, NEW m \in Members,
           NEW c, c = Snapshot(b, v, m)
    PROVE  Snapped(b, c, v, m)
  <1> DEFINE a == SnapshotPenalties(b, v, m)
  <1>1. b \in Books
    BY DEF LedgerOK
  <1>2. /\ a \in Books /\ HoldingsKept(b, a) /\ BalancesKept(b, a) /\ YieldKept(b, a)
        /\ a.accPenalty = b.accPenalty /\ a.unclaimed = b.unclaimed
        /\ \A u \in Vaults, n \in Members : <<u, n>> # <<v, m>> =>
              a.penaltyDebt[u][n] = b.penaltyDebt[u][n]
        /\ PendingPenalty(a, v, m) = 0
    <2> HIDE DEF a
    <2> QED BY <1>1, SnapshotPenaltiesShape DEF a
  <1> HIDE DEF a
  <1>3. c = SnapshotYield(a, v, m)
    BY DEF Snapshot, a
  <1>4. /\ c \in Books /\ HoldingsKept(a, c) /\ BalancesKept(a, c) /\ PenaltiesKept(a, c)
        /\ c.position = a.position /\ c.earning = a.earning
    BY <1>2, <1>3, SnapshotYieldShape
  <1>5. HoldingsKept(b, c) /\ BalancesKept(b, c) /\ c.position = b.position
        /\ c.earning = b.earning
    BY <1>2, <1>4 DEF HoldingsKept, BalancesKept, YieldKept
  <1>6. LedgerOK(c)
    BY <1>4, <1>5, LedgerKept
  <1>7. PendingPenalty(c, v, m) = 0
    BY <1>2, <1>4 DEF PendingPenalty, AccruedPenalty, BalancesKept, PenaltiesKept
  <1> QED BY <1>2, <1>4, <1>5, <1>6, <1>7 DEF Snapped, PenaltiesKept

\* Books after money was moved: what is held where, and the position of v.
Moved(b, v, held, feesHeld, pool, poolShares, p) ==
    [b EXCEPT !.held = held, !.feesHeld = feesHeld, !.pool = pool,
              !.poolShares = poolShares, !.position[v] = p]

\* What a movement of money between the module and the strategy leaves alone.
Shifted(b, c, v) ==
    /\ LedgerOK(c) /\ BalancesKept(b, c) /\ PenaltiesKept(b, c)
    /\ Assets(c) = Assets(b) /\ c.earning = b.earning
    /\ \A u \in Vaults \ {v} : c.position[u] = b.position[u]

\* A vault alone in the strategy: the shares are its own, and what it owes is
\* there or was lost.
Backed(b, v, lost) ==
    /\ b.poolShares = b.position[v].shares
    /\ b.total[v] + b.position[v].owed + b.position[v].fees <= b.held + b.pool + lost
    /\ b.position[v].shares > 0 => b.total[v] <= b.held + b.position[v].principal

\* Where v was backed but for some loss it still is, but for the same loss.
KeepsBacking(b, c, v) == \A lost \in Nat : Backed(b, v, lost) => Backed(c, v, lost)

\* Backing is kept from step to step.
LEMMA BackingPassedOn ==
    ASSUME NEW b, NEW c, NEW d, NEW v, KeepsBacking(b, c, v), KeepsBacking(c, d, v)
    PROVE  KeepsBacking(b, d, v)
  BY DEF KeepsBacking

\* And so is all that is not moved.
LEMMA ShiftedTwice ==
    ASSUME NEW b, NEW c, NEW d, NEW v, Shifted(b, c, v), Shifted(c, d, v)
    PROVE  Shifted(b, d, v)
  BY DEF Shifted, BalancesKept, PenaltiesKept

\* Money moved between these three places is all still there.
SameAssets(b, held, feesHeld, pool) == held + pool + feesHeld = Assets(b)

\* What a movement did, field by field.
MovedTo(b, c, v, held, feesHeld, pool, poolShares, p) ==
    /\ Shifted(b, c, v)
    /\ c.held = held /\ c.feesHeld = feesHeld /\ c.pool = pool
    /\ c.poolShares = poolShares /\ c.position[v] = p /\ c.rounded = b.rounded

\* A movement that loses nothing is a shift.
LEMMA MovedShape ==
    ASSUME NEW b, LedgerOK(b), NEW v \in Vaults, NEW p \in Position, p.since <= now,
           NEW held \in Nat, NEW feesHeld \in Nat, NEW pool \in Nat, NEW poolShares \in Nat,
           SameAssets(b, held, feesHeld, pool),
           NEW c, c = Moved(b, v, held, feesHeld, pool, poolShares, p)
    PROVE  MovedTo(b, c, v, held, feesHeld, pool, poolShares, p)
  <1> DEFINE f == [b.position EXCEPT ![v] = p]
  <1>0. b \in Books
    BY DEF LedgerOK
  <1>1. /\ f \in [Vaults -> Position] /\ f[v] = p
        /\ \A u \in Vaults \ {v} : f[u] = b.position[u]
    BY <1>0 DEF Books
  <1>2. c = [b EXCEPT !.held = held, !.feesHeld = feesHeld, !.pool = pool,
                      !.poolShares = poolShares, !.position = f]
    BY DEF Moved
  <1> HIDE DEF f
  <1>3. c \in Books
    BY <1>0, <1>1, <1>2, Zenon DEF Books
  <1>4. /\ c.held = held /\ c.feesHeld = feesHeld /\ c.pool = pool
        /\ c.poolShares = poolShares /\ c.position = f /\ c.rounded = b.rounded
        /\ BalancesKept(b, c) /\ PenaltiesKept(b, c) /\ c.earning = b.earning
    BY <1>0, <1>2 DEF Books, BalancesKept, PenaltiesKept
  <1>5. LedgerOK(c)
    BY <1>1, <1>3, <1>4 DEF LedgerOK, BalancesKept
  <1>6. Assets(c) = Assets(b)
    BY <1>4 DEF Assets, SameAssets
  <1> QED BY <1>1, <1>4, <1>5, <1>6 DEF Shifted, MovedTo

\* An accrual moves no money and promises no more than there is.
LEMMA AccrueMoves ==
    ASSUME NEW b, NEW c, NEW v \in Vaults, LedgerOK(b), Accrued(b, c, v)
    PROVE  Shifted(b, c, v) /\ KeepsBacking(b, c, v)
  <1>0. b \in Books /\ c \in Books
    BY DEF LedgerOK, Accrued
  <1>1. Shifted(b, c, v)
    BY DEF Accrued, Shifted, Assets, HoldingsKept
  <1>2. ASSUME NEW lost \in Nat, Backed(b, v, lost)
        PROVE  Backed(c, v, lost)
    <2> DEFINE p == b.position[v]
               q == c.position[v]
               total == b.total[v]
    <2>1. /\ p \in Position /\ q \in Position /\ total \in Nat
          /\ b.held \in Nat /\ b.pool \in Nat
      BY <1>0 DEF Books
    <2>2. /\ c.total[v] = total /\ c.held = b.held /\ c.pool = b.pool
          /\ c.poolShares = b.poolShares /\ q.shares = p.shares /\ q.principal = p.principal
      BY DEF Accrued, HoldingsKept, BalancesKept
    <2>3. /\ p.owed \in Nat /\ p.fees \in Nat /\ p.principal \in Nat /\ p.shares \in Nat
          /\ q.owed \in Nat /\ q.fees \in Nat
      BY <2>1 DEF Position
    <2>4. Worth(b, p.shares) \in Nat /\ Worth(b, p.shares) <= b.pool
      BY <1>0, <1>2, <2>3, WorthType DEF Backed
    <2>5. \/ q.owed = p.owed /\ q.fees = p.fees
          \/ p.shares > 0 /\ p.principal + q.owed + q.fees <= Worth(b, p.shares)
      BY <2>2 DEF Accrued
    <2>6. /\ b.poolShares = p.shares
          /\ total + p.owed + p.fees <= b.held + b.pool + lost
          /\ p.shares > 0 => total <= b.held + p.principal
      BY <1>2 DEF Backed
    <2> HIDE DEF p, q, total
    <2>7. total + q.owed + q.fees <= b.held + b.pool + lost
      BY <2>1, <2>3, <2>4, <2>5, <2>6
    <2> QED BY <2>2, <2>6, <2>7 DEF Backed, p, q, total
  <1> QED BY <1>1, <1>2 DEF KeepsBacking

-----------------------------------------------------------------------------
(* The strategy.                                                           *)

\* How many shares a withdrawal burns.
Burned(b, assets) ==
    AtMost((assets * b.poolShares + TotalAssets(b) - 1) \div TotalAssets(b), b.poolShares)

\* A withdrawal burns no more shares than there are.
LEMMA BurnedType ==
    ASSUME NEW b \in Books, NEW assets \in Nat, TotalAssets(b) > 0
    PROVE  Burned(b, assets) \in Nat /\ Burned(b, assets) <= b.poolShares
  <1> DEFINE pool == TotalAssets(b)
             all == b.poolShares
             top == (assets * all + pool - 1) \div pool
  <1>1. pool \in Nat \ {0} /\ all \in Nat
    BY TotalAssetsType DEF Books
  <1> HIDE DEF pool, all
  <1>2. assets * all \in Nat
    BY <1>1, MulNat
  <1>3. assets * all + pool - 1 \in Nat
    BY <1>1, <1>2
  <1>4. top \in Nat
    BY <1>1, <1>3, DivNat
  <1> HIDE DEF top
  <1>5. AtMost(top, all) \in Nat /\ AtMost(top, all) <= all
    BY <1>1, <1>4, AtMostNat
  <1> QED BY <1>5 DEF Burned, top, pool, all

\* A deposit into the strategy mints a number of shares.
LEMMA SharesForType ==
    ASSUME NEW b \in Books, NEW assets \in Nat
    PROVE  SharesFor(b, assets) \in Nat
  <1> DEFINE pool == TotalAssets(b)
             all == b.poolShares
  <1>1. pool \in Nat /\ all \in Nat
    BY TotalAssetsType DEF Books
  <1>2. CASE all = 0 \/ pool = 0
    BY <1>2 DEF SharesFor
  <1>3. CASE all # 0 /\ pool # 0
    <2>1. SharesFor(b, assets) = (assets * all) \div pool
      BY <1>3 DEF SharesFor
    <2>2. pool \in Nat \ {0}
      BY <1>1, <1>3
    <2> HIDE DEF pool, all
    <2>3. (assets * all) \div pool \in Nat
      BY <1>1, <2>2, MulNat, DivNat
    <2> QED BY <2>1, <2>3
  <1> QED BY <1>2, <1>3

\* Books in which the strategy's balance in the pool was rounded off.
Rounded(b, rounded) == [b EXCEPT !.rounded = rounded]

\* What is rounded off is still in the pool.
LEMMA RoundedShape ==
    ASSUME NEW b, LedgerOK(b), NEW v \in Vaults, NEW rounded \in Nat,
           NEW c, c = Rounded(b, rounded)
    PROVE  /\ Shifted(b, c, v) /\ c.held = b.held /\ c.pool = b.pool
           /\ c.poolShares = b.poolShares /\ c.position = b.position
  <1>1. b \in Books
    BY DEF LedgerOK
  <1>2. c \in Books
    BY <1>1 DEF Rounded, Books
  <1>3. /\ BalancesKept(b, c) /\ PenaltiesKept(b, c) /\ YieldKept(b, c)
        /\ c.held = b.held /\ c.feesHeld = b.feesHeld /\ c.pool = b.pool
        /\ c.poolShares = b.poolShares
    BY <1>1 DEF Rounded, Books, BalancesKept, PenaltiesKept, YieldKept
  <1>4. LedgerOK(c)
    BY <1>2, <1>3, LedgerKept DEF YieldKept
  <1>5. Assets(c) = Assets(b)
    BY <1>3 DEF Assets
  <1> QED BY <1>3, <1>4, <1>5 DEF Shifted, YieldKept

\* What is idle goes to the strategy, with the position's principal raised by as
\* much, or stays where it is.
LEMMA InvestIdleShape ==
    ASSUME now \in Nat, NEW b, LedgerOK(b), NEW v \in Vaults, NEW answer \in Answers,
           CanInvest(b, v), NEW c, c = InvestIdle(b, v, now, answer)
    PROVE  /\ Shifted(b, c, v) /\ KeepsBacking(b, c, v)
           /\ ~EarningDeployed => c = b
  <1> DEFINE a == Accrue(b, v, now)
             p == a.position[v]
             amount == Idle(a, v)
             away == AtMost(answer.rounding, amount)
             shares == SharesFor(a, amount - away)
             q == [p EXCEPT !.shares = @ + shares, !.principal = @ + amount]
  <1>0. Accrued(b, a, v)
    BY AccrueShape
  <1>1. Shifted(b, a, v) /\ KeepsBacking(b, a, v)
    BY <1>0, AccrueMoves
  <1>2. CASE ~(EarningDeployed /\ b.earning[v] /\ b.total[v] > 0)
    <2>1. c = b
      BY <1>2 DEF InvestIdle
    <2> QED BY <2>1 DEF Shifted, KeepsBacking, BalancesKept, PenaltiesKept
  <1>3. CASE /\ EarningDeployed /\ b.earning[v] /\ b.total[v] > 0
             /\ amount = 0 \/ ~answer.accepts \/ shares = 0
    <2>1. c = a
      BY <1>3 DEF InvestIdle
    <2> QED BY <1>1, <1>3, <2>1
  <1>4. CASE /\ EarningDeployed /\ b.earning[v] /\ b.total[v] > 0
             /\ ~(amount = 0 \/ ~answer.accepts \/ shares = 0)
    <2> HIDE DEF a
    <2>1. a \in Books /\ LedgerOK(a)
      BY <1>0 DEF Accrued, LedgerOK
    <2>2. p \in Position /\ p.since <= now /\ p.shares \in Nat /\ p.principal \in Nat
          /\ a.held \in Nat /\ a.feesHeld \in Nat
          /\ a.pool \in Nat /\ a.poolShares \in Nat /\ a.total[v] \in Nat
      BY <2>1 DEF Books, Position, LedgerOK
    <2>3. amount = Idle(b, v) /\ a.held = b.held
      BY <1>0 DEF Accrued, Idle, BalancesKept, HoldingsKept
    <2>4. amount \in Nat
      <3> DEFINE total == a.total[v]
                 principal == p.principal
      <3>1. amount = total - AtMost(principal, total)
        BY DEF Idle
      <3> HIDE DEF total, principal, amount
      <3> QED BY <2>2, <3>1, AtMostNat DEF total, principal
    <2>5. amount > 0 /\ amount <= a.held
      <3> HIDE DEF amount
      <3>1. amount > 0
        BY <1>4, <2>4
      <3> QED BY <1>4, <2>3, <3>1 DEF CanInvest, Invests
    <2>6. away \in Nat /\ shares \in Nat
      <3> HIDE DEF amount
      <3>1. answer.rounding \in Nat
        BY LedgerAssumption DEF Answers
      <3>2. away \in Nat /\ away <= amount
        BY <2>4, <3>1, AtMostNat
      <3> HIDE DEF away
      <3>3. amount - away \in Nat
        BY <2>4, <3>2
      <3> QED BY <2>1, <3>2, <3>3, SharesForType
    <2> DEFINE moved == Moved(a, v, a.held - amount, a.feesHeld, a.pool + amount,
                              a.poolShares + shares, q)
    <2>7. c = Rounded(moved, a.rounded + away)
      <3>1. c = [a EXCEPT !.held = @ - amount, !.pool = @ + amount, !.rounded = @ + away,
                          !.poolShares = @ + shares, !.position[v] = q]
        BY <1>4 DEF InvestIdle, a
      <3> HIDE DEF amount, away, shares, q
      <3> QED BY <2>1, <3>1 DEF Moved, Rounded, Books
    <2> HIDE DEF amount, away, shares, moved
    <2>8. /\ q \in Position /\ q.since = p.since /\ q.shares = p.shares + shares
          /\ q.principal = p.principal + amount /\ q.owed = p.owed /\ q.fees = p.fees
      <3>1. p.shares + shares \in Nat /\ p.principal + amount \in Nat
        BY <2>2, <2>4, <2>6
      <3> HIDE DEF p
      <3> QED BY <2>2, <3>1 DEF Position
    <2> HIDE DEF q
    <2>9. /\ a.held - amount \in Nat /\ a.pool + amount \in Nat /\ a.poolShares + shares \in Nat
          /\ (a.held - amount) + (a.pool + amount) + a.feesHeld = Assets(a)
      BY <2>2, <2>4, <2>5, <2>6 DEF Assets
    <2>10. /\ Shifted(a, c, v) /\ c.held = a.held - amount /\ c.pool = a.pool + amount
           /\ c.poolShares = a.poolShares + shares /\ c.position[v] = q
      <3> DEFINE held == a.held - amount
                 pool == a.pool + amount
                 all == a.poolShares + shares
      <3>1. /\ held \in Nat /\ pool \in Nat /\ all \in Nat
            /\ SameAssets(a, held, a.feesHeld, pool)
            /\ moved = Moved(a, v, held, a.feesHeld, pool, all, q)
            /\ q.since <= now
        BY <2>2, <2>8, <2>9 DEF SameAssets, moved
      <3> HIDE DEF held, pool, all
      <3>2. MovedTo(a, moved, v, held, a.feesHeld, pool, all, q)
        <4> HIDE DEF q, p
        <4> QED BY <2>1, <2>2, <2>8, <3>1, MovedShape
      <3>3. Shifted(moved, c, v) /\ c.held = moved.held /\ c.pool = moved.pool
            /\ c.poolShares = moved.poolShares /\ c.position = moved.position
        <4>1. LedgerOK(moved)
          BY <3>2 DEF MovedTo, Shifted
        <4>2. a.rounded \in Nat
          BY <2>1 DEF Books
        <4>3. a.rounded + away \in Nat
          BY <2>6, <4>2
        <4> QED BY <2>7, <4>1, <4>3, RoundedShape
      <3>4. Shifted(a, c, v)
        BY <3>2, <3>3, ShiftedTwice DEF MovedTo
      <3> QED BY <3>2, <3>3, <3>4 DEF held, pool, all, MovedTo
    <2>11. Shifted(b, c, v)
      BY <1>1, <2>10, ShiftedTwice DEF a
    <2>12. ASSUME NEW lost \in Nat, Backed(a, v, lost)
           PROVE  Backed(c, v, lost)
      <3> DEFINE total == a.total[v]
                 principal == p.principal
      <3>1. amount = total - AtMost(principal, total) /\ c.total[v] = total
        BY <2>10 DEF Idle, amount, Shifted, BalancesKept
      <3>2. total <= a.held + principal
        <4> HIDE DEF total, principal
        <4> QED BY <2>2, <2>5, <3>1 DEF AtMost, total, principal
      <3>3. p.owed \in Nat /\ p.fees \in Nat
        BY <2>2 DEF Position
      <3> QED BY <2>2, <2>4, <2>6, <2>8, <2>10, <2>12, <3>1, <3>2, <3>3 DEF Backed
    <2>13. KeepsBacking(b, c, v)
      BY <1>1, <2>12, BackingPassedOn DEF KeepsBacking, a
    <2> QED BY <1>4, <2>11, <2>13
  <1> QED BY <1>2, <1>3, <1>4

\* A withdrawal from the strategy: the rest of the books follows.
LEMMA RedeemFields ==
    ASSUME NEW b \in Books, NEW v \in Vaults, NEW assets,
           NEW c, c = Redeem(b, v, assets)
    PROVE  c = Moved(b, v, b.held, b.feesHeld, b.pool - assets,
                     b.poolShares - Burned(b, assets),
                     [b.position[v] EXCEPT !.shares = @ - AtMost(Burned(b, assets), @)])
  <1> DEFINE burned == Burned(b, assets)
  <1>1. c = [b EXCEPT !.pool = @ - assets, !.poolShares = @ - burned,
                      !.position[v].shares = @ - AtMost(burned, @)]
    BY DEF Redeem, Burned
  <1> HIDE DEF burned
  <1>2. c = Moved(b, v, b.held, b.feesHeld, b.pool - assets, b.poolShares - burned,
                     [b.position[v] EXCEPT !.shares = @ - AtMost(burned, @)])
    BY <1>1, Zenon DEF Moved, Books
  <1> QED BY <1>2 DEF burned

\* The books after `assets' were withdrawn for v, `held' and `feesHeld' holding
\* them then and p being the position of v.
Drawn(b, c, v, assets, held, feesHeld, principal, fees) ==
    /\ LedgerOK(c)
    /\ Shifted(b, c, v)
    /\ c.held = held /\ c.feesHeld = feesHeld /\ c.pool = b.pool - assets
    /\ c.position[v].principal = principal /\ c.position[v].fees = fees
    /\ c.position[v].owed = b.position[v].owed
    /\ c.position[v].shares <= b.position[v].shares
    /\ b.poolShares = b.position[v].shares => c.poolShares = c.position[v].shares

\* How they come about.
Draw(b, v, assets, held, feesHeld, principal, fees) ==
    Moved(b, v, held, feesHeld, b.pool - assets, b.poolShares - Burned(b, assets),
          [b.position[v] EXCEPT !.shares = @ - AtMost(Burned(b, assets), @),
                                !.principal = principal, !.fees = fees])

\* A withdrawal from the strategy, wherever the money goes.
LEMMA DrawnShape ==
    ASSUME NEW b, LedgerOK(b), NEW v \in Vaults, NEW assets \in Nat,
           assets > 0, assets <= TotalAssets(b),
           NEW held \in Nat, NEW feesHeld \in Nat, NEW principal \in Nat, NEW fees \in Nat,
           SameAssets(b, held, feesHeld, b.pool - assets),
           NEW c, c = Draw(b, v, assets, held, feesHeld, principal, fees)
    PROVE  Drawn(b, c, v, assets, held, feesHeld, principal, fees)
  <1> DEFINE p == b.position[v]
             burned == Burned(b, assets)
             pool == b.pool - assets
             all == b.poolShares - burned
             left == p.shares - AtMost(burned, p.shares)
             q == [p EXCEPT !.shares = left, !.principal = principal, !.fees = fees]
  <1>1. /\ b \in Books /\ p \in Position /\ p.since <= now
        /\ p.shares \in Nat /\ p.owed \in Nat /\ b.poolShares \in Nat /\ b.pool \in Nat
    BY DEF LedgerOK, Books, Position
  <1>2. /\ burned \in Nat /\ burned <= b.poolShares
        /\ assets <= b.pool
    <2>1. /\ TotalAssets(b) \in Nat /\ TotalAssets(b) <= b.pool
          /\ TotalAssets(b) > 0
      BY <1>1, TotalAssetsType
    <2> QED BY <1>1, <2>1, BurnedType
  <1> HIDE DEF burned
  <1>3. /\ left \in Nat /\ left <= p.shares
        /\ b.poolShares = p.shares => all = left
    BY <1>1, <1>2 DEF AtMost
  <1>4. pool \in Nat /\ all \in Nat
    BY <1>1, <1>2
  <1>5. c = Moved(b, v, held, feesHeld, pool, all, q)
    BY DEF burned, Draw
  <1> HIDE DEF pool, all, left
  <1>6. /\ q \in Position /\ q.since = p.since /\ q.shares = left
        /\ q.principal = principal /\ q.fees = fees /\ q.owed = p.owed
    <2> HIDE DEF p
    <2> QED BY <1>1, <1>3 DEF Position
  <1>7. SameAssets(b, held, feesHeld, pool) /\ q.since <= now
    BY <1>1, <1>6 DEF pool
  <1>8. MovedTo(b, c, v, held, feesHeld, pool, all, q)
    <2> HIDE DEF q, p
    <2> QED BY <1>4, <1>5, <1>6, <1>7, MovedShape
  <1> QED BY <1>3, <1>6, <1>8 DEF Drawn, MovedTo, Shifted, pool

\* What a payment is short of is drawn from the strategy, and the principal lowered
\* by as much: the vault is as backed as before.
LEMMA EnsureLiquidityShape ==
    ASSUME now \in Nat, NEW b, LedgerOK(b), NEW v \in Vaults, NEW needed \in Nat,
           CanEnsureLiquidity(b, v, needed), NEW c, c = EnsureLiquidity(b, v, needed, now)
    PROVE  /\ Shifted(b, c, v) /\ KeepsBacking(b, c, v)
           /\ ~EarningDeployed => c = b
  <1> DEFINE short == Shortfall(b, v, needed)
             a == Accrue(b, v, now)
             p == a.position[v]
  <1>1. CASE short = 0
    <2>1. c = b
      BY <1>1 DEF EnsureLiquidity
    <2> QED BY <2>1 DEF Shifted, KeepsBacking, BalancesKept, PenaltiesKept
  <1>2. CASE short # 0
    <2>1. Accrued(b, a, v)
      BY AccrueShape
    <2>2. Shifted(b, a, v) /\ KeepsBacking(b, a, v)
      BY <2>1, AccrueMoves
    <2>3. EarningDeployed
      BY <1>2 DEF Shortfall
    <2>4. /\ b.total[v] \in Nat /\ b.position[v].principal \in Nat
      BY DEF LedgerOK, Books, Position
    <2>5. short \in Nat
      <3> DEFINE total == b.total[v]
                 principal == b.position[v].principal
                 idle == total - AtMost(principal, total)
      <3>1. idle = Idle(b, v)
        BY DEF Idle
      <3>2. idle \in Nat
        <4> HIDE DEF total, principal
        <4> QED BY <2>4, AtMostNat DEF total, principal
      <3> HIDE DEF idle
      <3> QED BY <3>1, <3>2 DEF Shortfall
    <2> HIDE DEF short
    <2>6. short > 0
      BY <1>2, <2>5
    <2>7. short <= b.position[v].principal /\ short <= TotalAssets(b)
      BY <2>6 DEF CanEnsureLiquidity, CanRedeem, short
    <2>8. c = [Redeem(a, v, short) EXCEPT !.position[v].principal = @ - short,
                                          !.held = @ + short]
      BY <1>2 DEF EnsureLiquidity, short
    <2> HIDE DEF a
    <2>9. LedgerOK(a) /\ a \in Books /\ p.principal = b.position[v].principal
          /\ short <= TotalAssets(a)
      <3> HIDE DEF p, short
      <3>1. TotalAssets(a) = TotalAssets(b)
        BY <2>1 DEF Accrued, HoldingsKept, TotalAssets
      <3> QED BY <2>1, <2>7, <3>1 DEF Accrued, LedgerOK, p
    <2>10. p \in Position /\ p.principal \in Nat /\ p.fees \in Nat /\ p.shares \in Nat
           /\ a.held \in Nat /\ a.feesHeld \in Nat /\ a.pool \in Nat
      BY <2>9 DEF Books, Position
    <2> DEFINE held == a.held + short
               principal == p.principal - short
               left == p.shares - AtMost(Burned(a, short), p.shares)
    <2>11. c = Moved(a, v, held, a.feesHeld, a.pool - short, a.poolShares - Burned(a, short),
                     [p EXCEPT !.shares = @ - AtMost(Burned(a, short), @),
                               !.principal = principal, !.fees = p.fees])
      <3> DEFINE d == Redeem(a, v, short)
                 f == [a.position EXCEPT ![v] = [p EXCEPT !.shares = left]]
      <3>1. d = Moved(a, v, a.held, a.feesHeld, a.pool - short,
                      a.poolShares - Burned(a, short), [p EXCEPT !.shares = left])
        BY <2>9, RedeemFields
      <3>2. c = [d EXCEPT !.position[v].principal = @ - short, !.held = @ + short]
        BY <2>8
      <3> HIDE DEF d, left
      <3>3. d = [a EXCEPT !.held = a.held, !.feesHeld = a.feesHeld, !.pool = a.pool - short,
                          !.poolShares = a.poolShares - Burned(a, short), !.position = f]
        BY <3>1 DEF Moved
      <3>4. f[v] = [p EXCEPT !.shares = left] /\ f[v].principal = p.principal
        BY <2>9, <2>10 DEF Books, Position
      <3>5. [f EXCEPT ![v].principal = @ - short]
             = [a.position EXCEPT ![v] = [p EXCEPT !.shares = left, !.principal = principal,
                                                   !.fees = p.fees]]
        <4>1. f[v] = [p EXCEPT !.shares = left] /\ a.position \in [Vaults -> Position]
          BY <3>4, <2>9 DEF Books
        <4>2. [[p EXCEPT !.shares = left] EXCEPT !.principal = @ - short]
              = [p EXCEPT !.shares = left, !.principal = principal, !.fees = p.fees]
          <5> HIDE DEF p
          <5> QED BY <2>10 DEF Position
        <4> QED BY <4>1, <4>2
      <3> HIDE DEF f
      <3>6. c = [a EXCEPT !.held = a.held + short, !.feesHeld = a.feesHeld,
                          !.pool = a.pool - short,
                          !.poolShares = a.poolShares - Burned(a, short),
                          !.position = [f EXCEPT ![v].principal = @ - short]]
        BY <2>9, <3>2, <3>3 DEF Books
      <3> QED BY <3>5, <3>6 DEF Moved, left
    <2>12. /\ held \in Nat /\ principal \in Nat
           /\ SameAssets(a, held, a.feesHeld, a.pool - short)
      BY <2>5, <2>7, <2>9, <2>10 DEF SameAssets, Assets
    <2>13. Drawn(a, c, v, short, held, a.feesHeld, principal, p.fees)
      <3>1. c = Draw(a, v, short, held, a.feesHeld, principal, p.fees)
        BY <2>11 DEF Draw
      <3> HIDE DEF held, principal
      <3> QED BY <2>5, <2>6, <2>9, <2>10, <2>12, <3>1, DrawnShape
    <2>14. Shifted(b, c, v)
      BY <2>2, <2>13, ShiftedTwice DEF Drawn, a
    <2>15. ASSUME NEW lost \in Nat, Backed(a, v, lost)
           PROVE  Backed(c, v, lost)
      <3>1. c.total[v] = a.total[v] /\ a.total[v] \in Nat /\ p.owed \in Nat
            /\ c.position[v].shares \in Nat
        BY <2>9, <2>10, <2>13 DEF Drawn, Shifted, BalancesKept, Books, Position, LedgerOK
      <3> QED BY <2>5, <2>10, <2>13, <2>15, <3>1 DEF Drawn, Backed
    <2>16. KeepsBacking(b, c, v)
      BY <2>2, <2>15, BackingPassedOn DEF KeepsBacking, a
    <2> QED BY <2>3, <2>14, <2>16
  <1> QED BY <1>1, <1>2

\* The fees left the strategy, or there was nothing to take them from.
Taken(b, c, v) ==
    /\ LedgerOK(c) /\ Shifted(b, c, v)
    /\ c.held = b.held
    /\ c.position[v].principal = b.position[v].principal
    /\ c.position[v].owed = b.position[v].owed
    /\ c.pool - c.position[v].fees = b.pool - b.position[v].fees
    /\ c.position[v].shares <= b.position[v].shares
    /\ b.poolShares = b.position[v].shares => c.poolShares = c.position[v].shares

\* Realising the fees takes them out of the strategy and out of the position.
LEMMA TakeFeesShape ==
    ASSUME NEW b, LedgerOK(b), NEW v \in Vaults,
           b.position[v].shares > 0 => CanRedeem(b, b.position[v].fees),
           NEW c, c = TakeFees(b, v)
    PROVE  Taken(b, c, v)
  <1> DEFINE p == b.position[v]
             fees == p.fees
             held == b.feesHeld + fees
             left == p.shares - AtMost(Burned(b, fees), p.shares)
  <1>1. /\ b \in Books /\ p \in Position /\ fees \in Nat /\ p.shares \in Nat
        /\ p.principal \in Nat /\ b.held \in Nat /\ b.feesHeld \in Nat /\ b.pool \in Nat
    BY DEF LedgerOK, Books, Position
  <1>2. CASE fees = 0 \/ p.shares = 0
    <2>1. c = b
      BY <1>2 DEF TakeFees
    <2> QED BY <1>1, <2>1 DEF Taken, Shifted, BalancesKept, PenaltiesKept
  <1>3. CASE ~(fees = 0 \/ p.shares = 0)
    <2>1. fees > 0 /\ fees <= TotalAssets(b)
      BY <1>1, <1>3 DEF CanRedeem
    <2>2. c = [Redeem(b, v, fees) EXCEPT !.position[v].fees = 0, !.feesHeld = @ + fees]
      BY <1>3 DEF TakeFees
    <2>3. c = Moved(b, v, b.held, held, b.pool - fees, b.poolShares - Burned(b, fees),
                    [p EXCEPT !.shares = @ - AtMost(Burned(b, fees), @),
                              !.principal = p.principal, !.fees = 0])
      <3> DEFINE d == Redeem(b, v, fees)
                 f == [b.position EXCEPT ![v] = [p EXCEPT !.shares = left]]
      <3>1. d = Moved(b, v, b.held, b.feesHeld, b.pool - fees,
                      b.poolShares - Burned(b, fees), [p EXCEPT !.shares = left])
        BY <1>1, RedeemFields
      <3>2. c = [d EXCEPT !.position[v].fees = 0, !.feesHeld = @ + fees]
        BY <2>2
      <3> HIDE DEF d, left
      <3>3. d = [b EXCEPT !.held = b.held, !.feesHeld = b.feesHeld, !.pool = b.pool - fees,
                          !.poolShares = b.poolShares - Burned(b, fees), !.position = f]
        BY <3>1 DEF Moved
      <3>4. [f EXCEPT ![v].fees = 0]
             = [b.position EXCEPT ![v] = [p EXCEPT !.shares = left, !.principal = p.principal,
                                                   !.fees = 0]]
        <4>1. f[v] = [p EXCEPT !.shares = left] /\ b.position \in [Vaults -> Position]
          BY <1>1 DEF Books
        <4>2. [[p EXCEPT !.shares = left] EXCEPT !.fees = 0]
              = [p EXCEPT !.shares = left, !.principal = p.principal, !.fees = 0]
          <5> HIDE DEF p
          <5> QED BY <1>1 DEF Position
        <4> QED BY <4>1, <4>2
      <3> HIDE DEF f, fees
      <3>5. c = [b EXCEPT !.held = b.held, !.feesHeld = b.feesHeld + fees,
                          !.pool = b.pool - fees,
                          !.poolShares = b.poolShares - Burned(b, fees),
                          !.position = [f EXCEPT ![v].fees = 0]]
        BY <1>1, <3>2, <3>3 DEF Books
      <3> QED BY <3>4, <3>5 DEF Moved, left
    <2>4. held \in Nat /\ SameAssets(b, b.held, held, b.pool - fees)
      BY <1>1 DEF SameAssets, Assets
    <2>5. Drawn(b, c, v, fees, b.held, held, p.principal, 0)
      <3>1. c = Draw(b, v, fees, b.held, held, p.principal, 0)
        BY <2>3 DEF Draw
      <3> HIDE DEF held, fees
      <3> QED BY <1>1, <2>1, <2>4, <3>1, DrawnShape
    <2> QED BY <1>1, <2>5 DEF Taken, Drawn
  <1> QED BY <1>2, <1>3

\* The fees go with what they were owed for.
LEMMA TakeFeesBacking ==
    ASSUME NEW b, LedgerOK(b), NEW v \in Vaults, NEW c, Taken(b, c, v)
    PROVE  KeepsBacking(b, c, v)
  <1>1. ASSUME NEW lost \in Nat, Backed(b, v, lost)
        PROVE  Backed(c, v, lost)
    <2>1. /\ b \in Books /\ c \in Books /\ c.total[v] = b.total[v]
      BY DEF LedgerOK, Taken, Shifted, BalancesKept
    <2>2. /\ b.total[v] \in Nat /\ b.held \in Nat /\ b.pool \in Nat /\ c.pool \in Nat
          /\ b.position[v] \in Position /\ c.position[v] \in Position
      BY <2>1 DEF Books
    <2>3. /\ b.position[v].owed \in Nat /\ b.position[v].fees \in Nat
          /\ c.position[v].fees \in Nat /\ b.position[v].shares \in Nat
          /\ c.position[v].shares \in Nat
      BY <2>2 DEF Position
    <2> QED BY <1>1, <2>1, <2>2, <2>3 DEF Backed, Taken
  <1> QED BY <1>1 DEF KeepsBacking

\* Fees are realised after an accrual.
LEMMA RealizeFeesShape ==
    ASSUME now \in Nat, NEW b, LedgerOK(b), NEW v \in Vaults,
           Accrue(b, v, now).position[v].shares > 0
              => CanRedeem(Accrue(b, v, now), Accrue(b, v, now).position[v].fees),
           NEW c, c = TakeFees(Accrue(b, v, now), v)
    PROVE  Shifted(b, c, v) /\ KeepsBacking(b, c, v)
  <1> DEFINE a == Accrue(b, v, now)
  <1>1. Accrued(b, a, v)
    BY AccrueShape
  <1>2. LedgerOK(a) /\ Shifted(b, a, v) /\ KeepsBacking(b, a, v)
    BY <1>1, AccrueMoves DEF Accrued
  <1> HIDE DEF a
  <1>3. Taken(a, c, v)
    BY <1>2, TakeFeesShape DEF a
  <1>4. Shifted(a, c, v) /\ KeepsBacking(a, c, v)
    BY <1>2, <1>3, TakeFeesBacking DEF Taken
  <1> QED BY <1>2, <1>4, ShiftedTwice, BackingPassedOn

\* Leaving the strategy brings back what the shares are worth, and no more is
\* promised than that and what was lost.
LEMMA DivestAllShape ==
    ASSUME now \in Nat, NEW b, LedgerOK(b), NEW v \in Vaults, CanDivest(b, v, now),
           NEW c, c = DivestAll(b, v, now)
    PROVE  Shifted(b, c, v) /\ KeepsBacking(b, c, v)
  <1> DEFINE a == Accrue(b, v, now)
             p == a.position[v]
             z == [p EXCEPT !.principal = 0]
             y == [a EXCEPT !.position[v].principal = 0]
             d == WithoutFees(b, v, now)
             shares == d.position[v].shares
             assets == Worth(d, shares)
             q == [d.position[v] EXCEPT !.shares = 0]
  <1>1. Accrued(b, a, v)
    BY AccrueShape
  <1>2. LedgerOK(a) /\ Shifted(b, a, v) /\ KeepsBacking(b, a, v)
    BY <1>1, AccrueMoves DEF Accrued
  <1>3. /\ d = TakeFees(y, v)
        /\ p.shares > 0 => /\ CanRedeem(a, p.fees)
                           /\ shares <= d.poolShares
    BY DEF CanDivest, WithoutFees
  <1>4. c = [d EXCEPT !.held = @ + assets, !.pool = @ - assets,
                      !.poolShares = @ - shares, !.position[v].shares = 0]
    BY DEF DivestAll
  <1> HIDE DEF a, d
  <1>5. /\ a \in Books /\ p \in Position /\ p.since <= now
        /\ a.held \in Nat /\ a.feesHeld \in Nat /\ a.pool \in Nat /\ a.poolShares \in Nat
        /\ a.total[v] \in Nat
    BY <1>2 DEF LedgerOK, Books
  <1>6. y = Moved(a, v, a.held, a.feesHeld, a.pool, a.poolShares, z)
    BY <1>5 DEF Moved, Books
  <1>7. /\ z \in Position /\ z.since = p.since /\ z.principal = 0 /\ z.owed = p.owed
        /\ z.fees = p.fees /\ z.shares = p.shares
        /\ p.owed \in Nat /\ p.fees \in Nat /\ p.shares \in Nat
    <2> HIDE DEF p
    <2> QED BY <1>5 DEF Position
  <1>8. MovedTo(a, y, v, a.held, a.feesHeld, a.pool, a.poolShares, z)
    <2>1. SameAssets(a, a.held, a.feesHeld, a.pool)
      BY <1>5 DEF SameAssets, Assets
    <2> HIDE DEF z, y, p
    <2> QED BY <1>2, <1>5, <1>6, <1>7, <2>1, MovedShape
  <1> HIDE DEF y, z
  <1>9. /\ LedgerOK(y) /\ Shifted(a, y, v) /\ y.position[v] = z
        /\ y.held = a.held /\ y.pool = a.pool /\ y.poolShares = a.poolShares
        /\ TotalAssets(y) = TotalAssets(a)
    BY <1>8 DEF MovedTo, Shifted, TotalAssets
  <1>10. Taken(y, d, v)
    <2>1. y.position[v].shares > 0 => CanRedeem(y, y.position[v].fees)
      BY <1>3, <1>7, <1>9 DEF CanRedeem
    <2> QED BY <1>3, <1>9, <2>1, TakeFeesShape
  <1>11. /\ LedgerOK(d) /\ Shifted(y, d, v) /\ d \in Books /\ d.position[v] \in Position
         /\ d.position[v].since <= now /\ shares \in Nat
         /\ d.held \in Nat /\ d.feesHeld \in Nat /\ d.pool \in Nat /\ d.poolShares \in Nat
    BY <1>10 DEF Taken, LedgerOK, Books, Position
  <1>12. shares <= d.poolShares
    <2>1. CASE p.shares > 0
      BY <1>3, <2>1
    <2>2. CASE p.shares = 0
      BY <1>7, <1>9, <1>10, <1>11, <2>2 DEF Taken
    <2> QED BY <1>7, <2>1, <2>2
  <1>13. assets \in Nat /\ assets <= d.pool
    BY <1>11, <1>12, WorthType
  <1> DEFINE held == d.held + assets
             pool == d.pool - assets
             all == d.poolShares - shares
  <1>14. held \in Nat /\ pool \in Nat /\ all \in Nat /\ SameAssets(d, held, d.feesHeld, pool)
    BY <1>11, <1>12, <1>13 DEF SameAssets, Assets
  <1>15. c = Moved(d, v, held, d.feesHeld, pool, all, q)
    <2> HIDE DEF assets, shares
    <2> QED BY <1>4, <1>11 DEF Moved, Books
  <1>16. /\ q \in Position /\ q.since <= now /\ q.shares = 0 /\ q.fees = d.position[v].fees
         /\ q.owed = d.position[v].owed
    <2> DEFINE r == d.position[v]
    <2>1. r \in Position /\ r.since <= now /\ q = [r EXCEPT !.shares = 0]
      BY <1>11
    <2> HIDE DEF r, q
    <2>2. /\ q \in Position /\ q.since <= now /\ q.shares = 0 /\ q.fees = r.fees
          /\ q.owed = r.owed
      BY <2>1 DEF Position
    <2> QED BY <2>2 DEF r
  <1>17. MovedTo(d, c, v, held, d.feesHeld, pool, all, q)
    <2> HIDE DEF held, pool, all, q
    <2> QED BY <1>11, <1>14, <1>15, <1>16, MovedShape
  <1>18. Shifted(b, c, v)
    <2>1. Shifted(d, c, v)
      BY <1>17 DEF MovedTo
    <2> QED BY <1>2, <1>9, <1>11, <2>1, ShiftedTwice
  <1>19. ASSUME NEW lost \in Nat, Backed(a, v, lost)
         PROVE  Backed(c, v, lost)
    <2>1. /\ a.poolShares = p.shares
          /\ a.total[v] + p.owed + p.fees <= a.held + a.pool + lost
      BY <1>19 DEF Backed
    <2>2. c.total[v] = a.total[v]
      BY <1>9, <1>11, <1>17 DEF MovedTo, Shifted, BalancesKept
    <2>3. /\ d.held = a.held /\ d.position[v].owed = p.owed
          /\ d.pool - d.position[v].fees = a.pool - p.fees
          /\ d.poolShares = shares
      BY <1>7, <1>9, <1>10, <2>1 DEF Taken
    <2>4. /\ c.position[v].shares = 0 /\ c.poolShares = 0
          /\ c.position[v].owed = p.owed /\ c.position[v].fees = d.position[v].fees
      BY <1>11, <1>16, <1>17, <2>3 DEF MovedTo
    <2>5. c.held + c.pool = d.held + d.pool /\ d.position[v].fees \in Nat
      BY <1>11, <1>13, <1>17 DEF MovedTo, Position
    <2> QED BY <1>5, <1>7, <1>11, <1>17, <2>1, <2>2, <2>3, <2>4, <2>5 DEF Backed, MovedTo
  <1>20. KeepsBacking(b, c, v)
    BY <1>2, <1>19, BackingPassedOn DEF KeepsBacking
  <1> QED BY <1>18, <1>20

-----------------------------------------------------------------------------
(* What a member's transactions do to the books.                           *)

\* A vault that is only spoken of differently keeps its backing.
LEMMA QuietBacking ==
    ASSUME NEW b, NEW c, NEW v, HoldingsKept(b, c), c.total[v] = b.total[v],
           c.position[v] = b.position[v]
    PROVE  KeepsBacking(b, c, v)
  BY DEF KeepsBacking, Backed, HoldingsKept

\* Settled yield is the members' instead of owed to them.
LEMMA SettleBacking ==
    ASSUME now \in Nat, NEW b, LedgerOK(b), NEW v \in Vaults, NEW m \in Members,
           NEW c, c = SettleYield(b, v, m, now)
    PROVE  KeepsBacking(b, c, v)
  <1> DEFINE a == Accrue(b, v, now)
  <1>1. YieldSettled(b, c, v, m) /\ (c = b \/ \E credit \in Nat : Credited(a, c, v, m, credit))
    BY SettleYieldShape
  <1>2. Accrued(b, a, v)
    BY AccrueShape
  <1>3. KeepsBacking(b, a, v)
    BY <1>2, AccrueMoves
  <1> HIDE DEF a
  <1>4. CASE c = b
    BY <1>4 DEF KeepsBacking
  <1>5. ASSUME NEW credit \in Nat, Credited(a, c, v, m, credit)
        PROVE  KeepsBacking(b, c, v)
    <2>1. HoldingsKept(a, c)
      BY <1>1, <1>2 DEF HoldingsKept, YieldSettled, Accrued
    <2>2. a \in Books
      BY <1>2 DEF Accrued, LedgerOK
    <2>3. /\ a.total[v] \in Nat /\ a.held \in Nat /\ a.pool \in Nat
          /\ a.position[v].owed \in Nat /\ a.position[v].fees \in Nat
          /\ a.position[v].principal \in Nat /\ a.position[v].shares \in Nat
      BY <2>2 DEF Books, Position
    <2>4. ASSUME NEW lost \in Nat, Backed(a, v, lost)
          PROVE  Backed(c, v, lost)
      BY <1>5, <2>1, <2>3, <2>4 DEF HoldingsKept, Backed, Credited
    <2> QED BY <1>3, <2>4, BackingPassedOn DEF KeepsBacking
  <1> QED BY <1>1, <1>4, <1>5

\* And penalties are no part of the backing.
LEMMA MemberBacking ==
    ASSUME now \in Nat, NEW b, LedgerOK(b), NEW v \in Vaults, NEW m \in Members,
           NEW c, c = Settle(b, v, m, now)
    PROVE  KeepsBacking(b, c, v)
  <1> DEFINE a == SettlePenalties(b, v, m)
  <1>1. b \in Books
    BY DEF LedgerOK
  <1>2. /\ a \in Books /\ HoldingsKept(b, a) /\ BalancesKept(b, a) /\ YieldKept(b, a)
    <2> HIDE DEF a
    <2> QED BY <1>1, SettlePenaltiesShape DEF a
  <1>3. c = SettleYield(a, v, m, now)
    BY DEF Settle
  <1> HIDE DEF a
  <1>4. LedgerOK(a)
    BY <1>2, LedgerKept DEF YieldKept
  <1>5. KeepsBacking(a, c, v)
    BY <1>3, <1>4, SettleBacking
  <1>6. KeepsBacking(b, a, v)
    BY <1>2, QuietBacking DEF BalancesKept, YieldKept
  <1> QED BY <1>5, <1>6, BackingPassedOn

\* m's balance in v, and what is held, change by x.
Changed(s, c, v, m, x) ==
    /\ LedgerOK(c) /\ PenaltiesKept(s, c)
    /\ c.held = s.held + x /\ c.feesHeld = s.feesHeld
    /\ c.pool = s.pool /\ c.poolShares = s.poolShares
    /\ c.position = s.position /\ c.earning = s.earning
    /\ c.balance[v][m] = s.balance[v][m] + x
    /\ c.total[v] = s.total[v] + x
    /\ \A u \in Vaults \ {v} : c.total[u] = s.total[u] /\ c.balance[u] = s.balance[u]
    /\ \A n \in Members \ {m} : c.balance[v][n] = s.balance[v][n]

\* Books in which that was done.
ChangedBy(s, v, m, x) ==
    [s EXCEPT !.held = @ + x, !.balance[v][m] = @ + x, !.total[v] = @ + x]

\* The total follows the balance.
LEMMA ChangedShape ==
    ASSUME NEW s, LedgerOK(s), NEW v \in Vaults, NEW m \in Members,
           NEW x \in Int, s.held + x \in Nat, s.balance[v][m] + x \in Nat,
           NEW c, c = ChangedBy(s, v, m, x)
    PROVE  Changed(s, c, v, m, x)
  <1> DEFINE y == s.balance[v][m] + x
             h == s.held + x
             F == Rebalanced(s, v, m, y)
             G == Retotalled(s, v, m, y)
  <1>1. s \in Books /\ s.balance[v][m] \in Nat /\ s.total[v] \in Nat /\ s.held \in Nat
    BY DEF LedgerOK, Books
  <1>2. SumsAgree(F, G)
    <2> HIDE DEF y
    <2> QED BY TotalFollows DEF y
  <1>3. /\ F[v][m] = y /\ G[v] = s.total[v] + x
        /\ \A u \in Vaults \ {v} : F[u] = s.balance[u] /\ G[u] = s.total[u]
        /\ \A n \in Members \ {m} : F[v][n] = s.balance[v][n]
    BY <1>1 DEF Books, Rebalanced, Retotalled
  <1>4. c = [s EXCEPT !.held = h, !.balance = F, !.total = G]
    <2>1. s.total[v] + x = s.total[v] + (y - s.balance[v][m])
      BY <1>1
    <2> QED BY <2>1 DEF ChangedBy, Rebalanced, Retotalled
  <1> HIDE DEF F, G, h
  <1>5. c \in Books
    BY <1>1, <1>2, <1>4 DEF Books, SumsAgree, h
  <1>6. /\ PenaltiesKept(s, c) /\ c.held = h /\ c.feesHeld = s.feesHeld
        /\ c.pool = s.pool /\ c.poolShares = s.poolShares
        /\ c.position = s.position /\ c.earning = s.earning
        /\ c.balance = F /\ c.total = G
    BY <1>1, <1>4 DEF Books, PenaltiesKept
  <1>7. LedgerOK(c)
    BY <1>2, <1>5, <1>6 DEF LedgerOK, SumsAgree
  <1> QED BY <1>3, <1>6, <1>7 DEF Changed, h

\* What is owed and what is held change by the same amount.
LEMMA ChangedBacking ==
    ASSUME NEW s, NEW c, NEW v \in Vaults, NEW m \in Members, NEW x \in Int,
           LedgerOK(s), Changed(s, c, v, m, x)
    PROVE  KeepsBacking(s, c, v)
  <1>1. s \in Books
    BY DEF LedgerOK
  <1>2. /\ s.total[v] \in Nat /\ s.held \in Nat /\ s.pool \in Nat
        /\ s.position[v].owed \in Nat /\ s.position[v].fees \in Nat
        /\ s.position[v].principal \in Nat
    BY <1>1 DEF Books, Position
  <1> QED BY <1>2 DEF KeepsBacking, Backed, Changed

\* A deposit adds its amount, ...
LEMMA CreditShape ==
    ASSUME NEW s, LedgerOK(s), NEW v \in Vaults, NEW m \in Members, NEW amount \in Nat,
           NEW c, c = Credit(s, v, m, amount)
    PROVE  Changed(s, c, v, m, amount)
  <1>1. s.held \in Nat /\ s.balance[v][m] \in Nat
    BY DEF LedgerOK, Books
  <1>2. s.held + amount \in Nat /\ s.balance[v][m] + amount \in Nat /\ amount \in Int
    BY <1>1
  <1>3. c = ChangedBy(s, v, m, amount)
    BY DEF Credit, ChangedBy
  <1> QED BY <1>2, <1>3, ChangedShape

\* ... and a payment takes it.
LEMMA DebitShape ==
    ASSUME NEW s, LedgerOK(s), NEW v \in Vaults, NEW m \in Members, NEW amount \in Nat,
           amount <= s.held, amount <= s.balance[v][m],
           NEW c, c = Debit(s, v, m, amount)
    PROVE  Changed(s, c, v, m, -amount)
  <1>1. s.held \in Nat /\ s.balance[v][m] \in Nat /\ s.total[v] \in Nat /\ s \in Books
    BY DEF LedgerOK, Books
  <1> DEFINE x == -amount
  <1>2. c = ChangedBy(s, v, m, x)
    <2>1. /\ s.held - amount = s.held + (-amount)
          /\ s.balance[v][m] - amount = s.balance[v][m] + (-amount)
          /\ s.total[v] - amount = s.total[v] + (-amount)
      BY <1>1
    <2> QED BY <2>1 DEF Debit, ChangedBy
  <1>3. s.held + x \in Nat /\ s.balance[v][m] + x \in Nat /\ x \in Int
    BY <1>1
  <1>4. Changed(s, c, v, m, x)
    <2> HIDE DEF x
    <2> QED BY <1>2, <1>3, ChangedShape
  <1> QED BY <1>4

\* A member's transaction as a whole: the books b become c, the member's settled
\* balance and the vault's total change by x, and all there is by y.
Transacted(b, c, v, m, x, y) ==
    /\ LedgerOK(c)
    /\ Assets(c) = Assets(b) + y
    /\ c.balance[v][m] = Settle(b, v, m, now).balance[v][m] + x
    /\ \A u \in Vaults \ {v} : /\ c.total[u] = b.total[u] /\ c.balance[u] = b.balance[u]
                               /\ c.position[u] = b.position[u]
    /\ \A n \in Members \ {m} : c.balance[v][n] = b.balance[v][n]
    /\ \A u \in Vaults, n \in Members : <<u, n>> # <<v, m>> =>
          /\ c.unclaimed[u][n] = b.unclaimed[u][n]
          /\ c.penaltyDebt[u][n] = b.penaltyDebt[u][n]
    /\ c.unclaimed[v][m] = Reward(b, v, m)
    /\ PendingPenalty(c, v, m) = 0
    /\ ~EarningDeployed => /\ c.position = b.position
                           /\ c.pool = b.pool /\ c.feesHeld = b.feesHeld
                           /\ Settle(b, v, m, now).balance = b.balance
                           /\ c.total[v] = b.total[v] + x

\* A deposit: settled, credited, noted, and the idle money invested.
LEMMA DepositShape ==
    ASSUME now \in Nat, NEW b, LedgerOK(b), NEW v \in Vaults, NEW m \in Members,
           NEW amount \in Nat, NEW answer \in Answers,
           NEW credited,
           credited = Snapshot(Credit(Settle(b, v, m, now), v, m, amount), v, m),
           CanInvest(credited, v), NEW c, c = InvestIdle(credited, v, now, answer)
    PROVE  /\ Transacted(b, c, v, m, amount, amount) /\ c.accPenalty = b.accPenalty
           /\ KeepsBacking(b, c, v)
  <1> DEFINE s == Settle(b, v, m, now)
             d == Credit(s, v, m, amount)
  <1>1. Settled(b, s, v, m) /\ LedgerOK(s) /\ KeepsBacking(b, s, v)
    BY SettleShape, MemberBacking DEF Settled
  <1> HIDE DEF s
  <1>2. Changed(s, d, v, m, amount) /\ LedgerOK(d)
    <2>1. Changed(s, d, v, m, amount)
      <3> HIDE DEF d
      <3> QED BY <1>1, CreditShape DEF d
    <2> QED BY <2>1 DEF Changed
  <1> HIDE DEF d
  <1>3. KeepsBacking(s, d, v)
    BY <1>1, <1>2, ChangedBacking
  <1>4. credited = Snapshot(d, v, m)
    BY DEF s, d
  <1>5. Snapped(d, credited, v, m) /\ LedgerOK(credited)
    <2>1. Snapped(d, credited, v, m)
      BY <1>2, <1>4, SnapshotShape
    <2> QED BY <2>1 DEF Snapped
  <1>6. KeepsBacking(d, credited, v)
    BY <1>5, QuietBacking DEF Snapped, BalancesKept
  <1>7. Shifted(credited, c, v) /\ KeepsBacking(credited, c, v)
        /\ (~EarningDeployed => c = credited)
    BY <1>5, InvestIdleShape
  <1>8. KeepsBacking(b, c, v)
    BY <1>1, <1>3, <1>6, <1>7, BackingPassedOn
  <1>9. PendingPenalty(c, v, m) = 0 /\ c.accPenalty = b.accPenalty
    BY <1>1, <1>2, <1>5, <1>7
       DEF Settled, Changed, Snapped, Shifted, PendingPenalty, AccruedPenalty, PenaltiesKept,
           BalancesKept
  <1>10. Assets(c) = Assets(b) + amount
    <2>1. b.held \in Nat /\ b.pool \in Nat /\ b.feesHeld \in Nat
      BY DEF LedgerOK, Books
    <2> QED BY <1>1, <1>2, <1>5, <1>7, <2>1
            DEF Settled, Changed, Snapped, Shifted, Assets, HoldingsKept
  <1>11. /\ \A u \in Vaults \ {v} : /\ c.total[u] = b.total[u] /\ c.balance[u] = b.balance[u]
                                    /\ c.position[u] = b.position[u]
         /\ \A n \in Members \ {m} : c.balance[v][n] = b.balance[v][n]
         /\ c.balance[v][m] = s.balance[v][m] + amount
    BY <1>1, <1>2, <1>5, <1>7
       DEF Settled, Changed, Snapped, Shifted, BalancesKept
  <1>12. /\ \A u \in Vaults, n \in Members : <<u, n>> # <<v, m>> =>
               /\ c.unclaimed[u][n] = b.unclaimed[u][n]
               /\ c.penaltyDebt[u][n] = b.penaltyDebt[u][n]
         /\ c.unclaimed[v][m] = Reward(b, v, m)
    BY <1>1, <1>2, <1>5, <1>7
       DEF Settled, Changed, Snapped, Shifted, PenaltiesKept
  <1>13. ~EarningDeployed => /\ c.position = b.position
                             /\ c.pool = b.pool /\ c.feesHeld = b.feesHeld
                             /\ s.balance = b.balance
                             /\ c.total[v] = b.total[v] + amount
    BY <1>1, <1>2, <1>5, <1>7
       DEF Settled, Changed, Snapped, YieldKept, BalancesKept, HoldingsKept
  <1>14. LedgerOK(c)
    BY <1>7 DEF Shifted
  <1> QED BY <1>8, <1>9, <1>10, <1>11, <1>12, <1>13, <1>14 DEF Transacted, s

\* A payment of which `left' leaves, before the snapshots: e is what becomes of
\* the settled books.
PaidOut(b, e, v, m, amount, left) ==
    /\ LedgerOK(e) /\ Assets(e) = Assets(b) - left
    /\ e.accPenalty = b.accPenalty
    /\ e.balance[v][m] = Settle(b, v, m, now).balance[v][m] - amount
    /\ \A u \in Vaults \ {v} : /\ e.total[u] = b.total[u] /\ e.balance[u] = b.balance[u]
                               /\ e.position[u] = b.position[u]
    /\ \A n \in Members \ {m} : e.balance[v][n] = b.balance[v][n]
    /\ \A u \in Vaults, n \in Members : <<u, n>> # <<v, m>> =>
          /\ e.unclaimed[u][n] = b.unclaimed[u][n]
          /\ e.penaltyDebt[u][n] = b.penaltyDebt[u][n]
    /\ e.unclaimed[v][m] = Reward(b, v, m)
    /\ ~EarningDeployed => /\ e.position = b.position
                           /\ e.pool = b.pool /\ e.feesHeld = b.feesHeld
                           /\ Settle(b, v, m, now).balance = b.balance
                           /\ e.total[v] = b.total[v] - amount

\* The settled books, and what they are once the money is liquid.
Liquid(b, s, d, v, m, amount) ==
    /\ Settled(b, s, v, m) /\ LedgerOK(s) /\ KeepsBacking(b, s, v)
    /\ Shifted(s, d, v) /\ KeepsBacking(s, d, v) /\ (~EarningDeployed => d = s)
    /\ LedgerOK(d) /\ d \in Books /\ d.balance = s.balance /\ d.total = s.total
    /\ amount <= d.balance[v][m]

\* Making a payment liquid moves what is short of it out of the strategy.
LEMMA LiquidShape ==
    ASSUME now \in Nat, NEW b, LedgerOK(b), NEW v \in Vaults, NEW m \in Members,
           NEW amount \in Nat, NEW s, s = Settle(b, v, m, now), MayTake(s, v, m, amount),
           NEW d, d = EnsureLiquidity(s, v, amount, now)
    PROVE  Liquid(b, s, d, v, m, amount)
  <1>1. Settled(b, s, v, m)
    BY SettleShape
  <1>2. LedgerOK(s) /\ KeepsBacking(b, s, v)
    BY <1>1, MemberBacking DEF Settled
  <1>3. CanEnsureLiquidity(s, v, amount) /\ amount <= s.balance[v][m]
    BY DEF MayTake
  <1>4. Shifted(s, d, v) /\ KeepsBacking(s, d, v) /\ (~EarningDeployed => d = s)
    BY <1>2, <1>3, EnsureLiquidityShape
  <1>5. LedgerOK(d) /\ d \in Books /\ d.balance = s.balance /\ d.total = s.total
    BY <1>4 DEF Shifted, BalancesKept, LedgerOK
  <1> QED BY <1>1, <1>2, <1>3, <1>4, <1>5 DEF Liquid

\* Books of which a part is not paid out.
Topped(d, stays) == [d EXCEPT !.held = @ + stays]

\* What a payment does before the snapshots when a part of it stays.
LEMMA ExitShape ==
    ASSUME NEW b, LedgerOK(b), NEW v \in Vaults, NEW m \in Members,
           NEW amount \in Nat, NEW stays \in Nat, NEW s, s = Settle(b, v, m, now),
           NEW d, Liquid(b, s, d, v, m, amount), amount - stays <= d.held,
           NEW e, e = Debit(Topped(d, stays), v, m, amount)
    PROVE  PaidOut(b, e, v, m, amount, amount - stays)
  <1> DEFINE g == Topped(d, stays)
  <1> USE DEF Liquid
  <1>1. Settled(b, s, v, m) /\ LedgerOK(s) /\ Shifted(s, d, v)
    OBVIOUS
  <1>2. d.held \in Nat /\ d.pool \in Nat /\ d.feesHeld \in Nat
    BY DEF Books
  <1>3. /\ g \in Books /\ BalancesKept(d, g) /\ PenaltiesKept(d, g) /\ YieldKept(d, g)
        /\ g.held = d.held + stays /\ g.pool = d.pool /\ g.feesHeld = d.feesHeld
    <2> DEFINE h == d.held + stays
    <2>1. h \in Nat /\ g = [d EXCEPT !.held = h]
      BY <1>2 DEF Topped
    <2> HIDE DEF h, g
    <2>2. g \in Books
      BY <2>1 DEF Books
    <2>3. /\ BalancesKept(d, g) /\ PenaltiesKept(d, g) /\ YieldKept(d, g)
          /\ g.held = h /\ g.pool = d.pool /\ g.feesHeld = d.feesHeld
      BY <2>1 DEF Books, BalancesKept, PenaltiesKept, YieldKept
    <2> QED BY <2>2, <2>3 DEF h
  <1> HIDE DEF g
  <1>4. LedgerOK(g)
    BY <1>3, LedgerKept DEF YieldKept
  <1>5. Changed(g, e, v, m, -amount)
    <2>1. amount <= g.held /\ amount <= g.balance[v][m]
      BY <1>2, <1>3 DEF BalancesKept
    <2> QED BY <1>4, <2>1, DebitShape DEF g
  <1>6. Assets(e) = Assets(b) - (amount - stays)
    <2>1. /\ b.held \in Nat /\ b.pool \in Nat /\ b.feesHeld \in Nat
      BY DEF LedgerOK, Books
    <2>2. Assets(s) = Assets(b) /\ Assets(d) = Assets(s)
      BY <1>1 DEF Settled, Shifted, Assets, HoldingsKept
    <2>3. e.held = (d.held + stays) - amount /\ e.pool = d.pool /\ e.feesHeld = d.feesHeld
      BY <1>2, <1>3, <1>5 DEF Changed
    <2> QED BY <1>2, <2>1, <2>2, <2>3 DEF Assets
  <1>7. /\ \A u \in Vaults \ {v} : /\ e.total[u] = b.total[u] /\ e.balance[u] = b.balance[u]
                                   /\ e.position[u] = b.position[u]
        /\ \A n \in Members \ {m} : e.balance[v][n] = b.balance[v][n]
        /\ e.accPenalty = b.accPenalty
        /\ LedgerOK(e)
    BY <1>1, <1>3, <1>5
       DEF Settled, Changed, Shifted, BalancesKept, PenaltiesKept, YieldKept
  <1>8. e.balance[v][m] = s.balance[v][m] - amount
    <2>1. s.balance[v][m] \in Nat
      BY <1>1 DEF LedgerOK, Books
    <2> QED BY <1>3, <1>5, <2>1 DEF Changed, BalancesKept
  <1>9. /\ \A u \in Vaults, n \in Members : <<u, n>> # <<v, m>> =>
              /\ e.unclaimed[u][n] = b.unclaimed[u][n]
              /\ e.penaltyDebt[u][n] = b.penaltyDebt[u][n]
        /\ e.unclaimed[v][m] = Reward(b, v, m)
    BY <1>1, <1>3, <1>5 DEF Settled, Changed, Shifted, PenaltiesKept
  <1>10. ASSUME ~EarningDeployed
         PROVE  /\ e.position = b.position
                /\ e.pool = b.pool /\ e.feesHeld = b.feesHeld
                /\ s.balance = b.balance
                /\ e.total[v] = b.total[v] - amount
    <2>1. b.total[v] \in Nat
      BY DEF LedgerOK, Books
    <2>2. d = s
      BY <1>10
    <2> QED BY <1>1, <1>3, <1>5, <1>10, <2>1, <2>2
            DEF Settled, Changed, YieldKept, BalancesKept, HoldingsKept
  <1> QED BY <1>6, <1>7, <1>8, <1>9, <1>10 DEF PaidOut

\* What a payment does before the snapshots, the strategy included.
LEMMA PaidShape ==
    ASSUME now \in Nat, NEW b, LedgerOK(b), NEW v \in Vaults, NEW m \in Members,
           NEW amount \in Nat, NEW s, s = Settle(b, v, m, now),
           MayTake(s, v, m, amount), Payable(s, v, amount, amount),
           NEW e, e = Paid(s, v, m, amount)
    PROVE  PaidOut(b, e, v, m, amount, amount) /\ KeepsBacking(b, e, v)
  <1> DEFINE d == EnsureLiquidity(s, v, amount, now)
             stays == 0
  <1>1. Liquid(b, s, d, v, m, amount)
    <2> HIDE DEF d
    <2> QED BY LiquidShape DEF d
  <1>2. amount <= d.held /\ e = Debit(d, v, m, amount)
    BY DEF Payable, Paid
  <1> HIDE DEF d
  <1>3. d \in Books /\ LedgerOK(d) /\ d.held \in Nat /\ amount <= d.balance[v][m]
    BY <1>1 DEF Liquid, Books
  <1>4. PaidOut(b, e, v, m, amount, amount)
    <2>1. d.held + stays = d.held /\ amount - stays = amount
      BY <1>3
    <2>2. Topped(d, stays) = d
      BY <1>3, <2>1 DEF Topped, Books
    <2>3. stays \in Nat /\ amount - stays <= d.held
      BY <1>2, <2>1
    <2>4. e = Debit(Topped(d, stays), v, m, amount)
      BY <1>2, <2>2
    <2> HIDE DEF stays
    <2> QED BY <1>1, <2>1, <2>3, <2>4, ExitShape
  <1>5. KeepsBacking(d, e, v)
    <2> DEFINE x == -amount
    <2>1. x \in Int /\ Changed(d, e, v, m, x)
      BY <1>2, <1>3, DebitShape
    <2> HIDE DEF x
    <2> QED BY <1>3, <2>1, ChangedBacking
  <1>6. KeepsBacking(b, e, v)
    BY <1>1, <1>5, BackingPassedOn DEF Liquid
  <1> QED BY <1>4, <1>6

\* A payment: settled, made liquid, debited, noted.
LEMMA WithdrawShape ==
    ASSUME now \in Nat, NEW b, LedgerOK(b), NEW v \in Vaults, NEW m \in Members,
           NEW amount \in Nat, NEW s, s = Settle(b, v, m, now),
           MayTake(s, v, m, amount), Payable(s, v, amount, amount),
           NEW c, c = Snapshot(Paid(s, v, m, amount), v, m)
    PROVE  /\ Transacted(b, c, v, m, -amount, -amount) /\ c.accPenalty = b.accPenalty
           /\ KeepsBacking(b, c, v)
  <1> DEFINE e == Paid(s, v, m, amount)
  <1>1. PaidOut(b, e, v, m, amount, amount) /\ KeepsBacking(b, e, v)
    <2> HIDE DEF e
    <2> QED BY PaidShape DEF e
  <1> HIDE DEF e
  <1>2. LedgerOK(e)
    BY <1>1 DEF PaidOut
  <1>3. Snapped(e, c, v, m)
    BY <1>2, SnapshotShape DEF e
  <1>4. KeepsBacking(e, c, v)
    BY <1>3, QuietBacking DEF Snapped, BalancesKept
  <1>5. /\ b.held \in Nat /\ b.pool \in Nat /\ b.feesHeld \in Nat /\ b.total[v] \in Nat
        /\ s.balance[v][m] \in Nat
    <2>1. Settled(b, s, v, m)
      BY SettleShape
    <2> QED BY <2>1 DEF Settled, LedgerOK, Books
  <1>6. Assets(c) = Assets(b) + (-amount)
    <2>1. Assets(c) = Assets(e)
      BY <1>3 DEF Snapped, HoldingsKept, Assets
    <2>2. Assets(b) \in Nat
      BY <1>5 DEF Assets
    <2> QED BY <1>1, <2>1, <2>2 DEF PaidOut
  <1>7. c.balance[v][m] = s.balance[v][m] + (-amount)
    BY <1>1, <1>3, <1>5 DEF Snapped, PaidOut, BalancesKept
  <1>8. ~EarningDeployed => /\ c.position = b.position
                            /\ c.pool = b.pool /\ c.feesHeld = b.feesHeld
                            /\ s.balance = b.balance
                            /\ c.total[v] = b.total[v] + (-amount)
    BY <1>1, <1>3, <1>5 DEF Snapped, PaidOut, BalancesKept, HoldingsKept
  <1>9. Transacted(b, c, v, m, -amount, -amount)
    BY <1>1, <1>3, <1>6, <1>7, <1>8 DEF Snapped, PaidOut, BalancesKept, Transacted
  <1>10. c.accPenalty = b.accPenalty
    BY <1>1, <1>3 DEF Snapped, PaidOut
  <1>11. KeepsBacking(b, c, v)
    BY <1>1, <1>4, BackingPassedOn
  <1> QED BY <1>9, <1>10, <1>11

\* A shared penalty raises the accumulator by what each unit held is worth of it.
PenaltyShared(b, c, v, penalty) ==
    /\ c.total[v] > 0
    /\ \E inc \in Nat : /\ c.accPenalty = [b.accPenalty EXCEPT ![v] = b.accPenalty[v] + inc]
                        /\ inc * c.total[v] <= penalty * PenaltyPrecision

\* An early exit: the penalty stays, for those who stay to share.
LEMMA PenaltyShape ==
    ASSUME now \in Nat, NEW b, LedgerOK(b), NEW v \in Vaults, NEW m \in Members,
           NEW amount \in Nat, NEW s, s = Settle(b, v, m, now),
           NEW penalty \in Nat,
           MayTake(s, v, m, amount), Payable(s, v, amount, amount - penalty),
           v \in Community, Paid(s, v, m, amount).total[v] > 0,
           NEW c, c = Snapshot(Shared(Paid(s, v, m, amount), v, penalty), v, m)
    PROVE  Transacted(b, c, v, m, -amount, penalty - amount) /\ PenaltyShared(b, c, v, penalty)
  <1> DEFINE d == EnsureLiquidity(s, v, amount, now)
             g == Debit(Topped(d, penalty), v, m, amount)
             e == Paid(s, v, m, amount)
             inc == (penalty * PenaltyPrecision) \div g.total[v]
             f == Shared(e, v, penalty)
             A == [g.accPenalty EXCEPT ![v] = g.accPenalty[v] + inc]
  <1>1. Liquid(b, s, d, v, m, amount)
    <2> HIDE DEF d
    <2> QED BY LiquidShape DEF d
  <1>2. PaidOut(b, g, v, m, amount, amount - penalty)
    <2>1. amount - penalty <= d.held
      BY DEF Payable
    <2> HIDE DEF d, g
    <2> QED BY <1>1, <2>1, ExitShape DEF g
  <1>3. e = Debit(d, v, m, amount) /\ e.total[v] > 0 /\ c = Snapshot(f, v, m)
    BY DEF Paid
  <1>4. f = [e EXCEPT !.held = @ + penalty,
                      !.accPenalty[v] = @ + (penalty * PenaltyPrecision) \div e.total[v]]
    BY <1>3 DEF Shared
  <1> HIDE DEF d, e, f
  <1>5. g.total[v] > 0 /\ f = [g EXCEPT !.accPenalty = A]
    <2> DEFINE B == [d.balance EXCEPT ![v][m] = @ - amount]
               T == [d.total EXCEPT ![v] = @ - amount]
               h == (d.held + penalty) - amount
    <2>1. d \in Books /\ d.held \in Nat
      BY <1>1 DEF Liquid, Books
    <2>2. e = [d EXCEPT !.held = @ - amount, !.balance = B, !.total = T]
      BY <1>3 DEF Debit
    <2>3. g = [d EXCEPT !.held = h, !.balance = B, !.total = T]
      <3>1. /\ Topped(d, penalty).held = d.held + penalty
            /\ Topped(d, penalty).balance = d.balance /\ Topped(d, penalty).total = d.total
        BY <2>1 DEF Topped, Books
      <3>2. g = [Topped(d, penalty) EXCEPT !.held = h, !.balance = B, !.total = T]
        BY <3>1 DEF Debit
      <3> HIDE DEF g, B, T, h
      <3> QED BY <2>1, <3>2 DEF Topped, Books
    <2>4. (d.held - amount) + penalty = h
      BY <2>1
    <2> HIDE DEF B, T, h, g
    <2>5. /\ e.total = T /\ g.total = T /\ e.held = d.held - amount
          /\ e.accPenalty = d.accPenalty /\ g.accPenalty = d.accPenalty
      BY <2>1, <2>2, <2>3 DEF Books
    <2>6. f = [e EXCEPT !.held = h, !.accPenalty = A]
      BY <1>4, <2>4, <2>5
    <2> HIDE DEF A
    <2> QED BY <1>3, <2>1, <2>2, <2>3, <2>5, <2>6 DEF Books
  <1> HIDE DEF g
  <1>6. LedgerOK(g) /\ g \in Books /\ g.total[v] \in Nat \ {0} /\ g.held \in Nat
        /\ g.accPenalty[v] \in Nat /\ g.accPenalty \in [Vaults -> Nat]
    BY <1>2, <1>5 DEF PaidOut, LedgerOK, Books
  <1>7. inc \in Nat /\ inc * g.total[v] <= penalty * PenaltyPrecision
    <2> DEFINE total == g.total[v]
               all == penalty * PenaltyPrecision
    <2>1. total \in Nat \ {0} /\ all \in Nat
      BY <1>6, MulNat, LedgerAssumption
    <2> HIDE DEF total, all
    <2>2. all \div total \in Nat /\ (all \div total) * total <= all
      BY <2>1
    <2> QED BY <2>2 DEF total, all
  <1> HIDE DEF inc
  <1>8. A \in [Vaults -> Nat]
    BY <1>6, <1>7
  <1> HIDE DEF A
  <1>9. f \in Books
    BY <1>5, <1>6, <1>8 DEF Books
  <1>10. /\ f.held = g.held /\ f.feesHeld = g.feesHeld /\ f.pool = g.pool
         /\ BalancesKept(g, f) /\ YieldKept(g, f) /\ f.accPenalty = A
         /\ f.penaltyDebt = g.penaltyDebt /\ f.unclaimed = g.unclaimed
    BY <1>5, <1>6 DEF Books, BalancesKept, YieldKept
  <1>11. LedgerOK(f)
    BY <1>6, <1>9, <1>10, LedgerKept DEF YieldKept
  <1>12. Snapped(f, c, v, m)
    BY <1>3, <1>11, SnapshotShape
  <1>13. /\ b.held \in Nat /\ b.pool \in Nat /\ b.feesHeld \in Nat /\ b.total[v] \in Nat
         /\ s.balance[v][m] \in Nat
    <2>1. Settled(b, s, v, m)
      BY SettleShape
    <2> QED BY <2>1 DEF Settled, LedgerOK, Books
  <1>14. Assets(c) = Assets(b) + (penalty - amount)
    <2>1. Assets(c) = Assets(f)
      BY <1>12 DEF Snapped, HoldingsKept, Assets
    <2>2. Assets(f) = Assets(g)
      BY <1>10 DEF Assets
    <2>3. Assets(b) \in Nat
      BY <1>13 DEF Assets
    <2> QED BY <1>2, <2>1, <2>2, <2>3 DEF PaidOut
  <1>15. c.balance[v][m] = s.balance[v][m] + (-amount)
    BY <1>2, <1>10, <1>12, <1>13 DEF Snapped, PaidOut, BalancesKept
  <1>16. ~EarningDeployed => /\ c.position = b.position
                             /\ c.pool = b.pool /\ c.feesHeld = b.feesHeld
                             /\ s.balance = b.balance
                             /\ c.total[v] = b.total[v] + (-amount)
    BY <1>2, <1>10, <1>12, <1>13 DEF Snapped, PaidOut, BalancesKept, HoldingsKept, YieldKept
  <1>17. Transacted(b, c, v, m, -amount, penalty - amount)
    BY <1>2, <1>10, <1>12, <1>14, <1>15, <1>16
       DEF Snapped, PaidOut, BalancesKept, YieldKept, Transacted
  <1>18. c.total[v] = g.total[v] /\ c.accPenalty = A /\ g.accPenalty = b.accPenalty
    BY <1>2, <1>10, <1>12 DEF Snapped, BalancesKept, PaidOut
  <1>19. PenaltyShared(b, c, v, penalty)
    BY <1>5, <1>7, <1>18 DEF PenaltyShared, A
  <1> QED BY <1>17, <1>19

\* With nobody to share it the penalty leaves with the payment.
LEMMA PenaltyToTreasury ==
    ASSUME NEW d, NEW v, NEW penalty, ~(v \in Community /\ d.total[v] > 0)
    PROVE  Shared(d, v, penalty) = d
  BY DEF Shared

\* A claim pays what the member had coming and nothing else.
Claimed(b, c, v, m) ==
    /\ LedgerOK(c) /\ BalancesKept(b, c) /\ YieldKept(b, c) /\ c.accPenalty = b.accPenalty
    /\ c.held = b.held - Reward(b, v, m) /\ c.feesHeld = b.feesHeld
    /\ c.pool = b.pool /\ c.poolShares = b.poolShares
    /\ \A u \in Vaults, n \in Members : <<u, n>> # <<v, m>> =>
          /\ c.unclaimed[u][n] = b.unclaimed[u][n]
          /\ c.penaltyDebt[u][n] = b.penaltyDebt[u][n]
    /\ c.unclaimed[v][m] = 0 /\ PendingPenalty(c, v, m) = 0

\* A claim is paid out of what the module holds.
LEMMA ClaimShape ==
    ASSUME NEW b, LedgerOK(b), NEW v \in Vaults, NEW m \in Members,
           NEW s, s = SettlePenalties(b, v, m), s.unclaimed[v][m] <= s.held,
           NEW c, c = [s EXCEPT !.unclaimed[v][m] = 0, !.held = @ - s.unclaimed[v][m]]
    PROVE  Claimed(b, c, v, m)
  <1>0. b \in Books
    BY DEF LedgerOK
  <1>1. /\ s \in Books /\ HoldingsKept(b, s) /\ BalancesKept(b, s) /\ YieldKept(b, s)
        /\ s.accPenalty = b.accPenalty
        /\ \A u \in Vaults, n \in Members : <<u, n>> # <<v, m>> =>
              /\ s.unclaimed[u][n] = b.unclaimed[u][n]
              /\ s.penaltyDebt[u][n] = b.penaltyDebt[u][n]
        /\ s.unclaimed[v][m] = Reward(b, v, m)
        /\ PendingPenalty(s, v, m) = 0
    BY <1>0, SettlePenaltiesShape
  <1> DEFINE g == [s.unclaimed EXCEPT ![v][m] = 0]
             h == s.held - s.unclaimed[v][m]
  <1>2. /\ g \in [Vaults -> [Members -> Nat]] /\ g[v][m] = 0
        /\ \A u \in Vaults, n \in Members : <<u, n>> # <<v, m>> =>
              g[u][n] = s.unclaimed[u][n]
    <2>1. 0 \in Nat /\ s.unclaimed \in [Vaults -> [Members -> Nat]]
      BY <1>1 DEF Books
    <2> QED BY <2>1, EntryUpdate
  <1>3. h \in Nat
    BY <1>1 DEF Books
  <1>4. c = [s EXCEPT !.unclaimed = g, !.held = h]
    OBVIOUS
  <1> HIDE DEF g, h
  <1>5. c \in Books
    BY <1>1, <1>2, <1>3, <1>4 DEF Books
  <1>6. /\ c.held = h /\ c.feesHeld = s.feesHeld /\ c.pool = s.pool
        /\ c.poolShares = s.poolShares /\ BalancesKept(s, c) /\ YieldKept(s, c)
        /\ c.accPenalty = s.accPenalty /\ c.penaltyDebt = s.penaltyDebt /\ c.unclaimed = g
    BY <1>1, <1>4 DEF Books, BalancesKept, YieldKept
  <1>7. BalancesKept(b, c) /\ YieldKept(b, c)
    BY <1>1, <1>6 DEF BalancesKept, YieldKept
  <1>8. LedgerOK(c)
    BY <1>5, <1>7, LedgerKept DEF YieldKept
  <1>9. PendingPenalty(c, v, m) = 0
    BY <1>1, <1>6 DEF PendingPenalty, AccruedPenalty, BalancesKept
  <1>10. c.held = b.held - Reward(b, v, m)
    BY <1>1, <1>6 DEF h, HoldingsKept
  <1> QED BY <1>1, <1>2, <1>6, <1>7, <1>8, <1>9, <1>10 DEF Claimed, HoldingsKept

\* Compounding: the settled yield, noted.
Compounded(b, c, v, m) ==
    /\ LedgerOK(c) /\ HoldingsKept(b, c) /\ PenaltiesKept(b, c)
    /\ \A u \in Vaults \ {v} : c.balance[u] = b.balance[u]
    /\ \A n \in Members \ {m} : c.balance[v][n] = b.balance[v][n]
    /\ ~EarningDeployed => c = b

\* Compounding changes no balance but the one, and moves no money.
LEMMA CompoundShape ==
    ASSUME now \in Nat, NEW b, LedgerOK(b), NEW v \in Vaults, NEW m \in Members,
           NEW c, c = SnapshotYield(SettleYield(b, v, m, now), v, m)
    PROVE  /\ Compounded(b, c, v, m) /\ KeepsBacking(b, c, v)
           /\ b.balance[v][m] = 0 => c.balance[v][m] = 0
  <1> DEFINE a == SettleYield(b, v, m, now)
  <1>1. YieldSettled(b, a, v, m) /\ (~EarningDeployed => a = b)
    BY SettleYieldShape
  <1>2. KeepsBacking(b, a, v)
    BY SettleBacking
  <1>3. b.balance[v][m] = 0 => a.balance[v][m] = 0
    <2>1. CASE a = b
      BY <2>1
    <2>2. ASSUME NEW credit \in Nat, Credited(Accrue(b, v, now), a, v, m, credit)
          PROVE  b.balance[v][m] = 0 => a.balance[v][m] = 0
      <3>1. Accrued(b, Accrue(b, v, now), v)
        BY AccrueShape
      <3>2. Accrue(b, v, now).balance = b.balance
        BY <3>1 DEF Accrued, BalancesKept
      <3> HIDE DEF a
      <3> QED BY <2>2, <3>2 DEF Credited
    <2> QED BY <2>1, <2>2, SettleYieldShape
  <1> HIDE DEF a
  <1>4. LedgerOK(a) /\ a \in Books
    BY <1>1 DEF YieldSettled, LedgerOK
  <1>5. /\ c \in Books /\ HoldingsKept(a, c) /\ BalancesKept(a, c) /\ PenaltiesKept(a, c)
        /\ c.position = a.position /\ c.earning = a.earning
    BY <1>4, SnapshotYieldShape DEF a
  <1>6. LedgerOK(c)
    BY <1>4, <1>5, LedgerKept
  <1>7. KeepsBacking(a, c, v)
    BY <1>5, QuietBacking DEF BalancesKept
  <1>8. KeepsBacking(b, c, v)
    BY <1>2, <1>7, BackingPassedOn
  <1>9. ~EarningDeployed => c = b
    BY <1>1 DEF SnapshotYield, a
  <1>10. Compounded(b, c, v, m)
    BY <1>1, <1>5, <1>6, <1>9
       DEF Compounded, YieldSettled, HoldingsKept, PenaltiesKept, BalancesKept
  <1> QED BY <1>3, <1>5, <1>8, <1>10 DEF BalancesKept

-----------------------------------------------------------------------------
(* What is true in every state.                                            *)

\* Who is in a vault: its creator first, and nobody else in a personal one.
MembershipOK ==
    /\ members \in [Vaults -> SUBSET Members] /\ accepted \in [Vaults -> SUBSET Tokens]
    /\ \A v \in Vaults : /\ members[v] # {} => CreatorOf[v] \in members[v]
                         /\ v \in Personal => members[v] \subseteq {CreatorOf[v]}

\* Whoever is not in a vault, or is but in another token.
Outside(v, m, t) == m \notin members[v] \/ t \notin accepted[v]

\* Nobody outside a vault has anything in it.
BookOK(b, t) ==
    /\ LedgerOK(b)
    /\ \A v \in Vaults, m \in Members :
          Outside(v, m, t) => b.balance[v][m] = 0 /\ b.unclaimed[v][m] = 0

\* All books are in order.
BooksOK == /\ books = [t \in Tokens |-> books[t]]
           /\ \A t \in Tokens : BookOK(books[t], t)

\* What was counted: penalties of a vault, income and losses of a token.
CountsOK == /\ penalties \in [Vaults -> Nat]
            /\ market \in [Tokens -> [earned : Nat, lost : Nat]]

\* What is true of the money in every state.
FundsInv == now \in Nat /\ MembershipOK /\ BooksOK /\ CountsOK

-----------------------------------------------------------------------------
(* Who is in a vault.                                                      *)

\* Only the life of a vault changes who is in it.
LEMMA SameMembers ==
    ASSUME NEW v \in Vaults, FundsStep(v) \/ EarningStep(v)
    PROVE  UNCHANGED <<now, members, accepted>>
  <1>1. ASSUME NEW m \in Members, NEW t \in Tokens, NEW amount \in Sums,
               NEW answer \in Answers, Deposit(v, m, t, amount, answer)
        PROVE  UNCHANGED <<now, members, accepted>>
    BY <1>1 DEF Deposit
  <1>2. ASSUME NEW m \in Members, NEW t \in Tokens, NEW amount \in Sums,
               Withdraw(v, m, t, amount)
        PROVE  UNCHANGED <<now, members, accepted>>
    BY <1>2 DEF Withdraw
  <1>3. ASSUME NEW m \in Members, NEW t \in Tokens, NEW amount \in Sums,
               WithdrawWithPenalty(v, m, t, amount)
        PROVE  UNCHANGED <<now, members, accepted>>
    BY <1>3 DEF WithdrawWithPenalty
  <1>4. ASSUME NEW m \in Members, NEW t \in Tokens, NEW amount \in Sums, NEW skip \in Names,
               RequestBypass(v, m, t, amount, skip)
        PROVE  UNCHANGED <<now, members, accepted>>
    BY <1>4 DEF RequestBypass
  <1>5. ASSUME NEW m \in Members, NEW t \in Tokens, ClaimPenaltyRewards(v, m, t)
        PROVE  UNCHANGED <<now, members, accepted>>
    BY <1>5 DEF ClaimPenaltyRewards
  <1>6. ASSUME NEW m \in Members, NEW r \in bypass[<<v, m>>],
               ExecuteBypass(v, m, r) \/ CancelBypass(v, m, r)
        PROVE  UNCHANGED <<now, members, accepted>>
    BY <1>6 DEF ExecuteBypass, CancelBypass
  <1>7. ASSUME NEW t \in Tokens, NEW on \in BOOLEAN, NEW answer \in Answers,
               SetYieldMode(v, t, on, answer)
        PROVE  UNCHANGED <<now, members, accepted>>
    BY <1>7 DEF SetYieldMode
  <1>8. ASSUME NEW t \in Tokens, NEW m \in Members, CompoundYield(v, m, t)
        PROVE  UNCHANGED <<now, members, accepted>>
    BY <1>8 DEF CompoundYield
  <1>9. ASSUME NEW t \in Tokens, AccrueYield(v, t) \/ RealizeFees(v, t)
        PROVE  UNCHANGED <<now, members, accepted>>
    BY <1>9 DEF AccrueYield, RealizeFees
  <1> QED BY <1>1, <1>2, <1>3, <1>4, <1>5, <1>6, <1>7, <1>8, <1>9 DEF FundsStep, EarningStep

\* Creators are among those who may be members.
LEMMA CreatorsAreMembers == \A v \in Vaults : CreatorOf[v] \in Members
  BY VaultAssumption

\* Creating, joining and leaving keep the creator in.
LEMMA MembershipStep ==
    ASSUME MembershipOK, [VaultNext]_vars
    PROVE  MembershipOK'
  <1> USE DEF MembershipOK
  <1>1. CASE UNCHANGED <<members, accepted>>
    BY <1>1
  <1>2. ASSUME NEW v \in Vaults, NEW tokens \in SUBSET Tokens,
               members' = [members EXCEPT ![v] = {CreatorOf[v]}],
               accepted' = [accepted EXCEPT ![v] = tokens]
        PROVE  MembershipOK'
    BY <1>2, CreatorsAreMembers
  <1>3. ASSUME NEW v \in Vaults, NEW t \in Tokens, AddAcceptedToken(v, t)
        PROVE  MembershipOK'
    BY <1>3 DEF AddAcceptedToken
  <1>4. ASSUME NEW v \in Vaults, NEW m \in Members, JoinVault(v, m)
        PROVE  MembershipOK'
    BY <1>4 DEF JoinVault, Personal
  <1>5. ASSUME NEW v \in Vaults, NEW m \in Members, LeaveVault(v, m)
        PROVE  MembershipOK'
    BY <1>5 DEF LeaveVault
  <1>6. ASSUME NEW v \in Vaults, ChangeRules(v) \/ FundsStep(v) \/ EarningStep(v)
        PROVE  UNCHANGED <<members, accepted>>
    BY <1>6, SameMembers DEF ChangeRules, vaultVars
  <1>7. CASE \/ VaultTick \/ UNCHANGED vars
             \/ \E t \in Tokens : SweepFees(t)
             \/ \E t \in Tokens : \/ \E amount \in Interest : Earn(t, amount)
                                  \/ \E amount \in Losses : Lose(t, amount)
             \/ \E m \in Freezable : Elsewhere(m)
    BY <1>1, <1>7 DEF VaultTick, vars, vaultVars, SweepFees, Earn, Lose, Elsewhere
  <1> HIDE DEF MembershipOK
  <1> QED BY <1>1, <1>2, <1>3, <1>4, <1>5, <1>6, <1>7 DEF VaultNext, LifeStep, CreateVault

-----------------------------------------------------------------------------
(* What each transaction does to the books.                                *)

\* Only the books of t change.
Books1(t, c) == books'[t] = c /\ \A u \in Tokens \ {t} : books'[u] = books[u]

\* A transaction writes the books of its token only.
LEMMA PostIsOne ==
    ASSUME BooksOK, NEW t \in Tokens, NEW c, Post(t, c)
    PROVE  Books1(t, c) /\ books' = [u \in Tokens |-> books'[u]]
  <1>1. books = [u \in Tokens |-> books[u]]
    BY DEF BooksOK
  <1>2. books' = [books EXCEPT ![t] = c]
    BY DEF Post
  <1> HIDE DEF Post
  <1>3. DOMAIN books = Tokens
    BY <1>1
  <1> QED BY <1>2, <1>3 DEF Books1

\* When the books it writes are in order all are.
LEMMA PostedOK ==
    ASSUME BooksOK, NEW t \in Tokens, NEW c, Post(t, c), BookOK(c, t),
           UNCHANGED <<now, members, accepted>>
    PROVE  BooksOK'
  <1>1. Books1(t, c) /\ books' = [u \in Tokens |-> books'[u]]
    BY PostIsOne
  <1>2. \A u \in Tokens : BookOK(books'[u], u)
    BY <1>1 DEF Books1, BooksOK
  <1>3. ASSUME NEW u \in Tokens, BookOK(books'[u], u)
        PROVE  BookOK(books[u], u)'
    BY <1>3 DEF BookOK, LedgerOK, Outside
  <1> QED BY <1>1, <1>2, <1>3 DEF BooksOK

\* Books stay in order while time passes and members join.
LEMMA QuietOK ==
    ASSUME BooksOK, now \in Nat, now' \in Nat, now <= now', UNCHANGED books,
           \A v \in Vaults, m \in Members, t \in Tokens : Outside(v, m, t)' => Outside(v, m, t)
    PROVE  BooksOK'
  <1>1. ASSUME NEW u \in Tokens
        PROVE  BookOK(books[u], u)'
    <2>1. BookOK(books[u], u)
      BY DEF BooksOK
    <2>2. \A v \in Vaults : books[u].position[v].since \in Nat
      BY <2>1 DEF BookOK, LedgerOK, Books, Position
    <2> QED BY <2>1, <2>2 DEF BookOK, LedgerOK
  <1> QED BY <1>1 DEF BooksOK

\* Settling leaves nothing to take where there was nothing.
LEMMA TakersAreInside ==
    ASSUME BooksOK, now \in Nat, NEW v \in Vaults, NEW m \in Members, NEW t \in Tokens,
           NEW amount \in Nat, MayTake(Settle(books[t], v, m, now), v, m, amount)
    PROVE  t \in accepted[v] /\ m \in members[v]
  <1>1. BookOK(books[t], t) /\ LedgerOK(books[t])
    BY DEF BooksOK, BookOK
  <1> DEFINE s == Settle(books[t], v, m, now)
  <1>2. Settled(books[t], s, v, m)
    BY <1>1, SettleShape
  <1>3. amount > 0 /\ amount <= s.balance[v][m] /\ m \in members[v]
    BY DEF MayTake
  <1> HIDE DEF s
  <1>4. CASE t \notin accepted[v]
    <2>1. books[t].balance[v][m] = 0
      BY <1>1, <1>4 DEF BookOK, Outside
    <2>2. s.balance[v][m] = 0
      BY <1>2, <2>1 DEF Settled
    <2> QED BY <1>3, <2>2
  <1> QED BY <1>3, <1>4

\* The books after a member's transaction inside the vault.
LEMMA TransactedOK ==
    ASSUME NEW v \in Vaults, NEW m \in Members, NEW t \in Tokens, BooksOK,
           ~Outside(v, m, t), NEW c, NEW x, NEW y, Transacted(books[t], c, v, m, x, y)
    PROVE  BookOK(c, t)
  <1>1. BookOK(books[t], t)
    BY DEF BooksOK
  <1>2. ASSUME NEW u \in Vaults, NEW n \in Members, Outside(u, n, t)
        PROVE  c.balance[u][n] = 0 /\ c.unclaimed[u][n] = 0
    <2>1. books[t].balance[u][n] = 0 /\ books[t].unclaimed[u][n] = 0
      BY <1>1, <1>2 DEF BookOK
    <2>2. <<u, n>> # <<v, m>>
      BY <1>2
    <2>3. c.unclaimed[u][n] = books[t].unclaimed[u][n]
      BY <2>2 DEF Transacted
    <2>4. CASE u # v
      BY <2>1, <2>3, <2>4 DEF Transacted
    <2>5. CASE u = v /\ n # m
      BY <2>1, <2>3, <2>5 DEF Transacted
    <2> QED BY <2>2, <2>4, <2>5
  <1> QED BY <1>2 DEF BookOK, Transacted

\* A payment of amount, in whatever way it came about.
Payment(v, m, t, amount, c) ==
    /\ m \in members[v] \ blocked /\ t \in accepted[v] /\ amount > 0
    /\ Post(t, c) /\ BookOK(c, t)
    /\ Transacted(books[t], c, v, m, -amount, -amount)
    /\ c.accPenalty = books[t].accPenalty /\ KeepsBacking(books[t], c, v)

\* A payment is one of a member, in a token the vault takes.
LEMMA PaymentOf ==
    ASSUME FundsInv, NEW v \in Vaults, NEW m \in Members, NEW t \in Tokens,
           NEW amount \in Nat, NEW s, s = Settle(books[t], v, m, now),
           MayTake(s, v, m, amount), Payable(s, v, amount, amount),
           NEW c, c = Snapshot(Paid(s, v, m, amount), v, m), Post(t, c)
    PROVE  Payment(v, m, t, amount, c)
  <1> USE DEF FundsInv
  <1>1. BookOK(books[t], t) /\ LedgerOK(books[t])
    BY DEF BooksOK, BookOK
  <1>2. t \in accepted[v] /\ m \in members[v] \ blocked /\ amount > 0
    BY TakersAreInside DEF MayTake
  <1>3. /\ Transacted(books[t], c, v, m, -amount, -amount)
        /\ c.accPenalty = books[t].accPenalty /\ KeepsBacking(books[t], c, v)
    BY <1>1, WithdrawShape
  <1>4. BookOK(c, t)
    <2> DEFINE x == -amount
    <2>1. Transacted(books[t], c, v, m, x, x) /\ ~Outside(v, m, t)
      BY <1>2, <1>3 DEF Outside
    <2> HIDE DEF x
    <2> QED BY <2>1, TransactedOK
  <1> QED BY <1>2, <1>3, <1>4 DEF Payment

\* A deposit.
Placed(v, m, t, amount, c) ==
    /\ m \in members[v] /\ t \in accepted[v]
    /\ Post(t, c) /\ BookOK(c, t)
    /\ Transacted(books[t], c, v, m, amount, amount)
    /\ c.accPenalty = books[t].accPenalty /\ KeepsBacking(books[t], c, v)

\* depositFor does this, ...
LEMMA DepositIsPlaced ==
    ASSUME FundsInv, NEW v \in Vaults, NEW m \in Members, NEW t \in Tokens,
           NEW amount \in Nat, NEW answer \in Answers, Deposit(v, m, t, amount, answer)
    PROVE  \E c : Placed(v, m, t, amount, c)
  <1> DEFINE credited == Snapshot(Credit(Settle(books[t], v, m, now), v, m, amount), v, m)
             c == InvestIdle(credited, v, now, answer)
  <1> USE DEF FundsInv
  <1>1. BookOK(books[t], t) /\ LedgerOK(books[t])
    BY DEF BooksOK, BookOK
  <1>2. m \in members[v] /\ t \in accepted[v] /\ CanInvest(credited, v) /\ Post(t, c)
    BY DEF Deposit
  <1> HIDE DEF c
  <1>3. /\ Transacted(books[t], c, v, m, amount, amount)
        /\ c.accPenalty = books[t].accPenalty /\ KeepsBacking(books[t], c, v)
    <2> HIDE DEF credited
    <2> QED BY <1>1, <1>2, DepositShape DEF c, credited
  <1>4. BookOK(c, t)
    <2>1. ~Outside(v, m, t)
      BY <1>2 DEF Outside
    <2> QED BY <1>3, <2>1, TransactedOK
  <1> QED BY <1>2, <1>3, <1>4 DEF Placed

\* ... withdraw does that.
LEMMA WithdrawIsPayment ==
    ASSUME FundsInv, NEW v \in Vaults, NEW m \in Members, NEW t \in Tokens,
           NEW amount \in Nat, Withdraw(v, m, t, amount)
    PROVE  \E c : Payment(v, m, t, amount, c)
  <1> DEFINE s == Settle(books[t], v, m, now)
             c == Snapshot(Paid(s, v, m, amount), v, m)
  <1>1. MayTake(s, v, m, amount) /\ Payable(s, v, amount, amount) /\ Post(t, c)
    BY DEF Withdraw
  <1> HIDE DEF s, c
  <1>2. Payment(v, m, t, amount, c)
    BY <1>1, PaymentOf DEF s, c
  <1> QED BY <1>2

\* A stables vault keeps the requested amount in dollars.
BypassAmount(v, r) == IF v \in Stables THEN FromDollars(r.token, r.amount) ELSE r.amount

\* executeBypass pays like withdraw.
LEMMA BypassIsPayment ==
    ASSUME FundsInv, NEW v \in Vaults, NEW m \in Members, NEW r, r.token \in Tokens,
           BypassAmount(v, r) \in Nat, ExecuteBypass(v, m, r)
    PROVE  \E c : Payment(v, m, r.token, BypassAmount(v, r), c)
  <1> DEFINE t == r.token
             amount == BypassAmount(v, r)
             s == Settle(books[t], v, m, now)
             c == Snapshot(Paid(s, v, m, amount), v, m)
  <1>1. MayTake(s, v, m, amount) /\ Payable(s, v, amount, amount) /\ Post(t, c)
    BY DEF ExecuteBypass, BypassAmount
  <1> HIDE DEF s, c, amount, t
  <1>2. Payment(v, m, t, amount, c)
    <2>1. t \in Tokens /\ amount \in Nat
      BY DEF t, amount
    <2> QED BY <1>1, <2>1, PaymentOf DEF s, c
  <1> QED BY <1>2 DEF t, amount

\* A penalty is never more than the amount.
LEMMA PenaltyType ==
    ASSUME NEW amount \in Nat
    PROVE  PenaltyOf(amount) \in Nat /\ PenaltyOf(amount) <= amount
  <1>1. PenaltyBps \in Nat /\ MaxBps \in Nat \ {0} /\ PenaltyBps <= MaxBps
    BY VaultAssumption, VaultRulesAssumption DEF Rules!RulesAssumption
  <1>2. (PenaltyBps * amount) \div MaxBps \in Nat /\ (PenaltyBps * amount) \div MaxBps <= amount
    BY <1>1, ShareOfWhole
  <1>3. PenaltyBps * amount = amount * PenaltyBps
    BY <1>1
  <1> QED BY <1>2, <1>3 DEF PenaltyOf

\* An early exit whose penalty is shared.
EarlyExit(v, m, t, amount, c) ==
    /\ v \in Community
    /\ m \in members[v] \ blocked /\ t \in accepted[v] /\ amount > 0
    /\ Post(t, c) /\ BookOK(c, t)
    /\ Transacted(books[t], c, v, m, -amount, PenaltyOf(amount) - amount)
    /\ PenaltyShared(books[t], c, v, PenaltyOf(amount))

\* withdrawWithPenalty shares the penalty or, where nobody is left to share it,
\* pays it to the treasury.
LEMMA PenaltyIsExit ==
    ASSUME FundsInv, NEW v \in Vaults, NEW m \in Members, NEW t \in Tokens,
           NEW amount \in Nat, WithdrawWithPenalty(v, m, t, amount)
    PROVE  \E c : /\ \/ EarlyExit(v, m, t, amount, c)
                     \/ Payment(v, m, t, amount, c) /\ ~(v \in Community /\ c.total[v] > 0)
                  /\ penalties' = [penalties EXCEPT ![v] = @ + 1]
  <1> DEFINE s == Settle(books[t], v, m, now)
             d == Paid(s, v, m, amount)
             c == Snapshot(Shared(d, v, PenaltyOf(amount)), v, m)
  <1>1. /\ MayTake(s, v, m, amount) /\ Post(t, c)
        /\ Payable(s, v, amount, amount - Retained(s, v, amount))
        /\ penalties' = [penalties EXCEPT ![v] = @ + 1]
    BY DEF WithdrawWithPenalty
  <1>2. BookOK(books[t], t) /\ LedgerOK(books[t]) /\ now \in Nat /\ BooksOK
    BY DEF BooksOK, BookOK, FundsInv
  <1>3. t \in accepted[v] /\ m \in members[v] \ blocked /\ amount > 0
    BY <1>1, <1>2, TakersAreInside DEF MayTake
  <1>0. /\ d.total[v] > 0 <=> s.total[v] > amount
        /\ amount - 0 = amount
    <2> DEFINE e == EnsureLiquidity(s, v, amount, now)
    <2>1. Liquid(books[t], s, e, v, m, amount)
      <3> HIDE DEF s, e
      <3> QED BY <1>1, <1>2, LiquidShape DEF s, e
    <2>2. e \in Books /\ e.total = s.total /\ e.total[v] \in Nat
      BY <2>1 DEF Liquid, Books
    <2>3. d.total[v] = e.total[v] - amount
      <3>1. d = Debit(e, v, m, amount)
        BY DEF Paid
      <3> HIDE DEF d, e
      <3> QED BY <2>2, <3>1 DEF Debit, Books
    <2> HIDE DEF d, e, s
    <2> QED BY <2>2, <2>3
  <1> HIDE DEF s, c
  <1>4. CASE v \in Community /\ d.total[v] > 0
    <2>0. Payable(s, v, amount, amount - PenaltyOf(amount))
      BY <1>0, <1>1, <1>4 DEF Retained
    <2>1. /\ Transacted(books[t], c, v, m, -amount, PenaltyOf(amount) - amount)
          /\ PenaltyShared(books[t], c, v, PenaltyOf(amount))
      BY <1>1, <1>2, <1>4, <2>0, PenaltyType, PenaltyShape DEF s, c
    <2>2. BookOK(c, t)
      <3> DEFINE x == -amount
                 y == PenaltyOf(amount) - amount
      <3>1. Transacted(books[t], c, v, m, x, y) /\ ~Outside(v, m, t)
        BY <1>3, <2>1 DEF Outside
      <3> HIDE DEF x, y
      <3> QED BY <1>2, <3>1, TransactedOK
    <2>3. EarlyExit(v, m, t, amount, c)
      BY <1>1, <1>3, <1>4, <2>1, <2>2 DEF EarlyExit
    <2> QED BY <1>1, <2>3
  <1>5. CASE ~(v \in Community /\ d.total[v] > 0)
    <2>1. c = Snapshot(d, v, m)
      BY <1>5, PenaltyToTreasury DEF c
    <2>0. Payable(s, v, amount, amount)
      <3>1. Retained(s, v, amount) = 0
        BY <1>0, <1>5 DEF Retained
      <3> HIDE DEF s
      <3> QED BY <1>0, <1>1, <3>1
    <2>2. Payment(v, m, t, amount, c)
      BY <1>1, <2>0, <2>1, PaymentOf DEF s
    <2>3. c.total = d.total
      <3>1. LedgerOK(d)
        <4> HIDE DEF d
        <4>1. PaidOut(books[t], d, v, m, amount, amount)
          BY <1>1, <1>2, <2>0, PaidShape DEF s, d
        <4> QED BY <4>1 DEF PaidOut
      <3>2. Snapped(d, c, v, m)
        <4> HIDE DEF d
        <4> QED BY <2>1, <3>1, SnapshotShape
      <3> QED BY <3>2 DEF Snapped, BalancesKept
    <2> QED BY <1>1, <1>5, <2>2, <2>3
  <1> QED BY <1>4, <1>5

\* Books in which the yield module's holding and the pool were set.
Reheld(b, feesHeld, pool) == [b EXCEPT !.feesHeld = feesHeld, !.pool = pool]

\* What that changes.
ReheldAs(b, c, feesHeld, pool) ==
    /\ LedgerOK(c) /\ BalancesKept(b, c) /\ PenaltiesKept(b, c) /\ YieldKept(b, c)
    /\ c.held = b.held /\ c.feesHeld = feesHeld /\ c.pool = pool
    /\ c.poolShares = b.poolShares

\* And nothing else.
LEMMA ReheldShape ==
    ASSUME NEW b, LedgerOK(b), NEW feesHeld \in Nat, NEW pool \in Nat,
           NEW c, c = Reheld(b, feesHeld, pool)
    PROVE  ReheldAs(b, c, feesHeld, pool)
  <1>1. b \in Books
    BY DEF LedgerOK
  <1>2. c \in Books
    BY <1>1 DEF Reheld, Books
  <1>3. /\ BalancesKept(b, c) /\ PenaltiesKept(b, c) /\ YieldKept(b, c)
        /\ c.held = b.held /\ c.feesHeld = feesHeld /\ c.pool = pool
        /\ c.poolShares = b.poolShares
    BY <1>1 DEF Reheld, Books, BalancesKept, PenaltiesKept, YieldKept
  <1>4. LedgerOK(c)
    BY <1>2, <1>3, LedgerKept DEF YieldKept
  <1> QED BY <1>3, <1>4 DEF ReheldAs

\* Books of a vault whose mode was set.
Switched(b, v, on) == [b EXCEPT !.earning[v] = on]

\* Setting the mode moves nothing.
LEMMA SwitchShape ==
    ASSUME NEW b, LedgerOK(b), NEW v \in Vaults, NEW on \in BOOLEAN,
           NEW c, c = Switched(b, v, on)
    PROVE  /\ LedgerOK(c) /\ HoldingsKept(b, c) /\ BalancesKept(b, c) /\ PenaltiesKept(b, c)
           /\ c.position = b.position
  <1> DEFINE f == [b.earning EXCEPT ![v] = on]
  <1>1. b \in Books /\ f \in [Vaults -> BOOLEAN]
    BY DEF LedgerOK, Books
  <1>2. c = [b EXCEPT !.earning = f]
    BY DEF Switched
  <1> HIDE DEF f
  <1>3. c \in Books
    BY <1>1, <1>2 DEF Books
  <1>4. /\ HoldingsKept(b, c) /\ BalancesKept(b, c) /\ PenaltiesKept(b, c)
        /\ c.position = b.position
    BY <1>1, <1>2 DEF Books, HoldingsKept, BalancesKept, PenaltiesKept
  <1>5. LedgerOK(c)
    BY <1>3, <1>4, LedgerKept
  <1> QED BY <1>4, <1>5

\* What a step of the earning side does to the books of one token.
Arranged(v, t, c) ==
    /\ Post(t, c) /\ BookOK(c, t)
    /\ Assets(c) = Assets(books[t]) /\ PenaltiesKept(books[t], c)
    /\ KeepsBacking(books[t], c, v)
    /\ ~EarningDeployed => c = books[t]
    /\ BalancesKept(books[t], c) \/ \E m \in Members : CompoundYield(v, m, t)

\* A shift is such a step.
LEMMA ShiftedIsArranged ==
    ASSUME BooksOK, NEW v \in Vaults, NEW t \in Tokens, NEW c, Post(t, c), EarningDeployed,
           LedgerOK(c), BalancesKept(books[t], c), PenaltiesKept(books[t], c),
           Assets(c) = Assets(books[t]), KeepsBacking(books[t], c, v)
    PROVE  Arranged(v, t, c)
  <1>1. BookOK(books[t], t)
    BY DEF BooksOK
  <1>2. BookOK(c, t)
    BY <1>1 DEF BookOK, BalancesKept, PenaltiesKept
  <1> QED BY <1>2 DEF Arranged

\* So is turning earning on or off, with all the money it moves, ...
LEMMA SetYieldModeArranges ==
    ASSUME FundsInv, NEW v \in Vaults, NEW t \in Tokens, NEW on \in BOOLEAN,
           NEW answer \in Answers, SetYieldMode(v, t, on, answer)
    PROVE  \E c : Arranged(v, t, c)
  <1> DEFINE b == books[t]
             home == IF on THEN b ELSE DivestAll(b, v, now)
             set == Switched(home, v, on)
             c == IF on THEN InvestIdle(set, v, now, answer) ELSE set
  <1>1. LedgerOK(b) /\ now \in Nat /\ BooksOK
    BY DEF FundsInv, BooksOK, BookOK
  <1>2. /\ EarningDeployed /\ Post(t, c)
        /\ ~on => CanDivest(b, v, now)
        /\ on => CanInvest(set, v)
    BY DEF SetYieldMode, Switched
  <1> HIDE DEF b
  <1>3. /\ LedgerOK(home) /\ BalancesKept(b, home) /\ PenaltiesKept(b, home)
        /\ Assets(home) = Assets(b) /\ KeepsBacking(b, home, v)
    <2>1. CASE on
      BY <1>1, <2>1 DEF BalancesKept, PenaltiesKept, KeepsBacking
    <2>2. CASE ~on
      <3>1. home = DivestAll(b, v, now)
        BY <2>2
      <3> HIDE DEF home
      <3>2. Shifted(b, home, v) /\ KeepsBacking(b, home, v)
        BY <1>1, <1>2, <2>2, <3>1, DivestAllShape
      <3> QED BY <3>2 DEF Shifted
    <2> QED BY <2>1, <2>2
  <1> HIDE DEF home
  <1>4. /\ LedgerOK(set) /\ HoldingsKept(home, set) /\ BalancesKept(home, set)
        /\ PenaltiesKept(home, set) /\ set.position = home.position
    <2> HIDE DEF set
    <2> QED BY <1>3, SwitchShape DEF set
  <1> HIDE DEF set
  <1>5. KeepsBacking(home, set, v)
    BY <1>4, QuietBacking DEF BalancesKept
  <1>6. /\ BalancesKept(b, set) /\ PenaltiesKept(b, set) /\ Assets(set) = Assets(b)
        /\ KeepsBacking(b, set, v)
    BY <1>3, <1>4, <1>5, BackingPassedOn DEF BalancesKept, PenaltiesKept, HoldingsKept, Assets
  <1>7. /\ LedgerOK(c) /\ BalancesKept(b, c) /\ PenaltiesKept(b, c)
        /\ Assets(c) = Assets(b) /\ KeepsBacking(b, c, v)
    <2>1. CASE on
      <3>1. c = InvestIdle(set, v, now, answer)
        BY <2>1
      <3> HIDE DEF c
      <3>2. Shifted(set, c, v) /\ KeepsBacking(set, c, v)
        BY <1>1, <1>2, <1>4, <2>1, <3>1, InvestIdleShape
      <3>3. KeepsBacking(b, c, v)
        BY <1>6, <3>2, BackingPassedOn
      <3> QED BY <1>6, <3>2, <3>3 DEF Shifted, BalancesKept, PenaltiesKept
    <2>2. CASE ~on
      <3>1. c = set
        BY <2>2
      <3> HIDE DEF c
      <3> QED BY <1>4, <1>6, <3>1
    <2> QED BY <2>1, <2>2
  <1> HIDE DEF c
  <1>8. Arranged(v, t, c)
    BY <1>1, <1>2, <1>7, ShiftedIsArranged DEF b
  <1> QED BY <1>8

\* ... and compounding, ...
LEMMA CompoundArranges ==
    ASSUME FundsInv, NEW v \in Vaults, NEW m \in Members, NEW t \in Tokens,
           CompoundYield(v, m, t)
    PROVE  \E c : Arranged(v, t, c)
  <1> DEFINE b == books[t]
             c == SnapshotYield(SettleYield(b, v, m, now), v, m)
  <1>1. BookOK(b, t) /\ LedgerOK(b) /\ now \in Nat /\ Post(t, c)
    BY DEF FundsInv, BooksOK, BookOK, CompoundYield
  <1> HIDE DEF b, c
  <1>2. /\ Compounded(b, c, v, m) /\ KeepsBacking(b, c, v)
        /\ b.balance[v][m] = 0 => c.balance[v][m] = 0
    BY <1>1, CompoundShape DEF c
  <1>3. ASSUME NEW u \in Vaults, NEW n \in Members, Outside(u, n, t)
        PROVE  c.balance[u][n] = 0 /\ c.unclaimed[u][n] = 0
    <2>1. b.balance[u][n] = 0 /\ b.unclaimed[u][n] = 0
      BY <1>1, <1>3 DEF BookOK
    <2>2. c.unclaimed[u][n] = 0
      BY <1>2, <2>1 DEF Compounded, PenaltiesKept
    <2>3. CASE u # v
      BY <1>2, <2>1, <2>2, <2>3 DEF Compounded
    <2>4. CASE u = v /\ n # m
      BY <1>2, <2>1, <2>2, <2>4 DEF Compounded
    <2>5. CASE u = v /\ n = m
      BY <1>2, <2>1, <2>2, <2>5
    <2> QED BY <2>3, <2>4, <2>5
  <1>4. Arranged(v, t, c)
    BY <1>1, <1>2, <1>3 DEF Arranged, BookOK, Compounded, HoldingsKept, Assets, b
  <1> QED BY <1>4

\* ... and all else that the earning side does.
LEMMA EarningArranges ==
    ASSUME FundsInv, NEW v \in Vaults, EarningStep(v)
    PROVE  \E t \in Tokens : \E c : Arranged(v, t, c)
  <1>1. ASSUME NEW t \in Tokens, AccrueYield(v, t)
        PROVE  \E c : Arranged(v, t, c)
    <2> DEFINE c == Accrue(books[t], v, now)
    <2>1. LedgerOK(books[t]) /\ now \in Nat /\ BooksOK /\ EarningDeployed /\ Post(t, c)
      BY <1>1 DEF FundsInv, BooksOK, BookOK, AccrueYield
    <2>2. Accrued(books[t], c, v)
      BY <2>1, AccrueShape
    <2> HIDE DEF c
    <2>3. Shifted(books[t], c, v) /\ KeepsBacking(books[t], c, v)
      BY <2>1, <2>2, AccrueMoves
    <2>4. Arranged(v, t, c)
      BY <2>1, <2>3, ShiftedIsArranged DEF Shifted
    <2> QED BY <2>4
  <1>2. ASSUME NEW t \in Tokens, RealizeFees(v, t)
        PROVE  \E c : Arranged(v, t, c)
    <2> DEFINE a == Accrue(books[t], v, now)
               c == TakeFees(a, v)
    <2>1. /\ LedgerOK(books[t]) /\ now \in Nat /\ BooksOK /\ EarningDeployed /\ Post(t, c)
          /\ a.position[v].shares > 0 => CanRedeem(a, a.position[v].fees)
      BY <1>2 DEF FundsInv, BooksOK, BookOK, RealizeFees
    <2> HIDE DEF c
    <2>2. Shifted(books[t], c, v) /\ KeepsBacking(books[t], c, v)
      BY <2>1, RealizeFeesShape DEF c
    <2>3. Arranged(v, t, c)
      BY <2>1, <2>2, ShiftedIsArranged DEF Shifted
    <2> QED BY <2>3
  <1> QED BY <1>1, <1>2, SetYieldModeArranges, CompoundArranges DEF EarningStep

\* claimPenaltyRewards pays what was coming, and only something.
LEMMA ClaimIsClaimed ==
    ASSUME FundsInv, NEW v \in Vaults, NEW m \in Members, NEW t \in Tokens,
           ClaimPenaltyRewards(v, m, t)
    PROVE  \E c : /\ Post(t, c) /\ Claimed(books[t], c, v, m) /\ BookOK(c, t)
                  /\ Reward(books[t], v, m) > 0
                  /\ m \in members[v] \ blocked
  <1> DEFINE b == books[t]
             s == SettlePenalties(b, v, m)
             amount == s.unclaimed[v][m]
             c == [s EXCEPT !.unclaimed[v][m] = 0, !.held = @ - amount]
  <1>1. /\ BookOK(b, t) /\ LedgerOK(b) /\ b \in Books
        /\ amount > 0 /\ amount <= s.held /\ Post(t, c) /\ m \in members[v] \ blocked
    BY DEF FundsInv, BooksOK, BookOK, LedgerOK, ClaimPenaltyRewards
  <1> HIDE DEF b, s
  <1>2. Claimed(b, c, v, m)
    <2> HIDE DEF c
    <2> QED BY <1>1, ClaimShape DEF s, c
  <1>3. amount = Reward(b, v, m)
    BY <1>1, SettlePenaltiesShape DEF s
  <1> HIDE DEF c, amount
  <1>4. ASSUME NEW u \in Vaults, NEW n \in Members, Outside(u, n, t)
        PROVE  c.balance[u][n] = 0 /\ c.unclaimed[u][n] = 0
    <2>1. b.balance[u][n] = 0 /\ b.unclaimed[u][n] = 0
      BY <1>1, <1>4 DEF BookOK
    <2>2. c.balance[u][n] = 0
      BY <1>2, <2>1 DEF Claimed, BalancesKept
    <2>3. CASE <<u, n>> # <<v, m>>
      BY <1>2, <2>1, <2>2, <2>3 DEF Claimed
    <2>4. CASE <<u, n>> = <<v, m>>
      BY <1>2, <2>2, <2>4 DEF Claimed
    <2> QED BY <2>3, <2>4
  <1>5. BookOK(c, t)
    BY <1>2, <1>4 DEF BookOK, Claimed
  <1> QED BY <1>1, <1>2, <1>3, <1>5 DEF b

\* sweepFees empties what the yield module holds.
LEMMA SweepReholds ==
    ASSUME FundsInv, NEW t \in Tokens, SweepFees(t)
    PROVE  \E c : /\ Post(t, c) /\ BookOK(c, t)
                  /\ ReheldAs(books[t], c, 0, books[t].pool)
  <1> DEFINE b == books[t]
             c == Reheld(b, 0, b.pool)
  <1>1. BookOK(b, t) /\ LedgerOK(b) /\ b \in Books
    BY DEF FundsInv, BooksOK, BookOK, LedgerOK
  <1>2. Post(t, c)
    <2>1. c = [b EXCEPT !.feesHeld = 0]
      BY <1>1 DEF Reheld, Books
    <2> QED BY <2>1 DEF SweepFees
  <1>3. ReheldAs(b, c, 0, b.pool)
    <2>1. b.pool \in Nat /\ 0 \in Nat
      BY <1>1 DEF Books
    <2> HIDE DEF b, c
    <2> QED BY <1>1, <2>1, ReheldShape DEF c
  <1> HIDE DEF b, c
  <1>4. BookOK(c, t)
    BY <1>1, <1>3 DEF BookOK, ReheldAs, BalancesKept, PenaltiesKept
  <1> QED BY <1>2, <1>3, <1>4 DEF b

\* What the market does: pool and the counts of one token.
Fluctuated(t, c, earned, lost) ==
    /\ Post(t, c) /\ BookOK(c, t) /\ c.pool \in Nat
    /\ c.pool = books[t].pool + earned - lost
    /\ ReheldAs(books[t], c, books[t].feesHeld, c.pool)
    /\ market' = [market EXCEPT ![t] =
                     [earned |-> market[t].earned + earned, lost |-> market[t].lost + lost]]

\* Books in which the pool grew or shrank as the market counts it.
LEMMA FluctuationOf ==
    ASSUME FundsInv, NEW t \in Tokens, NEW earned \in Nat, NEW lost \in Nat,
           lost <= books[t].pool + earned,
           market' = [market EXCEPT ![t] =
                     [earned |-> market[t].earned + earned, lost |-> market[t].lost + lost]],
           NEW c, c = Reheld(books[t], books[t].feesHeld, books[t].pool + earned - lost),
           Post(t, c)
    PROVE  Fluctuated(t, c, earned, lost)
  <1> DEFINE b == books[t]
             pool == b.pool + earned - lost
  <1>1. BookOK(b, t) /\ LedgerOK(b) /\ b \in Books
    BY DEF FundsInv, BooksOK, BookOK, LedgerOK
  <1>2. b.pool \in Nat /\ b.feesHeld \in Nat
    BY <1>1 DEF Books
  <1>3. pool \in Nat
    BY <1>2
  <1>4. c = Reheld(b, b.feesHeld, pool)
    OBVIOUS
  <1> HIDE DEF b, pool
  <1>5. ReheldAs(b, c, b.feesHeld, pool)
    BY <1>1, <1>2, <1>3, <1>4, ReheldShape, SMTT(30)
  <1>6. BookOK(c, t)
    BY <1>1, <1>5 DEF BookOK, ReheldAs, BalancesKept, PenaltiesKept
  <1>7. c.pool = pool
    BY <1>5 DEF ReheldAs
  <1> QED BY <1>3, <1>5, <1>6, <1>7 DEF Fluctuated, b, pool

\* Earning and losing are that.
LEMMA MarketFluctuates ==
    ASSUME FundsInv, NEW t \in Tokens, NEW amount \in Nat
    PROVE  /\ Earn(t, amount) => \E c : Fluctuated(t, c, amount, 0)
           /\ Lose(t, amount) => \E c : Fluctuated(t, c, 0, amount)
  <1> DEFINE b == books[t]
             k == market[t]
  <1>1. /\ b \in Books /\ b.pool \in Nat /\ b.feesHeld \in Nat
        /\ k \in [earned : Nat, lost : Nat] /\ k.earned \in Nat /\ k.lost \in Nat
        /\ market \in [Tokens -> [earned : Nat, lost : Nat]]
    BY DEF FundsInv, BooksOK, BookOK, LedgerOK, CountsOK, Books
  <1>2. ASSUME Earn(t, amount) PROVE \E c : Fluctuated(t, c, amount, 0)
    <2> DEFINE c == Reheld(b, b.feesHeld, b.pool + amount - 0)
               pool == b.pool + amount
    <2>1. c = [b EXCEPT !.pool = @ + amount]
      <3>1. b.pool + amount - 0 = pool
        <4> HIDE DEF b
        <4> QED BY <1>1
      <3>2. c = Reheld(b, b.feesHeld, pool)
        BY <3>1
      <3> HIDE DEF pool, c
      <3>3. Reheld(b, b.feesHeld, pool) = [b EXCEPT !.pool = pool]
        <4> HIDE DEF b
        <4> QED BY <1>1 DEF Reheld, Books
      <3> QED BY <3>2, <3>3 DEF pool
    <2>2. Post(t, c)
      BY <1>2, <2>1 DEF Earn
    <2>3. market' = [market EXCEPT ![t] = [earned |-> k.earned + amount, lost |-> k.lost + 0]]
      <3>1. market' = [market EXCEPT ![t] = [k EXCEPT !.earned = @ + amount]]
        BY <1>2 DEF Earn
      <3>2. [k EXCEPT !.earned = @ + amount] = [earned |-> k.earned + amount, lost |-> k.lost + 0]
        <4> HIDE DEF k
        <4> QED BY <1>1
      <3> QED BY <3>1, <3>2
    <2>4. 0 \in Nat /\ 0 <= b.pool + amount
      BY <1>1
    <2> HIDE DEF c
    <2>5. Fluctuated(t, c, amount, 0)
      BY <2>2, <2>3, <2>4, FluctuationOf DEF c
    <2> QED BY <2>5
  <1>3. ASSUME Lose(t, amount) PROVE \E c : Fluctuated(t, c, 0, amount)
    <2> DEFINE c == Reheld(b, b.feesHeld, b.pool + 0 - amount)
               pool == b.pool - amount
    <2>1. c = [b EXCEPT !.pool = @ - amount]
      <3>1. b.pool + 0 - amount = pool
        <4> HIDE DEF b
        <4> QED BY <1>1
      <3>2. c = Reheld(b, b.feesHeld, pool)
        BY <3>1
      <3> HIDE DEF pool, c
      <3>3. Reheld(b, b.feesHeld, pool) = [b EXCEPT !.pool = pool]
        <4> HIDE DEF b
        <4> QED BY <1>1 DEF Reheld, Books
      <3> QED BY <3>2, <3>3 DEF pool
    <2>2. Post(t, c)
      BY <1>3, <2>1 DEF Lose
    <2>3. market' = [market EXCEPT ![t] = [earned |-> k.earned + 0, lost |-> k.lost + amount]]
      <3>1. market' = [market EXCEPT ![t] = [k EXCEPT !.lost = @ + amount]]
        BY <1>3 DEF Lose
      <3>2. [k EXCEPT !.lost = @ + amount] = [earned |-> k.earned + 0, lost |-> k.lost + amount]
        <4> HIDE DEF k
        <4> QED BY <1>1
      <3> QED BY <3>1, <3>2
    <2>4. 0 \in Nat /\ amount <= b.pool + 0
      <3>1. amount <= TotalAssets(b)
        BY <1>3 DEF Lose
      <3>2. TotalAssets(b) \in Nat /\ TotalAssets(b) <= b.pool
        BY <1>1, TotalAssetsType
      <3> HIDE DEF b
      <3> QED BY <1>1, <3>1, <3>2
    <2> HIDE DEF c
    <2>5. Fluctuated(t, c, 0, amount)
      BY <2>2, <2>3, <2>4, FluctuationOf DEF c
    <2> QED BY <2>5
  <1> QED BY <1>2, <1>3

-----------------------------------------------------------------------------
(* The rules.                                                              *)

\* The proved facts about the rules, with the members of the vaults as scopes
\* and no bound on what a vault meters.
RulesP == INSTANCE SpendingRules_proofs WITH
    Accounts <- {},
    PersonalScopes <- {<<v, CreatorOf[v]>> : v \in Personal},
    Founders <- {<<v, CreatorOf[v]>> : v \in Community},
    Joiners <- {s \in Community \X Members : s[2] # CreatorOf[s[1]]},
    Amounts <- Nat, Balances <- Nat, ledger <- now

\* What the proofs about the rules assume of their constants is true of these.
LEMMA RulesAssumed == RulesP!RulesAssumption
  BY VaultRulesAssumption DEF Rules!RulesAssumption, RulesP!RulesAssumption,
     Rules!IsFiniteSet, RulesP!IsFiniteSet, Rules!CommunityScopes, RulesP!CommunityScopes

\* The scopes are the vaults' in either instance.
LEMMA ScopesAgree ==
    /\ RulesP!Scopes = Rules!Scopes /\ RulesP!Batches = Rules!Batches
    /\ RulesP!CommunityScopes = Rules!CommunityScopes
    /\ \A S : RulesP!Cardinality(S) = Rules!Cardinality(S)
  BY DEF RulesP!Scopes, Rules!Scopes, RulesP!CommunityScopes, Rules!CommunityScopes,
     RulesP!Batches, Rules!Batches, RulesP!Cardinality, Rules!Cardinality

\* Every member of a vault has a scope of rules: the creator of a personal
\* vault, the founder or a joiner of a community vault.
LEMMA MemberScope ==
    ASSUME MembershipOK, NEW v \in Vaults, NEW m \in members[v]
    PROVE  <<v, m>> \in Rules!Scopes
  <1>1. m \in Members /\ CreatorOf[v] \in Members /\ CreatorOf[v] \in members[v]
    BY VaultAssumption DEF MembershipOK
  <1>2. CASE v \in Personal
    BY <1>1, <1>2 DEF MembershipOK, Rules!Scopes
  <1>3. CASE v \in Community /\ m = CreatorOf[v]
    BY <1>3 DEF Rules!Scopes, Rules!CommunityScopes
  <1>4. CASE v \in Community /\ m # CreatorOf[v]
    BY <1>1, <1>4 DEF Rules!Scopes, Rules!CommunityScopes
  <1> QED BY <1>2, <1>3, <1>4 DEF Personal

\* The creator's scope of any vault is not a joiner's.
LEMMA CreatorScope ==
    ASSUME NEW v \in Vaults
    PROVE  /\ <<v, CreatorOf[v]>> \in Rules!Scopes
           /\ <<v, CreatorOf[v]>> \notin {s \in Community \X Members : s[2] # CreatorOf[s[1]]}
  BY DEF Rules!Scopes, Rules!CommunityScopes, Personal

\* A call of the rules, as the proved module has it.
LEMMA RuleCallsAgree ==
    ASSUME NEW s
    PROVE  /\ \A batch, arePercentage : Rules!InstallRules(s, batch, arePercentage)
                                        => RulesP!InstallRules(s, batch, arePercentage)
           /\ \A to : Rules!JoinRules(s, to) => RulesP!JoinRules(s, to)
           /\ Rules!ProposalStep(s) => RulesP!ProposalStep(s)
           /\ \A amount, balance : Rules!Spend(s, amount, balance)
                                => RulesP!Spend(s, amount, balance)
           /\ \A amount, skip : Rules!SpendWithBypass(s, amount, skip)
                                => RulesP!SpendWithBypass(s, amount, skip)
           /\ Rules!Tick => RulesP!Tick
  <1>1. \A S : RulesP!Cardinality(S) = Rules!Cardinality(S)
    BY ScopesAgree
  <1>2. \A rules : RulesP!MaxLimit(rules) = Rules!MaxLimit(rules)
    BY DEF Rules!MaxLimit, RulesP!MaxLimit, Rules!ActiveLimits, RulesP!ActiveLimits
  <1>3. \A rules : Rules!Commit(s, rules) => RulesP!Commit(s, rules)
    BY <1>2 DEF Rules!Commit, RulesP!Commit
  <1>4. \A batch, arePercentage : Rules!InstallRules(s, batch, arePercentage)
                                  => RulesP!InstallRules(s, batch, arePercentage)
    <2>1. \A p, limit, duration : RulesP!Written(p, limit, duration)
                                  = Rules!Written(p, limit, duration)
      BY DEF Rules!Written, RulesP!Written
    <2>2. \A batch : Rules!BatchValid(s, batch) => RulesP!BatchValid(s, batch)
      BY DEF Rules!BatchValid, RulesP!BatchValid, Rules!ValidDelay, RulesP!ValidDelay
    <2>3. \A batch : Rules!WriteBatch(s, batch) => RulesP!WriteBatch(s, batch)
      BY <1>1, <2>1, <2>2 DEF Rules!WriteBatch, RulesP!WriteBatch
    <2> QED BY <1>3, <2>3 DEF Rules!InstallRules, RulesP!InstallRules
  <1>5. \A to : Rules!JoinRules(s, to) => RulesP!JoinRules(s, to)
    <2>1. \A to, rules : Rules!Commit(to, rules) => RulesP!Commit(to, rules)
      BY <1>2 DEF Rules!Commit, RulesP!Commit
    <2> QED BY <2>1 DEF Rules!JoinRules, RulesP!JoinRules,
            Rules!MigratePeriodsTo, RulesP!MigratePeriodsTo
  <1>6. Rules!ProposalStep(s) => RulesP!ProposalStep(s)
    <2>1. \A n : RulesP!FindPeriodLimit(s, n) = Rules!FindPeriodLimit(s, n)
      BY DEF Rules!FindPeriodLimit, RulesP!FindPeriodLimit
    <2>2. \A n : RulesP!UnlockDelay(s, n) = Rules!UnlockDelay(s, n)
      BY DEF Rules!UnlockDelay, RulesP!UnlockDelay
    <2>3. \A kind, n, value, isIncrease : Rules!File(s, kind, n, value, isIncrease)
                                          => RulesP!File(s, kind, n, value, isIncrease)
      BY <1>1, <2>1, <2>2 DEF Rules!File, RulesP!File
    <2>4. /\ \A n, limit : Rules!ProposeLimitChange(s, n, limit)
                           => RulesP!ProposeLimitChange(s, n, limit)
          /\ \A n, delay : Rules!ProposeUnlockDelayChange(s, n, delay)
                           => RulesP!ProposeUnlockDelayChange(s, n, delay)
      BY <2>1, <2>2, <2>3 DEF Rules!ProposeLimitChange, RulesP!ProposeLimitChange,
         Rules!ProposeUnlockDelayChange, RulesP!ProposeUnlockDelayChange,
         Rules!ValidDelay, RulesP!ValidDelay
    <2>5. \A p : /\ Rules!ExecuteLimitProposal(s, p) => RulesP!ExecuteLimitProposal(s, p)
                 /\ Rules!CancelLimitProposal(s, p) => RulesP!CancelLimitProposal(s, p)
      BY <2>1 DEF Rules!ExecuteLimitProposal, RulesP!ExecuteLimitProposal,
         Rules!CancelLimitProposal, RulesP!CancelLimitProposal,
         Rules!Matured, RulesP!Matured, Rules!ValidDelay, RulesP!ValidDelay
    <2> QED BY <2>4, <2>5 DEF Rules!ProposalStep, RulesP!ProposalStep
  <1>7. \A p, amount : RulesP!Metered(p, amount) = Rules!Metered(p, amount)
    BY DEF Rules!Metered, RulesP!Metered, Rules!Refreshed, RulesP!Refreshed
  <1>8. \A amount, balance : Rules!Spend(s, amount, balance) => RulesP!Spend(s, amount, balance)
    BY <1>7 DEF Rules!Spend, RulesP!Spend, Rules!CheckAndSpend, RulesP!CheckAndSpend,
       Rules!LimitsAdmit, RulesP!LimitsAdmit, Rules!Refreshed, RulesP!Refreshed,
       Rules!EffectiveLimit, RulesP!EffectiveLimit
  <1>9. \A amount, skip : Rules!SpendWithBypass(s, amount, skip)
                          => RulesP!SpendWithBypass(s, amount, skip)
    BY <1>7 DEF Rules!SpendWithBypass, RulesP!SpendWithBypass,
       Rules!CheckLimitsWithBypass, RulesP!CheckLimitsWithBypass,
       Rules!UpdateSpendingWithBypass, RulesP!UpdateSpendingWithBypass,
       Rules!Refreshed, RulesP!Refreshed
  <1>10. Rules!Tick => RulesP!Tick
    BY DEF Rules!Tick, RulesP!Tick
  <1> QED BY <1>4, <1>5, <1>6, <1>8, <1>9, <1>10

\* The bypass requests on file: typed, of an amount that somebody asked for, and
\* with at least the shortest wait.
RequestOK(v, r) ==
    /\ r.executeAfter >= r.filed + MinUnlockDelay
    /\ \E amount \in Sums : r.amount = Measured(v, r.token, amount)

\* Every request on file is such.
BypassOK ==
    /\ bypass \in [Vaults \X Members -> SUBSET BypassRequest]
    /\ \A v \in Vaults, m \in Members : \A r \in bypass[<<v, m>>] : RequestOK(v, r)

\* What a transaction does to the rules.
SpendStep == \E v \in Vaults, m \in Members, t \in Tokens, amount \in Sums, balance \in Nat :
                /\ <<v, m>> \in Rules!Scopes
                /\ Rules!Spend(<<v, m>>, Measured(v, t, amount), balance)

\* A bypass skips one window and meters the others.
BypassStep == \E v \in Vaults, m \in Members : \E r \in bypass[<<v, m>>] :
                /\ <<v, m>> \in Rules!Scopes
                /\ Rules!SpendWithBypass(<<v, m>>, r.amount, r.skip)

\* All that a step of the vaults does to the rules.
RulesCall ==
    \/ Rules!Tick
    \/ \E s \in Rules!Scopes : Rules!VaultStep(s)
    \/ SpendStep \/ BypassStep
    \/ UNCHANGED <<now, ruleVars>>

\* What is metered is a number, in dollars or in units of the token.
LEMMA MeasuredType ==
    ASSUME NEW v \in Vaults, NEW t \in Tokens, NEW amount \in Nat
    PROVE  Measured(v, t, amount) \in Nat
  <1>1. Up[t] \in Nat \ {0} /\ Down[t] \in Nat \ {0}
    BY VaultAssumption
  <1>2. amount * Up[t] \in Nat
    BY <1>1, MulNat
  <1>3. (amount * Up[t]) \div Down[t] \in Nat
    BY <1>1, <1>2, DivNat
  <1> QED BY <1>3 DEF Measured, ToDollars

\* So is the balance a percentage limit is taken of.
LEMMA AgainstType ==
    ASSUME NEW held \in [Tokens -> Books], NEW v \in Vaults, NEW m \in Members,
           NEW t \in Tokens, accepted[v] \subseteq Tokens
    PROVE  Against(held, v, m, t) \in Nat
  <1> DEFINE f == [u \in Tokens |-> ToDollars(u, held[u].balance[v][m])]
  <1>1. \A u \in Tokens : held[u].balance[v][m] \in Nat
    BY DEF Books
  <1>2. \A u \in Tokens : f[u] \in Nat
    <2> SUFFICES ASSUME NEW u \in Tokens PROVE f[u] \in Nat
      OBVIOUS
    <2> DEFINE x == held[u].balance[v][m]
    <2>1. x \in Nat /\ Up[u] \in Nat \ {0} /\ Down[u] \in Nat \ {0}
      BY <1>1, VaultAssumption
    <2>2. f[u] = (x * Up[u]) \div Down[u]
      BY DEF ToDollars
    <2> HIDE DEF x, f
    <2>3. x * Up[u] \in Nat
      BY <2>1, MulNat
    <2> QED BY <2>1, <2>2, <2>3, DivNat
  <1>3. IsFiniteSet(accepted[v])
    BY VaultAssumption, FS_Subset
  <1>4. DollarBalance(held, v, m) = SumFunctionOnSet(f, accepted[v])
    BY DEF DollarBalance
  <1> HIDE DEF f
  <1>5. SumFunctionOnSet(f, accepted[v]) \in Nat
    BY <1>2, <1>3, SumNat
  <1> QED BY <1>1, <1>4, <1>5 DEF Against

\* The inductive invariant.
VaultInv == FundsInv /\ BypassOK

\* Creating and joining install rules, a proposal is a proposal, time passes.
LEMMA LifeCalls ==
    ASSUME VaultInv, NEW v \in Vaults, LifeStep(v)
    PROVE  RulesCall
  <1>0. MembershipOK
    BY DEF VaultInv, FundsInv
  <1>1. ASSUME NEW tokens \in SUBSET Tokens, NEW batch \in Rules!Batches,
               NEW arePercentage \in BOOLEAN, CreateVault(v, tokens, batch, arePercentage)
        PROVE  RulesCall
    <2>1. Rules!InstallRules(<<v, CreatorOf[v]>>, batch, arePercentage)
      BY <1>1 DEF CreateVault
    <2>2. Rules!VaultStep(<<v, CreatorOf[v]>>)
      BY <2>1, CreatorScope DEF Rules!VaultStep
    <2> QED BY <2>2, CreatorScope DEF RulesCall
  <1>2. ASSUME NEW t \in Tokens, AddAcceptedToken(v, t)
        PROVE  RulesCall
    BY <1>2 DEF AddAcceptedToken, RulesCall
  <1>3. ASSUME NEW m \in Members, JoinVault(v, m)
        PROVE  RulesCall
    <2>1. /\ v \in Community /\ members[v] # {} /\ m \notin members[v]
          /\ Rules!JoinRules(<<v, CreatorOf[v]>>, <<v, m>>)
      BY <1>3 DEF JoinVault
    <2>2. m # CreatorOf[v]
      BY <1>0, <2>1 DEF MembershipOK
    <2>3. <<v, m>> \in {s \in Community \X Members : s[2] # CreatorOf[s[1]]}
      BY <2>1, <2>2
    <2>4. Rules!VaultStep(<<v, CreatorOf[v]>>)
      BY <2>1, <2>3 DEF Rules!VaultStep
    <2> QED BY <2>4, CreatorScope DEF RulesCall
  <1>4. ASSUME NEW m \in Members, LeaveVault(v, m)
        PROVE  RulesCall
    BY <1>4 DEF LeaveVault, RulesCall
  <1>5. ASSUME ChangeRules(v)
        PROVE  RulesCall
    <2>1. Rules!VaultStep(<<v, CreatorOf[v]>>)
      BY <1>5 DEF ChangeRules, Rules!VaultStep, Rules!MayChangeRules
    <2> QED BY <2>1, CreatorScope DEF RulesCall
  <1> QED BY <1>1, <1>2, <1>3, <1>4, <1>5 DEF LifeStep

\* A withdrawal spends what it measures, ...
LEMMA WithdrawSpends ==
    ASSUME VaultInv, NEW v \in Vaults, NEW m \in Members, NEW t \in Tokens,
           NEW amount \in Sums, Withdraw(v, m, t, amount)
    PROVE  SpendStep
  <1> DEFINE s == Settle(books[t], v, m, now)
             held == [books EXCEPT ![t] = s]
             balance == Against(held, v, m, t)
  <1>1. /\ m \in members[v] /\ UNCHANGED <<now, fixedRuleVars>>
        /\ Rules!CheckAndSpend(<<v, m>>, Measured(v, t, amount), balance)
    BY DEF Withdraw, MayTake
  <1>2. held \in [Tokens -> Books] /\ accepted[v] \subseteq Tokens
    <2>1. books \in [Tokens -> Books] /\ LedgerOK(books[t]) /\ now \in Nat
      BY DEF VaultInv, FundsInv, BooksOK, BookOK, LedgerOK
    <2>2. Settled(books[t], s, v, m)
      BY <2>1, SettleShape
    <2> HIDE DEF s
    <2>3. s \in Books
      BY <2>2 DEF Settled, LedgerOK
    <2> QED BY <2>1, <2>3 DEF VaultInv, FundsInv, MembershipOK
  <1> HIDE DEF held
  <1>3. balance \in Nat
    BY <1>2, AgainstType
  <1> HIDE DEF balance
  <1>4. Rules!Spend(<<v, m>>, Measured(v, t, amount), balance)
    BY <1>1 DEF Rules!Spend, fixedRuleVars
  <1>5. <<v, m>> \in Rules!Scopes
    BY <1>1, MemberScope DEF VaultInv, FundsInv
  <1> QED BY <1>3, <1>4, <1>5 DEF SpendStep

\* ... a bypass spends what was measured when it was requested, ...
LEMMA ExecuteSpends ==
    ASSUME VaultInv, NEW v \in Vaults, NEW m \in Members,
           NEW r \in bypass[<<v, m>>], ExecuteBypass(v, m, r)
    PROVE  BypassStep
  <1>1. /\ m \in members[v] /\ UNCHANGED <<now, fixedRuleVars>>
        /\ Rules!CheckLimitsWithBypass(<<v, m>>, r.amount, r.skip)
        /\ Rules!UpdateSpendingWithBypass(<<v, m>>, r.amount, r.skip)
    BY DEF ExecuteBypass, MayTake
  <1>2. Rules!SpendWithBypass(<<v, m>>, r.amount, r.skip)
    BY <1>1 DEF Rules!SpendWithBypass, fixedRuleVars
  <1>3. <<v, m>> \in Rules!Scopes
    BY <1>1, MemberScope DEF VaultInv, FundsInv
  <1> QED BY <1>2, <1>3 DEF BypassStep

\* ... no other transaction with money touches the rules, ...
LEMMA FundsCalls ==
    ASSUME VaultInv, NEW v \in Vaults, FundsStep(v)
    PROVE  RulesCall
  <1>1. ASSUME NEW m \in Members, NEW t \in Tokens, NEW amount \in Sums,
               \/ \E answer \in Answers : Deposit(v, m, t, amount, answer)
               \/ WithdrawWithPenalty(v, m, t, amount)
               \/ \E skip \in Names : RequestBypass(v, m, t, amount, skip)
               \/ ClaimPenaltyRewards(v, m, t)
        PROVE  UNCHANGED <<now, ruleVars>>
    BY <1>1 DEF Deposit, WithdrawWithPenalty, RequestBypass, ClaimPenaltyRewards
  <1>2. ASSUME NEW m \in Members, NEW t \in Tokens, NEW amount \in Sums,
               Withdraw(v, m, t, amount)
        PROVE  RulesCall
    BY <1>2, WithdrawSpends DEF RulesCall
  <1>3. ASSUME NEW m \in Members, NEW r \in bypass[<<v, m>>], ExecuteBypass(v, m, r)
        PROVE  RulesCall
    BY <1>3, ExecuteSpends DEF RulesCall
  <1>4. ASSUME NEW m \in Members, NEW r \in bypass[<<v, m>>], CancelBypass(v, m, r)
        PROVE  RulesCall
    BY <1>4 DEF CancelBypass, RulesCall
  <1>5. ASSUME NEW m \in Members, NEW t \in Tokens, ClaimPenaltyRewards(v, m, t)
        PROVE  RulesCall
    BY <1>5 DEF ClaimPenaltyRewards, RulesCall
  <1> QED BY <1>1, <1>2, <1>3, <1>4, <1>5 DEF FundsStep, RulesCall

\* ... and the earning side never does.
LEMMA EarningCalls ==
    ASSUME NEW v \in Vaults, EarningStep(v)
    PROVE  RulesCall
  <1>1. ASSUME NEW t \in Tokens, NEW on \in BOOLEAN, NEW answer \in Answers,
               SetYieldMode(v, t, on, answer)
        PROVE  UNCHANGED <<now, ruleVars>>
    BY <1>1 DEF SetYieldMode
  <1>2. ASSUME NEW t \in Tokens, NEW m \in Members, CompoundYield(v, m, t)
        PROVE  UNCHANGED <<now, ruleVars>>
    BY <1>2 DEF CompoundYield
  <1>3. ASSUME NEW t \in Tokens, AccrueYield(v, t) \/ RealizeFees(v, t)
        PROVE  UNCHANGED <<now, ruleVars>>
    BY <1>3 DEF AccrueYield, RealizeFees
  <1> QED BY <1>1, <1>2, <1>3 DEF EarningStep, RulesCall

\* What the vaults do to the rules is what the rules allow of their callers.
LEMMA RulesCalls ==
    ASSUME VaultInv, [VaultNext]_vars
    PROVE  RulesCall
  <1>1. ASSUME VaultTick PROVE RulesCall
    BY <1>1 DEF VaultTick, RulesCall
  <1>2. ASSUME NEW t \in Tokens,
               \/ SweepFees(t)
               \/ \E amount \in Interest : Earn(t, amount)
               \/ \E amount \in Losses : Lose(t, amount)
        PROVE  RulesCall
    BY <1>2 DEF SweepFees, Earn, Lose, RulesCall
  <1>3. ASSUME (\E m \in Freezable : Elsewhere(m)) \/ UNCHANGED vars
        PROVE  RulesCall
    BY <1>3 DEF Elsewhere, vars, RulesCall
  <1> QED BY <1>1, <1>2, <1>3, LifeCalls, FundsCalls, EarningCalls DEF VaultNext

-----------------------------------------------------------------------------
(* The rules by themselves.                                                *)

\* Spending is a step of the rules, ...
LEMMA SpendIsRules ==
    ASSUME SpendStep
    PROVE  RulesP!RulesNext
  <1>1. PICK v \in Vaults, m \in Members, t \in Tokens, amount \in Sums, balance \in Nat :
           /\ <<v, m>> \in Rules!Scopes
           /\ Rules!Spend(<<v, m>>, Measured(v, t, amount), balance)
    BY DEF SpendStep
  <1>2. Measured(v, t, amount) \in Nat
    BY MeasuredType, VaultAssumption
  <1>3. RulesP!Spend(<<v, m>>, Measured(v, t, amount), balance)
    BY <1>1, RuleCallsAgree
  <1>4. RulesP!CustodianStep(<<v, m>>)
    BY <1>2, <1>3 DEF RulesP!CustodianStep
  <1> QED BY <1>1, <1>4, ScopesAgree DEF RulesP!RulesNext

\* ... so is a bypass, ...
LEMMA BypassIsRules ==
    ASSUME BypassOK, BypassStep
    PROVE  RulesP!RulesNext
  <1>1. PICK v \in Vaults, m \in Members : \E r \in bypass[<<v, m>>] :
           /\ <<v, m>> \in Rules!Scopes
           /\ Rules!SpendWithBypass(<<v, m>>, r.amount, r.skip)
    BY DEF BypassStep
  <1>2. PICK r \in bypass[<<v, m>>] :
           /\ <<v, m>> \in Rules!Scopes
           /\ Rules!SpendWithBypass(<<v, m>>, r.amount, r.skip)
    BY <1>1
  <1>3. r.amount \in Nat /\ r.skip \in Names
    BY DEF BypassOK, BypassRequest
  <1>4. RulesP!SpendWithBypass(<<v, m>>, r.amount, r.skip)
    BY <1>2, RuleCallsAgree
  <1>5. RulesP!CustodianStep(<<v, m>>)
    BY <1>3, <1>4 DEF RulesP!CustodianStep
  <1> QED BY <1>2, <1>5, ScopesAgree DEF RulesP!RulesNext

\* ... so is all that a vault does to a scope.
LEMMA VaultStepIsRules ==
    ASSUME NEW s \in Rules!Scopes, Rules!VaultStep(s)
    PROVE  RulesP!RulesNext
  <1>1. RulesP!VaultStep(s)
    BY RuleCallsAgree, ScopesAgree DEF Rules!VaultStep, RulesP!VaultStep,
       Rules!MayChangeRules, RulesP!MayChangeRules
  <1> QED BY <1>1, ScopesAgree DEF RulesP!RulesNext

\* A step of the vaults is one of the rules, or leaves them alone.
LEMMA RulesRefinement ==
    ASSUME VaultInv, [VaultNext]_vars
    PROVE  [RulesP!RulesNext]_(RulesP!rulesVars)
  <1>1. RulesCall
    BY RulesCalls
  <1>2. Rules!Tick => RulesP!RulesNext
    BY RuleCallsAgree DEF RulesP!RulesNext
  <1>3. UNCHANGED <<now, ruleVars>> => UNCHANGED RulesP!rulesVars
    BY DEF ruleVars, RulesP!rulesVars
  <1> QED BY <1>1, <1>2, <1>3, SpendIsRules, BypassIsRules, VaultStepIsRules
       DEF RulesCall, VaultInv

-----------------------------------------------------------------------------
(* What is true in every state stays true.                                 *)

\* A new request has its wait and its amount.
LEMMA RequestAdded ==
    ASSUME VaultInv, RulesP!RulesTypeOK, NEW v \in Vaults, NEW m \in Members,
           NEW t \in Tokens, NEW amount \in Sums, NEW skip \in Names,
           RequestBypass(v, m, t, amount, skip)
    PROVE  BypassOK'
  <1> DEFINE r == [skip |-> skip, amount |-> Measured(v, t, amount), token |-> t,
                   filed |-> now, executeAfter |-> now + Rules!UnlockDelay(<<v, m>>, skip),
                   executed |-> FALSE]
  <1>1. /\ m \in members[v]
        /\ bypass' = [bypass EXCEPT ![<<v, m>>] = @ \cup {r}]
    BY DEF RequestBypass
  <1>2. Measured(v, t, amount) \in Nat /\ now \in Nat
    BY MeasuredType, VaultAssumption DEF VaultInv, FundsInv
  <1>3. Rules!UnlockDelay(<<v, m>>, skip) \in Nat
        /\ Rules!UnlockDelay(<<v, m>>, skip) >= MinUnlockDelay
    <2>1. <<v, m>> \in RulesP!Scopes
      BY <1>1, MemberScope, ScopesAgree DEF VaultInv, FundsInv
    <2>2. RulesP!UnlockDelay(<<v, m>>, skip) \in MinUnlockDelay .. MaxUnlockDelay
      BY <2>1, RulesAssumed, RulesP!UnlockDelayBounds
    <2>3. RulesP!UnlockDelay(<<v, m>>, skip) = Rules!UnlockDelay(<<v, m>>, skip)
      BY DEF RulesP!UnlockDelay, Rules!UnlockDelay
    <2>4. MinUnlockDelay \in Nat
      BY VaultRulesAssumption DEF Rules!RulesAssumption
    <2> QED BY <2>2, <2>3, <2>4
  <1>4. r \in BypassRequest /\ RequestOK(v, r)
    <2>1. now + Rules!UnlockDelay(<<v, m>>, skip) \in Nat
          /\ now + Rules!UnlockDelay(<<v, m>>, skip) >= now + MinUnlockDelay
      <3>1. MinUnlockDelay \in Nat
        BY VaultRulesAssumption DEF Rules!RulesAssumption
      <3> QED BY <1>2, <1>3, <3>1
    <2> QED BY <1>2, <2>1 DEF BypassRequest, RequestOK
  <1> HIDE DEF r
  <1> QED BY <1>1, <1>4 DEF VaultInv, BypassOK, RequestOK, Measured, ToDollars

\* Running or cancelling one takes it away.
LEMMA RequestRun ==
    ASSUME VaultInv, NEW v \in Vaults, NEW m \in Members, NEW r \in bypass[<<v, m>>],
           ExecuteBypass(v, m, r) \/ CancelBypass(v, m, r)
    PROVE  BypassOK'
  <1> DEFINE q == [r EXCEPT !.executed = TRUE]
  <1>1. r \in BypassRequest /\ RequestOK(v, r)
    BY DEF VaultInv, BypassOK
  <1>2. q \in BypassRequest /\ RequestOK(v, q)
    BY <1>1 DEF BypassRequest, RequestOK
  <1>3. \/ bypass' = [bypass EXCEPT ![<<v, m>>] = (@ \ {r}) \cup {q}]
        \/ bypass' = [bypass EXCEPT ![<<v, m>>] = @ \ {r}]
    BY DEF ExecuteBypass, CancelBypass
  <1> HIDE DEF q
  <1> QED BY <1>2, <1>3 DEF VaultInv, BypassOK, RequestOK, Measured, ToDollars

\* The two ways in which the bypass requests change.
BypassesMove == \E v \in Vaults, m \in Members :
    \/ \E t \in Tokens, amount \in Sums, skip \in Names : RequestBypass(v, m, t, amount, skip)
    \/ \E r \in bypass[<<v, m>>] : ExecuteBypass(v, m, r) \/ CancelBypass(v, m, r)

\* No other step touches the requests.
LEMMA BypassesKept ==
    ASSUME [VaultNext]_vars
    PROVE  BypassesMove \/ UNCHANGED bypass
  <1>1. ASSUME NEW v \in Vaults, LifeStep(v)
        PROVE  UNCHANGED bypass
    BY <1>1 DEF LifeStep, CreateVault, AddAcceptedToken, JoinVault, LeaveVault, ChangeRules,
       vaultVars
  <1>2. ASSUME NEW v \in Vaults, NEW m \in Members, NEW t \in Tokens, NEW amount \in Sums,
               \/ \E answer \in Answers : Deposit(v, m, t, amount, answer)
               \/ Withdraw(v, m, t, amount) \/ WithdrawWithPenalty(v, m, t, amount)
        PROVE  UNCHANGED bypass
    BY <1>2 DEF Deposit, Withdraw, WithdrawWithPenalty
  <1>3. ASSUME NEW v \in Vaults, NEW m \in Members, NEW t \in Tokens,
               ClaimPenaltyRewards(v, m, t)
        PROVE  UNCHANGED bypass
    BY <1>3 DEF ClaimPenaltyRewards
  <1>4. ASSUME NEW v \in Vaults, FundsStep(v)
        PROVE  BypassesMove \/ UNCHANGED bypass
    BY <1>2, <1>3, <1>4 DEF FundsStep, BypassesMove
  <1>5. ASSUME NEW v \in Vaults, EarningStep(v)
        PROVE  UNCHANGED bypass
    BY <1>5 DEF EarningStep, SetYieldMode, CompoundYield, AccrueYield, RealizeFees
  <1>6. ASSUME VaultTick \/ UNCHANGED vars \/ (\E m \in Freezable : Elsewhere(m))
        PROVE  UNCHANGED bypass
    BY <1>6 DEF VaultTick, vaultVars, vars, Elsewhere
  <1>7. ASSUME NEW t \in Tokens,
               \/ SweepFees(t)
               \/ \E amount \in Interest : Earn(t, amount)
               \/ \E amount \in Losses : Lose(t, amount)
        PROVE  UNCHANGED bypass
    BY <1>7 DEF SweepFees, Earn, Lose
  <1> QED BY <1>1, <1>4, <1>5, <1>6, <1>7 DEF VaultNext

\* So every request on file keeps its wait.
LEMMA BypassOKStep ==
    ASSUME VaultInv, RulesP!RulesTypeOK, [VaultNext]_vars
    PROVE  BypassOK'
  <1>1. CASE UNCHANGED bypass
    BY <1>1 DEF VaultInv, BypassOK, RequestOK, Measured, ToDollars
  <1> QED BY <1>1, BypassesKept, RequestAdded, RequestRun DEF BypassesMove

\* Time passes in one way only.
LEMMA ClockGoesOn ==
    ASSUME VaultInv, [VaultNext]_vars
    PROVE  now' \in Nat /\ now <= now'
  <1>1. now \in Nat /\ RulesCall
    BY RulesCalls DEF VaultInv, FundsInv
  <1>2. Rules!Tick => now' = now + 1
    BY DEF Rules!Tick
  <1>3. ASSUME NEW s, Rules!VaultStep(s) PROVE now' = now
    BY <1>3 DEF Rules!VaultStep, Rules!InstallRules, Rules!JoinRules, Rules!ProposalStep,
       Rules!ProposeLimitChange, Rules!ProposeUnlockDelayChange, Rules!File,
       Rules!ExecuteLimitProposal, Rules!CancelLimitProposal
  <1>4. SpendStep \/ BypassStep => now' = now
    BY DEF SpendStep, BypassStep, Rules!Spend, Rules!SpendWithBypass
  <1> QED BY <1>1, <1>2, <1>3, <1>4 DEF RulesCall

\* Counts stay numbers.
LEMMA CountsStep ==
    ASSUME CountsOK, [VaultNext]_vars
    PROVE  CountsOK'
  <1>1. ASSUME NEW v \in Vaults, NEW m \in Members, NEW t \in Tokens, NEW amount \in Sums,
               WithdrawWithPenalty(v, m, t, amount)
        PROVE  CountsOK'
    BY <1>1 DEF WithdrawWithPenalty, CountsOK
  <1>2. ASSUME NEW t \in Tokens, NEW amount \in Nat, Earn(t, amount) \/ Lose(t, amount)
        PROVE  CountsOK'
    <2> DEFINE k == market[t]
    <2>1. k \in [earned : Nat, lost : Nat] /\ penalties' = penalties
      BY <1>2 DEF CountsOK, Earn, Lose
    <2>2. \/ market' = [market EXCEPT ![t] = [k EXCEPT !.earned = @ + amount]]
          \/ market' = [market EXCEPT ![t] = [k EXCEPT !.lost = @ + amount]]
      BY <1>2 DEF Earn, Lose
    <2>3. /\ [k EXCEPT !.earned = @ + amount] \in [earned : Nat, lost : Nat]
          /\ [k EXCEPT !.lost = @ + amount] \in [earned : Nat, lost : Nat]
      <3> HIDE DEF k
      <3> QED BY <2>1
    <2> HIDE DEF k
    <2> QED BY <2>1, <2>2, <2>3 DEF CountsOK
  <1>3. CASE UNCHANGED <<penalties, market>>
    BY <1>3 DEF CountsOK
  <1>4. ASSUME NEW v \in Vaults, LifeStep(v)
        PROVE  UNCHANGED <<penalties, market>>
    BY <1>4 DEF LifeStep, CreateVault, AddAcceptedToken, JoinVault, LeaveVault, ChangeRules,
       vaultVars
  <1>5. ASSUME NEW v \in Vaults, NEW m \in Members, NEW t \in Tokens, NEW amount \in Sums,
               \/ \E answer \in Answers : Deposit(v, m, t, amount, answer)
               \/ Withdraw(v, m, t, amount)
               \/ \E skip \in Names : RequestBypass(v, m, t, amount, skip)
        PROVE  UNCHANGED <<penalties, market>>
    BY <1>5 DEF Deposit, Withdraw, RequestBypass
  <1>6. ASSUME NEW v \in Vaults, NEW m \in Members,
               \/ \E t \in Tokens : ClaimPenaltyRewards(v, m, t)
               \/ \E r \in bypass[<<v, m>>] : ExecuteBypass(v, m, r) \/ CancelBypass(v, m, r)
        PROVE  UNCHANGED <<penalties, market>>
    BY <1>6, Zenon DEF ClaimPenaltyRewards, ExecuteBypass, CancelBypass
  <1>7. ASSUME NEW v \in Vaults, EarningStep(v)
        PROVE  UNCHANGED <<penalties, market>>
    BY <1>7 DEF EarningStep, SetYieldMode, CompoundYield, AccrueYield, RealizeFees
  <1>8. ASSUME VaultTick \/ UNCHANGED vars \/ (\E m \in Freezable : Elsewhere(m))
               \/ (\E t \in Tokens : SweepFees(t))
        PROVE  UNCHANGED <<penalties, market>>
    BY <1>8 DEF VaultTick, vaultVars, vars, Elsewhere, SweepFees
  <1>9. Interest \subseteq Nat /\ Losses \subseteq Nat
    BY VaultAssumption
  <1>10. ASSUME NEW v \in Vaults, FundsStep(v)
        PROVE  CountsOK'
    BY <1>1, <1>3, <1>5, <1>6, <1>10 DEF FundsStep
  <1> QED BY <1>2, <1>3, <1>4, <1>7, <1>8, <1>9, <1>10 DEF VaultNext

\* A member who leaves is settled, and had nothing left.
Departed(v, m, t) ==
    /\ LedgerOK(books'[t]) /\ Settled(books[t], books'[t], v, m)
    /\ books'[t].balance[v][m] = 0 /\ books'[t].unclaimed[v][m] = 0
    /\ Reward(books[t], v, m) = 0

\* leaveVault settles every token of the vault and requires nothing to be left.
LEMMA LeavingSettles ==
    ASSUME FundsInv, NEW v \in Vaults, NEW m \in Members, LeaveVault(v, m), NEW t \in Tokens
    PROVE  IF t \in accepted[v] THEN Departed(v, m, t) ELSE books'[t] = books[t]
  <1>1. /\ books' = [u \in Tokens |-> IF u \in accepted[v] THEN Settle(books[u], v, m, now)
                                                            ELSE books[u]]
        /\ \A u \in accepted[v] : books'[u].balance[v][m] = 0 /\ books'[u].unclaimed[v][m] = 0
    BY DEF LeaveVault
  <1>2. CASE t \notin accepted[v]
    BY <1>1, <1>2
  <1>3. CASE t \in accepted[v]
    <2>1. books'[t] = Settle(books[t], v, m, now)
      BY <1>1, <1>3
    <2>2. books'[t].balance[v][m] = 0 /\ books'[t].unclaimed[v][m] = 0
      BY <1>1, <1>3
    <2>3. LedgerOK(books[t]) /\ now \in Nat
      BY DEF FundsInv, BooksOK, BookOK
    <2> HIDE <1>1
    <2>4. Settled(books[t], books'[t], v, m)
      BY <2>1, <2>3, SettleShape
    <2>5. LedgerOK(books'[t]) /\ Reward(books[t], v, m) = 0
      BY <2>2, <2>4 DEF Settled
    <2> QED BY <1>3, <2>2, <2>4, <2>5 DEF Departed
  <1> QED BY <1>2, <1>3

\* So who has left has nothing in the vault.
LEMMA LeavingOK ==
    ASSUME FundsInv, NEW v \in Vaults, NEW m \in Members, LeaveVault(v, m)
    PROVE  BooksOK'
  <1>1. /\ books' = [u \in Tokens |-> books'[u]]
        /\ members' = [members EXCEPT ![v] = @ \ {m}] /\ accepted' = accepted /\ now' = now
    BY DEF LeaveVault
  <1>2. members \in [Vaults -> SUBSET Members]
    BY DEF FundsInv, MembershipOK
  <1>3. ASSUME NEW t \in Tokens
        PROVE  BookOK(books[t], t)'
    <2>1. BookOK(books[t], t) /\ LedgerOK(books[t])
      BY DEF FundsInv, BooksOK, BookOK
    <2>2. IF t \in accepted[v] THEN Departed(v, m, t) ELSE books'[t] = books[t]
      BY LeavingSettles
    <2>3. LedgerOK(books'[t])
      BY <2>1, <2>2 DEF Departed
    <2>4. LedgerOK(books[t])'
      BY <1>1, <2>3 DEF LedgerOK
    <2>5. ASSUME NEW u \in Vaults, NEW n \in Members, Outside(u, n, t)'
          PROVE  books'[t].balance[u][n] = 0 /\ books'[t].unclaimed[u][n] = 0
      <3>1. Outside(u, n, t) \/ <<u, n>> = <<v, m>>
        BY <1>1, <1>2, <2>5 DEF Outside
      <3>2. CASE t \notin accepted[v]
        BY <2>1, <2>2, <3>1, <3>2 DEF BookOK, Outside
      <3>3. CASE t \in accepted[v] /\ <<u, n>> = <<v, m>>
        BY <2>2, <3>3 DEF Departed
      <3>4. CASE t \in accepted[v] /\ <<u, n>> # <<v, m>>
        <4>1. books[t].balance[u][n] = 0 /\ books[t].unclaimed[u][n] = 0
          BY <2>1, <3>1, <3>4 DEF BookOK
        <4>2. Settled(books[t], books'[t], v, m)
          BY <2>2, <3>4 DEF Departed
        <4> QED BY <3>4, <4>1, <4>2 DEF Settled
      <3> QED BY <3>2, <3>3, <3>4
    <2> QED BY <2>4, <2>5 DEF BookOK, Outside
  <1> QED BY <1>1, <1>3 DEF BooksOK

\* Nor has who just joined, or the creator of a new vault.
LEMMA LifeOK ==
    ASSUME VaultInv, NEW v \in Vaults, LifeStep(v), now' \in Nat, now <= now'
    PROVE  BooksOK'
  <1>0. FundsInv /\ BooksOK /\ now \in Nat /\ MembershipOK
    BY DEF VaultInv, FundsInv
  <1>1. ASSUME UNCHANGED books,
               \A u \in Vaults, n \in Members, t \in Tokens : Outside(u, n, t)' => Outside(u, n, t)
        PROVE  BooksOK'
    BY <1>0, <1>1, QuietOK
  <1>2. ASSUME NEW tokens \in SUBSET Tokens, NEW batch \in Rules!Batches,
               NEW arePercentage \in BOOLEAN, CreateVault(v, tokens, batch, arePercentage)
        PROVE  BooksOK'
    <2>1. /\ members[v] = {} /\ UNCHANGED books
          /\ members' = [members EXCEPT ![v] = {CreatorOf[v]}]
          /\ accepted' = [accepted EXCEPT ![v] = tokens]
      BY <1>2 DEF CreateVault
    <2>2. \A u \in Vaults, n \in Members, t \in Tokens : Outside(u, n, t)' => Outside(u, n, t)
      BY <1>0, <2>1 DEF Outside, MembershipOK
    <2> QED BY <1>1, <2>1, <2>2
  <1>3. ASSUME NEW t \in Tokens, AddAcceptedToken(v, t)
        PROVE  BooksOK'
    <2>1. /\ UNCHANGED <<books, members>>
          /\ accepted' = [accepted EXCEPT ![v] = @ \cup {t}]
      BY <1>3 DEF AddAcceptedToken
    <2>2. \A u \in Vaults, n \in Members, k \in Tokens : Outside(u, n, k)' => Outside(u, n, k)
      BY <1>0, <2>1 DEF Outside, MembershipOK
    <2> QED BY <1>1, <2>1, <2>2
  <1>4. ASSUME NEW m \in Members, JoinVault(v, m)
        PROVE  BooksOK'
    <2>1. /\ UNCHANGED <<books, accepted>>
          /\ members' = [members EXCEPT ![v] = @ \cup {m}]
      BY <1>4 DEF JoinVault
    <2>2. \A u \in Vaults, n \in Members, k \in Tokens : Outside(u, n, k)' => Outside(u, n, k)
      BY <1>0, <2>1 DEF Outside, MembershipOK
    <2> QED BY <1>1, <2>1, <2>2
  <1>5. ASSUME ChangeRules(v)
        PROVE  BooksOK'
    <2>1. UNCHANGED <<books, members, accepted>>
      BY <1>5 DEF ChangeRules, vaultVars
    <2> QED BY <1>1, <2>1 DEF Outside
  <1> QED BY <1>0, <1>2, <1>3, <1>4, <1>5, LeavingOK DEF LifeStep

\* A request on file is for a token and for a number of it.
LEMMA RequestTypes ==
    ASSUME BypassOK, NEW v \in Vaults, NEW m \in Members, NEW r \in bypass[<<v, m>>]
    PROVE  r.token \in Tokens /\ BypassAmount(v, r) \in Nat
  <1>1. r.token \in Tokens /\ r.amount \in Nat
    BY DEF BypassOK, BypassRequest
  <1>2. Down[r.token] \in Nat \ {0} /\ Up[r.token] \in Nat \ {0}
    BY <1>1, VaultAssumption
  <1>3. r.amount * Down[r.token] \in Nat
    BY <1>1, <1>2, MulNat
  <1>4. (r.amount * Down[r.token]) \div Up[r.token] \in Nat
    BY <1>2, <1>3, DivNat
  <1> QED BY <1>1, <1>4 DEF BypassAmount, FromDollars

\* Every transaction with money leaves the books in order.
LEMMA FundsOK ==
    ASSUME VaultInv, NEW v \in Vaults, FundsStep(v)
    PROVE  BooksOK'
  <1>0. FundsInv /\ BooksOK /\ now \in Nat /\ BypassOK /\ Sums \subseteq Nat
        /\ UNCHANGED <<now, members, accepted>>
    BY SameMembers, VaultAssumption DEF VaultInv, FundsInv
  <1>1. ASSUME NEW t \in Tokens, NEW c, Post(t, c), BookOK(c, t)
        PROVE  BooksOK'
    BY <1>0, <1>1, PostedOK
  <1>2. CASE UNCHANGED books
    BY <1>0, <1>2, QuietOK DEF Outside
  <1>3. ASSUME NEW m \in Members, NEW t \in Tokens, NEW amount \in Sums,
               \/ \E answer \in Answers : Deposit(v, m, t, amount, answer)
               \/ Withdraw(v, m, t, amount)
               \/ WithdrawWithPenalty(v, m, t, amount)
        PROVE  BooksOK'
    <2>1. amount \in Nat
      BY <1>0
    <2>2. ASSUME NEW answer \in Answers, Deposit(v, m, t, amount, answer)
          PROVE  BooksOK'
      <3>1. PICK c : Placed(v, m, t, amount, c)
        BY <1>0, <2>1, <2>2, DepositIsPlaced
      <3> QED BY <1>1, <3>1 DEF Placed
    <2>3. ASSUME Withdraw(v, m, t, amount)
          PROVE  BooksOK'
      <3>1. PICK c : Payment(v, m, t, amount, c)
        BY <1>0, <2>1, <2>3, WithdrawIsPayment
      <3> QED BY <1>1, <3>1 DEF Payment
    <2>4. ASSUME WithdrawWithPenalty(v, m, t, amount)
          PROVE  BooksOK'
      <3>1. PICK c : EarlyExit(v, m, t, amount, c) \/ Payment(v, m, t, amount, c)
        BY <1>0, <2>1, <2>4, PenaltyIsExit
      <3> QED BY <1>1, <3>1 DEF Payment, EarlyExit
    <2> QED BY <1>3, <2>2, <2>3, <2>4
  <1>4. ASSUME NEW m \in Members, NEW t \in Tokens, NEW amount \in Sums, NEW skip \in Names,
               RequestBypass(v, m, t, amount, skip)
        PROVE  BooksOK'
    BY <1>2, <1>4 DEF RequestBypass
  <1>5. ASSUME NEW m \in Members, NEW t \in Tokens, ClaimPenaltyRewards(v, m, t)
        PROVE  BooksOK'
    BY <1>0, <1>1, <1>5, ClaimIsClaimed
  <1>6. ASSUME NEW m \in Members, NEW r \in bypass[<<v, m>>], ExecuteBypass(v, m, r)
        PROVE  BooksOK'
    <2>1. r.token \in Tokens /\ BypassAmount(v, r) \in Nat
      BY <1>0, RequestTypes
    <2>2. PICK c : Payment(v, m, r.token, BypassAmount(v, r), c)
      BY <1>0, <1>6, <2>1, BypassIsPayment
    <2> QED BY <1>1, <2>1, <2>2 DEF Payment
  <1>7. ASSUME NEW m \in Members, NEW r \in bypass[<<v, m>>], CancelBypass(v, m, r)
        PROVE  BooksOK'
    BY <1>2, <1>7 DEF CancelBypass
  <1> QED BY <1>3, <1>4, <1>5, <1>6, <1>7 DEF FundsStep

\* The invariant is kept by every step.
LEMMA VaultInvStep ==
    ASSUME VaultInv, RulesP!RulesTypeOK, [VaultNext]_vars
    PROVE  VaultInv' /\ RulesP!RulesTypeOK'
  <1>0. FundsInv /\ MembershipOK /\ CountsOK /\ BooksOK /\ now \in Nat
    BY DEF VaultInv, FundsInv
  <1>1. now' \in Nat /\ now <= now'
    BY ClockGoesOn
  <1>2. MembershipOK' /\ CountsOK' /\ BypassOK'
    BY <1>0, MembershipStep, CountsStep, BypassOKStep
  <1>3. RulesP!RulesTypeOK'
    BY RulesRefinement, RulesAssumed, RulesP!RulesTypeStep
  <1>4. BooksOK'
    <2>1. CASE UNCHANGED <<books, members, accepted>>
      BY <1>0, <1>1, <2>1, QuietOK DEF Outside
    <2>2. ASSUME NEW t \in Tokens, NEW c, Post(t, c), BookOK(c, t),
                 UNCHANGED <<now, members, accepted>>
          PROVE  BooksOK'
      BY <1>0, <2>2, PostedOK
    <2>3. ASSUME VaultTick \/ UNCHANGED vars \/ (\E m \in Freezable : Elsewhere(m))
          PROVE  BooksOK'
      BY <2>1, <2>3 DEF VaultTick, vaultVars, vars, Elsewhere
    <2>4. ASSUME NEW v \in Vaults, EarningStep(v)
          PROVE  BooksOK'
      <3>1. UNCHANGED <<now, members, accepted>>
        BY <2>4, SameMembers
      <3>2. PICK t \in Tokens : \E c : Arranged(v, t, c)
        BY <1>0, <2>4, EarningArranges
      <3> QED BY <2>2, <3>1, <3>2 DEF Arranged
    <2>5. ASSUME NEW t \in Tokens, SweepFees(t)
          PROVE  BooksOK'
      <3>1. UNCHANGED <<now, members, accepted>>
        BY <2>5 DEF SweepFees
      <3> QED BY <1>0, <2>2, <2>5, <3>1, SweepReholds
    <2>6. ASSUME NEW t \in Tokens, NEW amount \in Nat, Earn(t, amount) \/ Lose(t, amount)
          PROVE  BooksOK'
      <3>1. UNCHANGED <<now, members, accepted>>
        BY <2>6 DEF Earn, Lose
      <3>2. \E c : Fluctuated(t, c, amount, 0) \/ Fluctuated(t, c, 0, amount)
        BY <1>0, <2>6, MarketFluctuates
      <3> QED BY <2>2, <3>1, <3>2 DEF Fluctuated
    <2>7. Interest \subseteq Nat /\ Losses \subseteq Nat
      BY VaultAssumption
    <2> QED BY <1>1, <2>3, <2>4, <2>5, <2>6, <2>7, LifeOK, FundsOK DEF VaultNext
  <1> QED BY <1>1, <1>2, <1>3, <1>4 DEF VaultInv, FundsInv

\* No vault has rules before it is created, ...
LEMMA RulesStart == VaultInit => RulesP!RulesInit
  BY ScopesAgree DEF VaultInit, Rules!RulesInit, RulesP!RulesInit, Rules!AbsentPeriod,
     RulesP!AbsentPeriod

\* ... or money, ...
LEMMA EmptyBooksOK ==
    ASSUME now = 0
    PROVE  LedgerOK(EmptyBooks) /\ \A v \in Vaults, m \in Members :
              EmptyBooks.balance[v][m] = 0 /\ EmptyBooks.unclaimed[v][m] = 0
  <1> DEFINE none == [m \in Members |-> 0]
  <1>1. EmptyBooks \in Books
    BY DEF EmptyBooks, Books, Position
  <1>2. \A v \in Vaults : EmptyBooks.balance[v] = none /\ EmptyBooks.total[v] = 0
                          /\ EmptyBooks.position[v].since = 0
    BY DEF EmptyBooks
  <1>3. SumFunctionOnSet(none, Members) = 0
    <2>1. \A m \in Members : none[m] = 0
      OBVIOUS
    <2> HIDE DEF none
    <2> QED BY <2>1, SumZero, VaultAssumption
  <1>4. \A v \in Vaults, m \in Members :
           EmptyBooks.balance[v][m] = 0 /\ EmptyBooks.unclaimed[v][m] = 0
    BY DEF EmptyBooks
  <1> HIDE DEF none
  <1> QED BY <1>1, <1>2, <1>3, <1>4 DEF LedgerOK

\* ... so that the invariant holds at the start.
LEMMA VaultStart == VaultInit => VaultInv /\ RulesP!RulesTypeOK
  <1> SUFFICES ASSUME VaultInit
               PROVE  VaultInv /\ RulesP!RulesTypeOK
    OBVIOUS
  <1>1. now = 0 /\ RulesP!RulesInit
    BY RulesStart DEF RulesP!RulesInit
  <1>2. RulesP!RulesTypeOK
    BY <1>1, RulesAssumed DEF RulesP!RulesInit, RulesP!RulesTypeOK, RulesP!AbsentPeriod,
       RulesP!Period, RulesP!RulesAssumption
  <1>3. BooksOK
    BY <1>1, EmptyBooksOK DEF VaultInit, BooksOK, BookOK
  <1>4. MembershipOK /\ CountsOK /\ BypassOK
    BY DEF VaultInit, MembershipOK, CountsOK, BypassOK
  <1> QED BY <1>1, <1>2, <1>3, <1>4 DEF VaultInv, FundsInv

\* What is true in every state of the vaults, and of their rules.
LEMMA VaultInvariant == VaultSpec => [](VaultInv /\ RulesP!RulesTypeOK)
  <1>1. VaultInit => VaultInv /\ RulesP!RulesTypeOK
    BY VaultStart
  <1>2. VaultInv /\ RulesP!RulesTypeOK /\ [VaultNext]_vars
        => (VaultInv /\ RulesP!RulesTypeOK)'
    BY VaultInvStep
  <1> QED BY <1>1, <1>2, PTL DEF VaultSpec

\* The variables have their types: amounts, positions, accumulators and debts of the
\* books are numbers, however they were settled, invested, divested or penalised.
THEOREM VaultTypeCorrect == VaultSpec => []VaultTypeOK
  <1>1. VaultInv => VaultTypeOK
    <2> SUFFICES ASSUME VaultInv PROVE VaultTypeOK
      OBVIOUS
    <2>1. \A t \in Tokens : BookOK(books[t], t) /\ LedgerOK(books[t])
      BY DEF VaultInv, FundsInv, BooksOK, BookOK
    <2>2. books = [t \in Tokens |-> books[t]]
      BY DEF VaultInv, FundsInv, BooksOK
    <2>3. books \in [Tokens -> Books]
      BY <2>1, <2>2 DEF LedgerOK
    <2>4. \A v \in Vaults : members[v] \subseteq Members /\ accepted[v] \subseteq Tokens
      BY DEF VaultInv, FundsInv, MembershipOK
    <2>5. bypass \in [Vaults \X Members -> SUBSET BypassRequest]
      BY DEF VaultInv, BypassOK
    <2> QED BY <2>1, <2>3, <2>4, <2>5 DEF VaultTypeOK, BookOK, LedgerOK, Outside
  <1> QED BY <1>1, VaultInvariant, PTL

\* The vaults, seen from the rules, are the rules: whatever is proved of the rules
\* for any caller is true where the vaults call them.
LEMMA VaultRules == VaultSpec => RulesP!RulesSpec
  <1>1. VaultInit => RulesP!RulesInit
    BY RulesStart
  <1>2. VaultInv /\ [VaultNext]_vars => [RulesP!RulesNext]_(RulesP!rulesVars)
    BY RulesRefinement
  <1> QED BY <1>1, <1>2, VaultInvariant, PTL DEF VaultSpec, RulesP!RulesSpec

\* What is proved of the spending rules alone holds of the rules of vault members,
\* whose calls come from the vault module: locked rules change only by a proposal that
\* has waited, room never grows for free, and what was spent is forgotten only by time
\* (createVault, joinVault, withdraw, executeBypass, proposeRules of the rules module).
THEOREM RulesHoldInTheVault ==
    VaultSpec => /\ RulesP!LockedRulesChangeOnlyByProposal
                 /\ RulesP!RoomNeverGrowsForFree
                 /\ RulesP!SpentIsForgottenOnlyByTime
  BY VaultRules, RulesAssumed, RulesP!LockedRulesProof, RulesP!RoomProof, RulesP!SpentProof

\* And, of one community vault, that all its members live under the creator's terms,
\* however they joined (joinVault copies the rules and locks them).
THEOREM TermsHoldInTheVault ==
    ASSUME \A u, v \in Community : u = v
    PROVE  VaultSpec => []RulesP!MembersShareTheTerms
  <1>1. \A f, g \in {<<v, CreatorOf[v]>> : v \in Community} : f = g
    OBVIOUS
  <1> QED BY <1>1, VaultRules, RulesAssumed, RulesP!TermsProof

\* Every transaction of the vaults is, for the rules, one of the calls that the rules
\* module offers: the vault module never writes a rule or a counter in another way.
\* The two sets that the rules are called with are as wide as the calls.
THEOREM RulesImplemented ==
    ASSUME Balances = Nat,
           \A v \in Vaults, t \in Tokens, amount \in Sums : Measured(v, t, amount) \in Amounts
    PROVE  VaultSpec => ImplementsRules
  <1>1. ASSUME VaultInv, [VaultNext]_vars
        PROVE  [Rules!RulesNext]_(Rules!rulesVars)
    <2>1. RulesCall
      BY <1>1, RulesCalls
    <2>2. Rules!Tick => Rules!RulesNext
      BY DEF Rules!RulesNext
    <2>3. UNCHANGED <<now, ruleVars>> => UNCHANGED Rules!rulesVars
      BY DEF ruleVars, Rules!rulesVars
    <2>4. ASSUME NEW s \in Rules!Scopes, Rules!VaultStep(s)
          PROVE  Rules!RulesNext
      BY <2>4 DEF Rules!RulesNext
    <2>5. ASSUME SpendStep
          PROVE  Rules!RulesNext
      <3>1. PICK v \in Vaults, m \in Members, t \in Tokens, amount \in Sums, balance \in Nat :
               /\ <<v, m>> \in Rules!Scopes
               /\ Rules!Spend(<<v, m>>, Measured(v, t, amount), balance)
        BY <2>5 DEF SpendStep
      <3>2. Rules!CustodianStep(<<v, m>>)
        BY <3>1 DEF Rules!CustodianStep
      <3> QED BY <3>1, <3>2 DEF Rules!RulesNext
    <2>6. ASSUME BypassStep
          PROVE  Rules!RulesNext
      <3>1. PICK v \in Vaults, m \in Members : \E r \in bypass[<<v, m>>] :
               /\ <<v, m>> \in Rules!Scopes
               /\ Rules!SpendWithBypass(<<v, m>>, r.amount, r.skip)
        BY <2>6 DEF BypassStep
      <3>2. PICK r \in bypass[<<v, m>>] :
               /\ <<v, m>> \in Rules!Scopes
               /\ Rules!SpendWithBypass(<<v, m>>, r.amount, r.skip)
        BY <3>1
      <3>3. r.token \in Tokens /\ r.skip \in Names /\ RequestOK(v, r)
        BY <1>1 DEF VaultInv, BypassOK, BypassRequest
      <3>4. r.amount \in Amounts
        BY <3>3 DEF RequestOK
      <3>5. Rules!CustodianStep(<<v, m>>)
        BY <3>2, <3>3, <3>4 DEF Rules!CustodianStep
      <3> QED BY <3>2, <3>5 DEF Rules!RulesNext
    <2> QED BY <2>1, <2>2, <2>3, <2>4, <2>5, <2>6 DEF RulesCall
  <1>2. VaultInit => Rules!RulesInit
    BY DEF VaultInit
  <1>3. VaultInv /\ [VaultNext]_vars => [Rules!RulesNext]_(Rules!rulesVars)
    BY <1>1
  <1> QED BY <1>2, <1>3, VaultInvariant, PTL DEF VaultSpec, ImplementsRules, Rules!RulesSpec

-----------------------------------------------------------------------------
(* Why money leaves.                                                       *)

\* All there is of a token, in the three places together.
LEMMA AssetsType == ASSUME NEW b \in Books PROVE Assets(b) \in Nat
  BY DEF Assets, Books

\* Where nothing goes there is nothing to explain.
LEMMA NothingOut ==
    ASSUME BooksOK, NEW t \in Tokens, NEW x \in Nat,
           Assets(books'[t]) = Assets(books[t]) + x
    PROVE  Explained(t)
  <1>1. Assets(books[t]) \in Nat
    BY AssetsType DEF BooksOK, BookOK, LedgerOK
  <1>2. ~(Out(t) > 0)
    BY <1>1 DEF Out
  <1> QED BY <1>2 DEF Explained

\* Nor where the books are the same.
LEMMA BooksKeptExplains ==
    ASSUME BooksOK, NEW t \in Tokens, books'[t] = books[t]
    PROVE  Explained(t)
  <1>1. Assets(books[t]) \in Nat
    BY AssetsType DEF BooksOK, BookOK, LedgerOK
  <1>2. Assets(books'[t]) = Assets(books[t]) + 0
    BY <1>1
  <1> QED BY <1>2, NothingOut

\* Only the token of the transaction has anything to explain.
LEMMA OneExplained ==
    ASSUME BooksOK, NEW t \in Tokens, NEW c, Post(t, c), Explained(t)
    PROVE  \A k \in Tokens : Explained(k)
  <1>1. Books1(t, c)
    BY PostIsOne
  <1> QED BY <1>1, BooksKeptExplains DEF Books1

\* What a payment takes out of the vaults is what the member gives up.
LEMMA PaymentOut ==
    ASSUME FundsInv, NEW v \in Vaults, NEW m \in Members, NEW t \in Tokens,
           NEW amount \in Nat, NEW c, Payment(v, m, t, amount, c)
    PROVE  Out(t) = amount /\ GivenUp(v, m, t) = amount
  <1>1. BooksOK /\ now \in Nat /\ LedgerOK(books[t])
    BY DEF FundsInv, BooksOK, BookOK
  <1>2. books'[t] = c
    BY <1>1, PostIsOne DEF Payment, Books1
  <1>3. /\ Assets(c) = Assets(books[t]) + (-amount)
        /\ c.balance[v][m] = Settle(books[t], v, m, now).balance[v][m] + (-amount)
    BY DEF Payment, Transacted
  <1> DEFINE s == Settle(books[t], v, m, now)
  <1>4. Settled(books[t], s, v, m)
    BY <1>1, SettleShape
  <1>5. s.balance[v][m] \in Nat /\ Assets(books[t]) \in Nat
    <2> HIDE DEF s
    <2> QED BY <1>1, <1>4, AssetsType DEF Settled, LedgerOK, Books
  <1> HIDE DEF s
  <1>6. GivenUp(v, m, t) = s.balance[v][m] - c.balance[v][m]
    BY <1>2 DEF GivenUp, s
  <1>7. c.balance[v][m] = s.balance[v][m] + (-amount)
    BY <1>3 DEF s
  <1> QED BY <1>2, <1>3, <1>5, <1>6, <1>7 DEF Out

\* An early exit gives up all of it and takes out what is not the penalty.
LEMMA ExitOut ==
    ASSUME FundsInv, NEW v \in Vaults, NEW m \in Members, NEW t \in Tokens,
           NEW amount \in Nat, NEW c, EarlyExit(v, m, t, amount, c)
    PROVE  Out(t) = amount - PenaltyOf(amount) /\ GivenUp(v, m, t) = amount
  <1>1. BooksOK /\ now \in Nat /\ LedgerOK(books[t])
    BY DEF FundsInv, BooksOK, BookOK
  <1>2. books'[t] = c
    BY <1>1, PostIsOne DEF EarlyExit, Books1
  <1>3. /\ Assets(c) = Assets(books[t]) + (PenaltyOf(amount) - amount)
        /\ c.balance[v][m] = Settle(books[t], v, m, now).balance[v][m] + (-amount)
    BY DEF EarlyExit, Transacted
  <1> DEFINE s == Settle(books[t], v, m, now)
             p == PenaltyOf(amount)
  <1>4. Settled(books[t], s, v, m)
    BY <1>1, SettleShape
  <1>5. s.balance[v][m] \in Nat /\ Assets(books[t]) \in Nat
    <2> HIDE DEF s
    <2> QED BY <1>1, <1>4, AssetsType DEF Settled, LedgerOK, Books
  <1>6. p \in Nat
    BY PenaltyType
  <1> HIDE DEF s, p
  <1>7. GivenUp(v, m, t) = s.balance[v][m] - c.balance[v][m]
    BY <1>2 DEF GivenUp, s
  <1>8. /\ c.balance[v][m] = s.balance[v][m] + (-amount)
        /\ Assets(c) = Assets(books[t]) + (p - amount)
    BY <1>3 DEF s, p
  <1>9. Out(t) = amount - p
    BY <1>2, <1>5, <1>6, <1>8 DEF Out
  <1>10. GivenUp(v, m, t) = amount
    BY <1>5, <1>7, <1>8
  <1> QED BY <1>9, <1>10 DEF p

\* The windows that are not skipped count what is metered.
LEMMA MeteringCounts ==
    ASSUME RulesP!RulesTypeOK, NEW s \in Rules!Scopes, NEW units \in Nat,
           NEW skipped \in SUBSET Names,
           period' = [period EXCEPT ![s] = [n \in Names |->
               IF n \in skipped THEN @[n] ELSE Rules!Metered(@[n], units)]]
    PROVE  Counted(s, units, skipped)
  <1>1. period \in [Rules!Scopes -> [Names -> RulesP!Period]] /\ now \in Nat
    BY ScopesAgree DEF RulesP!RulesTypeOK
  <1>2. SUFFICES ASSUME NEW n \in Names \ skipped, period[s][n].active
                 PROVE  period'[s][n].spent = Rules!Refreshed(period[s][n]).spent + units
    BY DEF Counted
  <1>3. period'[s][n] = Rules!Metered(period[s][n], units)
    BY <1>1
  <1> DEFINE p == period[s][n]
  <1>4. p \in RulesP!Period /\ p.active
    BY <1>1, <1>2
  <1> HIDE DEF p
  <1>5. Rules!Refreshed(p) \in RulesP!Period
    BY <1>1, <1>4 DEF Rules!Refreshed, RulesP!Period
  <1> DEFINE q == Rules!Refreshed(p)
  <1>6. Rules!Metered(p, units) = [q EXCEPT !.spent = @ + units]
    BY <1>4 DEF Rules!Metered
  <1> HIDE DEF q
  <1>7. Rules!Metered(p, units).spent = q.spent + units
    BY <1>5, <1>6 DEF RulesP!Period, q
  <1> QED BY <1>3, <1>7 DEF p, q

\* A withdrawal is counted in every window, ...
LEMMA WithdrawExplained ==
    ASSUME VaultInv, RulesP!RulesTypeOK, NEW v \in Vaults, NEW m \in Members,
           NEW t \in Tokens, NEW amount \in Sums, Withdraw(v, m, t, amount)
    PROVE  \A k \in Tokens : Explained(k)
  <1>0. FundsInv /\ BooksOK /\ MembershipOK /\ amount \in Nat
    BY VaultAssumption DEF VaultInv, FundsInv
  <1>1. PICK c : Payment(v, m, t, amount, c)
    BY <1>0, WithdrawIsPayment
  <1>2. Out(t) = amount /\ GivenUp(v, m, t) = amount
    BY <1>0, <1>1, PaymentOut
  <1>3. m \in members[v] \ blocked /\ Post(t, c)
    BY <1>1 DEF Payment
  <1> DEFINE units == Measured(v, t, amount)
             s == <<v, m>>
  <1>4. Counted(s, units, {})
    <2>1. units \in Nat /\ s \in Rules!Scopes
      BY <1>0, <1>3, MeasuredType, MemberScope
    <2>2. period' = [period EXCEPT ![s] = [n \in Names |-> Rules!Metered(@[n], units)]]
      BY DEF Withdraw, Rules!CheckAndSpend
    <2> HIDE DEF units, s
    <2>3. period' = [period EXCEPT ![s] = [n \in Names |->
                        IF n \in {} THEN @[n] ELSE Rules!Metered(@[n], units)]]
      BY <2>2
    <2> QED BY <2>1, <2>3, MeteringCounts
  <1>5. InUnits(v, t, amount) = units
    BY DEF InUnits, Measured, ToDollars
  <1>6. ByLimits(v, m, t, Out(t))
    BY <1>2, <1>4, <1>5 DEF ByLimits
  <1>7. Explained(t)
    BY <1>3, <1>6 DEF Explained
  <1> QED BY <1>0, <1>3, <1>7, OneExplained

\* ... an early exit pays the penalty, ...
LEMMA PenaltyExplained ==
    ASSUME VaultInv, NEW v \in Vaults, NEW m \in Members,
           NEW t \in Tokens, NEW amount \in Sums, WithdrawWithPenalty(v, m, t, amount)
    PROVE  \A k \in Tokens : Explained(k)
  <1>0. FundsInv /\ BooksOK /\ amount \in Nat /\ penalties \in [Vaults -> Nat]
    BY VaultAssumption DEF VaultInv, FundsInv, CountsOK
  <1>1. PICK c : /\ \/ EarlyExit(v, m, t, amount, c)
                    \/ Payment(v, m, t, amount, c) /\ ~(v \in Community /\ c.total[v] > 0)
                 /\ penalties' = [penalties EXCEPT ![v] = @ + 1]
    BY <1>0, PenaltyIsExit
  <1>2. Post(t, c) /\ m \in Members \ blocked
    BY <1>1 DEF Payment, EarlyExit
  <1>3. books'[t] = c
    BY <1>0, <1>2, PostIsOne DEF Books1
  <1>4. penalties'[v] > penalties[v]
    BY <1>0, <1>1
  <1>5. ByPenalty(v, m, t, Out(t))
    <2>1. CASE EarlyExit(v, m, t, amount, c)
      <3>1. Out(t) = amount - PenaltyOf(amount) /\ GivenUp(v, m, t) = amount
        BY <1>0, <2>1, ExitOut
      <3>2. v \in Community /\ c.total[v] > 0
        BY <2>1 DEF EarlyExit, PenaltyShared
      <3> QED BY <1>3, <1>4, <3>1, <3>2 DEF ByPenalty
    <2>2. CASE Payment(v, m, t, amount, c) /\ ~(v \in Community /\ c.total[v] > 0)
      <3>1. Out(t) = amount /\ GivenUp(v, m, t) = amount
        BY <1>0, <2>2, PaymentOut
      <3>2. Out(t) = GivenUp(v, m, t) - 0
        BY <1>0, <3>1
      <3> QED BY <1>3, <1>4, <2>2, <3>2 DEF ByPenalty
    <2> QED BY <1>1, <2>1, <2>2
  <1>6. Explained(t)
    BY <1>2, <1>5 DEF Explained
  <1> QED BY <1>0, <1>2, <1>6, OneExplained

\* Dollars become tokens and dollars again without loss, since a token has its
\* power of ten on one side.
LEMMA ThereAndBack ==
    ASSUME NEW t \in Tokens, NEW amount \in Nat
    PROVE  ToDollars(t, FromDollars(t, ToDollars(t, amount))) = ToDollars(t, amount)
  <1>1. Up[t] \in Nat \ {0} /\ Down[t] \in Nat \ {0} /\ (Up[t] = 1 \/ Down[t] = 1)
    BY VaultAssumption
  <1> DEFINE up == Up[t]
             down == Down[t]
  <1>2. CASE down = 1
    <2> DEFINE x == amount * up
    <2>1. x \in Nat
      BY <1>1, MulNat
    <2>2. ToDollars(t, amount) = x
      BY <1>2, <2>1 DEF ToDollars
    <2> HIDE DEF x
    <2>3. FromDollars(t, x) = x \div up
      BY <1>2, <2>1 DEF FromDollars
    <2>4. x \div up = amount
      BY <1>1 DEF x
    <2>5. ToDollars(t, amount) = x /\ FromDollars(t, x) = amount
      BY <2>2, <2>3, <2>4
    <2> QED BY <2>5
  <1>3. CASE up = 1
    <2> DEFINE x == amount \div down
    <2>1. x \in Nat /\ x * down \in Nat
      BY <1>1, DivNat
    <2>2. amount * up = amount
      BY <1>3
    <2>3. ToDollars(t, amount) = x
      BY <2>2 DEF ToDollars
    <2> HIDE DEF x
    <2>4. FromDollars(t, x) = x * down
      BY <1>3, <2>1 DEF FromDollars
    <2>5. ToDollars(t, x * down) = x
      <3>1. (x * down) * up = x * down
        BY <1>3, <2>1
      <3>2. (x * down) \div down = x
        BY <1>1, <2>1
      <3> QED BY <3>1, <3>2 DEF ToDollars
    <2> QED BY <2>3, <2>4, <2>5
  <1> QED BY <1>1, <1>2, <1>3

\* ... a bypass has waited and is counted in every window but one, ...
LEMMA BypassExplained ==
    ASSUME VaultInv, RulesP!RulesTypeOK, NEW v \in Vaults, NEW m \in Members,
           NEW r \in bypass[<<v, m>>], ExecuteBypass(v, m, r)
    PROVE  \A k \in Tokens : Explained(k)
  <1> DEFINE t == r.token
             amount == BypassAmount(v, r)
             s == <<v, m>>
  <1>0. /\ FundsInv /\ BooksOK /\ MembershipOK /\ now \in Nat
        /\ bypass \in [Vaults \X Members -> SUBSET BypassRequest]
        /\ r \in BypassRequest /\ RequestOK(v, r) /\ t \in Tokens /\ amount \in Nat
    BY RequestTypes DEF VaultInv, FundsInv, BypassOK
  <1>1. PICK c : Payment(v, m, t, amount, c)
    BY <1>0, BypassIsPayment
  <1>2. Out(t) = amount /\ GivenUp(v, m, t) = amount
    <2> HIDE DEF t, amount
    <2> QED BY <1>0, <1>1, PaymentOut
  <1>3. m \in members[v] \ blocked /\ Post(t, c)
    BY <1>1 DEF Payment
  <1>4. Counted(s, r.amount, {r.skip})
    <2>1. r.amount \in Nat /\ {r.skip} \in SUBSET Names /\ s \in Rules!Scopes
      BY <1>0, <1>3, MemberScope DEF BypassRequest
    <2>2. period' = [period EXCEPT ![s] = [n \in Names |->
                        IF n = r.skip THEN @[n] ELSE Rules!Metered(@[n], r.amount)]]
      BY DEF ExecuteBypass, Rules!UpdateSpendingWithBypass
    <2> DEFINE units == r.amount
               skipped == {r.skip}
    <2> HIDE DEF s
    <2>3. period' = [period EXCEPT ![s] = [n \in Names |->
                        IF n \in skipped THEN @[n] ELSE Rules!Metered(@[n], units)]]
      BY <2>2
    <2> HIDE DEF units, skipped
    <2>4. Counted(s, units, skipped)
      <3>1. units \in Nat /\ skipped \in SUBSET Names
        BY <2>1 DEF units, skipped
      <3> QED BY <2>1, <2>3, <3>1, MeteringCounts
    <2> QED BY <2>4 DEF units, skipped
  <1>5. InUnits(v, t, amount) = r.amount
    <2>1. PICK asked \in Nat : r.amount = Measured(v, t, asked)
      BY <1>0, VaultAssumption DEF RequestOK
    <2>2. CASE v \in Stables
      BY <1>0, <2>1, <2>2, ThereAndBack DEF InUnits, Measured, BypassAmount, ToDollars
    <2>3. CASE v \notin Stables
      BY <2>3 DEF InUnits, BypassAmount
    <2> QED BY <2>2, <2>3
  <1>6. ~r.executed /\ now >= r.filed + MinUnlockDelay
    <2>1. ~r.executed /\ now >= r.executeAfter
      BY DEF ExecuteBypass, Ready
    <2>2. r.executeAfter >= r.filed + MinUnlockDelay
      BY <1>0 DEF RequestOK
    <2>3. r.executeAfter \in Nat /\ r.filed \in Nat /\ MinUnlockDelay \in Nat
      BY <1>0, VaultRulesAssumption DEF BypassRequest, Rules!RulesAssumption
    <2> QED BY <1>0, <2>1, <2>2, <2>3
  <1>7. r \notin bypass'[s]
    <2>1. bypass' = [bypass EXCEPT ![s] = (@ \ {r}) \cup {[r EXCEPT !.executed = TRUE]}]
      BY DEF ExecuteBypass
    <2>2. [r EXCEPT !.executed = TRUE] # r
      BY <1>0, <1>6 DEF BypassRequest
    <2> QED BY <1>0, <2>1, <2>2
  <1>8. ByBypass(v, m, t, Out(t))
    BY <1>2, <1>4, <1>5, <1>6, <1>7 DEF ByBypass
  <1>9. Explained(t)
    BY <1>3, <1>8 DEF Explained
  <1> HIDE DEF t
  <1> QED BY <1>0, <1>3, <1>9, OneExplained

\* ... a claim takes what was coming, ...
LEMMA ClaimExplained ==
    ASSUME FundsInv, NEW v \in Vaults, NEW m \in Members, NEW t \in Tokens,
           ClaimPenaltyRewards(v, m, t)
    PROVE  \A k \in Tokens : Explained(k)
  <1>1. PICK c : /\ Post(t, c) /\ Claimed(books[t], c, v, m) /\ m \in members[v] \ blocked
    BY ClaimIsClaimed
  <1>2. BooksOK /\ books[t] \in Books /\ books'[t] = c
    BY <1>1, PostIsOne DEF FundsInv, BooksOK, BookOK, LedgerOK, Books1
  <1>3. Reward(books[t], v, m) \in Nat
    BY <1>2, RewardType
  <1>4. Reward(c, v, m) = 0
    BY <1>1 DEF Claimed, Reward
  <1>5. Out(t) = Reward(books[t], v, m)
    <2> DEFINE b == books[t]
               x == Reward(b, v, m)
    <2>1. /\ c.held = b.held - x /\ c.feesHeld = b.feesHeld /\ c.pool = b.pool
      BY <1>1 DEF Claimed
    <2>2. b.held \in Nat /\ b.feesHeld \in Nat /\ b.pool \in Nat /\ x \in Nat
      BY <1>2, <1>3 DEF Books
    <2>3. Out(t) = Assets(b) - Assets(c)
      BY <1>2 DEF Out
    <2> HIDE DEF b, x
    <2>4. Out(t) = x
      BY <2>1, <2>2, <2>3 DEF Assets
    <2> QED BY <2>4 DEF x, b
  <1>6. ByReward(v, m, t, Out(t))
    BY <1>2, <1>3, <1>4, <1>5 DEF ByReward
  <1>7. Explained(t)
    BY <1>1, <1>6 DEF Explained
  <1> QED BY <1>1, <1>2, <1>7, OneExplained

\* ... a deposit takes nothing, ...
LEMMA DepositExplained ==
    ASSUME FundsInv, NEW v \in Vaults, NEW m \in Members, NEW t \in Tokens,
           NEW amount \in Nat, NEW answer \in Answers, Deposit(v, m, t, amount, answer)
    PROVE  \A k \in Tokens : Explained(k)
  <1>1. PICK c : Placed(v, m, t, amount, c)
    BY DepositIsPlaced
  <1>2. BooksOK /\ Post(t, c) /\ books'[t] = c
    BY <1>1, PostIsOne DEF Placed, FundsInv, Books1
  <1>3. Assets(c) = Assets(books[t]) + amount
    BY <1>1 DEF Placed, Transacted
  <1>4. Explained(t)
    BY <1>2, <1>3, NothingOut
  <1> QED BY <1>2, <1>4, OneExplained

\* ... nor does leaving, ...
LEMMA LeavingExplained ==
    ASSUME FundsInv, NEW v \in Vaults, NEW m \in Members, LeaveVault(v, m)
    PROVE  \A k \in Tokens : Explained(k)
  <1> SUFFICES ASSUME NEW k \in Tokens PROVE Explained(k)
    OBVIOUS
  <1>1. BooksOK /\ Assets(books[k]) \in Nat
    BY AssetsType DEF FundsInv, BooksOK, BookOK, LedgerOK
  <1>2. CASE k \in accepted[v]
    <2>1. HoldingsKept(books[k], books'[k])
      BY <1>2, LeavingSettles DEF Departed, Settled
    <2>2. Assets(books'[k]) = Assets(books[k]) + 0
      BY <1>1, <2>1 DEF HoldingsKept, Assets
    <2> QED BY <1>1, <2>2, NothingOut
  <1>3. CASE k \notin accepted[v]
    BY <1>1, <1>3, LeavingSettles, BooksKeptExplains
  <1> QED BY <1>2, <1>3

\* ... nor the earning side, ...
LEMMA EarningExplained ==
    ASSUME FundsInv, NEW v \in Vaults, EarningStep(v)
    PROVE  \A k \in Tokens : Explained(k)
  <1>1. PICK t \in Tokens : \E c : Arranged(v, t, c)
    BY EarningArranges
  <1>2. PICK c : Arranged(v, t, c)
    BY <1>1
  <1>3. BooksOK /\ Post(t, c) /\ books'[t] = c /\ Assets(books[t]) \in Nat
    BY <1>2, PostIsOne, AssetsType DEF Arranged, FundsInv, BooksOK, BookOK, LedgerOK, Books1
  <1>4. Assets(c) = Assets(books[t]) + 0
    BY <1>2, <1>3 DEF Arranged
  <1>5. Explained(t)
    BY <1>3, <1>4, NothingOut
  <1> QED BY <1>3, <1>5, OneExplained

\* ... sweeping takes the fees, ...
LEMMA SweepExplained ==
    ASSUME FundsInv, NEW t \in Tokens, SweepFees(t)
    PROVE  \A k \in Tokens : Explained(k)
  <1>1. PICK c : /\ Post(t, c) /\ BookOK(c, t)
                 /\ ReheldAs(books[t], c, 0, books[t].pool)
    BY SweepReholds
  <1> DEFINE b == books[t]
  <1>2. BooksOK /\ books'[t] = c /\ b \in Books
    BY <1>1, PostIsOne DEF FundsInv, BooksOK, BookOK, LedgerOK, Books1
  <1>3. c.held = b.held /\ c.feesHeld = 0 /\ c.pool = b.pool
    BY <1>1 DEF ReheldAs
  <1>4. Out(t) = Assets(b) - Assets(c)
    BY <1>2 DEF Out
  <1> HIDE DEF b
  <1>5. Out(t) = b.feesHeld
    BY <1>2, <1>3, <1>4 DEF Assets, Books
  <1>6. Explained(t)
    BY <1>2, <1>3, <1>5 DEF Explained, b
  <1> QED BY <1>1, <1>2, <1>6, OneExplained

\* ... and the market takes what it counts as lost.
LEMMA FluctuationExplained ==
    ASSUME FundsInv, NEW t \in Tokens, NEW earned \in Nat, NEW lost \in Nat,
           NEW c, Fluctuated(t, c, earned, lost)
    PROVE  \A k \in Tokens : Explained(k)
  <1> DEFINE b == books[t]
  <1>1. BooksOK /\ Post(t, c) /\ books'[t] = c /\ b \in Books
    BY PostIsOne DEF Fluctuated, FundsInv, BooksOK, BookOK, LedgerOK, Books1
  <1>2. ASSUME market'[t] = market[t]
        PROVE  earned = 0 /\ lost = 0
    <2> DEFINE k == market[t]
    <2>1. /\ market' = [market EXCEPT ![t] =
                            [earned |-> k.earned + earned, lost |-> k.lost + lost]]
          /\ market \in [Tokens -> [earned : Nat, lost : Nat]]
      BY DEF Fluctuated, FundsInv, CountsOK
    <2>2. market'[t] = [earned |-> k.earned + earned, lost |-> k.lost + lost]
      BY <2>1
    <2>3. k \in [earned : Nat, lost : Nat] /\ k = market'[t]
      BY <1>2, <2>1
    <2> HIDE DEF k
    <2>4. k.earned = k.earned + earned /\ k.lost = k.lost + lost
      BY <2>2, <2>3
    <2>5. k.earned \in Nat /\ k.lost \in Nat
      BY <2>3
    <2> QED BY <2>4, <2>5
  <1>3. ASSUME market'[t] = market[t]
        PROVE  Explained(t)
    <2>1. c.held = b.held /\ c.feesHeld = b.feesHeld /\ c.pool = b.pool + earned - lost
      BY DEF Fluctuated, ReheldAs
    <2> HIDE DEF b
    <2>2. Assets(c) = Assets(b) + 0
      BY <1>1, <1>2, <1>3, <2>1 DEF Assets, Books
    <2> QED BY <1>1, <2>2, NothingOut DEF b
  <1>4. Explained(t)
    BY <1>3 DEF Explained
  <1> QED BY <1>1, <1>4, OneExplained

\* So every transaction with money is explained, ...
LEMMA FundsExplained ==
    ASSUME VaultInv, RulesP!RulesTypeOK, NEW v \in Vaults, FundsStep(v)
    PROVE  \A k \in Tokens : Explained(k)
  <1>0. FundsInv /\ BooksOK /\ Sums \subseteq Nat
    BY VaultAssumption DEF VaultInv, FundsInv
  <1>1. ASSUME NEW m \in Members, NEW t \in Tokens, NEW amount \in Sums,
               \/ \E answer \in Answers : Deposit(v, m, t, amount, answer)
               \/ Withdraw(v, m, t, amount)
               \/ WithdrawWithPenalty(v, m, t, amount)
        PROVE  \A k \in Tokens : Explained(k)
    <2>1. amount \in Nat
      BY <1>0
    <2> QED BY <1>0, <1>1, <2>1, DepositExplained, WithdrawExplained, PenaltyExplained
  <1>2. ASSUME NEW m \in Members, NEW t \in Tokens, NEW amount \in Sums, NEW skip \in Names,
               RequestBypass(v, m, t, amount, skip)
        PROVE  \A k \in Tokens : Explained(k)
    BY <1>0, <1>2, BooksKeptExplains DEF RequestBypass
  <1>3. ASSUME NEW m \in Members, NEW t \in Tokens, ClaimPenaltyRewards(v, m, t)
        PROVE  \A k \in Tokens : Explained(k)
    BY <1>0, <1>3, ClaimExplained
  <1>4. ASSUME NEW m \in Members, NEW r \in bypass[<<v, m>>],
               ExecuteBypass(v, m, r) \/ CancelBypass(v, m, r)
        PROVE  \A k \in Tokens : Explained(k)
    BY <1>0, <1>4, BypassExplained, BooksKeptExplains DEF CancelBypass
  <1> QED BY <1>1, <1>2, <1>3, <1>4 DEF FundsStep

\* ... and so is every step.
LEMMA StepExplained ==
    ASSUME VaultInv, RulesP!RulesTypeOK, [VaultNext]_vars
    PROVE  \A k \in Tokens : Explained(k)
  <1>0. FundsInv /\ BooksOK /\ Interest \subseteq Nat /\ Losses \subseteq Nat
    BY VaultAssumption DEF VaultInv, FundsInv
  <1>1. ASSUME UNCHANGED books
        PROVE  \A k \in Tokens : Explained(k)
    BY <1>0, <1>1, BooksKeptExplains
  <1>2. ASSUME NEW v \in Vaults, LifeStep(v)
        PROVE  \A k \in Tokens : Explained(k)
    <2>1. (\E m \in Members : LeaveVault(v, m)) \/ UNCHANGED books
      BY <1>2 DEF LifeStep, CreateVault, AddAcceptedToken, JoinVault, ChangeRules, vaultVars
    <2> QED BY <1>0, <1>1, <2>1, LeavingExplained
  <1>3. ASSUME VaultTick \/ UNCHANGED vars \/ (\E m \in Freezable : Elsewhere(m))
        PROVE  UNCHANGED books
    BY <1>3 DEF VaultTick, vaultVars, vars, Elsewhere
  <1>4. ASSUME NEW t \in Tokens, NEW amount \in Nat, Earn(t, amount) \/ Lose(t, amount)
        PROVE  \A k \in Tokens : Explained(k)
    <2>1. \E c : Fluctuated(t, c, amount, 0) \/ Fluctuated(t, c, 0, amount)
      BY <1>0, <1>4, MarketFluctuates
    <2>2. 0 \in Nat
      OBVIOUS
    <2> QED BY <1>0, <2>1, <2>2, FluctuationExplained
  <1> QED BY <1>0, <1>1, <1>2, <1>3, <1>4, FundsExplained, EarningExplained, SweepExplained
       DEF VaultNext

\* Whatever leaves the contracts left in a transaction of an unblocked member who gave
\* up as much and whose windows count it, or paid a penalty, or waited for a bypass; or
\* it is a claimed reward, a swept fee or a loss of the market.  With or without the
\* earning side, for any number of vaults in the strategy.
THEOREM OutflowProof == VaultSpec => OutflowHasAReason
  <1>1. VaultInv /\ RulesP!RulesTypeOK /\ [VaultNext]_vars
        => [\A t \in Tokens : Explained(t)]_vars
    BY StepExplained
  <1> QED BY <1>1, VaultInvariant, PTL DEF VaultSpec, OutflowHasAReason

-----------------------------------------------------------------------------
(* Rewards come from those who leave.                                      *)

\* A reward of t grows when someone else of the vault gives up money and pays for it.
Rewarded(t) ==
    \A v \in Vaults, m \in Members :
        Reward(books'[t], v, m) > Reward(books[t], v, m)
        => \E n \in members[v] \ {m} :
              /\ books'[t].balance[v][n] < Settle(books[t], v, n, now).balance[v][n]
              /\ penalties'[v] > penalties[v]

\* Everyone has as much coming as before.
RewardsSame(b, c) == \A v \in Vaults, m \in Members : Reward(c, v, m) = Reward(b, v, m)

\* Then none has grown.
LEMMA SameGrowsNone ==
    ASSUME BooksOK, NEW t \in Tokens, RewardsSame(books[t], books'[t])
    PROVE  Rewarded(t)
  <1>1. \A v \in Vaults, m \in Members : Reward(books[t], v, m) \in Nat
    BY RewardType DEF BooksOK, BookOK, LedgerOK
  <1>2. \A v \in Vaults, m \in Members : ~(Reward(books'[t], v, m) > Reward(books[t], v, m))
    BY <1>1 DEF RewardsSame
  <1> QED BY <1>2 DEF Rewarded

\* Rewards follow from balances and penalties.
LEMMA RewardsFollow ==
    ASSUME NEW b, NEW c, BalancesKept(b, c), PenaltiesKept(b, c)
    PROVE  RewardsSame(b, c)
  BY RewardDepends DEF BalancesKept, PenaltiesKept, RewardsSame

\* A member's transaction moves what the member had coming and adds nothing.
LEMMA TransactedRewards ==
    ASSUME NEW v \in Vaults, NEW m \in Members, NEW b \in Books, NEW c, NEW x, NEW y,
           Transacted(b, c, v, m, x, y)
    PROVE  /\ Reward(c, v, m) = Reward(b, v, m)
           /\ c.accPenalty = b.accPenalty => RewardsSame(b, c)
           /\ \A u \in Vaults \ {v}, n \in Members :
                 c.accPenalty[u] = b.accPenalty[u] => Reward(c, u, n) = Reward(b, u, n)
  <1>1. Reward(c, v, m) = Reward(b, v, m)
    <2>1. c.unclaimed[v][m] = Reward(b, v, m) /\ PendingPenalty(c, v, m) = 0
      BY DEF Transacted
    <2>2. Reward(b, v, m) \in Nat
      BY RewardType
    <2> QED BY <2>1, <2>2 DEF Reward
  <1>2. ASSUME NEW u \in Vaults, NEW n \in Members, <<u, n>> # <<v, m>>,
               c.accPenalty[u] = b.accPenalty[u]
        PROVE  Reward(c, u, n) = Reward(b, u, n)
    <2>1. c.unclaimed[u][n] = b.unclaimed[u][n] /\ c.penaltyDebt[u][n] = b.penaltyDebt[u][n]
      BY <1>2 DEF Transacted
    <2>2. c.balance[u][n] = b.balance[u][n]
      <3>1. CASE u # v
        BY <3>1 DEF Transacted
      <3>2. CASE u = v /\ n # m
        BY <3>2 DEF Transacted
      <3> QED BY <1>2, <3>1, <3>2
    <2> QED BY <1>2, <2>1, <2>2, RewardDepends
  <1> QED BY <1>1, <1>2 DEF RewardsSame

\* Only rewards in the token of the transaction change.
LEMMA OneRewarded ==
    ASSUME BooksOK, NEW t \in Tokens, NEW c, Post(t, c), Rewarded(t)
    PROVE  RewardsStep
  <1>1. Books1(t, c)
    BY PostIsOne
  <1>2. ASSUME NEW k \in Tokens PROVE Rewarded(k)
    <2>1. CASE k = t
      BY <2>1
    <2>2. CASE k # t
      <3>1. books'[k] = books[k]
        BY <1>1, <2>2 DEF Books1
      <3>2. RewardsSame(books[k], books'[k])
        BY <3>1 DEF RewardsSame
      <3> QED BY <3>2, SameGrowsNone
    <2> QED BY <2>1, <2>2
  <1> QED BY <1>2 DEF RewardsStep, Rewarded

\* Payments and deposits raise no reward, ...
LEMMA PaymentRewards ==
    ASSUME FundsInv, NEW v \in Vaults, NEW m \in Members, NEW t \in Tokens, NEW amount,
           NEW c, Payment(v, m, t, amount, c) \/ Placed(v, m, t, amount, c)
    PROVE  RewardsStep
  <1>1. Post(t, c) /\ BooksOK /\ books'[t] = c /\ books[t] \in Books
    BY PostIsOne DEF Payment, Placed, FundsInv, BooksOK, BookOK, LedgerOK, Books1
  <1>2. RewardsSame(books[t], c)
    <2> DEFINE x == -amount
    <2>1. /\ Transacted(books[t], c, v, m, x, x) \/ Transacted(books[t], c, v, m, amount, amount)
          /\ c.accPenalty = books[t].accPenalty
      BY DEF Payment, Placed
    <2> HIDE DEF x
    <2> QED BY <1>1, <2>1, TransactedRewards
  <1> QED BY <1>1, <1>2, SameGrowsNone, OneRewarded

\* ... an early exit raises the others', not the leaver's, ...
LEMMA ExitRewards ==
    ASSUME FundsInv, NEW v \in Vaults, NEW m \in Members, NEW t \in Tokens,
           NEW amount \in Nat, NEW c, EarlyExit(v, m, t, amount, c),
           penalties' = [penalties EXCEPT ![v] = @ + 1]
    PROVE  RewardsStep
  <1>1. /\ Post(t, c) /\ BooksOK /\ books'[t] = c /\ books[t] \in Books /\ now \in Nat
        /\ m \in members[v] /\ amount > 0 /\ LedgerOK(books[t])
    BY PostIsOne DEF EarlyExit, FundsInv, BooksOK, BookOK, LedgerOK, Books1
  <1>2. penalties'[v] > penalties[v]
    BY DEF FundsInv, CountsOK
  <1>3. c.balance[v][m] < Settle(books[t], v, m, now).balance[v][m]
    <2> DEFINE s == Settle(books[t], v, m, now)
    <2>1. Settled(books[t], s, v, m)
      BY <1>1, SettleShape
    <2>2. c.balance[v][m] = s.balance[v][m] + (-amount)
      BY DEF EarlyExit, Transacted
    <2> HIDE DEF s
    <2>3. s.balance[v][m] \in Nat
      BY <2>1 DEF Settled, LedgerOK, Books
    <2> QED BY <1>1, <2>2, <2>3 DEF s
  <1>4. /\ Reward(c, v, m) = Reward(books[t], v, m)
        /\ \A u \in Vaults \ {v}, n \in Members : Reward(c, u, n) = Reward(books[t], u, n)
    <2> DEFINE x == -amount
               y == PenaltyOf(amount) - amount
    <2>1. Transacted(books[t], c, v, m, x, y)
      BY DEF EarlyExit
    <2> HIDE DEF x, y
    <2>2. \A u \in Vaults \ {v} : c.accPenalty[u] = books[t].accPenalty[u]
      BY <1>1 DEF EarlyExit, PenaltyShared, Books
    <2> QED BY <1>1, <2>1, <2>2, TransactedRewards
  <1>5. \A u \in Vaults, n \in Members : Reward(books[t], u, n) \in Nat
    BY <1>1, RewardType
  <1>6. Rewarded(t)
    <2> SUFFICES ASSUME NEW u \in Vaults, NEW n \in Members,
                        Reward(c, u, n) > Reward(books[t], u, n)
                 PROVE  \E k \in members[u] \ {n} :
                           /\ c.balance[u][k] < Settle(books[t], u, k, now).balance[u][k]
                           /\ penalties'[u] > penalties[u]
      BY <1>1 DEF Rewarded
    <2>1. u = v /\ n # m
      BY <1>4, <1>5
    <2> QED BY <1>1, <1>2, <1>3, <2>1
  <1> QED BY <1>1, <1>6, OneRewarded

\* ... leaving only settles, ...
LEMMA LeavingRewards ==
    ASSUME FundsInv, NEW v \in Vaults, NEW m \in Members, LeaveVault(v, m)
    PROVE  RewardsStep
  <1> SUFFICES ASSUME NEW t \in Tokens PROVE Rewarded(t)
    BY DEF RewardsStep, Rewarded
  <1>1. BooksOK /\ books[t] \in Books
    BY DEF FundsInv, BooksOK, BookOK, LedgerOK
  <1>2. CASE t \in accepted[v]
    <2> DEFINE b == books[t]
               c == books'[t]
    <2>1. Departed(v, m, t)
      BY <1>2, LeavingSettles
    <2>2. Settled(b, c, v, m) /\ c \in Books /\ c.balance[v][m] = 0 /\ c.unclaimed[v][m] = 0
          /\ Reward(b, v, m) = 0
      BY <2>1 DEF Departed, LedgerOK
    <2> HIDE DEF b, c
    <2>3. Reward(c, v, m) = 0
      <3>1. AccruedPenalty(c, v, m) = 0
        <4>1. c.accPenalty[v] \in Nat /\ PenaltyPrecision \in Nat \ {0}
          BY <2>2, LedgerAssumption DEF Books
        <4>2. 0 * c.accPenalty[v] = 0 /\ 0 \div PenaltyPrecision = 0
          BY <4>1
        <4> QED BY <2>2, <4>2 DEF AccruedPenalty
      <3>2. c.penaltyDebt[v][m] \in Nat
        BY <2>2 DEF Books
      <3> QED BY <2>2, <3>1, <3>2 DEF Reward, PendingPenalty, AtMost
    <2>4. ASSUME NEW u \in Vaults, NEW n \in Members
          PROVE  Reward(c, u, n) = Reward(b, u, n)
      <3>1. CASE <<u, n>> = <<v, m>>
        BY <2>2, <2>3, <3>1
      <3>2. CASE <<u, n>> # <<v, m>>
        <4>1. /\ c.unclaimed[u][n] = b.unclaimed[u][n]
              /\ c.penaltyDebt[u][n] = b.penaltyDebt[u][n] /\ c.accPenalty = b.accPenalty
          BY <2>2, <3>2 DEF Settled
        <4>2. c.balance[u][n] = b.balance[u][n]
          <5>1. CASE u # v
            BY <2>2, <5>1 DEF Settled
          <5>2. CASE u = v /\ n # m
            BY <2>2, <5>2 DEF Settled
          <5> QED BY <3>2, <5>1, <5>2
        <4> QED BY <4>1, <4>2, RewardDepends
      <3> QED BY <3>1, <3>2
    <2>5. RewardsSame(b, c)
      BY <2>4 DEF RewardsSame
    <2> QED BY <1>1, <2>5, SameGrowsNone DEF b, c
  <1>3. CASE t \notin accepted[v]
    <2>1. books'[t] = books[t]
      BY <1>3, LeavingSettles
    <2>2. RewardsSame(books[t], books'[t])
      BY <2>1 DEF RewardsSame
    <2> QED BY <1>1, <2>2, SameGrowsNone
  <1> QED BY <1>2, <1>3

\* ... a claim lowers one reward to nothing, ...
LEMMA ClaimRewards ==
    ASSUME FundsInv, NEW v \in Vaults, NEW m \in Members, NEW t \in Tokens,
           ClaimPenaltyRewards(v, m, t)
    PROVE  RewardsStep
  <1>1. PICK c : Post(t, c) /\ Claimed(books[t], c, v, m)
    BY ClaimIsClaimed
  <1>2. BooksOK /\ books[t] \in Books /\ books'[t] = c
    BY <1>1, PostIsOne DEF FundsInv, BooksOK, BookOK, LedgerOK, Books1
  <1>3. ASSUME NEW u \in Vaults, NEW n \in Members
        PROVE  ~(Reward(c, u, n) > Reward(books[t], u, n))
    <2>1. Reward(books[t], u, n) \in Nat
      BY <1>2, RewardType
    <2>2. CASE <<u, n>> = <<v, m>>
      <3>1. Reward(c, v, m) = 0
        BY <1>1 DEF Claimed, Reward
      <3> QED BY <2>1, <2>2, <3>1
    <2>3. CASE <<u, n>> # <<v, m>>
      <3>1. Reward(c, u, n) = Reward(books[t], u, n)
        BY <1>1, <2>3, RewardDepends DEF Claimed, BalancesKept
      <3> QED BY <2>1, <3>1
    <2> QED BY <2>2, <2>3
  <1>4. Rewarded(t)
    BY <1>2, <1>3 DEF Rewarded
  <1> QED BY <1>1, <1>2, <1>4, OneRewarded

\* Books that keep balances and penalties keep every reward.
LEMMA QuietRewards ==
    ASSUME BooksOK, NEW t \in Tokens, BalancesKept(books[t], books'[t]),
           PenaltiesKept(books[t], books'[t])
    PROVE  Rewarded(t)
  BY RewardsFollow, SameGrowsNone

\* Nothing grows while the books stay.
LEMMA QuietStepRewards ==
    ASSUME BooksOK, UNCHANGED books
    PROVE  RewardsStep
  <1>1. ASSUME NEW t \in Tokens PROVE Rewarded(t)
    BY QuietRewards DEF BalancesKept, PenaltiesKept
  <1> QED BY <1>1 DEF RewardsStep, Rewarded

\* Compounding apart, the earning side leaves balances and penalties alone.
LEMMA EarningRewards ==
    ASSUME FundsInv, NEW v \in Vaults, EarningStep(v),
           ~EarningDeployed
              \/ \A u \in Vaults, m \in Members, t \in Tokens : ~CompoundYield(u, m, t)
    PROVE  RewardsStep
  <1>1. PICK t \in Tokens : \E c : Arranged(v, t, c)
    BY EarningArranges
  <1>2. PICK c : Arranged(v, t, c)
    BY <1>1
  <1>3. Post(t, c) /\ BooksOK /\ books'[t] = c
    BY <1>2, PostIsOne DEF Arranged, FundsInv, Books1
  <1>4. BalancesKept(books[t], c) /\ PenaltiesKept(books[t], c)
    <2>1. CASE ~EarningDeployed
      BY <1>2, <2>1 DEF Arranged, BalancesKept, PenaltiesKept
    <2>2. CASE \A u \in Vaults, m \in Members, k \in Tokens : ~CompoundYield(u, m, k)
      BY <1>2, <2>2 DEF Arranged
    <2> QED BY <2>1, <2>2
  <1> QED BY <1>3, <1>4, QuietRewards, OneRewarded

\* Fees are no part of a reward, ...
LEMMA SweepRewards ==
    ASSUME FundsInv, NEW t \in Tokens, SweepFees(t)
    PROVE  RewardsStep
  <1>1. PICK c : Post(t, c) /\ ReheldAs(books[t], c, 0, books[t].pool)
    BY SweepReholds
  <1>2. BooksOK /\ books'[t] = c
    BY <1>1, PostIsOne DEF FundsInv, Books1
  <1> QED BY <1>1, <1>2, QuietRewards, OneRewarded DEF ReheldAs

\* ... nor is the pool.
LEMMA FluctuationRewards ==
    ASSUME FundsInv, NEW t \in Tokens, NEW amount \in Nat, Earn(t, amount) \/ Lose(t, amount)
    PROVE  RewardsStep
  <1>1. PICK c : Post(t, c) /\ BalancesKept(books[t], c) /\ PenaltiesKept(books[t], c)
    BY MarketFluctuates DEF Fluctuated, ReheldAs
  <1>2. BooksOK /\ books'[t] = c
    BY <1>1, PostIsOne DEF FundsInv, Books1
  <1> QED BY <1>1, <1>2, QuietRewards, OneRewarded

\* All transactions with money, ...
LEMMA FundsRewards ==
    ASSUME FundsInv, BypassOK, NEW v \in Vaults, FundsStep(v)
    PROVE  RewardsStep
  <1>0. BooksOK /\ Sums \subseteq Nat
    BY VaultAssumption DEF FundsInv
  <1>1. ASSUME NEW m \in Members, NEW t \in Tokens, NEW amount \in Sums,
               \/ \E answer \in Answers : Deposit(v, m, t, amount, answer)
               \/ Withdraw(v, m, t, amount)
               \/ WithdrawWithPenalty(v, m, t, amount)
        PROVE  RewardsStep
    <2>1. amount \in Nat
      BY <1>0
    <2>2. \E c : \/ Payment(v, m, t, amount, c) \/ Placed(v, m, t, amount, c)
                 \/ /\ EarlyExit(v, m, t, amount, c)
                    /\ penalties' = [penalties EXCEPT ![v] = @ + 1]
      BY <1>1, <2>1, DepositIsPlaced, WithdrawIsPayment, PenaltyIsExit
    <2> QED BY <2>1, <2>2, PaymentRewards, ExitRewards
  <1>2. ASSUME NEW m \in Members, NEW t \in Tokens, NEW amount \in Sums, NEW skip \in Names,
               RequestBypass(v, m, t, amount, skip)
        PROVE  RewardsStep
    BY <1>0, <1>2, QuietStepRewards DEF RequestBypass
  <1>3. ASSUME NEW m \in Members, NEW t \in Tokens, ClaimPenaltyRewards(v, m, t)
        PROVE  RewardsStep
    BY <1>3, ClaimRewards
  <1>4. ASSUME NEW m \in Members, NEW r \in bypass[<<v, m>>], ExecuteBypass(v, m, r)
        PROVE  RewardsStep
    <2>1. r.token \in Tokens /\ BypassAmount(v, r) \in Nat
      BY <1>4, RequestTypes
    <2>2. \E c : Payment(v, m, r.token, BypassAmount(v, r), c)
      BY <1>4, <2>1, BypassIsPayment
    <2> QED BY <2>1, <2>2, PaymentRewards
  <1>5. ASSUME NEW m \in Members, NEW r \in bypass[<<v, m>>], CancelBypass(v, m, r)
        PROVE  RewardsStep
    BY <1>0, <1>5, QuietStepRewards DEF CancelBypass
  <1> QED BY <1>1, <1>2, <1>3, <1>4, <1>5 DEF FundsStep

\* ... and all steps, compounding apart.
LEMMA StepRewards ==
    ASSUME VaultInv, [VaultNext]_vars,
           ~EarningDeployed
              \/ \A u \in Vaults, m \in Members, t \in Tokens : ~CompoundYield(u, m, t)
    PROVE  RewardsStep
  <1>0. FundsInv /\ BypassOK /\ BooksOK /\ Interest \subseteq Nat /\ Losses \subseteq Nat
    BY VaultAssumption DEF VaultInv, FundsInv
  <1>1. ASSUME NEW v \in Vaults, LifeStep(v)
        PROVE  RewardsStep
    <2>1. (\E m \in Members : LeaveVault(v, m)) \/ UNCHANGED books
      BY <1>1 DEF LifeStep, CreateVault, AddAcceptedToken, JoinVault, ChangeRules, vaultVars
    <2> QED BY <1>0, <2>1, LeavingRewards, QuietStepRewards
  <1>2. ASSUME VaultTick \/ UNCHANGED vars \/ (\E m \in Freezable : Elsewhere(m))
        PROVE  UNCHANGED books
    BY <1>2 DEF VaultTick, vaultVars, vars, Elsewhere
  <1>3. ASSUME NEW v \in Vaults, EarningStep(v)
        PROVE  RewardsStep
    BY <1>0, <1>3, EarningRewards
  <1> QED BY <1>0, <1>1, <1>2, <1>3, QuietStepRewards, FundsRewards, SweepRewards,
             FluctuationRewards DEF VaultNext

\* Without the earning side, what a member has coming grows only when another one
\* gives up money by an early exit (withdrawWithPenalty): not by depositing or paying
\* into and out of the vault, joining, leaving, claiming, or by anyone else's doing so.
THEOREM RewardsProof ==
    ASSUME ~EarningDeployed
    PROVE  VaultSpec => RewardsComeFromLeavers
  <1>1. VaultInv /\ [VaultNext]_vars => [RewardsStep]_vars
    BY StepRewards
  <1> QED BY <1>1, VaultInvariant, PTL DEF VaultSpec, RewardsComeFromLeavers

\* With it, the same is true of every step but compounding: compoundYield writes a
\* balance and leaves the penalties that are counted on it unsettled.
THEOREM RewardsButForCompounding ==
    VaultSpec => [][(\A v \in Vaults, m \in Members, t \in Tokens : ~CompoundYield(v, m, t))
                    => RewardsStep]_vars
  <1>1. VaultInv /\ [VaultNext]_vars
        => [(\A v \in Vaults, m \in Members, t \in Tokens : ~CompoundYield(v, m, t))
            => RewardsStep]_vars
    BY StepRewards
  <1> QED BY <1>1, VaultInvariant, PTL DEF VaultSpec

-----------------------------------------------------------------------------
(* What is owed is covered.                                                *)

\* A common factor cancels.
LEMMA Cancels ==
    ASSUME NEW p \in Nat \ {0}, NEW x \in Int, NEW y \in Int, p * x <= p * y
    PROVE  x <= y
  <1>1. ASSUME y < x PROVE FALSE
    <2>1. x - y \in Nat \ {0}
      BY <1>1
    <2>2. p * (x - y) = p * x - p * y
      OBVIOUS
    <2>3. p * (x - y) > 0
      BY <2>1
    <2>4. p * x \in Int /\ p * y \in Int
      OBVIOUS
    <2> QED BY <2>2, <2>3, <2>4
  <1> QED BY <1>1

\* Two divisions lose less than two units.
LEMMA DivPlus ==
    ASSUME NEW x \in Nat, NEW y \in Nat, NEW p \in Nat \ {0}
    PROVE  p * ((x + y) \div p - x \div p - 1) <= y
  <1> DEFINE k == (x + y) \div p
             i == x \div p
  <1>1. k \in Nat /\ i \in Nat
    BY DivNat
  <1>2. p * k <= x + y
    OBVIOUS
  <1>3. x <= p * i + p
    OBVIOUS
  <1> HIDE DEF k, i
  <1>4. p * (k - i - 1) = p * k - p * i - p
    BY <1>1
  <1>5. p * k \in Int /\ p * i \in Int
    BY <1>1
  <1>6. p * (k - i - 1) <= y
    BY <1>2, <1>3, <1>4, <1>5
  <1> QED BY <1>6 DEF k, i

\* What the members of a vault have coming in all.
RewardsOf(b, v) == [m \in Members |-> Reward(b, v, m)]
\* Their sum.
RewardsIn(b, v) == SumFunctionOnSet(RewardsOf(b, v), Members)

\* A penalty that is shared gives each of those who stay at most what it is
\* worth of each unit they hold, and a unit for the rounding.
LEMMA OneShare ==
    ASSUME NEW b \in Books, NEW c \in Books, NEW v \in Vaults, NEW n \in Members,
           NEW inc \in Nat, c.accPenalty[v] = b.accPenalty[v] + inc,
           c.balance[v][n] = b.balance[v][n], c.unclaimed[v][n] = b.unclaimed[v][n],
           c.penaltyDebt[v][n] = b.penaltyDebt[v][n]
    PROVE  PenaltyPrecision * (Reward(c, v, n) - (Reward(b, v, n) + 1))
              <= inc * c.balance[v][n]
  <1> DEFINE balance == b.balance[v][n]
             acc == b.accPenalty[v]
             p == PenaltyPrecision
             x == balance * acc
             y == balance * inc
             old == x \div p
             new == (x + y) \div p
             debt == b.penaltyDebt[v][n]
  <1>1. balance \in Nat /\ acc \in Nat /\ debt \in Nat /\ b.unclaimed[v][n] \in Nat
        /\ p \in Nat \ {0}
    BY LedgerAssumption DEF Books
  <1>2. x \in Nat /\ y \in Nat /\ balance * (acc + inc) = x + y /\ inc * balance = y
    <2> HIDE DEF balance, acc
    <2> QED BY <1>1
  <1>3. AccruedPenalty(b, v, n) = old /\ AccruedPenalty(c, v, n) = new
    BY <1>2 DEF AccruedPenalty
  <1> HIDE DEF x, y
  <1>4. old \in Nat /\ new \in Nat /\ p * (new - old - 1) <= y
    <2> HIDE DEF p
    <2>1. x + y \in Nat
      BY <1>2
    <2>2. old \in Nat /\ new \in Nat
      BY <1>1, <1>2, <2>1, DivNat
    <2>3. p * (new - old - 1) <= y
      BY <1>1, <1>2, DivPlus
    <2> QED BY <2>2, <2>3
  <1>5. /\ Reward(b, v, n) = b.unclaimed[v][n] + (old - AtMost(debt, old))
        /\ Reward(c, v, n) = b.unclaimed[v][n] + (new - AtMost(debt, new))
    BY <1>3 DEF Reward, PendingPenalty
  <1> DEFINE was == Reward(b, v, n)
             is == Reward(c, v, n)
             more == is - (was + 1)
             unclaimed == b.unclaimed[v][n]
  <1> HIDE DEF old, new, debt, p, balance
  <1>6. more <= new - old - 1 \/ more <= -1
    <2>1. /\ was = unclaimed + (old - AtMost(debt, old))
          /\ is = unclaimed + (new - AtMost(debt, new))
      BY <1>5
    <2>2. unclaimed \in Nat
      BY <1>1
    <2> HIDE DEF was, is, unclaimed
    <2>3. is - (was + 1) <= new - old - 1 \/ is - (was + 1) <= -1
      BY <1>1, <1>4, <2>1, <2>2 DEF AtMost
    <2> QED BY <2>3
  <1>7. more \in Int
    BY RewardType
  <1> HIDE DEF more
  <1>8. p * more <= y
    <2>1. CASE more <= new - old - 1
      <3> DEFINE z == new - old - 1
      <3>1. z \in Int /\ p * z <= y
        BY <1>4
      <3>2. more <= z
        BY <2>1
      <3> HIDE DEF z
      <3>3. p * more <= p * z
        BY <1>1, <1>7, <3>1, <3>2
      <3> QED BY <1>1, <1>2, <1>7, <3>1, <3>3
    <2>2. CASE more <= -1
      <3>1. p * more <= 0
        BY <1>1, <1>7, <2>2
      <3> QED BY <1>1, <1>2, <1>7, <3>1
    <2> QED BY <1>6, <2>1, <2>2
  <1> QED BY <1>2, <1>8 DEF more, p, balance

\* Parts that each grow by what they are worth of a raise and a unit at most
\* grow altogether by what the whole is worth of it and a unit each.
LEMMA RaisedTogether ==
    ASSUME NEW S, IsFiniteSet(S), NEW before, NEW after, NEW balance,
           NEW p \in Nat \ {0}, NEW inc \in Nat, NEW whole \in Nat, NEW total \in Nat,
           \A n \in S : /\ before[n] \in Nat /\ after[n] \in Nat /\ balance[n] \in Nat
                        /\ p * (after[n] - (before[n] + 1)) <= inc * balance[n],
           SumFunctionOnSet(balance, S) <= total, inc * total <= whole * p
    PROVE  SumFunctionOnSet(after, S)
              <= SumFunctionOnSet(before, S) + whole + Cardinality(S)
  <1> DEFINE one == [n \in S |-> 1]
             raised == [n \in S |-> before[n] + 1]
             excess == [n \in S |-> after[n] - (before[n] + 1)]
             scaled == [n \in S |-> p * excess[n]]
             worth == [n \in S |-> inc * balance[n]]
  <1>1. \A n \in S : one[n] = 1 /\ raised[n] = before[n] + 1 /\ before[n] \in Int
                     /\ raised[n] \in Int
    OBVIOUS
  <1>2. \A n \in S : /\ excess[n] \in Int
                     /\ after[n] = excess[n] + raised[n]
                     /\ p * excess[n] <= inc * balance[n]
    OBVIOUS
  <1> HIDE DEF excess
  <1>3. \A n \in S : scaled[n] = p * excess[n] /\ scaled[n] \in Int
    BY <1>2
  <1>4. \A n \in S : worth[n] = inc * balance[n] /\ worth[n] \in Int
    OBVIOUS
  <1> HIDE DEF one, raised, scaled, worth
  <1> DEFINE Before == SumFunctionOnSet(before, S)
             After == SumFunctionOnSet(after, S)
             Raised == SumFunctionOnSet(raised, S)
             Excess == SumFunctionOnSet(excess, S)
             Balance == SumFunctionOnSet(balance, S)
             Ones == SumFunctionOnSet(one, S)
             Scaled == SumFunctionOnSet(scaled, S)
             Worthy == SumFunctionOnSet(worth, S)
  <1>5. Before \in Int /\ Excess \in Int /\ Balance \in Nat /\ Cardinality(S) \in Nat
    BY <1>1, <1>2, SumInt, SumNat, FS_CardinalityType
  <1>6. Raised = Before + Cardinality(S)
    <2>1. Ones = Cardinality(S)
      BY <1>1, SumOnes
    <2>2. \A n \in S : before[n] \in Int /\ one[n] \in Int /\ raised[n] = before[n] + one[n]
      BY <1>1
    <2>3. Raised = Before + Ones
      BY <2>2, SumPlus
    <2> QED BY <2>1, <2>3
  <1>7. After = Excess + Raised
    BY <1>1, <1>2, SumPlus
  <1>8. p * Excess <= inc * Balance
    <2>1. Scaled = p * Excess
      <3>1. p \in Int /\ \A n \in S : excess[n] \in Int /\ scaled[n] = p * excess[n]
        BY <1>2, <1>3
      <3> HIDE <1>2, <1>3
      <3> QED BY <3>1, SumScale
    <2>2. Worthy = inc * Balance
      <3>1. inc \in Int /\ \A n \in S : balance[n] \in Int /\ worth[n] = inc * balance[n]
        BY <1>4
      <3> QED BY <3>1, SumScale
    <2>3. \A n \in S : scaled[n] \in Int /\ worth[n] \in Int /\ scaled[n] <= worth[n]
      BY <1>2, <1>3, <1>4
    <2>4. Scaled <= Worthy
      BY <2>3, SumLeq
    <2> QED BY <2>1, <2>2, <2>4
  <1>9. Balance <= total
    OBVIOUS
  <1> HIDE DEF Before, After, Raised, Excess, Balance
  <1>10. inc * Balance <= inc * total
    BY <1>5, <1>9
  <1>11. /\ p * Excess \in Int /\ inc * Balance \in Int /\ inc * total \in Int
         /\ whole * p = p * whole /\ p * whole \in Int
    BY <1>5
  <1>12. p * Excess <= p * whole
    BY <1>8, <1>10, <1>11
  <1>13. Excess <= whole
    BY <1>5, <1>12, Cancels
  <1>14. After <= Before + whole + Cardinality(S)
    BY <1>5, <1>6, <1>7, <1>13
  <1> QED BY <1>14 DEF After, Before

\* They are numbers.
LEMMA RewardsType ==
    ASSUME NEW b \in Books, NEW v \in Vaults
    PROVE  /\ RewardsIn(b, v) \in Nat
           /\ \A m \in Members : /\ RewardsOf(b, v)[m] = Reward(b, v, m)
                                 /\ RewardsOf(b, v)[m] \in Nat
  <1>1. \A m \in Members : /\ RewardsOf(b, v)[m] = Reward(b, v, m)
                           /\ RewardsOf(b, v)[m] \in Nat
    BY RewardType DEF RewardsOf
  <1> QED BY <1>1, SumNat, VaultAssumption DEF RewardsIn

\* Altogether they get no more than the penalty, and a unit each.
LEMMA SharedIn ==
    ASSUME NEW b, LedgerOK(b), NEW c, NEW v \in Vaults, NEW m \in Members, NEW x, NEW y,
           Transacted(b, c, v, m, x, y), NEW penalty \in Nat, PenaltyShared(b, c, v, penalty)
    PROVE  RewardsIn(c, v) <= RewardsIn(b, v) + penalty + (Cardinality(Members) - 1)
  <1> DEFINE S == Members \ {m}
             K == Cardinality(Members) - 1
             before == RewardsOf(b, v)
             after == RewardsOf(c, v)
             balance == c.balance[v]
             total == c.total[v]
  <1>1. PICK inc \in Nat : /\ c.accPenalty = [b.accPenalty EXCEPT ![v] = b.accPenalty[v] + inc]
                           /\ inc * total <= penalty * PenaltyPrecision
    BY DEF PenaltyShared
  <1>2. LedgerOK(c) /\ b \in Books /\ c \in Books
    BY DEF Transacted, LedgerOK
  <1>3. IsFiniteSet(S) /\ IsFiniteSet(Members) /\ Cardinality(S) = K /\ K \in Int
    BY FS_RemoveElement, FS_CardinalityType, VaultAssumption
  <1>4. \A n \in Members : /\ before[n] \in Nat /\ after[n] \in Nat
                           /\ before[n] = Reward(b, v, n) /\ after[n] = Reward(c, v, n)
    <2> HIDE DEF before, after
    <2> QED BY <1>2, RewardsType DEF before, after
  <1>5. total \in Nat /\ (\A n \in Members : balance[n] \in Nat)
        /\ total = SumFunctionOnSet(balance, Members)
    BY <1>2 DEF Books, LedgerOK
  <1>6. after[m] = before[m]
    <2>1. Reward(c, v, m) = Reward(b, v, m)
      BY <1>2, TransactedRewards
    <2> HIDE DEF before, after
    <2> QED BY <1>4, <2>1
  <1>7. c.accPenalty[v] = b.accPenalty[v] + inc
    BY <1>1, <1>2 DEF Books
  <1>8. \A n \in S : PenaltyPrecision * (after[n] - (before[n] + 1)) <= inc * balance[n]
    <2> SUFFICES ASSUME NEW n \in S
                 PROVE  PenaltyPrecision * (after[n] - (before[n] + 1)) <= inc * balance[n]
      OBVIOUS
    <2>1. /\ c.balance[v][n] = b.balance[v][n] /\ c.unclaimed[v][n] = b.unclaimed[v][n]
          /\ c.penaltyDebt[v][n] = b.penaltyDebt[v][n]
      BY DEF Transacted
    <2>2. PenaltyPrecision * (Reward(c, v, n) - (Reward(b, v, n) + 1)) <= inc * c.balance[v][n]
      BY <1>2, <1>7, <2>1, OneShare
    <2>3. after[n] = Reward(c, v, n) /\ before[n] = Reward(b, v, n)
      BY <1>4
    <2> HIDE DEF before, after
    <2> QED BY <2>2, <2>3
  <1> HIDE DEF before, after, balance, total
  <1>9. SumFunctionOnSet(balance, S) <= total
    <2>1. S \in SUBSET Members
      OBVIOUS
    <2> QED BY <1>3, <1>5, <2>1, SumPart
  <1> DEFINE Before == SumFunctionOnSet(before, S)
             After == SumFunctionOnSet(after, S)
  <1>10. After <= Before + penalty + Cardinality(S)
    <2>1. \A n \in S : /\ before[n] \in Nat /\ after[n] \in Nat /\ balance[n] \in Nat
                       /\ PenaltyPrecision * (after[n] - (before[n] + 1)) <= inc * balance[n]
      BY <1>4, <1>5, <1>8
    <2>2. PenaltyPrecision \in Nat \ {0}
      BY LedgerAssumption
    <2> HIDE DEF S
    <2> QED BY <1>1, <1>3, <1>5, <1>9, <2>1, <2>2, RaisedTogether
  <1>11. Before \in Int /\ After \in Int
    BY <1>3, <1>4, SumInt
  <1>12. /\ SumFunctionOnSet(before, Members) = before[m] + Before
         /\ SumFunctionOnSet(after, Members) = after[m] + After
    <2>1. ASSUME NEW n \in Members PROVE before[n] \in Int /\ after[n] \in Int
      <3>1. before[n] \in Nat /\ after[n] \in Nat
        BY <1>4
      <3> QED BY <3>1
    <2> QED BY <1>3, <2>1, SumRemove
  <1>13. RewardsIn(b, v) = before[m] + Before /\ RewardsIn(c, v) = after[m] + After
    BY <1>12 DEF RewardsIn, before, after
  <1>14. before[m] \in Nat
    BY <1>4
  <1> HIDE DEF Before, After, S
  <1> QED BY <1>3, <1>6, <1>10, <1>11, <1>13, <1>14

\* What a vault owes, and all of them, in numbers.
LEMMA OwedTypes ==
    ASSUME NEW b \in Books
    PROVE  /\ Owed(b) \in Nat
           /\ \A v \in Vaults :
                 /\ OwedIn(b, v) \in Nat
                 /\ OwedIn(b, v) = b.total[v] + b.position[v].owed + b.position[v].fees
                                   + RewardsIn(b, v)
                 /\ b.total[v] \in Nat /\ b.position[v].owed \in Nat
                 /\ b.position[v].fees \in Nat /\ RewardsIn(b, v) \in Nat
  <1>1. ASSUME NEW v \in Vaults
        PROVE  /\ OwedIn(b, v) \in Nat
               /\ OwedIn(b, v) = b.total[v] + b.position[v].owed + b.position[v].fees
                                 + RewardsIn(b, v)
               /\ b.total[v] \in Nat /\ b.position[v].owed \in Nat
               /\ b.position[v].fees \in Nat /\ RewardsIn(b, v) \in Nat
    <2>1. b.total[v] \in Nat /\ b.position[v].owed \in Nat /\ b.position[v].fees \in Nat
      BY DEF Books, Position
    <2>2. RewardsIn(b, v) \in Nat
      BY RewardsType
    <2>3. OwedIn(b, v) = b.total[v] + b.position[v].owed + b.position[v].fees
                         + RewardsIn(b, v)
      BY DEF OwedIn, RewardsIn, RewardsOf
    <2> QED BY <2>1, <2>2, <2>3
  <1> DEFINE f == [v \in Vaults |-> OwedIn(b, v)]
  <1>2. \A v \in Vaults : f[v] \in Nat
    BY <1>1
  <1>3. Owed(b) = SumFunctionOnSet(f, Vaults)
    BY DEF Owed
  <1> HIDE DEF f
  <1>4. Owed(b) \in Nat
    BY <1>2, <1>3, SumNat, VaultAssumption
  <1> QED BY <1>1, <1>4

\* When only one vault owes something else, all owe as much more.
LEMMA OwedMoves ==
    ASSUME NEW b \in Books, NEW c \in Books, NEW v \in Vaults,
           \A u \in Vaults \ {v} : OwedIn(c, u) = OwedIn(b, u)
    PROVE  Owed(c) = Owed(b) + (OwedIn(c, v) - OwedIn(b, v))
  <1> DEFINE f == [u \in Vaults |-> OwedIn(b, u)]
             g == [u \in Vaults |-> OwedIn(c, u)]
  <1>1. \A u \in Vaults : f[u] \in Int /\ g[u] \in Int
    <2> SUFFICES ASSUME NEW u \in Vaults PROVE f[u] \in Int /\ g[u] \in Int
      OBVIOUS
    <2>1. OwedIn(b, u) \in Nat /\ OwedIn(c, u) \in Nat
      BY OwedTypes
    <2> QED BY <2>1
  <1>2. \A u \in Vaults \ {v} : g[u] = f[u]
    OBVIOUS
  <1>3. /\ Owed(b) = SumFunctionOnSet(f, Vaults) /\ Owed(c) = SumFunctionOnSet(g, Vaults)
        /\ f[v] = OwedIn(b, v) /\ g[v] = OwedIn(c, v)
    BY DEF Owed
  <1> HIDE DEF f, g
  <1>4. Owed(c) = Owed(b) + (g[v] - f[v])
    BY <1>1, <1>2, <1>3, SumUpdate, VaultAssumption
  <1> QED BY <1>3, <1>4

\* The sum follows the rewards.
LEMMA RewardsInSame ==
    ASSUME NEW b \in Books, NEW c \in Books, NEW v \in Vaults,
           \A m \in Members : Reward(c, v, m) = Reward(b, v, m)
    PROVE  RewardsIn(c, v) = RewardsIn(b, v)
  <1>1. \A m \in Members : RewardsOf(c, v)[m] = RewardsOf(b, v)[m]
    BY DEF RewardsOf
  <1> QED BY <1>1, SumSame, VaultAssumption DEF RewardsIn

\* Books that keep totals, rewards and what the positions owe keep what is owed.
LEMMA OwedSame ==
    ASSUME NEW b \in Books, NEW c \in Books, RewardsSame(b, c), c.total = b.total,
           \A v \in Vaults : /\ c.position[v].owed = b.position[v].owed
                             /\ c.position[v].fees = b.position[v].fees
    PROVE  Owed(c) = Owed(b)
  <1>1. ASSUME NEW v \in Vaults PROVE OwedIn(c, v) = OwedIn(b, v)
    <2>1. RewardsIn(c, v) = RewardsIn(b, v)
      BY RewardsInSame DEF RewardsSame
    <2> QED BY <2>1, OwedTypes
  <1> DEFINE f == [v \in Vaults |-> OwedIn(b, v)]
             g == [v \in Vaults |-> OwedIn(c, v)]
  <1>2. f = g
    BY <1>1
  <1> QED BY <1>2 DEF Owed

\* What a member's transaction does to what is owed, where nothing earns.
LEMMA OwedTransacted ==
    ASSUME ~EarningDeployed, NEW b \in Books, NEW v \in Vaults, NEW m \in Members, NEW c,
           NEW x \in Int, NEW y \in Int, Transacted(b, c, v, m, x, y),
           \A u \in Vaults \ {v} : c.accPenalty[u] = b.accPenalty[u]
    PROVE  /\ c \in Books
           /\ Owed(c) = Owed(b) + x + (RewardsIn(c, v) - RewardsIn(b, v))
           /\ c.held = b.held + y /\ c.pool = b.pool
  <1>1. c \in Books
    BY DEF Transacted, LedgerOK
  <1>2. /\ c.position = b.position /\ c.pool = b.pool /\ c.feesHeld = b.feesHeld
        /\ c.total[v] = b.total[v] + x
    BY DEF Transacted
  <1>3. ASSUME NEW u \in Vaults \ {v}
        PROVE  OwedIn(c, u) = OwedIn(b, u)
    <2>1. \A n \in Members : Reward(c, u, n) = Reward(b, u, n)
      BY TransactedRewards
    <2>2. RewardsIn(c, u) = RewardsIn(b, u)
      BY <1>1, <2>1, RewardsInSame
    <2>3. c.total[u] = b.total[u]
      BY DEF Transacted
    <2> QED BY <1>1, <1>2, <2>2, <2>3, OwedTypes
  <1>4. OwedIn(c, v) - OwedIn(b, v) = x + (RewardsIn(c, v) - RewardsIn(b, v))
    <2> DEFINE before == RewardsIn(b, v)
               after == RewardsIn(c, v)
               owed == b.position[v].owed
               fees == b.position[v].fees
               total == b.total[v]
    <2>1. /\ OwedIn(b, v) = total + owed + fees + before
          /\ OwedIn(c, v) = (total + x) + owed + fees + after
          /\ total \in Nat /\ owed \in Nat /\ fees \in Nat /\ before \in Nat /\ after \in Nat
      BY <1>1, <1>2, OwedTypes
    <2> HIDE DEF before, after, owed, fees, total
    <2>2. OwedIn(c, v) - OwedIn(b, v) = x + (after - before)
      BY <2>1
    <2> QED BY <2>2 DEF before, after
  <1>5. Owed(c) = Owed(b) + (OwedIn(c, v) - OwedIn(b, v))
    BY <1>1, <1>3, OwedMoves
  <1>6. RewardsIn(c, v) \in Nat /\ RewardsIn(b, v) \in Nat /\ Owed(b) \in Nat
    BY <1>1, OwedTypes
  <1>7. Owed(c) = Owed(b) + x + (RewardsIn(c, v) - RewardsIn(b, v))
    <2> DEFINE d == RewardsIn(c, v) - RewardsIn(b, v)
    <2>1. d \in Int
      BY <1>6
    <2>2. Owed(c) = Owed(b) + (x + d)
      BY <1>4, <1>5
    <2> HIDE DEF d
    <2>3. Owed(c) = Owed(b) + x + d
      BY <1>6, <2>1, <2>2
    <2> QED BY <2>3 DEF d
  <1>8. c.held = b.held + y
    <2>1. c.held + c.pool + c.feesHeld = b.held + b.pool + b.feesHeld + y
      BY DEF Transacted, Assets
    <2>2. /\ b.held \in Nat /\ b.pool \in Nat /\ b.feesHeld \in Nat /\ c.held \in Nat
          /\ c.pool = b.pool /\ c.feesHeld = b.feesHeld
      BY <1>1, <1>2 DEF Books
    <2> QED BY <2>1, <2>2
  <1> QED BY <1>1, <1>2, <1>7, <1>8

-----------------------------------------------------------------------------
(* Without the earning side: no transaction leaves more uncovered.         *)

\* What is missing of a token before rounding and losses are counted.
Missing(b) == Owed(b) - (b.held + b.pool)

\* A step leaves no more of t uncovered than was lost or rounded by it.
NoWorse(t) == Missing(books'[t]) - market'[t].lost - Dust'
                 <= Missing(books[t]) - market[t].lost - Dust

\* The allowance for rounding is a number, ...
LEMMA DustType == ASSUME CountsOK PROVE Dust \in Nat
  <1> DEFINE K == Cardinality(Members) - 1
             sum == SumFunctionOnSet(penalties, Vaults)
  <1>1. sum \in Nat
    BY SumNat, VaultAssumption DEF CountsOK
  <1>2. CASE Members = {}
    <2>1. Vaults = {}
      BY <1>2, VaultAssumption
    <2>2. sum = 0
      BY <2>1, SumEmpty
    <2>3. K \in Int
      BY <1>2, FS_EmptySet
    <2> HIDE DEF K, sum
    <2>4. K * sum = 0
      BY <2>2, <2>3
    <2> QED BY <2>4 DEF Dust, K, sum
  <1>3. CASE Members # {}
    <2>1. Cardinality(Members) \in Nat /\ Cardinality(Members) # 0
      BY <1>3, FS_EmptySet, FS_CardinalityType, VaultAssumption
    <2>2. K \in Nat
      BY <2>1
    <2> HIDE DEF K, sum
    <2>3. K * sum \in Nat
      BY <1>1, <2>2, MulNat
    <2> QED BY <2>3 DEF Dust, K, sum
  <1> QED BY <1>2, <1>3

\* A penalty adds a unit for each who may share it.
LEMMA DustGrows ==
    ASSUME CountsOK, NEW v \in Vaults, penalties' = [penalties EXCEPT ![v] = @ + 1]
    PROVE  Dust' = Dust + (Cardinality(Members) - 1) /\ Dust' >= Dust
  <1> DEFINE K == Cardinality(Members) - 1
             sum == SumFunctionOnSet(penalties, Vaults)
             later == penalties'
             next == SumFunctionOnSet(later, Vaults)
  <1>1. next = sum + (later[v] - penalties[v])
    <2>1. \A u \in Vaults : penalties[u] \in Int
      BY DEF CountsOK
    <2>2. later[v] \in Int /\ \A u \in Vaults \ {v} : later[u] = penalties[u]
      BY DEF CountsOK
    <2>3. IsFiniteSet(Vaults)
      BY VaultAssumption
    <2> HIDE DEF later
    <2> QED BY <2>1, <2>2, <2>3, SumUpdate
  <1>2. penalties'[v] = penalties[v] + 1 /\ penalties[v] \in Nat
    BY DEF CountsOK
  <1>3. sum \in Nat
    BY SumNat, VaultAssumption DEF CountsOK
  <1>4. K \in Nat
    <2>1. CreatorOf[v] \in Members
      BY CreatorsAreMembers
    <2>2. Cardinality(Members) \in Nat /\ Cardinality(Members) # 0
      BY <2>1, FS_EmptySet, FS_CardinalityType, VaultAssumption
    <2> QED BY <2>2
  <1>5. Dust = K * sum /\ Dust' = K * next
    BY DEF Dust
  <1> HIDE DEF K, sum, next
  <1>6. next = sum + 1
    BY <1>1, <1>2, <1>3
  <1>7. K * (sum + 1) = K * sum + K /\ K * sum \in Nat
    BY <1>3, <1>4
  <1> QED BY <1>4, <1>5, <1>6, <1>7 DEF K

\* Every kind of step leaves the other tokens as they are.
LEMMA OneNoWorse ==
    ASSUME BooksOK, CountsOK, NEW t \in Tokens, NEW c, Post(t, c), NoWorse(t),
           \A k \in Tokens \ {t} : market'[k] = market[k],
           Dust' \in Nat, Dust' >= Dust
    PROVE  \A k \in Tokens : NoWorse(k)
  <1> SUFFICES ASSUME NEW k \in Tokens \ {t} PROVE NoWorse(k)
    OBVIOUS
  <1>1. books'[k] = books[k] /\ market'[k] = market[k]
    BY PostIsOne DEF Books1
  <1> DEFINE d == Missing(books[k])
             lost == market[k].lost
             dust == Dust
             next == Dust'
  <1>2. d \in Int /\ lost \in Nat /\ dust \in Nat
    <2>1. books[k] \in Books
      BY DEF BooksOK, BookOK, LedgerOK
    <2>2. Owed(books[k]) \in Nat /\ books[k].held \in Nat /\ books[k].pool \in Nat
      BY <2>1, OwedTypes DEF Books
    <2> QED BY <2>2, DustType DEF Missing, CountsOK
  <1>3. next \in Nat /\ next >= dust
    OBVIOUS
  <1> HIDE DEF d, lost, dust, next
  <1>4. d - lost - next <= d - lost - dust
    BY <1>2, <1>3
  <1> QED BY <1>1, <1>4 DEF NoWorse, d, lost, dust, next

\* The same books with nothing else changed but perhaps more rounding.
LEMMA QuietNoWorse ==
    ASSUME BooksOK, CountsOK, NEW t \in Tokens, market'[t] = market[t],
           Dust' \in Nat, Dust' >= Dust, Missing(books'[t]) <= Missing(books[t]),
           Missing(books'[t]) \in Int
    PROVE  NoWorse(t)
  <1>1. market[t].lost \in Nat /\ Dust \in Nat
    BY DustType DEF CountsOK
  <1>2. Missing(books[t]) \in Int
    <2>1. books[t] \in Books
      BY DEF BooksOK, BookOK, LedgerOK
    <2>2. Owed(books[t]) \in Nat /\ books[t].held \in Nat /\ books[t].pool \in Nat
      BY <2>1, OwedTypes DEF Books
    <2> QED BY <2>2 DEF Missing
  <1> QED BY <1>1, <1>2 DEF NoWorse

\* What is missing may be less than nothing.
LEMMA MissingType == ASSUME NEW b \in Books PROVE Missing(b) \in Int
  <1>1. Owed(b) \in Nat /\ b.held \in Nat /\ b.pool \in Nat
    BY OwedTypes DEF Books
  <1> QED BY <1>1 DEF Missing

\* ... that never goes down.
LEMMA DustNext ==
    ASSUME CountsOK,
           UNCHANGED penalties \/ \E v \in Vaults : penalties' = [penalties EXCEPT ![v] = @ + 1]
    PROVE  Dust \in Nat /\ Dust' \in Nat /\ Dust' >= Dust
  <1>1. Dust \in Nat
    BY DustType
  <1>2. CASE UNCHANGED penalties
    BY <1>1, <1>2 DEF Dust
  <1>3. ASSUME NEW v \in Vaults, penalties' = [penalties EXCEPT ![v] = @ + 1]
        PROVE  Dust' \in Nat /\ Dust' >= Dust
    <2>1. Dust' = Dust + (Cardinality(Members) - 1) /\ Dust' >= Dust
      BY <1>3, DustGrows
    <2>2. Cardinality(Members) \in Nat
      BY FS_CardinalityType, VaultAssumption
    <2> QED BY <1>1, <2>1, <2>2
  <1> QED BY <1>1, <1>2, <1>3

\* Payments and deposits change what is owed and what is held alike, ...
LEMMA PaymentNoWorse ==
    ASSUME ~EarningDeployed, FundsInv, NEW v \in Vaults, NEW m \in Members, NEW t \in Tokens,
           NEW amount \in Nat, NEW c,
           Payment(v, m, t, amount, c) \/ Placed(v, m, t, amount, c),
           UNCHANGED market, Dust' \in Nat, Dust' >= Dust
    PROVE  \A k \in Tokens : NoWorse(k)
  <1> DEFINE b == books[t]
             x == -amount
  <1>1. BooksOK /\ CountsOK /\ Post(t, c) /\ books'[t] = c /\ b \in Books
    BY PostIsOne DEF FundsInv, BooksOK, BookOK, LedgerOK, Payment, Placed, Books1
  <1>2. PICK y \in {x, amount} : Transacted(b, c, v, m, y, y) /\ c.accPenalty = b.accPenalty
    BY DEF Payment, Placed
  <1>3. y \in Int
    OBVIOUS
  <1> HIDE DEF b, x
  <1>4. /\ c \in Books /\ c.held = b.held + y /\ c.pool = b.pool
        /\ Owed(c) = Owed(b) + y + (RewardsIn(c, v) - RewardsIn(b, v))
    BY <1>1, <1>2, <1>3, OwedTransacted
  <1>5. RewardsIn(c, v) = RewardsIn(b, v)
    <2>1. \A n \in Members : Reward(c, v, n) = Reward(b, v, n)
      BY <1>1, <1>2, TransactedRewards DEF RewardsSame
    <2> QED BY <1>1, <1>4, <2>1, RewardsInSame
  <1>6. Missing(c) = Missing(b)
    <2>1. /\ RewardsIn(b, v) \in Nat /\ Owed(b) \in Nat /\ b.held \in Nat /\ b.pool \in Nat
      BY <1>1, OwedTypes DEF Books
    <2>2. Owed(c) = Owed(b) + y
      BY <1>3, <1>4, <1>5, <2>1
    <2> QED BY <1>3, <1>4, <2>1, <2>2 DEF Missing
  <1>7. Missing(c) \in Int
    BY <1>4, MissingType
  <1>8. NoWorse(t)
    BY <1>1, <1>6, <1>7, QuietNoWorse DEF b
  <1> QED BY <1>1, <1>8, OneNoWorse

\* ... an early exit owes the others no more than the penalty it left and the dust, ...
LEMMA ExitNoWorse ==
    ASSUME ~EarningDeployed, FundsInv, NEW v \in Vaults, NEW m \in Members, NEW t \in Tokens,
           NEW amount \in Nat, NEW c, EarlyExit(v, m, t, amount, c), UNCHANGED market,
           penalties' = [penalties EXCEPT ![v] = @ + 1]
    PROVE  \A k \in Tokens : NoWorse(k)
  <1> DEFINE b == books[t]
             penalty == PenaltyOf(amount)
             x == -amount
             y == penalty - amount
             K == Cardinality(Members) - 1
  <1>1. BooksOK /\ CountsOK /\ Post(t, c) /\ books'[t] = c /\ b \in Books /\ LedgerOK(b)
    BY PostIsOne DEF FundsInv, BooksOK, BookOK, LedgerOK, EarlyExit, Books1
  <1>2. /\ Transacted(b, c, v, m, x, y) /\ PenaltyShared(b, c, v, penalty)
    BY DEF EarlyExit
  <1>3. penalty \in Nat /\ x \in Int /\ y \in Int /\ x + penalty = y
    BY PenaltyType
  <1>4. Dust' = Dust + K /\ Dust' >= Dust /\ Dust \in Nat /\ Dust' \in Nat
    BY <1>1, DustGrows, DustNext
  <1>5. K \in Int
    BY FS_CardinalityType, VaultAssumption
  <1>6. \A u \in Vaults \ {v} : c.accPenalty[u] = b.accPenalty[u]
    BY <1>1, <1>2 DEF PenaltyShared, Books
  <1> HIDE DEF b, x, y, penalty
  <1>7. /\ c \in Books /\ c.held = b.held + y /\ c.pool = b.pool
        /\ Owed(c) = Owed(b) + x + (RewardsIn(c, v) - RewardsIn(b, v))
    BY <1>1, <1>2, <1>3, <1>6, OwedTransacted
  <1>8. RewardsIn(c, v) <= RewardsIn(b, v) + penalty + K
    BY <1>1, <1>2, <1>3, SharedIn
  <1>9. /\ RewardsIn(b, v) \in Nat /\ RewardsIn(c, v) \in Nat /\ Owed(b) \in Nat
        /\ b.held \in Nat /\ b.pool \in Nat /\ market[t].lost \in Nat
    BY <1>1, <1>7, OwedTypes DEF Books, CountsOK
  <1> DEFINE before == RewardsIn(b, v)
             after == RewardsIn(c, v)
             owed == Owed(b)
             lost == market[t].lost
             dust == Dust
             later == Dust'
             held == b.held
             pool == b.pool
  <1>10. /\ Missing(b) = owed - (held + pool)
         /\ Missing(c) = owed + x + (after - before) - ((held + y) + pool)
         /\ later = dust + K /\ after <= before + penalty + K /\ dust \in Nat
         /\ before \in Nat /\ after \in Nat /\ owed \in Nat /\ held \in Nat /\ pool \in Nat
         /\ lost \in Nat
    <2>1. Missing(b) = owed - (held + pool)
      BY DEF Missing
    <2>2. Missing(c) = owed + x + (after - before) - ((held + y) + pool)
      <3>1. Missing(c) = Owed(c) - (c.held + c.pool)
        BY DEF Missing
      <3>2. c.held = held + y /\ c.pool = pool /\ Owed(c) = owed + x + (after - before)
        BY <1>7
      <3>3. /\ before \in Nat /\ after \in Nat /\ owed \in Nat /\ held \in Nat /\ pool \in Nat
            /\ y \in Int /\ x \in Int
        BY <1>3, <1>9
      <3> HIDE DEF before, after, owed, held, pool
      <3> QED BY <3>1, <3>2, <3>3
    <2>3. later = dust + K /\ dust \in Nat
      BY <1>4
    <2>4. after <= before + penalty + K
      BY <1>8
    <2> QED BY <1>9, <2>1, <2>2, <2>3, <2>4
  <1> HIDE DEF before, after, owed, lost, dust, later, held, pool, K
  <1>11. Missing(c) - lost - later <= Missing(b) - lost - dust
    BY <1>3, <1>5, <1>10
  <1>12. NoWorse(t)
    BY <1>1, <1>11 DEF NoWorse, b, lost, dust, later
  <1> QED BY <1>1, <1>4, <1>12, OneNoWorse

\* ... a claim pays what was owed, ...
LEMMA ClaimNoWorse ==
    ASSUME FundsInv, NEW v \in Vaults, NEW m \in Members, NEW t \in Tokens,
           ClaimPenaltyRewards(v, m, t), Dust' \in Nat, Dust' >= Dust
    PROVE  \A k \in Tokens : NoWorse(k)
  <1>1. PICK c : Post(t, c) /\ Claimed(books[t], c, v, m)
    BY ClaimIsClaimed
  <1> DEFINE b == books[t]
             paid == Reward(b, v, m)
  <1>2. /\ BooksOK /\ CountsOK /\ books'[t] = c /\ b \in Books /\ c \in Books
        /\ UNCHANGED market
    BY <1>1, PostIsOne DEF FundsInv, BooksOK, BookOK, LedgerOK, Books1, Claimed,
       ClaimPenaltyRewards
  <1>3. /\ c.held = b.held - paid /\ c.pool = b.pool
        /\ c.total = b.total /\ c.position = b.position
    BY <1>1 DEF Claimed, BalancesKept, YieldKept
  <1>4. Reward(c, v, m) = 0
    BY <1>1 DEF Claimed, Reward
  <1>5. \A u \in Vaults, n \in Members : <<u, n>> # <<v, m>> => Reward(c, u, n) = Reward(b, u, n)
    BY <1>1, RewardDepends DEF Claimed, BalancesKept
  <1> HIDE DEF b
  <1>6. RewardsIn(c, v) = RewardsIn(b, v) - paid
    <2> DEFINE f == RewardsOf(b, v)
               g == RewardsOf(c, v)
    <2>1. g[m] = 0 /\ f[m] = paid
      BY <1>4 DEF RewardsOf
    <2>2. \A n \in Members \ {m} : g[n] = f[n]
      BY <1>5 DEF RewardsOf
    <2>3. \A n \in Members : f[n] \in Nat
      BY <1>2, RewardsType
    <2> HIDE DEF f, g, paid
    <2>4. IsFiniteSet(Members) /\ (\A n \in Members : f[n] \in Int) /\ g[m] \in Int
      BY <2>1, <2>3, VaultAssumption
    <2>5. SumFunctionOnSet(g, Members) = SumFunctionOnSet(f, Members) + (g[m] - f[m])
      BY <2>2, <2>4, SumUpdate
    <2>6. RewardsIn(b, v) = SumFunctionOnSet(f, Members) /\ RewardsIn(b, v) \in Nat
          /\ RewardsIn(c, v) = SumFunctionOnSet(g, Members) /\ paid \in Nat
      BY <1>2, <2>1, <2>3, RewardsType DEF RewardsIn, f, g
    <2> QED BY <2>1, <2>5, <2>6
  <1>7. ASSUME NEW u \in Vaults \ {v} PROVE OwedIn(c, u) = OwedIn(b, u)
    <2>1. RewardsIn(c, u) = RewardsIn(b, u)
      BY <1>2, <1>5, RewardsInSame
    <2> QED BY <1>2, <1>3, <2>1, OwedTypes
  <1>8. OwedIn(c, v) - OwedIn(b, v) = -paid /\ paid \in Nat /\ Owed(b) \in Nat
        /\ b.held \in Nat /\ b.pool \in Nat
    <2> DEFINE total == b.total[v]
               owed == b.position[v].owed
               fees == b.position[v].fees
               before == RewardsIn(b, v)
               after == RewardsIn(c, v)
    <2>1. /\ OwedIn(b, v) = total + owed + fees + before
          /\ OwedIn(c, v) = total + owed + fees + after
          /\ total \in Nat /\ owed \in Nat /\ fees \in Nat /\ before \in Nat /\ after \in Nat
          /\ paid \in Nat /\ Owed(b) \in Nat /\ b.held \in Nat /\ b.pool \in Nat
      BY <1>2, <1>3, OwedTypes, RewardType DEF Books
    <2>2. after = before - paid
      BY <1>6
    <2> HIDE DEF total, owed, fees, before, after, paid
    <2> QED BY <2>1, <2>2
  <1>9. Owed(c) = Owed(b) + (OwedIn(c, v) - OwedIn(b, v))
    BY <1>2, <1>7, OwedMoves
  <1> HIDE DEF paid
  <1>10. Missing(c) = Missing(b)
    BY <1>3, <1>8, <1>9 DEF Missing
  <1>11. NoWorse(t)
    BY <1>2, <1>10, MissingType, QuietNoWorse DEF b
  <1> QED BY <1>1, <1>2, <1>11, OneNoWorse

\* Books that keep what they owe and what they hold.
LEMMA KeptNoWorse ==
    ASSUME BooksOK, CountsOK, NEW t \in Tokens, books'[t] \in Books,
           RewardsSame(books[t], books'[t]), books'[t].total = books[t].total,
           books'[t].position = books[t].position,
           books'[t].held = books[t].held, books'[t].pool = books[t].pool,
           market'[t] = market[t], Dust' \in Nat, Dust' >= Dust
    PROVE  NoWorse(t)
  <1> DEFINE b == books[t]
             c == books'[t]
  <1>1. b \in Books /\ c \in Books
    BY DEF BooksOK, BookOK, LedgerOK
  <1>2. Owed(c) = Owed(b)
    <2>1. RewardsSame(b, c) /\ c.total = b.total /\ c.position = b.position
      OBVIOUS
    <2> HIDE DEF b, c
    <2> QED BY <1>1, <2>1, OwedSame
  <1>3. Missing(c) = Missing(b) /\ Missing(c) \in Int /\ Missing(b) \in Int
    BY <1>1, <1>2, MissingType DEF Missing
  <1> QED BY <1>3, QuietNoWorse

\* Nor is it worse while the books and the market stay.
LEMMA QuietStepNoWorse ==
    ASSUME BooksOK, CountsOK, UNCHANGED <<books, market>>, Dust' \in Nat, Dust' >= Dust
    PROVE  \A k \in Tokens : NoWorse(k)
  <1> SUFFICES ASSUME NEW k \in Tokens PROVE NoWorse(k)
    OBVIOUS
  <1>1. books[k] \in Books
    BY DEF BooksOK, BookOK, LedgerOK
  <1> QED BY <1>1, KeptNoWorse DEF RewardsSame

\* Leaving only settles, ...
LEMMA LeavingNoWorse ==
    ASSUME ~EarningDeployed, FundsInv, NEW v \in Vaults, NEW m \in Members, LeaveVault(v, m),
           Dust' \in Nat, Dust' >= Dust
    PROVE  \A k \in Tokens : NoWorse(k)
  <1> SUFFICES ASSUME NEW t \in Tokens PROVE NoWorse(t)
    OBVIOUS
  <1>1. BooksOK /\ CountsOK /\ books[t] \in Books /\ UNCHANGED market
    BY DEF FundsInv, BooksOK, BookOK, LedgerOK, LeaveVault
  <1>2. CASE t \in accepted[v]
    <2> DEFINE b == books[t]
               c == books'[t]
    <2>1. Settled(b, c, v, m)
      BY <1>2, LeavingSettles DEF Departed
    <2> HIDE DEF b, c
    <2>2. /\ c \in Books /\ HoldingsKept(b, c) /\ BalancesKept(b, c) /\ YieldKept(b, c)
          /\ PendingPenalty(c, v, m) = 0 /\ c.unclaimed[v][m] = Reward(b, v, m)
          /\ c.accPenalty = b.accPenalty
      BY <2>1 DEF Settled, LedgerOK
    <2>3. Reward(c, v, m) = Reward(b, v, m)
      <3>1. Reward(b, v, m) \in Nat
        BY <1>1, RewardType DEF b
      <3> QED BY <2>2, <3>1 DEF Reward
    <2>4. ASSUME NEW u \in Vaults, NEW n \in Members, <<u, n>> # <<v, m>>
          PROVE  Reward(c, u, n) = Reward(b, u, n)
      <3>1. /\ c.unclaimed[u][n] = b.unclaimed[u][n]
            /\ c.penaltyDebt[u][n] = b.penaltyDebt[u][n]
        BY <2>1, <2>4 DEF Settled
      <3> QED BY <2>2, <3>1, RewardDepends DEF BalancesKept
    <2>5. RewardsSame(b, c)
      BY <2>3, <2>4 DEF RewardsSame
    <2>6. /\ c.total = b.total /\ c.position = b.position /\ c.held = b.held /\ c.pool = b.pool
      BY <2>2 DEF HoldingsKept, BalancesKept, YieldKept
    <2> QED BY <1>1, <2>2, <2>5, <2>6, KeptNoWorse DEF b, c
  <1>3. CASE t \notin accepted[v]
    <2>1. books'[t] = books[t]
      BY <1>3, LeavingSettles
    <2> QED BY <1>1, <2>1, KeptNoWorse DEF RewardsSame
  <1> QED BY <1>2, <1>3

\* ... sweeping takes what was the treasury's, ...
LEMMA SweepNoWorse ==
    ASSUME FundsInv, NEW t \in Tokens, SweepFees(t), Dust' \in Nat, Dust' >= Dust
    PROVE  \A k \in Tokens : NoWorse(k)
  <1>1. PICK c : Post(t, c) /\ ReheldAs(books[t], c, 0, books[t].pool)
    BY SweepReholds
  <1>2. BooksOK /\ CountsOK /\ books'[t] = c /\ UNCHANGED market /\ c \in Books
    BY <1>1, PostIsOne DEF FundsInv, Books1, SweepFees, ReheldAs, LedgerOK
  <1>3. /\ RewardsSame(books[t], c) /\ c.total = books[t].total
        /\ c.position = books[t].position
        /\ c.held = books[t].held /\ c.pool = books[t].pool
    BY <1>1, RewardsFollow DEF ReheldAs, YieldKept, BalancesKept
  <1>4. NoWorse(t)
    BY <1>2, <1>3, KeptNoWorse
  <1> QED BY <1>1, <1>2, <1>4, OneNoWorse

\* ... and what the market takes is counted as lost.
LEMMA FluctuationNoWorse ==
    ASSUME FundsInv, NEW t \in Tokens, NEW earned \in Nat, NEW lost \in Nat,
           NEW c, Fluctuated(t, c, earned, lost), UNCHANGED penalties
    PROVE  \A k \in Tokens : NoWorse(k)
  <1> DEFINE b == books[t]
  <1>1. BooksOK /\ CountsOK /\ Post(t, c) /\ books'[t] = c /\ b \in Books /\ c \in Books
    BY PostIsOne DEF Fluctuated, FundsInv, BooksOK, BookOK, LedgerOK, Books1
  <1>2. /\ c.held = b.held /\ c.pool = b.pool + earned - lost
        /\ c.total = b.total /\ c.position = b.position
        /\ BalancesKept(b, c) /\ PenaltiesKept(b, c)
    BY DEF Fluctuated, ReheldAs, YieldKept, BalancesKept
  <1>3. Dust' = Dust /\ Dust \in Nat
    BY <1>1, DustType DEF Dust
  <1>4. /\ market'[t].lost = market[t].lost + lost /\ market[t].lost \in Nat
        /\ \A k \in Tokens \ {t} : market'[k] = market[k]
    BY <1>1 DEF Fluctuated, CountsOK
  <1> HIDE DEF b
  <1>5. Owed(c) = Owed(b)
    BY <1>1, <1>2, RewardsFollow, OwedSame
  <1> DEFINE owed == Owed(b)
             held == b.held
             pool == b.pool
             gone == market[t].lost
             dust == Dust
  <1>6. /\ owed \in Nat /\ held \in Nat /\ pool \in Nat /\ gone \in Nat /\ dust \in Nat
        /\ c.held = held /\ c.pool = pool + earned - lost /\ Owed(c) = owed
        /\ Owed(b) = owed /\ b.held = held /\ b.pool = pool
        /\ market'[t].lost = gone + lost /\ Dust' = dust /\ Dust = dust
    BY <1>1, <1>2, <1>3, <1>4, <1>5, OwedTypes DEF Books
  <1>7. Missing(c) = Owed(c) - (c.held + c.pool) /\ Missing(b) = Owed(b) - (b.held + b.pool)
    BY DEF Missing
  <1> HIDE DEF owed, held, pool, gone, dust
  <1>8. /\ Missing(c) = owed - (held + (pool + earned - lost))
        /\ Missing(b) = owed - (held + pool)
    BY <1>6, <1>7
  <1>9. Missing(c) - (gone + lost) - dust <= Missing(b) - gone - dust
    BY <1>6, <1>8
  <1>10. NoWorse(t)
    BY <1>1, <1>6, <1>9 DEF NoWorse, b, gone
  <1>11. Dust' \in Nat /\ Dust' >= Dust
    BY <1>3
  <1> QED BY <1>1, <1>4, <1>10, <1>11, OneNoWorse

\* No transaction with money makes it worse, ...
LEMMA FundsNoWorse ==
    ASSUME ~EarningDeployed, FundsInv, BypassOK, NEW v \in Vaults, FundsStep(v)
    PROVE  \A k \in Tokens : NoWorse(k)
  <1>0. BooksOK /\ CountsOK /\ Sums \subseteq Nat
    BY VaultAssumption DEF FundsInv
  <1>1. ASSUME UNCHANGED penalties
        PROVE  Dust' \in Nat /\ Dust' >= Dust
    BY <1>0, <1>1, DustNext
  <1>2. ASSUME NEW m \in Members, NEW t \in Tokens, NEW amount \in Sums,
               \/ \E answer \in Answers : Deposit(v, m, t, amount, answer)
               \/ Withdraw(v, m, t, amount)
        PROVE  \A k \in Tokens : NoWorse(k)
    <2>1. amount \in Nat
      BY <1>0
    <2>2. \E c : Payment(v, m, t, amount, c) \/ Placed(v, m, t, amount, c)
      BY <1>2, <2>1, DepositIsPlaced, WithdrawIsPayment
    <2>3. UNCHANGED <<penalties, market>>
      BY <1>2 DEF Deposit, Withdraw
    <2> QED BY <1>1, <2>1, <2>2, <2>3, PaymentNoWorse
  <1>3. ASSUME NEW m \in Members, NEW t \in Tokens, NEW amount \in Sums,
               WithdrawWithPenalty(v, m, t, amount)
        PROVE  \A k \in Tokens : NoWorse(k)
    <2>1. amount \in Nat
      BY <1>0
    <2>2. PICK c : /\ Payment(v, m, t, amount, c) \/ EarlyExit(v, m, t, amount, c)
                   /\ penalties' = [penalties EXCEPT ![v] = @ + 1]
      BY <1>3, <2>1, PenaltyIsExit
    <2>3. UNCHANGED market
      BY <1>3 DEF WithdrawWithPenalty
    <2>4. Dust' \in Nat /\ Dust' >= Dust
      BY <1>0, <2>2, DustNext
    <2> QED BY <2>1, <2>2, <2>3, <2>4, PaymentNoWorse, ExitNoWorse
  <1>4. ASSUME NEW m \in Members, NEW t \in Tokens, NEW amount \in Sums, NEW skip \in Names,
               RequestBypass(v, m, t, amount, skip)
        PROVE  \A k \in Tokens : NoWorse(k)
    BY <1>0, <1>1, <1>4, QuietStepNoWorse DEF RequestBypass
  <1>5. ASSUME NEW m \in Members, NEW t \in Tokens, ClaimPenaltyRewards(v, m, t)
        PROVE  \A k \in Tokens : NoWorse(k)
    <2>1. UNCHANGED penalties
      BY <1>5 DEF ClaimPenaltyRewards
    <2> QED BY <1>1, <1>5, <2>1, ClaimNoWorse
  <1>6. ASSUME NEW m \in Members, NEW r \in bypass[<<v, m>>], ExecuteBypass(v, m, r)
        PROVE  \A k \in Tokens : NoWorse(k)
    <2>1. r.token \in Tokens /\ BypassAmount(v, r) \in Nat
      BY <1>6, RequestTypes
    <2>2. \E c : Payment(v, m, r.token, BypassAmount(v, r), c)
      BY <1>6, <2>1, BypassIsPayment
    <2>3. UNCHANGED <<penalties, market>>
      BY <1>6 DEF ExecuteBypass
    <2> QED BY <1>1, <2>1, <2>2, <2>3, PaymentNoWorse
  <1>7. ASSUME NEW m \in Members, NEW r \in bypass[<<v, m>>], CancelBypass(v, m, r)
        PROVE  \A k \in Tokens : NoWorse(k)
    BY <1>0, <1>1, <1>7, QuietStepNoWorse DEF CancelBypass
  <1> QED BY <1>2, <1>3, <1>4, <1>5, <1>6, <1>7 DEF FundsStep

\* Only an early exit counts as a penalty.
LEMMA PenaltiesCount ==
    ASSUME NEW v \in Vaults, FundsStep(v)
    PROVE  UNCHANGED penalties \/ penalties' = [penalties EXCEPT ![v] = @ + 1]
  <1>1. ASSUME NEW m \in Members, NEW t, NEW amount, NEW answer,
               Deposit(v, m, t, amount, answer)
        PROVE  UNCHANGED penalties
    BY <1>1 DEF Deposit
  <1>2. ASSUME NEW m \in Members, NEW t, NEW amount, Withdraw(v, m, t, amount)
        PROVE  UNCHANGED penalties
    BY <1>2 DEF Withdraw
  <1>3. ASSUME NEW m \in Members, NEW t, NEW amount, WithdrawWithPenalty(v, m, t, amount)
        PROVE  penalties' = [penalties EXCEPT ![v] = @ + 1]
    BY <1>3 DEF WithdrawWithPenalty
  <1>4. ASSUME NEW m \in Members, NEW t, NEW amount, NEW skip, RequestBypass(v, m, t, amount, skip)
        PROVE  UNCHANGED penalties
    BY <1>4 DEF RequestBypass
  <1>5. ASSUME NEW m \in Members, NEW t, ClaimPenaltyRewards(v, m, t)
        PROVE  UNCHANGED penalties
    BY <1>5 DEF ClaimPenaltyRewards
  <1>6. ASSUME NEW m \in Members, NEW r, ExecuteBypass(v, m, r) \/ CancelBypass(v, m, r)
        PROVE  UNCHANGED penalties
    BY <1>6 DEF ExecuteBypass, CancelBypass
  <1> QED BY <1>1, <1>2, <1>3, <1>4, <1>5, <1>6 DEF FundsStep

\* ... and no step at all.
LEMMA StepNoWorse ==
    ASSUME ~EarningDeployed, VaultInv, [VaultNext]_vars
    PROVE  /\ \A k \in Tokens : NoWorse(k)
           /\ Dust' \in Nat
  <1>0. /\ FundsInv /\ BypassOK /\ BooksOK /\ CountsOK
        /\ Interest \subseteq Nat /\ Losses \subseteq Nat
    BY VaultAssumption DEF VaultInv, FundsInv
  <1>1. ASSUME UNCHANGED penalties
        PROVE  Dust' \in Nat /\ Dust' >= Dust
    BY <1>0, <1>1, DustNext
  <1>2. ASSUME UNCHANGED <<books, market, penalties>>
        PROVE  \A k \in Tokens : NoWorse(k)
    BY <1>0, <1>1, <1>2, QuietStepNoWorse
  <1>3. ASSUME NEW v \in Vaults, LifeStep(v)
        PROVE  (\A k \in Tokens : NoWorse(k)) /\ Dust' \in Nat
    <2>1. /\ (\E m \in Members : LeaveVault(v, m)) \/ UNCHANGED books
          /\ UNCHANGED <<market, penalties>>
      BY <1>3 DEF LifeStep, CreateVault, AddAcceptedToken, JoinVault, LeaveVault, ChangeRules,
         vaultVars
    <2> QED BY <1>0, <1>1, <1>2, <2>1, LeavingNoWorse
  <1>4. ASSUME VaultTick \/ UNCHANGED vars \/ (\E m \in Freezable : Elsewhere(m))
        PROVE  UNCHANGED <<books, market, penalties>>
    BY <1>4 DEF VaultTick, vaultVars, vars, Elsewhere
  <1>5. ASSUME NEW v \in Vaults, EarningStep(v)
        PROVE  UNCHANGED <<books, market, penalties>>
    <2>1. PICK t \in Tokens : \E c : Arranged(v, t, c)
      BY <1>0, <1>5, EarningArranges
    <2>2. PICK c : Arranged(v, t, c)
      BY <2>1
    <2>3. books' = [books EXCEPT ![t] = books[t]]
      BY <2>2 DEF Arranged, Post
    <2>4. books = [k \in Tokens |-> books[k]]
      BY <1>0 DEF BooksOK
    <2>5. UNCHANGED books
      BY <2>3, <2>4
    <2>6. UNCHANGED <<market, penalties>>
      BY <1>5 DEF EarningStep, SetYieldMode, CompoundYield, AccrueYield, RealizeFees
    <2> QED BY <2>5, <2>6
  <1>6. ASSUME NEW v \in Vaults, FundsStep(v)
        PROVE  (\A k \in Tokens : NoWorse(k)) /\ Dust' \in Nat
    <2>1. UNCHANGED penalties \/ penalties' = [penalties EXCEPT ![v] = @ + 1]
      BY <1>6, PenaltiesCount
    <2>2. Dust' \in Nat
      BY <1>0, <2>1, DustNext
    <2> QED BY <1>0, <1>6, <2>2, FundsNoWorse
  <1>7. ASSUME NEW t \in Tokens, SweepFees(t)
        PROVE  (\A k \in Tokens : NoWorse(k)) /\ Dust' \in Nat
    <2>1. UNCHANGED penalties
      BY <1>7 DEF SweepFees
    <2> QED BY <1>0, <1>1, <1>7, <2>1, SweepNoWorse
  <1>8. ASSUME NEW t \in Tokens, NEW amount \in Nat, Earn(t, amount) \/ Lose(t, amount)
        PROVE  (\A k \in Tokens : NoWorse(k)) /\ Dust' \in Nat
    <2>1. UNCHANGED penalties
      BY <1>8 DEF Earn, Lose
    <2>2. \E c : Fluctuated(t, c, amount, 0) \/ Fluctuated(t, c, 0, amount)
      BY <1>0, <1>8, MarketFluctuates
    <2>3. 0 \in Nat
      OBVIOUS
    <2> QED BY <1>0, <1>1, <2>1, <2>2, <2>3, FluctuationNoWorse
  <1>9. ASSUME UNCHANGED <<books, market, penalties>>
        PROVE  (\A k \in Tokens : NoWorse(k)) /\ Dust' \in Nat
    BY <1>1, <1>2, <1>9
  <1> QED BY <1>0, <1>3, <1>4, <1>5, <1>6, <1>7, <1>8, <1>9 DEF VaultNext

\* What is owed of every token is there or was lost, or is a rounding.
AllCovered ==
    \A t \in Tokens : Owed(books[t]) <= books[t].held + books[t].pool + market[t].lost + Dust

\* So what was covered stays covered.
LEMMA CoveredNext ==
    ASSUME ~EarningDeployed, VaultInv, VaultInv', [VaultNext]_vars, AllCovered
    PROVE  AllCovered'
  <1> SUFFICES ASSUME NEW t \in Tokens
               PROVE  Owed(books'[t]) <= books'[t].held + books'[t].pool + market'[t].lost + Dust'
    BY DEF AllCovered
  <1> DEFINE b == books[t]
             c == books'[t]
             gone == market[t].lost
             lost == market'[t].lost
             dust == Dust
             later == Dust'
  <1>1. b \in Books /\ c \in Books /\ gone \in Nat /\ lost \in Nat
    BY DEF VaultInv, FundsInv, BooksOK, BookOK, LedgerOK, CountsOK
  <1>2. dust \in Nat /\ later \in Nat
    BY StepNoWorse, DustType DEF VaultInv, FundsInv
  <1>3. Missing(c) - lost - later <= Missing(b) - gone - dust
    BY StepNoWorse DEF NoWorse
  <1>4. Owed(b) <= b.held + b.pool + gone + dust
    BY DEF AllCovered
  <1> HIDE DEF b, c, gone, lost, dust, later
  <1>5. /\ Owed(b) \in Nat /\ b.held \in Nat /\ b.pool \in Nat
        /\ Owed(c) \in Nat /\ c.held \in Nat /\ c.pool \in Nat
    BY <1>1, OwedTypes DEF Books
  <1>6. Owed(c) <= c.held + c.pool + lost + later
    BY <1>1, <1>2, <1>3, <1>4, <1>5 DEF Missing
  <1> QED BY <1>6 DEF c, lost, later

\* In books without entries nothing is owed.
LEMMA NothingOwed == VaultInit => AllCovered
  <1> SUFFICES ASSUME VaultInit, NEW t \in Tokens
               PROVE  Owed(books[t]) <= books[t].held + books[t].pool + market[t].lost + Dust
    BY DEF AllCovered
  <1> DEFINE b == books[t]
  <1>1. /\ b \in Books /\ market[t].lost = 0 /\ b.held = 0 /\ b.pool = 0
        /\ \A v \in Vaults, m \in Members :
              /\ b.total[v] = 0 /\ b.position[v].owed = 0 /\ b.position[v].fees = 0
              /\ b.unclaimed[v][m] = 0 /\ b.accPenalty[v] = 0
    <2>1. b = EmptyBooks
      BY DEF VaultInit
    <2>2. EmptyBooks \in Books
      BY DEF EmptyBooks, Books, Position
    <2>3. /\ EmptyBooks.held = 0 /\ EmptyBooks.pool = 0
          /\ \A v \in Vaults, m \in Members :
                /\ EmptyBooks.total[v] = 0 /\ EmptyBooks.position[v].owed = 0
                /\ EmptyBooks.position[v].fees = 0
                /\ EmptyBooks.unclaimed[v][m] = 0 /\ EmptyBooks.accPenalty[v] = 0
      BY DEF EmptyBooks
    <2>4. market[t].lost = 0
      BY DEF VaultInit
    <2> HIDE DEF b
    <2> QED BY <2>1, <2>2, <2>3, <2>4
  <1>2. CountsOK
    BY DEF VaultInit, CountsOK
  <1>3. Dust \in Nat
    BY <1>2, DustType
  <1> HIDE DEF b
  <1>4. ASSUME NEW v \in Vaults PROVE OwedIn(b, v) = 0
    <2>1. \A m \in Members : RewardsOf(b, v)[m] = 0
      <3> SUFFICES ASSUME NEW m \in Members PROVE RewardsOf(b, v)[m] = 0
        OBVIOUS
      <3>1. PendingPenalty(b, v, m) = 0 /\ b.unclaimed[v][m] = 0
        BY <1>1, PenaltyTypes
      <3> QED BY <3>1 DEF RewardsOf, Reward
    <2>2. RewardsIn(b, v) = 0
      BY <2>1, SumZero, VaultAssumption DEF RewardsIn
    <2>3. CreatorOf[v] \in Members
      BY CreatorsAreMembers
    <2>4. b.total[v] = 0 /\ b.position[v].owed = 0 /\ b.position[v].fees = 0
      BY <1>1, <2>3
    <2>5. OwedIn(b, v) = b.total[v] + b.position[v].owed + b.position[v].fees + RewardsIn(b, v)
      BY <1>1, OwedTypes
    <2> QED BY <2>2, <2>4, <2>5
  <1> DEFINE f == [v \in Vaults |-> OwedIn(b, v)]
  <1>5. Owed(b) = 0
    <2>1. \A v \in Vaults : f[v] = 0
      BY <1>4
    <2>2. Owed(b) = SumFunctionOnSet(f, Vaults)
      BY DEF Owed
    <2> HIDE DEF f
    <2> QED BY <2>1, <2>2, SumZero, VaultAssumption
  <1>6. Owed(b) <= b.held + b.pool + market[t].lost + Dust
    BY <1>1, <1>3, <1>5
  <1> QED BY <1>6 DEF b

\* Where nothing earns, all that is owed is covered in every state.
LEMMA CoveredWithoutEarning ==
    ASSUME ~EarningDeployed
    PROVE  VaultSpec => []AllCovered
  <1>1. VaultInit => AllCovered
    BY NothingOwed
  <1>2. VaultInv /\ VaultInv' /\ [VaultNext]_vars /\ AllCovered => AllCovered'
    BY CoveredNext
  <1> QED BY <1>1, <1>2, VaultInvariant, PTL DEF VaultSpec

-----------------------------------------------------------------------------
(* A personal vault alone in the strategy.                                 *)

\* The strategy serves one vault, and nobody shares it.
OnePersonalVault == Community = {} /\ \A u, v \in Vaults : u = v

\* What the vault owes is there or was lost, and there are no penalties.
Alone(b, v, lost) ==
    /\ Backed(b, v, lost)
    /\ b.accPenalty[v] = 0 /\ \A m \in Members : b.unclaimed[v][m] = 0

\* In every token.
AllAlone == \A t \in Tokens, v \in Vaults : Alone(books[t], v, market[t].lost)

\* Where a member's transaction keeps the backing it keeps all of it.
LEMMA TransactedAlone ==
    ASSUME NEW b \in Books, NEW c, NEW v \in Vaults, NEW m \in Members, NEW x, NEW y,
           NEW lost \in Nat, Transacted(b, c, v, m, x, y), c.accPenalty = b.accPenalty,
           KeepsBacking(b, c, v), Alone(b, v, lost)
    PROVE  Alone(c, v, lost)
  <1>1. Backed(c, v, lost)
    BY DEF Alone, KeepsBacking
  <1>2. c.accPenalty[v] = 0
    BY DEF Alone
  <1>3. ASSUME NEW n \in Members PROVE c.unclaimed[v][n] = 0
    <2>1. CASE n # m
      <3>1. c.unclaimed[v][n] = b.unclaimed[v][n]
        BY <2>1 DEF Transacted
      <3> QED BY <3>1 DEF Alone
    <2>2. CASE n = m
      <3>1. PendingPenalty(b, v, m) = 0 /\ b.unclaimed[v][m] = 0
        BY PenaltyTypes DEF Alone
      <3>2. c.unclaimed[v][m] = Reward(b, v, m)
        BY DEF Transacted
      <3> QED BY <2>2, <3>1, <3>2 DEF Reward
    <2> QED BY <2>1, <2>2
  <1> QED BY <1>1, <1>2, <1>3 DEF Alone

\* Only the transaction's token and the one vault change.
LEMMA OneAlone ==
    ASSUME BooksOK, AllAlone, OnePersonalVault, NEW v \in Vaults, NEW t \in Tokens, NEW c,
           Post(t, c), Alone(c, v, market'[t].lost),
           \A k \in Tokens \ {t} : market'[k] = market[k]
    PROVE  AllAlone'
  <1> SUFFICES ASSUME NEW k \in Tokens, NEW u \in Vaults
               PROVE  Alone(books'[k], u, market'[k].lost)
    BY DEF AllAlone, Alone, Backed
  <1>1. Books1(t, c) /\ u = v
    BY PostIsOne DEF OnePersonalVault
  <1>2. CASE k = t
    BY <1>1, <1>2 DEF Books1
  <1>3. CASE k # t
    <2>1. Alone(books[k], u, market[k].lost)
      BY DEF AllAlone
    <2>2. books'[k] = books[k] /\ market'[k] = market[k]
      BY <1>1, <1>3 DEF Books1
    <2> QED BY <2>1, <2>2
  <1> QED BY <1>2, <1>3

\* Nothing is lost while books and market stay.
LEMMA QuietAlone ==
    ASSUME AllAlone, UNCHANGED <<books, market>>
    PROVE  AllAlone'
  BY DEF AllAlone, Alone, Backed

\* Payments and deposits keep the backing, ...
LEMMA PaymentAlone ==
    ASSUME FundsInv, AllAlone, OnePersonalVault, NEW v \in Vaults, NEW m \in Members,
           NEW t \in Tokens, NEW amount, NEW c,
           Payment(v, m, t, amount, c) \/ Placed(v, m, t, amount, c), UNCHANGED market
    PROVE  AllAlone'
  <1> DEFINE b == books[t]
             lost == market[t].lost
             x == -amount
  <1>1. BooksOK /\ Post(t, c) /\ b \in Books /\ lost \in Nat
    BY DEF FundsInv, BooksOK, BookOK, LedgerOK, CountsOK, Payment, Placed
  <1>2. /\ Transacted(b, c, v, m, x, x) \/ Transacted(b, c, v, m, amount, amount)
        /\ c.accPenalty = b.accPenalty /\ KeepsBacking(b, c, v)
    BY DEF Payment, Placed
  <1>3. Alone(b, v, lost)
    BY DEF AllAlone
  <1> HIDE DEF b, x, lost
  <1>4. Alone(c, v, lost)
    BY <1>1, <1>2, <1>3, TransactedAlone
  <1> QED BY <1>1, <1>4, OneAlone DEF lost

\* ... the market counts what it takes, ...
LEMMA FluctuationAlone ==
    ASSUME FundsInv, AllAlone, OnePersonalVault, NEW t \in Tokens, NEW earned \in Nat,
           NEW lost \in Nat, NEW c, Fluctuated(t, c, earned, lost)
    PROVE  AllAlone'
  <1> DEFINE b == books[t]
             gone == market[t].lost
  <1>1. BooksOK /\ CountsOK /\ Post(t, c) /\ b \in Books /\ c \in Books
    BY DEF Fluctuated, FundsInv, BooksOK, BookOK, LedgerOK, ReheldAs
  <1>2. /\ market'[t].lost = gone + lost /\ gone \in Nat
        /\ \A k \in Tokens \ {t} : market'[k] = market[k]
    BY <1>1 DEF Fluctuated, CountsOK
  <1>3. /\ c.held = b.held /\ c.pool = b.pool + earned - lost /\ c.poolShares = b.poolShares
        /\ c.total = b.total /\ c.position = b.position
        /\ c.accPenalty = b.accPenalty /\ c.unclaimed = b.unclaimed
    BY DEF Fluctuated, ReheldAs, YieldKept, BalancesKept, PenaltiesKept
  <1> HIDE DEF b, gone
  <1>4. ASSUME NEW v \in Vaults PROVE Alone(c, v, gone + lost)
    <2>1. Alone(b, v, gone)
      BY DEF AllAlone, b, gone
    <2> DEFINE owed == b.total[v] + b.position[v].owed + b.position[v].fees
               held == b.held
               pool == b.pool
    <2>2. /\ owed <= held + pool + gone /\ held \in Nat /\ pool \in Nat /\ owed \in Nat
      BY <1>1, <2>1 DEF Alone, Backed, Books, Position
    <2>3. c.total[v] + c.position[v].owed + c.position[v].fees = owed
          /\ c.held = held /\ c.pool = pool + earned - lost
      BY <1>3
    <2> HIDE DEF owed, held, pool
    <2>4. c.total[v] + c.position[v].owed + c.position[v].fees
             <= c.held + c.pool + (gone + lost)
      BY <1>2, <2>2, <2>3
    <2> QED BY <1>3, <2>1, <2>4 DEF Alone, Backed
  <1>5. ASSUME NEW v \in Vaults PROVE AllAlone'
    <2>1. Alone(c, v, market'[t].lost)
      BY <1>2, <1>4
    <2> QED BY <1>1, <1>2, <2>1, OneAlone
  <1>6. CASE Vaults = {}
    BY <1>6 DEF AllAlone
  <1> QED BY <1>5, <1>6

\* ... what the yield module holds backs nothing, ...
LEMMA SweepAlone ==
    ASSUME FundsInv, AllAlone, OnePersonalVault, NEW t \in Tokens, SweepFees(t)
    PROVE  AllAlone'
  <1>1. PICK c : Post(t, c) /\ ReheldAs(books[t], c, 0, books[t].pool)
    BY SweepReholds
  <1>2. BooksOK /\ UNCHANGED market
    BY DEF FundsInv, SweepFees
  <1>3. ASSUME NEW v \in Vaults PROVE Alone(c, v, market'[t].lost)
    <2>1. Alone(books[t], v, market[t].lost)
      BY DEF AllAlone
    <2> QED BY <1>1, <1>2, <2>1 DEF Alone, Backed, ReheldAs, BalancesKept, PenaltiesKept,
               YieldKept
  <1>4. CASE Vaults = {}
    BY <1>4 DEF AllAlone
  <1> QED BY <1>1, <1>2, <1>3, <1>4, OneAlone

\* ... the earning side promises no more than there is, ...
LEMMA EarningAlone ==
    ASSUME FundsInv, AllAlone, OnePersonalVault, NEW v \in Vaults, EarningStep(v)
    PROVE  AllAlone'
  <1>1. PICK t \in Tokens : \E c : Arranged(v, t, c)
    BY EarningArranges
  <1>2. PICK c : Arranged(v, t, c)
    BY <1>1
  <1>3. BooksOK /\ UNCHANGED market /\ market[t].lost \in Nat
    BY DEF FundsInv, CountsOK, EarningStep, SetYieldMode, CompoundYield, AccrueYield, RealizeFees
  <1>4. Alone(books[t], v, market[t].lost)
    BY DEF AllAlone
  <1>5. Alone(c, v, market[t].lost)
    BY <1>2, <1>3, <1>4 DEF Arranged, Alone, PenaltiesKept, KeepsBacking
  <1> QED BY <1>2, <1>3, <1>5, OneAlone DEF Arranged

\* ... and a personal vault shares no penalty.
LEMMA FundsAlone ==
    ASSUME FundsInv, BypassOK, AllAlone, OnePersonalVault, NEW v \in Vaults, FundsStep(v)
    PROVE  AllAlone'
  <1>0. Sums \subseteq Nat
    BY VaultAssumption
  <1>1. ASSUME NEW m \in Members, NEW t \in Tokens, NEW amount \in Sums,
               \/ \E answer \in Answers : Deposit(v, m, t, amount, answer)
               \/ Withdraw(v, m, t, amount)
               \/ WithdrawWithPenalty(v, m, t, amount)
        PROVE  AllAlone'
    <2>1. amount \in Nat /\ v \notin Community
      BY <1>0 DEF OnePersonalVault
    <2>2. \E c : Payment(v, m, t, amount, c) \/ Placed(v, m, t, amount, c)
      BY <1>1, <2>1, DepositIsPlaced, WithdrawIsPayment, PenaltyIsExit DEF EarlyExit
    <2>3. UNCHANGED market
      BY <1>1 DEF Deposit, Withdraw, WithdrawWithPenalty
    <2> QED BY <2>2, <2>3, PaymentAlone
  <1>2. ASSUME NEW m \in Members, NEW t \in Tokens, NEW amount \in Sums, NEW skip \in Names,
               RequestBypass(v, m, t, amount, skip)
        PROVE  AllAlone'
    BY <1>2, QuietAlone DEF RequestBypass
  <1>3. ASSUME NEW m \in Members, NEW t \in Tokens, ClaimPenaltyRewards(v, m, t)
        PROVE  FALSE
    <2>1. Reward(books[t], v, m) > 0 /\ books[t] \in Books
      BY <1>3, ClaimIsClaimed DEF FundsInv, BooksOK, BookOK, LedgerOK
    <2>2. Alone(books[t], v, market[t].lost)
      BY DEF AllAlone
    <2>3. PendingPenalty(books[t], v, m) = 0 /\ books[t].unclaimed[v][m] = 0
      BY <2>1, <2>2, PenaltyTypes DEF Alone
    <2> QED BY <2>1, <2>3 DEF Reward
  <1>4. ASSUME NEW m \in Members, NEW r \in bypass[<<v, m>>], ExecuteBypass(v, m, r)
        PROVE  AllAlone'
    <2>1. r.token \in Tokens /\ BypassAmount(v, r) \in Nat
      BY <1>4, RequestTypes
    <2>2. \E c : Payment(v, m, r.token, BypassAmount(v, r), c)
      BY <1>4, <2>1, BypassIsPayment
    <2>3. UNCHANGED market
      BY <1>4 DEF ExecuteBypass
    <2> QED BY <2>1, <2>2, <2>3, PaymentAlone
  <1>5. ASSUME NEW m \in Members, NEW r \in bypass[<<v, m>>], CancelBypass(v, m, r)
        PROVE  AllAlone'
    BY <1>5, QuietAlone DEF CancelBypass
  <1> QED BY <1>1, <1>2, <1>3, <1>4, <1>5 DEF FundsStep

\* So every step keeps it, ...
LEMMA AloneNext ==
    ASSUME OnePersonalVault, VaultInv, [VaultNext]_vars, AllAlone
    PROVE  AllAlone'
  <1>0. FundsInv /\ BypassOK /\ MembershipOK /\ Interest \subseteq Nat /\ Losses \subseteq Nat
    BY VaultAssumption DEF VaultInv, FundsInv
  <1>1. ASSUME NEW v \in Vaults, LifeStep(v)
        PROVE  UNCHANGED <<books, market>>
    <2>1. ASSUME NEW m \in Members, LeaveVault(v, m) PROVE FALSE
      <3>1. members[v] \subseteq {CreatorOf[v]}
        BY <1>0 DEF MembershipOK, Personal, OnePersonalVault
      <3> QED BY <2>1, <3>1 DEF LeaveVault
    <2> QED BY <1>1, <2>1 DEF LifeStep, CreateVault, AddAcceptedToken, JoinVault, ChangeRules,
               vaultVars
  <1>2. ASSUME VaultTick \/ UNCHANGED vars \/ (\E m \in Freezable : Elsewhere(m))
        PROVE  UNCHANGED <<books, market>>
    BY <1>2 DEF VaultTick, vaultVars, vars, Elsewhere
  <1>3. ASSUME NEW t \in Tokens, NEW amount \in Nat, Earn(t, amount) \/ Lose(t, amount)
        PROVE  AllAlone'
    <2>1. \E c : Fluctuated(t, c, amount, 0) \/ Fluctuated(t, c, 0, amount)
      BY <1>0, <1>3, MarketFluctuates
    <2>2. 0 \in Nat
      OBVIOUS
    <2> QED BY <1>0, <2>1, <2>2, FluctuationAlone
  <1> QED BY <1>0, <1>1, <1>2, <1>3, QuietAlone, FundsAlone, EarningAlone, SweepAlone
       DEF VaultNext

\* ... and it holds at the start.
LEMMA AloneStart == VaultInit => AllAlone
  <1> SUFFICES ASSUME VaultInit, NEW t \in Tokens, NEW v \in Vaults
               PROVE  Alone(EmptyBooks, v, 0)
    BY DEF VaultInit, AllAlone
  <1>1. /\ EmptyBooks.held = 0 /\ EmptyBooks.pool = 0 /\ EmptyBooks.poolShares = 0
        /\ EmptyBooks.total[v] = 0 /\ EmptyBooks.position[v].owed = 0
        /\ EmptyBooks.position[v].fees = 0 /\ EmptyBooks.position[v].shares = 0
        /\ EmptyBooks.accPenalty[v] = 0
        /\ \A m \in Members : EmptyBooks.unclaimed[v][m] = 0
    BY DEF EmptyBooks
  <1> QED BY <1>1 DEF Alone, Backed

\* What backs the vault covers what is owed: the rewards are nothing.
LEMMA AloneIsCovered ==
    ASSUME OnePersonalVault, VaultInv, AllAlone
    PROVE  AllCovered
  <1> SUFFICES ASSUME NEW t \in Tokens
               PROVE  Owed(books[t]) <= books[t].held + books[t].pool + market[t].lost + Dust
    BY DEF AllCovered
  <1> DEFINE b == books[t]
             f == [v \in Vaults |-> OwedIn(b, v)]
             gone == market[t].lost
  <1>1. b \in Books /\ gone \in Nat /\ Dust \in Nat /\ b.held \in Nat /\ b.pool \in Nat
    BY DustType DEF VaultInv, FundsInv, BooksOK, BookOK, LedgerOK, CountsOK, Books
  <1>2. Owed(b) = SumFunctionOnSet(f, Vaults)
    BY DEF Owed
  <1>3. CASE Vaults = {}
    <2>1. Owed(b) = 0
      BY <1>2, <1>3, SumEmpty
    <2> HIDE DEF b, gone
    <2>2. Owed(b) <= b.held + b.pool + gone + Dust
      BY <1>1, <2>1
    <2> QED BY <2>2 DEF b, gone
  <1>4. ASSUME NEW v \in Vaults
        PROVE  Owed(b) <= b.held + b.pool + gone + Dust
    <2>1. Alone(b, v, gone)
      BY DEF AllAlone
    <2> HIDE DEF b, gone
    <2>2. RewardsIn(b, v) = 0
      <3>1. \A m \in Members : RewardsOf(b, v)[m] = 0
        <4> SUFFICES ASSUME NEW m \in Members PROVE RewardsOf(b, v)[m] = 0
          OBVIOUS
        <4>1. PendingPenalty(b, v, m) = 0 /\ b.unclaimed[v][m] = 0
          BY <1>1, <2>1, PenaltyTypes DEF Alone
        <4> QED BY <4>1 DEF RewardsOf, Reward
      <3> QED BY <3>1, SumZero, VaultAssumption DEF RewardsIn
    <2>3. Owed(b) = OwedIn(b, v)
      <3>1. \A u \in Vaults : f[u] \in Int
        <4> SUFFICES ASSUME NEW u \in Vaults PROVE f[u] \in Int
          OBVIOUS
        <4>1. OwedIn(b, u) \in Nat
          BY <1>1, OwedTypes
        <4> QED BY <4>1
      <3>2. Vaults \ {v} = {}
        BY DEF OnePersonalVault
      <3>3. f[v] = OwedIn(b, v) /\ OwedIn(b, v) \in Nat
        BY <1>1, OwedTypes
      <3> HIDE DEF f
      <3>4. SumFunctionOnSet(f, Vaults) = f[v] + SumFunctionOnSet(f, Vaults \ {v})
        BY <3>1, SumRemove, VaultAssumption
      <3> QED BY <1>2, <3>2, <3>3, <3>4, SumEmpty
    <2>4. OwedIn(b, v) = b.total[v] + b.position[v].owed + b.position[v].fees + RewardsIn(b, v)
      BY <1>1, OwedTypes
    <2>5. b.total[v] + b.position[v].owed + b.position[v].fees <= b.held + b.pool + gone
      BY <2>1 DEF Alone, Backed
    <2>6. b.total[v] \in Nat /\ b.position[v].owed \in Nat /\ b.position[v].fees \in Nat
      BY <1>1, OwedTypes
    <2> QED BY <1>1, <2>2, <2>3, <2>4, <2>5, <2>6
  <1> QED BY <1>3, <1>4

\* A personal vault alone in the strategy is covered in every state.
LEMMA CoveredAlone ==
    ASSUME OnePersonalVault
    PROVE  VaultSpec => []AllCovered
  <1>1. VaultInit => AllAlone
    BY AloneStart
  <1>2. VaultInv /\ [VaultNext]_vars /\ AllAlone => AllAlone'
    BY AloneNext
  <1>3. VaultInv /\ AllAlone => AllCovered
    BY AloneIsCovered
  <1> QED BY <1>1, <1>2, <1>3, VaultInvariant, PTL DEF VaultSpec

\* What members, positions and the treasury are owed of a token is in the contracts or
\* the strategy, but for what the market lost and a unit of rounding for each penalty
\* and member; where nothing earns, for any vaults, and with earning for one personal
\* vault.  Elsewhere it can fail: compoundYield raises a balance whose penalties were
\* not settled, so that the member is owed penalties on the yield; and after a loss one
\* of several vaults in a strategy is paid with the shares of the others.
THEOREM CoveredProof ==
    ASSUME ~EarningDeployed \/ OnePersonalVault
    PROVE  VaultSpec => []MembersCovered
  <1>1. VaultSpec => []AllCovered
    BY CoveredWithoutEarning, CoveredAlone
  <1>2. VaultTypeOK /\ AllCovered => MembersCovered
    BY DEF AllCovered, MembersCovered
  <1> QED BY <1>1, <1>2, VaultTypeCorrect, PTL
=============================================================================
