SPECIFICATION VaultSpec
CONSTANTS
  ann = ann
  ben = ben
  cat = cat
  club = club
  own = own
  usdt = usdt
  gusd = gusd
  dai = dai
  daily = daily
  CreatorOf <- MCCreatorOf
  MaxHeld <- MCMaxHeld
  Up <- MCUp
  Down <- MCDown
  Members = {ann}
  Vaults = {own}
  Community = {}
  Stables = {own}
  PenaltyPrecision = 12
  YieldPrecision = 12
  FeeBps = 1
  FeeScale = 2
  EarningDeployed = TRUE
  Roundings = {0, 1}
  PenaltyBps = 1
  Tokens = {gusd}
  Sums = {2}
  Interest = {2}
  Losses = {2}
  Freezable = {ann}
  MaxPenalties = 1
  MaxInterest = 2
  MaxLoss = 2
  MaxBypasses = 1
  Names = {daily}
  Limits = {4}
  Durations = {1}
  Delays = {1}
  Amounts = {4}
  Balances = {4}
  MinUnlockDelay = 1
  DefaultUnlockDelay = 1
  MaxUnlockDelay = 1
  MinPeriodDuration = 1
  MaxBps = 2
  MaxTime = 1
  MaxProposals = 1
CONSTRAINT CalmFreeze RoundedOnce
INVARIANT MembersCovered
PROPERTY OutflowHasAReason
