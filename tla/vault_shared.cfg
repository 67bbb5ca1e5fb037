SPECIFICATION VaultSpec
CONSTANTS
  ann = ann
  ben = ben
  cat = cat
  club = club
  own = own
  usdt = usdt
  gusd = gusd
  dai = dai
  daily = daily
  CreatorOf <- MCCreatorOf
  MaxHeld <- MCMaxHeld
  Up <- MCUp
  Down <- MCDown
  Members = {ann}
  Vaults = {own, club}
  Community = {club}
  Stables = {}
  PenaltyPrecision = 12
  YieldPrecision = 12
  FeeBps = 1
  FeeScale = 2
  EarningDeployed = TRUE
  Roundings = {0}
  PenaltyBps = 1
  Tokens = {usdt}
  Sums = {4}
  Interest = {}
  Losses = {4}
  Freezable = {}
  MaxPenalties = 1
  MaxInterest = 0
  MaxLoss = 4
  MaxBypasses = 0
  Names = {daily}
  Limits = {4}
  Durations = {1}
  Delays = {1}
  Amounts = {4}
  Balances = {4}
  MinUnlockDelay = 1
  DefaultUnlockDelay = 1
  MaxUnlockDelay = 1
  MinPeriodDuration = 1
  MaxBps = 2
  MaxTime = 0
  MaxProposals = 0
PROPERTY OwnFundsOnly
