SPECIFICATION VaultSpec
CONSTANTS
  ann = ann
  ben = ben
  cat = cat
  club = club
  own = own
  usdt = usdt
  gusd = gusd
  dai = dai
  daily = daily
  CreatorOf <- MCCreatorOf
  MaxHeld <- MCMaxHeld
  Up <- MCUp
  Down <- MCDown
  Members = {ann, ben, cat}
  Vaults = {club}
  Community = {club}
  Stables = {club}
  PenaltyPrecision = 50
  YieldPrecision = 12
  FeeBps = 1
  FeeScale = 8
  EarningDeployed = FALSE
  Roundings = {0}
  PenaltyBps = 1
  Tokens = {usdt, dai}
  Sums = {12}
  Interest = {}
  Losses = {}
  Freezable = {}
  MaxPenalties = 2
  MaxInterest = 4
  MaxLoss = 0
  MaxBypasses = 0
  Names = {daily}
  Limits = {12}
  Durations = {1}
  Delays = {1}
  Amounts = {6, 12}
  Balances = {12, 24, 36}
  MinUnlockDelay = 1
  DefaultUnlockDelay = 1
  MaxUnlockDelay = 1
  MinPeriodDuration = 1
  MaxBps = 2
  MaxTime = 0
  MaxProposals = 0
SYMMETRY Symmetry
INVARIANT MembersCovered
PROPERTY RewardsComeFromLeavers
PROPERTY ImplementsRules
