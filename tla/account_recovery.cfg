SPECIFICATION AccountSpec
CONSTANTS
  alice = alice
  bob = bob
  carol = carol
  cold = cold
  nobody = nobody
  daily = daily
  weekly = weekly
  usdt = usdt
  dai = dai
  gusd = gusd
  shop = shop
  home = home
  NoKey = nobody
  Up <- MCUp
  Down <- MCDown
  PersonalScopes = {}
  Founders = {}
  Joiners = {}
  Balances = {0}
  MinPeriodDuration = 1
  MaxBps = 2
  Accounts = {alice, bob}
  Users = {alice, bob, cold}
  ColdKeys = {cold}
  AskedKeys = {}
  Names = {daily}
  Limits = {2}
  Durations = {2}
  Delays = {1}
  Amounts = {0, 1, 2, 3, 4, 6}
  Sums = {1}
  Tokens = {gusd}
  MaxHeld = 1
  MaxBypasses = 1
  KeyChangeDelay = 1
  Destinations = {shop}
  Titles = {home}
  AddressDelay = 1
  MaxRequests = 1
  MaxEntries = 2
  MinUnlockDelay = 1
  DefaultUnlockDelay = 1
  MaxUnlockDelay = 1
  MaxTime = 1
  MaxProposals = 0
SYMMETRY Symmetry
CONSTRAINT LimitsOrAddresses
INVARIANT CoreCoversBalances
PROPERTY MeteredOrBypassed
PROPERTY FrozenMeansNoOutflow
PROPERTY FundsStayBound
PROPERTY ImplementsRules
PROPERTY NewDestinationServed
PROPERTY ImplementsAddresses
