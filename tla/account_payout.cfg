SPECIFICATION AccountSpec
CONSTANTS
  alice = alice
  bob = bob
  carol = carol
  cold = cold
  nobody = nobody
  daily = daily
  weekly = weekly
  usdt = usdt
  dai = dai
  gusd = gusd
  shop = shop
  home = home
  NoKey = nobody
  Up <- MCUp
  Down <- MCDown
  PersonalScopes = {}
  Founders = {}
  Joiners = {}
  Balances = {0}
  MinPeriodDuration = 1
  MaxBps = 2
  Accounts = {alice}
  Users = {alice, cold}
  ColdKeys = {}
  AskedKeys = {}
  Names = {daily}
  Limits = {2}
  Durations = {1}
  Delays = {1}
  Amounts = {0, 1, 2, 3, 4, 6}
  Sums = {2}
  Tokens = {usdt}
  MaxHeld = 3
  MaxBypasses = 1
  KeyChangeDelay = 1
  Destinations = {}
  Titles = {home}
  AddressDelay = 1
  MaxRequests = 1
  MaxEntries = 1
  MinUnlockDelay = 1
  DefaultUnlockDelay = 1
  MaxUnlockDelay = 1
  MaxTime = 1
  MaxProposals = 0
INVARIANT MaturedBypassPays
