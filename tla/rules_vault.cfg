SPECIFICATION WindowsSpec
CONSTANTS
  alice = alice
  bob = bob
  cora = cora
  dan = dan
  daily = daily
  pia = pia
  Accounts = {}
  PersonalScopes = {pia}
  Founders = {cora}
  Joiners = {dan}
  Names = {daily}
  Limits = {1, 2}
  Durations = {2}
  Delays = {1}
  Amounts = {1}
  Balances = {2}
  MinUnlockDelay = 1
  DefaultUnlockDelay = 1
  MaxUnlockDelay = 1
  MinPeriodDuration = 1
  MaxBps = 2
  MaxTime = 2
  MaxProposals = 1
INVARIANT MembersShareTheTerms
