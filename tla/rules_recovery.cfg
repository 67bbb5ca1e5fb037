SPECIFICATION WindowsSpec
CONSTANTS
  alice = alice
  bob = bob
  cora = cora
  dan = dan
  daily = daily
  pia = pia
  Accounts = {alice, bob}
  PersonalScopes = {}
  Founders = {}
  Joiners = {}
  Names = {daily}
  Limits = {1, 2}
  Durations = {0, 2}
  Delays = {0, 2}
  Amounts = {1}
  Balances = {0}
  MinUnlockDelay = 1
  DefaultUnlockDelay = 1
  MaxUnlockDelay = 2
  MinPeriodDuration = 1
  MaxBps = 2
  MaxTime = 2
  MaxProposals = 1
SYMMETRY Symmetry
INVARIANT CounterHoldsTheWindow
INVARIANT NoStretchSeesThreeLimits
PROPERTY LockInSurvives
PROPERTY RoomNeverGrowsForFree
PROPERTY LockedRulesChangeOnlyByProposal
