SPECIFICATION HistorySpec
CONSTANTS
  alice = alice
  bob = bob
  cold = cold
  nobody = nobody
  Users = {alice, bob, cold}
  Owners = {alice, bob}
  ColdKeys = {alice, bob, cold}
  AskedKeys = {alice, bob, cold, nobody}
  NoKey = nobody
  KeyChangeDelay = 2
  MaxTime = 3
SYMMETRY Symmetry
INVARIANT ProposedUnderProtection
PROPERTY RecoveryIsFinal
PROPERTY NoticeIsServed
PROPERTY FrozenAccountKeyIsPowerless
