SPECIFICATION SessionSpec
CONSTANTS
  ann = ann
  ben = ben
  pat = pat
  stranger = stranger
  nobody = nobody
  base = base
  optimism = optimism
  ethereum = ethereum
  ExtAccounts = {ann, ben}
  SmartAccount = pat
  Nobody = nobody
  Chains = {base, optimism, ethereum}
  Deployed = {base, optimism}
  Default = base
  Slots = {1, 2, 3}
  Bounds <- MCBounds
CHECK_DEADLOCK FALSE
INVARIANT RemembersRightly
INVARIANT LoggedOutStaysOut
INVARIANT KnowsItsVault
INVARIANT NoHalfConnectedProvider
PROPERTY ReconnectingEnds
