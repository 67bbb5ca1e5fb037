SPECIFICATION PageSpec
CONSTANTS
  savings = savings
  pot = pot
  usdt = usdt
  usdc = usdc
  Vaults = {savings, pot}
  Own = savings
  Takes <- MCTakes
  Coins = {usdt, usdc}
  Switchable = {savings}
  Deployed = {savings}
  Picky = {usdt}
  Nothing = nothing
  Slots = {1, 2}
  Bounds <- MCBounds
CHECK_DEADLOCK FALSE
INVARIANT EveryCoin
INVARIANT NothingLeftApproved
INVARIANT SectionsFollowTheVault
INVARIANT RestsOnTheSelectedVault
INVARIANT ActsOnWhatWasPressed
PROPERTY DepositComesBack
