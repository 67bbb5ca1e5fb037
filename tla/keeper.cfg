SPECIFICATION KeeperSpec
CONSTANTS
  club = club
  ann = ann
  ben = ben
  usdt = usdt
  dai = dai
  one = one
  two = two
  nobody = nobody
  Vaults = {club}
  Seats = {ann, ben}
  VaultOf <- MCVaultOf
  TokenOrder <- MCTokenOrder
  FirstAccepted <- MCFirstAccepted
  Bounds <- MCBounds
  Keepers = {one, two}
  Nobody = nobody
  MinGas = 1
PROPERTY DeployPaysOff
PROPERTY DepositsLand
