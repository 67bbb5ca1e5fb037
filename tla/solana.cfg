SPECIFICATION SolanaSpec
CONSTANTS
  ann = ann
  ben = ben
  cat = cat
  exchange = exchange
  Nobody = Nobody
  Members = {ann, ben, cat}
  Destinations = {ann, exchange}
  DAILY_DURATION = 2
  WEEKLY_DURATION = 3
  MONTHLY_DURATION = 4
  PROPOSAL_TIMELOCK = 1
  WITHDRAWAL_DESTINATION_TIMELOCK = 1
  BYPASS_REQUEST_TIMELOCK = 1
  PRECISION = 1000
  MAX_BPS = 10
  MAX_PENALTY_BPS = 5
  Bounds <- MCBounds
INVARIANT OwedIsCovered
INVARIANT TwoLimitsPerStretch
PROPERTY OutflowHasAReason
PROPERTY LeavingForfeitsNothing
PROPERTY RulesStaySound
CHECK_DEADLOCK FALSE
