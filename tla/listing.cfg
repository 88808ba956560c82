SPECIFICATION Spec
CONSTANTS
  Templates = {t1}
  Params = {p1}
  TTLs = {NoTTL, 1}
  NoTTL = NoTTL
  Limits <- MCLimits
  MaxCollisions = 0
  Names <- MCNames
  NameOf <- MCNameOf
  SpecHash <- MCSpecHash
  Slack = 3
  Items <- MCItems
  MaxListing = 3
  MaxClock = 4
INVARIANTS TypeOK TTLLoopFollowsRule HistoryLoopFollowsRule LatestLoopFollowsRule
CHECK_DEADLOCK FALSE
