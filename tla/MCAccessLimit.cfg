SPECIFICATION FairSpec
CONSTANTS
  x = x
  y = y
  Workers = {w1, w2}
  Creds = {x}
  Ips = {x, y}
  NoCred = NoCred
  TokenMax = 1
  CookieMax = 1
  IpMax = 1
  MaxFreq <- MCMaxFreq
  Second = 2
  BanExpire = 4
  CmdTicks = 1
  Plans <- AllPlans
  CountBound = 7
INVARIANTS CountersExpire OvershootBounded
PROPERTIES WindowFixed BanOnlyOverLimit BansEnd
