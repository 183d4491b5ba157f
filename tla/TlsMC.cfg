SPECIFICATION PartsSpec
CONSTANTS
  Plans <- MCPlans
  None = None
  sa = sa
  sb = sb
  v1 = v1
  v2 = v2
  Servers = {sa, sb}
  ClientSize = 2
  ServerSize = 3
  PerServer = 2
  Tickets <- MCTickets
  MaxLifetime = 2
  Skew = 1
  Ms = 4
  U32 = 12
  Configs = {v1, v2}
  MaxClock = 3
INVARIANTS
  CompatibleCompletes SidesAgree ReplayRefused TicketsWorthOffering
PROPERTIES NumbersAdvance
