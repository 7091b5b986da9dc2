CONSTANTS
  Caller = {c1, c2}
  MinCallback = 2
  MinPort = 3
  MaxPort = 4
  MaxAttempts = 1
  Requests = {0, 4, 5}
  MaxForeign = 1
  Free = Free
  Foreign = Foreign
  Host <- MCHost
  MaxRedirects = 3
  User = {u1, u2, u3}
  Untouched = Untouched
  Connection = {k1, k2}
  TokenTTL = 2
  MaxClock = 5
SPECIFICATION MCSpec
CHECK_DEADLOCK FALSE
INVARIANTS
  PortAnswersAreTrue HopsStayGuarded TokenStaysOnHost ShutdownAccountsForAll
  AbortedIsUntouched CallersAgree TokensNeverExpire
