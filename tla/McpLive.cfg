\* One writer; two stateless requests that may carry the same ID; two goroutines that make
\* four calls of a client.
CONSTANTS
  Ticker = {t1, t2}
  Free = Free
  Req = {1, 2}
  Ident = {1, 2}
  Sid = {3}
  None = 0
  Goroutine = {g1, g2}
  MaxSession = 2
  MaxCalls = 4
SPECIFICATION MCSpec
CHECK_DEADLOCK FALSE
INVARIANTS
  NoWriteAfterReturn NoOrphan
PROPERTIES
  TeardownCompletes EventuallyClean LossIsReported ClientCallsReturn
