\* Two workers and a pool registered after the first of them started; one property, which
\* the code does not keep.
SPECIFICATION Spec
CONSTANTS
  p1 = p1
  p2 = p2
  w1 = w1
  w2 = w2
  user = user
  Pools = {p1, p2}
  Workers = {w1, w2}
  Events <- LateEvents
  BalanceAt <- LateBalances
  MaxRound = 2
  End = 3
  Lag = 0
  MaxAttempts = 1
  Registered = {p1}
  None = None
  Gone = Gone
INVARIANT LedgerExact
SYMMETRY Symmetry
CHECK_DEADLOCK FALSE
