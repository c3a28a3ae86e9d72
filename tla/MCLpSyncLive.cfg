\* Two pools, p1 registered at any time, one worker that crashes and restarts, under the
\* fairness of FairSpec.
SPECIFICATION FairSpec
CONSTANTS
  p1 = p1
  p2 = p2
  w1 = w1
  w2 = w2
  user = user
  Pools = {p1, p2}
  Workers = {w1}
  Events <- TwoPoolEvents
  BalanceAt <- TwoPoolBalances
  MaxRound = 2
  End = 3
  Lag = 0
  MaxAttempts = 2
  Registered = {p2}
  None = None
  Gone = Gone
INVARIANTS LedgerExact
PROPERTIES Progress
CHECK_DEADLOCK FALSE
