\* One pool with two events in one block and one in the next, two workers, an Indexer that
\* may be a round behind; two attempts before a worker gives up.
SPECIFICATION Spec
CONSTANTS
  p1 = p1
  p2 = p2
  w1 = w1
  w2 = w2
  user = user
  Pools = {p1}
  Workers = {w1, w2}
  Events <- OnePoolEvents
  BalanceAt <- OnePoolBalances
  MaxRound = 2
  End = 3
  Lag = 1
  MaxAttempts = 2
  Registered = {p1}
  None = None
  Gone = Gone
INVARIANTS TypeOK MarkersBehindCursor CheckpointCovered NoFalseAlarm
PROPERTIES CheckpointAdvances ImplementsLedger
SYMMETRY Symmetry
CHECK_DEADLOCK FALSE
