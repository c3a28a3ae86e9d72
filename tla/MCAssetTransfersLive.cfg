\* One operation and one set of terms, two processes that retry; a chain of
\* three rounds, so that a transaction of the first one expires.
CONSTANTS
  Ops = {o1}
  Terms = {c1}
  Workers = {w1, w2}
  Window = 1
  MaxRound = 3
  MaxLag = 0
  None = None
SPECIFICATION FairSpec
PROPERTY PaidIsRecorded
