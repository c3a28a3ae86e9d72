\* One request and one payout worker that die and come back, and the draw of a swap
\* lottery with the same asset.
SPECIFICATION FairSpec
CONSTANTS
  Requests = {r1}
  Payers = {q1}
  Nfts = {n1}
  Legacy = {}
  LegacyDocs = {}
  Swaps = {s1}
  Interval = 1
  MaxTime = 1
  None = None
  l1 = l1
  l2 = l2
  n1 = n1
PROPERTIES PrizeIsPaid GuardReleased
\* The last asset is paid out and the clock at its bound: nothing is left to do.
CHECK_DEADLOCK FALSE
