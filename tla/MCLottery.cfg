\* Two requests of the wallet and two payout workers, one asset, two windows,
\* and draws from before the entitlements: one with a prize, a later one without.
SPECIFICATION Spec
CONSTANTS
  Requests = {r1, r2}
  Payers = {q1, q2}
  Nfts = {n1}
  Legacy = {l1, l2}
  LegacyDocs <- OneOpenDoc
  Swaps = {}
  Interval = 1
  MaxTime = 1
  None = None
  l1 = l1
  l2 = l2
  n1 = n1
INVARIANTS OneLiability GuardTruthful ClaimedIsPaid UnprovenIsNotSent
PROPERTIES WindowKept SettledIsFinal
SYMMETRY Symmetry
\* The last asset is paid out and the clock at its bound: nothing is left to do.
CHECK_DEADLOCK FALSE
