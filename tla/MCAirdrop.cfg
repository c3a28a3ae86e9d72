\* Two processes, two recipients, plans that conflict and plans that agree, and
\* campaigns from before manifests.
SPECIFICATION FairSpec
CONSTANTS
  Workers = {w1, w2}
  N = 2
  Plans <- PairPlans
  None = None
INVARIANTS WithinBudget CompleteMeansPaid
PROPERTIES CompleteIsFinal CampaignCompletes
