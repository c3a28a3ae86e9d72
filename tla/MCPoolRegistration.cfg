\* One contract, two processes of overlapping deployments.
SPECIFICATION FairSpec
CONSTANTS
  a1 = a1
  p1 = p1
  p2 = p2
  Ids = {a1}
  Processes = {p1, p2}
  AppOf <- MCAppOf
  Requests <- MCRequests
  OldStores <- MCOldStores
  None = None
INVARIANT OneIdentity
PROPERTIES AnchorKept RegistrationCompletes CacheConverges
