SPECIFICATION Spec
CONSTANTS
  None = None
  p1 = p1
  p2 = p2
  Proxy <- TwoProxies
  Cluster = {c1}
  Content = {v1}
  UserName = {n1}
  GeneratedName = {}
  SpecName = {n1}
  KeepHistory = {FALSE}
  ReconcileStrategy = "Continuous"
  CacheLag = TRUE
  InitialCluster = {"ready"}
  MaxGeneration = 1
  MaxFault <- OneCrash
SYMMETRY Symmetry
INVARIANTS
  OwnershipInv
  NamedReleaseOwned
