SPECIFICATION Spec
CONSTANTS
  None = None
  p1 = p1
  p2 = p2
  Proxy <- OneProxy
  Cluster = {c1}
  Content = {v1, v2}
  UserName = {}
  GeneratedName = {g1, g2}
  SpecName = {None}
  KeepHistory = {FALSE}
  ReconcileStrategy = "Continuous"
  CacheLag = FALSE
  InitialCluster = {"ready"}
  MaxGeneration = 2
  MaxFault <- OneCrash
INVARIANTS
  GeneratedReleaseOwned
