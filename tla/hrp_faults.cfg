SPECIFICATION Spec
CONSTANTS
  None = None
  p1 = p1
  p2 = p2
  Proxy <- OneProxy
  Cluster = {c1}
  Content = {v1, v2}
  UserName = {n1}
  GeneratedName = {g1, g2}
  SpecName = {n1, None}
  KeepHistory = {FALSE, TRUE}
  ReconcileStrategy = "Continuous"
  CacheLag = FALSE
  InitialCluster = {"unset", "waiting"}
  MaxGeneration = 2
  MaxFault <- CrashAndHelm
SYMMETRY NameSymmetry
INVARIANTS
  StatusHonest
  GeneratedReleaseOwnedUntilCrash
