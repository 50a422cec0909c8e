SPECIFICATION FairSpec
CONSTANTS
  None = None
  p1 = p1
  p2 = p2
  Proxy <- OneProxy
  Cluster = {c1}
  Content = {v1, v2}
  UserName = {n1}
  GeneratedName = {}
  SpecName = {n1}
  KeepHistory = {FALSE}
  ReconcileStrategy = "Continuous"
  CacheLag = TRUE
  InitialCluster = {"ready"}
  MaxGeneration = 2
  MaxFault <- CrashAndHelm
PROPERTIES
  DeletionCompletes
  EventuallyReady
  
