SPECIFICATION Spec
CONSTANTS
  None = None
  p1 = p1
  p2 = p2
  Proxy <- OneProxy
  Cluster = {c1}
  Content = {v1, v2}
  UserName = {n1}
  GeneratedName = {}
  SpecName = {n1}
  KeepHistory = {FALSE}
  ReconcileStrategy = "InstallOnce"
  CacheLag = FALSE
  InitialCluster = {"waiting"}
  MaxGeneration = 2
  MaxFault <- OneOfEach
INVARIANTS
  TypeOK
  FinalizerGuardsHelm
PROPERTIES
  
  KeepsContract
