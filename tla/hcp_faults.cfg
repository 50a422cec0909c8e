SPECIFICATION Spec
CONSTANTS
    None = None
    in = in
    in2 = in2
    foreign = foreign
    InvalidURL = {}
    ForeignSecret = {foreign}
    LegacySpec = {}
    out = out
    chartA = chartA
    chartB = chartB
    v1 = v1
    v2 = v2
    optA = optA
    optB = optB
    relA = relA
    Proxy = {p1, p2}
    Cluster = {c1, c2}
    Label = {in, out}
    Chart = {chartA, chartB}
    Content = {v1, v2}
    Options = {optA, optB}
    UserName = {relA}
    GeneratedName = gen
    ChartSpec <- AnyChange
    ReconcileStrategy = "Continuous"
    CacheLag = FALSE
    ClusterChange = {}
    MaxGeneration = 2
    MaxEvent <- Faults
SYMMETRY Symmetry
INVARIANT TypeOK
INVARIANT OneProxyPerCluster
INVARIANT FinalizerGuardsProxies
PROPERTY KeepsContract
