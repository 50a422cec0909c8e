SPECIFICATION FairSpec
CONSTANTS
    None = None
    in = in
    in2 = in2
    foreign = foreign
    InvalidURL = {}
    ForeignSecret = {foreign}
    LegacySpec <- Legacy
    out = out
    chartA = chartA
    chartB = chartB
    v1 = v1
    v2 = v2
    optA = optA
    optB = optB
    relA = relA
    Proxy = {p1, p2}
    Cluster = {c1}
    Label = {in, in2, out}
    Chart = {chartA, chartB}
    Content = {v1, v2}
    Options = {optA, optB}
    UserName = {relA}
    GeneratedName = gen
    ChartSpec <- Edits
    ReconcileStrategy = "Continuous"
    CacheLag = FALSE
    ClusterChange = {"relabel", "pause", "delete"}
    MaxGeneration = 2
    MaxEvent <- Settling
PROPERTY DeletionCompletes
PROPERTY EventuallyConverged
