---------------------------- MODULE HelmChartProxy ----------------------------
(***************************************************************************)
(* The HelmChartProxy controller                                           *)
(* (controllers/helmchartproxy/helmchartproxy_controller.go and            *)
(* helmchartproxy_controller_phases.go): one HelmChartProxy, the Clusters  *)
(* it may select, and the HelmReleaseProxies its worker creates, updates   *)
(* and deletes for them.  HelmChartProxies share nothing: a worker only    *)
(* lists the HelmReleaseProxies labelled with its object's name.           *)
(*                                                                         *)
(* The HelmReleaseProxy controller, modelled in HelmReleaseProxy, is here  *)
(* part of the environment: it reports on an object, and removes one that  *)
(* is being deleted.                                                       *)
(***************************************************************************)
EXTENDS Integers, FiniteSets, Webhooks

CONSTANTS
    Proxy,             \* names of HelmReleaseProxies
    Cluster,           \* Clusters in the namespace
    Label,             \* what selectors tell Clusters apart by
    Chart,             \* ChartName and RepoURL
    Content,           \* Version and the values template
    Options,           \* Options, Credentials and TLSConfig, but for namespaces
    UserName,          \* release names users give
    GeneratedName,     \* the release name Helm generates
    ChartSpec,         \* HelmChartProxySpecs users write
    LegacySpec,        \* those older versions of the webhooks let through
    ReconcileStrategy, \* "Continuous" or "InstallOnce"
    CacheLag,          \* may a list of HelmReleaseProxies be outdated?
    MaxGeneration,     \* bound on updates of the HelmChartProxy
    ClusterChange,     \* what may happen to Clusters: "relabel", "pause", "delete"
    MaxEvent           \* bound on faults, changes of Clusters and deletions, by kind

ReleaseName == UserName \union {GeneratedName, None}
Event == {"crash", "api", "values", "unready", "cluster", "delete"}

\* A selector that cannot be parsed is None; otherwise it is the labels it matches.
HelmChartProxySpec ==
         [selector    : (SUBSET Label) \union {None},
          chart       : Chart,
          namespace   : ReleaseNamespace,
          releaseName : UserName \union {None},
          content     : Content,
          options     : Options,
          secret      : SecretReference,
          paused      : BOOLEAN]

ASSUME ConstantsAssumption ==
    /\ GeneratedName \notin UserName
    /\ None \notin Proxy \union Cluster \union UserName \union {GeneratedName}
    /\ ChartSpec \union LegacySpec \subseteq HelmChartProxySpec
    /\ \A spec \in LegacySpec : spec.namespace # None
    /\ ReconcileStrategy \in {"Continuous", "InstallOnce"}
    /\ CacheLag \in BOOLEAN
    /\ MaxGeneration \in Nat
    /\ ClusterChange \subseteq {"relabel", "pause", "delete"}
    /\ MaxEvent \in [Event -> Nat]

\* Reasons of HelmReleaseProxySpecsUpToDate; true exactly for "UpToDate".
SpecsUpToDateReason ==
    {"UpToDate", "ClusterSelectionFailed", "HelmReleaseProxyDeletionFailed",
     "HelmReleaseProxyReinstalling", "ValueParsingFailed",
     "HelmReleaseProxyCreationFailed", "HelmReleaseProxySpecsUpdating"}

HCP == [spec       : HelmChartProxySpec,
        finalizer  : BOOLEAN,
        deleting   : BOOLEAN,
        generation : Nat,
        observed   : Nat,
        matching   : SUBSET Cluster,  \* Status.MatchingClusters
        specs      : SpecsUpToDateReason \union {None},
        releases   : {"Ready", "NotReady", None}]  \* HelmReleaseProxiesReady

HRP == [cluster     : Cluster,  \* ClusterRef and the ClusterName label
        chart       : Chart,
        namespace   : ReleaseNamespace,
        releaseName : ReleaseName,
        content     : Content,
        values      : Label,    \* what of the Cluster the values were rendered with
        options     : Options,
        secret      : SecretReference,
        generated   : BOOLEAN,  \* IsReleaseNameGeneratedAnnotation
        installed   : BOOLEAN,  \* ReleaseSuccessfullyInstalledAnnotation
        finalizer   : BOOLEAN,
        deleting    : BOOLEAN,
        ready       : BOOLEAN,
        generation  : Nat,
        observed    : Nat]

ASSUME NoneIsNoObject == None \notin HCP /\ None \notin HRP
ASSUME NoneIsNoReason == None \notin SpecsUpToDateReason

VARIABLES
    hcp,        \* the HelmChartProxy in the API server
    proxies,    \* the HelmReleaseProxies in the API server
    cache,      \* the copies the manager's informer cache holds (CacheLag)
    clusters,   \* the Clusters
    budget,     \* events left
    \* locals of the worker:
    pc,         \* next step
    call,       \* which of the calls of patchHelmChartProxy is running
    failed,     \* has a request of this patch failed?
    before,     \* the object as the patch helper recorded it
    obj,        \* the object in memory
    todo,       \* selected Clusters still to be reconciled, as they were listed
    doomed,     \* HelmReleaseProxies still to be deleted
    remaining,  \* HelmReleaseProxies whose deletion has not completed
    existing    \* the Cluster in hand, and the HelmReleaseProxy found for it

locals == <<pc, call, failed, before, obj, todo, doomed, remaining, existing>>
vars == <<hcp, proxies, cache, clusters, budget, locals>>

PC == {"idle", "listClusters", "listReleases", "deleteOrphans", "forCluster",
       "reinstall", "createOrUpdate", "aggregate", "deleteRelease",
       "validateDeletion", "patchConditions", "patchObject", "patchStatus",
       "patched"}

Call == {"ensureFinalizer", "removeFinalizer", "deferred"}

Existing == [cluster : Cluster \union {None}, label : Label \union {None},
             proxy : Proxy \union {None}, copy : HRP \union {None}]

NoExisting == [cluster |-> None, label |-> None, proxy |-> None, copy |-> None]

\* Every variable has its type, a worker that is not idle holds the object it
\* read, and one that deletes or updates a HelmReleaseProxy has found one.
TypeOK ==
    /\ hcp \in HCP \union {None}
    /\ proxies \in [Proxy -> HRP \union {None}]
    /\ cache \in [Proxy -> HRP \union {None}]
    /\ clusters \in [Cluster -> [label : Label, paused : BOOLEAN,
                                 phase : {"live", "deleting", "gone"}]]
    /\ budget \in [Event -> Nat]
    /\ pc \in PC
    /\ call \in Call
    /\ failed \in BOOLEAN
    /\ before \in HCP \union {None}
    /\ obj \in HCP \union {None}
    /\ todo \subseteq Cluster \X Label
    /\ doomed \subseteq Proxy
    /\ remaining \subseteq Proxy
    /\ existing \in Existing
    /\ pc # "idle" => obj \in HCP /\ before \in HCP
    /\ pc \in {"reinstall", "createOrUpdate"} => existing.cluster \in Cluster
    /\ pc \in {"reinstall", "validateDeletion"} => existing.proxy \in Proxy

\* Secrets are always resolved in the object's own namespace.
OwnNamespace(secret) == IF secret = None THEN None ELSE "own"

\* Mutant: the name of the chart is taken for the release's.
NewHelmReleaseProxy_chartAsName(c, label, spec) ==
    [cluster |-> c, chart |-> spec.chart, namespace |-> spec.namespace,
     releaseName |-> spec.chart,
     content |-> spec.content, values |-> label, options |-> spec.options,
     secret |-> OwnNamespace(spec.secret),
     generated |-> FALSE, installed |-> FALSE, finalizer |-> FALSE, deleting |-> FALSE,
     ready |-> FALSE, generation |-> 1, observed |-> 0]

\* constructHelmReleaseProxy
NewHelmReleaseProxy(c, label, spec) ==
    [cluster |-> c, chart |-> spec.chart, namespace |-> spec.namespace,
     releaseName |-> spec.releaseName,
     content |-> spec.content, values |-> label, options |-> spec.options,
     secret |-> OwnNamespace(spec.secret),
     generated |-> FALSE, installed |-> FALSE, finalizer |-> FALSE, deleting |-> FALSE,
     ready |-> FALSE, generation |-> 1, observed |-> 0]

NewHCP(spec) ==
    [spec |-> spec, finalizer |-> FALSE, deleting |-> FALSE,
     generation |-> 1, observed |-> 0, matching |-> {}, specs |-> None, releases |-> None]

\* What an older version left: a HelmChartProxy that is now refused, and the
\* HelmReleaseProxy it made for a Cluster, with the reference as it was given.
Upgraded(spec, p, c) ==
    /\ hcp = [NewHCP(spec) EXCEPT !.finalizer = TRUE]
    /\ clusters[c].label \in spec.selector
    /\ proxies = [q \in Proxy |-> IF q = p
                    THEN [NewHelmReleaseProxy(c, clusters[c].label, spec) EXCEPT
                            !.secret = spec.secret]
                    ELSE None]

\* There is nothing yet, or something from before an upgrade.
Init ==
    /\ clusters \in [Cluster -> [label : Label, paused : {FALSE}, phase : {"live"}]]
    /\ \/ /\ hcp = None
          /\ proxies = [p \in Proxy |-> None]
       \/ \E spec \in LegacySpec :
            \/ /\ hcp = NewHCP(spec)
               /\ proxies = [p \in Proxy |-> None]
            \/ \E p \in Proxy, c \in Cluster : Upgraded(spec, p, c)
    /\ cache = IF CacheLag THEN proxies ELSE [p \in Proxy |-> None]
    /\ budget = MaxEvent
    /\ pc = "idle"
    /\ call = "deferred"
    /\ failed = FALSE
    /\ before = None
    /\ obj = None
    /\ todo = {}
    /\ doomed = {}
    /\ remaining = {}
    /\ existing = NoExisting

Use(kind) ==
    /\ budget[kind] > 0
    /\ budget' = [budget EXCEPT ![kind] = @ - 1]

\* The HelmReleaseProxies a list returns: those in the cache.
Listed == IF CacheLag THEN cache ELSE proxies

Exists(p) == proxies[p] # None

-----------------------------------------------------------------------------
(***************************************************************************)
(* patchHelmChartProxy: three requests, for the conditions, the metadata   *)
(* and the rest of the status.  Each is made even if an earlier one failed *)
(* and sends what differs from the object that was read.                   *)
(***************************************************************************)
Patch(o, caller) ==
    /\ pc' = "patchConditions"
    /\ call' = caller
    /\ failed' = FALSE
    /\ obj' = o
    /\ existing' = NoExisting

\* Reconcile returns: the deferred patch is what is left to do.
Return(o) ==
    /\ Patch(o, "deferred")
    /\ todo' = {}
    /\ doomed' = {}
    /\ remaining' = {}

Merge(current, old, new) == IF new = old THEN current ELSE new

Request(nothing, admitted, new) ==
    \/ /\ nothing
       /\ UNCHANGED <<hcp, failed, budget>>
    \/ /\ ~nothing
       /\ hcp # None /\ admitted
       /\ hcp' = new
       /\ UNCHANGED <<failed, budget>>
    \/ /\ ~nothing
       /\ ~(hcp # None /\ admitted)
       /\ failed' = TRUE
       /\ UNCHANGED <<hcp, budget>>
    \/ /\ ~nothing
       /\ hcp # None /\ admitted
       /\ Use("api")
       /\ failed' = TRUE
       /\ hcp' \in {hcp, new}

PatchedConditions(current, old, new) ==
    [current EXCEPT !.specs = Merge(@, old.specs, new.specs),
                    !.releases = Merge(@, old.releases, new.releases)]

PatchConditions ==
    /\ pc = "patchConditions"
    /\ Request(obj.specs = before.specs /\ obj.releases = before.releases, TRUE,
               PatchedConditions(hcp, before, obj))
    /\ pc' = "patchObject"
    /\ UNCHANGED <<proxies, cache, clusters, call, before, obj, todo, doomed,
                   remaining, existing>>

\* The API server removes an object under deletion with its last finalizer.
Stored(o) == IF o.deleting /\ ~o.finalizer THEN None ELSE o

PatchObject ==
    /\ pc = "patchObject"
    /\ Request(obj.finalizer = before.finalizer, ValidateUpdate(hcp.spec, hcp.spec),
               Stored([hcp EXCEPT !.finalizer = obj.finalizer]))
    /\ pc' = "patchStatus"
    /\ UNCHANGED <<proxies, cache, clusters, call, before, obj, todo, doomed,
                   remaining, existing>>

PatchedStatus(current, old, new) ==
    [current EXCEPT !.observed = Merge(@, old.observed, new.generation),
                    !.matching = Merge(@, old.matching, new.matching)]

PatchStatus ==
    /\ pc = "patchStatus"
    /\ Request(obj.generation = before.observed /\ obj.matching = before.matching, TRUE,
               PatchedStatus(hcp, before, obj))
    /\ pc' = "patched"
    /\ UNCHANGED <<proxies, cache, clusters, call, before, obj, todo, doomed,
                   remaining, existing>>

PatchReturns ==
    /\ pc = "patched"
    /\ \/ /\ call = "ensureFinalizer"
          /\ ~failed
          /\ pc' = "deleteOrphans"
          /\ UNCHANGED <<call, failed, before, obj, todo, doomed, remaining, existing>>
       \/ /\ call = "removeFinalizer" \/ (call = "ensureFinalizer" /\ failed)
          /\ Return(obj)
          /\ UNCHANGED before
       \/ /\ call = "deferred"
          /\ pc' = "idle"
          /\ before' = None
          /\ obj' = None
          /\ failed' = FALSE
          /\ UNCHANGED <<call, todo, doomed, remaining, existing>>
    /\ UNCHANGED <<hcp, proxies, cache, clusters, budget>>

-----------------------------------------------------------------------------
(* Reconcile.                                                              *)

\* Get and NewHelper.
Reconcile ==
    /\ pc = "idle"
    /\ hcp # None
    /\ obj' = hcp
    /\ before' = hcp
    /\ pc' = "listClusters"
    /\ UNCHANGED <<hcp, proxies, cache, clusters, budget, call, failed, todo, doomed,
                   remaining, existing>>

Selected(o) ==
    {c \in Cluster : clusters[c].phase # "gone" /\ clusters[c].label \in o.spec.selector}

\* listClustersWithLabels and SetMatchingClusters.  Of each Cluster the rest of
\* the reconcile uses the copy listed here.
ListClusters ==
    /\ pc = "listClusters"
    /\ \/ /\ obj.spec.selector = None
          /\ Return([obj EXCEPT !.specs = "ClusterSelectionFailed"])
          /\ UNCHANGED budget
       \/ /\ obj.spec.selector # None
          /\ Use("api")
          /\ Return([obj EXCEPT !.specs = "ClusterSelectionFailed"])
       \/ /\ obj.spec.selector # None
          /\ obj' = [obj EXCEPT !.matching = Selected(obj)]
          /\ todo' = {<<c, clusters[c].label>> :
                         c \in {d \in Selected(obj) : /\ clusters[d].phase # "deleting"
                                                      /\ ~clusters[d].paused
                                                      /\ ~obj.spec.paused}}
          /\ pc' = "listReleases"
          /\ UNCHANGED <<budget, call, failed, doomed, remaining, existing>>
    /\ UNCHANGED <<hcp, proxies, cache, clusters, before>>

Releases == {p \in Proxy : Listed[p] # None}

\* Mutant: nothing is ever orphaned.
Orphaned_none(o) == {}

\* getOrphanedHelmReleaseProxies
Orphaned(o) == {p \in Releases : Listed[p].cluster \notin o.matching}

\* listInstalledReleases, and the choice between normal operation and deletion.
ListReleases ==
    /\ pc = "listReleases"
    /\ \/ /\ Use("api")
          /\ Return(obj)
       \/ /\ ~obj.deleting
          /\ doomed' = IF ReconcileStrategy = "InstallOnce" THEN {} ELSE Orphaned(obj)
          /\ IF obj.finalizer
               THEN /\ pc' = "deleteOrphans"
                    /\ UNCHANGED <<call, failed, obj, existing>>
               ELSE Patch([obj EXCEPT !.finalizer = TRUE], "ensureFinalizer")
          /\ UNCHANGED <<budget, todo, remaining>>
       \/ /\ obj.deleting
          /\ obj.finalizer
          /\ pc' = "deleteRelease"
          /\ doomed' = Releases
          /\ todo' = {}
          /\ UNCHANGED <<budget, call, failed, obj, remaining, existing>>
    /\ UNCHANGED <<hcp, proxies, cache, clusters, before>>

-----------------------------------------------------------------------------
(***************************************************************************)
(* deleteHelmReleaseProxy: an object that is not there is not an error.  A *)
(* request that fails may have been carried out.                           *)
(***************************************************************************)

Deleted(o) == [o EXCEPT !.deleting = TRUE,
                        !.generation = IF o.deleting THEN @ ELSE @ + 1]

DeleteHelmReleaseProxy(p) ==
    proxies' = [proxies EXCEPT ![p] = IF Exists(p) THEN Stored(Deleted(@)) ELSE None]

\* deleteOrphanedHelmReleaseProxies
DeleteOrphan(p) ==
    /\ pc = "deleteOrphans"
    /\ p \in doomed
    /\ \/ /\ DeleteHelmReleaseProxy(p)
          /\ doomed' = doomed \ {p}
          /\ UNCHANGED <<budget, pc, call, failed, obj, todo, remaining, existing>>
       \/ /\ Use("api")
          /\ Return([obj EXCEPT !.specs = "HelmReleaseProxyDeletionFailed"])
          /\ DeleteHelmReleaseProxy(p) \/ UNCHANGED proxies
    /\ UNCHANGED <<hcp, cache, clusters, before>>

OrphansDeleted ==
    /\ pc = "deleteOrphans"
    /\ doomed = {}
    /\ pc' = "forCluster"
    /\ UNCHANGED <<hcp, proxies, cache, clusters, budget, call, failed, before, obj, todo,
                   doomed, remaining, existing>>

-----------------------------------------------------------------------------
(* reconcileForCluster.                                                    *)

shouldReinstallHelmRelease(h, spec) ==
    \/ h.chart # spec.chart
    \/ h.namespace # spec.namespace
    \/ h.generated /\ spec.releaseName # None
    \/ ~h.generated /\ h.releaseName # spec.releaseName

\* Names not in use.  Creation waits for one: the bound on how many objects a
\* worker that does not see its own creations can create.
FreshName == {p \in Proxy : ~Exists(p) /\ Listed[p] = None}

\* getExistingHelmReleaseProxy, and what is to be done with what it finds.
ForCluster(c, label) ==
    LET found == {p \in Releases : Listed[p].cluster = c}
        this == [NoExisting EXCEPT !.cluster = c, !.label = label]
    IN
    /\ pc = "forCluster"
    /\ <<c, label>> \in todo
    /\ \/ /\ Use("api")
          /\ Return(obj)
       \/ /\ Cardinality(found) > 1
          /\ Return(obj)
          /\ UNCHANGED budget
       \/ /\ Cardinality(found) <= 1
          /\ todo' = todo \ {<<c, label>>}
          /\ \/ /\ ReconcileStrategy = "InstallOnce"
                /\ \E p \in found : Listed[p].installed
                /\ UNCHANGED <<pc, existing>>
             \/ /\ ReconcileStrategy = "Continuous"
                /\ \E p \in found :
                     /\ shouldReinstallHelmRelease(Listed[p], obj.spec)
                     /\ existing' = [this EXCEPT !.proxy = p, !.copy = Listed[p]]
                /\ pc' = "reinstall"
             \/ /\ \A p \in found :
                     IF ReconcileStrategy = "InstallOnce"
                       THEN ~Listed[p].installed
                       ELSE ~shouldReinstallHelmRelease(Listed[p], obj.spec)
                /\ \/ /\ found = {}
                      /\ FreshName # {}
                      /\ existing' = this
                   \/ \E p \in found :
                        existing' = [this EXCEPT !.proxy = p, !.copy = Listed[p]]
                /\ pc' = "createOrUpdate"
          /\ UNCHANGED <<budget, call, failed, obj, doomed, remaining>>
    /\ UNCHANGED <<hcp, proxies, cache, clusters, before>>

\* Mutant: the new object is created at once.
Reinstall_createsAtOnce ==
    /\ pc = "reinstall"
    /\ DeleteHelmReleaseProxy(existing.proxy)
    /\ pc' = "createOrUpdate"
    /\ existing' = [existing EXCEPT !.proxy = None, !.copy = None]
    /\ UNCHANGED <<hcp, cache, clusters, before, budget, call, failed, obj, todo, doomed,
                   remaining>>

\* The object is deleted; once it is gone a later reconcile creates a new one.
Reinstall ==
    /\ pc = "reinstall"
    /\ \/ /\ DeleteHelmReleaseProxy(existing.proxy)
          /\ obj' = [obj EXCEPT !.specs = "HelmReleaseProxyReinstalling"]
          /\ pc' = "forCluster"
          /\ existing' = NoExisting
          /\ UNCHANGED <<budget, call, failed, todo, doomed, remaining>>
       \/ /\ Use("api")
          /\ Return([obj EXCEPT !.specs = "HelmReleaseProxyDeletionFailed"])
          /\ DeleteHelmReleaseProxy(existing.proxy) \/ UNCHANGED proxies
    /\ UNCHANGED <<hcp, cache, clusters, before>>

\* Mutant: the version and the values are not compared.
NeedsUpdate_optionsOnly(h, label, spec) == h.options # spec.options

\* Only the version, the values and the namespace of Secrets are compared; Options,
\* Credentials and TLSConfig go along with a change of those.
NeedsUpdate(h, label, spec) ==
    \/ h.content # spec.content
    \/ h.values # label
    \/ h.secret \notin {None, "own"}

UpdatedHelmReleaseProxy(h, label, spec) ==
    [h EXCEPT !.content = spec.content, !.values = label, !.options = spec.options,
              !.secret = OwnNamespace(spec.secret), !.generation = @ + 1]

\* Mutant: an Update that overwrites whatever is there.
VersionMatches_exists == Exists(existing.proxy)

\* Update is refused unless the object is still the one that was read.
VersionMatches == Exists(existing.proxy) /\ proxies[existing.proxy] = existing.copy

\* What the worker would write: the values are rendered with the Cluster as listed.
Constructed ==
    IF existing.proxy = None
      THEN NewHelmReleaseProxy(existing.cluster, existing.label, obj.spec)
      ELSE UpdatedHelmReleaseProxy(existing.copy, existing.label, obj.spec)

\* Is it admitted?
Admitted ==
    IF existing.proxy = None
      THEN ValidateCreateRelease(Default(Constructed))
      ELSE VersionMatches /\ ValidateUpdateRelease(existing.copy, Default(Constructed))

\* Create, or Update.
Write ==
    /\ Admitted
    /\ \E p \in IF existing.proxy = None THEN FreshName ELSE {existing.proxy} :
          proxies' = [proxies EXCEPT ![p] = Default(Constructed)]

\* ParseValues and createOrUpdateHelmReleaseProxy.  A write that fails may have
\* been carried out.
CreateOrUpdate ==
    LET NextCluster == /\ pc' = "forCluster"
                       /\ existing' = NoExisting
                       /\ UNCHANGED <<call, failed, obj, todo, doomed, remaining>>
        Failed(reason) == Return([obj EXCEPT !.specs = reason])
        needed == existing.proxy # None =>
                      NeedsUpdate(existing.copy, existing.label, obj.spec)
    IN
    /\ pc = "createOrUpdate"
    /\ \/ /\ Use("values")
          /\ Failed("ValueParsingFailed")
          /\ UNCHANGED proxies
       \/ /\ ~needed
          /\ NextCluster
          /\ UNCHANGED <<budget, proxies>>
       \/ /\ needed
          /\ Write
          /\ NextCluster
          /\ UNCHANGED budget
       \/ /\ needed
          /\ ~Admitted
          /\ Failed("HelmReleaseProxyCreationFailed")
          /\ UNCHANGED <<budget, proxies>>
       \/ /\ needed
          /\ Use("api")
          /\ Failed("HelmReleaseProxyCreationFailed")
          /\ Write \/ UNCHANGED proxies
    /\ UNCHANGED <<hcp, cache, clusters, before>>

\* The loop is over: the specs are up to date.
ClustersReconciled ==
    /\ pc = "forCluster"
    /\ todo = {}
    /\ obj' = [obj EXCEPT !.specs = "UpToDate"]
    /\ pc' = "aggregate"
    /\ UNCHANGED <<hcp, proxies, cache, clusters, budget, call, failed, before, todo, doomed,
                   remaining, existing>>

\* SetAggregateCondition over the Ready conditions of some HelmReleaseProxies.
Aggregate(ps) == IF \A p \in ps : Listed[p].ready THEN "Ready" ELSE "NotReady"

\* aggregateHelmReleaseProxyReadyCondition: no HelmReleaseProxy counts as ready.
AggregateReady ==
    /\ pc = "aggregate"
    /\ \/ /\ Use("api")
          /\ Return(obj)
       \/ /\ \E p \in Releases : Listed[p].generation # Listed[p].observed
          /\ Return([obj EXCEPT !.specs = "HelmReleaseProxySpecsUpdating"])
          /\ UNCHANGED budget
       \/ /\ \A p \in Releases : Listed[p].generation = Listed[p].observed
          /\ Return([obj EXCEPT !.releases = Aggregate(Releases)])
          /\ UNCHANGED budget
    /\ UNCHANGED <<hcp, proxies, cache, clusters, before>>

-----------------------------------------------------------------------------
(* reconcileDelete.                                                        *)

DeleteRelease(p) ==
    /\ pc = "deleteRelease"
    /\ p \in doomed
    /\ \/ /\ DeleteHelmReleaseProxy(p)
          /\ pc' = "validateDeletion"
          /\ doomed' = doomed \ {p}
          /\ existing' = [existing EXCEPT !.proxy = p]
          /\ UNCHANGED <<budget, call, failed, obj, todo, remaining>>
       \/ /\ Use("api")
          /\ Return(obj)
          /\ DeleteHelmReleaseProxy(p) \/ UNCHANGED proxies
    /\ UNCHANGED <<hcp, cache, clusters, before>>

\* Get: is it gone?
ValidateDeletion ==
    LET p == existing.proxy IN
    /\ pc = "validateDeletion"
    /\ \/ /\ Use("api")
          /\ Return(obj)
       \/ /\ remaining' = IF Listed[p] = None THEN remaining ELSE remaining \union {p}
          /\ pc' = "deleteRelease"
          /\ existing' = NoExisting
          /\ UNCHANGED <<budget, call, failed, obj, todo, doomed>>
    /\ UNCHANGED <<hcp, proxies, cache, clusters, before>>

\* Mutant: the finalizer is removed once every release has been asked to go.
ReleasesDeleted_doesNotWait ==
    /\ pc = "deleteRelease"
    /\ doomed = {}
    /\ Patch([obj EXCEPT !.finalizer = FALSE], "removeFinalizer")
    /\ UNCHANGED <<hcp, proxies, cache, clusters, budget, before, todo, doomed, remaining>>

\* The finalizer is removed when no release remains.  Otherwise the worker
\* returns, and the request to be called again is dropped: the event of a
\* release's removal brings it back.  The condition is taken from the copies
\* the worker got, which may have changed since.
ReleasesDeleted ==
    /\ pc = "deleteRelease"
    /\ doomed = {}
    /\ \/ /\ remaining = {}
          /\ Patch([obj EXCEPT !.finalizer = FALSE], "removeFinalizer")
          /\ UNCHANGED <<todo, doomed, remaining>>
       \/ /\ remaining # {}
          /\ \E ready \in {"Ready", "NotReady"} : Return([obj EXCEPT !.releases = ready])
    /\ UNCHANGED <<hcp, proxies, cache, clusters, budget, before>>

-----------------------------------------------------------------------------
(* The manager process.                                                    *)

CacheSync(p) ==
    /\ CacheLag
    /\ cache[p] # proxies[p]
    /\ cache' = [cache EXCEPT ![p] = proxies[p]]
    /\ UNCHANGED <<hcp, proxies, clusters, budget, locals>>

Crash ==
    /\ Use("crash")
    /\ pc # "idle"
    /\ pc' = "idle"
    /\ cache' = IF CacheLag THEN proxies ELSE cache
    /\ call' = "deferred"
    /\ failed' = FALSE
    /\ before' = None
    /\ obj' = None
    /\ todo' = {}
    /\ doomed' = {}
    /\ remaining' = {}
    /\ existing' = NoExisting
    /\ UNCHANGED <<hcp, proxies, clusters>>

-----------------------------------------------------------------------------
(***************************************************************************)
(* The HelmReleaseProxy controller, seen from here: a reconcile adds the   *)
(* finalizer and reports on the generation it read; a first install writes *)
(* back a generated release name; an object under deletion is removed in   *)
(* the end.                                                                *)
(***************************************************************************)
\* The chart is installed, or upgraded.
Served(h) ==
    LET unnamed == h.releaseName = None IN
    [h EXCEPT !.finalizer = TRUE,
              !.ready = TRUE,
              !.installed = TRUE,
              !.observed = h.generation,
              !.releaseName = IF unnamed THEN GeneratedName ELSE @,
              !.generated = @ \/ unnamed,
              !.generation = IF unnamed THEN @ + 1 ELSE @]

\* It is not; had it come to the install?
NotServed(h, install) ==
    [h EXCEPT !.finalizer = TRUE,
              !.ready = FALSE,
              !.generated = @ \/ (install /\ h.releaseName = None),
              !.observed = h.generation]

ProxyReports(p) ==
    /\ Exists(p)
    /\ \/ /\ ~proxies[p].deleting
          /\ ~(proxies[p].ready /\ proxies[p].observed = proxies[p].generation)
          /\ proxies' = [proxies EXCEPT ![p] = Served(@)]
          /\ UNCHANGED budget
       \/ /\ ~(~proxies[p].ready /\ proxies[p].observed = proxies[p].generation)
          /\ \E install \in BOOLEAN :
                proxies' = [proxies EXCEPT ![p] = NotServed(@, install)]
          /\ Use("unready")
    /\ UNCHANGED <<hcp, cache, clusters, locals>>

ProxyRemoved(p) ==
    /\ Exists(p)
    /\ proxies[p].deleting
    /\ proxies' = [proxies EXCEPT ![p] = None]
    /\ UNCHANGED <<hcp, cache, clusters, budget, locals>>

\* The garbage collector deletes what the HelmChartProxy owned.
GarbageCollect(p) ==
    /\ hcp = None
    /\ Exists(p)
    /\ ~proxies[p].deleting
    /\ DeleteHelmReleaseProxy(p)
    /\ UNCHANGED <<hcp, cache, clusters, budget, locals>>

-----------------------------------------------------------------------------
(* Users and Cluster API.                                                  *)

CreateHCP(spec) ==
    /\ ValidateCreate(Default(spec))
    /\ hcp = None
    /\ pc = "idle"
    /\ \A p \in Proxy : ~Exists(p) /\ cache[p] = None
    /\ hcp' = NewHCP(Default(spec))
    /\ UNCHANGED <<proxies, cache, clusters, budget, locals>>

UpdateHCP(spec) ==
    /\ hcp # None
    /\ Default(spec) # hcp.spec
    /\ ValidateUpdate(hcp.spec, Default(spec))
    /\ hcp.generation < MaxGeneration
    /\ hcp' = [hcp EXCEPT !.spec = Default(spec), !.generation = @ + 1]
    /\ UNCHANGED <<proxies, cache, clusters, budget, locals>>

DeleteHCP ==
    /\ hcp # None
    /\ ~hcp.deleting
    /\ Use("delete")
    /\ hcp' = Stored(Deleted(hcp))
    /\ UNCHANGED <<proxies, cache, clusters, locals>>

\* A Cluster is relabelled, paused or resumed, or goes through its deletion.
ClusterChanges(c) ==
    /\ Use("cluster")
    /\ \/ /\ "relabel" \in ClusterChange
          /\ \E label \in Label \ {clusters[c].label} :
                clusters' = [clusters EXCEPT ![c].label = label]
       \/ /\ "pause" \in ClusterChange
          /\ clusters' = [clusters EXCEPT ![c].paused = ~@]
       \/ /\ "delete" \in ClusterChange
          /\ clusters[c].phase # "gone"
          /\ \E phase \in {"deleting", "gone"} \ {clusters[c].phase} :
                clusters' = [clusters EXCEPT ![c].phase = phase]
    /\ UNCHANGED <<hcp, proxies, cache, locals>>

-----------------------------------------------------------------------------
WorkerStep ==
    \/ Reconcile \/ ListClusters \/ ListReleases
    \/ (\E p \in Proxy : DeleteOrphan(p)) \/ OrphansDeleted
    \/ (\E c \in Cluster, label \in Label : ForCluster(c, label)) \/ Reinstall \/ CreateOrUpdate
    \/ ClustersReconciled \/ AggregateReady
    \/ (\E p \in Proxy : DeleteRelease(p)) \/ ValidateDeletion \/ ReleasesDeleted
    \/ PatchConditions \/ PatchObject \/ PatchStatus \/ PatchReturns

User == (\E spec \in ChartSpec : CreateHCP(spec) \/ UpdateHCP(spec)) \/ DeleteHCP

Next ==
    \/ WorkerStep
    \/ \E p \in Proxy : CacheSync(p) \/ ProxyReports(p) \/ ProxyRemoved(p) \/ GarbageCollect(p)
    \/ \E c \in Cluster : ClusterChanges(c)
    \/ User
    \/ Crash

Spec == Init /\ [][Next]_vars

\* Events and the periodic resync keep queueing the object; the informer catches
\* up; the HelmReleaseProxy controller does its work.
Fairness ==
    /\ WF_vars(WorkerStep)
    /\ \A p \in Proxy : /\ WF_vars(CacheSync(p))
                        /\ WF_vars(ProxyReports(p))
                        /\ WF_vars(ProxyRemoved(p))
                        /\ WF_vars(GarbageCollect(p))

FairSpec == Spec /\ Fairness

-----------------------------------------------------------------------------
(* Properties.                                                             *)

\* A Cluster never has two HelmReleaseProxies of one HelmChartProxy, not even
\* while one is deleted to be replaced: two would install the chart twice, and
\* getExistingHelmReleaseProxy would refuse to work from then on.
OneProxyPerCluster ==
    \A p, q \in Proxy :
        Exists(p) /\ Exists(q) /\ proxies[p].cluster = proxies[q].cluster => p = q

\* As long as one of its HelmReleaseProxies exists the HelmChartProxy does too,
\* with its finalizer: its deletion waits for every chart to be uninstalled.
FinalizerGuardsProxies ==
    \A p \in Proxy : Exists(p) => hcp # None /\ hcp.finalizer

UpToDate(o) == o.specs = "UpToDate" /\ o.observed = o.generation /\ ~o.deleting

Reconciled(c) ==
    /\ clusters[c].phase = "live"
    /\ ~clusters[c].paused
    /\ ~hcp.spec.paused

\* A HelmChartProxy that reports the specs of its HelmReleaseProxies as up to
\* date has brought its version and values to the one of every Cluster it
\* reports as matching, unless that is being deleted.
UpToDateHonest ==
    hcp # None /\ UpToDate(hcp) =>
        \A p \in Proxy :
            /\ Exists(p)
            /\ ~proxies[p].deleting
            /\ proxies[p].cluster \in hcp.matching
            /\ Reconciled(proxies[p].cluster)
            => proxies[p].content = hcp.spec.content

\* The same for what constructHelmReleaseProxy copies but does not compare.
OptionsUpToDate ==
    hcp # None /\ UpToDate(hcp) =>
        \A p \in Proxy :
            Exists(p) /\ proxies[p].cluster \in hcp.matching
                => proxies[p].options = hcp.spec.options

Specification(h) ==
    <<h.cluster, h.chart, h.namespace, h.content, h.values, h.options, h.secret>>

\* InstallOnce: the HelmReleaseProxy of a chart that has been installed is not
\* changed and not deleted while its HelmChartProxy lives, though the worker
\* looks at a copy that may be older than the installation.
InstalledIsLeftAlone ==
    [][ReconcileStrategy = "InstallOnce" /\ hcp # None /\ ~hcp.deleting =>
         \A p \in Proxy :
           Exists(p) /\ proxies[p].installed =>
             /\ Exists(p)'
             /\ ~proxies'[p].deleting
             /\ Specification(proxies'[p]) = Specification(proxies[p])]_vars

\* The deletion of a HelmChartProxy completes.
DeletionCompletes == (hcp # None /\ hcp.deleting) ~> hcp = None

Matches(p, spec) ==
    /\ ~proxies[p].deleting
    /\ proxies[p].chart = spec.chart
    /\ proxies[p].namespace = spec.namespace
    /\ proxies[p].content = spec.content
    /\ proxies[p].values = clusters[proxies[p].cluster].label
    /\ proxies[p].secret = OwnNamespace(spec.secret)
    /\ proxies[p].releaseName = IF spec.releaseName = None THEN GeneratedName
                                                           ELSE spec.releaseName

Converged ==
    hcp # None /\ hcp.spec.selector # None =>
        LET selected == Selected(hcp)
            on(c) == {p \in Proxy : Exists(p) /\ proxies[p].cluster = c}
        IN
        /\ hcp.matching = selected
        /\ \A c \in selected :
               Reconciled(c) => /\ Cardinality(on(c)) = 1
                                /\ \A p \in on(c) : Matches(p, hcp.spec)
        /\ \A c \in Cluster \ selected : on(c) = {}
        /\ UpToDate(hcp)
        /\ hcp.releases = "Ready"

\* Continuous: once users, Clusters and faults leave it alone, a HelmChartProxy
\* settles with one HelmReleaseProxy, to its specification, for each selected
\* Cluster, none for any other, and a status that says so.
EventuallyConverged == ReconcileStrategy = "Continuous" => <>[]Converged
=============================================================================
