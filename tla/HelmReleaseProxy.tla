--------------------------- MODULE HelmReleaseProxy ---------------------------
(***************************************************************************)
(* The HelmReleaseProxy controller                                         *)
(* (controllers/helmreleaseproxy/helmreleaseproxy_controller.go): one      *)
(* worker per HelmReleaseProxy reads the object from the manager's cache,  *)
(* makes sure it carries the finalizer, looks up its Cluster, installs,    *)
(* upgrades or uninstalls a Helm release there, and writes the object back *)
(* through a patch helper.  Every call that leaves the process is a step   *)
(* of its own, so that crashes, failed calls, writes by others and a       *)
(* lagging cache can fall between any two of them.                         *)
(*                                                                         *)
(* The environment creates, updates and deletes HelmReleaseProxies the way *)
(* the HelmChartProxy controller does, and moves Clusters through their    *)
(* life.                                                                   *)
(***************************************************************************)
EXTENDS HelmClient, Integers, FiniteSets

CONSTANTS
    Proxy,             \* HelmReleaseProxy objects
    Cluster,           \* workload Clusters
    UserName,          \* release names users give
    GeneratedName,     \* release names Helm generates
    SpecName,          \* Spec.ReleaseName of new objects: user names, or None
    KeepHistory,       \* values of Spec.Options.Uninstall.KeepHistory in use
    ReconcileStrategy, \* "Continuous" or "InstallOnce"
    CacheLag,          \* may a reconcile read an outdated object?
    InitialCluster,    \* states Clusters may start in
    MaxGeneration,     \* bound on updates of one object
    MaxFault           \* bound on faults, by kind

Name == UserName \union GeneratedName
Fault == {"crash", "api", "secret", "helm"}
ClusterState == {"unset", "waiting", "ready", "gone"}

ASSUME ConstantsAssumption ==
    /\ UserName \intersect GeneratedName = {}
    /\ SpecName \subseteq UserName \union {None}
    /\ None \notin Proxy \union Cluster \union Name
    /\ KeepHistory \subseteq BOOLEAN
    /\ ReconcileStrategy \in {"Continuous", "InstallOnce"}
    /\ CacheLag \in BOOLEAN
    /\ InitialCluster \subseteq ClusterState
    /\ MaxGeneration \in Nat
    /\ MaxFault \in [Fault -> Nat]

ClusterAvailableReason ==
    {"Available", "GetClusterFailed", "ControlPlaneNotAvailable",
     "GetKubeconfigFailed", "GetCredentialsFailed", "GetCACertificateFailed"}

HelmReleaseReadyReason ==
    {"Ready", "PreparingToHelmInstall", "HelmReleasePending",
     "HelmInstallOrUpgradeFailed", "HelmReleaseDeletionFailed",
     "HelmReleaseDeleted", "HelmReleaseGetFailed"}

ASSUME NoneIsNoReason == None \notin ClusterAvailableReason \union HelmReleaseReadyReason

\* A HelmReleaseProxy.  A condition is its reason (None: not set); it is true
\* exactly when the reason is "Available" or "Ready".
HRP == [cluster          : Cluster,
        content          : Content,
        keepHistory      : BOOLEAN,
        releaseName      : Name \union {None},
        generated        : BOOLEAN,  \* IsReleaseNameGeneratedAnnotation
        installed        : BOOLEAN,  \* ReleaseSuccessfullyInstalledAnnotation
        finalizer        : BOOLEAN,
        deleting         : BOOLEAN,  \* DeletionTimestamp is set
        generation       : Nat,
        observed         : Nat,      \* Status.ObservedGeneration
        clusterAvailable : ClusterAvailableReason \union {None},
        releaseReady     : HelmReleaseReadyReason \union {None}]

ASSUME NoneIsNoObject == None \notin HRP

VARIABLES
    api,       \* the HelmReleaseProxy objects in the API server
    cache,     \* the copies the manager's informer cache holds
    clusters,  \* state of each Cluster, and of its control plane
    releases,  \* Helm's release records in each workload cluster
    budget,    \* faults left
    \* locals of each worker:
    pc,        \* next step
    call,      \* which of the calls of patchHelmReleaseProxy is running
    failed,    \* has a request of this patch failed?
    before,    \* the object as the patch helper recorded it
    obj,       \* the object in memory
    existing,  \* the release InstallOrUpgradeHelmRelease has found
    target     \* name of the release the running Helm install works on

locals == <<pc, call, failed, before, obj, existing, target>>
vars == <<api, cache, clusters, releases, budget, locals>>

PC == {"idle", "examine", "getCluster", "reconcileNormal", "install", "upgrade",
       "helmRunning", "deleteGetCluster", "reconcileDelete", "uninstall",
       "helmUninstalling", "patchConditions", "patchObject", "patchStatus",
       "patched"}

Call == {"initializeConditions", "ensureFinalizer", "removeFinalizer",
         "deferred"}

\* Every variable has its type, and a worker that is not idle holds the object
\* it read (Reconcile never dereferences an object it did not get).
TypeOK ==
    /\ api \in [Proxy -> HRP \union {None}]
    /\ cache \in [Proxy -> HRP \union {None}]
    /\ clusters \in [Cluster -> ClusterState]
    /\ releases \in [Cluster -> [Name -> Release]]
    /\ budget \in [Fault -> Nat]
    /\ pc \in [Proxy -> PC]
    /\ call \in [Proxy -> Call]
    /\ failed \in [Proxy -> BOOLEAN]
    /\ before \in [Proxy -> HRP \union {None}]
    /\ obj \in [Proxy -> HRP \union {None}]
    /\ existing \in [Proxy -> Release]
    /\ target \in [Proxy -> Name \union {None}]
    /\ \A p \in Proxy : pc[p] # "idle" => obj[p] \in HRP /\ before[p] \in HRP
    /\ \A p \in Proxy : pc[p] = "helmRunning" => target[p] \in Name
    /\ \A p \in Proxy : pc[p] \in {"upgrade", "uninstall", "helmUninstalling"}
                            => obj[p].releaseName \in Name

Init ==
    /\ api = [p \in Proxy |-> None]
    /\ cache = [p \in Proxy |-> None]
    /\ clusters \in [Cluster -> InitialCluster]
    /\ releases = [c \in Cluster |-> [n \in Name |-> NoRelease]]
    /\ budget = MaxFault
    /\ pc = [p \in Proxy |-> "idle"]
    /\ call = [p \in Proxy |-> "deferred"]
    /\ failed = [p \in Proxy |-> FALSE]
    /\ before = [p \in Proxy |-> None]
    /\ obj = [p \in Proxy |-> None]
    /\ existing = [p \in Proxy |-> NoRelease]
    /\ target = [p \in Proxy |-> None]

Exists(p) == api[p] # None

UseFault(kind) ==
    /\ budget[kind] > 0
    /\ budget' = [budget EXCEPT ![kind] = @ - 1]

\* A call to the workload cluster fails: it cannot be reached, or Helm fails.
HelmFails(c) ==
    \/ clusters[c] # "ready" /\ UNCHANGED budget
    \/ clusters[c] = "ready" /\ UseFault("helm")

HelmWorks(c) == clusters[c] = "ready" /\ UNCHANGED budget

SetRelease(c, n, release) ==
    releases' = [releases EXCEPT ![c] = [releases[c] EXCEPT ![n] = release]]

\* The worker of p goes on to step "step" with object o in memory.
Goto(p, step, o) ==
    /\ pc' = [pc EXCEPT ![p] = step]
    /\ obj' = [obj EXCEPT ![p] = o]
    /\ UNCHANGED <<call, failed, existing, target>>

-----------------------------------------------------------------------------
(***************************************************************************)
(* patchHelmReleaseProxy.  The patch helper compares the object in memory  *)
(* with the one recorded by NewHelper and sends the fields that differ, in *)
(* three requests: the conditions, then metadata and spec, then the rest   *)
(* of the status.  Each request is made even if an earlier one failed.     *)
(***************************************************************************)
Patch(p, o, caller) ==
    /\ pc' = [pc EXCEPT ![p] = "patchConditions"]
    /\ call' = [call EXCEPT ![p] = caller]
    /\ failed' = [failed EXCEPT ![p] = FALSE]
    /\ obj' = [obj EXCEPT ![p] = o]
    /\ existing' = [existing EXCEPT ![p] = NoRelease]
    /\ target' = [target EXCEPT ![p] = None]

\* The reconcile ends.
Finish(p) ==
    /\ pc' = [pc EXCEPT ![p] = "idle"]
    /\ call' = [call EXCEPT ![p] = "deferred"]
    /\ failed' = [failed EXCEPT ![p] = FALSE]
    /\ before' = [before EXCEPT ![p] = None]
    /\ obj' = [obj EXCEPT ![p] = None]
    /\ UNCHANGED <<existing, target>>

\* What a field becomes in the API server: a field that did not change in
\* memory is not sent.
Merge(current, old, new) == IF new = old THEN current ELSE new

\* One request of the patch: nothing to send; applied; the object is gone; or
\* the request fails, applied or not.
Request(p, nothing, new) ==
    \/ /\ nothing
       /\ UNCHANGED <<api, failed, budget>>
    \/ /\ ~nothing
       /\ Exists(p)
       /\ api' = [api EXCEPT ![p] = new]
       /\ UNCHANGED <<failed, budget>>
    \/ /\ ~nothing
       /\ ~Exists(p)
       /\ failed' = [failed EXCEPT ![p] = TRUE]
       /\ UNCHANGED <<api, budget>>
    \/ /\ ~nothing
       /\ Exists(p)
       /\ UseFault("api")
       /\ failed' = [failed EXCEPT ![p] = TRUE]
       /\ api' \in {api, [api EXCEPT ![p] = new]}

PatchedConditions(current, old, new) ==
    [current EXCEPT
       !.clusterAvailable = Merge(@, old.clusterAvailable, new.clusterAvailable),
       !.releaseReady = Merge(@, old.releaseReady, new.releaseReady)]

PatchConditions(p) ==
    /\ pc[p] = "patchConditions"
    /\ Request(p,
         /\ obj[p].clusterAvailable = before[p].clusterAvailable
         /\ obj[p].releaseReady = before[p].releaseReady,
         PatchedConditions(api[p], before[p], obj[p]))
    /\ pc' = [pc EXCEPT ![p] = "patchObject"]
    /\ UNCHANGED <<cache, clusters, releases, call, before, obj, existing, target>>

\* The API server removes an object under deletion with its last finalizer,
\* and raises the generation when the spec changes.
Stored(o) == IF o.deleting /\ ~o.finalizer THEN None ELSE o

WithName(o, name) ==
    [o EXCEPT !.releaseName = name,
              !.generation = IF name = o.releaseName THEN @ ELSE @ + 1]

\* Object "current" after old, patched in memory to new, has been sent.
PatchedObject(current, old, new) ==
    [WithName(current, Merge(current.releaseName, old.releaseName, new.releaseName)) EXCEPT
       !.finalizer = Merge(@, old.finalizer, new.finalizer),
       !.generated = Merge(@, old.generated, new.generated),
       !.installed = Merge(@, old.installed, new.installed)]

PatchObject(p) ==
    /\ pc[p] = "patchObject"
    /\ Request(p,
         /\ obj[p].finalizer = before[p].finalizer
         /\ obj[p].generated = before[p].generated
         /\ obj[p].installed = before[p].installed
         /\ obj[p].releaseName = before[p].releaseName,
         Stored(PatchedObject(api[p], before[p], obj[p])))
    /\ pc' = [pc EXCEPT ![p] = "patchStatus"]
    /\ UNCHANGED <<cache, clusters, releases, call, before, obj, existing, target>>

\* WithStatusObservedGeneration: the generation of the object that was read.
PatchStatus(p) ==
    /\ pc[p] = "patchStatus"
    /\ Request(p, obj[p].generation = before[p].observed,
               [api[p] EXCEPT !.observed = obj[p].generation])
    /\ pc' = [pc EXCEPT ![p] = "patched"]
    /\ UNCHANGED <<cache, clusters, releases, call, before, obj, existing, target>>

\* Mutant: a finalizer that could not be written is only logged.
PatchReturns_goesOn(p) ==
    /\ pc[p] = "patched"
    /\ \/ /\ call[p] = "initializeConditions"
          /\ Goto(p, "examine", obj[p])
          /\ UNCHANGED before
       \/ /\ call[p] = "ensureFinalizer"
          /\ Goto(p, "getCluster", obj[p])
          /\ UNCHANGED before
       \/ /\ call[p] = "removeFinalizer"
          /\ Patch(p, obj[p], "deferred")
          /\ UNCHANGED before
       \/ /\ call[p] = "deferred"
          /\ Finish(p)
    /\ UNCHANGED <<api, cache, clusters, releases, budget>>

PatchReturns(p) ==
    /\ pc[p] = "patched"
    /\ \/ /\ call[p] = "initializeConditions"      \* a failure is only logged
          /\ Goto(p, "examine", obj[p])
          /\ UNCHANGED before
       \/ /\ call[p] = "ensureFinalizer"
          /\ ~failed[p]
          /\ Goto(p, "getCluster", obj[p])
          /\ UNCHANGED before
       \/ /\ \/ call[p] = "ensureFinalizer" /\ failed[p]
             \/ call[p] = "removeFinalizer"
          /\ Patch(p, obj[p], "deferred")
          /\ UNCHANGED before
       \/ /\ call[p] = "deferred"
          /\ Finish(p)
    /\ UNCHANGED <<api, cache, clusters, releases, budget>>

-----------------------------------------------------------------------------
(* Reconcile.                                                              *)

HasConditions(o) == o.clusterAvailable # None \/ o.releaseReady # None

\* Get, NewHelper and initializeConditions.
Reconcile(p) ==
    /\ pc[p] = "idle"
    /\ cache[p] # None
    /\ CacheLag \/ cache[p] = api[p]
    /\ before' = [before EXCEPT ![p] = cache[p]]
    /\ \/ /\ HasConditions(cache[p])
          /\ Goto(p, "examine", cache[p])
       \/ /\ ~HasConditions(cache[p])
          /\ Patch(p, [cache[p] EXCEPT !.releaseReady = "PreparingToHelmInstall"],
                   "initializeConditions")
    /\ UNCHANGED <<api, cache, clusters, releases, budget>>

\* Mutant: the finalizer is left to the deferred patch.
Examine_finalizerLater(p) ==
    /\ pc[p] = "examine"
    /\ \/ /\ ~obj[p].deleting
          /\ Goto(p, "getCluster", [obj[p] EXCEPT !.finalizer = TRUE])
       \/ /\ obj[p].deleting
          /\ Goto(p, "deleteGetCluster", obj[p])
    /\ UNCHANGED <<api, cache, clusters, releases, budget, before>>

\* Is the object under deletion, and does it carry the finalizer?  An object
\* under deletion always does: without it the API server removes the object.
Examine(p) ==
    /\ pc[p] = "examine"
    /\ \/ /\ ~obj[p].deleting
          /\ obj[p].finalizer
          /\ Goto(p, "getCluster", obj[p])
       \/ /\ ~obj[p].deleting
          /\ ~obj[p].finalizer
          /\ Patch(p, [obj[p] EXCEPT !.finalizer = TRUE], "ensureFinalizer")
       \/ /\ obj[p].deleting
          /\ Goto(p, "deleteGetCluster", obj[p])
    /\ UNCHANGED <<api, cache, clusters, releases, budget, before>>

\* What getCredentials and getCAFile end in when a Secret or its key is missing,
\* or cannot be written to a temporary file.
SecretFailed == {"GetCredentialsFailed", "GetCACertificateFailed"}

\* Mutant: an object whose Cluster is gone gives up its finalizer, deleted or not.
GetCluster_goneReleases(p) ==
    LET c == clusters[obj[p].cluster] IN
    /\ pc[p] = "getCluster"
    /\ \/ /\ c = "gone"
          /\ Patch(p, [obj[p] EXCEPT !.finalizer = FALSE], "deferred")
       \/ /\ c # "gone"
          /\ Goto(p, "reconcileNormal",
                  [obj[p] EXCEPT !.clusterAvailable = "Available"])
    /\ UNCHANGED <<api, cache, clusters, releases, budget, before>>

\* The Cluster, its kubeconfig, and the Secrets with the registry's
\* credentials and CA certificate.
GetCluster(p) ==
    LET c == clusters[obj[p].cluster]
        Unavailable(reason) ==
            Patch(p, [obj[p] EXCEPT !.clusterAvailable = reason], "deferred")
    IN
    /\ pc[p] = "getCluster"
    /\ \/ /\ c = "gone"
          /\ Unavailable("GetClusterFailed")
          /\ UNCHANGED budget
       \/ /\ c # "gone"
          /\ UseFault("api")
          /\ Unavailable("GetClusterFailed")
       \/ /\ c = "waiting"
          /\ Unavailable("ControlPlaneNotAvailable")
          /\ UNCHANGED budget
       \/ /\ c = "unset"
          /\ Unavailable("GetKubeconfigFailed")
          /\ UNCHANGED budget
       \/ /\ c \in {"unset", "ready"}
          /\ UseFault("secret")
          /\ \E reason \in SecretFailed : Unavailable(reason)
       \/ /\ c \in {"unset", "ready"}
          /\ Goto(p, "reconcileNormal",
                  [obj[p] EXCEPT !.clusterAvailable = "Available"])
          /\ UNCHANGED budget
    /\ UNCHANGED <<api, cache, clusters, releases, before>>

-----------------------------------------------------------------------------
(* reconcileNormal and InstallOrUpgradeHelmRelease.                        *)

\* Mutant: the wrong condition is set.
WithStatus_wrongCondition(o, status, error) ==
    IF status = "deployed"
      THEN [o EXCEPT !.clusterAvailable = "Ready", !.installed = TRUE]
      ELSE o

\* The condition and the annotation reconcileNormal derives from a release.
WithStatus(o, status, error) ==
    IF status = "deployed"
      THEN [o EXCEPT !.releaseReady = "Ready", !.installed = TRUE]
    ELSE IF IsPending(status)
      THEN [o EXCEPT !.releaseReady = "HelmReleasePending"]
    ELSE IF error \/ status = "failed"
      THEN [o EXCEPT !.releaseReady = "HelmInstallOrUpgradeFailed"]
    ELSE o

\* InstallOrUpgradeHelmRelease returned an error and no release.
InstallOrUpgradeFailed(p) ==
    Patch(p, [obj[p] EXCEPT !.releaseReady = "HelmInstallOrUpgradeFailed"], "deferred")

\* Mutant: the name of a release that failed is not kept.
InstallOrUpgradeReturned_dropsName(p, name, status, error) ==
    Patch(p, WithStatus([obj[p] EXCEPT !.releaseName = IF error THEN @ ELSE name],
                        status, error), "deferred")

\* ... or a release, with or without an error.
InstallOrUpgradeReturned(p, name, status, error) ==
    Patch(p, WithStatus([obj[p] EXCEPT !.releaseName = name], status, error), "deferred")

\* GetHelmRelease found a release.  A pending one is marked failed in the
\* cluster; the worker keeps the copy it read.
FoundRelease(p, c, n) ==
    /\ pc' = [pc EXCEPT ![p] = "upgrade"]
    /\ existing' = [existing EXCEPT ![p] = releases[c][n]]
    /\ IF IsPending(releases[c][n].status)
         THEN SetRelease(c, n, updateLastReleaseStatus(releases[c][n]))
         ELSE UNCHANGED releases
    /\ UNCHANGED <<call, failed, obj, target>>

\* The InstallOnce check, then GetHelmRelease.
ReconcileNormal(p) ==
    LET c == obj[p].cluster
        n == obj[p].releaseName
        o == [obj[p] EXCEPT !.generated = @ \/ n = None]
    IN
    /\ pc[p] = "reconcileNormal"
    /\ \/ /\ ReconcileStrategy = "InstallOnce"
          /\ obj[p].installed
          /\ Patch(p, obj[p], "deferred")
          /\ UNCHANGED <<releases, budget>>
       \/ /\ ~(ReconcileStrategy = "InstallOnce" /\ obj[p].installed)
          /\ \/ /\ n = None
                /\ Goto(p, "install", o)
                /\ UNCHANGED <<releases, budget>>
             \/ /\ n # None
                /\ HelmFails(c)
                /\ InstallOrUpgradeFailed(p)
                /\ UNCHANGED releases
             \/ /\ n # None
                /\ HelmWorks(c)
                /\ releases[c][n] = NoRelease
                /\ Goto(p, "install", o)
                /\ UNCHANGED releases
             \/ /\ n # None
                /\ HelmWorks(c)
                /\ releases[c][n] # NoRelease
                /\ FoundRelease(p, c, n)
    /\ UNCHANGED <<api, cache, clusters, before>>

\* A name Helm generates: the chart's name and the time, hence a new one.
FreshName(c) ==
    {n \in GeneratedName :
        /\ releases[c][n] = NoRelease
        /\ \A q \in Proxy : /\ \A o \in {api[q], cache[q], obj[q], before[q]} :
                                   o # None => o.releaseName # n
                            /\ target[q] # n}

\* InstallHelmRelease up to the write of the pending release.  It fails before
\* it has a release (the chart or its values cannot be loaded, or the name is
\* taken), or with a release that was never stored (the chart does not render).
Install(p) ==
    LET c == obj[p].cluster IN
    /\ pc[p] = "install"
    /\ \/ /\ HelmFails(c)
          /\ InstallOrUpgradeFailed(p)
          /\ UNCHANGED releases
       \/ \E n \in IF obj[p].releaseName = None THEN FreshName(c)
                                                ELSE {obj[p].releaseName} :
          \/ /\ clusters[c] = "ready"
             /\ ~NameAvailable(releases[c][n])
             /\ InstallOrUpgradeFailed(p)
             /\ UNCHANGED <<releases, budget>>
          \/ /\ clusters[c] = "ready"
             /\ NameAvailable(releases[c][n])
             /\ UseFault("helm")
             /\ InstallOrUpgradeReturned(p, n, "failed", TRUE)
             /\ UNCHANGED releases
          \/ /\ HelmWorks(c)
             /\ NameAvailable(releases[c][n])
             /\ SetRelease(c, n, BeginInstall(obj[p].content))
             /\ target' = [target EXCEPT ![p] = n]
             /\ pc' = [pc EXCEPT ![p] = "helmRunning"]
             /\ UNCHANGED <<call, failed, obj, existing>>
    /\ UNCHANGED <<api, cache, clusters, before>>

\* UpgradeHelmReleaseIfChanged up to the write of the pending release.  It fails
\* before it has a release, or with one that was never stored and is pending
\* only in memory (the manifest cannot be built).
Upgrade(p) ==
    LET c == obj[p].cluster
        n == obj[p].releaseName
        changed == shouldUpgradeHelmRelease(existing[p], obj[p].content)
    IN
    /\ pc[p] = "upgrade"
    /\ \/ /\ HelmFails(c)
          /\ InstallOrUpgradeFailed(p)
          /\ UNCHANGED releases
       \/ /\ HelmWorks(c)
          /\ ~changed
          /\ InstallOrUpgradeReturned(p, n, existing[p].status, FALSE)
          /\ UNCHANGED releases
       \/ /\ HelmWorks(c)
          /\ changed
          /\ ~Upgradable(releases[c][n])
          /\ InstallOrUpgradeFailed(p)
          /\ UNCHANGED releases
       \/ /\ clusters[c] = "ready"
          /\ changed
          /\ Upgradable(releases[c][n])
          /\ UseFault("helm")
          /\ InstallOrUpgradeReturned(p, n, "pending-upgrade", TRUE)
          /\ UNCHANGED releases
       \/ /\ HelmWorks(c)
          /\ changed
          /\ Upgradable(releases[c][n])
          /\ SetRelease(c, n, BeginUpgrade(obj[p].content))
          /\ target' = [target EXCEPT ![p] = n]
          /\ pc' = [pc EXCEPT ![p] = "helmRunning"]
          /\ UNCHANGED <<call, failed, obj, existing>>
    /\ UNCHANGED <<api, cache, clusters, before>>

\* The install or upgrade ends, deployed or failed, and records that.
HelmEnds(p) ==
    LET c == obj[p].cluster
        n == target[p]
    IN
    /\ pc[p] = "helmRunning"
    /\ \/ /\ HelmWorks(c)
          /\ SetRelease(c, n, Record(releases[c][n], "deployed", obj[p].content))
          /\ InstallOrUpgradeReturned(p, n, "deployed", FALSE)
       \/ /\ HelmFails(c)
          /\ SetRelease(c, n, Record(releases[c][n], "failed", obj[p].content))
          /\ InstallOrUpgradeReturned(p, n, "failed", TRUE)
    /\ UNCHANGED <<api, cache, clusters, before>>

-----------------------------------------------------------------------------
(* The deletion of a HelmReleaseProxy.                                     *)

RemoveFinalizer(p, o) == Patch(p, [o EXCEPT !.finalizer = FALSE], "removeFinalizer")

\* Mutant: a Cluster that is gone is an error like any other.
DeleteGetCluster_goneFails(p) ==
    LET c == clusters[obj[p].cluster] IN
    /\ pc[p] = "deleteGetCluster"
    /\ \/ /\ c # "ready"
          /\ Patch(p, [obj[p] EXCEPT !.clusterAvailable = "GetClusterFailed"], "deferred")
       \/ /\ c # "gone"
          /\ Goto(p, "reconcileDelete", [obj[p] EXCEPT !.clusterAvailable = "Available"])
    /\ UNCHANGED <<api, cache, clusters, releases, budget, before>>

DeleteGetCluster(p) ==
    LET c == clusters[obj[p].cluster]
        Unavailable(reason) ==
            Patch(p, [obj[p] EXCEPT !.clusterAvailable = reason], "deferred")
    IN
    /\ pc[p] = "deleteGetCluster"
    /\ \/ /\ c = "gone"
          /\ RemoveFinalizer(p, obj[p])
          /\ UNCHANGED budget
       \/ /\ c # "gone"
          /\ UseFault("api")
          /\ Unavailable("GetClusterFailed")
       \/ /\ c \in {"unset", "waiting"}
          /\ Unavailable("GetKubeconfigFailed")
          /\ UNCHANGED budget
       \/ /\ c # "gone"
          /\ Goto(p, "reconcileDelete", [obj[p] EXCEPT !.clusterAvailable = "Available"])
          /\ UNCHANGED budget
    /\ UNCHANGED <<api, cache, clusters, releases, before>>

\* Mutant: the strategy is not looked at.
ReconcileDelete_anyStrategy(p) ==
    LET c == obj[p].cluster
        n == obj[p].releaseName
    IN
    /\ pc[p] = "reconcileDelete"
    /\ IF n # None /\ releases[c][n] # NoRelease
         THEN Goto(p, "uninstall", obj[p])
         ELSE RemoveFinalizer(p, obj[p])
    /\ UNCHANGED <<api, cache, clusters, releases, budget, before>>

\* Mutant: only a deployed release is uninstalled.
ReconcileDelete_deployedOnly(p) ==
    LET c == obj[p].cluster
        n == obj[p].releaseName
    IN
    /\ pc[p] = "reconcileDelete"
    /\ IF n # None /\ releases[c][n].status = "deployed"
         THEN Goto(p, "uninstall", obj[p])
         ELSE RemoveFinalizer(p, obj[p])
    /\ UNCHANGED <<api, cache, clusters, releases, budget, before>>

\* reconcileDelete up to the answer of GetHelmRelease.
ReconcileDelete(p) ==
    LET c == obj[p].cluster
        n == obj[p].releaseName
        deleted == [obj[p] EXCEPT !.releaseReady = "HelmReleaseDeleted"]
    IN
    /\ pc[p] = "reconcileDelete"
    /\ \/ /\ ReconcileStrategy = "InstallOnce"
          /\ RemoveFinalizer(p, obj[p])
          /\ UNCHANGED budget
       \/ /\ ReconcileStrategy # "InstallOnce"
          /\ \/ /\ n = None
                /\ RemoveFinalizer(p, deleted)
                /\ UNCHANGED budget
             \/ /\ n # None
                /\ HelmWorks(c)
                /\ releases[c][n] = NoRelease
                /\ RemoveFinalizer(p, deleted)
             \/ /\ n # None
                /\ HelmFails(c)
                /\ Patch(p, [obj[p] EXCEPT !.releaseReady = "HelmReleaseGetFailed"], "deferred")
             \/ /\ n # None
                /\ HelmWorks(c)
                /\ releases[c][n] # NoRelease
                /\ Goto(p, "uninstall", obj[p])
    /\ UNCHANGED <<api, cache, clusters, releases, before>>

DeletionFailed(p) ==
    Patch(p, [obj[p] EXCEPT !.releaseReady = "HelmReleaseDeletionFailed"], "deferred")

\* UninstallHelmRelease up to the write of the uninstalling release.  A release
\* that is already uninstalled is only purged.
Uninstall(p) ==
    LET c == obj[p].cluster
        n == obj[p].releaseName
        release == releases[c][n]
    IN
    /\ pc[p] = "uninstall"
    /\ \/ /\ HelmFails(c)
          /\ DeletionFailed(p)
          /\ UNCHANGED releases
       \/ /\ HelmWorks(c)
          /\ ~Uninstallable(release, obj[p].keepHistory)
          /\ DeletionFailed(p)
          /\ UNCHANGED releases
       \/ /\ HelmWorks(c)
          /\ Uninstallable(release, obj[p].keepHistory)
          /\ release.status = "uninstalled"
          /\ SetRelease(c, n, NoRelease)
          /\ RemoveFinalizer(p, [obj[p] EXCEPT !.releaseReady = "HelmReleaseDeleted"])
       \/ /\ HelmWorks(c)
          /\ Uninstallable(release, obj[p].keepHistory)
          /\ release.status # "uninstalled"
          /\ SetRelease(c, n, BeginUninstall(release))
          /\ Goto(p, "helmUninstalling", obj[p])
    /\ UNCHANGED <<api, cache, clusters, before>>

\* The uninstall ends: done; failed half way, the release left uninstalling;
\* or done but with an error (a hook that runs after the deletion failed).
UninstallEnds(p) ==
    LET c == obj[p].cluster
        n == obj[p].releaseName
        ended == EndUninstall(releases[c][n], obj[p].keepHistory)
    IN
    /\ pc[p] = "helmUninstalling"
    /\ \/ /\ HelmWorks(c)
          /\ SetRelease(c, n, ended)
          /\ RemoveFinalizer(p, [obj[p] EXCEPT !.releaseReady = "HelmReleaseDeleted"])
       \/ /\ HelmFails(c)
          /\ DeletionFailed(p)
          /\ UNCHANGED releases
       \/ /\ clusters[c] = "ready"
          /\ UseFault("helm")
          /\ SetRelease(c, n, ended)
          /\ DeletionFailed(p)
    /\ UNCHANGED <<api, cache, clusters, before>>

-----------------------------------------------------------------------------
(***************************************************************************)
(* The manager process: its cache follows the API server, and it may stop  *)
(* at any point and start again with a cache it has just filled.           *)
(***************************************************************************)
CacheSync(p) ==
    /\ cache[p] # api[p]
    /\ cache' = [cache EXCEPT ![p] = api[p]]
    /\ UNCHANGED <<api, clusters, releases, budget, locals>>

Crash ==
    /\ UseFault("crash")
    /\ cache' = api
    /\ pc' = [p \in Proxy |-> "idle"]
    /\ call' = [p \in Proxy |-> "deferred"]
    /\ failed' = [p \in Proxy |-> FALSE]
    /\ before' = [p \in Proxy |-> None]
    /\ obj' = [p \in Proxy |-> None]
    /\ existing' = [p \in Proxy |-> NoRelease]
    /\ target' = [p \in Proxy |-> None]
    /\ UNCHANGED <<api, clusters, releases>>

-----------------------------------------------------------------------------
(***************************************************************************)
(* The owner of the objects, the HelmChartProxy controller.  It works from *)
(* the cache; an update carries the version it read and is refused when    *)
(* that is not the current one.  A name is used again only once nothing    *)
(* remembers the old object, which is the same as a new name.              *)
(***************************************************************************)
CreateProxy(p, c, n, content, keepHistory) ==
    /\ ~Exists(p)
    /\ cache[p] = None
    /\ pc[p] = "idle"
    /\ \A q \in Proxy : \A o \in {api[q], cache[q]} :
           o # None /\ o.cluster = c => n = None \/ o.releaseName # n
    /\ api' = [api EXCEPT ![p] =
         [cluster |-> c, content |-> content, keepHistory |-> keepHistory,
          releaseName |-> n, generated |-> FALSE, installed |-> FALSE,
          finalizer |-> FALSE, deleting |-> FALSE,
          generation |-> 1, observed |-> 0,
          clusterAvailable |-> None, releaseReady |-> None]]
    /\ UNCHANGED <<cache, clusters, releases, budget, locals>>

UpdateProxy(p, content, keepHistory) ==
    /\ Exists(p)
    /\ cache[p] = api[p]
    /\ ~(ReconcileStrategy = "InstallOnce" /\ api[p].installed)
    /\ content # api[p].content
    /\ api[p].generation < MaxGeneration
    /\ api' = [api EXCEPT ![p] = [api[p] EXCEPT
                  !.content = content, !.keepHistory = keepHistory,
                  !.generation = @ + 1]]
    /\ UNCHANGED <<cache, clusters, releases, budget, locals>>

DeleteProxy(p) ==
    /\ Exists(p)
    /\ ~api[p].deleting
    /\ api' = [api EXCEPT ![p] = Stored([api[p] EXCEPT
                  !.deleting = TRUE, !.generation = @ + 1])]
    /\ UNCHANGED <<cache, clusters, releases, budget, locals>>

\* The control plane comes up.
ClusterReady(c) ==
    /\ clusters[c] \in {"unset", "waiting"}
    /\ clusters' = [clusters EXCEPT ![c] = "ready"]
    /\ UNCHANGED <<api, cache, releases, budget, locals>>

\* The Cluster is deleted, and everything in it.
ClusterGone(c) ==
    /\ clusters[c] # "gone"
    /\ clusters' = [clusters EXCEPT ![c] = "gone"]
    /\ releases' = [releases EXCEPT ![c] = [n \in Name |-> NoRelease]]
    /\ UNCHANGED <<api, cache, budget, locals>>

-----------------------------------------------------------------------------
\* The steps of p's worker.
WorkerStep(p) ==
    \/ Reconcile(p) \/ Examine(p) \/ GetCluster(p)
    \/ ReconcileNormal(p) \/ Install(p) \/ Upgrade(p) \/ HelmEnds(p)
    \/ DeleteGetCluster(p) \/ ReconcileDelete(p) \/ Uninstall(p) \/ UninstallEnds(p)
    \/ PatchConditions(p) \/ PatchObject(p) \/ PatchStatus(p) \/ PatchReturns(p)

Owner(p) ==
    \/ \E c \in Cluster, n \in SpecName, content \in Content, keep \in KeepHistory :
           CreateProxy(p, c, n, content, keep)
    \/ \E content \in Content, keep \in KeepHistory : UpdateProxy(p, content, keep)
    \/ DeleteProxy(p)

Next ==
    \/ \E p \in Proxy : WorkerStep(p) \/ CacheSync(p) \/ Owner(p)
    \/ \E c \in Cluster : ClusterReady(c) \/ ClusterGone(c)
    \/ Crash

Spec == Init /\ [][Next]_vars

\* Work queued for an object is done: watch events and the periodic resync keep
\* queueing it, and the informer catches up with the API server.
Fairness == \A p \in Proxy : WF_vars(WorkerStep(p)) /\ WF_vars(CacheSync(p))

FairSpec == Spec /\ Fairness

-----------------------------------------------------------------------------
(* Properties.                                                             *)

Owns(p, c, n) ==
    /\ Exists(p)
    /\ api[p].finalizer
    /\ api[p].cluster = c
    /\ api[p].releaseName = n

\* No release with a name from a spec is left behind: while Helm keeps it in a
\* Cluster, a HelmReleaseProxy with the finalizer names it, so that a deletion
\* will find it (Continuous).  Whatever is lost, retried, stale or interrupted:
\* the finalizer is there before Helm starts and stays until Helm is done.
NamedReleaseOwned ==
    ReconcileStrategy = "Continuous" =>
        \A c \in Cluster, n \in UserName :
            Live(releases[c][n]) => \E p \in Proxy : Owns(p, c, n)

\* The same for names Helm generates, which the controller learns from Helm and
\* has to write back: until it has, the worker itself knows the name.
GeneratedReleaseOwned ==
    ReconcileStrategy = "Continuous" =>
        \A c \in Cluster, n \in GeneratedName :
            Live(releases[c][n]) =>
                \E p \in Proxy :
                    \/ Owns(p, c, n)
                    \/ /\ Exists(p)
                       /\ api[p].finalizer
                       /\ api[p].cluster = c
                       /\ pc[p] # "idle"
                       /\ n \in {target[p], obj[p].releaseName}

\* Without a crash none is left behind, whatever fails in Helm or before it: the
\* name of a release that failed is written back as well.
GeneratedReleaseOwnedUntilCrash ==
    budget["crash"] = MaxFault["crash"] => GeneratedReleaseOwned

\* Helm is asked to install or upgrade only for an object that is in the API
\* server with the finalizer at that moment, though the worker decided that
\* from a copy that may have been outdated when it was read.
FinalizerGuardsHelm ==
    \A p \in Proxy :
        pc[p] \in {"reconcileNormal", "install", "upgrade", "helmRunning"} =>
            Exists(p) /\ api[p].finalizer

Ready(o) == o.clusterAvailable = "Available" /\ o.releaseReady = "Ready"

Deployed(o) ==
    /\ o.releaseName # None
    /\ releases[o.cluster][o.releaseName] = [status |-> "deployed", content |-> o.content]

\* A HelmReleaseProxy that names its release, whose status is about its current
\* spec and says Ready, has that spec's chart deployed under that name.
StatusHonest ==
    \A p \in Proxy :
        /\ Exists(p)
        /\ Ready(api[p])
        /\ api[p].observed = api[p].generation
        /\ api[p].releaseName # None
        /\ clusters[api[p].cluster] # "gone"
        => Deployed(api[p])

\* InstallOnce: while its Cluster exists a release is never taken down, and once
\* its HelmReleaseProxy is marked as installed it is never touched again.
InstalledOnceIsFinal ==
    [][ReconcileStrategy = "InstallOnce" =>
         \A c \in Cluster, n \in Name :
           clusters'[c] # "gone" =>
             /\ Live(releases[c][n]) => Live(releases'[c][n])
             /\ (\E p \in Proxy : Owns(p, c, n) /\ api[p].installed)
                  => releases'[c][n] = releases[c][n]]_vars

\* The deletion of a HelmReleaseProxy completes when its Cluster can be reached
\* or is gone, however often a step of it fails or is interrupted.
DeletionCompletes ==
    \A p \in Proxy :
        (Exists(p) /\ api[p].deleting /\ clusters[api[p].cluster] \in {"ready", "gone"})
            ~> ~Exists(p)

\* A HelmReleaseProxy on a Cluster that is up reports Ready for its current spec,
\* with the chart deployed, unless it is deleted or the Cluster goes away: a
\* release that a crash left pending is recovered, a failed one tried again.
EventuallyReady ==
    \A p \in Proxy :
        (Exists(p) /\ clusters[api[p].cluster] = "ready")
            ~> \/ ~Exists(p)
               \/ api[p].deleting
               \/ clusters[api[p].cluster] = "gone"
               \/ /\ Ready(api[p])
                  /\ api[p].observed = api[p].generation
                  /\ Deployed(api[p])

-----------------------------------------------------------------------------
(***************************************************************************)
(* Why no named release is left behind: the inductive invariant behind     *)
(* NamedReleaseOwned and FinalizerGuardsHelm, part by part.                *)
(***************************************************************************)
Running(p) == pc[p] # "idle"
Holds(p) == Exists(p) /\ api[p].finalizer

\* The worker is past the uninstall and about to give up the object.
Releasing(p) == Running(p) /\ obj[p].deleting /\ ~obj[p].finalizer

NormalBranch == {"getCluster", "reconcileNormal", "install", "upgrade", "helmRunning"}
DeleteBranch == {"deleteGetCluster", "reconcileDelete", "uninstall", "helmUninstalling"}
PatchSteps == {"patchConditions", "patchObject", "patchStatus", "patched"}

\* Copies of one object agree on its Cluster and on a name from a spec.
SameName(n, m) == n \in UserName \/ m \in UserName => n = m

Agree(o, q) == o.cluster = q.cluster /\ SameName(o.releaseName, q.releaseName)

GoneIsEmpty ==
    \A c \in Cluster : clusters[c] = "gone" => \A n \in Name : releases[c][n] = NoRelease

DeletingHasFinalizer ==
    \A p \in Proxy : /\ Exists(p) /\ api[p].deleting => api[p].finalizer
                     /\ cache[p] # None /\ cache[p].deleting => cache[p].finalizer

CopiesAgree ==
    \A p \in Proxy :
        /\ Exists(p) /\ cache[p] # None => Agree(cache[p], api[p])
        /\ Exists(p) /\ Running(p) => Agree(obj[p], api[p]) /\ Agree(before[p], api[p])
        /\ Running(p) => Agree(before[p], obj[p])
        /\ Running(p) => obj[p].deleting = before[p].deleting
        /\ pc[p] = "helmRunning" => SameName(target[p], obj[p].releaseName)

\* Deletion is seen in order: by the API server, the cache, the worker.
DeletionInOrder ==
    \A p \in Proxy :
        /\ cache[p] # None /\ cache[p].deleting /\ Exists(p) => api[p].deleting
        /\ Running(p) /\ obj[p].deleting =>
             /\ Exists(p) => api[p].deleting
             /\ cache[p] # None => cache[p].deleting

\* A finalizer that was seen on an object not under deletion is still there.
FinalizerStays ==
    \A p \in Proxy :
        /\ cache[p] # None /\ cache[p].finalizer /\ ~cache[p].deleting => Holds(p)
        /\ Running(p) /\ before[p].finalizer /\ ~obj[p].deleting => Holds(p)

WorkerInBranch ==
    \A p \in Proxy :
        /\ pc[p] \in NormalBranch => ~obj[p].deleting /\ Holds(p)
        /\ pc[p] \in DeleteBranch => obj[p].deleting
        /\ pc[p] = "examine" => obj[p].finalizer = before[p].finalizer
        /\ Running(p) /\ ~obj[p].deleting /\ ~obj[p].finalizer => ~before[p].finalizer
        /\ pc[p] \in PatchSteps /\ call[p] = "initializeConditions"
             => obj[p].finalizer = before[p].finalizer
        /\ pc[p] \in PatchSteps /\ call[p] = "ensureFinalizer"
             => ~obj[p].deleting /\ obj[p].finalizer /\ ~before[p].finalizer
        /\ pc[p] \in {"patchStatus", "patched"} /\ call[p] = "ensureFinalizer" /\ ~failed[p]
             => Holds(p)

NamedOwner ==
    ReconcileStrategy = "Continuous" =>
        \A c \in Cluster, n \in UserName :
            Live(releases[c][n]) => \E p \in Proxy : Owns(p, c, n) /\ ~Releasing(p)

\* The worker never gives up a finalizer while its release may be there, seen
\* together with what each copy of an object may lag behind by.
OwnershipInv ==
    /\ GoneIsEmpty
    /\ DeletingHasFinalizer
    /\ CopiesAgree
    /\ DeletionInOrder
    /\ FinalizerStays
    /\ WorkerInBranch
    /\ NamedOwner
=============================================================================
