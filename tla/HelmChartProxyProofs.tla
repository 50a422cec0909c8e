------------------------- MODULE HelmChartProxyProofs -------------------------
(***************************************************************************)
(* Type correctness of HelmChartProxy, for any number of HelmReleaseProxies *)
(* and Clusters, any specifications, faults and cache lag.                 *)
(***************************************************************************)
EXTENDS HelmChartProxy, TLAPS

ClusterState == [label : Label, paused : BOOLEAN, phase : {"live", "deleting", "gone"}]

WorldOK ==
    /\ hcp \in HCP \union {None}
    /\ proxies \in [Proxy -> HRP \union {None}]
    /\ cache \in [Proxy -> HRP \union {None}]
    /\ clusters \in [Cluster -> ClusterState]
    /\ budget \in [Event -> Nat]

\* TypeOK leaves open what the worker knows of the Cluster in hand, and of the
\* HelmReleaseProxy it updates.
LocalsOK ==
    /\ pc \in PC
    /\ call \in Call
    /\ failed \in BOOLEAN
    /\ before \in HCP \union {None}
    /\ obj \in HCP \union {None}
    /\ todo \subseteq Cluster \X Label
    /\ doomed \subseteq Proxy
    /\ remaining \subseteq Proxy
    /\ existing \in Existing
    /\ pc # "idle" => obj \in HCP /\ before \in HCP
    /\ pc \in {"reinstall", "createOrUpdate"} => existing.cluster \in Cluster
    /\ pc \in {"reinstall", "validateDeletion"} => existing.proxy \in Proxy
    /\ pc \in {"reinstall", "createOrUpdate"} => existing.label \in Label
    /\ pc = "createOrUpdate" /\ existing.proxy # None => existing.copy \in HRP

TypeInv == WorldOK /\ LocalsOK

\* The strengthened invariant is a type invariant.
LEMMA TypeInvImpliesTypeOK == TypeInv => TypeOK
  BY DEF TypeInv, WorldOK, LocalsOK, TypeOK, ClusterState

-----------------------------------------------------------------------------
(* The operators the actions are built from keep the types.                *)

\* No HelmReleaseProxy in hand.
LEMMA NoExistingType == NoExisting \in Existing
  BY DEF NoExisting, Existing

\* The defaulting webhook keeps a specification, and an object, what it is.
LEMMA DefaultType ==
    /\ \A spec \in HelmChartProxySpec : Default(spec) \in HelmChartProxySpec
    /\ \A h \in HRP : Default(h) \in HRP
  BY DEF Default, HelmChartProxySpec, HRP, ReleaseNamespace

\* Secrets of the object's own namespace are references.
LEMMA OwnNamespaceType == \A secret : OwnNamespace(secret) \in SecretReference
  BY DEF OwnNamespace, SecretReference

\* What constructHelmReleaseProxy makes is an object, new or updated.
LEMMA ConstructedType ==
    ASSUME NEW spec \in HelmChartProxySpec, NEW label \in Label
    PROVE  /\ \A c \in Cluster : NewHelmReleaseProxy(c, label, spec) \in HRP
           /\ \A h \in HRP : UpdatedHelmReleaseProxy(h, label, spec) \in HRP
  <1>1. OwnNamespace(spec.secret) \in SecretReference
    BY OwnNamespaceType
  <1>2. ASSUME NEW c \in Cluster
        PROVE  NewHelmReleaseProxy(c, label, spec) \in HRP
    BY <1>1 DEF NewHelmReleaseProxy, HRP, HelmChartProxySpec, ReleaseName
  <1>3. ASSUME NEW h \in HRP
        PROVE  UpdatedHelmReleaseProxy(h, label, spec) \in HRP
    <2>1. h.generation + 1 \in Nat
      BY DEF HRP
    <2>2. spec.content \in Content /\ spec.options \in Options
      BY DEF HelmChartProxySpec
    <2> QED
      BY <1>1, <2>1, <2>2 DEF UpdatedHelmReleaseProxy, HRP
  <1> QED
    BY <1>2, <1>3

\* A new HelmChartProxy is an object.
LEMMA NewHCPType == \A spec \in HelmChartProxySpec : NewHCP(spec) \in HCP
  BY DEF NewHCP, HCP

\* Deletion keeps an object what it is, or removes it.
LEMMA DeletedType ==
    /\ \A h \in HRP : Deleted(h) \in HRP /\ Stored(Deleted(h)) \in HRP \union {None}
    /\ \A o \in HCP : Deleted(o) \in HCP /\ Stored(Deleted(o)) \in HCP \union {None}
  <1>1. ASSUME NEW h \in HRP
        PROVE  Deleted(h) \in HRP
    <2>1. (IF h.deleting THEN h.generation ELSE h.generation + 1) \in Nat
      BY DEF HRP
    <2> QED
      BY <2>1 DEF Deleted, HRP
  <1>2. ASSUME NEW o \in HCP
        PROVE  Deleted(o) \in HCP
    <2>1. (IF o.deleting THEN o.generation ELSE o.generation + 1) \in Nat
      BY DEF HCP
    <2> QED
      BY <2>1 DEF Deleted, HCP
  <1> QED
    BY <1>1, <1>2 DEF Stored

\* The fields the controller sets keep an object well-typed.
LEMMA FieldTypes ==
    ASSUME NEW o \in HCP
    PROVE  /\ \A r \in SpecsUpToDateReason : [o EXCEPT !.specs = r] \in HCP
           /\ \A r \in {"Ready", "NotReady"} : [o EXCEPT !.releases = r] \in HCP
           /\ \A f \in BOOLEAN : [o EXCEPT !.finalizer = f] \in HCP
           /\ \A m \in SUBSET Cluster : [o EXCEPT !.matching = m] \in HCP
  BY DEF HCP

\* What the requests of a patch make of the stored object is an object.
LEMMA PatchedType ==
    ASSUME NEW a \in HCP, NEW b \in HCP, NEW o \in HCP
    PROVE  /\ PatchedConditions(a, b, o) \in HCP
           /\ Stored([a EXCEPT !.finalizer = o.finalizer]) \in HCP \union {None}
           /\ PatchedStatus(a, b, o) \in HCP
  <1>1. /\ Merge(a.specs, b.specs, o.specs) \in SpecsUpToDateReason \union {None}
        /\ Merge(a.releases, b.releases, o.releases) \in {"Ready", "NotReady", None}
        /\ Merge(a.observed, b.observed, o.generation) \in Nat
        /\ Merge(a.matching, b.matching, o.matching) \in SUBSET Cluster
    BY DEF Merge, HCP
  <1>2. [a EXCEPT !.finalizer = o.finalizer] \in HCP
    BY DEF HCP
  <1> QED
    BY <1>1, <1>2 DEF HCP, Stored, PatchedConditions, PatchedStatus

\* An event that is used is one less to come.
LEMMA UseType ==
    ASSUME budget \in [Event -> Nat], NEW kind \in Event, Use(kind)
    PROVE  budget' \in [Event -> Nat]
  <1>1. budget[kind] \in Nat /\ budget[kind] > 0 /\ budget' = [budget EXCEPT ![kind] = @ - 1]
    BY DEF Use
  <1>2. budget[kind] - 1 \in Nat
    BY <1>1
  <1> QED
    BY <1>1, <1>2

\* What a list returns are objects.
LEMMA ListedType ==
    ASSUME WorldOK
    PROVE  Listed \in [Proxy -> HRP \union {None}]
  BY DEF WorldOK, Listed

\* A deletion keeps the table of objects.
LEMMA DeleteHelmReleaseProxyType ==
    ASSUME proxies \in [Proxy -> HRP \union {None}], NEW p \in Proxy,
           DeleteHelmReleaseProxy(p)
    PROVE  proxies' \in [Proxy -> HRP \union {None}]
  <1>1. (IF Exists(p) THEN Stored(Deleted(proxies[p])) ELSE None) \in HRP \union {None}
    BY DeletedType DEF Exists
  <1> QED
    BY <1>1 DEF DeleteHelmReleaseProxy

\* A worker that starts a patch keeps the types of its locals.
LEMMA PatchKeepsLocals ==
    ASSUME LocalsOK, NEW o \in HCP, NEW k \in Call, Patch(o, k),
           before' \in HCP, todo' \subseteq Cluster \X Label, doomed' \subseteq Proxy,
           remaining' \subseteq Proxy
    PROVE  LocalsOK'
  BY NoExistingType DEF Patch, LocalsOK, PC

\* So does one that returns.
LEMMA ReturnKeepsLocals ==
    ASSUME LocalsOK, pc # "idle", NEW o \in HCP, Return(o), UNCHANGED before
    PROVE  LocalsOK'
  BY PatchKeepsLocals DEF Return, LocalsOK, Call

\* A request of the patch keeps the types it writes.
LEMMA RequestType ==
    ASSUME WorldOK, LocalsOK, NEW nothing, NEW admitted, NEW new,
           hcp # None => new \in HCP \union {None},
           Request(nothing, admitted, new)
    PROVE  /\ hcp' \in HCP \union {None}
           /\ failed' \in BOOLEAN
           /\ budget' \in [Event -> Nat]
  <1>1. Use("api") => budget' \in [Event -> Nat]
    BY UseType DEF WorldOK, Event
  <1> QED
    BY <1>1 DEF Request, WorldOK, LocalsOK

-----------------------------------------------------------------------------
(* Each step of the worker keeps the invariant.                            *)

\* The three requests of a patch.
LEMMA PatchStepsType ==
    ASSUME TypeInv, PatchConditions \/ PatchObject \/ PatchStatus
    PROVE  TypeInv'
  <1>1. obj \in HCP /\ before \in HCP
    BY DEF TypeInv, LocalsOK, PatchConditions, PatchObject, PatchStatus
  <1>2. /\ hcp' \in HCP \union {None}
        /\ failed' \in BOOLEAN
        /\ budget' \in [Event -> Nat]
    <2>1. hcp # None => hcp \in HCP
      BY DEF TypeInv, WorldOK
    <2>2. CASE PatchConditions
      BY <1>1, <2>1, <2>2, PatchedType, RequestType DEF TypeInv, PatchConditions
    <2>3. CASE PatchObject
      BY <1>1, <2>1, <2>3, PatchedType, RequestType DEF TypeInv, PatchObject
    <2>4. CASE PatchStatus
      BY <1>1, <2>1, <2>4, PatchedType, RequestType DEF TypeInv, PatchStatus
    <2> QED
      BY <2>2, <2>3, <2>4
  <1>3. WorldOK'
    BY <1>2 DEF TypeInv, WorldOK, PatchConditions, PatchObject, PatchStatus
  <1>4. LocalsOK'
    BY <1>2 DEF TypeInv, LocalsOK, PC, PatchConditions, PatchObject, PatchStatus
  <1> QED
    BY <1>3, <1>4 DEF TypeInv

\* The return from a patch.
LEMMA PatchReturnsType ==
    ASSUME TypeInv, PatchReturns
    PROVE  TypeInv'
  <1>1. obj \in HCP /\ before \in HCP /\ pc # "idle"
    BY DEF TypeInv, LocalsOK, PatchReturns
  <1>2. WorldOK'
    BY DEF TypeInv, WorldOK, PatchReturns
  <1>3. Return(obj) /\ UNCHANGED before => LocalsOK'
    BY <1>1, ReturnKeepsLocals DEF TypeInv
  <1>4. LocalsOK'
    BY <1>1, <1>3 DEF TypeInv, LocalsOK, PC, PatchReturns
  <1> QED
    BY <1>2, <1>4 DEF TypeInv

\* The start of a reconcile.
LEMMA ReconcileType ==
    ASSUME TypeInv, Reconcile
    PROVE  TypeInv'
  BY DEF TypeInv, WorldOK, LocalsOK, Reconcile, PC

\* The list of Clusters.
LEMMA ListClustersType ==
    ASSUME TypeInv, ListClusters
    PROVE  TypeInv'
  <1>1. obj \in HCP /\ before \in HCP /\ pc # "idle"
    BY DEF TypeInv, LocalsOK, ListClusters
  <1>2. budget' \in [Event -> Nat]
    BY UseType DEF TypeInv, WorldOK, ListClusters, Event
  <1>3. WorldOK'
    BY <1>2 DEF TypeInv, WorldOK, ListClusters
  <1>4. ASSUME Return([obj EXCEPT !.specs = "ClusterSelectionFailed"])
        PROVE  LocalsOK'
    <2>1. [obj EXCEPT !.specs = "ClusterSelectionFailed"] \in HCP
      BY <1>1, FieldTypes DEF SpecsUpToDateReason
    <2> QED
      BY <1>1, <1>4, <2>1, ReturnKeepsLocals DEF TypeInv, ListClusters
  <1>5. ASSUME obj' = [obj EXCEPT !.matching = Selected(obj)],
               todo' = {<<c, clusters[c].label>> :
                         c \in {d \in Selected(obj) : /\ clusters[d].phase # "deleting"
                                                      /\ ~clusters[d].paused
                                                      /\ ~obj.spec.paused}},
               pc' = "listReleases",
               UNCHANGED <<budget, call, failed, doomed, remaining, existing>>
        PROVE  LocalsOK'
    <2>1. Selected(obj) \subseteq Cluster
      BY DEF Selected
    <2>2. obj' \in HCP
      BY <1>1, <1>5, <2>1, FieldTypes
    <2>3. \A c \in Cluster : clusters[c].label \in Label
      BY DEF TypeInv, WorldOK, ClusterState
    <2>4. todo' \subseteq Cluster \X Label
      BY <1>5, <2>1, <2>3
    <2>5. before' = before
      BY DEF ListClusters
    <2> QED
      BY <1>1, <1>5, <2>2, <2>4, <2>5 DEF TypeInv, LocalsOK, PC
  <1>6. LocalsOK'
    BY <1>4, <1>5 DEF ListClusters
  <1> QED
    BY <1>3, <1>6 DEF TypeInv

\* The list of HelmReleaseProxies.
LEMMA ListReleasesType ==
    ASSUME TypeInv, ListReleases
    PROVE  TypeInv'
  <1>1. obj \in HCP /\ before \in HCP /\ pc # "idle"
    BY DEF TypeInv, LocalsOK, ListReleases
  <1>2. budget' \in [Event -> Nat]
    BY UseType DEF TypeInv, WorldOK, ListReleases, Event
  <1>3. WorldOK'
    BY <1>2 DEF TypeInv, WorldOK, ListReleases
  <1>4. Releases \subseteq Proxy /\ Orphaned(obj) \subseteq Proxy
    BY DEF Releases, Orphaned
  <1>5. [obj EXCEPT !.finalizer = TRUE] \in HCP
    BY <1>1, FieldTypes
  <1>6. before' = before
    BY DEF ListReleases
  <1>7. CASE Use("api") /\ Return(obj)
    BY <1>1, <1>3, <1>6, <1>7, ReturnKeepsLocals DEF TypeInv
  <1>8. CASE /\ Patch([obj EXCEPT !.finalizer = TRUE], "ensureFinalizer")
             /\ doomed' = IF ReconcileStrategy = "InstallOnce" THEN {} ELSE Orphaned(obj)
             /\ UNCHANGED <<budget, todo, remaining>>
    <2>1. doomed' \subseteq Proxy
      BY <1>4, <1>8
    <2>2. LocalsOK'
      BY <1>1, <1>5, <1>6, <1>8, <2>1, PatchKeepsLocals DEF TypeInv, LocalsOK, Call
    <2> QED
      BY <1>3, <2>2 DEF TypeInv
  <1>9. CASE /\ pc' = "deleteOrphans"
             /\ doomed' = IF ReconcileStrategy = "InstallOnce" THEN {} ELSE Orphaned(obj)
             /\ UNCHANGED <<budget, call, failed, obj, todo, remaining, existing>>
    BY <1>1, <1>3, <1>4, <1>6, <1>9 DEF TypeInv, LocalsOK, PC
  <1>10. CASE /\ pc' = "deleteRelease"
              /\ doomed' = Releases
              /\ todo' = {}
              /\ UNCHANGED <<budget, call, failed, obj, remaining, existing>>
    BY <1>1, <1>3, <1>4, <1>6, <1>10 DEF TypeInv, LocalsOK, PC
  <1> QED
    BY <1>3, <1>7, <1>8, <1>9, <1>10 DEF TypeInv, ListReleases

\* The deletion of the orphans.
LEMMA DeleteOrphanType ==
    ASSUME TypeInv, NEW p, DeleteOrphan(p) \/ OrphansDeleted
    PROVE  TypeInv'
  <1>1. obj \in HCP /\ before \in HCP /\ pc # "idle" /\ before' = before
    BY DEF TypeInv, LocalsOK, DeleteOrphan, OrphansDeleted
  <1>2. budget' \in [Event -> Nat]
    BY UseType DEF TypeInv, WorldOK, DeleteOrphan, OrphansDeleted, Event
  <1>3. proxies' \in [Proxy -> HRP \union {None}]
    BY DeleteHelmReleaseProxyType
       DEF TypeInv, WorldOK, LocalsOK, DeleteOrphan, OrphansDeleted
  <1>4. WorldOK'
    BY <1>2, <1>3 DEF TypeInv, WorldOK, DeleteOrphan, OrphansDeleted
  <1>5. [obj EXCEPT !.specs = "HelmReleaseProxyDeletionFailed"] \in HCP
    BY <1>1, FieldTypes DEF SpecsUpToDateReason
  <1>6. Return([obj EXCEPT !.specs = "HelmReleaseProxyDeletionFailed"]) => LocalsOK'
    BY <1>1, <1>5, ReturnKeepsLocals DEF TypeInv
  <1>7. LocalsOK'
    BY <1>1, <1>6 DEF TypeInv, LocalsOK, PC, DeleteOrphan, OrphansDeleted
  <1> QED
    BY <1>4, <1>7 DEF TypeInv

\* getExistingHelmReleaseProxy.
LEMMA ForClusterType ==
    ASSUME TypeInv, NEW c \in Cluster, NEW label \in Label, ForCluster(c, label)
    PROVE  TypeInv'
  <1>1. obj \in HCP /\ before \in HCP /\ pc # "idle" /\ before' = before
    BY DEF TypeInv, LocalsOK, ForCluster
  <1>2. budget' \in [Event -> Nat]
    BY UseType DEF TypeInv, WorldOK, ForCluster, Event
  <1>3. WorldOK'
    BY <1>2 DEF TypeInv, WorldOK, ForCluster
  <1>4. Return(obj) => LocalsOK'
    BY <1>1, ReturnKeepsLocals DEF TypeInv
  <1> DEFINE this == [NoExisting EXCEPT !.cluster = c, !.label = label]
             found == {p \in Releases : Listed[p].cluster = c}
  <1>5. \A p \in found : p \in Proxy /\ Listed[p] \in HRP
    BY ListedType DEF Releases, TypeInv
  <1>6. /\ this \in Existing /\ this.cluster = c /\ this.label = label /\ this.proxy = None
        /\ \A p \in found :
             LET e == [this EXCEPT !.proxy = p, !.copy = Listed[p]] IN
             /\ e \in Existing
             /\ e.cluster = c /\ e.label = label /\ e.proxy = p /\ e.copy = Listed[p]
    BY <1>5 DEF NoExisting, Existing
  <1> HIDE DEF this, found
  <1>7. ASSUME todo' = todo \ {<<c, label>>},
               UNCHANGED <<call, failed, obj, doomed, remaining>>,
               \/ UNCHANGED <<pc, existing>>
               \/ /\ pc' = "reinstall"
                  /\ \E p \in found : existing' = [this EXCEPT !.proxy = p, !.copy = Listed[p]]
               \/ /\ pc' = "createOrUpdate"
                  /\ \/ existing' = this
                     \/ \E p \in found :
                          existing' = [this EXCEPT !.proxy = p, !.copy = Listed[p]]
        PROVE  LocalsOK'
    <2>1. /\ todo' \subseteq Cluster \X Label
          /\ pc \in PC /\ call' \in Call /\ failed' \in BOOLEAN /\ doomed' \subseteq Proxy
          /\ remaining' \subseteq Proxy /\ existing \in Existing
          /\ obj' \in HCP /\ before' \in HCP
      BY <1>1, <1>7 DEF TypeInv, LocalsOK
    <2>2. CASE UNCHANGED <<pc, existing>>
      BY <2>1, <2>2 DEF TypeInv, LocalsOK
    <2>3. CASE /\ pc' = "createOrUpdate"
               /\ existing' = this
      BY <2>1, <2>3, <1>6 DEF LocalsOK, PC
    <2>4. CASE /\ pc' \in {"reinstall", "createOrUpdate"}
               /\ \E p \in found : existing' = [this EXCEPT !.proxy = p, !.copy = Listed[p]]
      <3>1. PICK p \in found : existing' = [this EXCEPT !.proxy = p, !.copy = Listed[p]]
        BY <2>4
      <3>2. /\ existing' \in Existing
            /\ existing'.cluster \in Cluster /\ existing'.label \in Label
            /\ existing'.proxy \in Proxy /\ existing'.copy \in HRP
        BY <3>1, <1>5, <1>6
      <3> QED
        BY <2>1, <2>4, <3>2 DEF LocalsOK, PC
    <2> QED
      BY <1>7, <2>2, <2>3, <2>4
  <1>8. LocalsOK'
    BY <1>4, <1>7 DEF ForCluster, this, found
  <1> QED
    BY <1>3, <1>8 DEF TypeInv

\* The deletion of a HelmReleaseProxy that is to be replaced.
LEMMA ReinstallType ==
    ASSUME TypeInv, Reinstall
    PROVE  TypeInv'
  <1>1. /\ obj \in HCP /\ before \in HCP /\ pc # "idle" /\ before' = before
        /\ existing.proxy \in Proxy
    BY DEF TypeInv, LocalsOK, Reinstall
  <1>2. budget' \in [Event -> Nat]
    BY UseType DEF TypeInv, WorldOK, Reinstall, Event
  <1>3. proxies' \in [Proxy -> HRP \union {None}]
    BY <1>1, DeleteHelmReleaseProxyType DEF TypeInv, WorldOK, Reinstall
  <1>4. WorldOK'
    BY <1>2, <1>3 DEF TypeInv, WorldOK, Reinstall
  <1>5. /\ [obj EXCEPT !.specs = "HelmReleaseProxyDeletionFailed"] \in HCP
        /\ [obj EXCEPT !.specs = "HelmReleaseProxyReinstalling"] \in HCP
    BY <1>1, FieldTypes DEF SpecsUpToDateReason
  <1>6. Return([obj EXCEPT !.specs = "HelmReleaseProxyDeletionFailed"]) => LocalsOK'
    BY <1>1, <1>5, ReturnKeepsLocals DEF TypeInv
  <1>7. LocalsOK'
    BY <1>1, <1>5, <1>6, NoExistingType DEF TypeInv, LocalsOK, PC, Reinstall
  <1> QED
    BY <1>4, <1>7 DEF TypeInv

\* What the worker constructs is an object.
LEMMA ConstructedIsObject ==
    ASSUME TypeInv, pc = "createOrUpdate"
    PROVE  Constructed \in HRP /\ Default(Constructed) \in HRP
  <1>1. /\ obj.spec \in HelmChartProxySpec /\ existing.cluster \in Cluster
        /\ existing.label \in Label
        /\ existing.proxy # None => existing.copy \in HRP
    BY DEF TypeInv, LocalsOK, HCP
  <1>2. Constructed \in HRP
    BY <1>1, ConstructedType DEF Constructed
  <1> QED
    BY <1>2, DefaultType

\* The creation or update of a HelmReleaseProxy.
LEMMA CreateOrUpdateType ==
    ASSUME TypeInv, CreateOrUpdate
    PROVE  TypeInv'
  <1>1. /\ obj \in HCP /\ before \in HCP /\ pc = "createOrUpdate" /\ before' = before
    BY DEF TypeInv, LocalsOK, CreateOrUpdate
  <1>2. budget' \in [Event -> Nat]
    BY UseType DEF TypeInv, WorldOK, CreateOrUpdate, Event
  <1>3. proxies' \in [Proxy -> HRP \union {None}]
    <2>1. Default(Constructed) \in HRP
      BY <1>1, ConstructedIsObject
    <2>2. Write => proxies' \in [Proxy -> HRP \union {None}]
      <3> SUFFICES ASSUME Write PROVE proxies' \in [Proxy -> HRP \union {None}]
        OBVIOUS
      <3> DEFINE new == Default(Constructed)
      <3>1. PICK p : proxies' = [proxies EXCEPT ![p] = new]
        BY DEF Write
      <3> HIDE DEF new
      <3>2. proxies \in [Proxy -> HRP \union {None}] /\ new \in HRP
        BY <2>1 DEF TypeInv, WorldOK, new
      <3> QED
        BY <3>1, <3>2
    <2> QED
      BY <2>2 DEF CreateOrUpdate, TypeInv, WorldOK
  <1>4. WorldOK'
    BY <1>2, <1>3 DEF TypeInv, WorldOK, CreateOrUpdate
  <1>5. /\ [obj EXCEPT !.specs = "ValueParsingFailed"] \in HCP
        /\ [obj EXCEPT !.specs = "HelmReleaseProxyCreationFailed"] \in HCP
    BY <1>1, FieldTypes DEF SpecsUpToDateReason
  <1>6. /\ Return([obj EXCEPT !.specs = "ValueParsingFailed"]) => LocalsOK'
        /\ Return([obj EXCEPT !.specs = "HelmReleaseProxyCreationFailed"]) => LocalsOK'
    BY <1>1, <1>5, ReturnKeepsLocals DEF TypeInv
  <1>7. ASSUME pc' = "forCluster", existing' = NoExisting,
               UNCHANGED <<call, failed, obj, todo, doomed, remaining>>
        PROVE  LocalsOK'
    BY <1>1, <1>7, NoExistingType DEF TypeInv, LocalsOK, PC
  <1>8. LocalsOK'
    BY <1>6, <1>7 DEF CreateOrUpdate
  <1> QED
    BY <1>4, <1>8 DEF TypeInv

\* The end of the loop, and the aggregation of the Ready conditions.
LEMMA AggregateType ==
    ASSUME TypeInv, ClustersReconciled \/ AggregateReady
    PROVE  TypeInv'
  <1>1. /\ obj \in HCP /\ before \in HCP /\ pc # "idle" /\ before' = before
    BY DEF TypeInv, LocalsOK, ClustersReconciled, AggregateReady
  <1>2. budget' \in [Event -> Nat]
    BY UseType DEF TypeInv, WorldOK, ClustersReconciled, AggregateReady, Event
  <1>3. WorldOK'
    BY <1>2 DEF TypeInv, WorldOK, ClustersReconciled, AggregateReady
  <1>4. /\ [obj EXCEPT !.specs = "UpToDate"] \in HCP
        /\ [obj EXCEPT !.specs = "HelmReleaseProxySpecsUpdating"] \in HCP
        /\ [obj EXCEPT !.releases = Aggregate(Releases)] \in HCP
    BY <1>1, FieldTypes DEF SpecsUpToDateReason, Aggregate
  <1>5. \A o \in HCP : Return(o) => LocalsOK'
    BY <1>1, ReturnKeepsLocals DEF TypeInv
  <1>6. CASE ClustersReconciled
    BY <1>1, <1>3, <1>4, <1>6 DEF TypeInv, LocalsOK, PC, ClustersReconciled
  <1>7. CASE AggregateReady
    BY <1>1, <1>3, <1>4, <1>5, <1>7 DEF TypeInv, AggregateReady
  <1> QED
    BY <1>6, <1>7

\* The steps of reconcileDelete.
LEMMA ReconcileDeleteType ==
    ASSUME TypeInv, NEW p, DeleteRelease(p) \/ ValidateDeletion \/ ReleasesDeleted
    PROVE  TypeInv'
  <1>1. /\ obj \in HCP /\ before \in HCP /\ pc # "idle" /\ before' = before
    BY DEF TypeInv, LocalsOK, DeleteRelease, ValidateDeletion, ReleasesDeleted
  <1>2. budget' \in [Event -> Nat]
    BY UseType DEF TypeInv, WorldOK, DeleteRelease, ValidateDeletion, ReleasesDeleted, Event
  <1>3. proxies' \in [Proxy -> HRP \union {None}]
    BY DeleteHelmReleaseProxyType
       DEF TypeInv, WorldOK, LocalsOK, DeleteRelease, ValidateDeletion, ReleasesDeleted
  <1>4. WorldOK'
    BY <1>2, <1>3 DEF TypeInv, WorldOK, DeleteRelease, ValidateDeletion, ReleasesDeleted
  <1>5. \A o \in HCP : Return(o) => LocalsOK'
    BY <1>1, ReturnKeepsLocals DEF TypeInv
  <1>6. CASE DeleteRelease(p)
    <2>1. [existing EXCEPT !.proxy = p] \in Existing /\ [existing EXCEPT !.proxy = p].proxy = p
      BY <1>6 DEF TypeInv, LocalsOK, Existing, DeleteRelease
    <2>2. LocalsOK'
      BY <1>1, <1>5, <1>6, <2>1 DEF TypeInv, LocalsOK, PC, DeleteRelease
    <2> QED
      BY <1>4, <2>2 DEF TypeInv
  <1>7. CASE ValidateDeletion
    BY <1>1, <1>4, <1>5, <1>7, NoExistingType DEF TypeInv, LocalsOK, PC, ValidateDeletion
  <1>8. CASE ReleasesDeleted
    <2>1. /\ [obj EXCEPT !.finalizer = FALSE] \in HCP
          /\ \A ready \in {"Ready", "NotReady"} : [obj EXCEPT !.releases = ready] \in HCP
      BY <1>1, FieldTypes
    <2>2. ASSUME Patch([obj EXCEPT !.finalizer = FALSE], "removeFinalizer"),
                 UNCHANGED <<todo, doomed, remaining>>
          PROVE  LocalsOK'
      BY <1>1, <2>1, <2>2, PatchKeepsLocals DEF TypeInv, LocalsOK, Call
    <2>3. LocalsOK'
      BY <1>5, <1>8, <2>1, <2>2 DEF ReleasesDeleted
    <2> QED
      BY <1>4, <2>3 DEF TypeInv
  <1> QED
    BY <1>6, <1>7, <1>8

\* Every step of the worker.
LEMMA WorkerStepType ==
    ASSUME TypeInv, WorkerStep
    PROVE  TypeInv'
  BY PatchStepsType, PatchReturnsType, ReconcileType, ListClustersType, ListReleasesType,
     DeleteOrphanType, ForClusterType, ReinstallType, CreateOrUpdateType, AggregateType,
     ReconcileDeleteType DEF WorkerStep

-----------------------------------------------------------------------------
(* So does every other step.                                               *)

\* A report of the HelmReleaseProxy controller makes an object of an object.
LEMMA ServedType ==
    ASSUME NEW h \in HRP
    PROVE  /\ Served(h) \in HRP
           /\ \A install \in BOOLEAN : NotServed(h, install) \in HRP
  <1>1. /\ h.generation \in Nat /\ h.releaseName \in ReleaseName /\ h.generated \in BOOLEAN
        /\ GeneratedName \in ReleaseName
    BY DEF HRP, ReleaseName
  <1>2. Served(h) \in HRP
    <2>1. /\ (IF h.releaseName = None THEN GeneratedName ELSE h.releaseName) \in ReleaseName
          /\ (IF h.releaseName = None THEN h.generation + 1 ELSE h.generation) \in Nat
          /\ (h.generated \/ h.releaseName = None) \in BOOLEAN
      BY <1>1
    <2> QED
      BY <1>1, <2>1 DEF HRP, Served
  <1>3. ASSUME NEW install \in BOOLEAN
        PROVE  NotServed(h, install) \in HRP
    <2>1. (h.generated \/ (install /\ h.releaseName = None)) \in BOOLEAN
      OBVIOUS
    <2> QED
      BY <1>1, <2>1 DEF HRP, NotServed
  <1> QED
    BY <1>2, <1>3

\* The HelmReleaseProxy controller reports on an object.
LEMMA ProxyReportsType ==
    ASSUME TypeInv, NEW p \in Proxy, ProxyReports(p)
    PROVE  TypeInv'
  <1>1. proxies \in [Proxy -> HRP \union {None}] /\ proxies[p] \in HRP
    BY DEF ProxyReports, Exists, TypeInv, WorldOK
  <1>2. budget' \in [Event -> Nat]
    BY UseType DEF TypeInv, WorldOK, ProxyReports, Event
  <1>3. \E new \in HRP : proxies' = [proxies EXCEPT ![p] = new]
    BY <1>1, ServedType DEF ProxyReports
  <1>4. proxies' \in [Proxy -> HRP \union {None}]
    BY <1>1, <1>3
  <1>5. WorldOK'
    BY <1>2, <1>4 DEF TypeInv, WorldOK, ProxyReports
  <1>6. LocalsOK'
    BY DEF TypeInv, LocalsOK, ProxyReports, locals
  <1> QED
    BY <1>5, <1>6 DEF TypeInv

\* The informer, the removal of a HelmReleaseProxy, the garbage collector.
LEMMA ObjectStepsType ==
    ASSUME TypeInv, NEW p \in Proxy, CacheSync(p) \/ ProxyRemoved(p) \/ GarbageCollect(p)
    PROVE  TypeInv'
  <1>1. proxies' \in [Proxy -> HRP \union {None}]
    BY DeleteHelmReleaseProxyType
       DEF TypeInv, WorldOK, CacheSync, ProxyRemoved, GarbageCollect
  <1>2. WorldOK'
    BY <1>1 DEF TypeInv, WorldOK, CacheSync, ProxyRemoved, GarbageCollect
  <1>3. LocalsOK'
    BY DEF TypeInv, LocalsOK, CacheSync, ProxyRemoved, GarbageCollect, locals
  <1> QED
    BY <1>2, <1>3 DEF TypeInv

\* The users.
LEMMA UserType ==
    ASSUME TypeInv, User
    PROVE  TypeInv'
  <1>1. \A spec \in ChartSpec : Default(spec) \in HelmChartProxySpec
    BY DefaultType, ConstantsAssumption
  <1>2. ASSUME NEW spec \in ChartSpec, CreateHCP(spec)
        PROVE  TypeInv'
    BY <1>1, <1>2, NewHCPType DEF TypeInv, WorldOK, LocalsOK, CreateHCP, locals
  <1>3. ASSUME NEW spec \in ChartSpec, UpdateHCP(spec)
        PROVE  TypeInv'
    <2>1. [hcp EXCEPT !.spec = Default(spec), !.generation = @ + 1] \in HCP
      <3>1. hcp \in HCP /\ hcp.generation + 1 \in Nat
        BY <1>3 DEF TypeInv, WorldOK, UpdateHCP, HCP
      <3> QED
        BY <1>1, <3>1 DEF HCP
    <2> QED
      BY <1>3, <2>1 DEF TypeInv, WorldOK, LocalsOK, UpdateHCP, locals
  <1>4. ASSUME DeleteHCP
        PROVE  TypeInv'
    <2>1. budget' \in [Event -> Nat]
      BY <1>4, UseType DEF TypeInv, WorldOK, DeleteHCP, Event
    <2>2. Stored(Deleted(hcp)) \in HCP \union {None}
      BY <1>4, DeletedType DEF TypeInv, WorldOK, DeleteHCP
    <2> QED
      BY <1>4, <2>1, <2>2 DEF TypeInv, WorldOK, LocalsOK, DeleteHCP, locals
  <1> QED
    BY <1>2, <1>3, <1>4 DEF User

\* A Cluster changes.
LEMMA ClusterChangesType ==
    ASSUME TypeInv, NEW c \in Cluster, ClusterChanges(c)
    PROVE  TypeInv'
  <1>1. clusters \in [Cluster -> ClusterState] /\ clusters[c] \in ClusterState
    BY DEF TypeInv, WorldOK
  <1>2. clusters' \in [Cluster -> ClusterState]
    <2>1. /\ \A label \in Label : [clusters[c] EXCEPT !.label = label] \in ClusterState
          /\ [clusters[c] EXCEPT !.paused = ~@] \in ClusterState
          /\ \A phase \in {"deleting", "gone"} :
               [clusters[c] EXCEPT !.phase = phase] \in ClusterState
      BY <1>1 DEF ClusterState
    <2>2. \E new \in ClusterState : clusters' = [clusters EXCEPT ![c] = new]
      BY <2>1 DEF ClusterChanges
    <2> QED
      BY <1>1, <2>2
  <1>3. budget' \in [Event -> Nat]
    BY UseType DEF TypeInv, WorldOK, ClusterChanges, Event
  <1> QED
    BY <1>2, <1>3 DEF TypeInv, WorldOK, LocalsOK, ClusterChanges, locals

\* The manager process ends and is started again.
LEMMA CrashType ==
    ASSUME TypeInv, Crash
    PROVE  TypeInv'
  <1>1. budget' \in [Event -> Nat]
    BY UseType DEF TypeInv, WorldOK, Crash, Event
  <1> QED
    BY <1>1, NoExistingType DEF TypeInv, WorldOK, LocalsOK, Crash, PC, Call

\* Every step keeps the invariant.
LEMMA NextType ==
    ASSUME TypeInv, [Next]_vars
    PROVE  TypeInv'
  <1>1. CASE UNCHANGED vars
    BY <1>1 DEF TypeInv, WorldOK, LocalsOK, vars, locals
  <1> QED
    BY <1>1, WorkerStepType, ProxyReportsType, ObjectStepsType, UserType, ClusterChangesType,
       CrashType DEF Next

\* The initial states satisfy it: nothing is there, or what an upgrade found.
LEMMA InitType == Init => TypeInv
  <1> SUFFICES ASSUME Init
               PROVE  TypeInv
    OBVIOUS
  <1>1. clusters \in [Cluster -> ClusterState]
    BY DEF Init, ClusterState
  <1>2. hcp \in HCP \union {None} /\ proxies \in [Proxy -> HRP \union {None}]
    <2>1. ASSUME NEW spec \in LegacySpec, NEW p \in Proxy, NEW c \in Cluster,
                 Upgraded(spec, p, c)
          PROVE  hcp \in HCP \union {None} /\ proxies \in [Proxy -> HRP \union {None}]
      <3>1. spec \in HelmChartProxySpec /\ clusters[c].label \in Label
        BY <1>1, ConstantsAssumption DEF ClusterState
      <3>2. hcp \in HCP
        <4>1. NewHCP(spec) \in HCP
          BY <3>1, NewHCPType
        <4> QED
          BY <2>1, <4>1, FieldTypes DEF Upgraded
      <3>3. [NewHelmReleaseProxy(c, clusters[c].label, spec) EXCEPT !.secret = spec.secret]
               \in HRP
        <4>1. /\ NewHelmReleaseProxy(c, clusters[c].label, spec) \in HRP
              /\ spec.secret \in SecretReference
          BY <3>1, ConstructedType DEF HelmChartProxySpec
        <4> QED
          BY <4>1 DEF HRP
      <3> QED
        BY <2>1, <3>2, <3>3 DEF Upgraded
    <2>2. \A spec \in LegacySpec : NewHCP(spec) \in HCP
      BY ConstantsAssumption, NewHCPType
    <2> QED
      BY <2>1, <2>2 DEF Init
  <1>3. budget \in [Event -> Nat]
    BY ConstantsAssumption DEF Init
  <1>4. WorldOK
    BY <1>1, <1>2, <1>3 DEF WorldOK, Init
  <1>5. LocalsOK
    BY NoExistingType DEF LocalsOK, Init, PC, Call
  <1> QED
    BY <1>4, <1>5 DEF TypeInv

\* The strengthened invariant holds in every reachable state.
THEOREM TypeInvariance == Spec => []TypeInv
  <1>1. TypeInv /\ [Next]_vars => TypeInv'
    BY NextType
  <1> QED
    BY <1>1, InitType, PTL DEF Spec

\* Every variable has its type in every reachable state of the HelmChartProxy
\* controller, a worker that is not idle holds the object it read, and one that
\* deletes or replaces a HelmReleaseProxy has found one.
THEOREM TypeCorrect == Spec => []TypeOK
  BY TypeInvariance, TypeInvImpliesTypeOK, PTL
=============================================================================
