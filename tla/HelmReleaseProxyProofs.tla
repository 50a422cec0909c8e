------------------------ MODULE HelmReleaseProxyProofs ------------------------
(***************************************************************************)
(* Type correctness of HelmReleaseProxy, for any number of objects,        *)
(* Clusters, names and faults.                                             *)
(***************************************************************************)
EXTENDS HelmReleaseProxy, TLAPS

WorldOK ==
    /\ api \in [Proxy -> HRP \union {None}]
    /\ cache \in [Proxy -> HRP \union {None}]
    /\ clusters \in [Cluster -> ClusterState]
    /\ releases \in [Cluster -> [Name -> Release]]
    /\ budget \in [Fault -> Nat]

LocalsOK ==
    /\ pc \in [Proxy -> PC]
    /\ call \in [Proxy -> Call]
    /\ failed \in [Proxy -> BOOLEAN]
    /\ before \in [Proxy -> HRP \union {None}]
    /\ obj \in [Proxy -> HRP \union {None}]
    /\ existing \in [Proxy -> Release]
    /\ target \in [Proxy -> Name \union {None}]
    /\ \A p \in Proxy : pc[p] # "idle" => obj[p] \in HRP /\ before[p] \in HRP
    /\ \A p \in Proxy : pc[p] = "helmRunning" => target[p] \in Name
    /\ \A p \in Proxy : pc[p] \in {"upgrade", "uninstall", "helmUninstalling"}
                            => obj[p].releaseName \in Name

\* The type invariant, as the outside world and the locals of the workers.
LEMMA TypeOKSplit == TypeOK <=> WorldOK /\ LocalsOK
  BY DEF TypeOK, WorldOK, LocalsOK

-----------------------------------------------------------------------------
(* The operators the actions are built from keep the types.                *)

\* No release is a release record.
LEMMA NoReleaseType == NoRelease \in Release
  BY DEF NoRelease, Release, Status

\* What Helm writes is a release record.
LEMMA ReleaseTypes ==
    ASSUME NEW r \in Release, NEW content \in Content, NEW keep \in BOOLEAN
    PROVE  /\ updateLastReleaseStatus(r) \in Release
           /\ BeginInstall(content) \in Release
           /\ BeginUpgrade(content) \in Release
           /\ Record(r, "deployed", content) \in Release
           /\ Record(r, "failed", content) \in Release
           /\ BeginUninstall(r) \in Release
           /\ EndUninstall(r, keep) \in Release
  BY NoReleaseType DEF updateLastReleaseStatus, BeginInstall, BeginUpgrade, Record,
     BeginUninstall, EndUninstall, Release, Status

\* SetRelease keeps the table of releases.
LEMMA SetReleaseType ==
    ASSUME releases \in [Cluster -> [Name -> Release]],
           NEW c \in Cluster, NEW n \in Name, NEW r \in Release, SetRelease(c, n, r)
    PROVE  releases' \in [Cluster -> [Name -> Release]]
  BY DEF SetRelease

\* A fault that is used is one less to come.
LEMMA UseFaultType ==
    ASSUME budget \in [Fault -> Nat], NEW kind \in Fault, UseFault(kind)
    PROVE  budget' \in [Fault -> Nat]
  <1>1. budget[kind] \in Nat /\ budget[kind] > 0 /\ budget' = [budget EXCEPT ![kind] = @ - 1]
    BY DEF UseFault
  <1>2. budget[kind] - 1 \in Nat
    BY <1>1
  <1> QED
    BY <1>1, <1>2

\* The two ways a worker goes on keep the types of its locals.
LEMMA PatchType ==
    ASSUME LocalsOK, NEW p \in Proxy, NEW o \in HRP, NEW b \in HRP, NEW k \in Call,
           before' = [before EXCEPT ![p] = b],
           Patch(p, o, k)
    PROVE  LocalsOK'
  BY NoReleaseType DEF Patch, LocalsOK, PC

\* A worker that goes on to another step keeps its types.
LEMMA GotoType ==
    ASSUME LocalsOK, NEW p \in Proxy, NEW o \in HRP, NEW b \in HRP, NEW s \in PC,
           s # "helmRunning",
           s \in {"upgrade", "uninstall", "helmUninstalling"} => o.releaseName \in Name,
           before' = [before EXCEPT ![p] = b],
           Goto(p, s, o)
    PROVE  LocalsOK'
  BY DEF Goto, LocalsOK

\* The fields the controller sets keep an object well-typed.
LEMMA FieldTypes ==
    ASSUME NEW o \in HRP
    PROVE  /\ \A r \in ClusterAvailableReason \union {None} :
                  [o EXCEPT !.clusterAvailable = r] \in HRP
           /\ \A r \in HelmReleaseReadyReason \union {None} :
                  [o EXCEPT !.releaseReady = r] \in HRP
           /\ \A f \in BOOLEAN : [o EXCEPT !.finalizer = f] \in HRP
           /\ \A n \in Name \union {None} : [o EXCEPT !.releaseName = n] \in HRP
           /\ \A g \in BOOLEAN : [o EXCEPT !.generated = g] \in HRP
           /\ \A f \in BOOLEAN, r \in HelmReleaseReadyReason \union {None} :
                  [o EXCEPT !.finalizer = f, !.releaseReady = r] \in HRP
  BY DEF HRP

\* What reconcileNormal makes of a release is an object.
LEMMA WithStatusType ==
    ASSUME NEW o \in HRP, NEW status, NEW error
    PROVE  WithStatus(o, status, error) \in HRP
  BY DEF WithStatus, HRP, HelmReleaseReadyReason

\* What the requests of a patch make of the stored object is an object.
LEMMA PatchedObjectType ==
    ASSUME NEW a \in HRP, NEW b \in HRP, NEW o \in HRP
    PROVE  /\ PatchedObject(a, b, o) \in HRP
           /\ PatchedConditions(a, b, o) \in HRP
           /\ [a EXCEPT !.observed = o.generation] \in HRP
  <1>1. PatchedObject(a, b, o) \in HRP
    <2> DEFINE n == Merge(a.releaseName, b.releaseName, o.releaseName)
               w == WithName(a, n)
    <2>1. n \in Name \union {None}
      BY DEF Merge, HRP
    <2>2. w \in HRP
      <3> HIDE DEF n
      <3>1. (IF n = a.releaseName THEN a.generation ELSE a.generation + 1) \in Nat
        BY DEF HRP
      <3> QED
        BY <2>1, <3>1 DEF WithName, HRP
    <2>3. /\ Merge(w.finalizer, b.finalizer, o.finalizer) \in BOOLEAN
          /\ Merge(w.generated, b.generated, o.generated) \in BOOLEAN
          /\ Merge(w.installed, b.installed, o.installed) \in BOOLEAN
      BY <2>2 DEF Merge, HRP
    <2> HIDE DEF w
    <2>4. [w EXCEPT !.finalizer = Merge(@, b.finalizer, o.finalizer),
                    !.generated = Merge(@, b.generated, o.generated),
                    !.installed = Merge(@, b.installed, o.installed)] \in HRP
      BY <2>2, <2>3 DEF HRP
    <2> QED
      BY <2>4 DEF w, PatchedObject
  <1>2. PatchedConditions(a, b, o) \in HRP
    <2>1. /\ Merge(a.clusterAvailable, b.clusterAvailable, o.clusterAvailable)
               \in ClusterAvailableReason \union {None}
          /\ Merge(a.releaseReady, b.releaseReady, o.releaseReady)
               \in HelmReleaseReadyReason \union {None}
      BY DEF Merge, HRP
    <2> QED
      BY <2>1 DEF PatchedConditions, HRP
  <1>3. [a EXCEPT !.observed = o.generation] \in HRP
    BY DEF HRP
  <1> QED
    BY <1>1, <1>2, <1>3

\* A request of the patch keeps the types it writes.
LEMMA RequestType ==
    ASSUME WorldOK, LocalsOK, NEW p \in Proxy, NEW nothing, NEW new,
           Exists(p) => new \in HRP \union {None},
           Request(p, nothing, new)
    PROVE  /\ api' \in [Proxy -> HRP \union {None}]
           /\ failed' \in [Proxy -> BOOLEAN]
           /\ budget' \in [Fault -> Nat]
  <1>1. UseFault("api") => budget' \in [Fault -> Nat]
    BY UseFaultType DEF WorldOK, Fault
  <1>2. /\ api \in [Proxy -> HRP \union {None}]
        /\ failed \in [Proxy -> BOOLEAN]
        /\ budget \in [Fault -> Nat]
    BY DEF WorldOK, LocalsOK
  <1>3. Exists(p) => [api EXCEPT ![p] = new] \in [Proxy -> HRP \union {None}]
    BY <1>2
  <1>4. [failed EXCEPT ![p] = TRUE] \in [Proxy -> BOOLEAN]
    BY <1>2
  <1> QED
    BY <1>1, <1>2, <1>3, <1>4 DEF Request

-----------------------------------------------------------------------------
(* Each kind of step keeps TypeOK.                                         *)

\* A call to Helm uses at most one fault.
LEMMA HelmCallType ==
    ASSUME WorldOK, NEW c, HelmFails(c) \/ HelmWorks(c)
    PROVE  budget' \in [Fault -> Nat]
  BY UseFaultType DEF HelmFails, HelmWorks, Fault, WorldOK

\* The three requests of a patch keep the types.
LEMMA PatchStepsType ==
    ASSUME TypeOK, NEW p \in Proxy,
           PatchConditions(p) \/ PatchObject(p) \/ PatchStatus(p)
    PROVE  TypeOK'
  <1>0. WorldOK /\ LocalsOK
    BY TypeOKSplit
  <1>1. obj[p] \in HRP /\ before[p] \in HRP
    BY DEF PatchConditions, PatchObject, PatchStatus, TypeOK
  <1>2. Exists(p) => /\ PatchedConditions(api[p], before[p], obj[p]) \in HRP
                     /\ Stored(PatchedObject(api[p], before[p], obj[p])) \in HRP \union {None}
                     /\ [api[p] EXCEPT !.observed = obj[p].generation] \in HRP
    BY <1>1, PatchedObjectType DEF TypeOK, Exists, Stored
  <1>3. /\ api' \in [Proxy -> HRP \union {None}]
        /\ failed' \in [Proxy -> BOOLEAN]
        /\ budget' \in [Fault -> Nat]
    BY <1>0, <1>2, RequestType DEF PatchConditions, PatchObject, PatchStatus
  <1> QED
    BY <1>1, <1>3 DEF PatchConditions, PatchObject, PatchStatus, TypeOK, PC

\* So does the return from patchHelmReleaseProxy.
LEMMA PatchReturnsType ==
    ASSUME TypeOK, NEW p \in Proxy, PatchReturns(p)
    PROVE  TypeOK'
  <1>0. WorldOK /\ LocalsOK
    BY TypeOKSplit
  <1>1. obj[p] \in HRP /\ before[p] \in HRP
    BY DEF PatchReturns, TypeOK
  <1>2. UNCHANGED before => before' = [before EXCEPT ![p] = before[p]]
    BY DEF TypeOK
  <1>3. ASSUME Goto(p, "examine", obj[p]) \/ Goto(p, "getCluster", obj[p]), UNCHANGED before
        PROVE  LocalsOK'
    BY <1>0, <1>1, <1>2, <1>3, GotoType DEF PC
  <1>4. ASSUME Patch(p, obj[p], "deferred"), UNCHANGED before
        PROVE  LocalsOK'
    BY <1>0, <1>1, <1>2, <1>4, PatchType DEF Call
  <1>5. ASSUME Finish(p)
        PROVE  LocalsOK'
    BY <1>0, <1>5 DEF Finish, LocalsOK, PC, Call
  <1>6. LocalsOK'
    BY <1>3, <1>4, <1>5 DEF PatchReturns
  <1>7. WorldOK'
    BY <1>0 DEF PatchReturns, WorldOK
  <1> QED
    BY <1>6, <1>7 DEF TypeOK, WorldOK, LocalsOK

\* A reconcile starts with an object that exists.
LEMMA ReconcileType ==
    ASSUME TypeOK, NEW p \in Proxy, Reconcile(p)
    PROVE  TypeOK'
  <1>0. WorldOK /\ LocalsOK
    BY TypeOKSplit
  <1>1. cache[p] \in HRP /\ [cache[p] EXCEPT !.releaseReady = "PreparingToHelmInstall"] \in HRP
    BY FieldTypes DEF Reconcile, TypeOK, HelmReleaseReadyReason
  <1>2. LocalsOK'
    BY <1>0, <1>1, GotoType, PatchType DEF Reconcile, PC, Call
  <1>3. WorldOK'
    BY <1>0 DEF Reconcile, WorldOK
  <1> QED
    BY <1>2, <1>3 DEF TypeOK, WorldOK, LocalsOK

\* Choosing the branch keeps the types.
LEMMA ExamineType ==
    ASSUME TypeOK, NEW p \in Proxy, Examine(p)
    PROVE  TypeOK'
  <1>0. WorldOK /\ LocalsOK
    BY TypeOKSplit
  <1>1. obj[p] \in HRP /\ before[p] \in HRP /\ [obj[p] EXCEPT !.finalizer = TRUE] \in HRP
    BY FieldTypes DEF Examine, TypeOK
  <1>2. before' = [before EXCEPT ![p] = before[p]]
    BY DEF Examine, TypeOK
  <1>3. LocalsOK'
    BY <1>0, <1>1, <1>2, GotoType, PatchType DEF Examine, PC, Call
  <1>4. WorldOK'
    BY <1>0 DEF Examine, WorldOK
  <1> QED
    BY <1>3, <1>4 DEF TypeOK, WorldOK, LocalsOK

\* Looking up the Cluster keeps the types, in both branches.
LEMMA GetClusterType ==
    ASSUME TypeOK, NEW p \in Proxy, GetCluster(p) \/ DeleteGetCluster(p)
    PROVE  TypeOK'
  <1>0. WorldOK /\ LocalsOK
    BY TypeOKSplit
  <1>1. obj[p] \in HRP /\ before[p] \in HRP
    BY DEF GetCluster, DeleteGetCluster, TypeOK
  <1>2. before' = [before EXCEPT ![p] = before[p]]
    BY DEF GetCluster, DeleteGetCluster, TypeOK
  <1>3. \A r \in ClusterAvailableReason : [obj[p] EXCEPT !.clusterAvailable = r] \in HRP
    BY <1>1, FieldTypes
  <1>4. [obj[p] EXCEPT !.finalizer = FALSE] \in HRP
    BY <1>1, FieldTypes
  <1>5. ASSUME NEW r \in ClusterAvailableReason,
               Patch(p, [obj[p] EXCEPT !.clusterAvailable = r], "deferred")
        PROVE  LocalsOK'
    BY <1>0, <1>1, <1>2, <1>3, <1>5, PatchType DEF Call
  <1>6. ASSUME RemoveFinalizer(p, obj[p])
        PROVE  LocalsOK'
    BY <1>0, <1>1, <1>2, <1>4, <1>6, PatchType DEF Call, RemoveFinalizer
  <1>7. ASSUME NEW s \in {"reconcileNormal", "reconcileDelete"},
               Goto(p, s, [obj[p] EXCEPT !.clusterAvailable = "Available"])
        PROVE  LocalsOK'
    BY <1>0, <1>1, <1>2, <1>3, <1>7, GotoType DEF PC, ClusterAvailableReason
  <1>8. LocalsOK'
    BY <1>5, <1>6, <1>7 DEF GetCluster, DeleteGetCluster, ClusterAvailableReason, SecretFailed
  <1>9. budget' \in [Fault -> Nat]
    BY <1>0, UseFaultType DEF GetCluster, DeleteGetCluster, Fault, WorldOK
  <1>10. WorldOK'
    BY <1>0, <1>9 DEF GetCluster, DeleteGetCluster, WorldOK
  <1> QED
    BY <1>8, <1>10 DEF TypeOK, WorldOK, LocalsOK

\* The objects reconcileNormal and reconcileDelete hand to the deferred patch.
LEMMA HelmOutcomeType ==
    ASSUME TypeOK, NEW p \in Proxy, pc[p] # "idle",
           before' = [before EXCEPT ![p] = before[p]]
    PROVE  /\ InstallOrUpgradeFailed(p) => LocalsOK'
           /\ \A n \in Name : \A status, error :
                  InstallOrUpgradeReturned(p, n, status, error) => LocalsOK'
           /\ DeletionFailed(p) => LocalsOK'
           /\ Patch(p, [obj[p] EXCEPT !.releaseReady = "HelmReleaseGetFailed"], "deferred")
                => LocalsOK'
           /\ Patch(p, obj[p], "deferred") => LocalsOK'
           /\ RemoveFinalizer(p, obj[p]) => LocalsOK'
           /\ RemoveFinalizer(p, [obj[p] EXCEPT !.releaseReady = "HelmReleaseDeleted"])
                => LocalsOK'
  <1>0. LocalsOK /\ obj[p] \in HRP /\ before[p] \in HRP
    BY TypeOKSplit DEF TypeOK
  <1>1. \A o \in HRP : Patch(p, o, "deferred") => LocalsOK'
    BY <1>0, PatchType DEF Call
  <1>2. \A o \in HRP : RemoveFinalizer(p, o) => LocalsOK'
    <2> SUFFICES ASSUME NEW o \in HRP, RemoveFinalizer(p, o)
                 PROVE  LocalsOK'
      OBVIOUS
    <2>1. [o EXCEPT !.finalizer = FALSE] \in HRP
      BY FieldTypes
    <2> QED
      BY <1>0, <2>1, PatchType DEF Call, RemoveFinalizer
  <1>3. \A r \in HelmReleaseReadyReason : [obj[p] EXCEPT !.releaseReady = r] \in HRP
    BY <1>0, FieldTypes
  <1>4. ASSUME NEW n \in Name, NEW status, NEW error
        PROVE  WithStatus([obj[p] EXCEPT !.releaseName = n], status, error) \in HRP
    <2>1. [obj[p] EXCEPT !.releaseName = n] \in HRP
      BY <1>0, FieldTypes
    <2> QED
      BY <2>1, WithStatusType
  <1>5. \A n \in Name : \A status, error :
            InstallOrUpgradeReturned(p, n, status, error) => LocalsOK'
    BY <1>1, <1>4 DEF InstallOrUpgradeReturned
  <1> QED
    BY <1>0, <1>1, <1>2, <1>3, <1>5
       DEF InstallOrUpgradeFailed, DeletionFailed, HelmReleaseReadyReason

\* GetHelmRelease is only asked for a release that has a name.
LEMMA ReconcileNormalType ==
    ASSUME TypeOK, NEW p \in Proxy, ReconcileNormal(p)
    PROVE  TypeOK'
  <1> DEFINE c == obj[p].cluster
             n == obj[p].releaseName
             o == [obj[p] EXCEPT !.generated = @ \/ n = None]
  <1>0. WorldOK /\ LocalsOK
    BY TypeOKSplit
  <1>1. obj[p] \in HRP /\ before[p] \in HRP /\ pc[p] # "idle"
    BY DEF ReconcileNormal, TypeOK
  <1>2. before' = [before EXCEPT ![p] = before[p]]
    BY DEF ReconcileNormal, TypeOK
  <1>3. c \in Cluster /\ n \in Name \union {None}
    BY <1>1 DEF HRP
  <1>4. o \in HRP
    <2>1. (obj[p].generated \/ n = None) \in BOOLEAN
      BY <1>1 DEF HRP
    <2> QED
      BY <1>1, <2>1, FieldTypes
  <1>5. Goto(p, "install", o) => LocalsOK'
    BY <1>0, <1>1, <1>2, <1>4, GotoType DEF PC
  <1>6. ASSUME n # None, FoundRelease(p, c, n)
        PROVE  LocalsOK' /\ releases' \in [Cluster -> [Name -> Release]]
    <2>1. n \in Name /\ releases[c][n] \in Release
      BY <1>0, <1>3, <1>6 DEF WorldOK
    <2>2. releases' \in [Cluster -> [Name -> Release]]
      <3>1. updateLastReleaseStatus(releases[c][n]) \in Release
        BY <2>1 DEF updateLastReleaseStatus, Release, Status
      <3> QED
        BY <1>0, <1>3, <1>6, <2>1, <3>1, SetReleaseType DEF FoundRelease, WorldOK
    <2>3. LocalsOK'
      BY <1>0, <1>1, <1>2, <1>6, <2>1 DEF FoundRelease, LocalsOK, PC
    <2> QED
      BY <2>2, <2>3
  <1>7. budget' \in [Fault -> Nat]
    BY <1>0, HelmCallType DEF ReconcileNormal, WorldOK
  <1>8. LocalsOK' /\ releases' \in [Cluster -> [Name -> Release]]
    BY <1>0, <1>1, <1>2, <1>5, <1>6, HelmOutcomeType DEF ReconcileNormal, WorldOK
  <1>9. WorldOK'
    BY <1>0, <1>7, <1>8 DEF ReconcileNormal, WorldOK
  <1> QED
    BY <1>8, <1>9 DEF TypeOK, WorldOK, LocalsOK

\* An install works on a release that has a name.
LEMMA InstallType ==
    ASSUME TypeOK, NEW p \in Proxy, Install(p)
    PROVE  TypeOK'
  <1> DEFINE c == obj[p].cluster
  <1>0. WorldOK /\ LocalsOK
    BY TypeOKSplit
  <1>1. obj[p] \in HRP /\ before[p] \in HRP /\ pc[p] # "idle"
    BY DEF Install, TypeOK
  <1>2. before' = [before EXCEPT ![p] = before[p]]
    BY DEF Install, TypeOK
  <1>3. c \in Cluster /\ obj[p].content \in Content
    BY <1>1 DEF HRP
  <1>4. budget' \in [Fault -> Nat]
    BY <1>0, HelmCallType, UseFaultType DEF Install, WorldOK, Fault
  <1>5. CASE HelmFails(c) /\ InstallOrUpgradeFailed(p) /\ UNCHANGED releases
    BY <1>0, <1>1, <1>2, <1>4, <1>5, HelmOutcomeType DEF Install, TypeOK, WorldOK, LocalsOK
  <1>6. ASSUME NEW n \in IF obj[p].releaseName = None THEN FreshName(c)
                                                     ELSE {obj[p].releaseName},
               \/ /\ InstallOrUpgradeFailed(p)
                  /\ UNCHANGED releases
               \/ /\ InstallOrUpgradeReturned(p, n, "failed", TRUE)
                  /\ UNCHANGED releases
               \/ /\ SetRelease(c, n, BeginInstall(obj[p].content))
                  /\ target' = [target EXCEPT ![p] = n]
                  /\ pc' = [pc EXCEPT ![p] = "helmRunning"]
                  /\ UNCHANGED <<call, failed, obj, existing>>
        PROVE  TypeOK'
    <2>1. n \in Name
      BY <1>1 DEF FreshName, Name, HRP
    <2>2. BeginInstall(obj[p].content) \in Release
      BY <1>3, NoReleaseType, ReleaseTypes
    <2>3. releases' \in [Cluster -> [Name -> Release]]
      BY <1>0, <1>3, <1>6, <2>1, <2>2, SetReleaseType DEF WorldOK
    <2>4. LocalsOK'
      <3>1. CASE target' = [target EXCEPT ![p] = n] /\ pc' = [pc EXCEPT ![p] = "helmRunning"]
                   /\ UNCHANGED <<call, failed, obj, existing>>
        BY <1>0, <1>1, <1>2, <2>1, <3>1 DEF LocalsOK, PC
      <3> QED
        BY <1>1, <1>2, <1>6, <2>1, <3>1, HelmOutcomeType
    <2> QED
      BY <1>0, <1>4, <2>3, <2>4 DEF Install, TypeOK, WorldOK, LocalsOK
  <1> QED
    BY <1>5, <1>6 DEF Install

\* So does an upgrade.
LEMMA UpgradeType ==
    ASSUME TypeOK, NEW p \in Proxy, Upgrade(p)
    PROVE  TypeOK'
  <1> DEFINE c == obj[p].cluster
             n == obj[p].releaseName
  <1>0. WorldOK /\ LocalsOK
    BY TypeOKSplit
  <1>1. obj[p] \in HRP /\ before[p] \in HRP /\ pc[p] # "idle" /\ n \in Name
    BY DEF Upgrade, TypeOK
  <1>2. before' = [before EXCEPT ![p] = before[p]]
    BY DEF Upgrade, TypeOK
  <1>3. c \in Cluster /\ obj[p].content \in Content
    BY <1>1 DEF HRP
  <1>4. budget' \in [Fault -> Nat]
    BY <1>0, HelmCallType, UseFaultType DEF Upgrade, WorldOK, Fault
  <1>5. BeginUpgrade(obj[p].content) \in Release
    BY <1>3, NoReleaseType, ReleaseTypes
  <1>6. releases' \in [Cluster -> [Name -> Release]]
    BY <1>0, <1>1, <1>3, <1>5, SetReleaseType DEF Upgrade, WorldOK
  <1>7. LocalsOK'
    <2>1. CASE target' = [target EXCEPT ![p] = n] /\ pc' = [pc EXCEPT ![p] = "helmRunning"]
                 /\ UNCHANGED <<call, failed, obj, existing>>
      BY <1>0, <1>1, <1>2, <2>1 DEF LocalsOK, PC
    <2> QED
      BY <1>1, <1>2, <2>1, HelmOutcomeType DEF Upgrade
  <1> QED
    BY <1>0, <1>4, <1>6, <1>7 DEF Upgrade, TypeOK, WorldOK, LocalsOK

\* The end of a Helm operation keeps the types.
LEMMA HelmEndsType ==
    ASSUME TypeOK, NEW p \in Proxy, HelmEnds(p)
    PROVE  TypeOK'
  <1> DEFINE c == obj[p].cluster
             n == target[p]
  <1>0. WorldOK /\ LocalsOK
    BY TypeOKSplit
  <1>1. obj[p] \in HRP /\ before[p] \in HRP /\ pc[p] # "idle" /\ n \in Name
    BY DEF HelmEnds, TypeOK
  <1>2. before' = [before EXCEPT ![p] = before[p]]
    BY DEF HelmEnds, TypeOK
  <1>3. c \in Cluster /\ obj[p].content \in Content
    BY <1>1 DEF HRP
  <1>4. budget' \in [Fault -> Nat]
    BY <1>0, HelmCallType DEF HelmEnds
  <1>5. /\ Record(releases[c][n], "deployed", obj[p].content) \in Release
        /\ Record(releases[c][n], "failed", obj[p].content) \in Release
    BY <1>0, <1>1, <1>3, ReleaseTypes DEF WorldOK
  <1>6. releases' \in [Cluster -> [Name -> Release]]
    BY <1>0, <1>1, <1>3, <1>5, SetReleaseType DEF HelmEnds, WorldOK
  <1>7. LocalsOK'
    BY <1>1, <1>2, HelmOutcomeType DEF HelmEnds
  <1> QED
    BY <1>0, <1>4, <1>6, <1>7 DEF HelmEnds, TypeOK, WorldOK, LocalsOK

\* The deletion steps keep the types.
LEMMA DeletionType ==
    ASSUME TypeOK, NEW p \in Proxy, ReconcileDelete(p) \/ Uninstall(p) \/ UninstallEnds(p)
    PROVE  TypeOK'
  <1> DEFINE c == obj[p].cluster
             n == obj[p].releaseName
  <1>0. WorldOK /\ LocalsOK
    BY TypeOKSplit
  <1>1. obj[p] \in HRP /\ before[p] \in HRP /\ pc[p] # "idle"
    BY DEF ReconcileDelete, Uninstall, UninstallEnds, TypeOK
  <1>2. before' = [before EXCEPT ![p] = before[p]]
    BY DEF ReconcileDelete, Uninstall, UninstallEnds, TypeOK
  <1>3. c \in Cluster /\ n \in Name \union {None} /\ obj[p].keepHistory \in BOOLEAN
        /\ obj[p].content \in Content
    BY <1>1 DEF HRP
  <1>4. budget' \in [Fault -> Nat]
    BY <1>0, HelmCallType, UseFaultType
       DEF ReconcileDelete, Uninstall, UninstallEnds, WorldOK, Fault
  <1>5. n # None /\ Goto(p, "uninstall", obj[p]) => LocalsOK'
    BY <1>0, <1>1, <1>2, <1>3, GotoType DEF PC
  <1>6. ASSUME n \in Name, releases[c][n] \in Release
        PROVE  /\ BeginUninstall(releases[c][n]) \in Release
               /\ EndUninstall(releases[c][n], obj[p].keepHistory) \in Release
    BY <1>3, <1>6, ReleaseTypes
  <1>7. CASE ReconcileDelete(p)
    BY <1>0, <1>1, <1>2, <1>3, <1>4, <1>5, <1>7, HelmOutcomeType
       DEF ReconcileDelete, TypeOK, WorldOK, LocalsOK
  <1>8. CASE Uninstall(p)
    <2>1. n \in Name /\ releases[c][n] \in Release
      BY <1>3, <1>8 DEF Uninstall, TypeOK
    <2>2. releases' \in [Cluster -> [Name -> Release]]
      BY <1>0, <1>3, <1>6, <1>8, <2>1, NoReleaseType, SetReleaseType DEF Uninstall, WorldOK
    <2>3. Goto(p, "helmUninstalling", obj[p]) => LocalsOK'
      BY <1>0, <1>1, <1>2, <2>1, GotoType DEF PC
    <2>4. LocalsOK'
      BY <1>1, <1>2, <1>8, <2>3, HelmOutcomeType DEF Uninstall
    <2> QED
      BY <1>0, <1>4, <1>8, <2>2, <2>4 DEF Uninstall, TypeOK, WorldOK, LocalsOK
  <1>9. CASE UninstallEnds(p)
    <2>1. n \in Name /\ releases[c][n] \in Release
      BY <1>3, <1>9 DEF UninstallEnds, TypeOK
    <2>2. releases' \in [Cluster -> [Name -> Release]]
      BY <1>0, <1>3, <1>6, <1>9, <2>1, SetReleaseType DEF UninstallEnds, WorldOK
    <2>3. LocalsOK'
      BY <1>1, <1>2, <1>9, HelmOutcomeType DEF UninstallEnds
    <2> QED
      BY <1>0, <1>4, <1>9, <2>2, <2>3 DEF UninstallEnds, TypeOK, WorldOK, LocalsOK
  <1> QED
    BY <1>7, <1>8, <1>9

\* The cache and the restart keep the types.
LEMMA ManagerType ==
    ASSUME TypeOK, Crash \/ \E p \in Proxy : CacheSync(p)
    PROVE  TypeOK'
  <1>1. CASE Crash
    <2>1. budget' \in [Fault -> Nat]
      BY <1>1, UseFaultType DEF Crash, TypeOK, Fault
    <2> QED
      BY <1>1, <2>1, NoReleaseType DEF Crash, TypeOK, PC, Call
  <1>2. ASSUME NEW p \in Proxy, CacheSync(p)
        PROVE  TypeOK'
    BY <1>2 DEF CacheSync, TypeOK, locals
  <1> QED
    BY <1>1, <1>2

\* The owner of the objects and the Clusters keep the types.
LEMMA EnvironmentType ==
    ASSUME TypeOK,
           \/ \E p \in Proxy : Owner(p)
           \/ \E c \in Cluster : ClusterReady(c) \/ ClusterGone(c)
    PROVE  TypeOK'
  <1>1. ASSUME NEW p \in Proxy, NEW c \in Cluster, NEW n \in SpecName,
               NEW content \in Content, NEW keep \in KeepHistory,
               CreateProxy(p, c, n, content, keep)
        PROVE  TypeOK'
    <2>1. n \in Name \union {None} /\ keep \in BOOLEAN
      BY ConstantsAssumption DEF Name
    <2>2. api'[p] \in HRP
      BY <1>1, <2>1 DEF CreateProxy, TypeOK, HRP
    <2>3. api' \in [Proxy -> HRP \union {None}]
      BY <1>1, <2>2 DEF CreateProxy, TypeOK
    <2> QED
      BY <1>1, <2>3 DEF CreateProxy, TypeOK, locals
  <1>2. ASSUME NEW p \in Proxy, NEW content \in Content, NEW keep \in KeepHistory,
               UpdateProxy(p, content, keep)
        PROVE  TypeOK'
    <2>1. keep \in BOOLEAN /\ api[p] \in HRP
      BY <1>2, ConstantsAssumption DEF UpdateProxy, Exists, TypeOK
    <2>2. api[p].generation + 1 \in Nat
      BY <2>1 DEF HRP
    <2>3. [api[p] EXCEPT !.content = content, !.keepHistory = keep, !.generation = @ + 1] \in HRP
      BY <2>1, <2>2 DEF HRP
    <2>4. api' \in [Proxy -> HRP \union {None}]
      BY <1>2, <2>3 DEF UpdateProxy, TypeOK
    <2> QED
      BY <1>2, <2>4 DEF UpdateProxy, TypeOK, locals
  <1>3. ASSUME NEW p \in Proxy, DeleteProxy(p)
        PROVE  TypeOK'
    <2>1. api[p] \in HRP
      BY <1>3 DEF DeleteProxy, Exists, TypeOK
    <2>2. api[p].generation + 1 \in Nat
      BY <2>1 DEF HRP
    <2>3. [api[p] EXCEPT !.deleting = TRUE, !.generation = @ + 1] \in HRP
      BY <2>1, <2>2 DEF HRP
    <2>4. api' \in [Proxy -> HRP \union {None}]
      BY <1>3, <2>3 DEF DeleteProxy, Stored, TypeOK
    <2> QED
      BY <1>3, <2>4 DEF DeleteProxy, TypeOK, locals
  <1>4. ASSUME NEW c \in Cluster, ClusterReady(c)
        PROVE  TypeOK'
    BY <1>4 DEF ClusterReady, TypeOK, ClusterState, locals
  <1>5. ASSUME NEW c \in Cluster, ClusterGone(c)
        PROVE  TypeOK'
    BY <1>5, NoReleaseType DEF ClusterGone, TypeOK, ClusterState, locals
  <1> QED
    BY <1>1, <1>2, <1>3, <1>4, <1>5 DEF Owner

-----------------------------------------------------------------------------
\* Type correctness: in particular, a worker that is running holds the object it
\* read, and one that talks to Helm about a release has a name for it.
THEOREM TypeCorrect == Spec => []TypeOK
  <1>1. Init => TypeOK
    BY NoReleaseType, ConstantsAssumption DEF Init, TypeOK, PC, Call
  <1>2. TypeOK /\ [Next]_vars => TypeOK'
    <2> SUFFICES ASSUME TypeOK, [Next]_vars
                 PROVE  TypeOK'
      OBVIOUS
    <2>1. ASSUME NEW p \in Proxy, WorkerStep(p)
          PROVE  TypeOK'
      BY <2>1, ReconcileType, ExamineType, GetClusterType, ReconcileNormalType, InstallType,
         UpgradeType, HelmEndsType, DeletionType, PatchStepsType, PatchReturnsType
         DEF WorkerStep
    <2>2. CASE UNCHANGED vars
      BY <2>2 DEF vars, locals, TypeOK
    <2> QED
      BY <2>1, <2>2, ManagerType, EnvironmentType DEF Next
  <1> QED
    BY <1>1, <1>2, PTL DEF Spec
=============================================================================
