-------------------- MODULE HelmReleaseProxyContractProofs --------------------
(***************************************************************************)
(* HelmReleaseProxy implements ReleaseContract, for any number of objects  *)
(* and faults and a cache that lags arbitrarily.  OwnershipInv says what   *)
(* the copies of an object have in common; CopyInv adds how they differ:   *)
(* an older copy never knows more than a newer one, and a worker only adds *)
(* to the copy it read.                                                    *)
(***************************************************************************)
EXTENDS HelmReleaseProxyContract, HelmReleaseProxyOwnership

\* Object o was read before a, or is a.
Precedes(o, a) ==
    /\ o.generated => a.generated
    /\ o.installed => a.installed
    /\ o.generation <= a.generation

\* A worker has made o of the object b it read: annotations are only added, and a
\* name it got from Helm comes with the annotation that says so.
Grown(b, o) ==
    /\ b.generated => o.generated
    /\ b.installed => o.installed
    /\ o.generation = b.generation
    /\ o.releaseName # b.releaseName => o.generated /\ o.releaseName # None

\* What is stored is about a spec that was written, and no copy is ahead of it.
StoredIsNewest ==
    \A p \in Proxy :
        Exists(p) =>
            /\ api[p].observed <= api[p].generation
            /\ cache[p] # None => Precedes(cache[p], api[p])
            /\ Running(p) => Precedes(before[p], api[p])

\* What a worker adds to its copy.  Before it runs Helm without a name, it marks
\* the object as one whose name is generated.
WorkerOnlyAdds ==
    \A p \in Proxy :
        /\ Running(p) => Grown(before[p], obj[p])
        /\ pc[p] \in {"install", "helmRunning"} /\ obj[p].releaseName = None => obj[p].generated
        /\ pc[p] = "helmRunning" /\ obj[p].releaseName # None => target[p] = obj[p].releaseName

CopyInv == StoredIsNewest /\ WorkerOnlyAdds

-----------------------------------------------------------------------------
(* What a worker makes of its copy.                                        *)

\* Additions add up.
LEMMA GrownTransitive ==
    ASSUME NEW b, NEW o, NEW r, Grown(b, o), Grown(o, r)
    PROVE  Grown(b, r)
  BY DEF Grown

\* Conditions and the finalizer are no additions; what a release's status sets is one.
LEMMA GrownFields ==
    ASSUME NEW o \in HRP
    PROVE  /\ Grown(o, o)
           /\ \A r : Grown(o, [o EXCEPT !.clusterAvailable = r])
           /\ \A r : Grown(o, [o EXCEPT !.releaseReady = r])
           /\ \A f : Grown(o, [o EXCEPT !.finalizer = f])
           /\ \A f, r : Grown(o, [[o EXCEPT !.releaseReady = r] EXCEPT !.finalizer = f])
           /\ \A status, error : Grown(o, WithStatus(o, status, error))
  <1>1. /\ Grown(o, o)
        /\ \A r : Grown(o, [o EXCEPT !.clusterAvailable = r])
        /\ \A r : Grown(o, [o EXCEPT !.releaseReady = r])
        /\ \A f : Grown(o, [o EXCEPT !.finalizer = f])
        /\ \A f, r : Grown(o, [[o EXCEPT !.releaseReady = r] EXCEPT !.finalizer = f])
    BY DEF Grown, HRP
  <1>2. \A status, error : Grown(o, WithStatus(o, status, error))
    BY DEF Grown, WithStatus, HRP
  <1> QED
    BY <1>1, <1>2

\* The worker of p goes on with what it read, and at most adds to it.
GoesOn(p) ==
    /\ pc[p] # "idle"
    /\ before'[p] = before[p]
    /\ Grown(obj[p], obj'[p])
    /\ pc'[p] \in {"install", "helmRunning"} /\ obj'[p].releaseName = None => obj'[p].generated
    /\ pc'[p] = "helmRunning" /\ obj'[p].releaseName # None => target'[p] = obj'[p].releaseName

LEMMA PatchGoesOn ==
    ASSUME TypeOK, NEW p \in Proxy, pc[p] # "idle", before' = before,
           NEW o, NEW caller, Patch(p, o, caller), Grown(obj[p], o)
    PROVE  GoesOn(p)
  BY DEF TypeOK, Patch, GoesOn

BesidesHelm ==
    {"getCluster", "reconcileNormal", "deleteGetCluster", "reconcileDelete", "uninstall",
     "helmUninstalling", "examine"}

LEMMA GotoGoesOn ==
    ASSUME TypeOK, NEW p \in Proxy, pc[p] # "idle", before' = before
    PROVE  \A s \in BesidesHelm : \A o : Goto(p, s, o) /\ Grown(obj[p], o) => GoesOn(p)
  BY DEF TypeOK, Goto, GoesOn, BesidesHelm

LEMMA Steps ==
    /\ "getCluster" \in BesidesHelm
    /\ "reconcileNormal" \in BesidesHelm
    /\ "deleteGetCluster" \in BesidesHelm
    /\ "reconcileDelete" \in BesidesHelm
    /\ "uninstall" \in BesidesHelm
    /\ "helmUninstalling" \in BesidesHelm
    /\ "examine" \in BesidesHelm
  BY DEF BesidesHelm

\* Answers of Helm that come without a name, or with the one the object has or lacks.
LEMMA OutcomeGoesOn ==
    ASSUME TypeOK, NEW p \in Proxy, pc[p] # "idle", before' = before
    PROVE  /\ InstallOrUpgradeFailed(p) => GoesOn(p)
           /\ DeletionFailed(p) => GoesOn(p)
           /\ RemoveFinalizer(p, obj[p]) => GoesOn(p)
           /\ RemoveFinalizer(p, [obj[p] EXCEPT !.releaseReady = "HelmReleaseDeleted"])
                => GoesOn(p)
           /\ \A n \in Name : \A status, error :
                  /\ obj[p].releaseName # None => n = obj[p].releaseName
                  /\ obj[p].releaseName = None => obj[p].generated
                  /\ InstallOrUpgradeReturned(p, n, status, error)
                  => GoesOn(p)
  <1>1. obj[p] \in HRP
    BY DEF TypeOK
  <1>2. InstallOrUpgradeFailed(p) \/ DeletionFailed(p) => GoesOn(p)
    BY <1>1, GrownFields, PatchGoesOn DEF InstallOrUpgradeFailed, DeletionFailed
  <1>3. RemoveFinalizer(p, obj[p]) => GoesOn(p)
    BY <1>1, GrownFields, PatchGoesOn DEF RemoveFinalizer
  <1>4. RemoveFinalizer(p, [obj[p] EXCEPT !.releaseReady = "HelmReleaseDeleted"]) => GoesOn(p)
    BY <1>1, GrownFields, PatchGoesOn DEF RemoveFinalizer
  <1>5. ASSUME NEW n \in Name, NEW status, NEW error,
               obj[p].releaseName # None => n = obj[p].releaseName,
               obj[p].releaseName = None => obj[p].generated,
               InstallOrUpgradeReturned(p, n, status, error)
        PROVE  GoesOn(p)
    <2> DEFINE o == [obj[p] EXCEPT !.releaseName = n]
    <2>1. o \in HRP
      BY <1>1, FieldTypes
    <2>2. Grown(obj[p], o)
      BY <1>1, <1>5, ConstantsAssumption DEF Grown, HRP
    <2>3. Patch(p, WithStatus(o, status, error), "deferred")
      BY <1>5 DEF InstallOrUpgradeReturned
    <2> HIDE DEF o
    <2>4. Grown(obj[p], WithStatus(o, status, error))
      BY <2>1, <2>2, GrownFields, GrownTransitive
    <2> QED
      BY <2>3, <2>4, PatchGoesOn
  <1> QED
    BY <1>2, <1>3, <1>4, <1>5

\* Reading the object, looking up its Cluster and ending a patch.
LEMMA QuietGoesOn ==
    ASSUME TypeOK, NEW p \in Proxy,
           \/ Examine(p) \/ GetCluster(p) \/ DeleteGetCluster(p)
           \/ PatchConditions(p) \/ PatchObject(p) \/ PatchStatus(p) \/ PatchReturns(p)
    PROVE  GoesOn(p) \/ pc'[p] = "idle"
  <1>1. obj[p] \in HRP /\ pc[p] # "idle"
    BY DEF Examine, GetCluster, DeleteGetCluster, PatchConditions, PatchObject, PatchStatus,
           PatchReturns, TypeOK
  <1>2. \A r : before' = before
               /\ Patch(p, [obj[p] EXCEPT !.clusterAvailable = r], "deferred") => GoesOn(p)
    BY <1>1, GrownFields, PatchGoesOn
  <1>3. CASE Examine(p)
    BY <1>1, <1>3, GrownFields, PatchGoesOn, GotoGoesOn, Steps DEF Examine
  <1>4. CASE GetCluster(p)
    <2>1. before' = before
      BY <1>4 DEF GetCluster
    <2>2. Goto(p, "reconcileNormal", [obj[p] EXCEPT !.clusterAvailable = "Available"])
            => GoesOn(p)
      BY <1>1, <2>1, GrownFields, GotoGoesOn, Steps
    <2> QED
      BY <1>2, <1>4, <2>1, <2>2 DEF GetCluster
  <1>5. CASE DeleteGetCluster(p)
    <2>1. before' = before
      BY <1>5 DEF DeleteGetCluster
    <2>2. Goto(p, "reconcileDelete", [obj[p] EXCEPT !.clusterAvailable = "Available"])
            => GoesOn(p)
      BY <1>1, <2>1, GrownFields, GotoGoesOn, Steps
    <2> QED
      BY <1>1, <1>2, <1>5, <2>1, <2>2, OutcomeGoesOn DEF DeleteGetCluster
  <1>6. CASE PatchConditions(p) \/ PatchObject(p) \/ PatchStatus(p)
    <2>1. /\ obj' = obj /\ before' = before
          /\ pc'[p] \in {"patchObject", "patchStatus", "patched"}
      BY <1>6 DEF PatchConditions, PatchObject, PatchStatus, TypeOK
    <2> QED
      BY <1>1, <2>1, GrownFields DEF GoesOn
  <1>7. CASE PatchReturns(p)
    <2>1. \/ before' = before /\ \E s \in {"examine", "getCluster"} : Goto(p, s, obj[p])
          \/ before' = before /\ Patch(p, obj[p], "deferred")
          \/ Finish(p)
      BY <1>7 DEF PatchReturns
    <2>2. Finish(p) => pc'[p] = "idle"
      BY DEF Finish, TypeOK
    <2> QED
      BY <1>1, <2>1, <2>2, GrownFields, PatchGoesOn, GotoGoesOn, Steps
  <1> QED
    BY <1>3, <1>4, <1>5, <1>6, <1>7

\* Running Helm.
LEMMA HelmGoesOn ==
    ASSUME TypeOK, WorkerOnlyAdds, NEW p \in Proxy,
           \/ ReconcileNormal(p) \/ Install(p) \/ Upgrade(p) \/ HelmEnds(p)
           \/ ReconcileDelete(p) \/ Uninstall(p) \/ UninstallEnds(p)
    PROVE  GoesOn(p)
  <1>1. obj[p] \in HRP /\ pc[p] # "idle" /\ before' = before
    BY DEF ReconcileNormal, Install, Upgrade, HelmEnds, ReconcileDelete, Uninstall,
           UninstallEnds, TypeOK
  <1>2. CASE ReconcileNormal(p)
    <2> DEFINE o == [obj[p] EXCEPT !.generated = @ \/ obj[p].releaseName = None]
    <2>1. Goto(p, "install", o) => GoesOn(p)
      <3>1. /\ o.releaseName = obj[p].releaseName
            /\ o.releaseName = None => o.generated
            /\ Grown(obj[p], o)
        BY <1>1 DEF HRP, Grown
      <3> HIDE DEF o
      <3>2. Goto(p, "install", o) => pc'[p] = "install" /\ obj'[p] = o
        BY DEF Goto, TypeOK
      <3> QED
        BY <1>1, <3>1, <3>2 DEF GoesOn
    <2>2. FoundRelease(p, obj[p].cluster, obj[p].releaseName) => GoesOn(p)
      <3>1. FoundRelease(p, obj[p].cluster, obj[p].releaseName)
              => pc'[p] = "upgrade" /\ obj'[p] = obj[p]
        BY DEF FoundRelease, TypeOK
      <3> QED
        BY <1>1, <3>1, GrownFields DEF GoesOn
    <2>3. Patch(p, obj[p], "deferred") => GoesOn(p)
      BY <1>1, GrownFields, PatchGoesOn
    <2>4. InstallOrUpgradeFailed(p) => GoesOn(p)
      BY <1>1, OutcomeGoesOn
    <2> QED
      BY <1>2, <2>1, <2>2, <2>3, <2>4 DEF ReconcileNormal
  <1>3. ASSUME NEW n \in Name, pc' = [pc EXCEPT ![p] = "helmRunning"],
               target' = [target EXCEPT ![p] = n], obj' = obj,
               obj[p].releaseName # None => n = obj[p].releaseName,
               obj[p].releaseName = None => obj[p].generated
        PROVE  GoesOn(p)
    <2>1. pc'[p] = "helmRunning" /\ target'[p] = n /\ obj'[p] = obj[p]
      BY <1>3 DEF TypeOK
    <2> QED
      BY <1>1, <1>3, <2>1, GrownFields DEF GoesOn
  <1>4. CASE Install(p)
    <2>1. obj[p].releaseName = None => obj[p].generated
      BY <1>4 DEF Install, WorkerOnlyAdds
    <2>2. \A n \in IF obj[p].releaseName = None THEN FreshName(obj[p].cluster)
                                                ELSE {obj[p].releaseName} :
              n \in Name /\ (obj[p].releaseName # None => n = obj[p].releaseName)
      BY <1>1 DEF FreshName, Name, HRP
    <2> QED
      BY <1>1, <1>3, <1>4, <2>1, <2>2, OutcomeGoesOn DEF Install
  <1>5. CASE Upgrade(p)
    <2>1. obj[p].releaseName \in Name /\ obj[p].releaseName # None
      BY <1>5, ConstantsAssumption DEF Upgrade, TypeOK
    <2> QED
      BY <1>1, <1>3, <1>5, <2>1, OutcomeGoesOn DEF Upgrade
  <1>6. CASE HelmEnds(p)
    <2>1. /\ target[p] \in Name
          /\ obj[p].releaseName # None => target[p] = obj[p].releaseName
          /\ obj[p].releaseName = None => obj[p].generated
      BY <1>6 DEF HelmEnds, WorkerOnlyAdds, TypeOK
    <2> QED
      BY <1>1, <1>6, <2>1, OutcomeGoesOn DEF HelmEnds
  <1>7. CASE ReconcileDelete(p)
    <2>1. Goto(p, "uninstall", obj[p]) => GoesOn(p)
      BY <1>1, GrownFields, GotoGoesOn, Steps
    <2>2. Patch(p, [obj[p] EXCEPT !.releaseReady = "HelmReleaseGetFailed"], "deferred")
            => GoesOn(p)
      BY <1>1, GrownFields, PatchGoesOn
    <2> QED
      BY <1>1, <1>7, <2>1, <2>2, OutcomeGoesOn DEF ReconcileDelete
  <1>8. CASE Uninstall(p)
    <2>1. Goto(p, "helmUninstalling", obj[p]) => GoesOn(p)
      BY <1>1, GrownFields, GotoGoesOn, Steps
    <2> QED
      BY <1>1, <1>8, <2>1, OutcomeGoesOn DEF Uninstall
  <1>9. CASE UninstallEnds(p)
    BY <1>1, <1>9, OutcomeGoesOn DEF UninstallEnds
  <1> QED
    BY <1>2, <1>4, <1>5, <1>6, <1>7, <1>8, <1>9

\* A reconcile starts with the cached copy.
LEMMA ReconcileBegins ==
    ASSUME TypeOK, NEW p \in Proxy, Reconcile(p)
    PROVE  /\ pc[p] = "idle"
           /\ cache[p] \in HRP
           /\ before'[p] = cache[p]
           /\ Grown(cache[p], obj'[p])
           /\ pc'[p] \in {"examine", "patchConditions"}
  <1>1. cache[p] \in HRP /\ pc[p] = "idle" /\ before'[p] = cache[p]
    BY DEF Reconcile, TypeOK
  <1>2. /\ \/ obj'[p] = cache[p]
           \/ obj'[p] = [cache[p] EXCEPT !.releaseReady = "PreparingToHelmInstall"]
        /\ pc'[p] \in {"examine", "patchConditions"}
    BY <1>1 DEF Reconcile, Goto, Patch, TypeOK
  <1>3. Grown(cache[p], obj'[p])
    BY <1>1, <1>2 DEF Grown, HRP
  <1> QED
    BY <1>1, <1>2, <1>3

\* A worker leaves the others and the cache alone.
LEMMA WorkerFrame ==
    ASSUME TypeOK, NEW p \in Proxy, WorkerStep(p)
    PROVE  /\ cache' = cache
           /\ \A q \in Proxy : q # p => /\ pc'[q] = pc[q] /\ obj'[q] = obj[q]
                                        /\ before'[q] = before[q] /\ target'[q] = target[q]
  <1>1. CASE \/ Reconcile(p) \/ Examine(p) \/ GetCluster(p) \/ DeleteGetCluster(p)
             \/ ReconcileDelete(p) \/ PatchReturns(p)
    BY <1>1 DEF Reconcile, Examine, GetCluster, DeleteGetCluster, ReconcileDelete, PatchReturns,
         Goto, Patch, RemoveFinalizer, Finish, TypeOK
  <1>2. CASE \/ ReconcileNormal(p) \/ Install(p) \/ Upgrade(p) \/ HelmEnds(p)
             \/ Uninstall(p) \/ UninstallEnds(p)
    BY <1>2 DEF ReconcileNormal, Install, Upgrade, HelmEnds, Uninstall, UninstallEnds,
         FoundRelease, InstallOrUpgradeFailed, InstallOrUpgradeReturned, DeletionFailed,
         RemoveFinalizer, Goto, Patch, TypeOK
  <1>3. CASE PatchConditions(p) \/ PatchObject(p) \/ PatchStatus(p)
    BY <1>3 DEF PatchConditions, PatchObject, PatchStatus, TypeOK
  <1> QED
    BY <1>1, <1>2, <1>3 DEF WorkerStep

\* One step of a worker: it starts, goes on or ends.
LEMMA WorkerEffect ==
    ASSUME TypeOK, WorkerOnlyAdds, NEW p \in Proxy, WorkerStep(p)
    PROVE  Reconcile(p) \/ GoesOn(p) \/ pc'[p] = "idle"
  BY QuietGoesOn, HelmGoesOn DEF WorkerStep

\* Steps outside the workers stop them all or leave them alone.
LEMMA OtherSteps ==
    ASSUME [Next]_vars, ~\E p \in Proxy : WorkerStep(p)
    PROVE  \/ \A p \in Proxy : pc'[p] = "idle"
           \/ UNCHANGED <<pc, obj, before, target>>
  BY DEF Next, vars, locals, Crash, CacheSync, Owner, CreateProxy, UpdateProxy, DeleteProxy,
         ClusterReady, ClusterGone

\* A worker only adds to its copy.
LEMMA WorkerOnlyAddsKept ==
    ASSUME TypeOK, WorkerOnlyAdds, [Next]_vars
    PROVE  WorkerOnlyAdds'
  <1>1. ASSUME NEW p \in Proxy, WorkerStep(p)
        PROVE  WorkerOnlyAdds'
    <2> SUFFICES ASSUME NEW q \in Proxy
                 PROVE  (/\ Running(q) => Grown(before[q], obj[q])
                         /\ pc[q] \in {"install", "helmRunning"} /\ obj[q].releaseName = None
                              => obj[q].generated
                         /\ pc[q] = "helmRunning" /\ obj[q].releaseName # None
                              => target[q] = obj[q].releaseName)'
      BY DEF WorkerOnlyAdds
    <2>1. CASE q # p
      BY <1>1, <2>1, WorkerFrame DEF WorkerOnlyAdds, Running, Grown
    <2>2. CASE q = p /\ Reconcile(p)
      BY <2>2, ReconcileBegins DEF Running, Grown
    <2>3. CASE q = p /\ GoesOn(p)
      <3>1. Grown(before[p], obj'[p])
        BY <2>3, GrownTransitive DEF GoesOn, WorkerOnlyAdds, Running
      <3> QED
        BY <2>3, <3>1 DEF GoesOn, Running, Grown
    <2>4. CASE q = p /\ pc'[p] = "idle"
      BY <2>4 DEF Running
    <2> QED
      BY <1>1, <2>1, <2>2, <2>3, <2>4, WorkerEffect
  <1>2. CASE ~\E p \in Proxy : WorkerStep(p)
    BY <1>2, OtherSteps DEF WorkerOnlyAdds, Running, Grown
  <1> QED
    BY <1>1, <1>2

-----------------------------------------------------------------------------
(* What a step does to the stored objects.                                 *)

Revised(o, content, keepHistory) ==
    [o EXCEPT !.content = content, !.keepHistory = keepHistory, !.generation = @ + 1]
Marked(o) == [o EXCEPT !.deleting = TRUE, !.generation = @ + 1]
Observing(a, o) == [a EXCEPT !.observed = o.generation]

\* The requests of p's worker.
ConditionsWritten(p) ==
    /\ pc[p] = "patchConditions"
    /\ Exists(p)
    /\ api' = [api EXCEPT ![p] = PatchedConditions(api[p], before[p], obj[p])]
ObjectWritten(p) ==
    /\ pc[p] = "patchObject"
    /\ Exists(p)
    /\ api' = [api EXCEPT ![p] = Stored(PatchedObject(api[p], before[p], obj[p]))]
StatusWritten(p) ==
    /\ pc[p] = "patchStatus"
    /\ Exists(p)
    /\ api' = [api EXCEPT ![p] = Observing(api[p], obj[p])]

\* Every change of a stored object is the owner's or such a request.
LEMMA ApiEffect ==
    ASSUME TypeOK, [Next]_vars
    PROVE  \/ api' = api
           \/ \E p \in Proxy : \/ Owner(p) \/ ConditionsWritten(p) \/ ObjectWritten(p)
                               \/ StatusWritten(p)
  <1>1. ASSUME NEW p \in Proxy, PatchConditions(p)
        PROVE  api' = api \/ ConditionsWritten(p)
    BY <1>1 DEF PatchConditions, Request, ConditionsWritten
  <1>2. ASSUME NEW p \in Proxy, PatchObject(p)
        PROVE  api' = api \/ ObjectWritten(p)
    BY <1>2 DEF PatchObject, Request, ObjectWritten
  <1>3. ASSUME NEW p \in Proxy, PatchStatus(p)
        PROVE  api' = api \/ StatusWritten(p)
    BY <1>3 DEF PatchStatus, Request, StatusWritten, Observing
  <1>4. ASSUME NEW p \in Proxy, WorkerStep(p)
        PROVE  api' = api \/ ConditionsWritten(p) \/ ObjectWritten(p) \/ StatusWritten(p)
    BY <1>1, <1>2, <1>3, <1>4, QuietSteps
  <1>5. CASE \/ Crash \/ UNCHANGED vars \/ \E p \in Proxy : CacheSync(p)
             \/ \E c \in Cluster : ClusterReady(c) \/ ClusterGone(c)
    BY <1>5 DEF Crash, vars, CacheSync, ClusterReady, ClusterGone
  <1> QED
    BY <1>4, <1>5 DEF Next

\* What the owner's steps do to a stored object.
LEMMA OwnersFields ==
    ASSUME NEW o \in HRP, NEW content \in Content, NEW keepHistory \in BOOLEAN
    PROVE  /\ Revised(o, content, keepHistory) \in HRP
           /\ Marked(o) \in HRP
           /\ Precedes(o, Revised(o, content, keepHistory))
           /\ Precedes(o, Marked(o))
           /\ Revised(o, content, keepHistory).generation = o.generation + 1
           /\ Revised(o, content, keepHistory).observed = o.observed
           /\ Marked(o).generation = o.generation + 1
           /\ Marked(o).observed = o.observed
           /\ Marked(o).deleting
           /\ Marked(o).finalizer = o.finalizer
  <1>1. Revised(o, content, keepHistory) \in HRP /\ Marked(o) \in HRP
    <2>1. o.generation + 1 \in Nat
      BY DEF HRP
    <2> QED
      BY <2>1 DEF Revised, Marked, HRP
  <1>2. /\ Precedes(o, Revised(o, content, keepHistory))
        /\ Revised(o, content, keepHistory).generation = o.generation + 1
        /\ Revised(o, content, keepHistory).observed = o.observed
    BY DEF Revised, Precedes, HRP
  <1>3. /\ Precedes(o, Marked(o))
        /\ Marked(o).generation = o.generation + 1
        /\ Marked(o).observed = o.observed
        /\ Marked(o).deleting
        /\ Marked(o).finalizer = o.finalizer
    BY DEF Marked, Precedes, HRP
  <1> QED
    BY <1>1, <1>2, <1>3

\* The owner's part of an object, and the part of its metadata the controller writes.
SameSpec(a, x) ==
    /\ x.cluster = a.cluster
    /\ x.content = a.content
    /\ x.keepHistory = a.keepHistory
    /\ x.deleting = a.deleting
SameMetadata(a, x) ==
    /\ x.releaseName = a.releaseName
    /\ x.generated = a.generated
    /\ x.installed = a.installed
    /\ x.finalizer = a.finalizer

\* What the requests do to one: the conditions, the status, the metadata and the name.
LEMMA ConditionsFields ==
    ASSUME NEW a \in HRP, NEW b \in HRP, NEW o \in HRP,
           NEW x, x = PatchedConditions(a, b, o)
    PROVE  /\ x.generation = a.generation
           /\ x.observed = a.observed
           /\ Precedes(a, x)
           /\ SameSpec(a, x)
           /\ SameMetadata(a, x)
  <1>1. x.generation = a.generation /\ x.observed = a.observed /\ Precedes(a, x)
    BY DEF PatchedConditions, Precedes, HRP
  <1>2. SameSpec(a, x) /\ SameMetadata(a, x)
    BY DEF PatchedConditions, SameSpec, SameMetadata, HRP
  <1> QED
    BY <1>1, <1>2

LEMMA StatusFields ==
    ASSUME NEW a \in HRP, NEW o \in HRP, NEW x, x = Observing(a, o)
    PROVE  /\ x \in HRP
           /\ x.generation = a.generation
           /\ x.observed = o.generation
           /\ SameSpec(a, x)
           /\ SameMetadata(a, x)
  <1>1. x \in HRP /\ x.generation = a.generation /\ x.observed = o.generation
    BY DEF Observing, HRP
  <1>2. SameSpec(a, x) /\ SameMetadata(a, x)
    BY DEF Observing, SameSpec, SameMetadata, HRP
  <1> QED
    BY <1>1, <1>2

LEMMA ObjectFields ==
    ASSUME NEW a \in HRP, NEW b \in HRP, NEW o \in HRP,
           NEW x, x = PatchedObject(a, b, o)
    PROVE  /\ x.generated = Merge(a.generated, b.generated, o.generated)
           /\ x.installed = Merge(a.installed, b.installed, o.installed)
           /\ x.observed = a.observed
           /\ x.generation = IF x.releaseName = a.releaseName THEN a.generation
                                                              ELSE a.generation + 1
           /\ Grown(b, o) => Precedes(a, x)
           /\ SameSpec(a, x)
  <1>1. /\ x.generated = Merge(a.generated, b.generated, o.generated)
        /\ x.installed = Merge(a.installed, b.installed, o.installed)
        /\ x.observed = a.observed
    BY DEF PatchedObject, WithName, HRP
  <1>2. x.generation = IF x.releaseName = a.releaseName THEN a.generation ELSE a.generation + 1
    BY DEF PatchedObject, WithName, HRP
  <1>3. Grown(b, o) => Precedes(a, x)
    BY <1>1, <1>2 DEF Grown, Precedes, Merge, HRP
  <1>4. SameSpec(a, x)
    BY DEF PatchedObject, WithName, SameSpec, HRP
  <1> QED
    BY <1>1, <1>2, <1>3, <1>4

\* A stored object only moves forward, until it is removed.
Advances(p) ==
    \/ api'[p] = None
    \/ /\ api[p] = None /\ cache[p] = None /\ pc[p] = "idle"
       /\ api'[p].observed <= api'[p].generation
    \/ /\ api[p] # None
       /\ Precedes(api[p], api'[p])
       /\ api'[p].observed <= api'[p].generation

LEMMA ApiAdvances ==
    ASSUME TypeOK, CopyInv, [Next]_vars, NEW p \in Proxy
    PROVE  Advances(p)
  <1>0. /\ api[p] \in HRP \union {None}
        /\ Exists(p) => Precedes(api[p], api[p]) /\ api[p].observed <= api[p].generation
    BY DEF TypeOK, CopyInv, StoredIsNewest, Precedes, HRP, Exists
  <1>1. CASE api'[p] = api[p]
    BY <1>0, <1>1 DEF Advances, Exists
  <1>2. CASE Owner(p)
    <2>1. ASSUME NEW c \in Cluster, NEW n \in SpecName, NEW content \in Content,
                 NEW keep \in KeepHistory, CreateProxy(p, c, n, content, keep)
          PROVE  Advances(p)
      <3>1. api[p] = None /\ cache[p] = None /\ pc[p] = "idle"
        BY <2>1 DEF CreateProxy, Exists
      <3>2. api'[p].generation = 1 /\ api'[p].observed = 0
        BY <2>1 DEF CreateProxy, TypeOK
      <3> QED
        BY <3>1, <3>2 DEF Advances
    <2>2. ASSUME NEW content \in Content, NEW keep \in KeepHistory,
                 UpdateProxy(p, content, keep)
          PROVE  Advances(p)
      <3>1. Exists(p) /\ api' = [api EXCEPT ![p] = Revised(api[p], content, keep)]
        BY <2>2 DEF UpdateProxy, Revised
      <3>2. api[p] \in HRP /\ api'[p] = Revised(api[p], content, keep)
        BY <1>0, <3>1 DEF Exists, TypeOK
      <3>3. keep \in BOOLEAN
        BY ConstantsAssumption
      <3>4. /\ Precedes(api[p], api'[p])
            /\ api'[p].observed = api[p].observed
            /\ api'[p].generation = api[p].generation + 1
        BY <3>2, <3>3, OwnersFields
      <3> QED
        BY <1>0, <3>1, <3>2, <3>4 DEF Advances, Exists, HRP
    <2>3. CASE DeleteProxy(p)
      <3>1. Exists(p) /\ api' = [api EXCEPT ![p] = Stored(Marked(api[p]))]
        BY <2>3 DEF DeleteProxy, Marked
      <3>2. api[p] \in HRP /\ api'[p] \in {None, Marked(api[p])}
        BY <1>0, <3>1 DEF Exists, TypeOK, Stored
      <3>3. api'[p] # None => /\ Precedes(api[p], api'[p])
                              /\ api'[p].observed = api[p].observed
                              /\ api'[p].generation = api[p].generation + 1
        <4>1. PICK content \in Content : TRUE
          BY <3>2 DEF HRP
        <4> QED
          BY <3>2, <4>1, OwnersFields
      <3> QED
        BY <1>0, <3>1, <3>2, <3>3 DEF Advances, Exists, HRP
    <2> QED
      BY <1>2, <2>1, <2>2, <2>3 DEF Owner
  <1>3. CASE ConditionsWritten(p) \/ ObjectWritten(p) \/ StatusWritten(p)
    <2>1. /\ api[p] \in HRP /\ before[p] \in HRP /\ obj[p] \in HRP
          /\ Running(p) /\ Exists(p)
      BY <1>0, <1>3 DEF ConditionsWritten, ObjectWritten, StatusWritten, TypeOK, Running, Exists
    <2>2. Grown(before[p], obj[p]) /\ before[p].generation <= api[p].generation
      BY <2>1 DEF CopyInv, StoredIsNewest, WorkerOnlyAdds, Precedes
    <2>3. CASE ConditionsWritten(p)
      <3>1. api'[p] = PatchedConditions(api[p], before[p], obj[p])
        BY <2>3 DEF ConditionsWritten, TypeOK
      <3> QED
        BY <1>0, <2>1, <3>1, ConditionsFields DEF Advances, Exists
    <2>4. CASE ObjectWritten(p)
      <3> DEFINE x == PatchedObject(api[p], before[p], obj[p])
      <3>1. api'[p] \in {None, x}
        BY <2>4 DEF ObjectWritten, TypeOK, Stored
      <3>2. /\ Precedes(api[p], x)
            /\ x.observed = api[p].observed
            /\ x \in HRP
        BY <2>1, <2>2, ObjectFields, PatchedObjectType
      <3> HIDE DEF x
      <3> QED
        BY <1>0, <2>1, <3>1, <3>2 DEF Advances, Exists, Precedes, HRP
    <2>5. CASE StatusWritten(p)
      <3>1. api'[p] = Observing(api[p], obj[p])
        BY <2>5 DEF StatusWritten, TypeOK
      <3>2. /\ Precedes(api[p], api'[p])
            /\ api'[p].observed = obj[p].generation
            /\ api'[p].generation = api[p].generation
        BY <2>1, <3>1 DEF Observing, Precedes, HRP
      <3> QED
        BY <2>1, <2>2, <3>2 DEF Advances, Exists, Grown
    <2> QED
      BY <1>3, <2>3, <2>4, <2>5
  <1>4. ASSUME NEW q \in Proxy, q # p,
               \/ Owner(q) \/ ConditionsWritten(q) \/ ObjectWritten(q) \/ StatusWritten(q)
        PROVE  api'[p] = api[p]
    BY <1>4, OwnerEffect DEF ConditionsWritten, ObjectWritten, StatusWritten, TypeOK
  <1> QED
    BY <1>1, <1>2, <1>3, <1>4, ApiEffect

\* The cache takes what is stored, or stays.
LEMMA CacheEffect ==
    ASSUME TypeOK, [Next]_vars, NEW p \in Proxy
    PROVE  cache'[p] = cache[p] \/ (cache'[p] = api[p] /\ api' = api)
  <1>1. ASSUME NEW q \in Proxy, WorkerStep(q)
        PROVE  cache' = cache
    BY <1>1, WorkerFrame
  <1>2. CASE Crash \/ UNCHANGED vars \/ \E q \in Proxy : CacheSync(q)
    BY <1>2 DEF Crash, vars, CacheSync, TypeOK
  <1>3. CASE \/ \E q \in Proxy : Owner(q)
             \/ \E c \in Cluster : ClusterReady(c) \/ ClusterGone(c)
    BY <1>3 DEF Owner, CreateProxy, UpdateProxy, DeleteProxy, ClusterReady, ClusterGone
  <1> QED
    BY <1>1, <1>2, <1>3 DEF Next

\* What a worker read, it read from the cache.
LEMMA BeforeEffect ==
    ASSUME TypeOK, WorkerOnlyAdds, [Next]_vars, NEW p \in Proxy
    PROVE  \/ pc'[p] = "idle"
           \/ before'[p] = before[p] /\ pc[p] # "idle"
           \/ before'[p] = cache[p] /\ cache[p] # None
  <1>1. ASSUME NEW q \in Proxy, WorkerStep(q), q # p
        PROVE  before'[p] = before[p] /\ pc'[p] = pc[p]
    BY <1>1, WorkerFrame
  <1>2. CASE WorkerStep(p)
    BY <1>2, WorkerEffect, ReconcileBegins, NoneIsNoObject DEF GoesOn
  <1> QED
    BY <1>1, <1>2, OtherSteps

LEMMA PrecedesTransitive ==
    ASSUME NEW o \in HRP, NEW q \in HRP, NEW r \in HRP, Precedes(o, q), Precedes(q, r)
    PROVE  Precedes(o, r)
  BY DEF Precedes, HRP

\* No copy gets ahead of the stored object.
LEMMA StoredIsNewestKept ==
    ASSUME TypeOK, TypeOK', CopyInv, [Next]_vars
    PROVE  StoredIsNewest'
  <1> SUFFICES ASSUME NEW p \in Proxy, api'[p] # None
               PROVE  /\ api'[p].observed <= api'[p].generation
                      /\ cache'[p] # None => Precedes(cache'[p], api'[p])
                      /\ pc'[p] # "idle" => Precedes(before'[p], api'[p])
    BY DEF StoredIsNewest, Exists, Running
  <1>0. /\ api'[p] \in HRP /\ api[p] \in HRP \union {None} /\ cache[p] \in HRP \union {None}
        /\ pc[p] # "idle" => before[p] \in HRP
    BY DEF TypeOK
  <1>1. CASE api[p] = None
    <2>1. /\ cache[p] = None /\ pc[p] = "idle" /\ api' # api
          /\ api'[p].observed <= api'[p].generation
      BY <1>1, ApiAdvances DEF Advances
    <2> QED
      BY <2>1, CacheEffect, BeforeEffect DEF CopyInv
  <1>2. CASE api[p] # None
    <2>1. Precedes(api[p], api'[p]) /\ api'[p].observed <= api'[p].generation
      BY <1>2, ApiAdvances DEF Advances
    <2>2. /\ cache[p] # None => Precedes(cache[p], api[p])
          /\ pc[p] # "idle" => Precedes(before[p], api[p])
      BY <1>2 DEF CopyInv, StoredIsNewest, Exists, Running
    <2>3. /\ cache[p] # None => Precedes(cache[p], api'[p])
          /\ pc[p] # "idle" => Precedes(before[p], api'[p])
      BY <1>0, <1>2, <2>1, <2>2, PrecedesTransitive
    <2> QED
      BY <2>1, <2>3, CacheEffect, BeforeEffect DEF CopyInv
  <1> QED
    BY <1>1, <1>2

\* Every reachable state satisfies CopyInv: for any lag of the cache and any faults, no
\* copy of an object is ahead of the stored one, and what a worker writes back only adds
\* to what it read.
THEOREM CopiesInOrder == Spec => []CopyInv
  <1>1. Init => CopyInv
    BY DEF Init, CopyInv, StoredIsNewest, WorkerOnlyAdds, Exists, Running
  <1>2. TypeOK /\ TypeOK' /\ CopyInv /\ [Next]_vars => CopyInv'
    BY StoredIsNewestKept, WorkerOnlyAddsKept DEF CopyInv
  <1> QED
    BY <1>1, <1>2, TypeCorrect, PTL DEF Spec

-----------------------------------------------------------------------------
(* Every step is one of the contract.                                      *)

Objects == [p \in Proxy |-> IF Exists(p) THEN OwnersView(api[p]) ELSE None]

\* The view of an object is a view, and not None.
LEMMA ViewType == \A o \in HRP : OwnersView(o) \in View /\ OwnersView(o) # None
  <1>1. ASSUME NEW o \in HRP
        PROVE  OwnersView(o) \in View
    BY DEF OwnersView, View, HRP, Ready
  <1> QED
    BY <1>1, NoneIsNoView

\* The fields of a view.
LEMMA ViewFields ==
    ASSUME NEW o
    PROVE  /\ OwnersView(o).identity = o.cluster
           /\ OwnersView(o).spec = <<o.content, o.keepHistory>>
           /\ OwnersView(o).releaseName = o.releaseName
           /\ OwnersView(o).generated = o.generated
           /\ OwnersView(o).installed = o.installed
           /\ OwnersView(o).finalizer = o.finalizer
           /\ OwnersView(o).deleting = o.deleting
           /\ OwnersView(o).ready = Ready(o)
           /\ OwnersView(o).generation = o.generation
           /\ OwnersView(o).observed = o.observed
  BY DEF OwnersView

\* A step that changes one object changes one object of the contract.
LEMMA OnlyOne ==
    ASSUME TypeOK, NEW p \in Proxy, NEW new, api' = [api EXCEPT ![p] = new]
    PROVE  /\ Objects' = [Objects EXCEPT ![p] = Objects'[p]]
           /\ Objects'[p] = IF new = None THEN None ELSE OwnersView(new)
  <1>1. api'[p] = new /\ \A q \in Proxy : q # p => api'[q] = api[q]
    BY DEF TypeOK
  <1>2. /\ Objects'[p] = IF new = None THEN None ELSE OwnersView(new)
        /\ \A q \in Proxy : q # p => Objects'[q] = Objects[q]
    BY <1>1 DEF Objects, Exists
  <1> QED
    BY <1>2 DEF Objects

\* What an Update, a Delete and a Serve of the contract may change.
Updates(v, w) == w = [v EXCEPT !.spec = w.spec, !.generation = @ + 1]
Marks(v, w) == w = [v EXCEPT !.deleting = TRUE, !.generation = @ + 1]
Serves(v, w) ==
    w = [v EXCEPT !.finalizer = w.finalizer,
                  !.generated = w.generated,
                  !.installed = w.installed,
                  !.releaseName = w.releaseName,
                  !.generation = IF w.releaseName = v.releaseName THEN @ ELSE @ + 1,
                  !.ready = w.ready,
                  !.observed = w.observed]

\* A view that differs in what the owner writes.
LEMMA OwnersWrite ==
    ASSUME NEW v \in View, NEW w \in View,
           w.identity = v.identity, w.releaseName = v.releaseName,
           w.generated = v.generated, w.installed = v.installed, w.finalizer = v.finalizer,
           w.ready = v.ready, w.generation = v.generation + 1, w.observed = v.observed
    PROVE  /\ w.deleting = v.deleting => Updates(v, w)
           /\ w.deleting /\ w.spec = v.spec => Marks(v, w)
  BY DEF View, Updates, Marks

\* A view that differs in what the controller writes.
LEMMA ControllersWrite ==
    ASSUME NEW v \in View, NEW w \in View,
           w.identity = v.identity, w.spec = v.spec, w.deleting = v.deleting,
           w.generation = IF w.releaseName = v.releaseName THEN v.generation
                                                           ELSE v.generation + 1
    PROVE  Serves(v, w)
  BY DEF View, Serves

\* A view of an object as the owner makes it.
LEMMA NewByFields ==
    ASSUME NEW v \in View, v.releaseName \in UserName \union {None},
           ~v.generated, ~v.installed, ~v.finalizer, ~v.deleting, ~v.ready,
           v.generation = 1, v.observed = 0
    PROVE  Contract!New(v)
  BY DEF View, Contract!New

LEMMA ContractSteps ==
    ASSUME NEW p \in Proxy, Objects' = [Objects EXCEPT ![p] = Objects'[p]],
           \/ Contract!Create(p) \/ Contract!Update(p) \/ Contract!Delete(p)
           \/ Contract!Serve(p) \/ Contract!Remove(p)
    PROVE  Contract!Next
  BY DEF Contract!Next, Contract!Only, Contract!Owner, Contract!Controller, Objects

\* The contract's view of a stored object.
LEMMA StoredView ==
    ASSUME TypeOK, NEW p \in Proxy
    PROVE  /\ api[p] = None => Objects[p] = None
           /\ api[p] # None => /\ api[p] \in HRP
                               /\ Objects[p] = OwnersView(api[p])
                               /\ OwnersView(api[p]) # None
  <1>1. api[p] # None => api[p] \in HRP
    BY DEF TypeOK
  <1>2. Objects[p] = IF api[p] = None THEN None ELSE OwnersView(api[p])
    BY DEF Objects, Exists
  <1> QED
    BY <1>1, <1>2, ViewType

\* A request that leaves the owner's part alone, and keeps what it must, is a Serve.
LEMMA RequestServes ==
    ASSUME TypeOK, NEW p \in Proxy, Exists(p), NEW x \in HRP,
           api' = [api EXCEPT ![p] = x],
           SameSpec(api[p], x),
           x.generation = IF x.releaseName = api[p].releaseName
                            THEN api[p].generation ELSE api[p].generation + 1,
           api[p].finalizer => x.finalizer,
           api[p].generated => x.generated,
           api[p].installed => x.installed,
           x.releaseName # api[p].releaseName =>
               /\ api[p].releaseName \notin UserName
               /\ x.releaseName \in GeneratedName
               /\ x.generated,
           x.observed <= x.generation
    PROVE  Contract!Next
  <1> DEFINE a == api[p]
             v == OwnersView(a)
             w == OwnersView(x)
  <1>1. a \in HRP /\ Objects[p] = v /\ v # None
    BY StoredView DEF Exists
  <1>2. Objects' = [Objects EXCEPT ![p] = Objects'[p]] /\ Objects'[p] = w /\ w # None
    BY OnlyOne, ViewType, NoneIsNoObject
  <1>3. v \in View /\ w \in View
    BY <1>1, ViewType
  <1>4. w.identity = v.identity /\ w.spec = v.spec /\ w.deleting = v.deleting
    <2>1. v.spec = <<a.content, a.keepHistory>> /\ w.spec = <<x.content, x.keepHistory>>
      BY ViewFields
    <2>2. w.spec = v.spec
      BY <2>1 DEF SameSpec
    <2>3. w.identity = v.identity /\ w.deleting = v.deleting
      BY ViewFields DEF SameSpec
    <2> QED
      BY <2>2, <2>3
  <1>5. w.generation = IF w.releaseName = v.releaseName THEN v.generation
                                                        ELSE v.generation + 1
    BY ViewFields
  <1>6. /\ v.finalizer => w.finalizer
        /\ v.generated => w.generated
        /\ v.installed => w.installed
        /\ w.releaseName # v.releaseName => /\ v.releaseName \notin UserName
                                            /\ w.releaseName \in GeneratedName
                                            /\ w.generated
    BY ViewFields
  <1>7. w.observed \in 0 .. w.generation
    <2>1. w.observed = x.observed /\ w.generation = x.generation
      BY ViewFields
    <2>2. x.observed \in 0 .. x.generation
      BY DEF HRP
    <2> QED
      BY <2>1, <2>2
  <1> HIDE DEF v, w
  <1>8. Serves(v, w)
    BY <1>3, <1>4, <1>5, ControllersWrite
  <1>9. Contract!Serve(p)
    BY <1>1, <1>2, <1>6, <1>7, <1>8 DEF Contract!Serve, Contract!Exists, Objects, Serves
  <1> QED
    BY <1>2, <1>9, ContractSteps

\* The owner's steps are the owner's in the contract.
LEMMA OwnerContract ==
    ASSUME TypeOK, NEW p \in Proxy, Owner(p)
    PROVE  Contract!Next
  <1>1. ASSUME NEW c \in Cluster, NEW n \in SpecName, NEW content \in Content,
               NEW keep \in KeepHistory, CreateProxy(p, c, n, content, keep)
        PROVE  Contract!Next
    <2> DEFINE x == [cluster |-> c, content |-> content, keepHistory |-> keep,
                     releaseName |-> n, generated |-> FALSE, installed |-> FALSE,
                     finalizer |-> FALSE, deleting |-> FALSE,
                     generation |-> 1, observed |-> 0,
                     clusterAvailable |-> None, releaseReady |-> None]
    <2>1. api[p] = None /\ api' = [api EXCEPT ![p] = x]
      BY <1>1 DEF CreateProxy, Exists
    <2>2. n \in UserName \union {None} /\ keep \in BOOLEAN
      BY ConstantsAssumption
    <2>3. x \in HRP
      BY <2>2 DEF HRP, Name
    <2>4. /\ x.releaseName = n /\ ~x.generated /\ ~x.installed /\ ~x.finalizer /\ ~x.deleting
          /\ ~Ready(x) /\ x.generation = 1 /\ x.observed = 0
      <3>1. x.clusterAvailable = None /\ x.releaseReady = None
        OBVIOUS
      <3>2. ~Ready(x)
        BY <3>1, NoneIsNoReason DEF Ready, ClusterAvailableReason
      <3> QED
        BY <3>2
    <2> HIDE DEF x
    <2>5. Contract!New(OwnersView(x)) /\ OwnersView(x) # None
      BY <2>2, <2>3, <2>4, ViewType, ViewFields, NewByFields
    <2>6. Objects[p] = None
      BY <2>1, StoredView
    <2>7. Objects' = [Objects EXCEPT ![p] = Objects'[p]] /\ Objects'[p] = OwnersView(x)
      BY <2>1, <2>3, OnlyOne, NoneIsNoObject
    <2>8. Contract!Create(p)
      BY <2>5, <2>6, <2>7 DEF Contract!Create, Contract!Exists, Objects
    <2> QED
      BY <2>7, <2>8, ContractSteps
  <1>2. ASSUME NEW content \in Content, NEW keep \in KeepHistory, UpdateProxy(p, content, keep)
        PROVE  Contract!Next
    <2> DEFINE a == api[p]
               x == Revised(a, content, keep)
               v == OwnersView(a)
               w == OwnersView(x)
    <2>1. /\ api[p] # None /\ api' = [api EXCEPT ![p] = x]
          /\ ~(ReconcileStrategy = "InstallOnce" /\ a.installed)
      BY <1>2 DEF UpdateProxy, Revised, Exists
    <2>2. a \in HRP /\ keep \in BOOLEAN
      BY <2>1, ConstantsAssumption DEF TypeOK
    <2>3. x \in HRP /\ x.generation = a.generation + 1 /\ x.observed = a.observed
      BY <2>2, OwnersFields
    <2>4. /\ x.cluster = a.cluster /\ SameMetadata(a, x) /\ x.deleting = a.deleting
          /\ Ready(x) = Ready(a)
      <3>1. /\ x.cluster = a.cluster /\ SameMetadata(a, x) /\ x.deleting = a.deleting
        BY <2>2 DEF Revised, SameMetadata, HRP
      <3>2. x.clusterAvailable = a.clusterAvailable /\ x.releaseReady = a.releaseReady
        BY <2>2 DEF Revised, HRP
      <3> QED
        BY <3>1, <3>2 DEF Ready
    <2>5. Objects[p] = v /\ v # None
      BY <2>1, StoredView
    <2> HIDE DEF x, a
    <2>6. Objects' = [Objects EXCEPT ![p] = Objects'[p]] /\ Objects'[p] = w
      BY <2>1, <2>3, OnlyOne, NoneIsNoObject
    <2>7. v \in View /\ w \in View /\ w # None
      BY <2>2, <2>3, ViewType
    <2>8. /\ w.identity = v.identity /\ w.releaseName = v.releaseName
          /\ w.generated = v.generated /\ w.installed = v.installed
          /\ w.finalizer = v.finalizer /\ w.deleting = v.deleting
      BY <2>4, ViewFields DEF SameMetadata
    <2>9. w.ready = v.ready /\ w.generation = v.generation + 1 /\ w.observed = v.observed
      BY <2>3, <2>4, ViewFields
    <2>10. ~(ReconcileStrategy = "InstallOnce" /\ v.installed)
      BY <2>1, ViewFields DEF a
    <2> HIDE DEF v, w
    <2>11. Updates(v, w)
      BY <2>7, <2>8, <2>9, OwnersWrite
    <2>12. Contract!Update(p)
      BY <2>5, <2>6, <2>7, <2>10, <2>11 DEF Contract!Update, Contract!Exists, Objects, Updates
    <2> QED
      BY <2>6, <2>12, ContractSteps
  <1>3. CASE DeleteProxy(p)
    <2> DEFINE a == api[p]
               x == Marked(a)
               v == OwnersView(a)
               w == OwnersView(x)
    <2>1. /\ api[p] # None /\ ~a.deleting /\ api' = [api EXCEPT ![p] = Stored(x)]
      BY <1>3 DEF DeleteProxy, Marked, Exists
    <2>2. a \in HRP
      BY <2>1 DEF TypeOK
    <2>3. /\ x \in HRP /\ x.generation = a.generation + 1 /\ x.observed = a.observed
          /\ x.deleting /\ SameMetadata(a, x)
      <3>1. PICK content \in Content : TRUE
        BY <2>2 DEF HRP
      <3>2. /\ x \in HRP /\ x.generation = a.generation + 1 /\ x.observed = a.observed
            /\ x.deleting
        BY <2>2, <3>1, OwnersFields
      <3>3. SameMetadata(a, x)
        BY <2>2 DEF Marked, SameMetadata, HRP
      <3> QED
        BY <3>2, <3>3
    <2>4. /\ x.cluster = a.cluster /\ x.content = a.content /\ x.keepHistory = a.keepHistory
          /\ Ready(x) = Ready(a)
      <3>1. x.cluster = a.cluster /\ x.content = a.content /\ x.keepHistory = a.keepHistory
        BY <2>2 DEF Marked, HRP
      <3>2. x.clusterAvailable = a.clusterAvailable /\ x.releaseReady = a.releaseReady
        BY <2>2 DEF Marked, HRP
      <3> QED
        BY <3>1, <3>2 DEF Ready
    <2>5. Objects[p] = v /\ v # None
      BY <2>1, StoredView
    <2>6. Stored(x) = IF a.finalizer THEN x ELSE None
      BY <2>3 DEF Stored, SameMetadata
    <2>7. v.finalizer = a.finalizer /\ ~v.deleting
      BY <2>1, ViewFields
    <2> HIDE DEF x, a
    <2>8. /\ Objects' = [Objects EXCEPT ![p] = Objects'[p]]
          /\ Objects'[p] = IF v.finalizer THEN w ELSE None
      BY <2>1, <2>3, <2>6, <2>7, OnlyOne, NoneIsNoObject
    <2>9. v \in View /\ w \in View
      BY <2>2, <2>3, ViewType
    <2>10. /\ w.identity = v.identity /\ w.spec = v.spec /\ w.releaseName = v.releaseName
           /\ w.generated = v.generated /\ w.installed = v.installed
           /\ w.finalizer = v.finalizer /\ w.deleting
      <3>1. v.spec = <<a.content, a.keepHistory>> /\ w.spec = <<x.content, x.keepHistory>>
        BY ViewFields
      <3>2. w.spec = v.spec
        BY <2>4, <3>1
      <3>3. /\ w.identity = v.identity /\ w.releaseName = v.releaseName
            /\ w.generated = v.generated /\ w.installed = v.installed
            /\ w.finalizer = v.finalizer /\ w.deleting
        BY <2>3, <2>4, ViewFields DEF SameMetadata
      <3> QED
        BY <3>2, <3>3
    <2>11. w.ready = v.ready /\ w.generation = v.generation + 1 /\ w.observed = v.observed
      BY <2>3, <2>4, ViewFields
    <2> HIDE DEF v, w
    <2>12. Marks(v, w)
      BY <2>9, <2>10, <2>11, OwnersWrite
    <2>13. Contract!Delete(p)
      BY <2>5, <2>7, <2>8, <2>12 DEF Contract!Delete, Contract!Exists, Objects, Marks
    <2> QED
      BY <2>8, <2>13, ContractSteps
  <1> QED
    BY <1>1, <1>2, <1>3 DEF Owner

\* So are the requests of a worker, however old its copy: what it takes away is the
\* finalizer, of an object under deletion; what it adds was missing when it read the
\* object and is added for good.
LEMMA RequestContract ==
    ASSUME TypeOK, ProxyInv, CopyInv, NEW p \in Proxy,
           ConditionsWritten(p) \/ ObjectWritten(p) \/ StatusWritten(p)
    PROVE  Contract!Next
  <1> DEFINE a == api[p]
             b == before[p]
             o == obj[p]
  <1>0. /\ a \in HRP /\ b \in HRP /\ o \in HRP
        /\ pc[p] # "idle" /\ a # None
    BY DEF ConditionsWritten, ObjectWritten, StatusWritten, TypeOK, Exists
  <1>1. /\ a.observed <= a.generation
        /\ b.generation <= a.generation
        /\ b.generated => a.generated
        /\ Grown(b, o)
    BY <1>0 DEF CopyInv, StoredIsNewest, WorkerOnlyAdds, Precedes, Exists, Running
  <1>2. CASE ConditionsWritten(p)
    <2> DEFINE x == PatchedConditions(a, b, o)
    <2>1. /\ x.generation = a.generation /\ x.observed = a.observed
          /\ SameSpec(a, x) /\ SameMetadata(a, x) /\ x \in HRP
      <3>1. x \in HRP
        BY <1>0, PatchedObjectType
      <3>2. x = PatchedConditions(a, b, o)
        OBVIOUS
      <3> HIDE DEF x, a, b, o
      <3> QED
        BY <1>0, <3>1, <3>2, ConditionsFields
    <2>2. Exists(p) /\ api' = [api EXCEPT ![p] = x]
      BY <1>2 DEF ConditionsWritten
    <2> HIDE DEF x
    <2> QED
      BY <1>1, <2>1, <2>2, RequestServes DEF SameMetadata
  <1>3. CASE StatusWritten(p)
    <2> DEFINE x == Observing(a, o)
    <2>1. /\ x.generation = a.generation /\ x.observed = o.generation
          /\ SameSpec(a, x) /\ SameMetadata(a, x) /\ x \in HRP
      <3>1. x = Observing(a, o)
        OBVIOUS
      <3> HIDE DEF x, a, o
      <3> QED
        BY <1>0, <3>1, StatusFields
    <2>2. Exists(p) /\ api' = [api EXCEPT ![p] = x]
      BY <1>3 DEF StatusWritten
    <2> HIDE DEF x
    <2> QED
      BY <1>1, <2>1, <2>2, RequestServes DEF SameMetadata, Grown
  <1>4. CASE ObjectWritten(p)
    <2> DEFINE x == PatchedObject(a, b, o)
    <2>1. /\ x.generated = Merge(a.generated, b.generated, o.generated)
          /\ x.installed = Merge(a.installed, b.installed, o.installed)
          /\ x.observed = a.observed
          /\ x.generation = IF x.releaseName = a.releaseName THEN a.generation
                                                             ELSE a.generation + 1
          /\ Precedes(a, x)
          /\ SameSpec(a, x)
          /\ x \in HRP
      <3>1. x \in HRP
        BY <1>0, PatchedObjectType
      <3>2. x = PatchedObject(a, b, o)
        OBVIOUS
      <3> HIDE DEF x, a, b, o
      <3> QED
        BY <1>0, <1>1, <3>1, <3>2, ObjectFields
    <2>2. /\ x.releaseName = Merge(a.releaseName, b.releaseName, o.releaseName)
          /\ x.finalizer = Merge(a.finalizer, b.finalizer, o.finalizer)
      BY <1>0, PatchedObjectFields
    <2>3. Exists(p) /\ api' = [api EXCEPT ![p] = Stored(x)]
      BY <1>4 DEF ObjectWritten
    <2> HIDE DEF x
    <2>4. CASE x.deleting /\ ~x.finalizer
      <3>1. api' = [api EXCEPT ![p] = None] /\ a.deleting
        BY <2>1, <2>3, <2>4 DEF Stored, SameSpec
      <3>2. Objects' = [Objects EXCEPT ![p] = Objects'[p]] /\ Objects'[p] = None
        BY <3>1, OnlyOne
      <3>3. Objects[p] # None /\ Objects[p].deleting
        BY <1>0, <3>1, StoredView, ViewFields
      <3>4. Contract!Remove(p)
        BY <3>2, <3>3 DEF Contract!Remove, Contract!Exists, Objects
      <3> QED
        BY <3>2, <3>4, ContractSteps
    <2>5. CASE ~(x.deleting /\ ~x.finalizer)
      <3>1. api' = [api EXCEPT ![p] = x]
        BY <2>3, <2>5 DEF Stored
      <3>2. a.finalizer => x.finalizer
        <4>1. o.deleting => a.deleting
          BY <1>0 DEF ProxyInv, DeletionInOrder, Running, Exists
        <4>2. ~o.deleting /\ ~o.finalizer => ~b.finalizer
          BY <1>0 DEF ProxyInv, WorkerInBranch, Running
        <4> QED
          BY <1>0, <2>1, <2>2, <2>5, <4>1, <4>2 DEF Merge, SameSpec, HRP
      <3>3. x.releaseName # a.releaseName => /\ a.releaseName \notin UserName
                                             /\ x.releaseName \in GeneratedName
                                             /\ x.generated
        <4>1. SameName(o.releaseName, a.releaseName) /\ SameName(b.releaseName, a.releaseName)
          BY <1>0 DEF ProxyInv, CopiesAgree, Agree, Running, Exists
        <4> QED
          BY <1>0, <1>1, <2>1, <2>2, <4>1 DEF Merge, SameName, Grown, HRP, Name
      <3>4. x.observed <= x.generation
        BY <1>0, <1>1, <2>1 DEF HRP
      <3> QED
        BY <2>1, <2>3, <3>1, <3>2, <3>3, <3>4, RequestServes DEF Precedes
    <2> QED
      BY <2>4, <2>5
  <1> QED
    BY <1>2, <1>3, <1>4

\* For any number of objects, Clusters and faults, any lag of the cache and both
\* strategies, the HelmReleaseProxy controller implements its side of ReleaseContract:
\* the finalizer is only taken from an object under deletion, an annotation is never
\* lost, a name from a spec is never overwritten, the spec is the owner's alone, and
\* the status is never about a generation that was not written.
THEOREM ImplementsContract == Spec => KeepsContract
  <1>1. Init => Contract!Init
    BY DEF Init, Exists, Contract!Init, Contract!Exists
  <1>2. TypeOK /\ OwnershipInv /\ CopyInv /\ [Next]_vars => [Contract!Next]_Objects
    <2> SUFFICES ASSUME TypeOK, OwnershipInv, CopyInv, [Next]_vars
                 PROVE  Contract!Next \/ UNCHANGED Objects
      OBVIOUS
    <2>1. ProxyInv
      BY OwnershipParts
    <2>2. api' = api => UNCHANGED Objects
      BY DEF Objects, Exists
    <2> QED
      BY <2>1, <2>2, ApiEffect, OwnerContract, RequestContract
  <1> QED
    BY <1>1, <1>2, TypeCorrect, OwnershipInvariant, CopiesInOrder, PTL
       DEF Spec, KeepsContract, Contract!Spec, Objects
=============================================================================
