------------------------- MODULE HelmReleaseProxyNoLag -------------------------
(***************************************************************************)
(* What HelmReleaseProxy guarantees when a reconcile reads the object as   *)
(* it is stored: a chart that InstallOnce has installed is left alone, and *)
(* no release with a generated name is left behind as long as no request   *)
(* is lost and the process is not stopped, and a HelmReleaseProxy that     *)
(* says Ready for its spec is right as long as no request is lost.  All    *)
(* three fail when the cache lags, since the worker then does not know     *)
(* what an earlier one has installed, written or failed to do.             *)
(***************************************************************************)
EXTENDS HelmReleaseProxyContractProofs

\* The worker of p is at its last patch, and has or has not sent metadata and spec.
Deferred(p) == pc[p] \in PatchSteps /\ call[p] = "deferred"
Sent(p) == Deferred(p) /\ pc[p] \in {"patchStatus", "patched"}

\* Do two copies agree on what installing and upgrading depends on?
SameRelease(o, q) == o.releaseName = q.releaseName /\ o.installed = q.installed

\* A name that is there is not replaced.
KeepsName(o, q) == o.releaseName # None => q.releaseName = o.releaseName

\* A worker knows the name and the annotation that are stored until its last patch.
CopyCurrent ==
    \A p \in Proxy :
        /\ Running(p) /\ ~Deferred(p) => SameRelease(obj[p], before[p])
        /\ Running(p) /\ ~Sent(p) /\ Exists(p) => SameRelease(api[p], before[p])
        /\ Running(p) => KeepsName(before[p], obj[p])
        /\ target[p] # None => pc[p] = "helmRunning"

\* InstallOnce: Helm is not asked to do anything with what is installed, nor to uninstall.
InstallsOnce ==
    ReconcileStrategy = "InstallOnce" =>
        \A p \in Proxy :
            /\ pc[p] \notin {"uninstall", "helmUninstalling"}
            /\ pc[p] \in {"install", "upgrade", "helmRunning"} => ~obj[p].installed

\* A name Helm generated is known to one object, its copies and its worker; a name
\* from a spec is given to one object of a Cluster.
Mentions(p, n) ==
    \/ n = target[p]
    \/ \E o \in {api[p], cache[p], obj[p], before[p]} : o # None /\ o.releaseName = n

NamesApart ==
    \A p, q \in Proxy :
        p # q =>
            /\ \A n \in GeneratedName : ~(Mentions(p, n) /\ Mentions(q, n))
            /\ \A n \in UserName, c \in Cluster :
                 ~(/\ Exists(p) /\ api[p].releaseName = n /\ api[p].cluster = c
                   /\ Exists(q) /\ api[q].releaseName = n /\ api[q].cluster = c)

\* Without lost requests, the last patch has written the name.
NameWritten ==
    \A p \in Proxy : Sent(p) /\ Exists(p) => api[p].releaseName = obj[p].releaseName

Knows(p, n) ==
    \/ api[p].releaseName = n
    \/ Running(p) /\ n \in {target[p], obj[p].releaseName}

GeneratedOwner ==
    ReconcileStrategy = "Continuous" /\ budget["crash"] = MaxFault["crash"] =>
        \A c \in Cluster, n \in GeneratedName :
            Live(releases[c][n]) =>
                \E p \in Proxy : /\ Holds(p) /\ api[p].cluster = c
                                 /\ Knows(p, n)
                                 /\ ~Releasing(p)

-----------------------------------------------------------------------------
(* CopyCurrent.                                                            *)

\* The worker of p goes on with the same name and annotation, turns to its last patch,
\* or is at it.
Moves(p) ==
    /\ Running(p)
    /\ Running(p)'
    /\ before'[p] = before[p]
    /\ target'[p] # None => pc'[p] = "helmRunning"
    /\ KeepsName(obj[p], obj'[p])
    /\ \/ ~Deferred(p) /\ SameRelease(obj'[p], obj[p])
       \/ ~Deferred(p) /\ pc'[p] = "patchConditions" /\ call'[p] = "deferred"
       \/ Deferred(p) /\ Deferred(p)' /\ obj'[p] = obj[p] /\ (Sent(p) => Sent(p)')

\* Conditions, the finalizer and the other annotation do not matter.
LEMMA SameReleaseFields ==
    ASSUME NEW o \in HRP
    PROVE  /\ SameRelease(o, o)
           /\ \A r : SameRelease([o EXCEPT !.clusterAvailable = r], o)
           /\ \A r : SameRelease([o EXCEPT !.releaseReady = r], o)
           /\ \A f : SameRelease([o EXCEPT !.finalizer = f], o)
           /\ \A f : SameRelease([o EXCEPT !.generated = f], o)
           /\ \A f, r : SameRelease([[o EXCEPT !.releaseReady = r] EXCEPT !.finalizer = f], o)
  BY DEF SameRelease, HRP

\* A patch is prepared.
LEMMA PatchMoves ==
    ASSUME TypeOK, NEW p \in Proxy, Running(p), ~Deferred(p), before' = before,
           NEW o, NEW caller, Patch(p, o, caller),
           caller = "deferred" \/ SameRelease(o, obj[p]), KeepsName(obj[p], o)
    PROVE  Moves(p)
  <1>1. /\ pc'[p] = "patchConditions" /\ call'[p] = caller
        /\ obj'[p] = o /\ target'[p] = None
    BY DEF TypeOK, Patch
  <1> QED
    BY <1>1 DEF Moves, Running

\* The worker goes on.
LEMMA GotoMoves ==
    ASSUME TypeOK, NEW p \in Proxy, Running(p), ~Deferred(p), before' = before, target[p] = None
    PROVE  \A s \in BesidesHelm \union {"install"} : \A o :
               Goto(p, s, o) /\ SameRelease(o, obj[p]) => Moves(p)
  <1> SUFFICES ASSUME NEW s \in BesidesHelm \union {"install"}, NEW o, Goto(p, s, o),
                      SameRelease(o, obj[p])
               PROVE  Moves(p)
    OBVIOUS
  <1>1. pc'[p] = s /\ obj'[p] = o /\ target' = target /\ s # "idle"
    BY DEF TypeOK, Goto, BesidesHelm
  <1> QED
    BY <1>1 DEF Moves, Running, SameRelease, KeepsName

\* The worker of p ends.
Ends(p) == pc'[p] = "idle" /\ target'[p] = None

\* What Helm answers is handed to the last patch, with the name the object has or lacked.
LEMMA OutcomeMoves ==
    ASSUME TypeOK, NEW p \in Proxy, Running(p), ~Deferred(p), before' = before
    PROVE  /\ InstallOrUpgradeFailed(p) => Moves(p)
           /\ DeletionFailed(p) => Moves(p)
           /\ RemoveFinalizer(p, obj[p]) => Moves(p)
           /\ RemoveFinalizer(p, [obj[p] EXCEPT !.releaseReady = "HelmReleaseDeleted"])
                => Moves(p)
           /\ \A n \in Name : \A status, error :
                  /\ obj[p].releaseName # None => n = obj[p].releaseName
                  /\ InstallOrUpgradeReturned(p, n, status, error)
                  => Moves(p) /\ obj'[p].releaseName = n
  <1>1. obj[p] \in HRP
    BY DEF TypeOK, Running
  <1>2. \A o : SameRelease(o, obj[p]) => KeepsName(obj[p], o)
    BY DEF SameRelease, KeepsName
  <1>3. InstallOrUpgradeFailed(p) \/ DeletionFailed(p) => Moves(p)
    BY <1>1, <1>2, SameReleaseFields, PatchMoves DEF InstallOrUpgradeFailed, DeletionFailed
  <1>4. RemoveFinalizer(p, obj[p]) => Moves(p)
    BY <1>1, <1>2, SameReleaseFields, PatchMoves DEF RemoveFinalizer
  <1>5. RemoveFinalizer(p, [obj[p] EXCEPT !.releaseReady = "HelmReleaseDeleted"]) => Moves(p)
    BY <1>1, <1>2, SameReleaseFields, PatchMoves DEF RemoveFinalizer
  <1>6. ASSUME NEW n \in Name, NEW status, NEW error,
               obj[p].releaseName # None => n = obj[p].releaseName,
               InstallOrUpgradeReturned(p, n, status, error)
        PROVE  Moves(p) /\ obj'[p].releaseName = n
    <2> DEFINE o == [obj[p] EXCEPT !.releaseName = n]
               r == WithStatus(o, status, error)
    <2>1. o \in HRP /\ o.releaseName = n
      BY <1>1, FieldTypes DEF HRP
    <2>2. Patch(p, r, "deferred")
      BY <1>6 DEF InstallOrUpgradeReturned
    <2> HIDE DEF o
    <2>3. r.releaseName = n
      BY <2>1 DEF WithStatus, HRP
    <2>4. obj'[p] = r
      BY <2>2 DEF Patch, TypeOK
    <2> HIDE DEF r
    <2>5. KeepsName(obj[p], r)
      BY <1>6, <2>3 DEF KeepsName
    <2> QED
      BY <2>2, <2>3, <2>4, <2>5, PatchMoves
  <1> QED
    BY <1>3, <1>4, <1>5, <1>6

\* Reading the object, looking up its Cluster and ending a patch.
LEMMA QuietMoves ==
    ASSUME TypeOK, CopyCurrent, NEW p \in Proxy,
           \/ Examine(p) \/ GetCluster(p) \/ DeleteGetCluster(p)
           \/ PatchConditions(p) \/ PatchObject(p) \/ PatchStatus(p) \/ PatchReturns(p)
    PROVE  Moves(p) \/ Ends(p)
  <1>1. obj[p] \in HRP /\ Running(p) /\ target[p] = None
    BY DEF Examine, GetCluster, DeleteGetCluster, PatchConditions, PatchObject, PatchStatus,
           PatchReturns, TypeOK, Running, CopyCurrent
  <1>0. \A o : SameRelease(o, obj[p]) => KeepsName(obj[p], o)
    BY DEF SameRelease, KeepsName
  <1>2. \A r : before' = before /\ ~Deferred(p)
               /\ Patch(p, [obj[p] EXCEPT !.clusterAvailable = r], "deferred") => Moves(p)
    BY <1>0, <1>1, SameReleaseFields, PatchMoves
  <1>3. CASE Examine(p)
    <2>1. before' = before /\ ~Deferred(p)
      BY <1>3 DEF Examine, Deferred, PatchSteps
    <2>2. Patch(p, [obj[p] EXCEPT !.finalizer = TRUE], "ensureFinalizer") => Moves(p)
      BY <1>0, <1>1, <2>1, SameReleaseFields, PatchMoves
    <2>3. \A s \in {"getCluster", "deleteGetCluster"} : Goto(p, s, obj[p]) => Moves(p)
      BY <1>1, <2>1, SameReleaseFields, GotoMoves, Steps
    <2> QED
      BY <1>3, <2>2, <2>3 DEF Examine
  <1>4. CASE GetCluster(p)
    <2>1. before' = before /\ ~Deferred(p)
      BY <1>4 DEF GetCluster, Deferred, PatchSteps
    <2>2. Goto(p, "reconcileNormal", [obj[p] EXCEPT !.clusterAvailable = "Available"])
            => Moves(p)
      BY <1>1, <2>1, SameReleaseFields, GotoMoves, Steps
    <2> QED
      BY <1>2, <1>4, <2>1, <2>2 DEF GetCluster
  <1>5. CASE DeleteGetCluster(p)
    <2>1. before' = before /\ ~Deferred(p)
      BY <1>5 DEF DeleteGetCluster, Deferred, PatchSteps
    <2>2. Goto(p, "reconcileDelete", [obj[p] EXCEPT !.clusterAvailable = "Available"])
            => Moves(p)
      BY <1>1, <2>1, SameReleaseFields, GotoMoves, Steps
    <2> QED
      BY <1>1, <1>2, <1>5, <2>1, <2>2, OutcomeMoves DEF DeleteGetCluster
  <1>6. CASE PatchConditions(p) \/ PatchObject(p) \/ PatchStatus(p)
    <2>1. /\ obj' = obj /\ before' = before /\ target' = target /\ call' = call
          /\ pc[p] \in PatchSteps /\ pc'[p] \in PatchSteps
          /\ pc[p] = "patchStatus" => pc'[p] = "patched"
          /\ pc[p] # "patched"
      BY <1>6 DEF PatchConditions, PatchObject, PatchStatus, TypeOK, PatchSteps
    <2>2. Running(p)' /\ (Deferred(p)' <=> Deferred(p)) /\ (Sent(p) => Sent(p)')
      BY <2>1 DEF Running, Deferred, Sent, PatchSteps
    <2> QED
      BY <1>0, <1>1, <2>1, <2>2, SameReleaseFields DEF Moves
  <1>7. CASE PatchReturns(p)
    <2>1. \/ /\ before' = before /\ ~Deferred(p)
             /\ \/ \E s \in {"examine", "getCluster"} : Goto(p, s, obj[p])
                \/ Patch(p, obj[p], "deferred")
          \/ Finish(p)
      BY <1>7 DEF PatchReturns, Deferred
    <2>2. Finish(p) => Ends(p)
      BY <1>1 DEF Finish, TypeOK, Ends
    <2>3. before' = before /\ ~Deferred(p) /\ Patch(p, obj[p], "deferred") => Moves(p)
      BY <1>0, <1>1, SameReleaseFields, PatchMoves
    <2>4. \A s \in {"examine", "getCluster"} :
              before' = before /\ ~Deferred(p) /\ Goto(p, s, obj[p]) => Moves(p)
      BY <1>1, SameReleaseFields, GotoMoves, Steps
    <2> QED
      BY <2>1, <2>2, <2>3, <2>4
  <1> QED
    BY <1>3, <1>4, <1>5, <1>6, <1>7

\* Running Helm.
LEMMA HelmMoves ==
    ASSUME TypeOK, CopyCurrent, WorkerOnlyAdds, NEW p \in Proxy,
           \/ ReconcileNormal(p) \/ Install(p) \/ Upgrade(p) \/ HelmEnds(p)
           \/ ReconcileDelete(p) \/ Uninstall(p) \/ UninstallEnds(p)
    PROVE  Moves(p) /\ (HelmEnds(p) => obj'[p].releaseName = target[p])
  <1>1. /\ obj[p] \in HRP /\ Running(p) /\ before' = before /\ ~Deferred(p)
        /\ pc[p] # "helmRunning" => target[p] = None
    BY DEF ReconcileNormal, Install, Upgrade, HelmEnds, ReconcileDelete, Uninstall,
           UninstallEnds, TypeOK, Running, Deferred, PatchSteps, CopyCurrent
  <1>0. \A o : SameRelease(o, obj[p]) => KeepsName(obj[p], o)
    BY DEF SameRelease, KeepsName
  <1>2. CASE ReconcileNormal(p)
    <2> DEFINE o == [obj[p] EXCEPT !.generated = @ \/ obj[p].releaseName = None]
    <2>0. pc[p] = "reconcileNormal"
      BY <1>2 DEF ReconcileNormal
    <2>1. Goto(p, "install", o) => Moves(p)
      <3>1. SameRelease(o, obj[p])
        BY <1>1, SameReleaseFields
      <3> HIDE DEF o
      <3> QED
        BY <1>1, <2>0, <3>1, GotoMoves
    <2>2. FoundRelease(p, obj[p].cluster, obj[p].releaseName) => Moves(p)
      <3>1. FoundRelease(p, obj[p].cluster, obj[p].releaseName)
              => pc'[p] = "upgrade" /\ obj' = obj /\ target' = target
        BY DEF FoundRelease, TypeOK
      <3> QED
        BY <1>0, <1>1, <2>0, <3>1, SameReleaseFields DEF Moves, Running
    <2>3. Patch(p, obj[p], "deferred") => Moves(p)
      BY <1>0, <1>1, SameReleaseFields, PatchMoves
    <2>4. InstallOrUpgradeFailed(p) => Moves(p)
      BY <1>1, OutcomeMoves
    <2> QED
      BY <1>2, <2>0, <2>1, <2>2, <2>3, <2>4 DEF ReconcileNormal, HelmEnds
  <1>3. ASSUME NEW n \in Name, pc' = [pc EXCEPT ![p] = "helmRunning"], obj' = obj
        PROVE  Moves(p)
    <2>1. pc'[p] = "helmRunning" /\ obj'[p] = obj[p]
      BY <1>3 DEF TypeOK
    <2> QED
      BY <1>0, <1>1, <2>1, SameReleaseFields DEF Moves, Running
  <1>4. CASE Install(p)
    <2>1. \A n \in IF obj[p].releaseName = None THEN FreshName(obj[p].cluster)
                                                ELSE {obj[p].releaseName} :
              n \in Name /\ (obj[p].releaseName # None => n = obj[p].releaseName)
      BY <1>1 DEF FreshName, Name, HRP
    <2> QED
      BY <1>1, <1>3, <1>4, <2>1, OutcomeMoves DEF Install, HelmEnds
  <1>5. CASE Upgrade(p)
    <2>1. obj[p].releaseName \in Name
      BY <1>5 DEF Upgrade, TypeOK
    <2> QED
      BY <1>1, <1>3, <1>5, <2>1, OutcomeMoves DEF Upgrade, HelmEnds
  <1>6. CASE HelmEnds(p)
    <2>1. /\ target[p] \in Name
          /\ obj[p].releaseName # None => target[p] = obj[p].releaseName
      BY <1>6 DEF HelmEnds, WorkerOnlyAdds, TypeOK
    <2> QED
      BY <1>1, <1>6, <2>1, OutcomeMoves DEF HelmEnds
  <1>7. CASE ReconcileDelete(p)
    <2>0. pc[p] = "reconcileDelete"
      BY <1>7 DEF ReconcileDelete
    <2>1. Goto(p, "uninstall", obj[p]) => Moves(p)
      BY <1>1, <2>0, SameReleaseFields, GotoMoves, Steps
    <2>2. Patch(p, [obj[p] EXCEPT !.releaseReady = "HelmReleaseGetFailed"], "deferred")
            => Moves(p)
      BY <1>0, <1>1, SameReleaseFields, PatchMoves
    <2> QED
      BY <1>1, <1>7, <2>0, <2>1, <2>2, OutcomeMoves DEF ReconcileDelete, HelmEnds
  <1>8. CASE Uninstall(p)
    <2>0. pc[p] = "uninstall"
      BY <1>8 DEF Uninstall
    <2>1. Goto(p, "helmUninstalling", obj[p]) => Moves(p)
      BY <1>1, <2>0, SameReleaseFields, GotoMoves, Steps
    <2> QED
      BY <1>1, <1>8, <2>0, <2>1, OutcomeMoves DEF Uninstall, HelmEnds
  <1>9. CASE UninstallEnds(p)
    BY <1>1, <1>9, OutcomeMoves DEF UninstallEnds, HelmEnds
  <1> QED
    BY <1>2, <1>4, <1>5, <1>6, <1>7, <1>8, <1>9

\* One step of a worker: it starts, goes on or ends.
LEMMA WorkerMoves ==
    ASSUME TypeOK, CopyCurrent, WorkerOnlyAdds, NEW p \in Proxy, WorkerStep(p)
    PROVE  Reconcile(p) \/ Moves(p) \/ Ends(p)
  BY QuietMoves, HelmMoves DEF WorkerStep

\* A worker leaves the patches of the others alone, too, and their stored objects.
LEMMA CallFrame ==
    ASSUME TypeOK, NEW p \in Proxy, WorkerStep(p)
    PROVE  \A q \in Proxy : q # p => call'[q] = call[q] /\ api'[q] = api[q]
  <1>1. CASE \/ Reconcile(p) \/ Examine(p) \/ GetCluster(p) \/ DeleteGetCluster(p)
             \/ ReconcileDelete(p) \/ PatchReturns(p)
    BY <1>1 DEF Reconcile, Examine, GetCluster, DeleteGetCluster, ReconcileDelete, PatchReturns,
         Goto, Patch, RemoveFinalizer, Finish, TypeOK
  <1>2. CASE \/ ReconcileNormal(p) \/ Install(p) \/ Upgrade(p) \/ HelmEnds(p)
             \/ Uninstall(p) \/ UninstallEnds(p)
    BY <1>2 DEF ReconcileNormal, Install, Upgrade, HelmEnds, Uninstall, UninstallEnds,
         FoundRelease, InstallOrUpgradeFailed, InstallOrUpgradeReturned, DeletionFailed,
         RemoveFinalizer, Goto, Patch, TypeOK
  <1>3. CASE PatchConditions(p) \/ PatchObject(p) \/ PatchStatus(p)
    BY <1>3 DEF PatchConditions, PatchObject, PatchStatus, Request, TypeOK
  <1> QED
    BY <1>1, <1>2, <1>3 DEF WorkerStep

\* The name, the Cluster and the annotation of a stored object change only when the
\* worker sends metadata and spec.
LEMMA ApiRelease ==
    ASSUME TypeOK, [Next]_vars, NEW p \in Proxy, Exists(p), Exists(p)'
    PROVE  /\ api'[p].cluster = api[p].cluster
           /\ \/ SameRelease(api'[p], api[p])
              \/ /\ PatchObject(p)
                 /\ api'[p] = PatchedObject(api[p], before[p], obj[p])
  <1> DEFINE Kept == api'[p].cluster = api[p].cluster /\ SameRelease(api'[p], api[p])
  <1>0. api[p] \in HRP
    BY DEF Exists, TypeOK
  <1>1. api'[p] = api[p] => Kept
    BY DEF SameRelease
  <1>2. CASE Owner(p)
    <2>1. ASSUME NEW content \in Content, NEW keep \in KeepHistory, UpdateProxy(p, content, keep)
          PROVE  Kept
      <3>1. api'[p] = Revised(api[p], content, keep)
        BY <2>1 DEF UpdateProxy, Revised, TypeOK
      <3> QED
        BY <1>0, <3>1 DEF Revised, SameRelease, HRP
    <2>2. CASE DeleteProxy(p)
      <3>1. api'[p] = Marked(api[p])
        BY <2>2 DEF DeleteProxy, Marked, TypeOK, Exists, Stored
      <3> QED
        BY <1>0, <3>1 DEF Marked, SameRelease, HRP
    <2> QED
      BY <1>2, <2>1, <2>2 DEF Owner, CreateProxy
  <1>3. CASE PatchConditions(p) \/ PatchStatus(p)
    <2>1. obj[p] \in HRP /\ before[p] \in HRP
      BY <1>3 DEF PatchConditions, PatchStatus, TypeOK
    <2>2. \/ api'[p] = api[p]
          \/ api'[p] = PatchedConditions(api[p], before[p], obj[p])
          \/ api'[p] = Observing(api[p], obj[p])
      BY <1>3 DEF PatchConditions, PatchStatus, Request, Observing, TypeOK
    <2> QED
      BY <1>0, <1>1, <2>1, <2>2, ConditionsFields, StatusFields
         DEF SameSpec, SameMetadata, SameRelease
  <1>4. CASE PatchObject(p)
    <2>1. obj[p] \in HRP /\ before[p] \in HRP
      BY <1>4 DEF PatchObject, TypeOK
    <2>2. api'[p] = api[p] \/ api'[p] = PatchedObject(api[p], before[p], obj[p])
      BY <1>4, PatchObjectEffect DEF Exists, Stored
    <2> QED
      BY <1>0, <1>1, <1>4, <2>1, <2>2, PatchedObjectFields
  <1>5. CASE \E q \in Proxy : WorkerStep(q) /\ (q # p \/ api' = api)
    BY <1>1, <1>5, CallFrame
  <1>6. CASE \E q \in Proxy : Owner(q) /\ q # p
    BY <1>1, <1>6, OwnerEffect
  <1>7. CASE \/ Crash \/ UNCHANGED vars \/ \E q \in Proxy : CacheSync(q)
             \/ \E c \in Cluster : ClusterReady(c) \/ ClusterGone(c)
    BY <1>1, <1>7 DEF Crash, vars, CacheSync, ClusterReady, ClusterGone
  <1> QED
    BY <1>2, <1>3, <1>4, <1>5, <1>6, <1>7, QuietSteps DEF Next

\* Steps outside the workers stop them all or leave them alone.
LEMMA OthersLeave ==
    ASSUME [Next]_vars, ~\E p \in Proxy : WorkerStep(p)
    PROVE  \/ \A p \in Proxy : Ends(p)
           \/ UNCHANGED <<pc, call, obj, before, target>>
  BY DEF Next, vars, locals, Crash, CacheSync, Owner, CreateProxy, UpdateProxy, DeleteProxy,
         ClusterReady, ClusterGone, Ends

\* An object that appears has no worker.
LEMMA NewHasNoWorker ==
    ASSUME TypeOK, CopyInv, [Next]_vars, NEW p \in Proxy, ~Exists(p), Exists(p)'
    PROVE  ~Running(p) /\ ~Running(p)'
  <1>1. cache[p] = None /\ pc[p] = "idle"
    BY ApiAdvances DEF Advances, Exists
  <1> QED
    BY <1>1, BeforeEffect DEF CopyInv, Running

\* Without lag a reconcile starts with what is stored.
LEMMA ReconcileReadsStored ==
    ASSUME ~CacheLag, TypeOK, CopyCurrent, NEW p \in Proxy, Reconcile(p)
    PROVE  /\ api' = api /\ Exists(p)
           /\ before'[p] = api[p]
           /\ SameRelease(obj'[p], api[p])
           /\ target'[p] = None
           /\ obj'[p].deleting = api[p].deleting
           /\ obj'[p].finalizer = api[p].finalizer
  <1>1. cache[p] \in HRP /\ cache[p] = api[p] /\ cache[p] # None /\ pc[p] = "idle"
    BY DEF Reconcile, TypeOK
  <1>2. api' = api /\ before'[p] = cache[p]
    BY DEF Reconcile, TypeOK
  <1>3. \/ obj'[p] = cache[p]
        \/ obj'[p] = [cache[p] EXCEPT !.releaseReady = "PreparingToHelmInstall"]
    BY DEF Reconcile, Goto, Patch, TypeOK
  <1>4. /\ SameRelease(obj'[p], api[p])
        /\ obj'[p].deleting = api[p].deleting
        /\ obj'[p].finalizer = api[p].finalizer
    BY <1>1, <1>3 DEF SameRelease, HRP
  <1>5. target[p] = None
    BY <1>1 DEF CopyCurrent
  <1>6. target'[p] = None
    BY <1>5 DEF Reconcile, Goto, Patch, TypeOK
  <1> QED
    BY <1>1, <1>2, <1>4, <1>6 DEF Exists

\* What CopyCurrent says of one worker.
CurrentAt(p) ==
    /\ Running(p) /\ ~Deferred(p) => SameRelease(obj[p], before[p])
    /\ Running(p) /\ ~Sent(p) /\ Exists(p) => SameRelease(api[p], before[p])
    /\ Running(p) => KeepsName(before[p], obj[p])
    /\ target[p] # None => pc[p] = "helmRunning"

\* A worker that goes on.
LEMMA MovesCurrent ==
    ASSUME TypeOK, CopyInv, CopyCurrent, [Next]_vars, NEW p \in Proxy, Moves(p)
    PROVE  CurrentAt(p)'
  <1>0. CurrentAt(p) /\ Running(p) /\ before'[p] = before[p]
    BY DEF CopyCurrent, CurrentAt, Moves
  <1>1. (Running(p) /\ ~Deferred(p))' => SameRelease(obj'[p], before'[p])
    BY <1>0 DEF Moves, CurrentAt, SameRelease, Deferred, PatchSteps
  <1>2. ASSUME Running(p)', ~Sent(p)', Exists(p)'
        PROVE  SameRelease(api'[p], before'[p])
    <2>1. Exists(p)
      BY <1>0, <1>2, NewHasNoWorker
    <2>2. ~Sent(p)
      BY <1>2 DEF Moves, Sent
    <2>3. SameRelease(api[p], before[p])
      BY <1>0, <2>1, <2>2 DEF CurrentAt
    <2>4. CASE SameRelease(api'[p], api[p])
      BY <1>0, <2>3, <2>4 DEF SameRelease
    <2>5. CASE PatchObject(p) /\ api'[p] = PatchedObject(api[p], before[p], obj[p])
      <3>1. api[p] \in HRP /\ before[p] \in HRP /\ obj[p] \in HRP
        BY <2>1, <2>5 DEF PatchObject, Exists, TypeOK
      <3>2. pc[p] = "patchObject" /\ pc'[p] = "patchStatus"
        BY <2>5, PatchObjectEffect
      <3>3. ~Deferred(p)
        BY <1>2, <3>2 DEF Moves, Sent
      <3>4. SameRelease(obj[p], before[p])
        BY <1>0, <3>3 DEF CurrentAt
      <3>5. /\ api'[p].releaseName = Merge(api[p].releaseName, before[p].releaseName,
                                           obj[p].releaseName)
            /\ api'[p].installed = Merge(api[p].installed, before[p].installed,
                                         obj[p].installed)
        BY <2>5, <3>1, PatchedObjectFields, ObjectFields
      <3> QED
        BY <1>0, <2>3, <3>4, <3>5 DEF SameRelease, Merge
    <2> QED
      BY <1>2, <2>1, <2>4, <2>5, ApiRelease
  <1>3. KeepsName(before'[p], obj'[p])
    BY <1>0 DEF Moves, CurrentAt, KeepsName
  <1>4. target'[p] # None => pc'[p] = "helmRunning"
    BY DEF Moves
  <1> QED
    BY <1>1, <1>2, <1>3, <1>4 DEF CurrentAt

\* Without lag a worker knows what is stored.
LEMMA CopyCurrentKept ==
    ASSUME ~CacheLag, TypeOK, CopyInv, CopyCurrent, [Next]_vars
    PROVE  CopyCurrent'
  <1> SUFFICES ASSUME NEW p \in Proxy
               PROVE  CurrentAt(p)'
    BY DEF CopyCurrent, CurrentAt
  <1>0. CurrentAt(p) /\ WorkerOnlyAdds
    BY DEF CopyCurrent, CurrentAt, CopyInv
  <1>1. CASE Ends(p)
    BY <1>1 DEF Ends, CurrentAt, Running
  <1>2. CASE WorkerStep(p)
    <2>1. CASE Reconcile(p)
      BY <2>1, ReconcileReadsStored DEF CurrentAt, SameRelease, KeepsName
    <2> QED
      BY <1>0, <1>1, <1>2, <2>1, WorkerMoves, MovesCurrent
  <1>3. ASSUME pc'[p] = pc[p], call'[p] = call[p], obj'[p] = obj[p], before'[p] = before[p],
               target'[p] = target[p], ~WorkerStep(p)
        PROVE  CurrentAt(p)'
    <2>1. ASSUME Running(p)', ~Sent(p)', Exists(p)'
          PROVE  SameRelease(api'[p], before'[p])
      <3>1. Exists(p) /\ Running(p) /\ ~Sent(p)
        BY <1>3, <2>1, NewHasNoWorker DEF Sent, Deferred, Running
      <3>2. SameRelease(api'[p], api[p])
        BY <1>3, <2>1, <3>1, ApiRelease DEF WorkerStep
      <3> QED
        BY <1>0, <1>3, <3>1, <3>2 DEF CurrentAt, SameRelease
    <2> QED
      BY <1>0, <1>3, <2>1 DEF CurrentAt, SameRelease, KeepsName, Running, Deferred
  <1>4. ASSUME NEW q \in Proxy, q # p, WorkerStep(q), ~WorkerStep(p)
        PROVE  CurrentAt(p)'
    BY <1>3, <1>4, WorkerFrame, CallFrame
  <1> QED
    BY <1>1, <1>2, <1>3, <1>4, OthersLeave

-----------------------------------------------------------------------------
(* InstallOnce.                                                            *)

HelmSteps == {"install", "upgrade", "helmRunning"}

\* InstallOnce turns to Helm only for what is not installed, and never to uninstall.
LEMMA InstallsOnceKept ==
    ASSUME TypeOK, InstallsOnce, [Next]_vars
    PROVE  InstallsOnce'
  <1> SUFFICES ASSUME ReconcileStrategy = "InstallOnce", NEW p \in Proxy
               PROVE  /\ pc'[p] \notin {"uninstall", "helmUninstalling"}
                      /\ pc'[p] \in HelmSteps => ~obj'[p].installed
    BY DEF InstallsOnce, HelmSteps
  <1>0. /\ pc[p] \notin {"uninstall", "helmUninstalling"}
        /\ pc[p] \in HelmSteps => ~obj[p].installed
    BY DEF InstallsOnce, HelmSteps
  <1>1. ASSUME pc'[p] = pc[p], obj'[p] = obj[p] \/ pc[p] \notin HelmSteps
        PROVE  /\ pc'[p] \notin {"uninstall", "helmUninstalling"}
               /\ pc'[p] \in HelmSteps => ~obj'[p].installed
    BY <1>0, <1>1
  <1>2. CASE Ends(p)
    BY <1>2 DEF Ends, HelmSteps
  <1>3. CASE WorkerStep(p)
    <2>1. CASE \/ Reconcile(p) \/ Examine(p) \/ GetCluster(p) \/ DeleteGetCluster(p)
               \/ PatchConditions(p) \/ PatchObject(p) \/ PatchStatus(p) \/ PatchReturns(p)
               \/ ReconcileDelete(p)
      <3>1. pc'[p] \in PC \ ({"uninstall", "helmUninstalling"} \union HelmSteps)
        BY <2>1 DEF Reconcile, Examine, GetCluster, DeleteGetCluster, PatchConditions,
           PatchObject, PatchStatus, PatchReturns, ReconcileDelete, RemoveFinalizer, Goto, Patch,
           Finish, HelmSteps, TypeOK, PC
      <3> QED
        BY <3>1
    <2>2. CASE Uninstall(p) \/ UninstallEnds(p)
      BY <1>0, <2>2 DEF Uninstall, UninstallEnds
    <2>3. ASSUME NEW o, NEW caller, Patch(p, o, caller)
          PROVE  pc'[p] = "patchConditions"
      BY <2>3 DEF Patch, TypeOK
    <2>4. CASE ReconcileNormal(p)
      <3> DEFINE o == [obj[p] EXCEPT !.generated = @ \/ obj[p].releaseName = None]
      <3>0. obj[p] \in HRP
        BY <2>4 DEF ReconcileNormal, TypeOK
      <3>1. o.installed = obj[p].installed
        BY <3>0 DEF HRP
      <3> HIDE DEF o
      <3>2. Goto(p, "install", o) => pc'[p] = "install" /\ obj'[p] = o
        BY DEF Goto, TypeOK
      <3>3. FoundRelease(p, obj[p].cluster, obj[p].releaseName)
              => pc'[p] = "upgrade" /\ obj'[p] = obj[p]
        BY DEF FoundRelease, TypeOK
      <3>4. InstallOrUpgradeFailed(p) => pc'[p] = "patchConditions"
        BY <2>3 DEF InstallOrUpgradeFailed
      <3>5. \/ pc'[p] = "patchConditions"
            \/ ~obj[p].installed /\ pc'[p] = "install" /\ obj'[p] = o
            \/ ~obj[p].installed /\ pc'[p] = "upgrade" /\ obj'[p] = obj[p]
        BY <2>3, <2>4, <3>2, <3>3, <3>4 DEF ReconcileNormal, o
      <3> QED
        BY <3>1, <3>5 DEF HelmSteps
    <2>5. CASE Install(p) \/ Upgrade(p) \/ HelmEnds(p)
      <3>1. pc[p] \in HelmSteps
        BY <2>5 DEF Install, Upgrade, HelmEnds, HelmSteps
      <3>2. \/ pc'[p] = "patchConditions"
            \/ pc'[p] = "helmRunning" /\ obj'[p] = obj[p]
        BY <2>5 DEF Install, Upgrade, HelmEnds, InstallOrUpgradeFailed,
           InstallOrUpgradeReturned, Patch, TypeOK
      <3> QED
        BY <1>0, <3>1, <3>2 DEF HelmSteps
    <2> QED
      BY <1>3, <2>1, <2>2, <2>4, <2>5 DEF WorkerStep
  <1>4. ASSUME NEW q \in Proxy, q # p, WorkerStep(q)
        PROVE  pc'[p] = pc[p] /\ obj'[p] = obj[p]
    BY <1>4, WorkerFrame
  <1> QED
    BY <1>1, <1>2, <1>3, <1>4, OthersLeave

\* What a step does to a release under InstallOnce: only the worker of an object that
\* is not installed writes to one, under the name it has or has just got, and it takes
\* none down.
LEMMA OnceEffect ==
    ASSUME TypeOK, InstallsOnce, ReconcileStrategy = "InstallOnce",
           NEW q \in Proxy, WorkerStep(q),
           NEW c \in Cluster, NEW n \in Name, releases'[c][n] # releases[c][n]
    PROVE  /\ pc[q] \in NormalBranch
           /\ c = obj[q].cluster
           /\ ~obj[q].installed
           /\ n \in {obj[q].releaseName, target[q]} \union FreshName(c)
           /\ Live(releases[c][n]) => Live(releases'[c][n])
  <1>1. CASE ReconcileNormal(q)
    <2>0. obj[q] \in HRP /\ pc[q] \in NormalBranch
      BY <1>1 DEF ReconcileNormal, TypeOK, NormalBranch
    <2>1. /\ obj[q].releaseName # None
          /\ ~obj[q].installed
          /\ SetRelease(obj[q].cluster, obj[q].releaseName,
                 updateLastReleaseStatus(releases[obj[q].cluster][obj[q].releaseName]))
      BY <1>1 DEF ReconcileNormal, FoundRelease
    <2>2. obj[q].cluster \in Cluster /\ obj[q].releaseName \in Name
      BY <2>0, <2>1 DEF HRP
    <2>3. c = obj[q].cluster /\ n = obj[q].releaseName
          /\ releases'[c][n] = updateLastReleaseStatus(releases[c][n])
      BY <2>1, <2>2, SetReleaseEffect
    <2>4. releases[c][n] \in Release
      BY DEF TypeOK
    <2>5. Live(updateLastReleaseStatus(releases[c][n]))
      BY <2>4 DEF Live, updateLastReleaseStatus, NoRelease, Release
    <2> QED
      BY <2>0, <2>1, <2>3, <2>5
  <1>2. ASSUME NEW m \in {obj[q].releaseName, target[q]} \union FreshName(obj[q].cluster),
               NEW r, m \in Name, pc[q] \in HelmSteps, SetRelease(obj[q].cluster, m, r),
               Live(releases[obj[q].cluster][m]) => Live(r)
        PROVE  /\ pc[q] \in NormalBranch
               /\ c = obj[q].cluster
               /\ ~obj[q].installed
               /\ n \in {obj[q].releaseName, target[q]} \union FreshName(c)
               /\ Live(releases[c][n]) => Live(releases'[c][n])
    <2>1. obj[q] \in HRP /\ pc[q] \in NormalBranch /\ ~obj[q].installed
      BY <1>2 DEF InstallsOnce, TypeOK, HelmSteps, NormalBranch
    <2>2. obj[q].cluster \in Cluster
      BY <2>1 DEF HRP
    <2>3. c = obj[q].cluster /\ n = m /\ releases'[c][n] = r
      BY <1>2, <2>2, SetReleaseEffect
    <2> QED
      BY <1>2, <2>1, <2>3
  <1>3. \A content : Live(BeginInstall(content)) /\ Live(BeginUpgrade(content))
    BY DEF Live, BeginInstall, BeginUpgrade, NoRelease
  <1>4. CASE Install(q)
    <2>1. PICK m \in IF obj[q].releaseName = None THEN FreshName(obj[q].cluster)
                                                  ELSE {obj[q].releaseName} :
              SetRelease(obj[q].cluster, m, BeginInstall(obj[q].content))
      BY <1>4 DEF Install
    <2>2. pc[q] \in HelmSteps /\ obj[q] \in HRP
      BY <1>4 DEF Install, HelmSteps, TypeOK
    <2>3. m \in Name
      BY <2>1, <2>2 DEF FreshName, Name, HRP
    <2> QED
      BY <1>2, <1>3, <2>1, <2>2, <2>3
  <1>5. CASE Upgrade(q)
    <2>1. SetRelease(obj[q].cluster, obj[q].releaseName, BeginUpgrade(obj[q].content))
      BY <1>5 DEF Upgrade
    <2>2. pc[q] \in HelmSteps /\ obj[q].releaseName \in Name
      BY <1>5 DEF Upgrade, HelmSteps, TypeOK
    <2> QED
      BY <1>2, <1>3, <2>1, <2>2
  <1>6. CASE HelmEnds(q)
    <2> DEFINE old == releases[obj[q].cluster][target[q]]
    <2>1. \E status \in {"deployed", "failed"} :
              SetRelease(obj[q].cluster, target[q], Record(old, status, obj[q].content))
      BY <1>6 DEF HelmEnds
    <2>2. pc[q] \in HelmSteps /\ target[q] \in Name
      BY <1>6 DEF HelmEnds, HelmSteps, TypeOK
    <2>3. \A status \in {"deployed", "failed"} :
              Live(old) => Live(Record(old, status, obj[q].content))
      BY DEF Live, Record, NoRelease
    <2> HIDE DEF old
    <2>4. PICK status \in {"deployed", "failed"} :
              SetRelease(obj[q].cluster, target[q], Record(old, status, obj[q].content))
      BY <2>1
    <2> QED
      BY <1>2, <2>2, <2>3, <2>4 DEF old
  <1>7. CASE Uninstall(q) \/ UninstallEnds(q)
    BY <1>7 DEF InstallsOnce, Uninstall, UninstallEnds
  <1>8. CASE \/ Reconcile(q) \/ Examine(q) \/ GetCluster(q) \/ DeleteGetCluster(q)
             \/ ReconcileDelete(q) \/ PatchConditions(q) \/ PatchObject(q) \/ PatchStatus(q)
             \/ PatchReturns(q)
    BY <1>8 DEF Reconcile, Examine, GetCluster, DeleteGetCluster, ReconcileDelete,
         PatchConditions, PatchObject, PatchStatus, PatchReturns
  <1> QED
    BY <1>1, <1>4, <1>5, <1>6, <1>7, <1>8 DEF WorkerStep

\* A name a worker gets from Helm is new to everyone; what it mentions else it has
\* mentioned before.
LEMMA WorkerMentions ==
    ASSUME TypeOK, CopyCurrent, NEW p \in Proxy, WorkerStep(p),
           NEW n \in GeneratedName, Mentions(p, n)'
    PROVE  Mentions(p, n) \/ \A q \in Proxy : ~Mentions(q, n)
  <1> SUFFICES ASSUME ~Mentions(p, n)
               PROVE  \A q \in Proxy : ~Mentions(q, n)
    OBVIOUS
  <1>0. /\ n # None
        /\ n # target[p]
        /\ \A o \in {api[p], cache[p], obj[p], before[p]} : o # None => o.releaseName # n
    BY ConstantsAssumption DEF Mentions, Name
  <1>1. ASSUME NEW c \in Cluster, n \in FreshName(c)
        PROVE  \A q \in Proxy : ~Mentions(q, n)
    BY <1>1 DEF FreshName, Mentions
  <1>2. ASSUME cache'[p] = cache[p], api'[p] = api[p], target'[p] \in {target[p], None},
               before'[p] \in {before[p], cache[p], None},
               \/ obj'[p] = None
               \/ \E o \in {obj[p], cache[p]} :
                      o # None /\ obj'[p].releaseName = o.releaseName
        PROVE  FALSE
    BY <1>0, <1>2 DEF Mentions
  <1>3. ASSUME NEW o \in HRP
        PROVE  /\ \A r : [o EXCEPT !.releaseReady = r].releaseName = o.releaseName
               /\ \A r : [o EXCEPT !.clusterAvailable = r].releaseName = o.releaseName
               /\ \A r : [o EXCEPT !.finalizer = r].releaseName = o.releaseName
               /\ \A r : [o EXCEPT !.generated = r].releaseName = o.releaseName
               /\ \A r, f : [[o EXCEPT !.releaseReady = r] EXCEPT !.finalizer = f].releaseName
                              = o.releaseName
    BY <1>3 DEF HRP
  <1>4. CASE Reconcile(p)
    <2>1. /\ cache[p] \in HRP /\ cache[p] # None /\ cache' = cache /\ api' = api
          /\ before'[p] = cache[p] /\ target'[p] \in {target[p], None}
      BY <1>4 DEF Reconcile, Goto, Patch, TypeOK
    <2>2. \/ obj'[p] = cache[p]
          \/ obj'[p] = [cache[p] EXCEPT !.releaseReady = "PreparingToHelmInstall"]
      BY <1>4 DEF Reconcile, Goto, Patch, TypeOK
    <2>3. obj'[p].releaseName = cache[p].releaseName
      BY <2>1, <2>2 DEF HRP
    <2> QED
      BY <1>2, <2>1, <2>3
  <1>5. ASSUME pc[p] # "idle", api'[p] = api[p], cache' = cache, before' = before
        PROVE  /\ \A r, k : ~Patch(p, [obj[p] EXCEPT !.clusterAvailable = r], k)
               /\ \A r, k : ~Patch(p, [obj[p] EXCEPT !.releaseReady = r], k)
               /\ \A r, k : ~Patch(p, [obj[p] EXCEPT !.finalizer = r], k)
               /\ \A k : ~Patch(p, obj[p], k)
               /\ \A r, s : ~Goto(p, s, [obj[p] EXCEPT !.clusterAvailable = r])
               /\ \A r, s : ~Goto(p, s, [obj[p] EXCEPT !.generated = r])
               /\ \A s : ~Goto(p, s, obj[p])
               /\ ~RemoveFinalizer(p, obj[p])
               /\ \A r : ~RemoveFinalizer(p, [obj[p] EXCEPT !.releaseReady = r])
               /\ ~(obj' = obj /\ target' = target)
    <2>1. obj[p] \in HRP /\ obj[p] # None
      BY <1>5, NoneIsNoObject DEF TypeOK
    <2>2. ~(obj'[p].releaseName = obj[p].releaseName /\ target'[p] \in {target[p], None})
      BY <1>2, <1>5, <2>1
    <2>3. \A o, caller : Patch(p, o, caller) => obj'[p] = o /\ target'[p] = None
      BY DEF Patch, TypeOK
    <2>4. \A o, s : Goto(p, s, o) => obj'[p] = o /\ target'[p] = target[p]
      BY DEF Goto, TypeOK
    <2>5. /\ \A o, k : o.releaseName = obj[p].releaseName => ~Patch(p, o, k)
          /\ \A o, s : o.releaseName = obj[p].releaseName => ~Goto(p, s, o)
      BY <2>2, <2>3, <2>4
    <2>6. /\ \A r, k : ~Patch(p, [obj[p] EXCEPT !.clusterAvailable = r], k)
          /\ \A r, k : ~Patch(p, [obj[p] EXCEPT !.releaseReady = r], k)
          /\ \A r, k : ~Patch(p, [obj[p] EXCEPT !.finalizer = r], k)
          /\ \A k : ~Patch(p, obj[p], k)
      BY <1>3, <2>1, <2>5
    <2>7. /\ \A r, s : ~Goto(p, s, [obj[p] EXCEPT !.clusterAvailable = r])
          /\ \A r, s : ~Goto(p, s, [obj[p] EXCEPT !.generated = r])
          /\ \A s : ~Goto(p, s, obj[p])
      BY <1>3, <2>1, <2>5
    <2>8. \A r, f, k : ~Patch(p, [[obj[p] EXCEPT !.releaseReady = r] EXCEPT !.finalizer = f], k)
      <3>1. \A r, f : [[obj[p] EXCEPT !.releaseReady = r] EXCEPT !.finalizer = f].releaseName
                        = obj[p].releaseName
        BY <1>3, <2>1
      <3> QED
        BY <2>5, <3>1
    <2> QED
      BY <2>2, <2>6, <2>7, <2>8 DEF RemoveFinalizer
  <1>6. CASE Examine(p) \/ GetCluster(p) \/ DeleteGetCluster(p) \/ ReconcileDelete(p)
    <2>1. pc[p] # "idle" /\ api'[p] = api[p] /\ cache' = cache /\ before' = before
      BY <1>6 DEF Examine, GetCluster, DeleteGetCluster, ReconcileDelete
    <2>2. ~Examine(p)
      BY <1>5, <2>1 DEF Examine
    <2>3. ~GetCluster(p)
      BY <1>5, <2>1 DEF GetCluster
    <2>4. ~DeleteGetCluster(p)
      BY <1>5, <2>1 DEF DeleteGetCluster
    <2>5. ~ReconcileDelete(p)
      BY <1>5, <2>1 DEF ReconcileDelete
    <2> QED
      BY <1>6, <2>2, <2>3, <2>4, <2>5
  <1>7. CASE ReconcileNormal(p) \/ Uninstall(p) \/ UninstallEnds(p)
    <2>1. pc[p] # "idle" /\ api'[p] = api[p] /\ cache' = cache /\ before' = before
      BY <1>7 DEF ReconcileNormal, Uninstall, UninstallEnds
    <2>2. ~ReconcileNormal(p)
      BY <1>5, <2>1 DEF ReconcileNormal, InstallOrUpgradeFailed, FoundRelease
    <2>3. ~Uninstall(p)
      BY <1>5, <2>1 DEF Uninstall, DeletionFailed
    <2>4. ~UninstallEnds(p)
      BY <1>5, <2>1 DEF UninstallEnds, DeletionFailed
    <2> QED
      BY <1>7, <2>2, <2>3, <2>4
  <1>8. ASSUME pc[p] # "idle", api'[p] = api[p], cache' = cache, before' = before,
               NEW m \in Name, NEW status, NEW error,
               \/ InstallOrUpgradeReturned(p, m, status, error)
               \/ obj' = obj /\ target' = [target EXCEPT ![p] = m]
        PROVE  m = n
    <2>1. obj[p] \in HRP /\ obj[p] # None
      BY <1>8, NoneIsNoObject DEF TypeOK
    <2>2. CASE InstallOrUpgradeReturned(p, m, status, error)
      <3> DEFINE o == [obj[p] EXCEPT !.releaseName = m]
      <3>1. o \in HRP /\ o.releaseName = m
        BY <2>1, FieldTypes DEF HRP
      <3>2. Patch(p, WithStatus(o, status, error), "deferred")
        BY <2>2 DEF InstallOrUpgradeReturned
      <3> HIDE DEF o
      <3>3. WithStatus(o, status, error).releaseName = m
        BY <3>1 DEF WithStatus, HRP
      <3>4. obj'[p].releaseName = m /\ target'[p] = None
        BY <3>2, <3>3 DEF Patch, TypeOK
      <3> QED
        BY <1>0, <1>8, <3>4 DEF Mentions
    <2>3. CASE obj' = obj /\ target' = [target EXCEPT ![p] = m]
      <3>1. target'[p] = m
        BY <2>3 DEF TypeOK
      <3> QED
        BY <1>0, <1>8, <2>3, <3>1 DEF Mentions
    <2> QED
      BY <1>8, <2>2, <2>3
  <1>9. CASE Install(p) \/ Upgrade(p) \/ HelmEnds(p)
    <2>1. /\ pc[p] # "idle" /\ api'[p] = api[p] /\ cache' = cache /\ before' = before
          /\ obj[p] \in HRP
      BY <1>9 DEF Install, Upgrade, HelmEnds, TypeOK
    <2>2. ~InstallOrUpgradeFailed(p)
      BY <1>5, <2>1 DEF InstallOrUpgradeFailed
    <2>3. CASE Install(p)
      <3>1. \A m \in IF obj[p].releaseName = None THEN FreshName(obj[p].cluster)
                                                  ELSE {obj[p].releaseName} : m \in Name
        BY <2>1 DEF FreshName, Name, HRP
      <3>2. PICK m \in IF obj[p].releaseName = None THEN FreshName(obj[p].cluster)
                                                    ELSE {obj[p].releaseName} :
                \/ InstallOrUpgradeReturned(p, m, "failed", TRUE)
                \/ obj' = obj /\ target' = [target EXCEPT ![p] = m]
        BY <2>2, <2>3 DEF Install
      <3>3. m = n
        BY <1>8, <2>1, <3>1, <3>2
      <3>4. n # obj[p].releaseName /\ obj[p].cluster \in Cluster
        BY <1>0, <2>1, NoneIsNoObject DEF HRP
      <3> QED
        BY <1>1, <3>2, <3>3, <3>4
    <2>4. CASE Upgrade(p)
      <3>1. obj[p].releaseName \in Name
        BY <2>4 DEF Upgrade, TypeOK
      <3>2. obj[p].releaseName = n
        BY <1>8, <2>1, <2>2, <2>4, <3>1 DEF Upgrade
      <3> QED
        BY <1>0, <2>1, <3>2, NoneIsNoObject
    <2>5. CASE HelmEnds(p)
      <3>1. target[p] \in Name
        BY <2>5 DEF HelmEnds, TypeOK
      <3>2. target[p] = n
        BY <1>8, <2>1, <2>5, <3>1 DEF HelmEnds
      <3> QED
        BY <1>0, <3>2
    <2> QED
      BY <1>9, <2>3, <2>4, <2>5
  <1>10. CASE PatchReturns(p)
    <2>1. /\ pc[p] # "idle" /\ api'[p] = api[p] /\ cache' = cache
          /\ before' = before \/ Finish(p)
      BY <1>10 DEF PatchReturns
    <2>2. ~Finish(p)
      <3>1. Finish(p) => obj'[p] = None /\ before'[p] = None /\ target' = target
        BY DEF Finish, TypeOK
      <3> QED
        BY <1>2, <2>1, <3>1
    <2> QED
      BY <1>5, <1>10, <2>1, <2>2 DEF PatchReturns
  <1>11. CASE PatchConditions(p) \/ PatchObject(p) \/ PatchStatus(p)
    <2>1. /\ pc[p] # "idle" /\ cache' = cache /\ before' = before /\ obj' = obj
          /\ target' = target
      BY <1>11 DEF PatchConditions, PatchObject, PatchStatus
    <2>2. obj[p] \in HRP /\ obj[p] # None /\ before[p] \in HRP
      BY <2>1, NoneIsNoObject DEF TypeOK
    <2>3. CASE PatchConditions(p) \/ PatchStatus(p)
      <3>1. api'[p] # None => api[p] # None /\ api'[p].releaseName = api[p].releaseName
        BY <2>3, StatusRequestEffect DEF Exists
      <3> QED
        BY <1>0, <2>1, <3>1 DEF Mentions
    <2>4. CASE PatchObject(p)
      <3>1. CASE api'[p] = api[p]
        BY <1>2, <2>1, <2>2, <3>1
      <3>2. CASE Exists(p) /\ api'[p] = Stored(PatchedObject(api[p], before[p], obj[p]))
        <4>1. api[p] \in HRP /\ api[p] # None
          BY <3>2 DEF Exists, TypeOK
        <4>2. PatchedObject(api[p], before[p], obj[p]).releaseName
                \in {api[p].releaseName, obj[p].releaseName}
          BY <2>2, <4>1, PatchedObjectFields DEF Merge
        <4>3. api'[p] # None => api'[p].releaseName \in {api[p].releaseName, obj[p].releaseName}
          BY <3>2, <4>2 DEF Stored
        <4> QED
          BY <1>0, <2>1, <2>2, <4>1, <4>3 DEF Mentions
      <3> QED
        BY <2>4, <3>1, <3>2, PatchObjectEffect
    <2> QED
      BY <1>11, <2>3, <2>4
  <1> QED
    BY <1>4, <1>6, <1>7, <1>9, <1>10, <1>11 DEF WorkerStep

\* Outside the workers nothing that is new is mentioned.
LEMMA OthersMention ==
    ASSUME TypeOK, [Next]_vars, ~\E q \in Proxy : WorkerStep(q),
           NEW p \in Proxy, NEW n \in GeneratedName, Mentions(p, n)'
    PROVE  Mentions(p, n)
  <1>0. n # None /\ n \notin SpecName
    BY ConstantsAssumption DEF Name
  <1>1. CASE Crash
    BY <1>0, <1>1 DEF Crash, Mentions
  <1>2. ASSUME NEW q \in Proxy, CacheSync(q)
        PROVE  Mentions(p, n)
    <2>1. /\ UNCHANGED <<api, obj, before, target>>
          /\ cache'[p] \in {cache[p], api[p]}
      BY <1>2 DEF CacheSync, locals, TypeOK
    <2> QED
      BY <2>1 DEF Mentions
  <1>3. ASSUME NEW q \in Proxy, Owner(q)
        PROVE  Mentions(p, n)
    <2>1. UNCHANGED <<cache, obj, before, target>>
      BY <1>3, OwnerEffect
    <2>2. CASE api'[p] = api[p]
      BY <2>1, <2>2 DEF Mentions
    <2>3. CASE q = p /\ Exists(p)
      <3>1. api'[p] # None => api'[p].releaseName = api[p].releaseName
        BY <1>3, <2>3, OwnerEffect DEF Exists
      <3> QED
        BY <2>1, <2>3, <3>1 DEF Mentions, Exists
    <2>4. CASE q = p /\ ~Exists(p)
      <3>1. PICK c \in Cluster, m \in SpecName, content \in Content, keep \in KeepHistory :
                CreateProxy(p, c, m, content, keep)
        BY <1>3, <2>4 DEF Owner, UpdateProxy, DeleteProxy
      <3>2. api'[p].releaseName = m
        BY <3>1 DEF CreateProxy, TypeOK
      <3> QED
        BY <1>0, <2>1, <3>2 DEF Mentions
    <2> QED
      BY <1>3, <2>2, <2>3, <2>4, OwnerEffect
  <1>4. CASE UNCHANGED vars \/ \E c \in Cluster : ClusterReady(c) \/ ClusterGone(c)
    BY <1>4 DEF vars, locals, ClusterReady, ClusterGone, Mentions
  <1> QED
    BY <1>1, <1>2, <1>3, <1>4 DEF Next

\* Does the stored object of p have name n from a spec, in Cluster c?
Named(p, c, n) == Exists(p) /\ api[p].releaseName = n /\ api[p].cluster = c

\* A name from a spec comes with the object, and stays.
LEMMA NamedEffect ==
    ASSUME TypeOK, ProxyInv, [Next]_vars, NEW p \in Proxy, NEW c \in Cluster,
           NEW n \in UserName, Named(p, c, n)'
    PROVE  \/ Named(p, c, n)
           \/ /\ \A q \in Proxy : ~Named(q, c, n)
              /\ \A q \in Proxy : q # p => api'[q] = api[q]
  <1>0. n # None
    BY ConstantsAssumption DEF Name
  <1>1. CASE Exists(p)
    <2>0. Exists(p)' /\ api'[p].releaseName = n /\ api'[p].cluster = c
      BY DEF Named
    <2>1. api[p].cluster = c
      BY <1>1, <2>0, ApiRelease
    <2>2. CASE SameRelease(api'[p], api[p])
      BY <1>1, <2>0, <2>1, <2>2 DEF Named, SameRelease
    <2>3. CASE PatchObject(p) /\ api'[p] = PatchedObject(api[p], before[p], obj[p])
      <3>1. api[p] \in HRP /\ before[p] \in HRP /\ obj[p] \in HRP /\ Running(p)
        BY <1>1, <2>3 DEF PatchObject, Exists, TypeOK, Running
      <3>2. api'[p].releaseName \in {api[p].releaseName, obj[p].releaseName}
        BY <2>3, <3>1, PatchedObjectFields DEF Merge
      <3>3. SameName(obj[p].releaseName, api[p].releaseName)
        BY <1>1, <3>1 DEF ProxyInv, CopiesAgree, Agree
      <3> QED
        BY <1>1, <2>0, <2>1, <3>2, <3>3 DEF Named, SameName
    <2> QED
      BY <1>1, <2>0, <2>2, <2>3, ApiRelease
  <1>2. CASE ~Exists(p)
    <2>1. Exists(p)' /\ api' # api /\ ~(\E q \in Proxy : q # p /\ Owner(q))
          /\ \A q \in Proxy : ~(ConditionsWritten(q) \/ ObjectWritten(q) \/ StatusWritten(q))
      BY <1>2, OwnerEffect
         DEF Named, Exists, ConditionsWritten, ObjectWritten, StatusWritten, TypeOK
    <2>2. Owner(p)
      BY <2>1, ApiEffect
    <2>3. PICK d \in Cluster, m \in SpecName, content \in Content, keep \in KeepHistory :
              CreateProxy(p, d, m, content, keep)
      BY <1>2, <2>2 DEF Owner, UpdateProxy, DeleteProxy
    <2>4. api'[p].releaseName = m /\ api'[p].cluster = d
      BY <2>3 DEF CreateProxy, TypeOK
    <2>5. m = n /\ d = c
      BY <2>4 DEF Named
    <2>6. \A q \in Proxy : ~Named(q, c, n)
      BY <1>0, <2>3, <2>5 DEF CreateProxy, Named, Exists
    <2> QED
      BY <2>2, <2>6, OwnerEffect
  <1> QED
    BY <1>1, <1>2

\* No two objects come to share a release.
LEMMA NamesApartKept ==
    ASSUME TypeOK, ProxyInv, CopyCurrent, NamesApart, [Next]_vars
    PROVE  NamesApart'
  <1> SUFFICES ASSUME NEW p \in Proxy, NEW q \in Proxy, p # q
               PROVE  /\ \A n \in GeneratedName : ~(Mentions(p, n) /\ Mentions(q, n))'
                      /\ \A n \in UserName, c \in Cluster : ~(Named(p, c, n) /\ Named(q, c, n))'
    BY DEF NamesApart, Named
  <1>1. ASSUME NEW n \in GeneratedName, Mentions(p, n)', Mentions(q, n)'
        PROVE  FALSE
    <2>0. ~(Mentions(p, n) /\ Mentions(q, n))
      BY DEF NamesApart
    <2>1. ASSUME NEW r \in Proxy, NEW s \in Proxy, WorkerStep(r), s # r
          PROVE  Mentions(s, n)' <=> Mentions(s, n)
      BY <2>1, WorkerFrame, CallFrame DEF Mentions
    <2>2. CASE \E r \in Proxy : WorkerStep(r)
      BY <1>1, <2>0, <2>1, <2>2, WorkerMentions
    <2> QED
      BY <1>1, <2>0, <2>2, OthersMention
  <1>2. ASSUME NEW n \in UserName, NEW c \in Cluster, Named(p, c, n)', Named(q, c, n)'
        PROVE  FALSE
    <2>0. ~(Named(p, c, n) /\ Named(q, c, n))
      BY DEF NamesApart, Named
    <2>1. \A r \in Proxy : api'[r] = api[r] => (Named(r, c, n)' <=> Named(r, c, n))
      BY DEF Named, Exists
    <2> QED
      BY <1>2, <2>0, <2>1, NamedEffect
  <1> QED
    BY <1>1, <1>2

\* The inductive invariant of a controller whose cache does not lag.
NoLagInv == CopyCurrent /\ InstallsOnce /\ NamesApart

\* Nothing runs and nothing is stored at first.
LEMMA NoLagInit == Init => NoLagInv
  <1>1. ASSUME Init
        PROVE  /\ \A p \in Proxy : /\ api[p] = None /\ cache[p] = None /\ obj[p] = None
                                   /\ before[p] = None /\ target[p] = None /\ pc[p] = "idle"
    BY <1>1 DEF Init
  <1>2. Init => CopyCurrent
    BY <1>1 DEF CopyCurrent, Running, Exists
  <1>3. Init => InstallsOnce
    BY <1>1 DEF InstallsOnce
  <1>4. Init => NamesApart
    BY <1>1, ConstantsAssumption DEF NamesApart, Mentions, Exists, Name
  <1> QED
    BY <1>2, <1>3, <1>4 DEF NoLagInv

\* Under InstallOnce no step takes a release down or changes one that is installed.
LEMMA OnceStep ==
    ASSUME TypeOK, ProxyInv, NoLagInv, [Next]_vars, ReconcileStrategy = "InstallOnce",
           NEW c \in Cluster, NEW n \in Name, clusters'[c] # "gone"
    PROVE  /\ Live(releases[c][n]) => Live(releases'[c][n])
           /\ (\E p \in Proxy : Owns(p, c, n) /\ api[p].installed)
                => releases'[c][n] = releases[c][n]
  <1> SUFFICES ASSUME releases'[c][n] # releases[c][n]
               PROVE  /\ Live(releases[c][n]) => Live(releases'[c][n])
                      /\ ~\E p \in Proxy : Owns(p, c, n) /\ api[p].installed
    OBVIOUS
  <1>1. PICK q \in Proxy : WorkerStep(q)
    <2>1. ASSUME NEW d \in Cluster, ClusterReady(d) \/ ClusterGone(d)
          PROVE  releases'[c][n] = releases[c][n]
      BY <2>1 DEF ClusterReady, ClusterGone, TypeOK
    <2>2. CASE Crash \/ UNCHANGED vars \/ \E p \in Proxy : CacheSync(p) \/ Owner(p)
      BY <2>2 DEF Crash, vars, CacheSync, Owner, CreateProxy, UpdateProxy, DeleteProxy
    <2> QED
      BY <2>1, <2>2 DEF Next
  <1>2. /\ pc[q] \in NormalBranch
        /\ c = obj[q].cluster
        /\ ~obj[q].installed
        /\ n \in {obj[q].releaseName, target[q]} \union FreshName(c)
        /\ Live(releases[c][n]) => Live(releases'[c][n])
    BY <1>1, OnceEffect DEF NoLagInv
  <1>3. ASSUME NEW p \in Proxy, Owns(p, c, n), api[p].installed
        PROVE  FALSE
    <2>0. n # None
      BY ConstantsAssumption
    <2>1. n \notin FreshName(c)
      BY <1>3 DEF Owns, Exists, FreshName
    <2>2. n \in {obj[q].releaseName, target[q]}
      BY <1>2, <2>1
    <2>3. Running(q) /\ obj[q] # None /\ Holds(q)
      BY <1>2, NoneIsNoObject DEF Running, NormalBranch, TypeOK, ProxyInv, WorkerInBranch
    <2>4. p = q
      <3>1. CASE n \in GeneratedName
        BY <1>3, <2>2, <2>3, <3>1 DEF NoLagInv, NamesApart, Mentions, Owns, Exists
      <3>2. CASE n \in UserName
        <4>1. SameName(n, obj[q].releaseName)
          BY <2>0, <2>2 DEF NoLagInv, CopyCurrent, ProxyInv, CopiesAgree, SameName
        <4>2. Owns(q, c, n)
          BY <1>2, <3>2, <4>1, NormalBranchOwns
        <4> QED
          BY <1>3, <3>2, <4>2 DEF NoLagInv, NamesApart, Owns
      <3> QED
        BY <3>1, <3>2 DEF Name
    <2>5. ~Deferred(q)
      BY <1>2 DEF Deferred, NormalBranch, PatchSteps
    <2>6. SameRelease(obj[q], before[q]) /\ SameRelease(api[q], before[q])
      BY <2>3, <2>5 DEF NoLagInv, CopyCurrent, Sent, Holds
    <2> QED
      BY <1>2, <1>3, <2>4, <2>6 DEF SameRelease
  <1> QED
    BY <1>2, <1>3

\* Without lag the controller leaves alone, under InstallOnce, what it has installed:
\* for any number of objects and faults no release is taken down while its Cluster
\* exists, and none whose object carries the annotation is written to again, by its own
\* worker or another's.
THEOREM InstalledIsFinal ==
    ASSUME ~CacheLag
    PROVE  Spec => InstalledOnceIsFinal
  <1> DEFINE Inv == TypeOK /\ OwnershipInv /\ CopyInv
  <1>1. Inv /\ NoLagInv /\ [Next]_vars => NoLagInv'
    BY OwnershipParts, CopyCurrentKept, InstallsOnceKept, NamesApartKept DEF NoLagInv
  <1>2. Inv /\ NoLagInv /\ [Next]_vars
          => [ReconcileStrategy = "InstallOnce" =>
                \A c \in Cluster, n \in Name :
                  clusters'[c] # "gone" =>
                    /\ Live(releases[c][n]) => Live(releases'[c][n])
                    /\ (\E p \in Proxy : Owns(p, c, n) /\ api[p].installed)
                         => releases'[c][n] = releases[c][n]]_vars
    BY OwnershipParts, OnceStep
  <1> QED
    BY <1>1, <1>2, NoLagInit, TypeCorrect, OwnershipInvariant, CopiesInOrder, PTL
       DEF Spec, InstalledOnceIsFinal

-----------------------------------------------------------------------------
(* Releases with a generated name.                                         *)

\* No request fails, and a process that has been stopped stays known as one.
BudgetLeft == budget["api"] = 0 /\ budget["crash"] <= MaxFault["crash"]

\* A step uses at most one fault.
LEMMA BudgetEffect ==
    ASSUME TypeOK, [Next]_vars
    PROVE  \/ budget' = budget
           \/ \E kind \in {"api", "secret", "helm"} : UseFault(kind)
           \/ Crash
  <1>1. ASSUME NEW p \in Proxy, WorkerStep(p)
        PROVE  budget' = budget \/ \E kind \in {"api", "secret", "helm"} : UseFault(kind)
    <2>1. CASE \/ Reconcile(p) \/ Examine(p) \/ GetCluster(p) \/ DeleteGetCluster(p)
               \/ ReconcileDelete(p) \/ PatchReturns(p)
      BY <2>1 DEF Reconcile, Examine, GetCluster, DeleteGetCluster, ReconcileDelete,
           PatchReturns, HelmWorks, HelmFails
    <2>2. CASE \/ ReconcileNormal(p) \/ Install(p) \/ Upgrade(p) \/ HelmEnds(p)
               \/ Uninstall(p) \/ UninstallEnds(p)
      BY <2>2 DEF ReconcileNormal, Install, Upgrade, HelmEnds, Uninstall, UninstallEnds,
           HelmWorks, HelmFails
    <2>3. CASE PatchConditions(p) \/ PatchObject(p) \/ PatchStatus(p)
      BY <2>3 DEF PatchConditions, PatchObject, PatchStatus, Request
    <2> QED
      BY <1>1, <2>1, <2>2, <2>3 DEF WorkerStep
  <1>2. CASE \/ UNCHANGED vars \/ \E p \in Proxy : CacheSync(p) \/ Owner(p)
             \/ \E c \in Cluster : ClusterReady(c) \/ ClusterGone(c)
    BY <1>2 DEF vars, CacheSync, Owner, CreateProxy, UpdateProxy, DeleteProxy, ClusterReady,
         ClusterGone
  <1> QED
    BY <1>1, <1>2 DEF Next

\* No request is lost, and the crashes that are left only become fewer.
LEMMA BudgetLeftKept ==
    ASSUME TypeOK, BudgetLeft, [Next]_vars
    PROVE  /\ BudgetLeft'
           /\ budget["crash"]' = MaxFault["crash"]
                => budget["crash"] = MaxFault["crash"] /\ ~Crash
  <1>0. /\ budget["api"] \in Nat /\ budget["crash"] \in Nat /\ MaxFault["crash"] \in Nat
        /\ "crash" \in Fault /\ "api" \in Fault
    BY ConstantsAssumption DEF TypeOK, Fault
  <1>1. CASE budget' = budget /\ ~Crash
    BY <1>1 DEF BudgetLeft
  <1>2. ASSUME NEW kind \in {"api", "secret", "helm"}, UseFault(kind)
        PROVE  budget'["crash"] = budget["crash"] /\ budget'["api"] = budget["api"]
    BY <1>0, <1>2 DEF UseFault, TypeOK, BudgetLeft
  <1>3. ASSUME Crash
        PROVE  budget'["crash"] = budget["crash"] - 1 /\ budget'["api"] = budget["api"]
    BY <1>0, <1>3 DEF Crash, UseFault, TypeOK
  <1> QED
    BY <1>0, <1>1, <1>2, <1>3, BudgetEffect DEF BudgetLeft

\* A request that does not fail writes the name.
LEMMA NameWrittenKept ==
    ASSUME ~CacheLag, TypeOK, CopyInv, CopyCurrent, BudgetLeft, NameWritten, [Next]_vars
    PROVE  NameWritten'
  <1> SUFFICES ASSUME NEW p \in Proxy, Sent(p)', Exists(p)'
               PROVE  api'[p].releaseName = obj'[p].releaseName
    BY DEF NameWritten
  <1>0. Running(p)' /\ Deferred(p)' /\ pc'[p] \in {"patchStatus", "patched"}
    BY DEF Sent, Deferred, PatchSteps, Running
  <1>1. Exists(p)
    BY <1>0, NewHasNoWorker
  <1>2. ASSUME Sent(p), obj'[p] = obj[p]
        PROVE  api'[p].releaseName = obj'[p].releaseName
    <2>1. ~PatchObject(p)
      BY <1>2 DEF Sent, PatchObject
    <2> QED
      BY <1>1, <1>2, <2>1, ApiRelease DEF NameWritten, SameRelease
  <1>3. CASE PatchObject(p)
    <2>1. api[p] \in HRP /\ before[p] \in HRP /\ obj[p] \in HRP /\ Running(p) /\ ~Sent(p)
      BY <1>1, <1>3 DEF PatchObject, Exists, TypeOK, Running, Sent
    <2>2. api[p].releaseName = before[p].releaseName /\ obj' = obj
      BY <1>1, <1>3, <2>1 DEF CopyCurrent, SameRelease, PatchObject
    <2>3. \/ api' = api /\ obj[p].releaseName = before[p].releaseName
          \/ api'[p] = Stored(PatchedObject(api[p], before[p], obj[p]))
      <3>1. ~UseFault("api")
        BY DEF UseFault, BudgetLeft
      <3> QED
        BY <1>1, <1>3, <3>1 DEF PatchObject, Request, TypeOK
    <2>4. CASE api'[p] = Stored(PatchedObject(api[p], before[p], obj[p]))
      <3>1. api'[p] = PatchedObject(api[p], before[p], obj[p])
        BY <2>4 DEF Stored, Exists
      <3>2. api'[p].releaseName = Merge(api[p].releaseName, before[p].releaseName,
                                        obj[p].releaseName)
        BY <2>1, <3>1, PatchedObjectFields
      <3> QED
        BY <2>2, <3>2 DEF Merge
    <2> QED
      BY <2>2, <2>3, <2>4
  <1>4. CASE WorkerStep(p) /\ ~PatchObject(p)
    <2>1. pc[p] = "patchStatus" /\ PatchStatus(p)
      <3>1. CASE \/ Reconcile(p) \/ Examine(p) \/ GetCluster(p) \/ DeleteGetCluster(p)
                 \/ ReconcileDelete(p) \/ PatchReturns(p) \/ PatchConditions(p)
        BY <1>0, <3>1 DEF Reconcile, Examine, GetCluster, DeleteGetCluster, ReconcileDelete,
             PatchReturns, PatchConditions, Goto, Patch, RemoveFinalizer, Finish, TypeOK
      <3>2. CASE \/ ReconcileNormal(p) \/ Install(p) \/ Upgrade(p) \/ HelmEnds(p)
                 \/ Uninstall(p) \/ UninstallEnds(p)
        BY <1>0, <3>2 DEF ReconcileNormal, Install, Upgrade, HelmEnds, Uninstall, UninstallEnds,
             FoundRelease, InstallOrUpgradeFailed, InstallOrUpgradeReturned, DeletionFailed,
             RemoveFinalizer, Goto, Patch, TypeOK
      <3> QED
        BY <1>4, <3>1, <3>2 DEF WorkerStep, PatchStatus
    <2>2. Sent(p) /\ obj'[p] = obj[p]
      BY <1>0, <2>1 DEF PatchStatus, Sent, Deferred, PatchSteps
    <2> QED
      BY <1>2, <2>2
  <1>5. CASE ~WorkerStep(p)
    <2>1. pc'[p] = pc[p] /\ call'[p] = call[p] /\ obj'[p] = obj[p]
      BY <1>0, <1>5, WorkerFrame, CallFrame, OthersLeave DEF Ends
    <2>2. Sent(p)
      BY <1>0, <2>1 DEF Sent, Deferred
    <2> QED
      BY <1>2, <2>1, <2>2
  <1> QED
    BY <1>3, <1>4, <1>5

\* The object of p answers for release n in Cluster c.
Answers(p, c, n) == Holds(p) /\ api[p].cluster = c /\ Knows(p, n) /\ ~Releasing(p)

\* A worker that ends has sent everything.
LEMMA EndsSent ==
    ASSUME TypeOK, NEW p \in Proxy, WorkerStep(p), Ends(p)
    PROVE  Sent(p) /\ api' = api
  <1>1. CASE \/ Reconcile(p) \/ Examine(p) \/ GetCluster(p) \/ DeleteGetCluster(p)
             \/ ReconcileDelete(p) \/ PatchConditions(p) \/ PatchObject(p) \/ PatchStatus(p)
    BY <1>1 DEF Reconcile, Examine, GetCluster, DeleteGetCluster, ReconcileDelete,
         PatchConditions, PatchObject, PatchStatus, Goto, Patch, RemoveFinalizer, Ends, TypeOK
  <1>2. CASE \/ ReconcileNormal(p) \/ Install(p) \/ Upgrade(p) \/ HelmEnds(p)
             \/ Uninstall(p) \/ UninstallEnds(p)
    BY <1>2 DEF ReconcileNormal, Install, Upgrade, HelmEnds, Uninstall, UninstallEnds,
         FoundRelease, InstallOrUpgradeFailed, InstallOrUpgradeReturned, DeletionFailed,
         RemoveFinalizer, Goto, Patch, Ends, TypeOK
  <1>3. CASE PatchReturns(p)
    <2>1. api' = api /\ pc[p] = "patched"
      BY <1>3 DEF PatchReturns
    <2>2. call[p] = "deferred"
      BY <1>3 DEF PatchReturns, Goto, Patch, Ends, TypeOK
    <2> QED
      BY <2>1, <2>2 DEF Sent, Deferred, PatchSteps
  <1> QED
    BY <1>1, <1>2, <1>3 DEF WorkerStep

\* The name of a release is not forgotten: it is in the stored object, or its worker
\* takes it there.
LEMMA WorkerKnows ==
    ASSUME ~CacheLag, TypeOK, CopyInv, CopyCurrent, NameWritten, [Next]_vars,
           NEW p \in Proxy, WorkerStep(p), Exists(p), Exists(p)',
           NEW n \in GeneratedName, Knows(p, n)
    PROVE  Knows(p, n)'
  <1>0. n # None /\ WorkerOnlyAdds
    BY ConstantsAssumption DEF Name, CopyInv
  <1>1. CASE Reconcile(p)
    BY <1>1, ReconcileReadsStored DEF Reconcile, Running, Knows
  <1>2. CASE Moves(p)
    <2>1. CASE n = obj[p].releaseName
      BY <1>0, <1>2, <2>1 DEF Moves, KeepsName, Knows
    <2>2. CASE n = target[p]
      <3>1. HelmEnds(p)
        <4>1. pc[p] = "helmRunning"
          BY <1>0, <2>2 DEF CopyCurrent
        <4> QED
          BY <4>1 DEF WorkerStep, Reconcile, Examine, GetCluster, ReconcileNormal, Install,
             Upgrade, DeleteGetCluster, ReconcileDelete, Uninstall, UninstallEnds,
             PatchConditions, PatchObject, PatchStatus, PatchReturns
      <3>2. obj'[p].releaseName = n
        BY <1>0, <2>2, <3>1, HelmMoves
      <3> QED
        BY <1>2, <3>2 DEF Moves, Knows
    <2>3. CASE n = api[p].releaseName
      <3>1. CASE PatchObject(p)
        <4>1. Running(p) /\ ~Sent(p)
          BY <3>1 DEF PatchObject, Running, Sent
        <4>2. obj[p].releaseName = n
          BY <1>0, <2>3, <4>1 DEF CopyCurrent, SameRelease, KeepsName
        <4> QED
          BY <2>1, <4>2
      <3>2. CASE ~PatchObject(p)
        BY <2>3, <3>2, ApiRelease DEF SameRelease, Knows
      <3> QED
        BY <3>1, <3>2
    <2> QED
      BY <2>1, <2>2, <2>3 DEF Knows
  <1>3. CASE Ends(p)
    <2>1. Sent(p) /\ api' = api
      BY <1>3, EndsSent
    <2>2. target[p] = None
      BY <2>1 DEF Sent, CopyCurrent
    <2>3. api[p].releaseName = n
      BY <1>0, <2>1, <2>2 DEF Knows, NameWritten
    <2> QED
      BY <2>1, <2>3 DEF Knows
  <1> QED
    BY <1>0, <1>1, <1>2, <1>3, WorkerMoves

\* A request does not take the finalizer from an object that is not given up.
LEMMA WorkerHolds ==
    ASSUME TypeOK, ProxyInv, [Next]_vars, NEW p \in Proxy, WorkerStep(p), Holds(p), ~Releasing(p)
    PROVE  Holds(p)' /\ api'[p].cluster = api[p].cluster
  <1>1. CASE PatchConditions(p) \/ PatchStatus(p)
    BY <1>1, StatusRequestEffect DEF Holds, Exists
  <1>2. CASE PatchObject(p)
    <2> DEFINE x == PatchedObject(api[p], before[p], obj[p])
    <2>1. api[p] \in HRP /\ obj[p] \in HRP /\ before[p] \in HRP /\ Running(p)
      BY <1>2 DEF PatchObject, TypeOK, Holds, Exists, Running
    <2>2. /\ x \in HRP
          /\ x.cluster = api[p].cluster
          /\ x.finalizer = Merge(api[p].finalizer, before[p].finalizer, obj[p].finalizer)
      <3>1. x \in HRP
        BY <2>1, PatchedObjectType
      <3>2. x.cluster = api[p].cluster
        BY <2>1, PatchedObjectFields
      <3>3. x.finalizer = Merge(api[p].finalizer, before[p].finalizer, obj[p].finalizer)
        BY <2>1, PatchedObjectFields
      <3> QED
        BY <3>1, <3>2, <3>3
    <2>3. api'[p] = api[p] \/ api'[p] = Stored(x)
      BY <1>2, PatchObjectEffect
    <2> HIDE DEF x
    <2>4. x.finalizer
      <3>1. CASE obj[p].deleting
        BY <2>1, <2>2, <3>1 DEF Holds, Merge, Releasing, HRP
      <3>2. CASE ~obj[p].deleting
        BY <2>1, <2>2, <3>2 DEF Holds, Merge, ProxyInv, WorkerInBranch, HRP
      <3> QED
        BY <3>1, <3>2
    <2> QED
      BY <2>2, <2>3, <2>4, NoneIsNoObject DEF Holds, Exists, Stored
  <1>3. CASE api' = api
    BY <1>3 DEF Holds, Exists
  <1> QED
    BY <1>1, <1>2, <1>3, QuietSteps

\* A worker goes on answering for a release as long as it is there.
LEMMA WorkerAnswers ==
    ASSUME ~CacheLag, ReconcileStrategy = "Continuous",
           TypeOK, ProxyInv, ProxyInv', GoneIsEmpty, CopyInv, CopyCurrent, NameWritten,
           [Next]_vars, NEW p \in Proxy, WorkerStep(p),
           NEW c \in Cluster, NEW n \in GeneratedName, Answers(p, c, n), Live(releases'[c][n])
    PROVE  Answers(p, c, n)'
  <1>1. Holds(p)' /\ api'[p].cluster = c
    BY WorkerHolds DEF Answers
  <1>2. Knows(p, n)'
    BY <1>1, WorkerKnows DEF Answers, Holds
  <1>3. ASSUME pc[p] \in DeleteBranch
        PROVE  c = obj[p].cluster /\ n = obj[p].releaseName
    <2>1. Running(p) /\ ~Deferred(p) /\ ~Sent(p) /\ target[p] = None /\ Exists(p)
      BY <1>3 DEF Running, Deferred, Sent, DeleteBranch, PatchSteps, CopyCurrent, Answers, Holds
    <2>2. n # None
      BY ConstantsAssumption DEF Name
    <2>3. obj[p].releaseName = api[p].releaseName /\ obj[p].cluster = api[p].cluster
      BY <2>1 DEF CopyCurrent, SameRelease, ProxyInv, CopiesAgree, Agree
    <2> QED
      BY <2>1, <2>2, <2>3 DEF Answers, Knows
  <1>4. ~Releasing(p)'
    <2>1. n \in Name
      BY DEF Name
    <2> QED
      BY <1>3, <2>1, GivesUpSafely DEF Answers
  <1> QED
    BY <1>1, <1>2, <1>4 DEF Answers

\* A release that appears is known to the worker that has asked for it.
LEMMA NewRelease ==
    ASSUME TypeOK, CopyInv, CopyCurrent, NEW p \in Proxy, WorkerStep(p),
           NEW c \in Cluster, NEW n \in Name, ~Live(releases[c][n]), Live(releases'[c][n])
    PROVE  /\ pc[p] \in NormalBranch
           /\ c = obj[p].cluster
           /\ api' = api
           /\ before'[p] = before[p]
           /\ Running(p)'
           /\ n \in {target'[p], obj'[p].releaseName}
  <1>0. WorkerOnlyAdds /\ releases'[c][n] # releases[c][n]
    BY DEF CopyInv
  <1>1. CASE ReconcileNormal(p)
    <2>0. obj[p] \in HRP
      BY <1>1 DEF ReconcileNormal, TypeOK
    <2>1. /\ obj[p].releaseName # None
          /\ IsPending(releases[obj[p].cluster][obj[p].releaseName].status)
          /\ SetRelease(obj[p].cluster, obj[p].releaseName,
                 updateLastReleaseStatus(releases[obj[p].cluster][obj[p].releaseName]))
      BY <1>0, <1>1 DEF ReconcileNormal, FoundRelease
    <2>2. obj[p].cluster \in Cluster /\ obj[p].releaseName \in Name
      BY <2>0, <2>1 DEF HRP
    <2>3. c = obj[p].cluster /\ n = obj[p].releaseName
      BY <1>0, <2>1, <2>2, SetReleaseEffect
    <2> QED
      BY <2>1, <2>3 DEF IsPending, Live, NoRelease
  <1>2. CASE Install(p)
    <2>1. PICK m \in IF obj[p].releaseName = None THEN FreshName(obj[p].cluster)
                                                  ELSE {obj[p].releaseName} :
              /\ SetRelease(obj[p].cluster, m, BeginInstall(obj[p].content))
              /\ target' = [target EXCEPT ![p] = m]
              /\ pc' = [pc EXCEPT ![p] = "helmRunning"]
      BY <1>0, <1>2 DEF Install
    <2>2. obj[p] \in HRP /\ pc[p] \in NormalBranch /\ api' = api /\ before' = before
      BY <1>2 DEF Install, TypeOK, NormalBranch
    <2>3. m \in Name /\ obj[p].cluster \in Cluster
      BY <2>1, <2>2 DEF FreshName, Name, HRP
    <2>4. c = obj[p].cluster /\ n = m
      BY <1>0, <2>1, <2>3, SetReleaseEffect
    <2>5. target'[p] = n /\ pc'[p] = "helmRunning"
      BY <2>1, <2>4 DEF TypeOK
    <2> QED
      BY <2>2, <2>4, <2>5 DEF Running
  <1>3. CASE Upgrade(p)
    <2>1. /\ SetRelease(obj[p].cluster, obj[p].releaseName, BeginUpgrade(obj[p].content))
          /\ target' = [target EXCEPT ![p] = obj[p].releaseName]
          /\ pc' = [pc EXCEPT ![p] = "helmRunning"]
      BY <1>0, <1>3 DEF Upgrade
    <2>2. /\ obj[p] \in HRP /\ obj[p].releaseName \in Name
          /\ pc[p] \in NormalBranch /\ api' = api /\ before' = before
      BY <1>3 DEF Upgrade, TypeOK, NormalBranch
    <2>3. c = obj[p].cluster /\ n = obj[p].releaseName
      BY <1>0, <2>1, <2>2, SetReleaseEffect DEF HRP
    <2>4. target'[p] = n /\ pc'[p] = "helmRunning"
      BY <2>1, <2>3 DEF TypeOK
    <2> QED
      BY <2>2, <2>3, <2>4 DEF Running
  <1>4. CASE HelmEnds(p)
    <2>1. \E r : SetRelease(obj[p].cluster, target[p], r)
      BY <1>4 DEF HelmEnds
    <2>2. /\ obj[p] \in HRP /\ target[p] \in Name
          /\ pc[p] \in NormalBranch /\ api' = api /\ before' = before
      BY <1>4 DEF HelmEnds, TypeOK, NormalBranch
    <2>3. c = obj[p].cluster /\ n = target[p]
      BY <1>0, <2>1, <2>2, SetReleaseEffect DEF HRP
    <2>4. Running(p)' /\ obj'[p].releaseName = target[p]
      BY <1>0, <1>4, HelmMoves DEF Moves
    <2> QED
      BY <2>2, <2>3, <2>4
  <1>5. CASE Uninstall(p) \/ UninstallEnds(p)
    <2>0. obj[p] \in HRP /\ obj[p].releaseName \in Name
      BY <1>5 DEF Uninstall, UninstallEnds, TypeOK
    <2>1. obj[p].cluster \in Cluster /\ obj[p].releaseName \in Name
      BY <2>0 DEF HRP
    <2> DEFINE old == releases[obj[p].cluster][obj[p].releaseName]
    <2>2. \E r : SetRelease(obj[p].cluster, obj[p].releaseName, r) /\ (Live(r) => Live(old))
      <3>1. \A keep : ~Live(EndUninstall(old, keep)) /\ ~Live(NoRelease)
        BY DEF EndUninstall, Record, Live
      <3>2. \A keep : Uninstallable(old, keep) /\ old.status # "uninstalled" => Live(old)
        BY DEF Uninstallable, Live
      <3> HIDE DEF old
      <3>3. CASE Uninstall(p)
        BY <1>0, <3>1, <3>2, <3>3 DEF Uninstall, old
      <3>4. CASE UninstallEnds(p)
        BY <1>0, <3>1, <3>4 DEF UninstallEnds, old
      <3> QED
        BY <1>5, <3>3, <3>4
    <2> QED
      BY <1>0, <2>1, <2>2, SetReleaseEffect
  <1>6. CASE \/ Reconcile(p) \/ Examine(p) \/ GetCluster(p) \/ DeleteGetCluster(p)
             \/ ReconcileDelete(p) \/ PatchConditions(p) \/ PatchObject(p) \/ PatchStatus(p)
             \/ PatchReturns(p)
    BY <1>0, <1>6 DEF Reconcile, Examine, GetCluster, DeleteGetCluster, ReconcileDelete,
         PatchConditions, PatchObject, PatchStatus, PatchReturns
  <1> QED
    BY <1>1, <1>2, <1>3, <1>4, <1>5, <1>6 DEF WorkerStep

\* Every release with a generated name goes on having someone who answers for it.
LEMMA GeneratedOwnerKept ==
    ASSUME ~CacheLag, TypeOK, ProxyInv, ProxyInv', GoneIsEmpty, CopyInv, CopyCurrent,
           BudgetLeft, NameWritten, GeneratedOwner, [Next]_vars
    PROVE  GeneratedOwner'
  <1> SUFFICES ASSUME ReconcileStrategy = "Continuous",
                      budget["crash"]' = MaxFault["crash"],
                      NEW c \in Cluster, NEW n \in GeneratedName, Live(releases'[c][n])
               PROVE  \E p \in Proxy : Answers(p, c, n)'
    BY DEF GeneratedOwner, Answers
  <1>0. budget["crash"] = MaxFault["crash"] /\ ~Crash /\ n \in Name
    BY BudgetLeftKept DEF Name
  <1>1. CASE \E q \in Proxy : WorkerStep(q)
    <2>0. PICK q \in Proxy : WorkerStep(q)
      BY <1>1
    <2>1. CASE Live(releases[c][n])
      <3>1. PICK p \in Proxy : Answers(p, c, n)
        BY <1>0, <2>1 DEF GeneratedOwner, Answers
      <3>2. CASE p = q
        BY <2>0, <3>1, <3>2, WorkerAnswers
      <3>3. CASE p # q
        <4>1. /\ pc'[p] = pc[p] /\ obj'[p] = obj[p] /\ target'[p] = target[p]
              /\ api'[p] = api[p]
          BY <2>0, <3>3, WorkerFrame, CallFrame
        <4>2. Answers(p, c, n)'
          BY <3>1, <4>1 DEF Answers, Holds, Exists, Knows, Releasing, Running
        <4> QED
          BY <4>2
      <3> QED
        BY <3>2, <3>3
    <2>2. CASE ~Live(releases[c][n])
      <3>1. /\ pc[q] \in NormalBranch
            /\ c = obj[q].cluster
            /\ api' = api
            /\ before'[q] = before[q]
            /\ Running(q)'
            /\ n \in {target'[q], obj'[q].releaseName}
        BY <1>0, <2>0, <2>2, NewRelease
      <3>2. Holds(q) /\ ~obj[q].deleting /\ Running(q)
        BY <3>1 DEF ProxyInv, WorkerInBranch, Running, NormalBranch
      <3>3. api[q].cluster = c /\ before[q].deleting = obj[q].deleting
        BY <3>1, <3>2 DEF ProxyInv, CopiesAgree, Agree, Holds
      <3>4. obj'[q].deleting = before'[q].deleting
        BY <3>1 DEF ProxyInv, CopiesAgree
      <3>5. ~Releasing(q)'
        BY <3>1, <3>2, <3>3, <3>4 DEF Releasing
      <3>6. Holds(q)' /\ api'[q].cluster = c
        BY <3>1, <3>2, <3>3 DEF Holds, Exists
      <3>7. Knows(q, n)'
        BY <3>1 DEF Knows
      <3> QED
        BY <3>5, <3>6, <3>7 DEF Answers
    <2> QED
      BY <2>1, <2>2
  <1>2. CASE ~\E q \in Proxy : WorkerStep(q)
    <2>1. UNCHANGED <<pc, obj, target>>
      BY <1>0, <1>2 DEF Next, vars, locals, CacheSync, Owner, CreateProxy, UpdateProxy,
         DeleteProxy, ClusterReady, ClusterGone
    <2>2. Live(releases[c][n])
      <3>1. \A d \in Cluster : ClusterReady(d) \/ ClusterGone(d) => Live(releases[c][n])
        BY <1>0 DEF ClusterReady, ClusterGone, Live, TypeOK
      <3> QED
        BY <1>0, <1>2, <3>1 DEF Next, vars, CacheSync, Owner, CreateProxy, UpdateProxy,
           DeleteProxy
    <2>3. PICK p \in Proxy : Answers(p, c, n)
      BY <1>0, <2>2 DEF GeneratedOwner, Answers
    <2>4. /\ api'[p] # None
          /\ api'[p].cluster = api[p].cluster
          /\ api'[p].releaseName = api[p].releaseName
          /\ api'[p].finalizer = api[p].finalizer
      <3>1. Exists(p) /\ api[p].finalizer
        BY <2>3 DEF Answers, Holds
      <3>2. \A q \in Proxy : Owner(q) =>
                /\ api'[p] # None
                /\ api'[p].cluster = api[p].cluster
                /\ api'[p].releaseName = api[p].releaseName
                /\ api'[p].finalizer = api[p].finalizer
        BY <3>1, OwnerEffect DEF Exists
      <3> QED
        BY <1>0, <1>2, <3>1, <3>2 DEF Next, vars, CacheSync, ClusterReady, ClusterGone, Exists
    <2>5. Answers(p, c, n)'
      BY <2>1, <2>3, <2>4 DEF Answers, Holds, Exists, Knows, Releasing, Running
    <2> QED
      BY <2>5
  <1> QED
    BY <1>1, <1>2

\* Without lag and without a failed request no release with a generated name is left
\* behind until the process stops, whatever fails in Helm, in the Secrets or with the
\* Cluster: the worker that has the name from Helm writes it back, and nobody takes the
\* finalizer before.
THEOREM GeneratedReleasesOwned ==
    ASSUME ~CacheLag, MaxFault["api"] = 0
    PROVE  Spec => []GeneratedReleaseOwnedUntilCrash
  <1> DEFINE Inv == TypeOK /\ OwnershipInv /\ CopyInv
             GenInv == NoLagInv /\ BudgetLeft /\ NameWritten /\ GeneratedOwner
  <1>1. Init => GenInv
    <2>1. Init => BudgetLeft
      <3>1. MaxFault["crash"] \in Nat
        BY ConstantsAssumption DEF Fault
      <3> QED
        BY <3>1 DEF Init, BudgetLeft
    <2>2. Init => NameWritten /\ GeneratedOwner
      BY DEF Init, NameWritten, GeneratedOwner, Exists, Live, Name
    <2> QED
      BY <2>1, <2>2, NoLagInit
  <1>2. Inv /\ Inv' /\ GenInv /\ [Next]_vars => GenInv'
    <2> SUFFICES ASSUME Inv, Inv', GenInv, [Next]_vars
                 PROVE  GenInv'
      OBVIOUS
    <2>1. ProxyInv /\ GoneIsEmpty /\ ProxyInv'
      BY DEF OwnershipInv, ProxyInv
    <2>2. NoLagInv'
      BY <2>1, CopyCurrentKept, InstallsOnceKept, NamesApartKept DEF NoLagInv
    <2>3. BudgetLeft' /\ NameWritten'
      BY BudgetLeftKept, NameWrittenKept DEF NoLagInv
    <2>4. GeneratedOwner'
      BY <2>1, GeneratedOwnerKept DEF NoLagInv
    <2> QED
      BY <2>2, <2>3, <2>4
  <1>3. GenInv => GeneratedReleaseOwnedUntilCrash
    BY DEF GeneratedOwner, GeneratedReleaseOwnedUntilCrash, GeneratedReleaseOwned, Knows, Holds,
           Owns, Running
  <1> QED
    BY <1>1, <1>2, <1>3, TypeCorrect, OwnershipInvariant, CopiesInOrder, PTL DEF Spec

-----------------------------------------------------------------------------
(***************************************************************************)
(* The status.  Why a HelmReleaseProxy that says Ready for its generation  *)
(* is right: the inductive invariant behind StatusHonest, part by part.    *)
(***************************************************************************)
Up(o) == clusters[o.cluster] # "gone"

\* The observed generation that is stored is the one that was read or the one that was
\* read with the object; as long as the generation is the same, so is the spec.
GenerationsInOrder ==
    \A p \in Proxy :
        Running(p) =>
            /\ obj[p].content = before[p].content
            /\ before[p].observed <= before[p].generation
            /\ Exists(p) =>
                 /\ api[p].observed \in {before[p].observed, before[p].generation}
                 /\ api[p].generation = before[p].generation =>
                      /\ api[p].content = before[p].content
                      /\ api[p].deleting = before[p].deleting
                      /\ api[p].releaseName = before[p].releaseName

\* The calls of patchHelmReleaseProxy that come before Helm, and the steps at which no
\* call has sent a condition that counts.
EarlyCall == {"initializeConditions", "ensureFinalizer"}
Unsent(p) == pc[p] \in PatchSteps \ {"patchConditions"} => call[p] \in EarlyCall

\* What the stored conditions say is what was read, later what the worker has found.
ConditionsInOrder ==
    \A p \in Proxy :
        Running(p) =>
            /\ ~Deferred(p) /\ obj[p].releaseReady = "Ready" => before[p].releaseReady = "Ready"
            /\ Exists(p) /\ Unsent(p) =>
                 /\ api[p].releaseReady = "Ready" <=> before[p].releaseReady = "Ready"
                 /\ api[p].clusterAvailable = "Available"
                      => before[p].clusterAvailable = "Available"
            /\ Exists(p) /\ ~Unsent(p) =>
                 /\ api[p].releaseReady = "Ready" => obj[p].releaseReady = "Ready"
                 /\ api[p].clusterAvailable = "Available" => obj[p].clusterAvailable = "Available"
            /\ pc[p] = "examine" \/ (pc[p] \in PatchSteps /\ call[p] \in EarlyCall)
                 => /\ obj[p].clusterAvailable = before[p].clusterAvailable
                    /\ obj[p].releaseReady = "Ready" <=> before[p].releaseReady = "Ready"
            /\ pc[p] \in PatchSteps /\ call[p] = "initializeConditions"
                 => obj[p].releaseReady # "Ready"

\* Nothing is Ready before it has the finalizer, so that the patch that adds it, which
\* writes the observed generation too, cannot make an old Ready look new.
ReadyHasFinalizer ==
    \A p \in Proxy :
        /\ Exists(p) /\ api[p].releaseReady = "Ready" /\ Up(api[p]) => api[p].finalizer
        /\ Running(p) /\ before[p].releaseReady = "Ready" /\ Up(before[p]) => before[p].finalizer

\* An object under deletion is there until its worker gives it up.
DeletesWhatExists ==
    \A p \in Proxy :
        /\ Running(p) /\ obj[p].deleting => before[p].finalizer
        /\ Running(p) /\ obj[p].deleting /\ obj[p].finalizer => Exists(p)
        /\ pc[p] \in DeleteBranch => obj[p].finalizer
        /\ pc[p] \in PatchSteps /\ call[p] = "removeFinalizer" =>
             /\ obj[p].deleting /\ ~obj[p].finalizer
             /\ pc[p] \in {"patchStatus", "patched"} => ~Exists(p)

\* What Helm has on record of the release a worker is busy with.
HelmInOrder ==
    \A p \in Proxy :
        Running(p) /\ Up(obj[p]) =>
            /\ pc[p] = "upgrade" =>
                 LET release == releases[obj[p].cluster][obj[p].releaseName] IN
                 \/ existing[p] = release
                 \/ IsPending(existing[p].status) /\ release.status = "failed"
            /\ pc[p] = "helmRunning" => IsPending(releases[obj[p].cluster][target[p]].status)

\* The worker of p is about to say something new about a release that is Ready.
Reports(p) ==
    /\ obj[p].releaseReady = "Ready"
    /\ \/ obj[p].clusterAvailable = "Available"
       \/ before[p].releaseReady # "Ready"
       \/ obj[p].releaseName # before[p].releaseName

\* It does so in its last patch only, and then it is true.
ReportTrue ==
    \A p \in Proxy :
        pc[p] \in PatchSteps /\ Exists(p) /\ Up(obj[p]) /\ Reports(p) =>
            call[p] = "deferred" /\ ~obj[p].deleting /\ api[p].finalizer /\ Deployed(obj[p])

\* What has been reported is not uninstalled before a worker has seen the deletion.
TakenDown == {"none", "uninstalling", "uninstalled"}

ReleaseKept ==
    \A p \in Proxy :
        /\ Exists(p)
        /\ Up(api[p])
        /\ api[p].releaseReady = "Ready"
        /\ api[p].releaseName # None
        /\ api[p].deleting => Running(p) /\ ~obj[p].deleting
        => releases[api[p].cluster][api[p].releaseName].status \notin TakenDown

\* StatusHonest, and no object under deletion says Ready for its generation.
StatusTrue ==
    \A p \in Proxy :
        /\ Exists(p)
        /\ Up(api[p])
        /\ Ready(api[p])
        /\ api[p].observed = api[p].generation
        => ~api[p].deleting /\ (api[p].releaseName # None => Deployed(api[p]))

-----------------------------------------------------------------------------
(* What a worker does to the releases.                                     *)

\* Who writes to a release, and what is written.
WritesAs(p, c, n) ==
    /\ c = obj[p].cluster
    /\ n \in {obj[p].releaseName, target[p]} \union FreshName(c)
    /\ \/ pc[p] \in DeleteBranch
       \/ /\ pc[p] = "reconcileNormal"
          /\ IsPending(releases[c][n].status)
          /\ releases'[c][n].status = "failed"
       \/ /\ pc[p] = "install"
          /\ releases[c][n] = NoRelease
          /\ IsPending(releases'[c][n].status)
       \/ /\ pc[p] = "upgrade"
          /\ n = obj[p].releaseName
          /\ shouldUpgradeHelmRelease(existing[p], obj[p].content)
          /\ IsPending(releases'[c][n].status)
       \/ /\ pc[p] = "helmRunning"
          /\ n = target[p]
          /\ releases[c][n] # NoRelease
          /\ releases'[c][n].status \in {"deployed", "failed"}

\* A release changes as its writer says.
LEMMA WriteEffect ==
    ASSUME TypeOK, NEW p \in Proxy, WorkerStep(p),
           NEW c \in Cluster, NEW n \in Name, releases'[c][n] # releases[c][n]
    PROVE  WritesAs(p, c, n)
  <1>1. CASE ReconcileNormal(p)
    <2>0. obj[p] \in HRP /\ pc[p] = "reconcileNormal"
      BY <1>1 DEF ReconcileNormal, TypeOK
    <2>1. /\ obj[p].releaseName # None
          /\ IsPending(releases[obj[p].cluster][obj[p].releaseName].status)
          /\ SetRelease(obj[p].cluster, obj[p].releaseName,
                 updateLastReleaseStatus(releases[obj[p].cluster][obj[p].releaseName]))
      BY <1>1 DEF ReconcileNormal, FoundRelease
    <2>2. obj[p].cluster \in Cluster /\ obj[p].releaseName \in Name
      BY <2>0, <2>1 DEF HRP
    <2>3. c = obj[p].cluster /\ n = obj[p].releaseName
          /\ releases'[c][n] = updateLastReleaseStatus(releases[c][n])
      BY <2>1, <2>2, SetReleaseEffect
    <2>4. releases[c][n] \in Release
      BY DEF TypeOK
    <2>5. releases'[c][n].status = "failed"
      BY <2>3, <2>4 DEF updateLastReleaseStatus, Release
    <2> QED
      BY <2>0, <2>1, <2>3, <2>5 DEF WritesAs
  <1>2. CASE Install(p)
    <2>1. PICK m \in IF obj[p].releaseName = None THEN FreshName(obj[p].cluster)
                                                  ELSE {obj[p].releaseName} :
              /\ NameAvailable(releases[obj[p].cluster][m])
              /\ SetRelease(obj[p].cluster, m, BeginInstall(obj[p].content))
      BY <1>2 DEF Install
    <2>2. pc[p] = "install" /\ obj[p] \in HRP
      BY <1>2 DEF Install, TypeOK
    <2>3. m \in Name /\ obj[p].cluster \in Cluster
      BY <2>1, <2>2 DEF FreshName, Name, HRP
    <2>4. c = obj[p].cluster /\ n = m /\ releases'[c][n] = BeginInstall(obj[p].content)
      BY <2>1, <2>3, SetReleaseEffect
    <2> QED
      BY <2>1, <2>2, <2>4 DEF WritesAs, NameAvailable, BeginInstall, IsPending
  <1>3. CASE Upgrade(p)
    <2>1. /\ shouldUpgradeHelmRelease(existing[p], obj[p].content)
          /\ SetRelease(obj[p].cluster, obj[p].releaseName, BeginUpgrade(obj[p].content))
      BY <1>3 DEF Upgrade
    <2>2. pc[p] = "upgrade" /\ obj[p] \in HRP /\ obj[p].releaseName \in Name
      BY <1>3 DEF Upgrade, TypeOK
    <2>3. c = obj[p].cluster /\ n = obj[p].releaseName
          /\ releases'[c][n] = BeginUpgrade(obj[p].content)
      BY <2>1, <2>2, SetReleaseEffect DEF HRP
    <2> QED
      BY <2>1, <2>2, <2>3 DEF WritesAs, BeginUpgrade, IsPending
  <1>4. CASE HelmEnds(p)
    <2> DEFINE old == releases[obj[p].cluster][target[p]]
    <2>1. PICK status \in {"deployed", "failed"} :
              SetRelease(obj[p].cluster, target[p], Record(old, status, obj[p].content))
      BY <1>4 DEF HelmEnds
    <2>2. pc[p] = "helmRunning" /\ obj[p] \in HRP /\ target[p] \in Name
      BY <1>4 DEF HelmEnds, TypeOK
    <2>3. c = obj[p].cluster /\ n = target[p]
          /\ releases'[c][n] = Record(releases[c][n], status, obj[p].content)
      BY <2>1, <2>2, SetReleaseEffect DEF HRP
    <2> QED
      BY <2>2, <2>3 DEF WritesAs, Record
  <1>5. CASE Uninstall(p) \/ UninstallEnds(p)
    <2>1. \E r : SetRelease(obj[p].cluster, obj[p].releaseName, r)
      BY <1>5 DEF Uninstall, UninstallEnds
    <2>2. /\ pc[p] \in DeleteBranch /\ obj[p] \in HRP
          /\ obj[p].releaseName \in Name
      BY <1>5 DEF Uninstall, UninstallEnds, TypeOK, DeleteBranch
    <2>3. c = obj[p].cluster /\ n = obj[p].releaseName
      BY <2>1, <2>2, SetReleaseEffect DEF HRP
    <2> QED
      BY <2>2, <2>3 DEF WritesAs
  <1>6. CASE \/ Reconcile(p) \/ Examine(p) \/ GetCluster(p) \/ DeleteGetCluster(p)
             \/ ReconcileDelete(p) \/ PatchConditions(p) \/ PatchObject(p) \/ PatchStatus(p)
             \/ PatchReturns(p)
    BY <1>6 DEF Reconcile, Examine, GetCluster, DeleteGetCluster, ReconcileDelete,
         PatchConditions, PatchObject, PatchStatus, PatchReturns
  <1> QED
    BY <1>1, <1>2, <1>3, <1>4, <1>5, <1>6 DEF WorkerStep

\* The names by which p knows its release.
Uses(p, n) ==
    \/ n = api[p].releaseName
    \/ Running(p) /\ n = obj[p].releaseName
    \/ pc[p] = "helmRunning" /\ n = target[p]

\* A worker writes to the releases of its own object only.
LEMMA WritesItsOwn ==
    ASSUME TypeOK, ProxyInv, CopyCurrent, NamesApart, DeletesWhatExists,
           NEW p \in Proxy, Exists(p), NEW n \in Name, Uses(p, n),
           NEW q \in Proxy, WorkerStep(q),
           releases'[api[p].cluster][n] # releases[api[p].cluster][n]
    PROVE  q = p /\ Running(p) /\ WritesAs(p, api[p].cluster, n)
  <1> DEFINE c == api[p].cluster
  <1>0. api[p] \in HRP /\ c \in Cluster
    BY DEF Exists, TypeOK, HRP
  <1>1. WritesAs(q, c, n)
    BY <1>0, WriteEffect
  <1>2. Running(q) /\ Exists(q)
    <2>1. pc[q] \in NormalBranch \union DeleteBranch
      BY <1>1 DEF WritesAs, NormalBranch
    <2> QED
      BY <2>1 DEF Running, NormalBranch, DeleteBranch, ProxyInv, WorkerInBranch, Holds,
         DeletesWhatExists
  <1>3. obj[q] \in HRP /\ obj[q] # None /\ api[q].cluster = c
    BY <1>1, <1>2, NoneIsNoObject DEF WritesAs, ProxyInv, CopiesAgree, Agree, TypeOK, Running
  <1>4. SUFFICES ASSUME q # p
                 PROVE  FALSE
    BY <1>1, <1>2
  <1>5. CASE n \in GeneratedName
    <2>1. n # None
      BY ConstantsAssumption
    <2>2. Mentions(p, n)
      <3>1. Running(p) => obj[p] # None
        BY NoneIsNoObject DEF Running, TypeOK
      <3> QED
        BY <3>1 DEF Uses, Mentions, Exists
    <2>3. Mentions(q, n)
      <3>1. n \notin FreshName(c)
        BY <2>2 DEF FreshName, Mentions
      <3> QED
        BY <1>1, <1>3, <3>1 DEF WritesAs, Mentions
    <2> QED
      BY <1>4, <1>5, <2>2, <2>3 DEF NamesApart
  <1>6. CASE n \in UserName
    <2>1. n \notin GeneratedName /\ n # None
      BY <1>6, ConstantsAssumption
    <2>2. api[p].releaseName = n
      <3>1. Running(p) /\ n = obj[p].releaseName => api[p].releaseName = n
        BY <1>6 DEF ProxyInv, CopiesAgree, Agree, SameName
      <3>2. pc[p] = "helmRunning" /\ n = target[p] => api[p].releaseName = n
        BY <1>6, <3>1 DEF ProxyInv, CopiesAgree, SameName, Running
      <3> QED
        BY <3>1, <3>2 DEF Uses
    <2>3. api[q].releaseName = n
      <3>1. n \in {obj[q].releaseName, target[q]}
        BY <1>1, <2>1 DEF WritesAs, FreshName
      <3>2. n = target[q] => n = obj[q].releaseName
        BY <1>6, <2>1 DEF CopyCurrent, ProxyInv, CopiesAgree, SameName
      <3> QED
        BY <1>2, <1>6, <3>1, <3>2 DEF ProxyInv, CopiesAgree, Agree, SameName
    <2> QED
      BY <1>0, <1>2, <1>3, <1>4, <1>6, <2>2, <2>3 DEF NamesApart
  <1> QED
    BY <1>5, <1>6 DEF Name

\* A Cluster that is not gone was not gone before.
LEMMA UpEffect ==
    ASSUME TypeOK, ProxyInv, [Next]_vars, NEW c \in Cluster, clusters'[c] # "gone"
    PROVE  /\ clusters[c] # "gone"
           /\ \/ \E q \in Proxy : WorkerStep(q)
              \/ \A n \in Name : releases'[c][n] = releases[c][n]
  <1>1. CASE \E q \in Proxy : WorkerStep(q)
    BY <1>1, ReleaseEffect
  <1>2. ASSUME NEW d \in Cluster, ClusterReady(d) \/ ClusterGone(d)
        PROVE  clusters[c] # "gone" /\ \A n \in Name : releases'[c][n] = releases[c][n]
    BY <1>2 DEF ClusterReady, ClusterGone, TypeOK
  <1>3. CASE Crash \/ UNCHANGED vars \/ \E q \in Proxy : CacheSync(q) \/ Owner(q)
    BY <1>3 DEF Crash, vars, CacheSync, Owner, CreateProxy, UpdateProxy, DeleteProxy
  <1> QED
    BY <1>1, <1>2, <1>3 DEF Next

\* The release of p is as it was, unless p's own worker has written to it.
LEMMA ReleaseStays ==
    ASSUME TypeOK, ProxyInv, CopyCurrent, NamesApart, DeletesWhatExists, [Next]_vars,
           NEW p \in Proxy, Exists(p), Up(api[p])', api'[p].cluster = api[p].cluster,
           NEW n \in Name, Uses(p, n)
    PROVE  \/ releases'[api[p].cluster][n] = releases[api[p].cluster][n]
           \/ WorkerStep(p) /\ Running(p) /\ WritesAs(p, api[p].cluster, n)
  <1>1. api[p].cluster \in Cluster
    BY DEF Exists, TypeOK, HRP
  <1> QED
    BY <1>1, UpEffect, WritesItsOwn DEF Up

-----------------------------------------------------------------------------
(* What a step does to the stored object.                                  *)

\* The conditions of a copy.
SameConditions(o, q) ==
    o.clusterAvailable = q.clusterAvailable /\ o.releaseReady = q.releaseReady

\* The owner writes to the object of p.
OwnerWrote(p) ==
    LET a == api[p]
        b == api'[p] IN
    /\ Owner(p)
    /\ SameConditions(a, b) /\ a.releaseName = b.releaseName /\ a.finalizer = b.finalizer
    /\ a.observed = b.observed /\ b.generation = a.generation + 1
    /\ a.deleting => b.deleting

\* The three requests of a patch, none of which fails.
ConditionsSent(p) ==
    LET a == api[p]
        b == api'[p] IN
    /\ PatchConditions(p)
    /\ pc[p] = "patchConditions" /\ pc'[p] = "patchObject"
    /\ b.clusterAvailable
         = Merge(a.clusterAvailable, before[p].clusterAvailable, obj[p].clusterAvailable)
    /\ b.releaseReady = Merge(a.releaseReady, before[p].releaseReady, obj[p].releaseReady)
    /\ a.releaseName = b.releaseName /\ a.finalizer = b.finalizer /\ a.content = b.content
    /\ a.observed = b.observed /\ b.generation = a.generation /\ a.deleting = b.deleting

ObjectSent(p) ==
    LET a == api[p]
        b == api'[p] IN
    /\ PatchObject(p)
    /\ pc[p] = "patchObject" /\ pc'[p] = "patchStatus"
    /\ SameConditions(a, b)
    /\ b.releaseName = Merge(a.releaseName, before[p].releaseName, obj[p].releaseName)
    /\ b.finalizer = Merge(a.finalizer, before[p].finalizer, obj[p].finalizer)
    /\ b.generation = IF b.releaseName = a.releaseName THEN a.generation ELSE a.generation + 1
    /\ a.content = b.content /\ a.observed = b.observed /\ a.deleting = b.deleting

StatusSent(p) ==
    LET a == api[p]
        b == api'[p] IN
    /\ PatchStatus(p)
    /\ pc[p] = "patchStatus" /\ pc'[p] = "patched"
    /\ SameConditions(a, b)
    /\ b.observed \in {a.observed, obj[p].generation}
    /\ a.releaseName = b.releaseName /\ a.finalizer = b.finalizer /\ a.content = b.content
    /\ b.generation = a.generation /\ a.deleting = b.deleting

\* The fields of what the requests store.
LEMMA SentFields ==
    ASSUME NEW a \in HRP, NEW b \in HRP, NEW o \in HRP
    PROVE  /\ LET x == PatchedConditions(a, b, o) IN
              /\ x.clusterAvailable
                   = Merge(a.clusterAvailable, b.clusterAvailable, o.clusterAvailable)
              /\ x.releaseReady = Merge(a.releaseReady, b.releaseReady, o.releaseReady)
           /\ SameConditions(a, PatchedObject(a, b, o))
           /\ SameConditions(a, Observing(a, o))
  BY DEF HRP, PatchedConditions, PatchedObject, WithName, Observing, SameConditions

\* The fields of what owners store.
LEMMA OwnerFields ==
    ASSUME NEW o \in HRP, NEW content \in Content, NEW keep \in BOOLEAN
    PROVE  \A x \in {Revised(o, content, keep), Marked(o)} :
               /\ SameConditions(o, x) /\ o.releaseName = x.releaseName
               /\ o.finalizer = x.finalizer /\ o.observed = x.observed
               /\ x.generation = o.generation + 1
               /\ o.deleting => x.deleting
  BY DEF HRP, Revised, Marked, SameConditions

\* Without failures a request stores what it is to store.
LEMMA RequestEffect ==
    ASSUME TypeOK, BudgetLeft, NEW p \in Proxy, Exists(p), Exists(p)',
           PatchConditions(p) \/ PatchObject(p) \/ PatchStatus(p)
    PROVE  ConditionsSent(p) \/ ObjectSent(p) \/ StatusSent(p)
  <1>0. /\ api[p] \in HRP /\ obj[p] \in HRP /\ before[p] \in HRP
        /\ ~UseFault("api") /\ api[p] # None /\ api'[p] # None
    <2>1. pc[p] # "idle"
      BY DEF PatchConditions, PatchObject, PatchStatus
    <2>2. ~UseFault("api")
      BY DEF BudgetLeft, UseFault
    <2> QED
      BY <2>1, <2>2 DEF Exists, TypeOK
  <1>1. CASE PatchConditions(p)
    <2> DEFINE x == PatchedConditions(api[p], before[p], obj[p])
    <2>1. pc[p] = "patchConditions" /\ pc'[p] = "patchObject"
      BY <1>1 DEF PatchConditions, TypeOK
    <2>2. \/ /\ api'[p] = api[p]
             /\ obj[p].clusterAvailable = before[p].clusterAvailable
             /\ obj[p].releaseReady = before[p].releaseReady
          \/ api'[p] = x
      BY <1>0, <1>1 DEF PatchConditions, Request, Exists, TypeOK
    <2>3. /\ x.clusterAvailable = Merge(api[p].clusterAvailable, before[p].clusterAvailable,
                                        obj[p].clusterAvailable)
          /\ x.releaseReady = Merge(api[p].releaseReady, before[p].releaseReady,
                                    obj[p].releaseReady)
      BY <1>0, SentFields
    <2>4. /\ x.generation = api[p].generation /\ x.observed = api[p].observed
          /\ SameSpec(api[p], x) /\ SameMetadata(api[p], x)
      BY <1>0, ConditionsFields
    <2> HIDE DEF x
    <2> QED
      BY <1>1, <2>1, <2>2, <2>3, <2>4 DEF ConditionsSent, Merge, SameSpec, SameMetadata
  <1>2. CASE PatchObject(p)
    <2> DEFINE x == PatchedObject(api[p], before[p], obj[p])
    <2>1. pc[p] = "patchObject" /\ pc'[p] = "patchStatus"
      BY <1>2, PatchObjectEffect
    <2>2. \/ /\ api'[p] = api[p]
             /\ obj[p].releaseName = before[p].releaseName
             /\ obj[p].finalizer = before[p].finalizer
          \/ api'[p] = Stored(x)
      BY <1>0, <1>2 DEF PatchObject, Request, Exists, TypeOK
    <2>3. Stored(x) # None => Stored(x) = x
      BY DEF Stored
    <2>4. /\ x.releaseName = Merge(api[p].releaseName, before[p].releaseName,
                                   obj[p].releaseName)
          /\ x.finalizer = Merge(api[p].finalizer, before[p].finalizer, obj[p].finalizer)
      BY <1>0, PatchedObjectFields
    <2>5. /\ x.observed = api[p].observed
          /\ x.generation = IF x.releaseName = api[p].releaseName THEN api[p].generation
                                                                  ELSE api[p].generation + 1
          /\ SameSpec(api[p], x) /\ SameConditions(api[p], x)
      BY <1>0, ObjectFields, SentFields
    <2> HIDE DEF x
    <2> QED
      BY <1>0, <1>2, <2>1, <2>2, <2>3, <2>4, <2>5
         DEF ObjectSent, Merge, SameSpec, SameConditions
  <1>3. CASE PatchStatus(p)
    <2> DEFINE x == Observing(api[p], obj[p])
    <2>1. pc[p] = "patchStatus" /\ pc'[p] = "patched"
      BY <1>3 DEF PatchStatus, TypeOK
    <2>2. api'[p] = api[p] \/ api'[p] = x
      BY <1>0, <1>3 DEF PatchStatus, Request, Exists, TypeOK, Observing
    <2>3. /\ x.generation = api[p].generation /\ x.observed = obj[p].generation
          /\ SameSpec(api[p], x) /\ SameMetadata(api[p], x) /\ SameConditions(api[p], x)
      <3>1. SameConditions(api[p], x)
        BY <1>0, SentFields
      <3> QED
        BY <1>0, <3>1, StatusFields
    <2> HIDE DEF x
    <2> QED
      BY <1>3, <2>1, <2>2, <2>3 DEF StatusSent, SameSpec, SameMetadata, SameConditions
  <1> QED
    BY <1>1, <1>2, <1>3

\* One step of the stored object.
LEMMA StoredEffect ==
    ASSUME TypeOK, BudgetLeft, [Next]_vars, NEW p \in Proxy, Exists(p), Exists(p)'
    PROVE  \/ api'[p] = api[p]
           \/ OwnerWrote(p) \/ ConditionsSent(p) \/ ObjectSent(p) \/ StatusSent(p)
  <1>1. CASE Owner(p)
    <2>0. api[p] \in HRP
      BY DEF Exists, TypeOK
    <2>1. ASSUME NEW content \in Content, NEW keep \in KeepHistory, UpdateProxy(p, content, keep)
          PROVE  OwnerWrote(p)
      <3>1. api'[p] = Revised(api[p], content, keep)
        BY <2>1 DEF UpdateProxy, Revised, TypeOK
      <3>2. keep \in BOOLEAN
        BY ConstantsAssumption
      <3> QED
        BY <1>1, <2>0, <3>1, <3>2, OwnerFields DEF OwnerWrote
    <2>2. CASE DeleteProxy(p)
      <3>1. api'[p] = Marked(api[p])
        BY <2>2 DEF DeleteProxy, Marked, TypeOK, Exists, Stored
      <3>2. api[p].content \in Content /\ TRUE \in BOOLEAN
        BY <2>0 DEF HRP
      <3> QED
        BY <1>1, <2>0, <3>1, <3>2, OwnerFields DEF OwnerWrote
    <2> QED
      BY <1>1, <2>1, <2>2 DEF Owner, CreateProxy
  <1>2. CASE PatchConditions(p) \/ PatchObject(p) \/ PatchStatus(p)
    BY <1>2, RequestEffect
  <1>3. CASE \E q \in Proxy : WorkerStep(q) /\ (q # p \/ api' = api)
    BY <1>3, CallFrame
  <1>4. CASE \E q \in Proxy : Owner(q) /\ q # p
    BY <1>4, OwnerEffect
  <1>5. CASE \/ Crash \/ UNCHANGED vars \/ \E q \in Proxy : CacheSync(q)
             \/ \E c \in Cluster : ClusterReady(c) \/ ClusterGone(c)
    BY <1>5 DEF Crash, vars, CacheSync, ClusterReady, ClusterGone
  <1> QED
    BY <1>1, <1>2, <1>3, <1>4, <1>5, QuietSteps DEF Next

\* An object that appears says nothing.
LEMMA NewSaysNothing ==
    ASSUME TypeOK, [Next]_vars, NEW p \in Proxy, ~Exists(p), Exists(p)'
    PROVE  api'[p].releaseReady = None
  <1>1. PICK q \in Proxy : Owner(q) \/ ConditionsWritten(q) \/ ObjectWritten(q) \/ StatusWritten(q)
    BY ApiEffect DEF Exists
  <1>2. q = p /\ Owner(q)
    <2>1. Owner(q) => q = p
      BY OwnerEffect DEF Exists
    <2> QED
      BY <1>1, <2>1 DEF Exists, ConditionsWritten, ObjectWritten, StatusWritten, TypeOK
  <1>3. PICK c \in Cluster, n \in SpecName, content \in Content, keep \in KeepHistory :
            CreateProxy(p, c, n, content, keep)
    BY <1>2 DEF Owner, UpdateProxy, DeleteProxy
  <1> QED
    BY <1>3 DEF CreateProxy, TypeOK

\* A finalizer is dropped with the object only.
LEMMA FinalizerKept ==
    ASSUME TypeOK, ProxyInv, BudgetLeft, [Next]_vars, NEW p \in Proxy, Exists(p), Exists(p)',
           api[p].finalizer
    PROVE  api'[p].finalizer
  <1>1. CASE ObjectSent(p)
    <2>1. Running(p) /\ api[p] \in HRP /\ before[p] \in HRP /\ obj[p] \in HRP
      BY <1>1 DEF ObjectSent, Running, TypeOK, Exists
    <2>2. SUFFICES ASSUME ~obj[p].finalizer, before[p].finalizer
                   PROVE  FALSE
      BY <1>1, <2>1 DEF ObjectSent, Merge, HRP
    <2>3. obj[p].deleting
      BY <2>1, <2>2 DEF ProxyInv, WorkerInBranch
    <2>4. api[p].deleting
      BY <2>1, <2>3 DEF ProxyInv, DeletionInOrder
    <2> DEFINE x == PatchedObject(api[p], before[p], obj[p])
    <2>5. x.deleting = api[p].deleting /\ x.finalizer = obj[p].finalizer
      BY <2>1, <2>2, PatchedObjectFields DEF Merge
    <2>6. api'[p] = Stored(x)
      <3>1. ~UseFault("api")
        BY DEF BudgetLeft, UseFault
      <3> QED
        BY <1>1, <2>2, <3>1 DEF ObjectSent, PatchObject, Request, TypeOK
    <2> HIDE DEF x
    <2> QED
      BY <2>2, <2>4, <2>5, <2>6 DEF Stored, Exists
  <1> QED
    BY <1>1, StoredEffect DEF OwnerWrote, ConditionsSent, StatusSent

-----------------------------------------------------------------------------
(* What a step does to a worker.                                           *)

\* Besides its conditions, does the worker keep the object as it is?
SameObject(o, q) == o.content = q.content /\ o.finalizer = q.finalizer

AtPatch(p, caller) == pc[p] = "patchConditions" /\ call[p] = caller

\* Steps of a worker that is not at a patch.  It goes on,
Continues(p) ==
    /\ pc'[p] \notin PatchSteps \union {"idle", "examine"}
    /\ SameObject(obj[p], obj'[p]) /\ obj'[p].releaseReady = obj[p].releaseReady
    /\ pc'[p] \in DeleteBranch => pc[p] \in DeleteBranch \union {"examine"}

\* adds the finalizer,
Ensures(p) ==
    /\ pc[p] = "examine" /\ ~obj[p].deleting /\ ~obj[p].finalizer
    /\ AtPatch(p, "ensureFinalizer")'
    /\ obj'[p].content = obj[p].content /\ SameConditions(obj[p], obj'[p])

\* takes it away,
GivesUp(p) ==
    /\ pc[p] \in DeleteBranch
    /\ AtPatch(p, "removeFinalizer")'
    /\ obj'[p].content = obj[p].content /\ ~obj'[p].finalizer
    /\ \/ obj'[p].releaseReady = "HelmReleaseDeleted"
       \/ obj'[p].releaseReady = obj[p].releaseReady /\ ~Up(obj[p])

\* has no success to report,
Fails(p) ==
    /\ AtPatch(p, "deferred")'
    /\ SameObject(obj[p], obj'[p])
    /\ \/ obj'[p].releaseReady # "Ready"
       \/ /\ obj'[p].releaseReady = obj[p].releaseReady
          /\ obj'[p].releaseName = obj[p].releaseName
          /\ obj'[p].clusterAvailable # "Available"

\* or has one.
Succeeds(p) ==
    /\ pc[p] \in {"upgrade", "helmRunning"}
    /\ AtPatch(p, "deferred")'
    /\ SameObject(obj[p], obj'[p])
    /\ Deployed(obj[p])'

Works(p) ==
    /\ pc[p] \notin PatchSteps \union {"idle"}
    /\ api' = api
    /\ before' = before
    /\ clusters' = clusters
    /\ Continues(p) \/ Ensures(p) \/ GivesUp(p) \/ Fails(p) \/ Succeeds(p)

\* The fields of the worker's object.
LEMMA ObjFields ==
    ASSUME NEW o \in HRP
    PROVE  /\ \A r : LET x == [o EXCEPT !.clusterAvailable = r] IN
                     /\ SameObject(o, x) /\ x.releaseReady = o.releaseReady
                     /\ x.releaseName = o.releaseName /\ x.clusterAvailable = r
           /\ \A r : LET x == [o EXCEPT !.releaseReady = r] IN
                     SameObject(o, x) /\ x.releaseReady = r
           /\ \A r : LET x == [o EXCEPT !.generated = r] IN
                     SameObject(o, x) /\ x.releaseReady = o.releaseReady
           /\ \A r : LET x == [o EXCEPT !.finalizer = r] IN
                     x.content = o.content /\ SameConditions(o, x) /\ x.finalizer = r
           /\ \A r : LET x == [[o EXCEPT !.releaseReady = r] EXCEPT !.finalizer = FALSE] IN
                     x.content = o.content /\ x.releaseReady = r /\ ~x.finalizer
  BY DEF HRP, SameObject, SameConditions

\* A patch and a move, seen from the worker.
LEMMA WorkerMove ==
    ASSUME TypeOK, NEW p \in Proxy
    PROVE  /\ \A o, k : Patch(p, o, k) => AtPatch(p, k)' /\ obj'[p] = o
           /\ \A o, s : Goto(p, s, o) => pc'[p] = s /\ obj'[p] = o
  BY DEF TypeOK, Patch, Goto, AtPatch

\* The ways to end without success.
LEMMA FailsBy ==
    ASSUME TypeOK, NEW p \in Proxy, obj[p] \in HRP
    PROVE  /\ \A r : r # "Available" /\ Patch(p, [obj[p] EXCEPT !.clusterAvailable = r], "deferred")
                       => Fails(p)
           /\ \A r : r # "Ready" /\ Patch(p, [obj[p] EXCEPT !.releaseReady = r], "deferred")
                       => Fails(p)
           /\ InstallOrUpgradeFailed(p) => Fails(p)
           /\ DeletionFailed(p) => Fails(p)
  <1>1. ASSUME NEW r, r # "Available", Patch(p, [obj[p] EXCEPT !.clusterAvailable = r], "deferred")
        PROVE  Fails(p)
    <2> DEFINE x == [obj[p] EXCEPT !.clusterAvailable = r]
    <2>1. /\ SameObject(obj[p], x) /\ x.releaseReady = obj[p].releaseReady
          /\ x.releaseName = obj[p].releaseName /\ x.clusterAvailable = r
      BY ObjFields
    <2>2. AtPatch(p, "deferred")' /\ obj'[p] = x
      BY <1>1, WorkerMove
    <2> HIDE DEF x
    <2> QED
      BY <1>1, <2>1, <2>2 DEF Fails
  <1>2. ASSUME NEW r, r # "Ready", Patch(p, [obj[p] EXCEPT !.releaseReady = r], "deferred")
        PROVE  Fails(p)
    <2> DEFINE x == [obj[p] EXCEPT !.releaseReady = r]
    <2>1. SameObject(obj[p], x) /\ x.releaseReady = r
      BY ObjFields
    <2>2. AtPatch(p, "deferred")' /\ obj'[p] = x
      BY <1>2, WorkerMove
    <2> HIDE DEF x
    <2> QED
      BY <1>2, <2>1, <2>2 DEF Fails
  <1> QED
    BY <1>1, <1>2 DEF InstallOrUpgradeFailed, DeletionFailed

\* The ways to give up.
LEMMA GivesUpBy ==
    ASSUME TypeOK, NEW p \in Proxy, obj[p] \in HRP, pc[p] \in DeleteBranch
    PROVE  /\ RemoveFinalizer(p, obj[p]) /\ ~Up(obj[p]) => GivesUp(p)
           /\ RemoveFinalizer(p, [obj[p] EXCEPT !.releaseReady = "HelmReleaseDeleted"])
                => GivesUp(p)
  <1>1. ASSUME RemoveFinalizer(p, obj[p]), ~Up(obj[p])
        PROVE  GivesUp(p)
    <2> DEFINE x == [obj[p] EXCEPT !.finalizer = FALSE]
    <2>1. x.content = obj[p].content /\ SameConditions(obj[p], x) /\ ~x.finalizer
      BY ObjFields
    <2>2. AtPatch(p, "removeFinalizer")' /\ obj'[p] = x
      BY <1>1, WorkerMove DEF RemoveFinalizer
    <2> HIDE DEF x
    <2> QED
      BY <1>1, <2>1, <2>2 DEF GivesUp, SameConditions
  <1>2. ASSUME RemoveFinalizer(p, [obj[p] EXCEPT !.releaseReady = "HelmReleaseDeleted"])
        PROVE  GivesUp(p)
    <2> DEFINE x == [[obj[p] EXCEPT !.releaseReady = "HelmReleaseDeleted"]
                         EXCEPT !.finalizer = FALSE]
    <2>1. x.content = obj[p].content /\ x.releaseReady = "HelmReleaseDeleted" /\ ~x.finalizer
      BY ObjFields
    <2>2. AtPatch(p, "removeFinalizer")' /\ obj'[p] = x
      BY <1>2, WorkerMove DEF RemoveFinalizer
    <2> HIDE DEF x
    <2> QED
      BY <2>1, <2>2 DEF GivesUp
  <1> QED
    BY <1>1, <1>2

\* What the object becomes when Helm has returned a release.
LEMMA ReturnedBy ==
    ASSUME TypeOK, NEW p \in Proxy, obj[p] \in HRP, NEW n \in Name, NEW status, NEW error,
           InstallOrUpgradeReturned(p, n, status, error)
    PROVE  /\ AtPatch(p, "deferred")'
           /\ SameObject(obj[p], obj'[p])
           /\ obj'[p].releaseName = n
           /\ obj'[p].cluster = obj[p].cluster
           /\ \/ status = "deployed"
              \/ obj'[p].releaseReady # "Ready"
              \/ /\ ~IsPending(status) /\ status # "failed" /\ ~error
                 /\ obj'[p].releaseReady = obj[p].releaseReady
  <1> DEFINE o == [obj[p] EXCEPT !.releaseName = n]
  <1>1. /\ o \in HRP /\ o.releaseName = n /\ SameObject(obj[p], o) /\ o.cluster = obj[p].cluster
        /\ o.releaseReady = obj[p].releaseReady
    <2>1. o \in HRP
      BY FieldTypes
    <2> QED
      BY <2>1 DEF HRP, SameObject
  <1>2. AtPatch(p, "deferred")' /\ obj'[p] = WithStatus(o, status, error)
    BY WorkerMove DEF InstallOrUpgradeReturned
  <1> HIDE DEF o
  <1>3. CASE status = "deployed"
    <2> DEFINE x == [o EXCEPT !.releaseReady = "Ready", !.installed = TRUE]
    <2>1. obj'[p] = x
      BY <1>2, <1>3 DEF WithStatus
    <2>2. SameObject(o, x) /\ x.releaseName = o.releaseName /\ x.cluster = o.cluster
      BY <1>1 DEF HRP, SameObject
    <2> HIDE DEF x
    <2> QED
      BY <1>1, <1>2, <1>3, <2>1, <2>2 DEF SameObject
  <1>4. ASSUME NEW r \in {"HelmReleasePending", "HelmInstallOrUpgradeFailed"},
               obj'[p] = [o EXCEPT !.releaseReady = r]
        PROVE  /\ SameObject(obj[p], obj'[p])
               /\ obj'[p].releaseName = n /\ obj'[p].cluster = obj[p].cluster
               /\ obj'[p].releaseReady # "Ready"
    <2> DEFINE x == [o EXCEPT !.releaseReady = r]
    <2>1. /\ SameObject(o, x) /\ x.releaseName = o.releaseName /\ x.cluster = o.cluster
          /\ x.releaseReady = r
      BY <1>1 DEF HRP, SameObject
    <2>2. obj'[p] = x
      BY <1>4
    <2> HIDE DEF x
    <2> QED
      BY <1>1, <2>1, <2>2 DEF SameObject
  <1>5. CASE status # "deployed" /\ IsPending(status)
    BY <1>2, <1>4, <1>5 DEF WithStatus
  <1>6. CASE status # "deployed" /\ ~IsPending(status) /\ (error \/ status = "failed")
    BY <1>2, <1>4, <1>6 DEF WithStatus
  <1>7. CASE status # "deployed" /\ ~IsPending(status) /\ ~(error \/ status = "failed")
    BY <1>1, <1>2, <1>7 DEF WithStatus
  <1> QED
    BY <1>2, <1>3, <1>5, <1>6, <1>7

\* Reading the object and looking up its Cluster.
LEMMA QuietWorks ==
    ASSUME TypeOK, NEW p \in Proxy, Examine(p) \/ GetCluster(p) \/ DeleteGetCluster(p)
    PROVE  Works(p)
  <1>0. /\ obj[p] \in HRP /\ obj[p].cluster \in Cluster
        /\ pc[p] \notin PatchSteps \union {"idle"}
        /\ api' = api /\ before' = before /\ clusters' = clusters
    <2>1. pc[p] # "idle" /\ pc[p] \notin PatchSteps
      BY DEF Examine, GetCluster, DeleteGetCluster, PatchSteps
    <2>2. obj[p] \in HRP
      BY <2>1 DEF TypeOK
    <2> QED
      BY <2>1, <2>2 DEF Examine, GetCluster, DeleteGetCluster, HRP
  <1>1. ASSUME NEW s, s \notin PatchSteps \union {"idle", "examine"},
               s \in DeleteBranch => pc[p] \in DeleteBranch \union {"examine"},
               \/ Goto(p, s, obj[p])
               \/ Goto(p, s, [obj[p] EXCEPT !.clusterAvailable = "Available"])
        PROVE  Continues(p)
    <2> DEFINE x == [obj[p] EXCEPT !.clusterAvailable = "Available"]
    <2>1. SameObject(obj[p], x) /\ x.releaseReady = obj[p].releaseReady
      BY <1>0, ObjFields
    <2>2. pc'[p] = s /\ obj'[p] \in {obj[p], x}
      BY <1>1, WorkerMove
    <2> HIDE DEF x
    <2> QED
      BY <1>1, <2>1, <2>2 DEF Continues, SameObject
  <1>2. CASE Examine(p)
    <2>1. \/ Goto(p, "getCluster", obj[p])
          \/ /\ ~obj[p].deleting /\ ~obj[p].finalizer
             /\ Patch(p, [obj[p] EXCEPT !.finalizer = TRUE], "ensureFinalizer")
          \/ Goto(p, "deleteGetCluster", obj[p])
      BY <1>2 DEF Examine
    <2>2. pc[p] = "examine"
      BY <1>2 DEF Examine
    <2>3. Patch(p, [obj[p] EXCEPT !.finalizer = TRUE], "ensureFinalizer")
          /\ ~obj[p].deleting /\ ~obj[p].finalizer => Ensures(p)
      <3> DEFINE x == [obj[p] EXCEPT !.finalizer = TRUE]
      <3>1. x.content = obj[p].content /\ SameConditions(obj[p], x)
        BY <1>0, ObjFields
      <3>2. Patch(p, x, "ensureFinalizer") => AtPatch(p, "ensureFinalizer")' /\ obj'[p] = x
        BY WorkerMove
      <3> HIDE DEF x
      <3> QED
        BY <2>2, <3>1, <3>2 DEF Ensures, x
    <2>4. /\ Goto(p, "getCluster", obj[p]) => Continues(p)
          /\ Goto(p, "deleteGetCluster", obj[p]) => Continues(p)
      BY <1>1, <2>2 DEF PatchSteps, DeleteBranch
    <2> QED
      BY <1>0, <2>1, <2>3, <2>4 DEF Works
  <1>3. CASE GetCluster(p)
    <2>1. \/ \E r \in ClusterAvailableReason \ {"Available"} :
                 Patch(p, [obj[p] EXCEPT !.clusterAvailable = r], "deferred")
          \/ Goto(p, "reconcileNormal", [obj[p] EXCEPT !.clusterAvailable = "Available"])
      BY <1>3 DEF GetCluster, SecretFailed, ClusterAvailableReason
    <2>2. Goto(p, "reconcileNormal", [obj[p] EXCEPT !.clusterAvailable = "Available"])
            => Continues(p)
      BY <1>1 DEF PatchSteps, DeleteBranch
    <2> QED
      BY <1>0, <2>1, <2>2, FailsBy DEF Works
  <1>4. CASE DeleteGetCluster(p)
    <2>0. pc[p] \in DeleteBranch
      BY <1>4 DEF DeleteGetCluster, DeleteBranch
    <2>1. \/ \E r \in ClusterAvailableReason \ {"Available"} :
                 Patch(p, [obj[p] EXCEPT !.clusterAvailable = r], "deferred")
          \/ RemoveFinalizer(p, obj[p]) /\ ~Up(obj[p])
          \/ Goto(p, "reconcileDelete", [obj[p] EXCEPT !.clusterAvailable = "Available"])
      BY <1>4 DEF DeleteGetCluster, ClusterAvailableReason, Up
    <2>2. Goto(p, "reconcileDelete", [obj[p] EXCEPT !.clusterAvailable = "Available"])
            => Continues(p)
      BY <1>1, <2>0 DEF PatchSteps, DeleteBranch
    <2> QED
      BY <1>0, <2>0, <2>1, <2>2, FailsBy, GivesUpBy DEF Works
  <1> QED
    BY <1>2, <1>3, <1>4

\* Deleting.
LEMMA DeleteWorks ==
    ASSUME TypeOK, ReconcileStrategy = "Continuous", NEW p \in Proxy,
           ReconcileDelete(p) \/ Uninstall(p) \/ UninstallEnds(p)
    PROVE  Works(p)
  <1>0. /\ obj[p] \in HRP /\ pc[p] \in DeleteBranch
        /\ pc[p] \notin PatchSteps \union {"idle"}
        /\ api' = api /\ before' = before /\ clusters' = clusters
    <2>1. pc[p] \in DeleteBranch /\ pc[p] # "idle" /\ pc[p] \notin PatchSteps
      BY DEF ReconcileDelete, Uninstall, UninstallEnds, PatchSteps, DeleteBranch
    <2>2. obj[p] \in HRP
      BY <2>1 DEF TypeOK
    <2> QED
      BY <2>1, <2>2 DEF ReconcileDelete, Uninstall, UninstallEnds
  <1>1. ASSUME NEW s \in {"uninstall", "helmUninstalling"}, Goto(p, s, obj[p])
        PROVE  Continues(p)
    BY <1>0, <1>1, WorkerMove DEF Continues, SameObject, PatchSteps, DeleteBranch
  <1>2. CASE ReconcileDelete(p)
    BY <1>0, <1>1, <1>2, FailsBy, GivesUpBy DEF Works, ReconcileDelete
  <1>3. CASE Uninstall(p)
    BY <1>0, <1>1, <1>3, FailsBy, GivesUpBy DEF Works, Uninstall
  <1>4. CASE UninstallEnds(p)
    BY <1>0, <1>4, FailsBy, GivesUpBy DEF Works, UninstallEnds
  <1> QED
    BY <1>2, <1>3, <1>4

\* Installing and upgrading: what a worker reports as Ready is deployed.
LEMMA HelmWorksOut ==
    ASSUME TypeOK, ProxyInv, CopyCurrent, ConditionsInOrder, HelmInOrder, ReleaseKept,
           ReconcileStrategy = "Continuous", NEW p \in Proxy,
           ReconcileNormal(p) \/ Install(p) \/ Upgrade(p) \/ HelmEnds(p)
    PROVE  Works(p)
  <1>0. /\ obj[p] \in HRP /\ obj[p].cluster \in Cluster /\ pc[p] \in NormalBranch
        /\ pc[p] \notin PatchSteps \union {"idle"}
        /\ api' = api /\ before' = before /\ clusters' = clusters
    <2>1. pc[p] \in NormalBranch /\ pc[p] # "idle" /\ pc[p] \notin PatchSteps
      BY DEF ReconcileNormal, Install, Upgrade, HelmEnds, PatchSteps, NormalBranch
    <2>2. obj[p] \in HRP
      BY <2>1 DEF TypeOK
    <2> QED
      BY <2>1, <2>2 DEF ReconcileNormal, Install, Upgrade, HelmEnds, HRP
  <1>1. ASSUME pc'[p] \in {"install", "upgrade", "helmRunning"},
               \/ obj'[p] = obj[p]
               \/ \E r : obj'[p] = [obj[p] EXCEPT !.generated = r]
        PROVE  Continues(p)
    <2>1. SameObject(obj[p], obj'[p]) /\ obj'[p].releaseReady = obj[p].releaseReady
      <3>1. ASSUME NEW r, obj'[p] = [obj[p] EXCEPT !.generated = r]
            PROVE  SameObject(obj[p], obj'[p]) /\ obj'[p].releaseReady = obj[p].releaseReady
        BY <1>0, <3>1, ObjFields
      <3> QED
        BY <1>1, <3>1 DEF SameObject
    <2> QED
      BY <1>1, <2>1 DEF Continues, PatchSteps, DeleteBranch
  <1>2. CASE ReconcileNormal(p)
    <2> DEFINE o == [obj[p] EXCEPT !.generated = @ \/ obj[p].releaseName = None]
    <2>1. \/ Goto(p, "install", o)
          \/ InstallOrUpgradeFailed(p)
          \/ FoundRelease(p, obj[p].cluster, obj[p].releaseName)
      BY <1>2 DEF ReconcileNormal
    <2>2. Goto(p, "install", o) => Continues(p)
      <3>1. \E r : o = [obj[p] EXCEPT !.generated = r]
        OBVIOUS
      <3> HIDE DEF o
      <3> QED
        BY <1>1, <3>1, WorkerMove
    <2>3. FoundRelease(p, obj[p].cluster, obj[p].releaseName) => Continues(p)
      BY <1>1 DEF FoundRelease, TypeOK
    <2> QED
      BY <1>0, <2>1, <2>2, <2>3, FailsBy DEF Works
  <1>3. ASSUME NEW n \in Name, InstallOrUpgradeReturned(p, n, "failed", TRUE)
        PROVE  Fails(p)
    BY <1>0, <1>3, ReturnedBy DEF Fails
  <1>4. CASE Install(p)
    <2>1. \A n \in IF obj[p].releaseName = None THEN FreshName(obj[p].cluster)
                                                ELSE {obj[p].releaseName} : n \in Name
      BY <1>0 DEF FreshName, Name, HRP
    <2>2. pc' = [pc EXCEPT ![p] = "helmRunning"] /\ obj' = obj => Continues(p)
      BY <1>1 DEF TypeOK
    <2>3. Fails(p) \/ Continues(p)
      BY <1>0, <1>3, <1>4, <2>1, <2>2, FailsBy DEF Install
    <2> QED
      BY <1>0, <2>3 DEF Works
  <1>5. CASE Upgrade(p)
    <2> DEFINE c == obj[p].cluster
               n == obj[p].releaseName
    <2>1. n \in Name /\ pc[p] = "upgrade" /\ Running(p)
      BY <1>5 DEF Upgrade, TypeOK, Running
    <2>2. CASE InstallOrUpgradeFailed(p)
      BY <1>0, <2>2, FailsBy DEF Works
    <2>3. CASE pc' = [pc EXCEPT ![p] = "helmRunning"] /\ obj' = obj
      BY <1>0, <1>1, <2>3 DEF Works, TypeOK
    <2>4. CASE InstallOrUpgradeReturned(p, n, "pending-upgrade", TRUE)
      <3>1. Fails(p)
        BY <1>0, <2>1, <2>4, ReturnedBy DEF Fails, IsPending
      <3> QED
        BY <1>0, <3>1 DEF Works
    <2>5. CASE /\ clusters[c] = "ready" /\ releases' = releases
               /\ ~shouldUpgradeHelmRelease(existing[p], obj[p].content)
               /\ InstallOrUpgradeReturned(p, n, existing[p].status, FALSE)
      <3>1. Up(obj[p]) /\ existing[p] \in Release
        BY <2>5 DEF Up, TypeOK
      <3>2. \/ existing[p] = releases[c][n]
            \/ IsPending(existing[p].status)
        BY <2>1, <3>1 DEF HelmInOrder
      <3>3. existing[p].content = obj[p].content /\ existing[p].status # "failed"
        BY <2>5 DEF shouldUpgradeHelmRelease
      <3>4. /\ AtPatch(p, "deferred")' /\ SameObject(obj[p], obj'[p])
            /\ obj'[p].releaseName = n /\ obj'[p].cluster = c
        BY <1>0, <2>1, <2>5, ReturnedBy
      <3>5. CASE existing[p].status = "deployed"
        <4>1. releases[c][n] = existing[p]
          BY <3>2, <3>5 DEF IsPending
        <4>2. releases[c][n] = [status |-> "deployed", content |-> obj'[p].content]
          BY <3>1, <3>3, <3>4, <3>5, <4>1 DEF Release, SameObject
        <4>3. Deployed(obj[p])'
          BY <2>1, <2>5, <3>4, <4>2, ConstantsAssumption DEF Deployed
        <4> QED
          BY <1>0, <2>1, <3>4, <4>3 DEF Works, Succeeds
      <3>6. CASE existing[p].status # "deployed"
        <4>1. SUFFICES obj'[p].releaseReady # "Ready"
          BY <1>0, <3>4 DEF Works, Fails
        <4>2. SUFFICES ASSUME ~IsPending(existing[p].status),
                              obj'[p].releaseReady = obj[p].releaseReady
                       PROVE  obj[p].releaseReady # "Ready"
          BY <1>0, <2>1, <2>5, <3>6, ReturnedBy
        <4>3. releases[c][n].status \in TakenDown
          BY <3>1, <3>2, <3>3, <3>6, <4>2 DEF Release, Status, IsPending, TakenDown
        <4>4. /\ Exists(p) /\ ~obj[p].deleting /\ ~Deferred(p) /\ ~Sent(p) /\ Unsent(p)
              /\ api[p].cluster = c
          BY <1>0, <2>1 DEF ProxyInv, WorkerInBranch, CopiesAgree, Agree, Holds, Deferred, Sent,
             Unsent
        <4>5. api[p].releaseName = n /\ Up(api[p])
          BY <2>1, <3>1, <4>4 DEF CopyCurrent, SameRelease, Up
        <4>6. n # None
          BY <2>1, ConstantsAssumption
        <4>7. api[p].releaseReady # "Ready"
          BY <2>1, <4>3, <4>4, <4>5, <4>6 DEF ReleaseKept
        <4> QED
          BY <2>1, <4>4, <4>7 DEF ConditionsInOrder
      <3> QED
        BY <3>5, <3>6
    <2> QED
      BY <1>5, <2>2, <2>3, <2>4, <2>5 DEF Upgrade, HelmWorks
  <1>6. CASE HelmEnds(p)
    <2> DEFINE c == obj[p].cluster
               n == target[p]
    <2>1. n \in Name /\ pc[p] = "helmRunning" /\ Running(p)
      BY <1>6 DEF HelmEnds, TypeOK, Running
    <2>2. CASE InstallOrUpgradeReturned(p, n, "failed", TRUE)
      BY <1>0, <1>3, <2>1, <2>2 DEF Works
    <2>3. CASE /\ clusters[c] = "ready"
               /\ SetRelease(c, n, Record(releases[c][n], "deployed", obj[p].content))
               /\ InstallOrUpgradeReturned(p, n, "deployed", FALSE)
      <3>1. IsPending(releases[c][n].status)
        BY <2>1, <2>3 DEF HelmInOrder, Up
      <3>2. releases[c][n] # NoRelease
        BY <3>1 DEF IsPending, NoRelease
      <3>3. releases'[c][n] = [status |-> "deployed", content |-> obj[p].content]
        BY <1>0, <2>1, <2>3, <3>2, SetReleaseEffect DEF Record
      <3>4. /\ AtPatch(p, "deferred")' /\ SameObject(obj[p], obj'[p])
            /\ obj'[p].releaseName = n /\ obj'[p].cluster = c
        BY <1>0, <2>1, <2>3, ReturnedBy
      <3>5. Deployed(obj[p])'
        BY <2>1, <3>3, <3>4, ConstantsAssumption DEF Deployed, SameObject
      <3> QED
        BY <1>0, <2>1, <3>4, <3>5 DEF Works, Succeeds
    <2> QED
      BY <1>6, <2>2, <2>3 DEF HelmEnds, HelmWorks
  <1> QED
    BY <1>2, <1>4, <1>5, <1>6

\* The worker of p starts with what is stored,
Starts(p) ==
    /\ pc[p] = "idle" /\ Running(p)'
    /\ Exists(p) /\ api' = api /\ before'[p] = api[p]
    /\ SameObject(api[p], obj'[p]) /\ obj'[p].clusterAvailable = api[p].clusterAvailable
    /\ \/ pc'[p] = "examine" /\ obj'[p].releaseReady = api[p].releaseReady
       \/ /\ AtPatch(p, "initializeConditions")'
          /\ obj'[p].releaseReady # "Ready" /\ api[p].releaseReady # "Ready"

\* sends a request,
Sends(p) ==
    /\ PatchConditions(p) \/ PatchObject(p) \/ PatchStatus(p)
    /\ <<pc[p], pc'[p]>> \in {<<"patchConditions", "patchObject">>,
                              <<"patchObject", "patchStatus">>, <<"patchStatus", "patched">>}
    /\ obj'[p] = obj[p] /\ before'[p] = before[p] /\ call'[p] = call[p]

\* returns from a patch,
Returns(p) ==
    /\ pc[p] = "patched"
    /\ api' = api
    /\ obj'[p] = obj[p] /\ before'[p] = before[p]
    /\ \/ call[p] = "initializeConditions" /\ pc'[p] = "examine"
       \/ call[p] = "ensureFinalizer" /\ pc'[p] = "getCluster"
       \/ call[p] \in {"ensureFinalizer", "removeFinalizer"} /\ AtPatch(p, "deferred")'

\* or leaves everything to others.
Stays(p) ==
    /\ ~WorkerStep(p)
    /\ pc'[p] = pc[p] /\ call'[p] = call[p] /\ obj'[p] = obj[p] /\ before'[p] = before[p]
    /\ existing'[p] = existing[p] /\ target'[p] = target[p]

\* The invariant, without what is proved for any lag and for lost requests.
StatusInv ==
    /\ GenerationsInOrder /\ ConditionsInOrder /\ ReadyHasFinalizer /\ DeletesWhatExists
    /\ HelmInOrder /\ ReportTrue /\ ReleaseKept /\ StatusTrue

\* What is.
BaseInv ==
    /\ TypeOK /\ ProxyInv /\ CopyInv
    /\ CopyCurrent /\ NamesApart /\ BudgetLeft

\* One step of a worker.
LEMMA WorkerChange ==
    ASSUME ~CacheLag, ReconcileStrategy = "Continuous", BaseInv, StatusInv, [Next]_vars,
           NEW p \in Proxy
    PROVE  \/ WorkerStep(p) /\ (Starts(p) \/ Works(p) \/ Sends(p) \/ Returns(p))
           \/ Ends(p) \/ Stays(p)
  <1>0. TypeOK /\ ProxyInv /\ CopyCurrent
    BY DEF BaseInv
  <1>1. CASE Reconcile(p)
    <2>1. /\ cache[p] \in HRP /\ cache[p] = api[p] /\ cache[p] # None /\ pc[p] = "idle"
          /\ api' = api /\ before'[p] = cache[p]
      BY <1>0, <1>1 DEF Reconcile, TypeOK
    <2> DEFINE x == [cache[p] EXCEPT !.releaseReady = "PreparingToHelmInstall"]
    <2>2. /\ SameObject(cache[p], x) /\ x.releaseReady = "PreparingToHelmInstall"
          /\ x.clusterAvailable = cache[p].clusterAvailable
      BY <2>1 DEF HRP, SameObject
    <2>3. \/ pc'[p] = "examine" /\ obj'[p] = cache[p]
          \/ /\ AtPatch(p, "initializeConditions")' /\ obj'[p] = x
             /\ cache[p].releaseReady = None
      BY <1>0, <1>1, WorkerMove DEF Reconcile, HasConditions
    <2>4. None # "Ready"
      BY NoneIsNoReason DEF HelmReleaseReadyReason
    <2> HIDE DEF x
    <2> QED
      BY <1>1, <2>1, <2>2, <2>3, <2>4 DEF Starts, SameObject, Exists, Running, AtPatch, WorkerStep
  <1>2. CASE Examine(p) \/ GetCluster(p) \/ DeleteGetCluster(p)
    BY <1>0, <1>2, QuietWorks DEF WorkerStep
  <1>3. CASE ReconcileDelete(p) \/ Uninstall(p) \/ UninstallEnds(p)
    BY <1>0, <1>3, DeleteWorks DEF WorkerStep
  <1>4. CASE ReconcileNormal(p) \/ Install(p) \/ Upgrade(p) \/ HelmEnds(p)
    BY <1>0, <1>4, HelmWorksOut DEF StatusInv, WorkerStep
  <1>5. CASE PatchConditions(p) \/ PatchObject(p) \/ PatchStatus(p)
    BY <1>0, <1>5 DEF Sends, PatchConditions, PatchObject, PatchStatus, TypeOK, WorkerStep
  <1>6. CASE PatchReturns(p)
    <2>1. pc[p] = "patched" /\ api' = api /\ target[p] = None
      BY <1>0, <1>6 DEF PatchReturns, CopyCurrent
    <2>2. CASE Finish(p)
      BY <1>0, <2>1, <2>2 DEF Finish, Ends, TypeOK
    <2>3. CASE ~Finish(p)
      <3>1. /\ before' = before
            /\ \/ call[p] = "initializeConditions" /\ Goto(p, "examine", obj[p])
               \/ call[p] = "ensureFinalizer" /\ Goto(p, "getCluster", obj[p])
               \/ /\ call[p] \in {"ensureFinalizer", "removeFinalizer"}
                  /\ Patch(p, obj[p], "deferred")
        BY <1>6, <2>3 DEF PatchReturns
      <3> QED
        BY <1>0, <1>6, <2>1, <3>1, WorkerMove DEF Returns, WorkerStep
    <2> QED
      BY <2>2, <2>3
  <1>7. CASE ~WorkerStep(p) /\ \E q \in Proxy : WorkerStep(q)
    <2>1. PICK q \in Proxy : WorkerStep(q) /\ q # p
      BY <1>7
    <2>2. existing'[p] = existing[p]
      <3>1. CASE \/ Reconcile(q) \/ Examine(q) \/ GetCluster(q) \/ DeleteGetCluster(q)
                 \/ ReconcileDelete(q) \/ PatchReturns(q)
        BY <1>0, <2>1, <3>1 DEF Reconcile, Examine, GetCluster, DeleteGetCluster,
           ReconcileDelete, PatchReturns, Goto, Patch, RemoveFinalizer, Finish, TypeOK
      <3>2. CASE \/ ReconcileNormal(q) \/ Install(q) \/ Upgrade(q) \/ HelmEnds(q)
                 \/ Uninstall(q) \/ UninstallEnds(q)
        BY <1>0, <2>1, <3>2 DEF ReconcileNormal, Install, Upgrade, HelmEnds, Uninstall,
           UninstallEnds, FoundRelease, InstallOrUpgradeFailed, InstallOrUpgradeReturned,
           DeletionFailed, RemoveFinalizer, Goto, Patch, TypeOK
      <3>3. CASE PatchConditions(q) \/ PatchObject(q) \/ PatchStatus(q)
        BY <3>3 DEF PatchConditions, PatchObject, PatchStatus
      <3> QED
        BY <2>1, <3>1, <3>2, <3>3 DEF WorkerStep
    <2> QED
      BY <1>0, <1>7, <2>1, <2>2, WorkerFrame, CallFrame DEF Stays
  <1>8. CASE ~\E q \in Proxy : WorkerStep(q)
    <2>0. ASSUME \/ UNCHANGED vars
                 \/ \E q \in Proxy : CacheSync(q) \/ Owner(q)
                 \/ \E c \in Cluster : ClusterReady(c) \/ ClusterGone(c)
          PROVE  UNCHANGED locals
      BY <2>0 DEF vars, CacheSync, Owner, CreateProxy, UpdateProxy, DeleteProxy, ClusterReady,
         ClusterGone
    <2>1. Crash \/ UNCHANGED <<pc, call, obj, before, existing, target>>
      BY <1>8, <2>0 DEF Next, locals
    <2>2. Crash => Ends(p)
      BY DEF Crash, Ends
    <2> QED
      BY <1>8, <2>1, <2>2 DEF Stays
  <1> QED
    BY <1>1, <1>2, <1>3, <1>4, <1>5, <1>6, <1>7, <1>8 DEF WorkerStep

\* A worker that runs has started or goes on with the object it has read.
LEMMA GoesOnWith ==
    ASSUME ~CacheLag, ReconcileStrategy = "Continuous", BaseInv, StatusInv, [Next]_vars,
           NEW p \in Proxy, Running(p)'
    PROVE  \/ Starts(p)
           \/ /\ Running(p) /\ before'[p] = before[p] /\ obj'[p].content = obj[p].content
              /\ Exists(p)' => Exists(p)
  <1>1. TypeOK /\ CopyInv
    BY DEF BaseInv
  <1>2. Works(p) \/ Sends(p) \/ Returns(p) \/ Stays(p) =>
            Running(p) /\ before'[p] = before[p] /\ obj'[p].content = obj[p].content
    BY DEF Works, Continues, Ensures, GivesUp, Fails, Succeeds, SameObject, Sends, Returns,
           Stays, Running
  <1>3. Exists(p)' => Exists(p) \/ ~Running(p)
    BY <1>1, NewHasNoWorker
  <1> QED
    BY <1>2, <1>3, WorkerChange DEF Ends, Running

-----------------------------------------------------------------------------
(* The parts, one by one.                                                  *)

\* Requests and owners keep the generations in order.
LEMMA GenerationsKept ==
    ASSUME ~CacheLag, ReconcileStrategy = "Continuous", BaseInv, StatusInv, [Next]_vars
    PROVE  GenerationsInOrder'
  <1> SUFFICES ASSUME NEW p \in Proxy, Running(p)'
               PROVE  /\ obj'[p].content = before'[p].content
                      /\ before'[p].observed <= before'[p].generation
                      /\ Exists(p)' =>
                           /\ api'[p].observed \in {before'[p].observed, before'[p].generation}
                           /\ api'[p].generation = before'[p].generation =>
                                /\ api'[p].content = before'[p].content
                                /\ api'[p].deleting = before'[p].deleting
                                /\ api'[p].releaseName = before'[p].releaseName
    BY DEF GenerationsInOrder
  <1>0. TypeOK /\ CopyInv /\ BudgetLeft /\ GenerationsInOrder
    BY DEF BaseInv, StatusInv
  <1>1. CASE Starts(p)
    BY <1>0, <1>1 DEF Starts, SameObject, CopyInv, StoredIsNewest
  <1>2. CASE /\ Running(p) /\ before'[p] = before[p] /\ obj'[p].content = obj[p].content
             /\ Exists(p)' => Exists(p)
    <2>1. obj[p].content = before[p].content /\ before[p].observed <= before[p].generation
      BY <1>0, <1>2 DEF GenerationsInOrder
    <2>2. ASSUME Exists(p)'
          PROVE  /\ api'[p].observed \in {before[p].observed, before[p].generation}
                 /\ api'[p].generation = before[p].generation =>
                      /\ api'[p].content = before[p].content
                      /\ api'[p].deleting = before[p].deleting
                      /\ api'[p].releaseName = before[p].releaseName
      <3>1. /\ Exists(p) /\ api[p] \in HRP /\ before[p] \in HRP
            /\ api[p].observed \in {before[p].observed, before[p].generation}
            /\ api[p].generation = before[p].generation =>
                 /\ api[p].content = before[p].content
                 /\ api[p].deleting = before[p].deleting
                 /\ api[p].releaseName = before[p].releaseName
        BY <1>0, <1>2, <2>2 DEF GenerationsInOrder, Exists, TypeOK, Running
      <3>2. /\ before[p].generation <= api[p].generation /\ obj[p].generation = before[p].generation
            /\ api[p].generation \in Nat /\ before[p].generation \in Nat
        BY <1>0, <1>2, <3>1 DEF CopyInv, StoredIsNewest, WorkerOnlyAdds, Precedes, Grown, HRP
      <3>3. api[p].generation + 1 # before[p].generation
        BY <3>2
      <3>4. CASE OwnerWrote(p)
        BY <3>1, <3>3, <3>4 DEF OwnerWrote
      <3>5. CASE ConditionsSent(p)
        BY <3>1, <3>5 DEF ConditionsSent
      <3>6. CASE ObjectSent(p)
        BY <3>1, <3>3, <3>6 DEF ObjectSent
      <3>7. CASE StatusSent(p)
        BY <3>1, <3>2, <3>7 DEF StatusSent
      <3> QED
        BY <1>0, <2>2, <3>1, <3>4, <3>5, <3>6, <3>7, StoredEffect
    <2> QED
      BY <1>2, <2>1, <2>2
  <1> QED
    BY <1>1, <1>2, GoesOnWith

\* Only the worker that gives it up lets an object go.
LEMMA DeletesKept ==
    ASSUME ~CacheLag, ReconcileStrategy = "Continuous", BaseInv, ProxyInv', StatusInv,
           [Next]_vars
    PROVE  DeletesWhatExists'
  <1> SUFFICES ASSUME NEW p \in Proxy
               PROVE  /\ (Running(p) /\ obj[p].deleting => before[p].finalizer)'
                      /\ (Running(p) /\ obj[p].deleting /\ obj[p].finalizer => Exists(p))'
                      /\ (pc[p] \in DeleteBranch => obj[p].finalizer)'
                      /\ (pc[p] \in PatchSteps /\ call[p] = "removeFinalizer" =>
                            /\ obj[p].deleting /\ ~obj[p].finalizer
                            /\ pc[p] \in {"patchStatus", "patched"} => ~Exists(p))'
    BY DEF DeletesWhatExists
  <1>0. TypeOK /\ ProxyInv /\ CopyInv /\ BudgetLeft /\ DeletesWhatExists
    BY DEF BaseInv, StatusInv
  <1>1. CASE Ends(p)
    BY <1>1 DEF Ends, Running, DeleteBranch, PatchSteps
  <1>2. CASE Starts(p)
    <2>1. before'[p].deleting = obj'[p].deleting
      BY <1>2 DEF Starts, ProxyInv, CopiesAgree
    <2>2. (Running(p) /\ obj[p].deleting => before[p].finalizer)'
      BY <1>0, <1>2, <2>1 DEF Starts, ProxyInv, DeletingHasFinalizer
    <2> QED
      BY <1>2, <2>2 DEF Starts, AtPatch, Exists, DeleteBranch, PatchSteps
  <1>3. CASE Running(p) /\ Running(p)' /\ ~Starts(p)
    <2>0. before'[p] = before[p] /\ (Exists(p)' => Exists(p))
      BY <1>3, GoesOnWith
    <2>1. obj'[p].deleting = obj[p].deleting /\ obj[p].deleting = before[p].deleting
      BY <1>0, <1>3, <2>0 DEF ProxyInv, CopiesAgree
    <2>2. (Running(p) /\ obj[p].deleting => before[p].finalizer)'
      BY <1>0, <1>3, <2>0, <2>1 DEF DeletesWhatExists
    <2>3. ASSUME obj[p].deleting
          PROVE  /\ obj'[p].finalizer => obj[p].finalizer
                 /\ before[p].finalizer
      <3>1. Works(p) \/ Sends(p) \/ Returns(p) \/ Stays(p)
        BY <1>3, WorkerChange DEF Ends, Running
      <3> QED
        BY <1>0, <1>3, <2>3, <3>1 DEF DeletesWhatExists, Works, Continues, Ensures, GivesUp, Fails,
           Succeeds, SameObject, Sends, Returns, Stays
    <2>4. ASSUME obj[p].deleting, obj'[p].finalizer
          PROVE  Exists(p)'
      <3>1. Holds(p) /\ ~Releasing(p)
        BY <1>0, <1>3, <2>3, <2>4 DEF DeletesWhatExists, Holds, ProxyInv, DeletionInOrder,
           DeletingHasFinalizer, Releasing
      <3>2. \A q \in Proxy : WorkerStep(q) => Exists(p)'
        BY <1>0, <3>1, WorkerHolds, CallFrame DEF Holds, Exists
      <3>3. \A q \in Proxy : Owner(q) => Exists(p)'
        BY <1>0, <3>1, OwnerEffect DEF Holds, Exists
      <3> QED
        BY <3>1, <3>2, <3>3 DEF Next, vars, CacheSync, ClusterReady, ClusterGone, Crash, Holds,
           Exists
    <2>5. ASSUME pc'[p] \in DeleteBranch
          PROVE  obj'[p].finalizer
      <3>1. pc[p] \in DeleteBranch \union {"examine"} /\ obj'[p].finalizer = obj[p].finalizer
        <4>1. CASE Works(p)
          BY <2>5, <4>1 DEF Works, Continues, Ensures, GivesUp, Fails, Succeeds, SameObject,
             AtPatch, DeleteBranch
        <4>2. CASE Stays(p)
          BY <2>5, <4>2 DEF Stays
        <4> QED
          BY <1>3, <2>5, <4>1, <4>2, WorkerChange DEF Ends, Running, Sends, Returns, AtPatch,
             DeleteBranch
      <3>2. obj[p].deleting
        BY <2>1, <2>5 DEF ProxyInv, WorkerInBranch
      <3> QED
        BY <1>0, <2>3, <3>1, <3>2 DEF DeletesWhatExists, ProxyInv, WorkerInBranch
    <2>6. ASSUME pc'[p] \in PatchSteps, call'[p] = "removeFinalizer"
          PROVE  /\ obj'[p].deleting /\ ~obj'[p].finalizer
                 /\ pc'[p] \in {"patchStatus", "patched"} => ~Exists(p)'
      <3>1. CASE Works(p)
        <4>1. GivesUp(p)
          BY <2>6, <3>1 DEF Works, Continues, Ensures, Fails, Succeeds, AtPatch
        <4> QED
          BY <1>0, <2>1, <4>1 DEF GivesUp, AtPatch, ProxyInv, WorkerInBranch
      <3>2. CASE Sends(p)
        <4>1. /\ pc[p] \in PatchSteps /\ call[p] = "removeFinalizer" /\ obj'[p] = obj[p]
              /\ pc[p] \in {"patchConditions", "patchObject", "patchStatus"}
          BY <2>6, <3>2 DEF Sends, PatchSteps
        <4>2. obj[p].deleting /\ ~obj[p].finalizer /\ before[p].finalizer
          BY <1>0, <1>3, <4>1 DEF DeletesWhatExists
        <4>3. ASSUME pc[p] = "patchStatus"
              PROVE  ~Exists(p)'
          BY <1>0, <2>0, <4>1, <4>3 DEF DeletesWhatExists
        <4>4. ASSUME pc[p] = "patchObject", Exists(p)'
              PROVE  FALSE
          <5>1. Exists(p) /\ api[p].finalizer
            BY <1>0, <1>3, <2>0, <4>2, <4>4 DEF ProxyInv, DeletionInOrder, DeletingHasFinalizer
          <5>2. PatchObject(p)
            BY <3>2, <4>4 DEF Sends, PatchConditions, PatchStatus
          <5>3. ObjectSent(p)
            BY <1>0, <4>4, <5>1, <5>2, RequestEffect DEF ConditionsSent, StatusSent
          <5>4. api'[p].finalizer
            BY <1>0, <4>4, <5>1, FinalizerKept
          <5> QED
            BY <4>2, <5>3, <5>4 DEF ObjectSent, Merge
        <4> QED
          BY <3>2, <4>1, <4>2, <4>3, <4>4 DEF Sends
      <3>3. CASE Stays(p)
        BY <1>0, <2>0, <2>6, <3>3 DEF Stays, DeletesWhatExists
      <3> QED
        BY <1>3, <2>6, <3>1, <3>2, <3>3, WorkerChange DEF Ends, Running, Returns, AtPatch,
           PatchSteps
    <2> QED
      BY <1>3, <2>1, <2>2, <2>4, <2>5, <2>6
  <1>4. CASE ~Running(p)'
    BY <1>4 DEF Running, DeleteBranch, PatchSteps
  <1> QED
    BY <1>2, <1>3, <1>4, GoesOnWith

\* ConditionsInOrder, for one object.
ConditionsAt(p) ==
    Running(p) =>
        /\ ~Deferred(p) /\ obj[p].releaseReady = "Ready" => before[p].releaseReady = "Ready"
        /\ Exists(p) /\ Unsent(p) =>
             /\ api[p].releaseReady = "Ready" <=> before[p].releaseReady = "Ready"
             /\ api[p].clusterAvailable = "Available"
                  => before[p].clusterAvailable = "Available"
        /\ Exists(p) /\ ~Unsent(p) =>
             /\ api[p].releaseReady = "Ready" => obj[p].releaseReady = "Ready"
             /\ api[p].clusterAvailable = "Available" => obj[p].clusterAvailable = "Available"
        /\ pc[p] = "examine" \/ (pc[p] \in PatchSteps /\ call[p] \in EarlyCall)
             => /\ obj[p].clusterAvailable = before[p].clusterAvailable
                /\ obj[p].releaseReady = "Ready" <=> before[p].releaseReady = "Ready"
        /\ pc[p] \in PatchSteps /\ call[p] = "initializeConditions"
             => obj[p].releaseReady # "Ready"

\* The stored conditions follow the worker.
LEMMA ConditionsKept ==
    ASSUME ~CacheLag, ReconcileStrategy = "Continuous", BaseInv, StatusInv, [Next]_vars
    PROVE  ConditionsInOrder'
  <1> SUFFICES ASSUME NEW p \in Proxy, Running(p)'
               PROVE  ConditionsAt(p)'
    BY DEF ConditionsInOrder, ConditionsAt
  <1>0. TypeOK /\ BudgetLeft /\ DeletesWhatExists /\ ConditionsAt(p)
    BY DEF BaseInv, StatusInv, ConditionsInOrder, ConditionsAt
  <1>1. CASE Starts(p)
    BY <1>1 DEF Starts, ConditionsAt, Unsent, AtPatch, PatchSteps, Deferred
  <1>2. CASE /\ Running(p) /\ before'[p] = before[p] /\ obj'[p].content = obj[p].content
             /\ Exists(p)' => Exists(p)
    <2>1. CASE Works(p)
      <3>1. Unsent(p) /\ ~Deferred(p)
        BY <2>1 DEF Works, Unsent, Deferred
      <3>2. CASE Continues(p)
        BY <1>0, <1>2, <2>1, <3>1, <3>2 DEF ConditionsAt, Works, Continues, Unsent, Exists,
           Deferred
      <3>3. CASE Ensures(p)
        BY <1>0, <1>2, <2>1, <3>1, <3>3 DEF ConditionsAt, Works, Ensures, AtPatch, Unsent,
           Exists, SameConditions
      <3>4. CASE GivesUp(p)
        <4>1. obj'[p].releaseReady = "Ready" => obj[p].releaseReady = "Ready"
          BY <3>4 DEF GivesUp
        <4> QED
          BY <1>0, <1>2, <2>1, <3>1, <3>4, <4>1 DEF ConditionsAt, Works, GivesUp, AtPatch, Unsent,
             Exists, EarlyCall
      <3>5. CASE AtPatch(p, "deferred")'
        BY <1>0, <1>2, <2>1, <3>1, <3>5 DEF ConditionsAt, Works, AtPatch, Unsent, Deferred, Exists,
           EarlyCall, PatchSteps
      <3> QED
        BY <2>1, <3>2, <3>3, <3>4, <3>5 DEF Works, Fails, Succeeds
    <2>2. CASE Sends(p)
      <3>1. /\ pc[p] \in PatchSteps /\ pc'[p] \in PatchSteps \ {"patchConditions"}
            /\ pc'[p] # "examine" /\ obj'[p] = obj[p] /\ call'[p] = call[p]
        BY <2>2 DEF Sends, PatchSteps
      <3>2. ASSUME Exists(p)', ConditionsSent(p)
            PROVE  ConditionsAt(p)'
        <4>1. Unsent(p) /\ (Unsent(p)' <=> call[p] \in EarlyCall)
          BY <3>1, <3>2 DEF ConditionsSent, Unsent
        <4> QED
          BY <1>0, <1>2, <3>1, <3>2, <4>1 DEF ConditionsAt, ConditionsSent, Merge, Deferred
      <3>3. ASSUME Exists(p)', ObjectSent(p) \/ StatusSent(p)
            PROVE  ConditionsAt(p)'
        <4>1. Unsent(p)' <=> Unsent(p)
          BY <3>1, <3>3 DEF ObjectSent, StatusSent, Unsent, PatchSteps
        <4>2. SameConditions(api[p], api'[p])
          BY <3>3 DEF ObjectSent, StatusSent
        <4> QED
          BY <1>0, <1>2, <3>1, <3>3, <4>1, <4>2 DEF ConditionsAt, SameConditions, Deferred
      <3>4. CASE ~Exists(p)'
        BY <1>0, <1>2, <3>1, <3>4 DEF ConditionsAt, Deferred
      <3> QED
        BY <1>0, <1>2, <2>2, <3>2, <3>3, <3>4, RequestEffect DEF Sends
    <2>3. CASE Returns(p)
      <3>1. CASE call[p] \in EarlyCall
        BY <1>0, <1>2, <2>3, <3>1 DEF ConditionsAt, Returns, Unsent, AtPatch, PatchSteps, Deferred,
           Exists, EarlyCall
      <3>2. CASE call[p] = "removeFinalizer"
        <4>1. ~Exists(p)'
          BY <1>0, <2>3, <3>2 DEF DeletesWhatExists, Returns, PatchSteps, Exists
        <4> QED
          BY <1>0, <2>3, <3>2, <4>1 DEF ConditionsAt, Returns, AtPatch, PatchSteps, Deferred,
             EarlyCall
      <3> QED
        BY <2>3, <3>1, <3>2 DEF Returns, EarlyCall
    <2>4. CASE Stays(p)
      <3>1. Exists(p)' => SameConditions(api[p], api'[p])
        BY <1>0, <1>2, <2>4, StoredEffect DEF Stays, WorkerStep, OwnerWrote, ConditionsSent,
           ObjectSent, StatusSent, SameConditions
      <3> QED
        BY <1>0, <1>2, <2>4, <3>1 DEF ConditionsAt, Stays, SameConditions, Unsent, Deferred, Running
    <2> QED
      BY <1>1, <2>1, <2>2, <2>3, <2>4, WorkerChange DEF Ends, Running
  <1> QED
    BY <1>1, <1>2, GoesOnWith

\* What becomes Ready has the finalizer.
LEMMA ReadyFinalizerKept ==
    ASSUME ~CacheLag, ReconcileStrategy = "Continuous", BaseInv, StatusInv, [Next]_vars
    PROVE  ReadyHasFinalizer'
  <1>0. TypeOK /\ ProxyInv /\ BudgetLeft /\ ReportTrue /\ ReadyHasFinalizer
    BY DEF BaseInv, StatusInv
  <1>1. ASSUME NEW p \in Proxy, Exists(p)', api'[p].releaseReady = "Ready", Up(api[p])'
        PROVE  api'[p].finalizer
    <2>1. None # "Ready"
      BY NoneIsNoReason DEF HelmReleaseReadyReason
    <2>2. Exists(p)
      BY <1>0, <1>1, <2>1, NewSaysNothing
    <2>3. Up(api[p]) /\ api'[p].cluster = api[p].cluster /\ api[p].cluster \in Cluster
      <3>1. api'[p].cluster = api[p].cluster /\ api[p].cluster \in Cluster
        BY <1>0, <1>1, <2>2, ApiRelease DEF Exists, TypeOK, HRP
      <3> QED
        BY <1>0, <1>1, <3>1, UpEffect DEF Up
    <2>4. CASE api[p].releaseReady = "Ready"
      BY <1>0, <1>1, <2>2, <2>3, <2>4, FinalizerKept DEF ReadyHasFinalizer
    <2>5. CASE api[p].releaseReady # "Ready"
      <3>1. ConditionsSent(p)
        BY <1>0, <1>1, <2>2, <2>5, StoredEffect DEF OwnerWrote, ObjectSent, StatusSent,
           SameConditions
      <3>2. obj[p].releaseReady = "Ready" /\ before[p].releaseReady # "Ready"
        BY <1>1, <2>5, <3>1 DEF ConditionsSent, Merge
      <3>3. pc[p] \in PatchSteps /\ Reports(p)
        BY <3>1, <3>2 DEF ConditionsSent, PatchSteps, Reports
      <3>4. Up(obj[p])
        BY <1>0, <2>2, <2>3, <3>1 DEF ConditionsSent, ProxyInv, CopiesAgree, Agree, Running, Up
      <3>5. api[p].finalizer
        BY <1>0, <2>2, <3>3, <3>4 DEF ReportTrue
      <3> QED
        BY <3>1, <3>5 DEF ConditionsSent
    <2> QED
      BY <2>4, <2>5
  <1>2. ASSUME NEW p \in Proxy, Running(p)', before'[p].releaseReady = "Ready", Up(before[p])'
        PROVE  before'[p].finalizer
    <2>1. CASE Starts(p)
      <3>1. api'[p] = before'[p] /\ Exists(p)'
        BY <2>1 DEF Starts, Exists
      <3> QED
        BY <1>1, <1>2, <3>1 DEF Up
    <2>2. CASE Running(p) /\ before'[p] = before[p]
      <3>1. before[p].cluster \in Cluster
        BY <1>0, <2>2 DEF Running, TypeOK, HRP
      <3> QED
        BY <1>0, <1>2, <2>2, <3>1, UpEffect DEF Up, ReadyHasFinalizer
    <2> QED
      BY <1>2, <2>1, <2>2, GoesOnWith
  <1> QED
    BY <1>1, <1>2 DEF ReadyHasFinalizer

\* How a worker gets to know a release, and how Helm starts to work on one.
LEMMA HelmBegins ==
    ASSUME TypeOK, NEW p \in Proxy, WorkerStep(p)
    PROVE  /\ pc'[p] = "upgrade" =>
                LET c == obj[p].cluster
                    n == obj[p].releaseName IN
                /\ obj'[p] = obj[p]
                /\ existing'[p] = releases[c][n]
                /\ \/ releases' = releases
                   \/ IsPending(releases[c][n].status) /\ releases'[c][n].status = "failed"
           /\ pc'[p] = "helmRunning" =>
                /\ obj'[p] = obj[p]
                /\ IsPending(releases'[obj[p].cluster][target'[p]].status)
  <1> DEFINE c == obj[p].cluster
             n == obj[p].releaseName
  <1>1. CASE ReconcileNormal(p)
    <2>1. obj[p] \in HRP /\ c \in Cluster /\ n \in Name \union {None}
      <3>1. obj[p] \in HRP
        BY <1>1 DEF ReconcileNormal, TypeOK
      <3> QED
        BY <3>1 DEF HRP
    <2>2. CASE n # None /\ FoundRelease(p, c, n)
      <3>1. releases[c][n] \in Release
        BY <2>1, <2>2 DEF TypeOK
      <3>2. ASSUME SetRelease(c, n, updateLastReleaseStatus(releases[c][n]))
            PROVE  releases'[c][n].status = "failed"
        BY <2>1, <2>2, <3>1, <3>2, SetReleaseEffect DEF updateLastReleaseStatus, Release
      <3> QED
        BY <2>2, <3>2 DEF FoundRelease, TypeOK
    <2>3. CASE ~(n # None /\ FoundRelease(p, c, n))
      BY <1>1, <2>3 DEF ReconcileNormal, InstallOrUpgradeFailed, Patch, Goto, TypeOK
    <2> QED
      BY <2>2, <2>3
  <1>2. CASE Install(p)
    <2>1. CASE \E m \in IF n = None THEN FreshName(c) ELSE {n} :
                   /\ SetRelease(c, m, BeginInstall(obj[p].content))
                   /\ target' = [target EXCEPT ![p] = m]
                   /\ pc' = [pc EXCEPT ![p] = "helmRunning"]
                   /\ obj' = obj
      <3>1. PICK m \in IF n = None THEN FreshName(c) ELSE {n} :
                   /\ SetRelease(c, m, BeginInstall(obj[p].content))
                   /\ target' = [target EXCEPT ![p] = m]
                   /\ pc' = [pc EXCEPT ![p] = "helmRunning"]
                   /\ obj' = obj
        BY <2>1
      <3>2. obj[p] \in HRP
        BY <1>2 DEF Install, TypeOK
      <3>3. m \in Name /\ c \in Cluster
        BY <3>1, <3>2 DEF FreshName, Name, HRP
      <3>4. releases'[c][m] = BeginInstall(obj[p].content) /\ target'[p] = m
        BY <3>1, <3>3, SetReleaseEffect DEF TypeOK
      <3> QED
        BY <3>1, <3>4 DEF BeginInstall, IsPending, TypeOK
    <2>2. CASE InstallOrUpgradeFailed(p) \/ \E m, s, e : InstallOrUpgradeReturned(p, m, s, e)
      BY <2>2 DEF InstallOrUpgradeFailed, InstallOrUpgradeReturned, Patch, TypeOK
    <2> QED
      BY <1>2, <2>1, <2>2 DEF Install
  <1>3. CASE Upgrade(p)
    <2>1. CASE /\ SetRelease(c, n, BeginUpgrade(obj[p].content))
               /\ target' = [target EXCEPT ![p] = n]
               /\ pc' = [pc EXCEPT ![p] = "helmRunning"]
               /\ obj' = obj
      <3>1. obj[p] \in HRP /\ n \in Name
        BY <1>3 DEF Upgrade, TypeOK
      <3>2. c \in Cluster
        BY <3>1 DEF HRP
      <3>3. releases'[c][n] = BeginUpgrade(obj[p].content) /\ target'[p] = n
        BY <2>1, <3>1, <3>2, SetReleaseEffect DEF TypeOK
      <3> QED
        BY <2>1, <3>3 DEF BeginUpgrade, IsPending, TypeOK
    <2>2. CASE InstallOrUpgradeFailed(p) \/ \E m, s, e : InstallOrUpgradeReturned(p, m, s, e)
      BY <2>2 DEF InstallOrUpgradeFailed, InstallOrUpgradeReturned, Patch, TypeOK
    <2> QED
      BY <1>3, <2>1, <2>2 DEF Upgrade
  <1>4. CASE \/ Reconcile(p) \/ Examine(p) \/ GetCluster(p) \/ DeleteGetCluster(p)
             \/ ReconcileDelete(p) \/ PatchReturns(p)
    BY <1>4 DEF Reconcile, Examine, GetCluster, DeleteGetCluster, ReconcileDelete, PatchReturns,
       Goto, Patch, RemoveFinalizer, Finish, TypeOK
  <1>5. CASE HelmEnds(p) \/ Uninstall(p) \/ UninstallEnds(p)
    BY <1>5 DEF HelmEnds, Uninstall, UninstallEnds, InstallOrUpgradeReturned, DeletionFailed,
       RemoveFinalizer, Goto, Patch, TypeOK
  <1>6. CASE PatchConditions(p) \/ PatchObject(p) \/ PatchStatus(p)
    BY <1>6 DEF PatchConditions, PatchObject, PatchStatus, TypeOK
  <1> QED
    BY <1>1, <1>2, <1>3, <1>4, <1>5, <1>6 DEF WorkerStep

\* Nobody interferes with a release a worker is busy with.
LEMMA HelmInOrderKept ==
    ASSUME ~CacheLag, ReconcileStrategy = "Continuous", BaseInv, TypeOK', ProxyInv', StatusInv,
           [Next]_vars
    PROVE  HelmInOrder'
  <1> SUFFICES ASSUME NEW p \in Proxy, pc'[p] \in {"upgrade", "helmRunning"}, Up(obj[p])'
               PROVE  /\ pc'[p] = "upgrade" =>
                           LET release == releases'[obj'[p].cluster][obj'[p].releaseName] IN
                           \/ existing'[p] = release
                           \/ IsPending(existing'[p].status) /\ release.status = "failed"
                      /\ pc'[p] = "helmRunning" =>
                           IsPending(releases'[obj'[p].cluster][target'[p]].status)
    BY DEF HelmInOrder
  <1>0. TypeOK /\ ProxyInv /\ CopyCurrent /\ NamesApart /\ DeletesWhatExists /\ HelmInOrder
    BY DEF BaseInv, StatusInv
  <1>1. CASE WorkerStep(p)
    BY <1>0, <1>1, HelmBegins
  <1>2. CASE ~WorkerStep(p)
    <2>1. Stays(p)
      BY <1>2, WorkerChange DEF Ends
    <2>2. /\ pc[p] \in NormalBranch /\ pc'[p] \in NormalBranch /\ Running(p)
          /\ pc[p] \in {"upgrade", "helmRunning"}
      BY <2>1 DEF Stays, NormalBranch, Running
    <2>3. Exists(p) /\ Exists(p)' /\ obj[p].cluster = api[p].cluster
      BY <1>0, <2>2 DEF ProxyInv, WorkerInBranch, Holds, CopiesAgree, Agree
    <2>4. api'[p].cluster = api[p].cluster
      BY <1>0, <2>3, ApiRelease
    <2>5. api[p].cluster \in Cluster
      BY <1>0, <2>3 DEF Exists, TypeOK, HRP
    <2>6. Up(api[p])' /\ Up(obj[p])
      BY <1>0, <2>1, <2>3, <2>4, <2>5, UpEffect DEF Stays, Up
    <2>7. \A n \in Name : Uses(p, n) => releases'[obj[p].cluster][n] = releases[obj[p].cluster][n]
      BY <1>0, <1>2, <2>3, <2>4, <2>6, ReleaseStays
    <2>8. CASE pc[p] = "upgrade"
      <3>1. obj[p].releaseName \in Name /\ Uses(p, obj[p].releaseName)
        BY <1>0, <2>2, <2>8 DEF TypeOK, Uses
      <3> QED
        BY <1>0, <2>1, <2>2, <2>6, <2>7, <2>8, <3>1 DEF HelmInOrder, Stays
    <2>9. CASE pc[p] = "helmRunning"
      <3>1. target[p] \in Name /\ Uses(p, target[p])
        BY <1>0, <2>9 DEF TypeOK, Uses
      <3> QED
        BY <1>0, <2>1, <2>2, <2>6, <2>7, <2>9, <3>1 DEF HelmInOrder, Stays
    <2> QED
      BY <2>2, <2>8, <2>9
  <1> QED
    BY <1>1, <1>2

\* The Cluster of an object that is there before and after a step.
LEMMA SameCluster ==
    ASSUME TypeOK, ProxyInv, [Next]_vars, NEW p \in Proxy, Exists(p), Exists(p)', Up(api[p])'
    PROVE  /\ api'[p].cluster = api[p].cluster
           /\ Up(api[p])
           /\ Running(p) => /\ obj[p].cluster = api[p].cluster /\ before[p].cluster = api[p].cluster
                            /\ Up(obj[p]) /\ Up(before[p])
  <1>1. api'[p].cluster = api[p].cluster /\ api[p].cluster \in Cluster
    BY ApiRelease DEF Exists, TypeOK, HRP
  <1>2. Up(api[p])
    BY <1>1, UpEffect DEF Up
  <1> QED
    BY <1>1, <1>2 DEF ProxyInv, CopiesAgree, Agree, Up

\* What a patch does not touch: the release.
LEMMA PatchLeavesRelease ==
    ASSUME TypeOK, ProxyInv, CopyCurrent, NamesApart, DeletesWhatExists, [Next]_vars,
           NEW p \in Proxy, Exists(p), Exists(p)', Up(api[p])', NEW n \in Name, Uses(p, n),
           WorkerStep(p) /\ Running(p) => pc[p] \in PatchSteps
    PROVE  releases'[api[p].cluster][n] = releases[api[p].cluster][n]
  <1>1. api'[p].cluster = api[p].cluster
    BY ApiRelease
  <1>2. pc[p] \in PatchSteps => ~WritesAs(p, api[p].cluster, n)
    BY DEF WritesAs, PatchSteps, DeleteBranch
  <1> QED
    BY <1>1, <1>2, ReleaseStays

\* What a worker reports is true when it starts its last patch, and stays true.
LEMMA ReportTrueKept ==
    ASSUME ~CacheLag, ReconcileStrategy = "Continuous", BaseInv, ProxyInv', StatusInv,
           [Next]_vars
    PROVE  ReportTrue'
  <1> SUFFICES ASSUME NEW p \in Proxy, pc'[p] \in PatchSteps, Exists(p)', Up(obj[p])',
                      Reports(p)'
               PROVE  /\ call'[p] = "deferred" /\ ~obj'[p].deleting
                      /\ api'[p].finalizer /\ Deployed(obj[p])'
    BY DEF ReportTrue
  <1>0. /\ TypeOK /\ ProxyInv /\ CopyCurrent /\ NamesApart /\ BudgetLeft
        /\ ConditionsInOrder /\ ReadyHasFinalizer /\ DeletesWhatExists /\ ReportTrue
    BY DEF BaseInv, StatusInv
  <1>1. Running(p)' /\ Up(api[p])'
    <2>1. Running(p)'
      BY DEF Running, PatchSteps
    <2> QED
      BY <2>1 DEF ProxyInv, CopiesAgree, Agree, Up
  <1>2. ~Starts(p)
    BY DEF Starts, Reports, PatchSteps
  <1>3. Running(p) /\ before'[p] = before[p] /\ Exists(p)
    BY <1>1, <1>2, GoesOnWith
  <1>4. /\ obj[p].cluster = api[p].cluster /\ before[p].cluster = api[p].cluster
        /\ Up(obj[p]) /\ Up(before[p])
    BY <1>0, <1>1, <1>3, SameCluster
  <1>5. obj'[p].deleting = obj[p].deleting
    BY <1>0, <1>1, <1>3 DEF ProxyInv, CopiesAgree
  <1>6. CASE Works(p)
    <2>1. ~Deferred(p)
      BY <1>6 DEF Works, Deferred
    <2>2. /\ obj[p].releaseReady = "Ready" => before[p].releaseReady = "Ready"
          /\ obj[p].releaseName = before[p].releaseName
      BY <1>0, <1>3, <2>1 DEF ConditionsInOrder, CopyCurrent, SameRelease
    <2>3. ~Continues(p)
      BY DEF Continues
    <2>4. ~Ensures(p)
      BY <1>0, <1>3, <1>4, <2>2 DEF Ensures, Reports, SameConditions, ReadyHasFinalizer, ProxyInv,
         WorkerInBranch
    <2>5. ~GivesUp(p)
      BY <1>4 DEF GivesUp, Reports
    <2>6. ~Fails(p) \/ obj'[p].releaseReady # "Ready"
      BY <1>3, <2>2 DEF Fails, Reports
    <2>7. Succeeds(p)
      BY <1>6, <2>3, <2>4, <2>5, <2>6 DEF Works, Reports
    <2>8. ~obj[p].deleting /\ api[p].finalizer /\ api' = api
      BY <1>0, <1>6, <2>7 DEF Works, Succeeds, ProxyInv, WorkerInBranch, NormalBranch, Holds
    <2> QED
      BY <1>5, <2>7, <2>8 DEF Succeeds, AtPatch
  <1>7. CASE Returns(p)
    <2>1. pc[p] \in PatchSteps /\ Reports(p) /\ call[p] # "deferred"
      BY <1>7 DEF Returns, PatchSteps, Reports
    <2> QED
      BY <1>0, <1>3, <1>4, <2>1 DEF ReportTrue
  <1>8. CASE Sends(p) \/ Stays(p)
    <2>1. pc[p] \in PatchSteps /\ obj'[p] = obj[p] /\ call'[p] = call[p]
      BY <1>8 DEF Sends, Stays, PatchSteps
    <2>2. Reports(p)
      BY <1>3, <2>1 DEF Reports
    <2>3. call[p] = "deferred" /\ ~obj[p].deleting /\ api[p].finalizer /\ Deployed(obj[p])
      BY <1>0, <1>3, <1>4, <2>1, <2>2 DEF ReportTrue
    <2>4. api'[p].finalizer
      BY <1>0, <1>3, <2>3, FinalizerKept
    <2>5. obj[p].releaseName \in Name /\ Uses(p, obj[p].releaseName)
      <3>1. obj[p].releaseName \in Name
        BY <1>0, <1>3, <2>3 DEF Deployed, TypeOK, HRP, Running
      <3> QED
        BY <1>3, <3>1 DEF Uses
    <2>6. releases'[obj[p].cluster][obj[p].releaseName]
            = releases[obj[p].cluster][obj[p].releaseName]
      BY <1>0, <1>1, <1>3, <1>4, <2>1, <2>5, PatchLeavesRelease
    <2> QED
      BY <2>1, <2>3, <2>4, <2>6 DEF Deployed
  <1> QED
    BY <1>1, <1>2, <1>6, <1>7, <1>8, WorkerChange DEF Ends, Running

\* A release that is reported is not taken down.
LEMMA ReleaseKeptKept ==
    ASSUME ~CacheLag, ReconcileStrategy = "Continuous", BaseInv, ProxyInv', StatusInv,
           [Next]_vars
    PROVE  ReleaseKept'
  <1> SUFFICES ASSUME NEW p \in Proxy, Exists(p)', Up(api[p])', api'[p].releaseReady = "Ready",
                      api'[p].releaseName # None,
                      api'[p].deleting => Running(p)' /\ ~obj'[p].deleting
               PROVE  releases'[api'[p].cluster][api'[p].releaseName].status \notin TakenDown
    BY DEF ReleaseKept
  <1>0. /\ TypeOK /\ ProxyInv /\ CopyCurrent /\ NamesApart /\ BudgetLeft
        /\ ConditionsInOrder /\ DeletesWhatExists /\ ReportTrue /\ ReleaseKept
    BY DEF BaseInv, StatusInv
  <1>1. Exists(p)
    <2>1. None # "Ready"
      BY NoneIsNoReason DEF HelmReleaseReadyReason
    <2> QED
      BY <1>0, <2>1, NewSaysNothing
  <1> DEFINE c == api[p].cluster
  <1>2. /\ api'[p].cluster = c /\ Up(api[p])
        /\ Running(p) => obj[p].cluster = c /\ Up(obj[p])
    BY <1>0, <1>1, SameCluster
  <1>3. ASSUME NEW n \in Name, Uses(p, n), pc[p] \in PatchSteps, releases[c][n].status = "deployed"
        PROVE  releases'[c][n].status \notin TakenDown
    BY <1>0, <1>1, <1>3, PatchLeavesRelease DEF TakenDown
  <1>4. CASE /\ api[p].releaseReady = "Ready" /\ api'[p].releaseName = api[p].releaseName
             /\ api[p].deleting => api'[p].deleting
    <2> DEFINE n == api[p].releaseName
    <2>1. n \in Name /\ Uses(p, n)
      BY <1>0, <1>1, <1>4 DEF Exists, TypeOK, HRP, Uses
    <2>2. ASSUME api[p].deleting
          PROVE  Running(p) /\ ~obj[p].deleting
      <3>1. Running(p)' /\ ~obj'[p].deleting /\ obj'[p].deleting = before'[p].deleting
        BY <1>4, <2>2 DEF ProxyInv, CopiesAgree
      <3>2. ~Starts(p)
        BY <2>2, <3>1 DEF Starts
      <3>3. Running(p) /\ before'[p] = before[p]
        BY <3>1, <3>2, GoesOnWith
      <3> QED
        BY <1>0, <3>1, <3>3 DEF ProxyInv, CopiesAgree
    <2>3. releases[c][n].status \notin TakenDown
      BY <1>0, <1>1, <1>2, <1>4, <2>2 DEF ReleaseKept
    <2>4. CASE releases'[c][n] = releases[c][n]
      BY <1>2, <1>4, <2>3, <2>4
    <2>5. CASE WorkerStep(p) /\ Running(p) /\ WritesAs(p, c, n)
      <3>1. pc[p] \notin DeleteBranch
        BY <1>0, <1>1, <2>2, <2>5 DEF ProxyInv, WorkerInBranch, DeletionInOrder
      <3>2. releases'[c][n].status \notin TakenDown
        BY <2>5, <3>1 DEF WritesAs, IsPending, TakenDown
      <3> QED
        BY <1>2, <1>4, <3>2
    <2> QED
      BY <1>0, <1>1, <1>2, <2>1, <2>4, <2>5, ReleaseStays
  <1>5. CASE ConditionsSent(p) /\ api[p].releaseReady # "Ready"
    <2>1. /\ obj[p].releaseReady = "Ready" /\ before[p].releaseReady # "Ready"
          /\ Running(p) /\ pc[p] \in PatchSteps /\ ~Sent(p)
          /\ api'[p].releaseName = api[p].releaseName
      BY <1>5 DEF ConditionsSent, Merge, Running, PatchSteps, Sent
    <2>2. Deployed(obj[p])
      BY <1>0, <1>1, <1>2, <2>1 DEF ReportTrue, Reports
    <2>3. obj[p].releaseName = api[p].releaseName
      BY <1>0, <1>1, <2>1 DEF CopyCurrent, SameRelease, KeepsName
    <2>4. api[p].releaseName \in Name /\ Uses(p, api[p].releaseName)
      BY <1>0, <1>1, <2>1 DEF Exists, TypeOK, HRP, Uses
    <2> QED
      BY <1>2, <1>3, <2>1, <2>2, <2>3, <2>4 DEF Deployed
  <1>6. CASE ObjectSent(p) /\ api'[p].releaseName # api[p].releaseName
    <2>1. /\ obj[p].releaseName # before[p].releaseName /\ api'[p].releaseName = obj[p].releaseName
          /\ Running(p) /\ pc[p] \in PatchSteps \ {"patchConditions"}
          /\ api[p].releaseReady = "Ready"
      BY <1>6 DEF ObjectSent, Merge, Running, PatchSteps, SameConditions
    <2>2. ~Unsent(p)
      BY <1>0, <2>1 DEF CopyCurrent, SameRelease, Deferred, Unsent, EarlyCall
    <2>3. obj[p].releaseReady = "Ready"
      BY <1>0, <1>1, <2>1, <2>2 DEF ConditionsInOrder
    <2>4. Deployed(obj[p])
      BY <1>0, <1>1, <1>2, <2>1, <2>3 DEF ReportTrue, Reports
    <2>5. obj[p].releaseName \in Name /\ Uses(p, obj[p].releaseName)
      BY <1>0, <2>1 DEF TypeOK, HRP, Uses, Running
    <2> QED
      BY <1>2, <1>3, <2>1, <2>4, <2>5 DEF Deployed
  <1> QED
    BY <1>0, <1>1, <1>4, <1>5, <1>6, StoredEffect DEF OwnerWrote, ConditionsSent, ObjectSent,
       StatusSent, SameConditions

\* A deployed release that is what its object asks for is left alone.
LEMMA DeployedStays ==
    ASSUME BaseInv, StatusInv, [Next]_vars,
           NEW p \in Proxy, Exists(p), Exists(p)', Up(api[p])', ~api[p].deleting,
           api[p].observed = api[p].generation, Deployed(api[p])
    PROVE  releases'[api[p].cluster][api[p].releaseName]
             = releases[api[p].cluster][api[p].releaseName]
  <1>0. /\ TypeOK /\ ProxyInv /\ CopyInv /\ CopyCurrent /\ NamesApart
        /\ GenerationsInOrder /\ DeletesWhatExists /\ HelmInOrder
    BY DEF BaseInv, StatusInv
  <1> DEFINE c == api[p].cluster
             n == api[p].releaseName
  <1>1. n \in Name /\ Uses(p, n) /\ c \in Cluster
    BY <1>0 DEF Exists, TypeOK, HRP, Uses, Deployed
  <1>2. api'[p].cluster = c /\ (Running(p) => obj[p].cluster = c /\ Up(obj[p]))
    BY <1>0, SameCluster
  <1>3. SUFFICES ASSUME Running(p), WritesAs(p, c, n)
                 PROVE  FALSE
    BY <1>0, <1>1, <1>2, ReleaseStays
  <1>4. releases[c][n] = [status |-> "deployed", content |-> api[p].content]
    BY DEF Deployed
  <1>5. releases[c][n].status = "deployed" /\ releases[c][n] # NoRelease
    BY <1>4 DEF NoRelease
  <1>6. pc[p] \notin DeleteBranch
    BY <1>0, <1>3 DEF ProxyInv, WorkerInBranch, DeletionInOrder
  <1>7. obj[p].content = api[p].content
    <2>1. /\ before[p].generation <= api[p].generation
          /\ before[p].observed <= before[p].generation
          /\ api[p].observed \in {before[p].observed, before[p].generation}
          /\ obj[p].content = before[p].content
          /\ api[p].generation = before[p].generation => api[p].content = before[p].content
      BY <1>0, <1>3 DEF CopyInv, StoredIsNewest, Precedes, GenerationsInOrder
    <2>2. /\ before[p].generation \in Nat /\ before[p].observed \in Nat
          /\ api[p].generation \in Nat
      BY <1>0, <1>3 DEF TypeOK, HRP, Exists, Running
    <2> QED
      BY <2>1, <2>2
  <1>8. ~(pc[p] = "upgrade" /\ shouldUpgradeHelmRelease(existing[p], obj[p].content)
          /\ n = obj[p].releaseName)
    BY <1>0, <1>2, <1>3, <1>4, <1>5, <1>7 DEF HelmInOrder, shouldUpgradeHelmRelease
  <1>9. ~(pc[p] = "helmRunning" /\ n = target[p])
    BY <1>0, <1>2, <1>3, <1>5 DEF HelmInOrder, IsPending
  <1> QED
    BY <1>3, <1>5, <1>6, <1>8, <1>9 DEF WritesAs, IsPending

\* What a worker says about the spec it has read is true of the stored object, as long as
\* that has the same generation.
LEMMA ReportedIsDeployed ==
    ASSUME BaseInv, StatusInv, [Next]_vars,
           NEW p \in Proxy, Exists(p), Exists(p)', Up(api[p])',
           pc[p] \in PatchSteps, Ready(obj[p]), api[p].generation = before[p].generation
    PROVE  /\ ~api[p].deleting
           /\ api[p].releaseName # None =>
                releases'[api[p].cluster][api[p].releaseName]
                  = [status |-> "deployed", content |-> api[p].content]
  <1>0. /\ TypeOK /\ ProxyInv /\ CopyCurrent /\ NamesApart
        /\ GenerationsInOrder /\ DeletesWhatExists /\ ReportTrue
    BY DEF BaseInv, StatusInv
  <1>1. Running(p)
    BY DEF Running, PatchSteps
  <1>2. obj[p].cluster = api[p].cluster /\ Up(obj[p])
    BY <1>0, <1>1, SameCluster
  <1>3. ~obj[p].deleting /\ Deployed(obj[p])
    BY <1>0, <1>2 DEF ReportTrue, Reports, Ready
  <1>4. /\ api[p].deleting = obj[p].deleting /\ api[p].content = obj[p].content
        /\ api[p].releaseName = before[p].releaseName
    BY <1>0, <1>1 DEF GenerationsInOrder, ProxyInv, CopiesAgree
  <1>5. ASSUME api[p].releaseName # None
        PROVE  /\ api[p].releaseName = obj[p].releaseName
               /\ api[p].releaseName \in Name /\ Uses(p, api[p].releaseName)
    BY <1>0, <1>1, <1>4, <1>5 DEF CopyCurrent, KeepsName, Exists, TypeOK, HRP, Uses
  <1> QED
    BY <1>0, <1>2, <1>3, <1>4, <1>5, PatchLeavesRelease DEF Deployed

\* Ready for the current generation means that it is.
LEMMA StatusTrueKept ==
    ASSUME BaseInv, StatusInv, [Next]_vars
    PROVE  StatusTrue'
  <1> SUFFICES ASSUME NEW p \in Proxy, Exists(p)', Up(api[p])', Ready(api[p])',
                      api'[p].observed = api'[p].generation
               PROVE  /\ ~api'[p].deleting
                      /\ api'[p].releaseName # None => Deployed(api[p])'
    BY DEF StatusTrue
  <1>0. /\ TypeOK /\ ProxyInv /\ CopyInv /\ BudgetLeft
        /\ GenerationsInOrder /\ ConditionsInOrder /\ ReadyHasFinalizer /\ StatusTrue
    BY DEF BaseInv, StatusInv
  <1>1. Exists(p)
    <2>1. None # "Ready"
      BY NoneIsNoReason DEF HelmReleaseReadyReason
    <2> QED
      BY <1>0, <2>1, NewSaysNothing DEF Ready
  <1>2. /\ api'[p].cluster = api[p].cluster /\ Up(api[p])
        /\ Running(p) => Up(obj[p]) /\ Up(before[p])
    BY <1>0, <1>1, SameCluster
  <1>3. /\ api[p].observed \in Nat /\ api[p].generation \in Nat
        /\ api[p].observed <= api[p].generation
    BY <1>0, <1>1 DEF Exists, TypeOK, HRP, CopyInv, StoredIsNewest
  <1>4. CASE /\ api'[p].releaseName = api[p].releaseName /\ api'[p].content = api[p].content
             /\ api'[p].deleting = api[p].deleting /\ SameConditions(api[p], api'[p])
             /\ api[p].observed = api[p].generation
    <2>1. ~api[p].deleting /\ (api[p].releaseName # None => Deployed(api[p]))
      BY <1>0, <1>1, <1>2, <1>4 DEF StatusTrue, Ready, SameConditions
    <2>2. api[p].releaseName # None =>
              releases'[api[p].cluster][api[p].releaseName]
                = [status |-> "deployed", content |-> api[p].content]
      BY <1>1, <1>4, <2>1, DeployedStays DEF Deployed
    <2> QED
      BY <1>2, <1>4, <2>1, <2>2 DEF Deployed
  <1>5. ASSUME api'[p].releaseName = api[p].releaseName, api'[p].content = api[p].content,
               api'[p].deleting = api[p].deleting, pc[p] \in PatchSteps,
               api[p].generation = before[p].generation, Ready(obj[p])
        PROVE  /\ ~api'[p].deleting
               /\ api'[p].releaseName # None => Deployed(api[p])'
    BY <1>1, <1>2, <1>5, ReportedIsDeployed DEF Deployed
  <1>6. Running(p) =>
          /\ before[p].generation \in Nat /\ before[p].observed \in Nat
          /\ before[p].generation <= api[p].generation
          /\ before[p].observed <= before[p].generation
          /\ api[p].observed \in {before[p].observed, before[p].generation}
          /\ obj[p].generation = before[p].generation
    BY <1>0, <1>1 DEF Running, TypeOK, HRP, CopyInv, StoredIsNewest, WorkerOnlyAdds, Precedes,
       Grown, GenerationsInOrder
  <1>7. CASE OwnerWrote(p)
    BY <1>3, <1>7 DEF OwnerWrote
  <1>8. CASE ConditionsSent(p)
    <2>1. Running(p) /\ pc[p] \in PatchSteps /\ Unsent(p)
      BY <1>8 DEF ConditionsSent, Running, PatchSteps, Unsent
    <2>2. api[p].generation = before[p].generation
      BY <1>3, <1>6, <1>8, <2>1 DEF ConditionsSent
    <2>3. Ready(obj[p])
      BY <1>0, <1>1, <1>8, <2>1 DEF ConditionsSent, Merge, Ready, ConditionsInOrder
    <2> QED
      BY <1>5, <1>8, <2>1, <2>2, <2>3 DEF ConditionsSent
  <1>9. CASE ObjectSent(p)
    BY <1>3, <1>4, <1>9 DEF ObjectSent
  <1>10. CASE StatusSent(p)
    <2>1. CASE api'[p].observed = api[p].observed
      BY <1>4, <1>10, <2>1 DEF StatusSent
    <2>2. CASE api'[p].observed # api[p].observed
      <3>1. /\ Running(p) /\ pc[p] \in PatchSteps \ {"patchConditions"}
            /\ Ready(api[p])
        BY <1>10 DEF StatusSent, Running, PatchSteps, Ready, SameConditions
      <3>2. api[p].generation = before[p].generation
        BY <1>6, <1>10, <2>2, <3>1 DEF StatusSent
      <3>3. ~Unsent(p)
        <4>1. SUFFICES ASSUME call[p] \in EarlyCall
                       PROVE  FALSE
          BY <3>1 DEF Unsent
        <4>2. before[p].releaseReady = "Ready" /\ obj[p].releaseReady = "Ready"
          BY <1>0, <1>1, <3>1, <4>1 DEF ConditionsInOrder, Ready, Unsent
        <4>3. call[p] = "ensureFinalizer"
          BY <1>0, <3>1, <4>1, <4>2 DEF ConditionsInOrder, EarlyCall
        <4>4. ~before[p].finalizer
          BY <1>0, <3>1, <4>3 DEF ProxyInv, WorkerInBranch
        <4> QED
          BY <1>0, <1>2, <3>1, <4>2, <4>4 DEF ReadyHasFinalizer
      <3>4. Ready(obj[p])
        BY <1>0, <1>1, <3>1, <3>3 DEF ConditionsInOrder, Ready
      <3> QED
        BY <1>5, <1>10, <3>1, <3>2, <3>4 DEF StatusSent
    <2> QED
      BY <2>1, <2>2
  <1>11. CASE api'[p] = api[p]
    BY <1>4, <1>11 DEF SameConditions
  <1> QED
    BY <1>0, <1>1, <1>7, <1>8, <1>9, <1>10, <1>11, StoredEffect

\* No HelmReleaseProxy says Ready for the spec it has unless that spec's chart is deployed
\* under its name: when a reconcile reads what is stored and no request to the API server
\* is lost, whatever owners, Clusters, Helm and crashes do between two steps of a worker.
THEOREM StatusIsTrue ==
    ASSUME ~CacheLag, MaxFault["api"] = 0, ReconcileStrategy = "Continuous"
    PROVE  Spec => []StatusHonest
  <1> DEFINE Inv == TypeOK /\ OwnershipInv /\ CopyInv
             Base == NoLagInv /\ BudgetLeft
  <1>1. Init => Base /\ StatusInv
    <2>1. MaxFault["crash"] \in Nat
      BY ConstantsAssumption DEF Fault
    <2>2. Init => BudgetLeft
      BY <2>1 DEF Init, BudgetLeft
    <2>3. Init => \A p \in Proxy : ~Running(p) /\ ~Exists(p) /\ pc[p] = "idle"
      BY DEF Init, Running, Exists
    <2>4. Init => StatusInv
      BY <2>3 DEF StatusInv, GenerationsInOrder, ConditionsInOrder, ReadyHasFinalizer,
         DeletesWhatExists, HelmInOrder, ReportTrue, ReleaseKept, StatusTrue, PatchSteps,
         DeleteBranch
    <2> QED
      BY <2>2, <2>4, NoLagInit
  <1>2. Inv /\ Inv' /\ Base /\ StatusInv /\ [Next]_vars => Base' /\ StatusInv'
    <2> SUFFICES ASSUME Inv, Inv', Base, StatusInv, [Next]_vars
                 PROVE  Base' /\ StatusInv'
      OBVIOUS
    <2>1. ProxyInv /\ GoneIsEmpty /\ ProxyInv'
      BY DEF OwnershipInv, ProxyInv
    <2>2. Base'
      BY <2>1, CopyCurrentKept, InstallsOnceKept, NamesApartKept, BudgetLeftKept DEF NoLagInv
    <2>3. BaseInv
      BY <2>1 DEF BaseInv, NoLagInv
    <2>4. GenerationsInOrder' /\ ConditionsInOrder' /\ ReadyHasFinalizer' /\ DeletesWhatExists'
      BY <2>1, <2>3, GenerationsKept, ConditionsKept, ReadyFinalizerKept, DeletesKept
    <2>5. HelmInOrder' /\ ReportTrue' /\ ReleaseKept' /\ StatusTrue'
      BY <2>1, <2>3, HelmInOrderKept, ReportTrueKept, ReleaseKeptKept, StatusTrueKept
    <2> QED
      BY <2>2, <2>4, <2>5 DEF StatusInv
  <1>3. StatusInv => StatusHonest
    BY DEF StatusInv, StatusTrue, StatusHonest, Up
  <1> QED
    BY <1>1, <1>2, <1>3, TypeCorrect, OwnershipInvariant, CopiesInOrder, PTL DEF Spec
=============================================================================
