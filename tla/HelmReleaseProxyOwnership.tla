----------------------- MODULE HelmReleaseProxyOwnership -----------------------
(***************************************************************************)
(* No release with a name from a spec is left behind, for any number of    *)
(* objects, Clusters and faults and with a cache that lags arbitrarily.    *)
(* OwnershipInv is inductive relative to TypeOK: ProxyInv is about one     *)
(* object and its copies, NamedOwner about the releases.                   *)
(***************************************************************************)
EXTENDS HelmReleaseProxyProofs

ProxyInv ==
    /\ DeletingHasFinalizer
    /\ CopiesAgree
    /\ DeletionInOrder
    /\ FinalizerStays
    /\ WorkerInBranch

\* Object o is q with another condition, another annotation or a generated name.
Similar(o, q) ==
    /\ o.cluster = q.cluster
    /\ o.deleting = q.deleting
    /\ SameName(o.releaseName, q.releaseName)

-----------------------------------------------------------------------------
(* A worker's moves keep what is known of its object.                      *)

\* It hands the object to a patch that leaves the finalizer alone.
LEMMA DeferredKeeps ==
    ASSUME TypeOK, ProxyInv, NEW p \in Proxy, Running(p), NEW o \in HRP,
           Similar(o, obj[p]), o.finalizer = obj[p].finalizer,
           Patch(p, o, "deferred"), UNCHANGED <<api, cache, before>>
    PROVE  ProxyInv'
  <1> USE DEF ProxyInv, Running, Holds, Exists, Patch
  <1>0. \A q \in Proxy : q # p => /\ pc'[q] = pc[q] /\ obj'[q] = obj[q] /\ call'[q] = call[q]
                                  /\ failed'[q] = failed[q] /\ target'[q] = target[q]
    BY DEF TypeOK
  <1>1. pc'[p] = "patchConditions" /\ obj'[p] = o /\ call'[p] = "deferred"
    BY DEF TypeOK
  <1> HIDE DEF Patch
  <1>2. DeletingHasFinalizer'
    BY DEF DeletingHasFinalizer
  <1>3. CopiesAgree'
    BY <1>0, <1>1 DEF CopiesAgree, Agree, SameName, Similar
  <1>4. DeletionInOrder'
    BY <1>0, <1>1 DEF DeletionInOrder, Similar
  <1>5. FinalizerStays'
    BY <1>0, <1>1 DEF FinalizerStays, Similar
  <1>6. WorkerInBranch'
    BY <1>0, <1>1 DEF WorkerInBranch, Similar, NormalBranch, DeleteBranch, PatchSteps
  <1> QED
    BY <1>2, <1>3, <1>4, <1>5, <1>6

\* It hands the object over without the finalizer, at the end of a deletion.
LEMMA RemoveKeeps ==
    ASSUME TypeOK, ProxyInv, NEW p \in Proxy, pc[p] \in DeleteBranch, NEW o \in HRP,
           Similar(o, obj[p]), RemoveFinalizer(p, o), UNCHANGED <<api, cache, before>>
    PROVE  ProxyInv'
  <1> DEFINE r == [o EXCEPT !.finalizer = FALSE]
  <1> USE DEF ProxyInv, Running, Holds, Exists, Patch
  <1>0. \A q \in Proxy : q # p => /\ pc'[q] = pc[q] /\ obj'[q] = obj[q] /\ call'[q] = call[q]
                                  /\ failed'[q] = failed[q] /\ target'[q] = target[q]
    BY DEF TypeOK, RemoveFinalizer
  <1>1. pc'[p] = "patchConditions" /\ obj'[p] = r /\ call'[p] = "removeFinalizer"
    BY DEF TypeOK, RemoveFinalizer
  <1>2. Similar(r, obj[p])
    BY DEF Similar, HRP
  <1>3. pc[p] # "idle"
    BY DEF DeleteBranch
  <1>9. r.deleting
    BY <1>2, <1>3 DEF WorkerInBranch, TypeOK, Similar, HRP
  <1> HIDE DEF Patch, r
  <1>4. DeletingHasFinalizer'
    BY DEF DeletingHasFinalizer
  <1>5. CopiesAgree'
    BY <1>0, <1>1, <1>2, <1>3 DEF CopiesAgree, Agree, SameName, Similar
  <1>6. DeletionInOrder'
    BY <1>0, <1>1, <1>2, <1>3 DEF DeletionInOrder, Similar
  <1>7. FinalizerStays'
    BY <1>0, <1>1, <1>2, <1>3 DEF FinalizerStays, Similar
  <1>8. WorkerInBranch'
    BY <1>0, <1>1, <1>3, <1>9 DEF WorkerInBranch, NormalBranch, DeleteBranch, PatchSteps
  <1> QED
    BY <1>4, <1>5, <1>6, <1>7, <1>8

\* It goes on within the branch it is in.
LEMMA MoveKeeps ==
    ASSUME TypeOK, ProxyInv, NEW p \in Proxy, NEW s, NEW o \in HRP, NEW n,
           \/ pc[p] \in NormalBranch /\ s \in NormalBranch
           \/ pc[p] \in DeleteBranch /\ s \in DeleteBranch,
           pc' = [pc EXCEPT ![p] = s],
           obj' = [obj EXCEPT ![p] = o],
           target' = [target EXCEPT ![p] = n],
           Similar(o, obj[p]), o.finalizer = obj[p].finalizer,
           s = "helmRunning" => SameName(n, o.releaseName),
           UNCHANGED <<api, cache, before, call, failed>>
    PROVE  ProxyInv'
  <1> USE DEF ProxyInv, Running, Holds, Exists
  <1>0. \A q \in Proxy : q # p => pc'[q] = pc[q] /\ obj'[q] = obj[q] /\ target'[q] = target[q]
    BY DEF TypeOK
  <1>1. pc'[p] = s /\ obj'[p] = o /\ target'[p] = n /\ pc[p] # "idle"
    BY DEF TypeOK, NormalBranch, DeleteBranch
  <1>2. DeletingHasFinalizer'
    BY DEF DeletingHasFinalizer
  <1>3. CopiesAgree'
    BY <1>0, <1>1 DEF CopiesAgree, Agree, SameName, Similar
  <1>4. DeletionInOrder'
    BY <1>0, <1>1 DEF DeletionInOrder, Similar
  <1>5. FinalizerStays'
    BY <1>0, <1>1 DEF FinalizerStays, Similar
  <1>6. WorkerInBranch'
    BY <1>0, <1>1 DEF WorkerInBranch, Similar, NormalBranch, DeleteBranch, PatchSteps
  <1> QED
    BY <1>2, <1>3, <1>4, <1>5, <1>6

-----------------------------------------------------------------------------
(* ProxyInv, step by step: Reconcile up to the Helm calls.                 *)

\* A reconcile starts from the cached copy, of which the same is known.
LEMMA ReconcileKeeps ==
    ASSUME TypeOK, ProxyInv, NEW p \in Proxy, Reconcile(p)
    PROVE  ProxyInv'
  <1> DEFINE o == obj'[p]
  <1> USE DEF ProxyInv, Running, Holds, Exists
  <1>1. /\ o.cluster = cache[p].cluster
        /\ o.releaseName = cache[p].releaseName
        /\ o.deleting = cache[p].deleting
        /\ o.finalizer = cache[p].finalizer
        /\ \/ pc'[p] = "examine"
           \/ pc'[p] = "patchConditions" /\ call'[p] = "initializeConditions"
        /\ before'[p] = cache[p]
        /\ cache[p] # None
    BY DEF Reconcile, Goto, Patch, TypeOK, HRP
  <1>2. \A q \in Proxy : q # p => /\ pc'[q] = pc[q] /\ obj'[q] = obj[q] /\ call'[q] = call[q]
                                  /\ failed'[q] = failed[q] /\ target'[q] = target[q]
                                  /\ before'[q] = before[q]
    BY DEF Reconcile, Goto, Patch, TypeOK
  <1>3. api' = api /\ cache' = cache
    BY DEF Reconcile
  <1> HIDE DEF o
  <1>4. DeletingHasFinalizer'
    BY <1>3 DEF DeletingHasFinalizer
  <1>5. CopiesAgree'
    BY <1>1, <1>2, <1>3 DEF CopiesAgree, Agree, SameName, o
  <1>6. DeletionInOrder'
    BY <1>1, <1>2, <1>3 DEF DeletionInOrder, o
  <1>7. FinalizerStays'
    BY <1>1, <1>2, <1>3 DEF FinalizerStays, o
  <1>8. WorkerInBranch'
    BY <1>1, <1>2, <1>3 DEF WorkerInBranch, NormalBranch, DeleteBranch, PatchSteps, o
  <1> QED
    BY <1>4, <1>5, <1>6, <1>7, <1>8

\* A branch is taken that fits the copy that was read.
LEMMA ExamineKeeps ==
    ASSUME TypeOK, TypeOK', ProxyInv, NEW p \in Proxy, Examine(p)
    PROVE  ProxyInv'
  <1> USE DEF ProxyInv, Running, Holds, Exists
  <1>1. DeletingHasFinalizer'
    BY DEF Examine, DeletingHasFinalizer
  <1>2. CopiesAgree'
    BY DEF Examine, CopiesAgree, Goto, Patch, Agree, SameName, TypeOK, HRP
  <1>3. DeletionInOrder'
    BY DEF Examine, Goto, Patch, TypeOK, HRP, DeletionInOrder
  <1>4. FinalizerStays'
    BY DEF Examine, Goto, Patch, TypeOK, HRP, FinalizerStays, WorkerInBranch
  <1>5. WorkerInBranch'
    BY DEF Examine, Goto, Patch, TypeOK, HRP, FinalizerStays, WorkerInBranch,
           NormalBranch, DeleteBranch, PatchSteps
  <1> QED
    BY <1>1, <1>2, <1>3, <1>4, <1>5

\* A condition is not what ProxyInv is about.
LEMMA ConditionSimilar ==
    ASSUME NEW o \in HRP
    PROVE  /\ Similar(o, o)
           /\ \A r \in ClusterAvailableReason :
                  /\ [o EXCEPT !.clusterAvailable = r] \in HRP
                  /\ Similar([o EXCEPT !.clusterAvailable = r], o)
                  /\ [o EXCEPT !.clusterAvailable = r].finalizer = o.finalizer
           /\ \A r \in HelmReleaseReadyReason :
                  /\ [o EXCEPT !.releaseReady = r] \in HRP
                  /\ Similar([o EXCEPT !.releaseReady = r], o)
                  /\ [o EXCEPT !.releaseReady = r].finalizer = o.finalizer
  BY DEF HRP, Similar, SameName

\* Goto is a move that leaves the target alone.
LEMMA GotoKeeps ==
    ASSUME TypeOK, ProxyInv, NEW p \in Proxy, NEW s, NEW o \in HRP,
           \/ pc[p] \in NormalBranch /\ s \in NormalBranch
           \/ pc[p] \in DeleteBranch /\ s \in DeleteBranch,
           Goto(p, s, o), s # "helmRunning",
           Similar(o, obj[p]), o.finalizer = obj[p].finalizer,
           UNCHANGED <<api, cache, before>>
    PROVE  ProxyInv'
  <1>1. target' = [target EXCEPT ![p] = target[p]]
    BY DEF Goto, TypeOK
  <1> QED
    BY <1>1, MoveKeeps DEF Goto

\* Looking up the Cluster changes a condition at most.
LEMMA GetClusterKeeps ==
    ASSUME TypeOK, ProxyInv, NEW p \in Proxy, GetCluster(p) \/ DeleteGetCluster(p)
    PROVE  ProxyInv'
  <1>0. obj[p] \in HRP /\ Running(p) /\ UNCHANGED <<api, cache, before>>
    BY DEF GetCluster, DeleteGetCluster, TypeOK, Running
  <1>1. ASSUME NEW r \in ClusterAvailableReason,
               Patch(p, [obj[p] EXCEPT !.clusterAvailable = r], "deferred")
        PROVE  ProxyInv'
    BY <1>0, <1>1, ConditionSimilar, DeferredKeeps
  <1>2. CASE GetCluster(p)
    <2>1. Goto(p, "reconcileNormal", [obj[p] EXCEPT !.clusterAvailable = "Available"])
            => ProxyInv'
      BY <1>0, <1>2, ConditionSimilar, GotoKeeps
         DEF GetCluster, NormalBranch, ClusterAvailableReason, SecretFailed
    <2> QED
      BY <1>1, <1>2, <2>1 DEF GetCluster, ClusterAvailableReason, SecretFailed
  <1>3. CASE DeleteGetCluster(p)
    <2>1. pc[p] \in DeleteBranch
      BY <1>3 DEF DeleteGetCluster, DeleteBranch
    <2>2. Goto(p, "reconcileDelete", [obj[p] EXCEPT !.clusterAvailable = "Available"])
            => ProxyInv'
      BY <1>0, <2>1, ConditionSimilar, GotoKeeps DEF DeleteBranch, ClusterAvailableReason
    <2>3. RemoveFinalizer(p, obj[p]) => ProxyInv'
      BY <1>0, <2>1, ConditionSimilar, RemoveKeeps
    <2> QED
      BY <1>1, <1>3, <2>2, <2>3 DEF DeleteGetCluster, ClusterAvailableReason
  <1> QED
    BY <1>2, <1>3

-----------------------------------------------------------------------------
(* ProxyInv: the Helm calls.                                               *)

\* What a worker hands on after Helm has answered.
LEMMA OutcomeKeeps ==
    ASSUME TypeOK, ProxyInv, NEW p \in Proxy, Running(p), UNCHANGED <<api, cache, before>>
    PROVE  /\ InstallOrUpgradeFailed(p) => ProxyInv'
           /\ \A n \in Name : \A status, error :
                  SameName(n, obj[p].releaseName)
                  /\ InstallOrUpgradeReturned(p, n, status, error) => ProxyInv'
           /\ DeletionFailed(p) => ProxyInv'
           /\ Patch(p, [obj[p] EXCEPT !.releaseReady = "HelmReleaseGetFailed"], "deferred")
                => ProxyInv'
           /\ Patch(p, obj[p], "deferred") => ProxyInv'
           /\ pc[p] \in DeleteBranch /\ RemoveFinalizer(p, obj[p]) => ProxyInv'
           /\ pc[p] \in DeleteBranch
              /\ RemoveFinalizer(p, [obj[p] EXCEPT !.releaseReady = "HelmReleaseDeleted"])
                => ProxyInv'
  <1>0. obj[p] \in HRP
    BY DEF TypeOK, Running
  <1>1. \A o \in HRP : Similar(o, obj[p]) /\ o.finalizer = obj[p].finalizer
                       /\ Patch(p, o, "deferred") => ProxyInv'
    BY DeferredKeeps
  <1>2. \A o \in HRP : Similar(o, obj[p]) /\ pc[p] \in DeleteBranch /\ RemoveFinalizer(p, o)
                         => ProxyInv'
    BY RemoveKeeps
  <1>3. ASSUME NEW n \in Name, NEW status, NEW error, SameName(n, obj[p].releaseName),
               InstallOrUpgradeReturned(p, n, status, error)
        PROVE  ProxyInv'
    <2> DEFINE o == [obj[p] EXCEPT !.releaseName = n]
    <2>1. o \in HRP /\ Similar(o, obj[p]) /\ o.finalizer = obj[p].finalizer
      BY <1>0, <1>3 DEF HRP, Similar
    <2> HIDE DEF o
    <2>2. WithStatus(o, status, error) \in HRP
      BY <2>1, WithStatusType
    <2>3. /\ Similar(WithStatus(o, status, error), o)
          /\ WithStatus(o, status, error).finalizer = o.finalizer
      BY <2>1 DEF WithStatus, Similar, SameName, HRP
    <2>4. Similar(WithStatus(o, status, error), obj[p])
      BY <2>1, <2>3 DEF Similar, SameName
    <2> QED
      BY <1>1, <1>3, <2>1, <2>2, <2>3, <2>4 DEF InstallOrUpgradeReturned, o
  <1> QED
    BY <1>0, <1>1, <1>2, <1>3, ConditionSimilar
       DEF InstallOrUpgradeFailed, DeletionFailed, HelmReleaseReadyReason

\* Looking for the release gives up nothing.
LEMMA ReconcileNormalKeeps ==
    ASSUME TypeOK, ProxyInv, NEW p \in Proxy, ReconcileNormal(p)
    PROVE  ProxyInv'
  <1> DEFINE o == [obj[p] EXCEPT !.generated = @ \/ obj[p].releaseName = None]
  <1>0. /\ obj[p] \in HRP
        /\ Running(p)
        /\ pc[p] \in NormalBranch
        /\ UNCHANGED <<api, cache, before>>
    BY DEF ReconcileNormal, TypeOK, Running, NormalBranch
  <1>1. o \in HRP /\ Similar(o, obj[p]) /\ o.finalizer = obj[p].finalizer
    <2>1. (obj[p].generated \/ obj[p].releaseName = None) \in BOOLEAN
      BY <1>0 DEF HRP
    <2> QED
      BY <1>0, <2>1 DEF HRP, Similar, SameName
  <1>2. Goto(p, "install", o) => ProxyInv'
    BY <1>0, <1>1, GotoKeeps DEF NormalBranch
  <1>3. FoundRelease(p, obj[p].cluster, obj[p].releaseName) => ProxyInv'
    <2> SUFFICES ASSUME FoundRelease(p, obj[p].cluster, obj[p].releaseName)
                 PROVE  ProxyInv'
      OBVIOUS
    <2>1. /\ pc' = [pc EXCEPT ![p] = "upgrade"]
          /\ obj' = [obj EXCEPT ![p] = obj[p]]
          /\ target' = [target EXCEPT ![p] = target[p]]
          /\ UNCHANGED <<call, failed>>
      BY DEF FoundRelease, TypeOK
    <2> QED
      BY <1>0, <2>1, MoveKeeps, ConditionSimilar DEF NormalBranch
  <1> QED
    BY <1>0, <1>2, <1>3, OutcomeKeeps DEF ReconcileNormal

\* Helm starts: the worker knows the name of the release it works on.
LEMMA HelmStartsKeeps ==
    ASSUME TypeOK, ProxyInv, NEW p \in Proxy, pc[p] \in NormalBranch, NEW n \in Name,
           SameName(n, obj[p].releaseName),
           target' = [target EXCEPT ![p] = n],
           pc' = [pc EXCEPT ![p] = "helmRunning"],
           UNCHANGED <<api, cache, before, call, failed, obj>>
    PROVE  ProxyInv'
  <1>1. obj' = [obj EXCEPT ![p] = obj[p]] /\ obj[p] \in HRP
    BY DEF TypeOK, NormalBranch
  <1> QED
    BY <1>1, MoveKeeps, ConditionSimilar DEF NormalBranch

\* An install runs under the name in the spec, or under a new one.
LEMMA InstallKeeps ==
    ASSUME TypeOK, ProxyInv, NEW p \in Proxy, Install(p)
    PROVE  ProxyInv'
  <1> DEFINE c == obj[p].cluster
  <1>0. /\ obj[p] \in HRP
        /\ Running(p)
        /\ pc[p] \in NormalBranch
        /\ UNCHANGED <<api, cache, before>>
    BY DEF Install, TypeOK, Running, NormalBranch
  <1>1. \A n \in IF obj[p].releaseName = None THEN FreshName(c) ELSE {obj[p].releaseName} :
            n \in Name /\ SameName(n, obj[p].releaseName)
    BY <1>0, ConstantsAssumption DEF FreshName, Name, SameName, HRP
  <1> QED
    BY <1>0, <1>1, OutcomeKeeps, HelmStartsKeeps DEF Install

\* An upgrade runs under the name in the spec.
LEMMA UpgradeKeeps ==
    ASSUME TypeOK, ProxyInv, NEW p \in Proxy, Upgrade(p)
    PROVE  ProxyInv'
  <1>0. /\ obj[p].releaseName \in Name
        /\ Running(p)
        /\ pc[p] \in NormalBranch
        /\ UNCHANGED <<api, cache, before>>
    BY DEF Upgrade, TypeOK, Running, NormalBranch
  <1>1. SameName(obj[p].releaseName, obj[p].releaseName)
    BY DEF SameName
  <1> QED
    BY <1>0, <1>1, OutcomeKeeps, HelmStartsKeeps DEF Upgrade

\* The end of a Helm operation changes a condition, an annotation or the name.
LEMMA HelmEndsKeeps ==
    ASSUME TypeOK, ProxyInv, NEW p \in Proxy, HelmEnds(p)
    PROVE  ProxyInv'
  <1>0. target[p] \in Name /\ Running(p) /\ UNCHANGED <<api, cache, before>>
    BY DEF HelmEnds, TypeOK, Running
  <1>1. SameName(target[p], obj[p].releaseName)
    BY DEF ProxyInv, CopiesAgree, HelmEnds
  <1> QED
    BY <1>0, <1>1, OutcomeKeeps DEF HelmEnds

\* Only the end of a deletion takes the finalizer off the copy in memory.
LEMMA DeletionKeeps ==
    ASSUME TypeOK, ProxyInv, NEW p \in Proxy,
           ReconcileDelete(p) \/ Uninstall(p) \/ UninstallEnds(p)
    PROVE  ProxyInv'
  <1>0. /\ obj[p] \in HRP
        /\ Running(p)
        /\ pc[p] \in DeleteBranch
        /\ UNCHANGED <<api, cache, before>>
    BY DEF ReconcileDelete, Uninstall, UninstallEnds, TypeOK, Running, DeleteBranch
  <1>1. \A s \in {"uninstall", "helmUninstalling"} : Goto(p, s, obj[p]) => ProxyInv'
    BY <1>0, GotoKeeps, ConditionSimilar DEF DeleteBranch
  <1> QED
    BY <1>0, <1>1, OutcomeKeeps DEF ReconcileDelete, Uninstall, UninstallEnds

-----------------------------------------------------------------------------
(* ProxyInv: the requests of a patch.                                      *)

\* Steps of a patch that change no more of the stored object than its status.
LEMMA StatusRequestEffect ==
    ASSUME TypeOK, NEW p \in Proxy, PatchConditions(p) \/ PatchStatus(p)
    PROVE  /\ \A q \in Proxy : q # p => api'[q] = api[q] /\ pc'[q] = pc[q]
                                        /\ failed'[q] = failed[q]
           /\ (api[p] = None <=> api'[p] = None)
           /\ Exists(p) => /\ api'[p].cluster = api[p].cluster
                           /\ api'[p].releaseName = api[p].releaseName
                           /\ api'[p].deleting = api[p].deleting
                           /\ api'[p].finalizer = api[p].finalizer
           /\ UNCHANGED <<cache, call, before, obj, target, releases>>
           /\ \/ pc[p] = "patchConditions" /\ pc'[p] = "patchObject"
              \/ pc[p] = "patchStatus" /\ pc'[p] = "patched"
           /\ ~failed'[p] => ~failed[p]
  <1> USE DEF Exists
  <1>1. \A q \in Proxy : q # p => api'[q] = api[q] /\ pc'[q] = pc[q] /\ failed'[q] = failed[q]
    BY DEF PatchConditions, PatchStatus, Request, TypeOK
  <1>2. /\ (api[p] = None <=> api'[p] = None)
        /\ Exists(p) => /\ api'[p].cluster = api[p].cluster
                        /\ api'[p].releaseName = api[p].releaseName
                        /\ api'[p].deleting = api[p].deleting
                        /\ api'[p].finalizer = api[p].finalizer
    <2>1. obj[p] \in HRP /\ before[p] \in HRP
      BY DEF PatchConditions, PatchStatus, TypeOK
    <2>2. CASE api' = api
      BY <2>2
    <2>3. CASE Exists(p) /\ api' = [api EXCEPT ![p] =
                                      PatchedConditions(api[p], before[p], obj[p])]
      <3>1. api[p] \in HRP /\ api'[p] \in HRP /\ None \notin HRP
        BY <2>1, <2>3, PatchedObjectType, NoneIsNoObject DEF TypeOK
      <3> QED
        BY <2>3, <3>1 DEF TypeOK, HRP, PatchedConditions
    <2>4. CASE Exists(p) /\ api' = [api EXCEPT ![p] =
                                      [api[p] EXCEPT !.observed = obj[p].generation]]
      <3>1. api[p] \in HRP /\ api'[p] \in HRP /\ None \notin HRP
        BY <2>1, <2>4, PatchedObjectType, NoneIsNoObject DEF TypeOK
      <3> QED
        BY <2>4, <3>1 DEF TypeOK, HRP
    <2> QED
      BY <2>2, <2>3, <2>4 DEF PatchConditions, PatchStatus, Request
  <1>3. /\ UNCHANGED <<cache, call, before, obj, target, releases>>
        /\ \/ pc[p] = "patchConditions" /\ pc'[p] = "patchObject"
           \/ pc[p] = "patchStatus" /\ pc'[p] = "patched"
        /\ ~failed'[p] => ~failed[p]
    BY DEF PatchConditions, PatchStatus, Request, TypeOK
  <1> QED
    BY <1>1, <1>2, <1>3

\* They keep what is known of the object.
LEMMA StatusRequestKeeps ==
    ASSUME TypeOK, ProxyInv, NEW p \in Proxy, PatchConditions(p) \/ PatchStatus(p)
    PROVE  ProxyInv'
  <1> USE StatusRequestEffect DEF ProxyInv, Running, Holds, Exists
  <1>4. DeletingHasFinalizer'
    BY DEF DeletingHasFinalizer
  <1>5. CopiesAgree'
    BY DEF CopiesAgree, Agree, SameName
  <1>6. DeletionInOrder'
    BY DEF DeletionInOrder
  <1>7. FinalizerStays'
    BY DEF FinalizerStays
  <1>8. WorkerInBranch'
    BY DEF WorkerInBranch, NormalBranch, DeleteBranch, PatchSteps
  <1> QED
    BY <1>4, <1>5, <1>6, <1>7, <1>8

\* What patching metadata and spec does to the fields ownership rests on.
LEMMA PatchedObjectFields ==
    ASSUME NEW a \in HRP, NEW b \in HRP, NEW o \in HRP
    PROVE  /\ PatchedObject(a, b, o).cluster = a.cluster
           /\ PatchedObject(a, b, o).deleting = a.deleting
           /\ PatchedObject(a, b, o).releaseName
                = Merge(a.releaseName, b.releaseName, o.releaseName)
           /\ PatchedObject(a, b, o).finalizer = Merge(a.finalizer, b.finalizer, o.finalizer)
  BY DEF PatchedObject, WithName, HRP

\* The object patch either leaves the stored object alone, or writes the fields
\* that changed in memory, or removes the object with its finalizer.
LEMMA PatchObjectEffect ==
    ASSUME TypeOK, NEW p \in Proxy, PatchObject(p)
    PROVE  /\ \A q \in Proxy : q # p => api'[q] = api[q] /\ pc'[q] = pc[q]
                                        /\ failed'[q] = failed[q]
           /\ UNCHANGED <<cache, call, before, obj, target, releases, clusters>>
           /\ pc[p] = "patchObject" /\ pc'[p] = "patchStatus"
           /\ \/ /\ api' = api
                 /\ \/ obj[p].finalizer = before[p].finalizer
                    \/ failed'[p]
              \/ /\ Exists(p)
                 /\ api'[p] = Stored(PatchedObject(api[p], before[p], obj[p]))
  <1> DEFINE x == PatchedObject(api[p], before[p], obj[p])
  <1>1. /\ \/ api' = api
           \/ Exists(p) /\ api' = [api EXCEPT ![p] = Stored(x)]
        /\ failed' = failed \/ failed' = [failed EXCEPT ![p] = TRUE]
        /\ api' = api => \/ obj[p].finalizer = before[p].finalizer
                         \/ failed'[p]
                         \/ Exists(p) /\ api' = [api EXCEPT ![p] = Stored(x)]
    BY DEF PatchObject, Request, TypeOK
  <1> HIDE DEF x
  <1>2. Exists(p) /\ api' = [api EXCEPT ![p] = Stored(x)] => api'[p] = Stored(x)
    BY DEF TypeOK
  <1>3. /\ \A q \in Proxy : q # p => api'[q] = api[q] /\ pc'[q] = pc[q] /\ failed'[q] = failed[q]
        /\ pc[p] = "patchObject" /\ pc'[p] = "patchStatus"
        /\ UNCHANGED <<cache, call, before, obj, target, releases, clusters>>
    BY <1>1 DEF PatchObject, TypeOK
  <1> QED
    BY <1>1, <1>2, <1>3 DEF x

\* Patching metadata and spec loses the finalizer only at the end of a deletion.
LEMMA PatchObjectKeeps ==
    ASSUME TypeOK, ProxyInv, NEW p \in Proxy, PatchObject(p)
    PROVE  ProxyInv'
  <1> USE DEF ProxyInv, Running, Holds, Exists
  <1>0. obj[p] \in HRP /\ before[p] \in HRP /\ (Exists(p) => api[p] \in HRP)
    BY DEF PatchObject, TypeOK
  <1>1. CASE api' = api /\ (obj[p].finalizer = before[p].finalizer \/ failed'[p])
    <2>1. DeletingHasFinalizer' /\ CopiesAgree' /\ DeletionInOrder' /\ FinalizerStays'
      BY <1>1, PatchObjectEffect
         DEF DeletingHasFinalizer, CopiesAgree, Agree, SameName, DeletionInOrder, FinalizerStays
    <2>2. WorkerInBranch'
      BY <1>0, <1>1, PatchObjectEffect
         DEF WorkerInBranch, NormalBranch, DeleteBranch, PatchSteps, HRP
    <2> QED
      BY <2>1, <2>2
  <1>2. CASE Exists(p) /\ api'[p] = Stored(PatchedObject(api[p], before[p], obj[p]))
    <2> DEFINE x == PatchedObject(api[p], before[p], obj[p])
    <2>1. /\ x \in HRP
          /\ x.cluster = api[p].cluster
          /\ x.deleting = api[p].deleting
          /\ x.releaseName = Merge(api[p].releaseName, before[p].releaseName,
                                   obj[p].releaseName)
          /\ x.finalizer = Merge(api[p].finalizer, before[p].finalizer, obj[p].finalizer)
      <3>1. api[p] \in HRP /\ before[p] \in HRP /\ obj[p] \in HRP
        BY <1>0, <1>2
      <3>2. x \in HRP
        BY <3>1, PatchedObjectType
      <3>3. x.cluster = api[p].cluster
        BY <3>1, PatchedObjectFields
      <3>4. x.deleting = api[p].deleting
        BY <3>1, PatchedObjectFields
      <3>5. x.releaseName = Merge(api[p].releaseName, before[p].releaseName, obj[p].releaseName)
        BY <3>1, PatchedObjectFields
      <3>6. x.finalizer = Merge(api[p].finalizer, before[p].finalizer, obj[p].finalizer)
        BY <3>1, PatchedObjectFields
      <3> QED
        BY <3>2, <3>3, <3>4, <3>5, <3>6
    <2>2. api'[p] = Stored(x)
      BY <1>2
    <2> HIDE DEF x
    <2>3. x # None /\ (api'[p] = x \/ api'[p] = None)
          /\ (api'[p] = None <=> x.deleting /\ ~x.finalizer)
      BY <1>2, <2>1, <2>2, NoneIsNoObject DEF Stored
    <2>4. SameName(x.releaseName, obj[p].releaseName) /\ SameName(x.releaseName, before[p].releaseName)
          /\ SameName(x.releaseName, api[p].releaseName)
      BY <1>2, <2>1, <2>2, PatchObjectEffect DEF Merge, SameName, CopiesAgree, Agree
    <2>5. ~obj[p].deleting => (api[p].finalizer => x.finalizer)
      BY <1>0, <1>2, <2>1, <2>2, PatchObjectEffect DEF Merge, WorkerInBranch, HRP
    <2>6. DeletingHasFinalizer'
      BY <1>2, <2>1, <2>2, <2>3, PatchObjectEffect DEF DeletingHasFinalizer
    <2>7. CopiesAgree'
      BY <1>2, <2>1, <2>2, <2>3, <2>4, PatchObjectEffect DEF CopiesAgree, Agree, SameName
    <2>8. DeletionInOrder'
      BY <1>2, <2>1, <2>2, <2>3, PatchObjectEffect DEF DeletionInOrder
    <2>9. ~obj[p].deleting /\ api[p].finalizer => api'[p] # None /\ api'[p].finalizer
      BY <2>3, <2>5
    <2>10. FinalizerStays'
      BY <1>2, <2>1, <2>2, <2>9, PatchObjectEffect DEF FinalizerStays, DeletionInOrder
    <2>11. call[p] = "ensureFinalizer" => api'[p] # None /\ api'[p].finalizer
      BY <1>0, <1>2, <2>1, <2>2, <2>3, PatchObjectEffect DEF WorkerInBranch, PatchSteps, Merge, HRP
    <2>12. WorkerInBranch'
      BY <2>11, PatchObjectEffect DEF WorkerInBranch, NormalBranch, DeleteBranch, PatchSteps
    <2> QED
      BY <2>6, <2>7, <2>8, <2>10, <2>12
  <1> QED
    BY <1>1, <1>2, PatchObjectEffect

\* The worker goes on to Helm only after the finalizer has been written.
LEMMA PatchReturnsKeeps ==
    ASSUME TypeOK, TypeOK', ProxyInv, NEW p \in Proxy, PatchReturns(p)
    PROVE  ProxyInv'
  <1> USE DEF ProxyInv, Running, Holds, Exists
  <1>1. DeletingHasFinalizer'
    BY DEF PatchReturns, DeletingHasFinalizer
  <1>2. CopiesAgree'
    BY DEF PatchReturns, CopiesAgree, Goto, Patch, Finish, Agree, SameName, TypeOK
  <1>3. DeletionInOrder'
    BY DEF PatchReturns, Goto, Patch, Finish, TypeOK, DeletionInOrder
  <1>4. FinalizerStays'
    BY DEF PatchReturns, Goto, Patch, Finish, TypeOK, FinalizerStays
  <1>5. WorkerInBranch'
    BY DEF PatchReturns, Goto, Patch, Finish, TypeOK, WorkerInBranch,
           NormalBranch, DeleteBranch, PatchSteps
  <1> QED
    BY <1>1, <1>2, <1>3, <1>4, <1>5

-----------------------------------------------------------------------------
(* ProxyInv: the manager and the environment.                              *)

\* The cache takes over the stored object; a restart forgets the workers.
LEMMA ManagerKeeps ==
    ASSUME TypeOK, ProxyInv, Crash \/ \E p \in Proxy : CacheSync(p)
    PROVE  ProxyInv'
  <1> USE DEF ProxyInv, Running, Holds, Exists
  <1>1. CASE Crash
    <2>1. api' = api /\ cache' = api /\ \A q \in Proxy : pc'[q] = "idle"
      BY <1>1 DEF Crash
    <2>2. DeletingHasFinalizer' /\ CopiesAgree' /\ DeletionInOrder' /\ FinalizerStays'
      BY <2>1 DEF DeletingHasFinalizer, CopiesAgree, Agree, SameName, DeletionInOrder,
                  FinalizerStays
    <2>3. WorkerInBranch'
      BY <2>1 DEF WorkerInBranch, NormalBranch, DeleteBranch, PatchSteps
    <2> QED
      BY <2>2, <2>3
  <1>2. ASSUME NEW p \in Proxy, CacheSync(p)
        PROVE  ProxyInv'
    <2>1. /\ UNCHANGED <<api, pc, call, failed, before, obj, target>>
          /\ cache'[p] = api[p]
          /\ \A q \in Proxy : q # p => cache'[q] = cache[q]
      BY <1>2 DEF CacheSync, locals, TypeOK
    <2>2. DeletingHasFinalizer' /\ CopiesAgree'
      BY <2>1 DEF DeletingHasFinalizer, CopiesAgree, Agree, SameName
    <2>3. DeletionInOrder' /\ FinalizerStays'
      BY <2>1 DEF DeletionInOrder, FinalizerStays
    <2>4. WorkerInBranch'
      BY <2>1 DEF WorkerInBranch
    <2> QED
      BY <2>2, <2>3, <2>4
  <1> QED
    BY <1>1, <1>2

\* What the owner does to an object: it creates one nothing remembers, changes
\* what ownership does not depend on, or deletes it.
LEMMA OwnerEffect ==
    ASSUME TypeOK, NEW p \in Proxy, Owner(p)
    PROVE  /\ UNCHANGED <<cache, pc, call, failed, before, obj, target, releases>>
           /\ \A q \in Proxy : q # p => api'[q] = api[q]
           /\ \/ api[p] = None /\ cache[p] = None /\ pc[p] = "idle" /\ api'[p] # None
                 /\ ~api'[p].deleting
              \/ /\ api[p] # None
                 /\ \/ api'[p] = None /\ ~api[p].finalizer /\ ~api[p].deleting
                    \/ /\ api'[p] # None
                       /\ api'[p].cluster = api[p].cluster
                       /\ api'[p].releaseName = api[p].releaseName
                       /\ api'[p].finalizer = api[p].finalizer
                       /\ \/ api'[p].deleting = api[p].deleting
                          \/ api'[p].deleting /\ api[p].finalizer
  <1> USE DEF Exists
  <1> DEFINE Created == api[p] = None /\ cache[p] = None /\ pc[p] = "idle" /\ api'[p] # None
                        /\ ~api'[p].deleting
             Changed == /\ api[p] # None
                        /\ \/ api'[p] = None /\ ~api[p].finalizer /\ ~api[p].deleting
                           \/ /\ api'[p] # None
                              /\ api'[p].cluster = api[p].cluster
                              /\ api'[p].releaseName = api[p].releaseName
                              /\ api'[p].finalizer = api[p].finalizer
                              /\ \/ api'[p].deleting = api[p].deleting
                                 \/ api'[p].deleting /\ api[p].finalizer
  <1>0. /\ UNCHANGED <<cache, pc, call, failed, before, obj, target, releases>>
        /\ \A q \in Proxy : q # p => api'[q] = api[q]
    BY DEF Owner, CreateProxy, UpdateProxy, DeleteProxy, locals, TypeOK
  <1>3. ASSUME NEW c \in Cluster, NEW n \in SpecName, NEW content \in Content,
               NEW keep \in KeepHistory, CreateProxy(p, c, n, content, keep)
        PROVE  Created \/ Changed
    <2>1. api'[p] \in HRP
      <3>1. n \in Name \union {None} /\ keep \in BOOLEAN
        BY ConstantsAssumption DEF Name
      <3> QED
        BY <1>3, <3>1 DEF CreateProxy, TypeOK, HRP
    <2>2. ~api'[p].deleting
      BY <1>3 DEF CreateProxy, TypeOK
    <2> QED
      BY <1>3, <2>1, <2>2, NoneIsNoObject DEF CreateProxy, Exists
  <1>4. ASSUME NEW content \in Content, NEW keep \in KeepHistory,
               UpdateProxy(p, content, keep)
        PROVE  Created \/ Changed
    <2> DEFINE x == [api[p] EXCEPT !.content = content, !.keepHistory = keep,
                                   !.generation = @ + 1]
    <2>1. api[p] \in HRP /\ keep \in BOOLEAN
      BY <1>4, ConstantsAssumption DEF UpdateProxy, TypeOK
    <2>2. /\ x \in HRP
          /\ x.cluster = api[p].cluster
          /\ x.releaseName = api[p].releaseName
          /\ x.finalizer = api[p].finalizer
          /\ x.deleting = api[p].deleting
      <3>1. api[p].generation + 1 \in Nat
        BY <2>1 DEF HRP
      <3>2. x \in HRP
        BY <2>1, <3>1 DEF HRP
      <3>3. /\ x.cluster = api[p].cluster
            /\ x.releaseName = api[p].releaseName
            /\ x.finalizer = api[p].finalizer
            /\ x.deleting = api[p].deleting
        BY <2>1 DEF HRP
      <3> QED
        BY <3>2, <3>3
    <2> HIDE DEF x
    <2>3. api'[p] = x /\ api[p] # None
      BY <1>4 DEF UpdateProxy, TypeOK, x
    <2> QED
      BY <2>2, <2>3, NoneIsNoObject
  <1>5. ASSUME DeleteProxy(p)
        PROVE  Created \/ Changed
    <2> DEFINE x == [api[p] EXCEPT !.deleting = TRUE, !.generation = @ + 1]
    <2>1. api[p] \in HRP
      BY <1>5 DEF DeleteProxy, TypeOK
    <2>2. /\ x \in HRP
          /\ x.cluster = api[p].cluster
          /\ x.releaseName = api[p].releaseName
          /\ x.finalizer = api[p].finalizer
          /\ x.deleting
      <3>1. api[p].generation + 1 \in Nat
        BY <2>1 DEF HRP
      <3>2. x \in HRP
        BY <2>1, <3>1 DEF HRP
      <3>3. /\ x.cluster = api[p].cluster
            /\ x.releaseName = api[p].releaseName
            /\ x.finalizer = api[p].finalizer
        BY <2>1 DEF HRP
      <3>4. x.deleting
        BY <2>1 DEF HRP
      <3> QED
        BY <3>2, <3>3, <3>4
    <2> HIDE DEF x
    <2>3. api'[p] = Stored(x) /\ api[p] # None /\ ~api[p].deleting
      BY <1>5 DEF DeleteProxy, TypeOK, x
    <2> QED
      BY <2>2, <2>3, NoneIsNoObject DEF Stored
  <1> QED
    BY <1>0, <1>3, <1>4, <1>5 DEF Owner

\* The owner's actions keep what is known of an object and its copies.
LEMMA OwnerActionKeeps ==
    ASSUME TypeOK, ProxyInv, NEW p \in Proxy, Owner(p)
    PROVE  ProxyInv'
  <1> USE OwnerEffect DEF ProxyInv, Running, Holds, Exists
  <1>1. DeletingHasFinalizer'
    BY DEF DeletingHasFinalizer
  <1>2. CopiesAgree'
    BY DEF CopiesAgree, Agree, SameName
  <1>3. DeletionInOrder' /\ FinalizerStays'
    BY DEF DeletionInOrder, FinalizerStays
  <1>4. WorkerInBranch'
    BY DEF WorkerInBranch, NormalBranch, DeleteBranch, PatchSteps
  <1> QED
    BY <1>1, <1>2, <1>3, <1>4

\* Clusters that come and go change no object.
LEMMA ClusterActionKeeps ==
    ASSUME ProxyInv, NEW c \in Cluster, ClusterReady(c) \/ ClusterGone(c)
    PROVE  ProxyInv'
  <1>1. UNCHANGED <<api, cache, pc, call, failed, before, obj, target>>
    BY DEF ClusterReady, ClusterGone, locals
  <1> QED
    BY <1>1 DEF ProxyInv, DeletingHasFinalizer, CopiesAgree, Agree, DeletionInOrder,
         FinalizerStays, WorkerInBranch, Running, Holds, Exists

\* Every step keeps what is known of an object and its copies.
LEMMA ProxyInvKept ==
    ASSUME TypeOK, TypeOK', ProxyInv, [Next]_vars
    PROVE  ProxyInv'
  <1>1. ASSUME NEW p \in Proxy, WorkerStep(p)
        PROVE  ProxyInv'
    BY <1>1, ReconcileKeeps, ExamineKeeps, GetClusterKeeps, ReconcileNormalKeeps, InstallKeeps,
       UpgradeKeeps, HelmEndsKeeps, DeletionKeeps, StatusRequestKeeps, PatchObjectKeeps,
       PatchReturnsKeeps
       DEF WorkerStep
  <1>2. CASE UNCHANGED vars
    BY <1>2 DEF vars, locals, ProxyInv, DeletingHasFinalizer, CopiesAgree, Agree,
         DeletionInOrder, FinalizerStays, WorkerInBranch, Running, Holds, Exists
  <1> QED
    BY <1>1, <1>2, ManagerKeeps, OwnerActionKeeps, ClusterActionKeeps DEF Next

-----------------------------------------------------------------------------
(* GoneIsEmpty and NamedOwner.                                             *)

\* SetRelease changes one release.
LEMMA SetReleaseEffect ==
    ASSUME TypeOK, NEW c \in Cluster, NEW n \in Name, NEW r, SetRelease(c, n, r)
    PROVE  /\ releases'[c][n] = r
           /\ \A d \in Cluster, m \in Name :
                  d # c \/ m # n => releases'[d][m] = releases[d][m]
  BY DEF SetRelease, TypeOK

\* What a worker's step may do to the releases: nothing; write one in a Cluster
\* that can be reached; or record the end of an operation.
LEMMA ReleaseEffect ==
    ASSUME TypeOK, ProxyInv, NEW p \in Proxy, WorkerStep(p)
    PROVE  /\ clusters' = clusters
           /\ \/ releases' = releases
              \/ /\ pc[p] \in NormalBranch
                 /\ obj[p].cluster \in Cluster
                 /\ \E n \in Name : \E r :
                      /\ SameName(n, obj[p].releaseName)
                      /\ SetRelease(obj[p].cluster, n, r)
                      /\ \/ clusters[obj[p].cluster] = "ready"
                         \/ releases[obj[p].cluster][n] = NoRelease => r = NoRelease
              \/ /\ pc[p] \in DeleteBranch
                 /\ obj[p].cluster \in Cluster
                 /\ obj[p].releaseName \in Name
                 /\ clusters[obj[p].cluster] = "ready"
                 /\ \E r : /\ SetRelease(obj[p].cluster, obj[p].releaseName, r)
                           /\ Live(r) => Live(releases[obj[p].cluster][obj[p].releaseName])
  <1>1. ASSUME pc[p] # "idle"
        PROVE  obj[p] \in HRP /\ obj[p].cluster \in Cluster
    BY <1>1 DEF TypeOK, HRP
  <1>2. CASE ReconcileNormal(p)
    <2>1. pc[p] \in NormalBranch /\ obj[p] \in HRP /\ obj[p].cluster \in Cluster
      BY <1>1, <1>2 DEF ReconcileNormal, NormalBranch
    <2>2. clusters' = clusters
      BY <1>2 DEF ReconcileNormal
    <2>3. \/ releases' = releases
          \/ /\ obj[p].releaseName # None
             /\ clusters[obj[p].cluster] = "ready"
             /\ FoundRelease(p, obj[p].cluster, obj[p].releaseName)
      BY <1>2 DEF ReconcileNormal, HelmWorks
    <2>4. obj[p].releaseName # None => obj[p].releaseName \in Name
      BY <2>1 DEF HRP
    <2> QED
      BY <2>1, <2>2, <2>3, <2>4 DEF FoundRelease, SameName
  <1>3. CASE Install(p)
    <2>1. pc[p] \in NormalBranch /\ obj[p] \in HRP /\ obj[p].cluster \in Cluster
      BY <1>1, <1>3 DEF Install, NormalBranch
    <2>2. \A n \in IF obj[p].releaseName = None THEN FreshName(obj[p].cluster)
                                                ELSE {obj[p].releaseName} :
              n \in Name /\ SameName(n, obj[p].releaseName)
      BY <2>1, ConstantsAssumption DEF FreshName, Name, SameName, HRP
    <2> QED
      BY <1>3, <2>1, <2>2 DEF Install, HelmWorks
  <1>4. CASE Upgrade(p)
    <2>1. pc[p] \in NormalBranch /\ obj[p].releaseName \in Name /\ obj[p].cluster \in Cluster
      BY <1>1, <1>4 DEF Upgrade, NormalBranch, TypeOK
    <2> QED
      BY <1>4, <2>1 DEF Upgrade, HelmWorks, SameName
  <1>5. CASE HelmEnds(p)
    <2>1. pc[p] \in NormalBranch /\ target[p] \in Name /\ obj[p].cluster \in Cluster
      BY <1>1, <1>5 DEF HelmEnds, NormalBranch, TypeOK
    <2>2. SameName(target[p], obj[p].releaseName)
      BY <1>5 DEF HelmEnds, ProxyInv, CopiesAgree
    <2> QED
      BY <1>5, <2>1, <2>2 DEF HelmEnds, Record
  <1>6. CASE Uninstall(p) \/ UninstallEnds(p)
    <2>1. pc[p] \in DeleteBranch /\ obj[p].releaseName \in Name /\ obj[p].cluster \in Cluster
      BY <1>1, <1>6 DEF Uninstall, UninstallEnds, DeleteBranch, TypeOK
    <2>2. clusters' = clusters
      BY <1>6 DEF Uninstall, UninstallEnds
    <2>3. CASE Uninstall(p)
      <3> DEFINE release == releases[obj[p].cluster][obj[p].releaseName]
      <3>1. Uninstallable(release, obj[p].keepHistory) /\ release.status # "uninstalled"
              => Live(release)
        BY DEF Uninstallable, Live
      <3>2. ~Live(NoRelease)
        BY DEF Live
      <3> QED
        BY <2>1, <2>2, <2>3, <3>1, <3>2 DEF Uninstall, HelmWorks
    <2>4. CASE UninstallEnds(p)
      <3>1. \A r, keep : ~Live(EndUninstall(r, keep))
        BY DEF EndUninstall, Record, Live
      <3> QED
        BY <2>1, <2>2, <2>4, <3>1 DEF UninstallEnds, HelmWorks
    <2> QED
      BY <1>6, <2>3, <2>4
  <1>7. CASE \/ Reconcile(p) \/ Examine(p) \/ GetCluster(p) \/ DeleteGetCluster(p)
             \/ ReconcileDelete(p) \/ PatchConditions(p) \/ PatchObject(p) \/ PatchStatus(p)
             \/ PatchReturns(p)
    BY <1>7 DEF Reconcile, Examine, GetCluster, DeleteGetCluster, ReconcileDelete,
         PatchConditions, PatchObject, PatchStatus, PatchReturns
  <1> QED
    BY <1>2, <1>3, <1>4, <1>5, <1>6, <1>7 DEF WorkerStep

\* Nothing is ever written to a Cluster that is gone.
LEMMA GoneIsEmptyKept ==
    ASSUME TypeOK, ProxyInv, GoneIsEmpty, [Next]_vars
    PROVE  GoneIsEmpty'
  <1>1. ASSUME NEW p \in Proxy, WorkerStep(p)
        PROVE  GoneIsEmpty'
    <2>1. ASSUME NEW c \in Cluster, NEW n \in Name, NEW r, SetRelease(c, n, r),
                 \/ clusters[c] = "ready"
                 \/ releases[c][n] = NoRelease => r = NoRelease,
                 clusters' = clusters
          PROVE  GoneIsEmpty'
      BY <2>1, SetReleaseEffect DEF GoneIsEmpty
    <2> QED
      BY <1>1, <2>1, ReleaseEffect DEF GoneIsEmpty
  <1>2. ASSUME NEW c \in Cluster, ClusterReady(c) \/ ClusterGone(c)
        PROVE  GoneIsEmpty'
    BY <1>2 DEF ClusterReady, ClusterGone, GoneIsEmpty, TypeOK
  <1>3. CASE Crash \/ (\E p \in Proxy : CacheSync(p) \/ Owner(p)) \/ UNCHANGED vars
    BY <1>3 DEF Crash, CacheSync, Owner, CreateProxy, UpdateProxy, DeleteProxy, vars,
         GoneIsEmpty
  <1> QED
    BY <1>1, <1>2, <1>3 DEF Next

\* A worker that may install or upgrade owns the release it works on.
LEMMA NormalBranchOwns ==
    ASSUME TypeOK, ProxyInv, NEW p \in Proxy, pc[p] \in NormalBranch,
           NEW n \in UserName, SameName(n, obj[p].releaseName)
    PROVE  Owns(p, obj[p].cluster, n) /\ ~obj[p].deleting
  <1>1. Running(p) /\ Holds(p) /\ ~obj[p].deleting
    BY DEF ProxyInv, WorkerInBranch, NormalBranch, Running
  <1>2. Agree(obj[p], api[p])
    BY <1>1 DEF ProxyInv, CopiesAgree, Holds
  <1> QED
    BY <1>1, <1>2 DEF Agree, SameName, Owns, Holds

\* A worker gives up its object only once its release is not there any more.
LEMMA GivesUpSafely ==
    ASSUME TypeOK, ProxyInv, ProxyInv', GoneIsEmpty, ReconcileStrategy = "Continuous",
           NEW p \in Proxy, WorkerStep(p),
           ~Releasing(p), Releasing(p)',
           NEW c \in Cluster, NEW n \in Name,
           pc[p] \in DeleteBranch => c = obj[p].cluster /\ n = obj[p].releaseName
    PROVE  ~Live(releases'[c][n])
  <1> DEFINE deleted == [obj[p] EXCEPT !.releaseReady = "HelmReleaseDeleted"]
  <1>1. n # None /\ ~Live(NoRelease)
    BY ConstantsAssumption DEF Live
  <1>2. ASSUME Running(p), before' = before
        PROVE  obj'[p].deleting = obj[p].deleting
    BY <1>2 DEF ProxyInv, CopiesAgree, Releasing, Running
  <1>3. ASSUME \/ DeleteGetCluster(p) \/ ReconcileDelete(p) \/ Uninstall(p) \/ UninstallEnds(p)
        PROVE  c = obj[p].cluster /\ n = obj[p].releaseName
    BY <1>3 DEF DeleteGetCluster, ReconcileDelete, Uninstall, UninstallEnds, DeleteBranch
  <1>4. CASE Reconcile(p)
    <2>1. cache[p] \in HRP /\ obj'[p].deleting = cache[p].deleting
          /\ obj'[p].finalizer = cache[p].finalizer
      BY <1>4 DEF Reconcile, Goto, Patch, TypeOK, HRP
    <2> QED
      BY <1>4, <2>1 DEF Reconcile, Releasing, ProxyInv, DeletingHasFinalizer
  <1>5. CASE \/ GetCluster(p) \/ ReconcileNormal(p) \/ Install(p) \/ Upgrade(p) \/ HelmEnds(p)
    <2>1. pc[p] \in NormalBranch /\ Running(p) /\ before' = before
      BY <1>5 DEF GetCluster, ReconcileNormal, Install, Upgrade, HelmEnds, NormalBranch, Running
    <2> QED
      BY <1>2, <2>1 DEF ProxyInv, WorkerInBranch, Releasing
  <1>6. CASE Examine(p)
    <2>1. Running(p) /\ obj[p] \in HRP
      BY <1>6 DEF Examine, Running, TypeOK
    <2>2. obj'[p] = obj[p] \/ obj'[p] = [obj[p] EXCEPT !.finalizer = TRUE]
      BY <1>6 DEF Examine, Goto, Patch, TypeOK
    <2> QED
      BY <2>1, <2>2 DEF Releasing, HRP
  <1>7. CASE PatchConditions(p) \/ PatchObject(p) \/ PatchStatus(p) \/ PatchReturns(p)
    <2>1. Running(p) /\ (obj'[p] = obj[p] \/ ~Running(p)')
      BY <1>7 DEF PatchConditions, PatchObject, PatchStatus, PatchReturns, Goto, Patch, Finish,
                  Running, TypeOK
    <2> QED
      BY <2>1 DEF Releasing
  <1>8. ASSUME pc[p] # "idle", NEW o \in HRP, o.finalizer = obj[p].finalizer,
               o.deleting = obj[p].deleting, obj' = [obj EXCEPT ![p] = o]
        PROVE  FALSE
    BY <1>8 DEF Releasing, Running, TypeOK
  <1>9. ASSUME pc[p] # "idle"
        PROVE  /\ \A r \in ClusterAvailableReason :
                      ~Patch(p, [obj[p] EXCEPT !.clusterAvailable = r], "deferred")
               /\ \A r \in HelmReleaseReadyReason :
                      ~Patch(p, [obj[p] EXCEPT !.releaseReady = r], "deferred")
               /\ \A step : ~Goto(p, step, obj[p])
               /\ \A step : \A r \in ClusterAvailableReason :
                      ~Goto(p, step, [obj[p] EXCEPT !.clusterAvailable = r])
    <2>1. obj[p] \in HRP
      BY <1>9 DEF TypeOK
    <2>2. /\ \A r \in ClusterAvailableReason :
                 /\ [obj[p] EXCEPT !.clusterAvailable = r] \in HRP
                 /\ [obj[p] EXCEPT !.clusterAvailable = r].deleting = obj[p].deleting
                 /\ [obj[p] EXCEPT !.clusterAvailable = r].finalizer = obj[p].finalizer
          /\ \A r \in HelmReleaseReadyReason :
                 /\ [obj[p] EXCEPT !.releaseReady = r] \in HRP
                 /\ [obj[p] EXCEPT !.releaseReady = r].deleting = obj[p].deleting
                 /\ [obj[p] EXCEPT !.releaseReady = r].finalizer = obj[p].finalizer
      BY <2>1, ConditionSimilar DEF Similar
    <2> QED
      BY <1>8, <1>9, <2>1, <2>2 DEF Patch, Goto
  <1>10. CASE DeleteGetCluster(p)
    <2>1. pc[p] # "idle" /\ releases' = releases
      BY <1>10 DEF DeleteGetCluster
    <2>2. /\ ~Patch(p, [obj[p] EXCEPT !.clusterAvailable = "GetClusterFailed"], "deferred")
          /\ ~Patch(p, [obj[p] EXCEPT !.clusterAvailable = "GetKubeconfigFailed"], "deferred")
          /\ ~Goto(p, "reconcileDelete", [obj[p] EXCEPT !.clusterAvailable = "Available"])
      BY <1>9, <2>1 DEF ClusterAvailableReason
    <2>3. clusters[obj[p].cluster] = "gone"
      BY <1>10, <2>2 DEF DeleteGetCluster
    <2> QED
      BY <1>1, <1>3, <1>10, <2>1, <2>3 DEF GoneIsEmpty, DeleteGetCluster, Running
  <1>11. CASE ReconcileDelete(p)
    <2>1. releases' = releases /\ Running(p)
      BY <1>11 DEF ReconcileDelete, Running
    <2>2. releases[c][n] = NoRelease
      BY <1>1, <1>3, <1>9, <1>11, <2>1 DEF ReconcileDelete, HelmReleaseReadyReason
    <2> QED
      BY <1>1, <2>1, <2>2
  <1>12. CASE Uninstall(p)
    <2>1. Running(p) /\ ~DeletionFailed(p)
      BY <1>9, <1>12 DEF Uninstall, Running, DeletionFailed, HelmReleaseReadyReason
    <2>2. SetRelease(c, n, NoRelease)
      BY <1>3, <1>9, <1>12, <2>1 DEF Uninstall
    <2> QED
      BY <1>1, <2>2, SetReleaseEffect
  <1>13. CASE UninstallEnds(p)
    <2>1. Running(p) /\ ~DeletionFailed(p)
      BY <1>9, <1>13 DEF UninstallEnds, Running, DeletionFailed, HelmReleaseReadyReason
    <2>2. SetRelease(c, n, EndUninstall(releases[c][n], obj[p].keepHistory))
      BY <1>3, <1>13, <2>1 DEF UninstallEnds
    <2>3. \A r, keep : ~Live(EndUninstall(r, keep))
      BY DEF EndUninstall, Record, Live
    <2> QED
      BY <1>1, <2>2, <2>3, SetReleaseEffect
  <1> QED
    BY <1>4, <1>5, <1>6, <1>7, <1>10, <1>11, <1>12, <1>13 DEF WorkerStep

LEMMA ReleasingIsSafe ==
    ASSUME TypeOK, ProxyInv, ProxyInv', GoneIsEmpty, ReconcileStrategy = "Continuous",
           NEW p \in Proxy, WorkerStep(p),
           ~Releasing(p), Releasing(p)',
           NEW c \in Cluster, NEW n \in UserName, Owns(p, c, n)
    PROVE  ~Live(releases'[c][n])
  <1>1. pc[p] \in DeleteBranch => c = obj[p].cluster /\ n = obj[p].releaseName
    BY DEF ProxyInv, CopiesAgree, Agree, SameName, Owns, Exists, Running, DeleteBranch
  <1>2. n \in Name
    BY DEF Name
  <1> QED
    BY <1>1, <1>2, GivesUpSafely

\* The steps that change no object in the API server.
LEMMA QuietStepOwner ==
    ASSUME TypeOK, ProxyInv, ProxyInv', GoneIsEmpty, NamedOwner,
           NEW p \in Proxy, WorkerStep(p), api' = api,
           \A q \in Proxy : q # p => pc'[q] = pc[q] /\ obj'[q] = obj[q]
    PROVE  NamedOwner'
  <1> SUFFICES ASSUME ReconcileStrategy = "Continuous",
                      NEW c \in Cluster, NEW n \in UserName, Live(releases'[c][n])
               PROVE  \E q \in Proxy : (Owns(q, c, n) /\ ~Releasing(q))'
    BY DEF NamedOwner
  <1>1. \A q \in Proxy : /\ Owns(q, c, n)' <=> Owns(q, c, n)
                         /\ q # p => (Releasing(q)' <=> Releasing(q))
    BY DEF Owns, Exists, Releasing, Running
  <1>2. CASE Live(releases[c][n])
    <2>1. PICK q \in Proxy : Owns(q, c, n) /\ ~Releasing(q)
      BY <1>2 DEF NamedOwner
    <2>2. ~Releasing(q)'
      BY <2>1, <1>1, ReleasingIsSafe
    <2> QED
      BY <1>1, <2>1, <2>2
  <1>3. CASE ~Live(releases[c][n])
    <2>0. n \in Name
      BY DEF Name
    <2>1. /\ pc[p] \in NormalBranch
          /\ c = obj[p].cluster
          /\ SameName(n, obj[p].releaseName)
      BY <1>3, <2>0, ReleaseEffect, SetReleaseEffect
    <2>2. Owns(p, c, n) /\ ~obj[p].deleting
      BY <2>1, NormalBranchOwns
    <2>3. ~Releasing(p)'
      BY <2>2, <1>3, ReleasingIsSafe, <2>1 DEF Releasing
    <2> QED
      BY <1>1, <2>2, <2>3
  <1> QED
    BY <1>2, <1>3

\* An owner that neither loses its object nor gives it up goes on owning, and
\* is enough when no release appears.
LEMMA OwnersStay ==
    ASSUME NamedOwner,
           \A c \in Cluster, n \in UserName :
               /\ Live(releases'[c][n]) => Live(releases[c][n])
               /\ Live(releases'[c][n]) => \A q \in Proxy :
                      Owns(q, c, n) /\ ~Releasing(q) => (Owns(q, c, n) /\ ~Releasing(q))'
    PROVE  NamedOwner'
  BY DEF NamedOwner

\* The requests of a patch keep every owner: a worker that is not giving up its
\* object does not take the finalizer away, and never changes a name from a spec.
LEMMA RequestStepOwner ==
    ASSUME TypeOK, ProxyInv, NamedOwner, NEW p \in Proxy,
           PatchConditions(p) \/ PatchObject(p) \/ PatchStatus(p)
    PROVE  NamedOwner'
  <1>1. CASE PatchConditions(p) \/ PatchStatus(p)
    BY <1>1, StatusRequestEffect, OwnersStay DEF Owns, Exists, Releasing, Running
  <1>2. CASE PatchObject(p)
    <2> DEFINE x == PatchedObject(api[p], before[p], obj[p])
    <2>1. /\ releases' = releases
          /\ \A q \in Proxy : Releasing(q)' <=> Releasing(q)
      BY <1>2, PatchObjectEffect DEF Releasing, Running
    <2>2. ASSUME NEW c \in Cluster, NEW n \in UserName, Owns(p, c, n), ~Releasing(p)
          PROVE  Owns(p, c, n)'
      <3>1. /\ api[p] \in HRP /\ obj[p] \in HRP /\ before[p] \in HRP /\ Running(p)
            /\ pc[p] = "patchObject"
        BY <1>2, <2>2 DEF PatchObject, TypeOK, Owns, Exists, Running
      <3>2. /\ x \in HRP
            /\ x.cluster = api[p].cluster
            /\ x.deleting = api[p].deleting
            /\ x.releaseName = Merge(api[p].releaseName, before[p].releaseName,
                                     obj[p].releaseName)
            /\ x.finalizer = Merge(api[p].finalizer, before[p].finalizer, obj[p].finalizer)
        <4>1. x \in HRP
          BY <3>1, PatchedObjectType
        <4>2. x.cluster = api[p].cluster /\ x.deleting = api[p].deleting
          BY <3>1, PatchedObjectFields
        <4>3. x.releaseName = Merge(api[p].releaseName, before[p].releaseName,
                                    obj[p].releaseName)
          BY <3>1, PatchedObjectFields
        <4>4. x.finalizer = Merge(api[p].finalizer, before[p].finalizer, obj[p].finalizer)
          BY <3>1, PatchedObjectFields
        <4> QED
          BY <4>1, <4>2, <4>3, <4>4
      <3>3. api'[p] = api[p] \/ api'[p] = Stored(x)
        BY <1>2, PatchObjectEffect
      <3> HIDE DEF x
      <3>4. x.releaseName = n
        BY <2>2, <3>1, <3>2 DEF Owns, Exists, Merge, ProxyInv, CopiesAgree, Agree, SameName
      <3>5. x.finalizer
        <4>1. CASE obj[p].deleting
          BY <2>2, <3>1, <3>2, <4>1 DEF Owns, Merge, Releasing, HRP
        <4>2. CASE ~obj[p].deleting
          BY <2>2, <3>1, <3>2, <4>2 DEF Owns, Merge, ProxyInv, WorkerInBranch, HRP
        <4> QED
          BY <4>1, <4>2
      <3> QED
        BY <2>2, <3>2, <3>3, <3>4, <3>5, NoneIsNoObject DEF Owns, Exists, Stored
    <2>3. \A q \in Proxy, c \in Cluster, n \in UserName :
              Owns(q, c, n) /\ ~Releasing(q) => Owns(q, c, n)'
      BY <1>2, <2>2, PatchObjectEffect DEF Owns, Exists
    <2> QED
      BY <2>1, <2>3, OwnersStay
  <1> QED
    BY <1>1, <1>2

\* So does every step outside the workers.
LEMMA EnvironmentStepOwner ==
    ASSUME TypeOK, NamedOwner,
           \/ Crash
           \/ \E p \in Proxy : CacheSync(p) \/ Owner(p)
           \/ \E c \in Cluster : ClusterReady(c) \/ ClusterGone(c)
           \/ UNCHANGED vars
    PROVE  NamedOwner'
  <1>1. CASE Crash
    BY <1>1, OwnersStay DEF Crash, Owns, Exists, Releasing, Running
  <1>2. CASE (\E p \in Proxy : CacheSync(p)) \/ UNCHANGED vars
    BY <1>2, OwnersStay DEF CacheSync, vars, locals, Owns, Exists, Releasing, Running
  <1>3. ASSUME NEW p \in Proxy, Owner(p)
        PROVE  NamedOwner'
    BY <1>3, OwnerEffect, OwnersStay DEF Owns, Exists, Releasing, Running
  <1>4. ASSUME NEW c \in Cluster, ClusterReady(c) \/ ClusterGone(c)
        PROVE  NamedOwner'
    <2>1. \A d \in Cluster, n \in UserName : Live(releases'[d][n]) => Live(releases[d][n])
      BY <1>4 DEF ClusterReady, ClusterGone, Live, TypeOK, Name
    <2>2. UNCHANGED <<api, pc, obj>>
      BY <1>4 DEF ClusterReady, ClusterGone, locals
    <2> QED
      BY <2>1, <2>2, OwnersStay DEF Owns, Exists, Releasing, Running
  <1> QED
    BY <1>1, <1>2, <1>3, <1>4

\* A worker's step that is no request of a patch changes no object in the API
\* server, and nothing of another worker.
LEMMA QuietSteps ==
    ASSUME TypeOK, NEW p \in Proxy, WorkerStep(p),
           ~(PatchConditions(p) \/ PatchObject(p) \/ PatchStatus(p))
    PROVE  /\ api' = api
           /\ \A q \in Proxy : q # p => pc'[q] = pc[q] /\ obj'[q] = obj[q]
  <1>1. CASE \/ Reconcile(p) \/ Examine(p) \/ GetCluster(p) \/ DeleteGetCluster(p)
             \/ ReconcileDelete(p) \/ PatchReturns(p)
    BY <1>1 DEF Reconcile, Examine, GetCluster, DeleteGetCluster, ReconcileDelete, PatchReturns,
         Goto, Patch, RemoveFinalizer, Finish, TypeOK
  <1>2. CASE \/ ReconcileNormal(p) \/ Install(p) \/ Upgrade(p) \/ HelmEnds(p)
             \/ Uninstall(p) \/ UninstallEnds(p)
    BY <1>2 DEF ReconcileNormal, Install, Upgrade, HelmEnds, Uninstall, UninstallEnds,
         FoundRelease, InstallOrUpgradeFailed, InstallOrUpgradeReturned, DeletionFailed,
         RemoveFinalizer, Goto, Patch, TypeOK
  <1> QED
    BY <1>1, <1>2 DEF WorkerStep

\* Every step keeps an owner for every release with a name from a spec.
LEMMA NamedOwnerKept ==
    ASSUME TypeOK, ProxyInv, ProxyInv', GoneIsEmpty, NamedOwner, [Next]_vars
    PROVE  NamedOwner'
  <1>1. ASSUME NEW p \in Proxy, WorkerStep(p)
        PROVE  NamedOwner'
    BY <1>1, RequestStepOwner, QuietSteps, QuietStepOwner
  <1> QED
    BY <1>1, EnvironmentStepOwner DEF Next

-----------------------------------------------------------------------------
\* The invariant, taken apart the way it is proved.
LEMMA OwnershipParts == OwnershipInv <=> ProxyInv /\ GoneIsEmpty /\ NamedOwner
  BY DEF OwnershipInv, ProxyInv

\* Every reachable state satisfies OwnershipInv, the inductive invariant that
\* relates an object, its copies, its worker and its release.
THEOREM OwnershipInvariant == Spec => []OwnershipInv
  <1>1. Init => OwnershipInv
    <2>1. ASSUME Init
          PROVE  /\ \A p \in Proxy : api[p] = None /\ cache[p] = None /\ pc[p] = "idle"
                 /\ \A c \in Cluster, n \in Name : releases[c][n] = NoRelease
      BY <2>1 DEF Init
    <2>2. Init => ProxyInv
      BY <2>1 DEF ProxyInv, DeletingHasFinalizer, CopiesAgree, DeletionInOrder, FinalizerStays,
                  WorkerInBranch, NormalBranch, DeleteBranch, PatchSteps, Running, Holds, Exists
    <2>3. Init => GoneIsEmpty
      BY <2>1 DEF GoneIsEmpty
    <2>4. Init => NamedOwner
      BY <2>1 DEF NamedOwner, Live, Name
    <2> QED
      BY <2>2, <2>3, <2>4, OwnershipParts
  <1>2. TypeOK /\ TypeOK' /\ OwnershipInv /\ [Next]_vars => OwnershipInv'
    <2> SUFFICES ASSUME TypeOK, TypeOK', OwnershipInv, [Next]_vars
                 PROVE  OwnershipInv'
      OBVIOUS
    <2>1. ProxyInv /\ GoneIsEmpty /\ NamedOwner
      BY OwnershipParts
    <2>2. ProxyInv'
      BY <2>1, ProxyInvKept
    <2>3. GoneIsEmpty' /\ NamedOwner'
      BY <2>1, <2>2, GoneIsEmptyKept, NamedOwnerKept
    <2> QED
      BY <2>2, <2>3 DEF OwnershipInv, ProxyInv
  <1> QED
    BY <1>1, <1>2, TypeCorrect, PTL DEF Spec

\* No release with a name from a spec is left behind: for any number of objects,
\* Clusters and faults a HelmReleaseProxy with the finalizer names it.
THEOREM NamedReleasesOwned == Spec => []NamedReleaseOwned
  <1>1. OwnershipInv => NamedReleaseOwned
    BY DEF OwnershipInv, NamedOwner, NamedReleaseOwned
  <1> QED
    BY <1>1, OwnershipInvariant, PTL

\* Whatever the cache's lag, Helm installs and upgrades only for an object that
\* is in the API server with the finalizer.
THEOREM FinalizerBeforeHelm == Spec => []FinalizerGuardsHelm
  <1>1. OwnershipInv => FinalizerGuardsHelm
    BY DEF OwnershipInv, WorkerInBranch, NormalBranch, Holds, FinalizerGuardsHelm
  <1> QED
    BY <1>1, OwnershipInvariant, PTL
=============================================================================
