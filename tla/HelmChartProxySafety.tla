------------------------- MODULE HelmChartProxySafety -------------------------
(***************************************************************************)
(* Safety of HelmChartProxy, for any number of Clusters, objects and       *)
(* faults.  Without lag of the cache: a Cluster has one HelmReleaseProxy,  *)
(* the HelmChartProxy outlives it, and the status tells the truth as long  *)
(* as no request fails.  With any lag: what InstallOnce has installed is   *)
(* left alone, and ReleaseContract is implemented.                         *)
(***************************************************************************)
EXTENDS HelmChartProxyContract, HelmChartProxyProofs, FiniteSetTheorems

Patching == {"patchConditions", "patchObject", "patchStatus", "patched"}

\* The steps of reconcileNormal after the finalizer is ensured.
Normal == {"deleteOrphans", "forCluster", "reinstall", "createOrUpdate", "aggregate"}

Guarded == hcp # None /\ hcp.finalizer

\* The Cluster a HelmReleaseProxy is to be created for has none.
NoneYet ==
    pc = "createOrUpdate" /\ existing.proxy = None =>
        \A q \in Proxy : Exists(q) => proxies[q].cluster # existing.cluster

OneProxyInv == OneProxyPerCluster /\ NoneYet

\* A HelmChartProxy whose worker may create, or leaves in place, what it owns
\* has the finalizer.
WorkerGuards ==
    /\ pc \in Normal => Guarded /\ obj.finalizer
    /\ pc # "idle" /\ before.finalizer /\ obj.finalizer => Guarded
    /\ pc \in Patching /\ call = "ensureFinalizer" => obj.finalizer
    /\ pc \in {"patchStatus", "patched"} /\ call = "ensureFinalizer" /\ ~failed => Guarded
    /\ pc \in {"listClusters", "listReleases", "deleteRelease", "validateDeletion"} =>
          obj.finalizer = before.finalizer

\* A worker that deletes with the HelmChartProxy knows that it is being deleted.
WorkerDeletes ==
    /\ pc # "idle" /\ obj.deleting => hcp = None \/ hcp.deleting
    /\ pc \in {"deleteRelease", "validateDeletion"} => obj.deleting

\* InstallOnce: no other step of a worker deletes, and what it is about to update
\* is not installed in the copy that it read.
WorkerInstallsOnce ==
    ReconcileStrategy = "InstallOnce" =>
        /\ pc = "deleteOrphans" \/ (pc \in Patching /\ call = "ensureFinalizer") => doomed = {}
        /\ pc # "reinstall"
        /\ pc = "createOrUpdate" /\ existing.proxy # None => ~existing.copy.installed

WorkerInv == WorkerGuards /\ WorkerDeletes /\ WorkerInstallsOnce

\* A worker that deletes knows of all HelmReleaseProxies; one that removes the
\* finalizer has seen all of them gone.
DeletionComplete ==
    /\ pc \in {"deleteRelease", "validateDeletion"} =>
          \A p \in Proxy : Exists(p) =>
              p \in doomed \union remaining \/ (pc = "validateDeletion" /\ p = existing.proxy)
    /\ pc # "idle" /\ before.finalizer /\ ~obj.finalizer => \A p \in Proxy : ~Exists(p)

FinalizerInv == FinalizerGuardsProxies /\ DeletionComplete

\* InstallOnce: while the HelmChartProxy lives, so do its HelmReleaseProxies.
NoneDeleting ==
    ReconcileStrategy = "InstallOnce" /\ hcp # None /\ ~hcp.deleting =>
        \A p \in Proxy : Exists(p) => ~proxies[p].deleting

\* The API server keeps an object under deletion for its finalizer.
DeletingHeld == \A p \in Proxy : Exists(p) /\ proxies[p].deleting => proxies[p].finalizer

-----------------------------------------------------------------------------
(* What a step may do to the HelmChartProxy.                               *)

\* A user creates it: there is no worker, and no HelmReleaseProxy.
Appears ==
    /\ hcp = None /\ hcp' \in HCP /\ ~hcp'.deleting
    /\ pc = "idle" /\ pc' = "idle"
    /\ \A p \in Proxy : ~Exists(p)
    /\ UNCHANGED proxies

\* Its specification or its status is written.
Rewritten ==
    /\ hcp \in HCP /\ hcp' \in HCP
    /\ hcp'.finalizer = hcp.finalizer /\ hcp'.deleting = hcp.deleting

\* A user deletes it.
UserDeletes ==
    /\ hcp \in HCP
    /\ hcp.finalizer => hcp' \in HCP /\ hcp'.finalizer /\ hcp'.deleting
    /\ ~hcp.finalizer => hcp' = None
    /\ UNCHANGED <<proxies, locals>>

\* The worker adds or removes the finalizer.
FinalizerPatched ==
    /\ pc = "patchObject" /\ obj.finalizer # before.finalizer
    /\ hcp \in HCP
    /\ obj.finalizer => hcp' \in HCP /\ hcp'.finalizer /\ hcp'.deleting = hcp.deleting
    /\ ~obj.finalizer => hcp' = None \/ (hcp' \in HCP /\ hcp'.deleting = hcp.deleting)
    /\ UNCHANGED proxies

\* What the requests of a patch keep of the stored object.
LEMMA PatchedFields ==
    ASSUME NEW a \in HCP, NEW b \in HCP, NEW o \in HCP
    PROVE  /\ PatchedConditions(a, b, o).finalizer = a.finalizer
           /\ PatchedConditions(a, b, o).deleting = a.deleting
           /\ PatchedStatus(a, b, o).finalizer = a.finalizer
           /\ PatchedStatus(a, b, o).deleting = a.deleting
  BY DEF HCP, PatchedConditions, PatchedStatus

\* What removing or adding the finalizer keeps.
LEMMA FinalizerFields ==
    ASSUME NEW a \in HCP, NEW f \in BOOLEAN
    PROVE  LET c == [a EXCEPT !.finalizer = f] IN
           c \in HCP /\ c.finalizer = f /\ c.deleting = a.deleting
  BY DEF HCP

\* The requests write the object or leave it as it is.
LEMMA RequestOutcome ==
    ASSUME NEW nothing, NEW admitted, NEW new, Request(nothing, admitted, new)
    PROVE  UNCHANGED hcp \/ (~nothing /\ hcp # None /\ hcp' = new)
  BY DEF Request

\* Every step leaves the HelmChartProxy alone or is one of these.
LEMMA HCPEffect ==
    ASSUME TypeInv, [Next]_vars
    PROVE  UNCHANGED hcp \/ Appears \/ Rewritten \/ UserDeletes \/ FinalizerPatched
  <1>0. /\ hcp # None => hcp \in HCP
        /\ pc # "idle" => obj \in HCP /\ before \in HCP
    BY DEF TypeInv, WorldOK, LocalsOK
  <1>1. TypeInv'
    BY NextType
  <1>2. CASE PatchConditions
    <2>1. UNCHANGED hcp \/
          (hcp # None /\ hcp' = PatchedConditions(hcp, before, obj))
      BY <1>2, RequestOutcome DEF PatchConditions
    <2>2. obj \in HCP /\ before \in HCP
      BY <1>0, <1>2 DEF PatchConditions
    <2>3. hcp # None => /\ PatchedConditions(hcp, before, obj) \in HCP
                        /\ PatchedConditions(hcp, before, obj).finalizer = hcp.finalizer
                        /\ PatchedConditions(hcp, before, obj).deleting = hcp.deleting
      BY <1>0, <2>2, PatchedFields, PatchedType
    <2> QED
      BY <1>0, <2>1, <2>3 DEF Rewritten
  <1>3. CASE PatchStatus
    <2>1. UNCHANGED hcp \/
          (hcp # None /\ hcp' = PatchedStatus(hcp, before, obj))
      BY <1>3, RequestOutcome DEF PatchStatus
    <2>2. obj \in HCP /\ before \in HCP
      BY <1>0, <1>3 DEF PatchStatus
    <2>3. hcp # None => /\ PatchedStatus(hcp, before, obj) \in HCP
                        /\ PatchedStatus(hcp, before, obj).finalizer = hcp.finalizer
                        /\ PatchedStatus(hcp, before, obj).deleting = hcp.deleting
      BY <1>0, <2>2, PatchedFields, PatchedType
    <2> QED
      BY <1>0, <2>1, <2>3 DEF Rewritten
  <1>4. CASE PatchObject
    <2>1. UNCHANGED hcp \/
          (/\ obj.finalizer # before.finalizer /\ hcp # None
           /\ hcp' = Stored([hcp EXCEPT !.finalizer = obj.finalizer]))
      BY <1>4, RequestOutcome DEF PatchObject
    <2>2. pc = "patchObject" /\ UNCHANGED proxies
      BY <1>4 DEF PatchObject
    <2>3. obj \in HCP /\ before \in HCP
      BY <1>0, <2>2
    <2>4. hcp # None => /\ [hcp EXCEPT !.finalizer = obj.finalizer] \in HCP
                        /\ [hcp EXCEPT !.finalizer = obj.finalizer].finalizer = obj.finalizer
                        /\ [hcp EXCEPT !.finalizer = obj.finalizer].deleting = hcp.deleting
      BY <1>0, <2>3, FinalizerFields DEF HCP
    <2> QED
      BY <1>0, <2>1, <2>2, <2>4 DEF FinalizerPatched, Stored
  <1>5. ASSUME NEW spec \in ChartSpec, CreateHCP(spec)
        PROVE  Appears
    <2>1. hcp' = NewHCP(Default(spec)) /\ NewHCP(Default(spec)) \in HCP
      BY <1>5, ConstantsAssumption, DefaultType, NewHCPType DEF CreateHCP
    <2> QED
      BY <1>5, <2>1 DEF CreateHCP, Appears, NewHCP, locals
  <1>6. ASSUME NEW spec \in ChartSpec, UpdateHCP(spec)
        PROVE  Rewritten
    <2>1. hcp \in HCP
      BY <1>0, <1>6 DEF UpdateHCP
    <2>2. hcp' = [hcp EXCEPT !.spec = Default(spec), !.generation = @ + 1]
      BY <1>6 DEF UpdateHCP
    <2>3. Default(spec) \in HelmChartProxySpec /\ hcp.generation + 1 \in Nat
      BY <2>1, ConstantsAssumption, DefaultType DEF HCP
    <2> QED
      BY <2>1, <2>2, <2>3 DEF Rewritten, HCP
  <1>7. ASSUME DeleteHCP
        PROVE  UserDeletes
    <2>1. hcp \in HCP /\ Deleted(hcp) \in HCP
      BY <1>0, <1>7, DeletedType DEF DeleteHCP
    <2>2. Deleted(hcp).finalizer = hcp.finalizer /\ Deleted(hcp).deleting
      BY <2>1 DEF Deleted, HCP
    <2>3. hcp' = IF hcp.finalizer THEN Deleted(hcp) ELSE None
      BY <1>7, <2>2 DEF DeleteHCP, Stored
    <2> QED
      BY <1>7, <2>1, <2>2, <2>3 DEF DeleteHCP, UserDeletes
  <1>8. CASE User
    BY <1>5, <1>6, <1>7, <1>8 DEF User
  <1>9. CASE WorkerStep
    <2>1. \/ PatchConditions \/ PatchObject \/ PatchStatus \/ UNCHANGED hcp
      BY <1>9 DEF WorkerStep, Reconcile, ListClusters, ListReleases, DeleteOrphan, OrphansDeleted,
         ForCluster, Reinstall, CreateOrUpdate, ClustersReconciled, AggregateReady, DeleteRelease,
         ValidateDeletion, ReleasesDeleted, PatchReturns
    <2> QED
      BY <1>2, <1>3, <1>4, <2>1
  <1>10. CASE \/ \E p \in Proxy : \/ CacheSync(p) \/ ProxyReports(p) \/ ProxyRemoved(p)
                                  \/ GarbageCollect(p)
              \/ \E c \in Cluster : ClusterChanges(c)
              \/ Crash
              \/ UNCHANGED vars
    BY <1>10 DEF CacheSync, ProxyReports, ProxyRemoved, GarbageCollect, ClusterChanges, Crash, vars
  <1> QED
    BY <1>8, <1>9, <1>10 DEF Next

-----------------------------------------------------------------------------
(* What a step may do to a HelmReleaseProxy.                               *)

\* It is deleted: as an orphan, to be replaced, or with its owner.
IsDeleted(p) ==
    /\ DeleteHelmReleaseProxy(p)
    /\ \/ pc = "deleteOrphans" /\ p \in doomed
       \/ pc = "reinstall" /\ p = existing.proxy
       \/ pc = "deleteRelease" /\ p \in doomed
       \/ hcp = None

\* It is created, under a name that is not in use, for the Cluster in hand.
IsCreated(p) ==
    /\ pc = "createOrUpdate" /\ existing.proxy = None
    /\ pc' # "createOrUpdate"
    /\ ~Exists(p)
    /\ proxies' = [proxies EXCEPT ![p] =
                     Default(NewHelmReleaseProxy(existing.cluster, existing.label, obj.spec))]

\* It is updated, and is still what the worker read.
IsUpdated(p) ==
    LET new == Default(UpdatedHelmReleaseProxy(proxies[p], existing.label, obj.spec)) IN
    /\ pc = "createOrUpdate" /\ existing.proxy = p
    /\ pc' # "createOrUpdate"
    /\ Exists(p) /\ proxies[p] = existing.copy
    /\ ValidateUpdateRelease(proxies[p], new)
    /\ proxies' = [proxies EXCEPT ![p] = new]

\* Its controller reports on it.
IsReported(p) ==
    /\ Exists(p)
    /\ \/ proxies' = [proxies EXCEPT ![p] = Served(proxies[p])]
       \/ \E install \in BOOLEAN :
             proxies' = [proxies EXCEPT ![p] = NotServed(proxies[p], install)]

\* It goes.
IsRemoved(p) ==
    /\ Exists(p) /\ proxies[p].deleting
    /\ proxies' = [proxies EXCEPT ![p] = None]

\* What the worker writes.
LEMMA WriteEffect ==
    ASSUME TypeInv, pc = "createOrUpdate", Write, pc' # "createOrUpdate"
    PROVE  \E p \in Proxy : IsCreated(p) \/ IsUpdated(p)
  <1>1. CASE existing.proxy = None
    <2>1. PICK p \in FreshName : proxies' = [proxies EXCEPT ![p] = Default(Constructed)]
      BY <1>1 DEF Write
    <2>2. p \in Proxy /\ ~Exists(p)
      BY DEF FreshName
    <2> QED
      BY <1>1, <2>1, <2>2 DEF IsCreated, Constructed
  <1>2. CASE existing.proxy # None
    <2>1. existing.proxy \in Proxy
      BY <1>2 DEF TypeInv, LocalsOK, Existing
    <2>2. /\ VersionMatches
          /\ ValidateUpdateRelease(existing.copy, Default(Constructed))
          /\ proxies' = [proxies EXCEPT ![existing.proxy] = Default(Constructed)]
      BY <1>2 DEF Write, Admitted
    <2> QED
      BY <1>2, <2>1, <2>2 DEF IsUpdated, Constructed, VersionMatches
  <1> QED
    BY <1>1, <1>2

\* Every step leaves the HelmReleaseProxies alone or does one of these to one.
LEMMA ProxiesEffect ==
    ASSUME TypeInv, [Next]_vars
    PROVE  \/ UNCHANGED proxies
           \/ \E p \in Proxy : \/ IsDeleted(p) \/ IsCreated(p) \/ IsUpdated(p)
                               \/ IsReported(p) \/ IsRemoved(p)
  <1>1. ASSUME NEW p, DeleteOrphan(p) \/ DeleteRelease(p)
        PROVE  UNCHANGED proxies \/ (p \in Proxy /\ IsDeleted(p))
    BY <1>1 DEF DeleteOrphan, DeleteRelease, IsDeleted, TypeInv, LocalsOK
  <1>2. ASSUME Reinstall
        PROVE  UNCHANGED proxies \/ (existing.proxy \in Proxy /\ IsDeleted(existing.proxy))
    BY <1>2 DEF Reinstall, IsDeleted, TypeInv, LocalsOK
  <1>3. ASSUME CreateOrUpdate
        PROVE  UNCHANGED proxies \/ \E p \in Proxy : IsCreated(p) \/ IsUpdated(p)
    <2>1. pc = "createOrUpdate" /\ pc' # "createOrUpdate" /\ (Write \/ UNCHANGED proxies)
      BY <1>3 DEF CreateOrUpdate, Return, Patch
    <2> QED
      BY <2>1, WriteEffect
  <1>4. CASE WorkerStep
    <2>1. \/ \E p \in Proxy : DeleteOrphan(p) \/ DeleteRelease(p)
          \/ Reinstall \/ CreateOrUpdate \/ UNCHANGED proxies
      BY <1>4 DEF WorkerStep, Reconcile, ListClusters, ListReleases, OrphansDeleted, ForCluster,
         ClustersReconciled, AggregateReady, ValidateDeletion, ReleasesDeleted, PatchConditions,
         PatchObject, PatchStatus, PatchReturns
    <2> QED
      BY <1>1, <1>2, <1>3, <2>1
  <1>5. ASSUME NEW p \in Proxy,
               CacheSync(p) \/ ProxyReports(p) \/ ProxyRemoved(p) \/ GarbageCollect(p)
        PROVE  UNCHANGED proxies \/ IsReported(p) \/ IsRemoved(p) \/ IsDeleted(p)
    <2>1. CASE ProxyReports(p)
      BY <2>1 DEF ProxyReports, IsReported
    <2>2. CASE CacheSync(p) \/ ProxyRemoved(p) \/ GarbageCollect(p)
      BY <2>2 DEF CacheSync, ProxyRemoved, GarbageCollect, IsRemoved, IsDeleted
    <2> QED
      BY <1>5, <2>1, <2>2
  <1>6. CASE User \/ (\E c \in Cluster : ClusterChanges(c)) \/ Crash \/ UNCHANGED vars
    BY <1>6 DEF User, CreateHCP, UpdateHCP, DeleteHCP, ClusterChanges, Crash, vars
  <1> QED
    BY <1>4, <1>5, <1>6 DEF Next

\* What deletions, reports and updates keep of an object.
LEMMA KeptFields ==
    ASSUME NEW h \in HRP
    PROVE  /\ Deleted(h).cluster = h.cluster
           /\ Deleted(h).finalizer = h.finalizer
           /\ Deleted(h).deleting
           /\ Served(h).cluster = h.cluster
           /\ Served(h).deleting = h.deleting
           /\ Served(h).finalizer
           /\ \A install : /\ NotServed(h, install).cluster = h.cluster
                           /\ NotServed(h, install).deleting = h.deleting
                           /\ NotServed(h, install).finalizer
           /\ \A label, spec :
                 LET new == Default(UpdatedHelmReleaseProxy(h, label, spec)) IN
                 /\ new.cluster = h.cluster
                 /\ new.deleting = h.deleting
                 /\ new.finalizer = h.finalizer
                 /\ new.installed = h.installed
  BY DEF Deleted, Served, NotServed, Default, UpdatedHelmReleaseProxy, HRP

\* A new object is for the Cluster it is made for, and is not under deletion.
LEMMA CreatedFields ==
    \A c, label, spec :
        LET new == Default(NewHelmReleaseProxy(c, label, spec)) IN
        new.cluster = c /\ ~new.deleting /\ ~new.finalizer /\ ~new.installed
  BY DEF Default, NewHelmReleaseProxy

\* An object that exists after a step existed before, for the same Cluster, or
\* the worker has just created it.
LEMMA ClustersKept ==
    ASSUME TypeInv, [Next]_vars, NEW q \in Proxy, Exists(q)'
    PROVE  \/ Exists(q) /\ proxies'[q].cluster = proxies[q].cluster
           \/ IsCreated(q) /\ proxies'[q].cluster = existing.cluster
  <1>1. proxies \in [Proxy -> HRP \union {None}]
    BY DEF TypeInv, WorldOK
  <1>2. CASE UNCHANGED proxies
    BY <1>2 DEF Exists
  <1>3. ASSUME NEW p \in Proxy, IsDeleted(p)
        PROVE  Exists(q) /\ proxies'[q].cluster = proxies[q].cluster
    <2>1. CASE p = q
      <3>1. Exists(p) /\ proxies'[q] = Deleted(proxies[p])
        BY <1>1, <1>3, <2>1 DEF IsDeleted, DeleteHelmReleaseProxy, Exists, Stored
      <3> QED
        BY <1>1, <2>1, <3>1, KeptFields DEF Exists
    <2>2. CASE p # q
      BY <1>1, <1>3, <2>2 DEF IsDeleted, DeleteHelmReleaseProxy, Exists
    <2> QED
      BY <2>1, <2>2
  <1>4. ASSUME NEW p \in Proxy, IsCreated(p)
        PROVE  \/ Exists(q) /\ proxies'[q].cluster = proxies[q].cluster
               \/ IsCreated(q) /\ proxies'[q].cluster = existing.cluster
    <2> DEFINE new == Default(NewHelmReleaseProxy(existing.cluster, existing.label, obj.spec))
    <2>1. new.cluster = existing.cluster /\ proxies' = [proxies EXCEPT ![p] = new]
      BY <1>4, CreatedFields DEF IsCreated
    <2> HIDE DEF new
    <2>2. p # q => proxies'[q] = proxies[q]
      BY <1>1, <2>1
    <2>3. p = q => proxies'[q].cluster = existing.cluster
      BY <1>1, <2>1
    <2> QED
      BY <1>4, <2>2, <2>3 DEF Exists
  <1>5. ASSUME NEW p \in Proxy, IsUpdated(p)
        PROVE  Exists(q) /\ proxies'[q].cluster = proxies[q].cluster
    BY <1>1, <1>5, KeptFields DEF IsUpdated, Exists
  <1>6. ASSUME NEW p \in Proxy, IsReported(p)
        PROVE  Exists(q) /\ proxies'[q].cluster = proxies[q].cluster
    BY <1>1, <1>6, KeptFields DEF IsReported, Exists
  <1>7. ASSUME NEW p \in Proxy, IsRemoved(p)
        PROVE  Exists(q) /\ proxies'[q].cluster = proxies[q].cluster
    BY <1>1, <1>7 DEF IsRemoved, Exists
  <1> QED
    BY <1>2, <1>3, <1>4, <1>5, <1>6, <1>7, ProxiesEffect

-----------------------------------------------------------------------------
(* One HelmReleaseProxy for each Cluster.                                  *)

\* Only getExistingHelmReleaseProxy leads to a creation or an update.
LEMMA BeforeCreateOrUpdate ==
    ASSUME [Next]_vars, pc' = "createOrUpdate"
    PROVE  \/ UNCHANGED <<pc, existing>>
           \/ \E c \in Cluster, label \in Label : ForCluster(c, label)
  BY DEF Next, WorkerStep, User, Reconcile, ListClusters, ListReleases, DeleteOrphan,
     OrphansDeleted, Reinstall, CreateOrUpdate, ClustersReconciled, AggregateReady,
     DeleteRelease, ValidateDeletion, ReleasesDeleted, PatchConditions, PatchObject,
     PatchStatus, PatchReturns, Return, Patch, CacheSync, ProxyReports, ProxyRemoved,
     GarbageCollect, ClusterChanges, CreateHCP, UpdateHCP, DeleteHCP, Crash, vars, locals

\* What it has found: nothing that is listed, or an object as it is listed.
LEMMA ForClusterFound ==
    ASSUME TypeInv, NEW c \in Cluster, NEW label \in Label, ForCluster(c, label),
           pc' = "createOrUpdate"
    PROVE  /\ \/ /\ existing'.proxy = None /\ existing'.cluster = c
                 /\ \A q \in Proxy : Listed[q] # None => Listed[q].cluster # c
              \/ /\ existing'.proxy \in Proxy
                 /\ existing'.copy = Listed[existing'.proxy]
                 /\ existing'.copy \in HRP
                 /\ ReconcileStrategy = "InstallOnce" => ~existing'.copy.installed
           /\ UNCHANGED <<hcp, proxies, cache>>
  <1> DEFINE this == [NoExisting EXCEPT !.cluster = c, !.label = label]
             found == {p \in Releases : Listed[p].cluster = c}
  <1>1. /\ \A p \in found : IF ReconcileStrategy = "InstallOnce"
                              THEN ~Listed[p].installed
                              ELSE ~shouldReinstallHelmRelease(Listed[p], obj.spec)
        /\ \/ found = {} /\ existing' = this
           \/ \E p \in found : existing' = [this EXCEPT !.proxy = p, !.copy = Listed[p]]
        /\ UNCHANGED <<hcp, proxies, cache>>
    BY DEF ForCluster, Return, Patch
  <1>2. \A p \in Proxy : Listed[p] # None /\ Listed[p].cluster = c <=> p \in found
    BY DEF Releases
  <1>3. \A p \in found : p \in Proxy /\ Listed[p] \in HRP
    BY ListedType DEF TypeInv, Releases
  <1>4. /\ this.proxy = None /\ this.cluster = c
        /\ \A p, h : /\ [this EXCEPT !.proxy = p, !.copy = h].proxy = p
                     /\ [this EXCEPT !.proxy = p, !.copy = h].copy = h
    BY DEF NoExisting
  <1> HIDE DEF this, found
  <1>5. CASE found = {} /\ existing' = this
    BY <1>1, <1>2, <1>4, <1>5
  <1>6. CASE \E p \in found : existing' = [this EXCEPT !.proxy = p, !.copy = Listed[p]]
    <2>1. PICK p \in found : existing' = [this EXCEPT !.proxy = p, !.copy = Listed[p]]
      BY <1>6
    <2>2. existing'.proxy = p /\ existing'.copy = Listed[p]
      BY <1>4, <2>1
    <2> QED
      BY <1>1, <1>3, <2>2
  <1> QED
    BY <1>1, <1>5, <1>6

\* A worker that sees every object creates one only for a Cluster without.
LEMMA OneProxyStep ==
    ASSUME ~CacheLag, TypeInv, OneProxyInv, [Next]_vars
    PROVE  OneProxyInv'
  <1>1. ASSUME NEW p \in Proxy, NEW q \in Proxy, Exists(p)', Exists(q)',
               proxies'[p].cluster = proxies'[q].cluster
        PROVE  p = q
    <2>1. ASSUME NEW r \in Proxy, NEW s \in Proxy, IsCreated(r), s # r, Exists(s)',
                 proxies'[r].cluster = existing.cluster,
                 proxies'[r].cluster = proxies'[s].cluster
          PROVE  FALSE
      <3>1. Exists(s) /\ proxies'[s] = proxies[s]
        BY <2>1 DEF IsCreated, Exists, TypeInv, WorldOK
      <3> QED
        BY <2>1, <3>1 DEF OneProxyInv, NoneYet, IsCreated
    <2>2. CASE IsCreated(p) /\ proxies'[p].cluster = existing.cluster
      BY <1>1, <2>1, <2>2
    <2>3. CASE IsCreated(q) /\ proxies'[q].cluster = existing.cluster
      BY <1>1, <2>1, <2>3
    <2>4. CASE /\ Exists(p) /\ proxies'[p].cluster = proxies[p].cluster
               /\ Exists(q) /\ proxies'[q].cluster = proxies[q].cluster
      BY <1>1, <2>4 DEF OneProxyInv, OneProxyPerCluster
    <2> QED
      BY <1>1, <2>2, <2>3, <2>4, ClustersKept
  <1>2. ASSUME pc' = "createOrUpdate", existing'.proxy = None, NEW q \in Proxy, Exists(q)'
        PROVE  proxies'[q].cluster # existing'.cluster
    <2>1. CASE UNCHANGED <<pc, existing>>
      <3>1. Exists(q) /\ proxies'[q].cluster = proxies[q].cluster
        BY <1>2, ClustersKept DEF IsCreated
      <3> QED
        BY <1>2, <2>1, <3>1 DEF OneProxyInv, NoneYet
    <2>2. ASSUME NEW c \in Cluster, NEW label \in Label, ForCluster(c, label)
          PROVE  proxies'[q].cluster # existing'.cluster
      BY <1>2, <2>2, ForClusterFound, ConstantsAssumption DEF Listed, Exists
    <2> QED
      BY <1>2, <2>1, <2>2, BeforeCreateOrUpdate
  <1>3. OneProxyPerCluster'
    BY <1>1 DEF OneProxyPerCluster
  <1>4. NoneYet'
    BY <1>2 DEF NoneYet
  <1> QED
    BY <1>3, <1>4 DEF OneProxyInv

\* There is at most one object to begin with.
LEMMA OneProxyInit == Init => OneProxyInv
  <1> SUFFICES ASSUME Init
               PROVE  OneProxyInv
    OBVIOUS
  <1>1. NoneYet
    BY DEF Init, NoneYet
  <1>2. \A p, q \in Proxy : Exists(p) /\ Exists(q) => p = q
    BY DEF Init, Upgraded, Exists
  <1> QED
    BY <1>1, <1>2 DEF OneProxyInv, OneProxyPerCluster

\* With a cache that is up to date, no order of reconciles, failures, crashes and
\* changes gives a Cluster two HelmReleaseProxies of one HelmChartProxy: the one
\* that a reinstall deletes is waited for, and getExistingHelmReleaseProxy never
\* finds more than one.
THEOREM ClusterHasOneProxy ==
    ASSUME ~CacheLag
    PROVE  Spec => []OneProxyPerCluster
  <1>1. TypeInv /\ OneProxyInv /\ [Next]_vars => OneProxyInv'
    BY OneProxyStep
  <1>2. OneProxyInv => OneProxyPerCluster
    BY DEF OneProxyInv
  <1> QED
    BY <1>1, <1>2, TypeInvariance, OneProxyInit, PTL DEF Spec

-----------------------------------------------------------------------------
(* What the worker knows of its HelmChartProxy.                            *)

\* Only a worker that removes the finalizer takes the guard away.
LEMMA GuardKept ==
    ASSUME TypeInv, [Next]_vars, Guarded,
           ~(pc = "patchObject" /\ before.finalizer /\ ~obj.finalizer)
    PROVE  Guarded'
  <1>1. pc = "patchObject" => obj.finalizer \in BOOLEAN /\ before.finalizer \in BOOLEAN
    BY DEF TypeInv, LocalsOK, HCP
  <1> QED
    BY <1>1, HCPEffect, NoneIsNoObject
       DEF Guarded, Appears, Rewritten, UserDeletes, FinalizerPatched

\* A HelmChartProxy under deletion, or deleted, stays so while the worker is busy.
LEMMA DeletionKept ==
    ASSUME TypeInv, [Next]_vars, pc # "idle", hcp = None \/ hcp.deleting
    PROVE  hcp' = None \/ hcp'.deleting
  BY HCPEffect, NoneIsNoObject DEF Appears, Rewritten, UserDeletes, FinalizerPatched

\* What the fields that the worker sets in memory keep.
LEMMA MemoryFields ==
    ASSUME NEW o \in HCP
    PROVE  /\ \A r : [o EXCEPT !.specs = r].finalizer = o.finalizer
           /\ \A r : [o EXCEPT !.specs = r].deleting = o.deleting
           /\ \A r : [o EXCEPT !.releases = r].finalizer = o.finalizer
           /\ \A r : [o EXCEPT !.releases = r].deleting = o.deleting
           /\ \A m : [o EXCEPT !.matching = m].finalizer = o.finalizer
           /\ \A m : [o EXCEPT !.matching = m].deleting = o.deleting
           /\ \A f : [o EXCEPT !.finalizer = f].finalizer = f
           /\ \A f : [o EXCEPT !.finalizer = f].deleting = o.deleting
  BY DEF HCP

\* A step that leaves the worker alone keeps what it knows.
LEMMA WorkerInvOthers ==
    ASSUME TypeInv, WorkerInv, [Next]_vars, UNCHANGED locals
    PROVE  WorkerInv'
  <1>1. CASE pc = "idle"
    BY <1>1 DEF WorkerInv, WorkerGuards, WorkerDeletes, WorkerInstallsOnce, locals,
       Normal, Patching
  <1>2. CASE pc # "idle"
    <2>1. WorkerDeletes'
      BY <1>2, DeletionKept DEF WorkerInv, WorkerDeletes, locals
    <2>2. WorkerInstallsOnce'
      BY DEF WorkerInv, WorkerInstallsOnce, locals
    <2>3. WorkerGuards'
      BY GuardKept DEF WorkerInv, WorkerGuards, locals, Normal, Patching
    <2> QED
      BY <2>1, <2>2, <2>3 DEF WorkerInv
  <1> QED
    BY <1>1, <1>2

\* So does a return from Reconcile.
LEMMA WorkerInvReturn ==
    ASSUME WorkerInv, pc # "idle", UNCHANGED <<hcp, before>>,
           NEW o, o.finalizer = obj.finalizer, o.deleting = obj.deleting, Return(o)
    PROVE  WorkerInv'
  BY DEF WorkerInv, WorkerGuards, WorkerDeletes, WorkerInstallsOnce, Return, Patch,
     Guarded, Normal, Patching

\* The requests of a patch: a finalizer that was to be added is there, or the
\* patch has failed.
LEMMA WorkerInvPatch ==
    ASSUME TypeInv, WorkerInv, [Next]_vars, PatchConditions \/ PatchObject \/ PatchStatus
    PROVE  WorkerInv'
  <1>0. obj \in HCP /\ before \in HCP /\ UNCHANGED <<obj, before, call, doomed, existing>>
    BY DEF TypeInv, LocalsOK, PatchConditions, PatchObject, PatchStatus
  <1>1. pc \in Patching /\ pc' \in Patching /\ pc # "patched"
    BY DEF PatchConditions, PatchObject, PatchStatus, Patching
  <1>2. WorkerDeletes'
    BY <1>0, <1>1, DeletionKept DEF WorkerInv, WorkerDeletes, Patching
  <1>3. WorkerInstallsOnce'
    BY <1>0, <1>1 DEF WorkerInv, WorkerInstallsOnce, Patching
  <1>4. ~failed' => ~failed
    BY DEF PatchConditions, PatchObject, PatchStatus, Request
  <1>5. obj.finalizer /\ Guarded => Guarded'
    BY GuardKept
  <1>6. ASSUME PatchObject, call = "ensureFinalizer", ~failed'
        PROVE  Guarded'
    <2>1. obj.finalizer
      BY <1>1, <1>6 DEF WorkerInv, WorkerGuards
    <2>2. CASE obj.finalizer = before.finalizer
      BY <1>1, <1>5, <2>1, <2>2 DEF WorkerInv, WorkerGuards, Patching
    <2>3. CASE obj.finalizer # before.finalizer
      <3>1. /\ hcp # None
            /\ hcp' = Stored([hcp EXCEPT !.finalizer = obj.finalizer])
        BY <1>6, <2>3 DEF PatchObject, Request
      <3>2. hcp \in HCP /\ obj.finalizer \in BOOLEAN
        BY <1>0, <3>1 DEF TypeInv, WorldOK, HCP
      <3>3. /\ [hcp EXCEPT !.finalizer = obj.finalizer] \in HCP
            /\ [hcp EXCEPT !.finalizer = obj.finalizer].finalizer = obj.finalizer
        BY <3>2, FinalizerFields DEF HCP
      <3> QED
        BY <2>1, <3>1, <3>3, NoneIsNoObject DEF Guarded, Stored
    <2> QED
      BY <2>2, <2>3
  <1>7. WorkerGuards'
    <2>1. pc' \in {"patchStatus", "patched"} =>
             PatchObject \/ (pc \in {"patchStatus", "patched"} /\ PatchStatus)
      BY DEF PatchConditions, PatchObject, PatchStatus
    <2> QED
      BY <1>0, <1>1, <1>4, <1>5, <1>6, <2>1 DEF WorkerInv, WorkerGuards, Patching, Normal
  <1> QED
    BY <1>2, <1>3, <1>7 DEF WorkerInv

\* The steps that start a reconcile and choose what it does.
LEMMA WorkerInvStart ==
    ASSUME TypeInv, WorkerInv, Reconcile \/ ListClusters \/ ListReleases \/ PatchReturns
    PROVE  WorkerInv'
  <1>1. CASE Reconcile
    BY <1>1 DEF Reconcile, WorkerInv, WorkerGuards, WorkerDeletes, WorkerInstallsOnce, Guarded,
       Normal, Patching
  <1>2. CASE ListClusters
    <2>1. obj \in HCP /\ pc # "idle" /\ pc = "listClusters"
      BY <1>2 DEF TypeInv, LocalsOK, ListClusters
    <2>2. Return([obj EXCEPT !.specs = "ClusterSelectionFailed"]) => WorkerInv'
      BY <1>2, <2>1, MemoryFields, WorkerInvReturn DEF ListClusters
    <2>3. ASSUME obj' = [obj EXCEPT !.matching = Selected(obj)], pc' = "listReleases",
                 UNCHANGED <<call, failed, doomed, existing>>
          PROVE  WorkerInv'
      <3>1. obj'.finalizer = obj.finalizer /\ obj'.deleting = obj.deleting
        BY <2>1, <2>3, MemoryFields
      <3> QED
        BY <1>2, <2>1, <2>3, <3>1 DEF ListClusters, WorkerInv, WorkerGuards, WorkerDeletes,
           WorkerInstallsOnce, Guarded, Normal, Patching
    <2> QED
      BY <1>2, <2>2, <2>3 DEF ListClusters
  <1>3. CASE ListReleases
    <2>1. /\ obj \in HCP /\ pc # "idle" /\ pc = "listReleases" /\ UNCHANGED <<hcp, before>>
          /\ obj.finalizer = before.finalizer
      BY <1>3 DEF TypeInv, LocalsOK, ListReleases, WorkerInv, WorkerGuards
    <2>2. Return(obj) => WorkerInv'
      BY <2>1, WorkerInvReturn
    <2>3. ASSUME doomed' = IF ReconcileStrategy = "InstallOnce" THEN {} ELSE Orphaned(obj),
                 Patch([obj EXCEPT !.finalizer = TRUE], "ensureFinalizer"), ~obj.finalizer
          PROVE  WorkerInv'
      <3>1. obj'.finalizer = TRUE /\ obj'.deleting = obj.deleting
        BY <2>1, <2>3, MemoryFields DEF Patch
      <3> QED
        BY <2>1, <2>3, <3>1 DEF Patch, WorkerInv, WorkerGuards, WorkerDeletes,
           WorkerInstallsOnce, Guarded, Normal, Patching
    <2>4. ASSUME doomed' = IF ReconcileStrategy = "InstallOnce" THEN {} ELSE Orphaned(obj),
                 obj.finalizer, pc' = "deleteOrphans", UNCHANGED <<call, failed, obj, existing>>
          PROVE  WorkerInv'
      BY <2>1, <2>4 DEF WorkerInv, WorkerGuards, WorkerDeletes, WorkerInstallsOnce, Guarded,
         Normal, Patching
    <2>5. ASSUME obj.deleting, pc' = "deleteRelease", UNCHANGED <<call, failed, obj, existing>>
          PROVE  WorkerInv'
      BY <2>1, <2>5 DEF WorkerInv, WorkerGuards, WorkerDeletes, WorkerInstallsOnce, Guarded,
         Normal, Patching
    <2> QED
      BY <1>3, <2>2, <2>3, <2>4, <2>5 DEF ListReleases
  <1>4. CASE PatchReturns
    <2>1. pc # "idle" /\ pc = "patched" /\ UNCHANGED hcp
      BY <1>4 DEF PatchReturns
    <2>2. Return(obj) /\ UNCHANGED before => WorkerInv'
      BY <2>1, WorkerInvReturn
    <2>3. ASSUME call = "ensureFinalizer", ~failed, pc' = "deleteOrphans",
                 UNCHANGED <<call, failed, before, obj, todo, doomed, remaining, existing>>
          PROVE  WorkerInv'
      BY <2>1, <2>3 DEF WorkerInv, WorkerGuards, WorkerDeletes, WorkerInstallsOnce, Guarded,
         Normal, Patching
    <2>4. ASSUME pc' = "idle"
          PROVE  WorkerInv'
      BY <2>4 DEF WorkerInv, WorkerGuards, WorkerDeletes, WorkerInstallsOnce, Normal, Patching
    <2> QED
      BY <1>4, <2>2, <2>3, <2>4 DEF PatchReturns
  <1> QED
    BY <1>1, <1>2, <1>3, <1>4

\* A step from one place of reconcileNormal to another.
LEMMA WorkerInvNormal ==
    ASSUME WorkerInv, pc \in Normal, pc' \in Normal, UNCHANGED <<hcp, before>>,
           obj'.finalizer = obj.finalizer, obj'.deleting = obj.deleting,
           WorkerInstallsOnce'
    PROVE  WorkerInv'
  BY DEF WorkerInv, WorkerGuards, WorkerDeletes, Guarded, Normal, Patching

\* The steps of reconcileNormal.
LEMMA WorkerInvReconcileNormal ==
    ASSUME TypeInv, WorkerInv,
           \/ \E p : DeleteOrphan(p)
           \/ \E c \in Cluster, label \in Label : ForCluster(c, label)
           \/ OrphansDeleted \/ Reinstall \/ CreateOrUpdate \/ ClustersReconciled
           \/ AggregateReady
    PROVE  WorkerInv'
  <1>0. /\ obj \in HCP /\ pc # "idle" /\ pc \in Normal /\ UNCHANGED <<hcp, before>>
    BY DEF TypeInv, LocalsOK, Normal, DeleteOrphan, ForCluster, OrphansDeleted, Reinstall,
       CreateOrUpdate, ClustersReconciled, AggregateReady
  <1>1. /\ Return(obj) => WorkerInv'
        /\ \A r : Return([obj EXCEPT !.specs = r]) => WorkerInv'
        /\ \A r : Return([obj EXCEPT !.releases = r]) => WorkerInv'
    <2>1. \A o : o.finalizer = obj.finalizer /\ o.deleting = obj.deleting /\ Return(o)
                    => WorkerInv'
      BY <1>0, WorkerInvReturn
    <2> QED
      BY <1>0, <2>1, MemoryFields
  <1>2. \A r : obj' = [obj EXCEPT !.specs = r] =>
                  obj'.finalizer = obj.finalizer /\ obj'.deleting = obj.deleting
    BY <1>0, MemoryFields
  <1>3. ASSUME NEW p, DeleteOrphan(p)
        PROVE  WorkerInv'
    <2>1. ASSUME UNCHANGED <<pc, obj, call, existing>>, doomed' = doomed \ {p}
          PROVE  WorkerInv'
      BY <1>0, <1>3, <2>1, WorkerInvNormal DEF WorkerInv, WorkerInstallsOnce, Normal, Patching
    <2> QED
      BY <1>1, <1>3, <2>1 DEF DeleteOrphan
  <1>4. ASSUME NEW c \in Cluster, NEW label \in Label, ForCluster(c, label)
        PROVE  WorkerInv'
    <2>1. ASSUME UNCHANGED <<pc, existing, obj, call, doomed>>
          PROVE  WorkerInv'
      BY <1>0, <2>1, WorkerInvNormal DEF WorkerInv, WorkerInstallsOnce, Normal, Patching
    <2>2. ASSUME pc' = "reinstall", ReconcileStrategy = "Continuous", UNCHANGED obj
          PROVE  WorkerInv'
      BY <1>0, <2>2, WorkerInvNormal DEF WorkerInstallsOnce, Normal, Patching
    <2>3. ASSUME pc' = "createOrUpdate", UNCHANGED obj
          PROVE  WorkerInv'
      BY <1>0, <1>4, <2>3, ForClusterFound, WorkerInvNormal
         DEF WorkerInstallsOnce, Normal, Patching
    <2> QED
      BY <1>1, <1>4, <2>1, <2>2, <2>3 DEF ForCluster
  <1>5. ASSUME pc' \in {"forCluster", "aggregate"},
               UNCHANGED obj \/ \E r : obj' = [obj EXCEPT !.specs = r]
        PROVE  WorkerInv'
    BY <1>0, <1>2, <1>5, WorkerInvNormal DEF WorkerInstallsOnce, Normal, Patching
  <1>6. CASE OrphansDeleted \/ Reinstall \/ CreateOrUpdate \/ ClustersReconciled
    BY <1>1, <1>5, <1>6 DEF OrphansDeleted, Reinstall, CreateOrUpdate, ClustersReconciled
  <1>7. CASE AggregateReady
    BY <1>1, <1>7 DEF AggregateReady
  <1> QED
    BY <1>3, <1>4, <1>6, <1>7

\* The steps of reconcileDelete.
LEMMA WorkerInvReconcileDelete ==
    ASSUME TypeInv, WorkerInv,
           (\E p : DeleteRelease(p)) \/ ValidateDeletion \/ ReleasesDeleted
    PROVE  WorkerInv'
  <1>0. /\ obj \in HCP /\ pc # "idle" /\ pc \in {"deleteRelease", "validateDeletion"}
        /\ UNCHANGED <<hcp, before>>
    BY DEF TypeInv, LocalsOK, DeleteRelease, ValidateDeletion, ReleasesDeleted
  <1>1. /\ Return(obj) => WorkerInv'
        /\ \A r : Return([obj EXCEPT !.releases = r]) => WorkerInv'
    <2>1. \A o : o.finalizer = obj.finalizer /\ o.deleting = obj.deleting /\ Return(o)
                    => WorkerInv'
      BY <1>0, WorkerInvReturn
    <2> QED
      BY <1>0, <2>1, MemoryFields
  <1>2. ASSUME pc' \in {"deleteRelease", "validateDeletion"}, UNCHANGED obj
        PROVE  WorkerInv'
    BY <1>0, <1>2 DEF WorkerInv, WorkerGuards, WorkerDeletes, WorkerInstallsOnce, Guarded,
       Normal, Patching
  <1>3. ASSUME Patch([obj EXCEPT !.finalizer = FALSE], "removeFinalizer")
        PROVE  WorkerInv'
    <2>1. obj'.finalizer = FALSE /\ obj'.deleting = obj.deleting
      BY <1>0, <1>3, MemoryFields DEF Patch
    <2> QED
      BY <1>0, <1>3, <2>1 DEF Patch, WorkerInv, WorkerGuards, WorkerDeletes, WorkerInstallsOnce,
         Guarded, Normal, Patching
  <1> QED
    BY <1>1, <1>2, <1>3 DEF DeleteRelease, ValidateDeletion, ReleasesDeleted

\* Every step keeps what the worker knows.
LEMMA WorkerInvStep ==
    ASSUME TypeInv, WorkerInv, [Next]_vars
    PROVE  WorkerInv'
  <1>1. CASE WorkerStep
    BY <1>1, WorkerInvPatch, WorkerInvStart, WorkerInvReconcileNormal, WorkerInvReconcileDelete
       DEF WorkerStep
  <1>2. CASE Crash
    BY <1>2 DEF Crash, WorkerInv, WorkerGuards, WorkerDeletes, WorkerInstallsOnce, Normal,
       Patching
  <1>3. CASE \/ \E p \in Proxy : \/ CacheSync(p) \/ ProxyReports(p) \/ ProxyRemoved(p)
                                 \/ GarbageCollect(p)
             \/ \E c \in Cluster : ClusterChanges(c)
             \/ User
             \/ UNCHANGED vars
    <2>1. UNCHANGED locals
      BY <1>3 DEF CacheSync, ProxyReports, ProxyRemoved, GarbageCollect, ClusterChanges, User,
         CreateHCP, UpdateHCP, DeleteHCP, vars
    <2> QED
      BY <2>1, WorkerInvOthers
  <1> QED
    BY <1>1, <1>2, <1>3 DEF Next

\* In every reachable state, whatever the cache shows.
THEOREM WorkerInvariance == Spec => []WorkerInv
  <1>1. Init => WorkerInv
    BY DEF Init, WorkerInv, WorkerGuards, WorkerDeletes, WorkerInstallsOnce, Normal, Patching
  <1>2. TypeInv /\ WorkerInv /\ [Next]_vars => WorkerInv'
    BY WorkerInvStep
  <1> QED
    BY <1>1, <1>2, TypeInvariance, PTL DEF Spec

-----------------------------------------------------------------------------
(* The finalizer outlives the HelmReleaseProxies.                          *)

\* What the worker does to its copy of the object.
LEMMA MemoryEffect ==
    ASSUME TypeInv, [Next]_vars, pc' # "idle"
    PROVE  \/ obj' = before'
           \/ /\ pc # "idle" /\ before' = before
              /\ \/ obj'.finalizer = obj.finalizer
                 \/ obj'.finalizer = TRUE
                 \/ /\ pc = "deleteRelease" /\ doomed = {} /\ remaining = {}
                    /\ UNCHANGED proxies
  <1> DEFINE Kept == pc # "idle" /\ before' = before /\ obj'.finalizer = obj.finalizer
  <1>1. ASSUME pc # "idle"
        PROVE  obj \in HCP
    BY <1>1 DEF TypeInv, LocalsOK
  <1>2. ASSUME pc # "idle", before' = before,
               \/ obj' = obj
               \/ \E r : obj' = [obj EXCEPT !.specs = r]
               \/ \E r : obj' = [obj EXCEPT !.releases = r]
               \/ \E m : obj' = [obj EXCEPT !.matching = m]
        PROVE  Kept
    BY <1>1, <1>2 DEF HCP
  <1>3. CASE \/ \E p \in Proxy : DeleteOrphan(p) \/ DeleteRelease(p)
             \/ \E c \in Cluster, label \in Label : ForCluster(c, label)
             \/ ListClusters \/ OrphansDeleted \/ Reinstall \/ CreateOrUpdate
             \/ ClustersReconciled \/ AggregateReady \/ ValidateDeletion
             \/ PatchConditions \/ PatchObject \/ PatchStatus
    <2>1. pc # "idle" /\ before' = before
      BY <1>3 DEF DeleteOrphan, DeleteRelease, ForCluster, ListClusters, OrphansDeleted,
         Reinstall, CreateOrUpdate, ClustersReconciled, AggregateReady, ValidateDeletion,
         PatchConditions, PatchObject, PatchStatus
    <2>2. \/ obj' = obj
          \/ \E r : obj' = [obj EXCEPT !.specs = r]
          \/ \E r : obj' = [obj EXCEPT !.releases = r]
          \/ \E m : obj' = [obj EXCEPT !.matching = m]
      <3>1. CASE (\E p \in Proxy : DeleteOrphan(p) \/ DeleteRelease(p)) \/ Reinstall
        BY <3>1 DEF DeleteOrphan, DeleteRelease, Reinstall, Return, Patch
      <3>2. CASE (\E c \in Cluster, label \in Label : ForCluster(c, label)) \/ OrphansDeleted
        BY <3>2 DEF ForCluster, OrphansDeleted, Return, Patch
      <3>3. CASE ListClusters
        BY <3>3 DEF ListClusters, Return, Patch
      <3>4. CASE CreateOrUpdate
        BY <3>4 DEF CreateOrUpdate, Return, Patch
      <3>5. CASE ClustersReconciled \/ AggregateReady \/ ValidateDeletion
        BY <3>5 DEF ClustersReconciled, AggregateReady, ValidateDeletion, Return, Patch
      <3>6. CASE PatchConditions \/ PatchObject \/ PatchStatus
        BY <3>6 DEF PatchConditions, PatchObject, PatchStatus
      <3> QED
        BY <1>3, <3>1, <3>2, <3>3, <3>4, <3>5, <3>6
    <2> QED
      BY <1>2, <2>1, <2>2
  <1>4. CASE Reconcile
    BY <1>4 DEF Reconcile
  <1>5. CASE ListReleases
    <2>1. pc # "idle" /\ before' = before /\ (obj' = obj \/ obj' = [obj EXCEPT !.finalizer = TRUE])
      BY <1>5 DEF ListReleases, Return, Patch
    <2> QED
      BY <1>1, <2>1, MemoryFields
  <1>6. CASE ReleasesDeleted
    <2>1. /\ pc = "deleteRelease" /\ doomed = {} /\ before' = before /\ UNCHANGED proxies
          /\ remaining = {} \/ \E r : obj' = [obj EXCEPT !.releases = r]
      BY <1>6 DEF ReleasesDeleted, Return, Patch
    <2> QED
      BY <1>2, <2>1
  <1>7. CASE PatchReturns
    BY <1>7 DEF PatchReturns, Return, Patch
  <1>8. CASE WorkerStep
    BY <1>3, <1>4, <1>5, <1>6, <1>7, <1>8 DEF WorkerStep
  <1>9. CASE \/ \E p \in Proxy : \/ CacheSync(p) \/ ProxyReports(p) \/ ProxyRemoved(p)
                                 \/ GarbageCollect(p)
             \/ \E c \in Cluster : ClusterChanges(c)
             \/ User \/ Crash
             \/ UNCHANGED vars
    <2>1. UNCHANGED <<pc, obj, before>>
      BY <1>9 DEF CacheSync, ProxyReports, ProxyRemoved, GarbageCollect, ClusterChanges, User,
         CreateHCP, UpdateHCP, DeleteHCP, Crash, vars, locals
    <2> QED
      BY <2>1
  <1> QED
    BY <1>8, <1>9 DEF Next

\* How a worker comes to delete with its HelmChartProxy, and goes on.
LEMMA BeforeDeletion ==
    ASSUME [Next]_vars, pc' \in {"deleteRelease", "validateDeletion"}
    PROVE  \/ UNCHANGED <<pc, doomed, remaining, existing>>
           \/ pc = "listReleases" /\ doomed' = Releases /\ UNCHANGED proxies
           \/ \E p \in Proxy : /\ pc = "deleteRelease" /\ pc' = "validateDeletion"
                               /\ doomed' = doomed \ {p} /\ UNCHANGED remaining
                               /\ existing' = [existing EXCEPT !.proxy = p]
           \/ /\ pc = "validateDeletion" /\ UNCHANGED <<proxies, doomed>>
              /\ remaining' = IF Listed[existing.proxy] = None
                                THEN remaining ELSE remaining \union {existing.proxy}
  <1>1. CASE WorkerStep
    <2>1. \/ ListReleases \/ (\E p \in Proxy : DeleteRelease(p)) \/ ValidateDeletion
      BY <1>1 DEF WorkerStep, Reconcile, ListClusters, DeleteOrphan, OrphansDeleted, ForCluster,
         Reinstall, CreateOrUpdate, ClustersReconciled, AggregateReady, ReleasesDeleted,
         PatchConditions, PatchObject, PatchStatus, PatchReturns, Return, Patch
    <2> QED
      BY <2>1 DEF ListReleases, DeleteRelease, ValidateDeletion, Return, Patch
  <1>2. CASE ~WorkerStep
    BY <1>2 DEF Next, User, CacheSync, ProxyReports, ProxyRemoved, GarbageCollect,
       ClusterChanges, CreateHCP, UpdateHCP, DeleteHCP, Crash, vars, locals
  <1> QED
    BY <1>1, <1>2

\* As long as the worker sees every object, the finalizer stays until the last
\* one is gone.
LEMMA FinalizerStep ==
    ASSUME ~CacheLag, TypeInv, WorkerInv, FinalizerInv, [Next]_vars
    PROVE  FinalizerInv'
  <1>1. ASSUME NEW q \in Proxy, Exists(q)'
        PROVE  Exists(q) \/ pc = "createOrUpdate"
    BY <1>1, ClustersKept DEF IsCreated
  <1>2. pc \in Normal => Guarded /\ obj.finalizer
    BY DEF WorkerInv, WorkerGuards
  <1>3. FinalizerGuardsProxies'
    <2> SUFFICES ASSUME NEW q \in Proxy, Exists(q)'
                 PROVE  Guarded'
      BY DEF FinalizerGuardsProxies, Guarded
    <2>1. Guarded
      BY <1>1, <1>2 DEF FinalizerInv, FinalizerGuardsProxies, Guarded, Normal
    <2>2. ~(pc = "patchObject" /\ before.finalizer /\ ~obj.finalizer)
      BY <1>1 DEF FinalizerInv, DeletionComplete
    <2> QED
      BY <2>1, <2>2, GuardKept
  <1>4. ASSUME pc' \in {"deleteRelease", "validateDeletion"}, NEW q \in Proxy, Exists(q)'
        PROVE  \/ q \in doomed' \union remaining'
               \/ pc' = "validateDeletion" /\ q = existing'.proxy
    <2>1. pc # "createOrUpdate"
      BY <1>4, BeforeDeletion
    <2>2. Exists(q)
      BY <1>1, <1>4, <2>1
    <2>3. CASE UNCHANGED <<pc, doomed, remaining, existing>>
      BY <1>4, <2>2, <2>3 DEF FinalizerInv, DeletionComplete
    <2>4. CASE doomed' = Releases
      BY <2>2, <2>4 DEF Releases, Listed, Exists
    <2>5. ASSUME NEW p \in Proxy, pc = "deleteRelease", pc' = "validateDeletion",
                 doomed' = doomed \ {p}, UNCHANGED remaining,
                 existing' = [existing EXCEPT !.proxy = p]
          PROVE  q \in doomed' \union remaining' \/ q = existing'.proxy
      <3>1. existing'.proxy = p
        BY <2>5 DEF TypeInv, LocalsOK, Existing
      <3> QED
        BY <2>2, <2>5, <3>1 DEF FinalizerInv, DeletionComplete
    <2>6. CASE /\ pc = "validateDeletion" /\ UNCHANGED doomed
               /\ remaining' = IF Listed[existing.proxy] = None
                                 THEN remaining ELSE remaining \union {existing.proxy}
      BY <2>2, <2>6 DEF FinalizerInv, DeletionComplete, Listed, Exists
    <2> QED
      BY <1>4, <2>3, <2>4, <2>5, <2>6, BeforeDeletion
  <1>5. ASSUME pc' # "idle", before'.finalizer, ~obj'.finalizer, NEW q \in Proxy, Exists(q)'
        PROVE  FALSE
    <2>1. CASE pc # "idle" /\ before' = before /\ obj'.finalizer = obj.finalizer
      BY <1>1, <1>2, <1>5, <2>1 DEF FinalizerInv, DeletionComplete, Normal
    <2>2. CASE pc = "deleteRelease" /\ doomed = {} /\ remaining = {} /\ UNCHANGED proxies
      BY <1>5, <2>2 DEF FinalizerInv, DeletionComplete, Exists
    <2> QED
      BY <1>5, <2>1, <2>2, MemoryEffect
  <1>6. DeletionComplete'
    BY <1>4, <1>5 DEF DeletionComplete
  <1> QED
    BY <1>3, <1>6 DEF FinalizerInv

\* What an upgrade finds has its finalizer.
LEMMA FinalizerInit == Init => FinalizerInv
  <1> SUFFICES ASSUME Init
               PROVE  FinalizerInv
    OBVIOUS
  <1>1. DeletionComplete
    BY DEF Init, DeletionComplete
  <1>2. ASSUME NEW spec \in LegacySpec, NEW p \in Proxy, NEW c \in Cluster, Upgraded(spec, p, c)
        PROVE  FinalizerGuardsProxies
    <2>1. NewHCP(spec) \in HCP
      BY ConstantsAssumption, NewHCPType
    <2>2. hcp \in HCP /\ hcp.finalizer
      BY <1>2, <2>1, FinalizerFields DEF Upgraded
    <2> QED
      BY <2>2, NoneIsNoObject DEF FinalizerGuardsProxies
  <1>3. (\A p \in Proxy : ~Exists(p)) => FinalizerGuardsProxies
    BY DEF FinalizerGuardsProxies
  <1> QED
    BY <1>1, <1>2, <1>3 DEF Init, FinalizerInv, Exists

\* With a cache that is up to date, a HelmChartProxy does not go, and does not lose
\* its finalizer, as long as a HelmReleaseProxy of it exists, though the finalizer
\* is patched in a request of its own that may fail or come late, users may delete
\* the object at any time, and the worker may crash between any two steps.
THEOREM FinalizerOutlivesProxies ==
    ASSUME ~CacheLag
    PROVE  Spec => []FinalizerGuardsProxies
  <1>1. TypeInv /\ WorkerInv /\ FinalizerInv /\ [Next]_vars => FinalizerInv'
    BY FinalizerStep
  <1>2. FinalizerInv => FinalizerGuardsProxies
    BY DEF FinalizerInv
  <1> QED
    BY <1>1, <1>2, TypeInvariance, WorkerInvariance, FinalizerInit, PTL DEF Spec

-----------------------------------------------------------------------------
(* InstallOnce leaves alone what it has installed.                         *)

\* While the HelmChartProxy lives, no step deletes one of its objects.
LEMMA NotDeleted ==
    ASSUME TypeInv, WorkerInv, ReconcileStrategy = "InstallOnce", hcp # None, ~hcp.deleting,
           NEW p \in Proxy
    PROVE  ~IsDeleted(p)
  <1>1. pc = "deleteRelease" => hcp = None \/ hcp.deleting
    BY DEF WorkerInv, WorkerDeletes
  <1>2. pc = "deleteOrphans" => doomed = {}
    BY DEF WorkerInv, WorkerInstallsOnce
  <1>3. pc # "reinstall"
    BY DEF WorkerInv, WorkerInstallsOnce
  <1> QED
    BY <1>1, <1>2, <1>3 DEF IsDeleted

\* So none of them is under deletion.
LEMMA NoneDeletingStep ==
    ASSUME TypeInv, WorkerInv, NoneDeleting, [Next]_vars
    PROVE  NoneDeleting'
  <1> SUFFICES ASSUME ReconcileStrategy = "InstallOnce", hcp' # None, ~hcp'.deleting,
                      NEW q \in Proxy, Exists(q)'
               PROVE  ~proxies'[q].deleting
    BY DEF NoneDeleting
  <1>1. CASE Appears
    BY <1>1 DEF Appears, Exists
  <1>2. CASE ~Appears
    <2>1. hcp # None /\ ~hcp.deleting
      BY <1>2, HCPEffect, NoneIsNoObject DEF Rewritten, UserDeletes, FinalizerPatched
    <2>2. Exists(q) => ~proxies[q].deleting
      BY <2>1 DEF NoneDeleting
    <2>3. proxies \in [Proxy -> HRP \union {None}]
      BY DEF TypeInv, WorldOK
    <2>4. CASE UNCHANGED proxies
      BY <2>2, <2>4 DEF Exists
    <2>5. ASSUME NEW p \in Proxy, IsCreated(p)
          PROVE  ~proxies'[q].deleting
      <3> DEFINE new == Default(NewHelmReleaseProxy(existing.cluster, existing.label, obj.spec))
      <3>1. ~new.deleting /\ proxies' = [proxies EXCEPT ![p] = new]
        BY <2>5, CreatedFields DEF IsCreated
      <3> HIDE DEF new
      <3> QED
        BY <2>2, <2>3, <3>1 DEF Exists
    <2>6. ASSUME NEW p \in Proxy, IsUpdated(p)
          PROVE  ~proxies'[q].deleting
      BY <2>2, <2>3, <2>6, KeptFields DEF IsUpdated, Exists
    <2>7. ASSUME NEW p \in Proxy, IsReported(p)
          PROVE  ~proxies'[q].deleting
      BY <2>2, <2>3, <2>7, KeptFields DEF IsReported, Exists
    <2>8. ASSUME NEW p \in Proxy, IsRemoved(p)
          PROVE  ~proxies'[q].deleting
      BY <2>2, <2>3, <2>8 DEF IsRemoved, Exists
    <2> QED
      BY <2>1, <2>4, <2>5, <2>6, <2>7, <2>8, ProxiesEffect, NotDeleted
  <1> QED
    BY <1>1, <1>2

\* Nothing is under deletion to begin with.
LEMMA NothingDeletingInit ==
    ASSUME Init, NEW p \in Proxy, Exists(p)
    PROVE  ~proxies[p].deleting
  <1>1. PICK spec \in LegacySpec, q \in Proxy, c \in Cluster : Upgraded(spec, q, c)
    BY DEF Init, Exists
  <1>2. proxies[p] = [NewHelmReleaseProxy(c, clusters[c].label, spec) EXCEPT
                        !.secret = spec.secret]
    BY <1>1 DEF Upgraded, Exists
  <1> QED
    BY <1>2 DEF NewHelmReleaseProxy

\* What a report keeps: everything the owner specifies.
LEMMA ReportedSpecification ==
    ASSUME NEW h \in HRP
    PROVE  /\ Specification(Served(h)) = Specification(h)
           /\ \A install : Specification(NotServed(h, install)) = Specification(h)
  BY DEF Specification, Served, NotServed, HRP

\* InstallOnce, however old the cached copies are that the worker decides on: as long
\* as the HelmChartProxy lives, a HelmReleaseProxy whose chart has been installed is
\* neither deleted nor given another specification.  A copy read before the
\* installation cannot do it either, since the update is refused.
THEOREM InstalledStays == Spec => InstalledIsLeftAlone
  <1>1. ASSUME TypeInv, WorkerInv, NoneDeleting, [Next]_vars,
               ReconcileStrategy = "InstallOnce", hcp # None, ~hcp.deleting,
               NEW q \in Proxy, Exists(q), proxies[q].installed
        PROVE  /\ Exists(q)'
               /\ ~proxies'[q].deleting
               /\ Specification(proxies'[q]) = Specification(proxies[q])
    <2>1. ~proxies[q].deleting
      BY <1>1 DEF NoneDeleting
    <2>2. proxies \in [Proxy -> HRP \union {None}] /\ proxies[q] \in HRP
      BY <1>1 DEF TypeInv, WorldOK, Exists
    <2>3. CASE UNCHANGED proxies
      BY <1>1, <2>1, <2>3 DEF Exists
    <2>4. ASSUME NEW p \in Proxy, IsCreated(p)
          PROVE  proxies'[q] = proxies[q]
      BY <1>1, <2>2, <2>4 DEF IsCreated
    <2>5. ASSUME NEW p \in Proxy, IsUpdated(p)
          PROVE  proxies'[q] = proxies[q]
      <3>1. p # q
        BY <1>1, <2>5, ConstantsAssumption DEF IsUpdated, WorkerInv, WorkerInstallsOnce
      <3> QED
        BY <2>2, <2>5, <3>1 DEF IsUpdated
    <2>6. ASSUME NEW p \in Proxy, IsReported(p)
          PROVE  /\ proxies'[q] # None
                 /\ ~proxies'[q].deleting
                 /\ Specification(proxies'[q]) = Specification(proxies[q])
      <3>1. CASE p # q
        BY <1>1, <2>1, <2>2, <2>6, <3>1 DEF IsReported, Exists
      <3>2. CASE p = q
        <4>1. \/ proxies'[q] = Served(proxies[q])
              \/ \E install \in BOOLEAN : proxies'[q] = NotServed(proxies[q], install)
          BY <2>2, <2>6, <3>2 DEF IsReported
        <4> QED
          BY <2>1, <2>2, <4>1, KeptFields, ReportedSpecification, ServedType, NoneIsNoObject
      <3> QED
        BY <3>1, <3>2
    <2>7. ASSUME NEW p \in Proxy, IsRemoved(p)
          PROVE  proxies'[q] = proxies[q]
      BY <2>1, <2>2, <2>7 DEF IsRemoved
    <2> QED
      BY <1>1, <2>1, <2>2, <2>3, <2>4, <2>5, <2>6, <2>7, ProxiesEffect, NotDeleted DEF Exists
  <1>2. TypeInv /\ WorkerInv /\ NoneDeleting /\ [Next]_vars =>
          (ReconcileStrategy = "InstallOnce" /\ hcp # None /\ ~hcp.deleting =>
             \A p \in Proxy :
               Exists(p) /\ proxies[p].installed =>
                 /\ Exists(p)'
                 /\ ~proxies'[p].deleting
                 /\ Specification(proxies'[p]) = Specification(proxies[p]))
    BY <1>1
  <1>3. Init => NoneDeleting
    BY NothingDeletingInit DEF NoneDeleting
  <1>4. TypeInv /\ WorkerInv /\ NoneDeleting /\ [Next]_vars => NoneDeleting'
    BY NoneDeletingStep
  <1> QED
    BY <1>2, <1>3, <1>4, TypeInvariance, WorkerInvariance, PTL DEF Spec, InstalledIsLeftAlone

-----------------------------------------------------------------------------
(* The contract with the HelmReleaseProxy controller.                      *)

\* An object under deletion is held by its finalizer.
LEMMA DeletingHeldStep ==
    ASSUME TypeInv, DeletingHeld, [Next]_vars
    PROVE  DeletingHeld'
  <1> SUFFICES ASSUME NEW q \in Proxy, Exists(q)', proxies'[q].deleting
               PROVE  proxies'[q].finalizer
    BY DEF DeletingHeld
  <1>1. Exists(q) /\ proxies[q].deleting => proxies[q].finalizer
    BY DEF DeletingHeld
  <1>2. proxies \in [Proxy -> HRP \union {None}]
    BY DEF TypeInv, WorldOK
  <1>3. CASE UNCHANGED proxies
    BY <1>1, <1>3 DEF Exists
  <1>4. ASSUME NEW p \in Proxy, IsDeleted(p)
        PROVE  proxies'[q].finalizer
    <2>1. CASE p = q
      <3>1. /\ proxies[q] \in HRP /\ proxies'[q] = Deleted(proxies[q])
            /\ Deleted(proxies[q]).deleting => Deleted(proxies[q]).finalizer
        BY <1>2, <1>4, <2>1 DEF IsDeleted, DeleteHelmReleaseProxy, Exists, Stored
      <3> QED
        BY <3>1, KeptFields
    <2>2. CASE p # q
      BY <1>1, <1>2, <1>4, <2>2 DEF IsDeleted, DeleteHelmReleaseProxy, Exists
    <2> QED
      BY <2>1, <2>2
  <1>5. ASSUME NEW p \in Proxy, IsCreated(p)
        PROVE  proxies'[q].finalizer
    <2> DEFINE new == Default(NewHelmReleaseProxy(existing.cluster, existing.label, obj.spec))
    <2>1. ~new.deleting /\ proxies' = [proxies EXCEPT ![p] = new]
      BY <1>5, CreatedFields DEF IsCreated
    <2> HIDE DEF new
    <2> QED
      BY <1>1, <1>2, <2>1 DEF Exists
  <1>6. ASSUME NEW p \in Proxy, IsUpdated(p)
        PROVE  proxies'[q].finalizer
    BY <1>1, <1>2, <1>6, KeptFields DEF IsUpdated, Exists
  <1>7. ASSUME NEW p \in Proxy, IsReported(p)
        PROVE  proxies'[q].finalizer
    BY <1>1, <1>2, <1>7, KeptFields DEF IsReported, Exists
  <1>8. ASSUME NEW p \in Proxy, IsRemoved(p)
        PROVE  proxies'[q].finalizer
    BY <1>1, <1>2, <1>8 DEF IsRemoved, Exists
  <1> QED
    BY <1>3, <1>4, <1>5, <1>6, <1>7, <1>8, ProxiesEffect

Objects == [p \in Proxy |-> IF Exists(p) THEN SharedView(proxies[p]) ELSE None]

\* The view of an object is a view, and not None.
LEMMA ViewType == \A h \in HRP : SharedView(h) \in View /\ SharedView(h) # None
  <1>1. ASSUME NEW h \in HRP
        PROVE  SharedView(h) \in View
    BY DEF SharedView, View, HRP
  <1> QED
    BY <1>1, NoneIsNoView

\* A step that changes one object changes one object of the contract.
LEMMA OnlyOne ==
    ASSUME TypeInv, NEW p \in Proxy, NEW new, proxies' = [proxies EXCEPT ![p] = new]
    PROVE  /\ Objects' = [Objects EXCEPT ![p] = Objects'[p]]
           /\ Objects'[p] = IF new = None THEN None ELSE SharedView(new)
  <1>1. proxies \in [Proxy -> HRP \union {None}]
    BY DEF TypeInv, WorldOK
  <1>2. proxies'[p] = new /\ \A q \in Proxy : q # p => proxies'[q] = proxies[q]
    BY <1>1
  <1>3. /\ Objects'[p] = IF new = None THEN None ELSE SharedView(new)
        /\ \A q \in Proxy : q # p => Objects'[q] = Objects[q]
    BY <1>2 DEF Objects, Exists
  <1> QED
    BY <1>3 DEF Objects

\* The fields of a view.
LEMMA ViewFields ==
    ASSUME NEW h
    PROVE  /\ SharedView(h).identity = <<h.cluster, h.chart, h.namespace>>
           /\ SharedView(h).spec = <<h.content, h.values, h.options, h.secret>>
           /\ SharedView(h).releaseName = h.releaseName
           /\ SharedView(h).generated = h.generated
           /\ SharedView(h).installed = h.installed
           /\ SharedView(h).finalizer = h.finalizer
           /\ SharedView(h).deleting = h.deleting
           /\ SharedView(h).ready = h.ready
           /\ SharedView(h).generation = h.generation
           /\ SharedView(h).observed = h.observed
  BY DEF SharedView

\* What an Update, a Delete and a Serve of the contract may change.
Updates(v, w) == w = [v EXCEPT !.spec = w.spec, !.generation = @ + 1]
Marks(v, w) == w = [v EXCEPT !.deleting = TRUE, !.generation = @ + 1]
Serves(v, w) ==
    w = [v EXCEPT !.finalizer = w.finalizer,
                  !.generated = w.generated,
                  !.installed = w.installed,
                  !.releaseName = w.releaseName,
                  !.generation = IF w.releaseName = v.releaseName THEN @ ELSE @ + 1,
                  !.ready = w.ready,
                  !.observed = w.observed]

\* A view that differs in what the owner writes.
LEMMA OwnersWrite ==
    ASSUME NEW v \in View, NEW w \in View,
           w.identity = v.identity, w.releaseName = v.releaseName,
           w.generated = v.generated, w.installed = v.installed, w.finalizer = v.finalizer,
           w.ready = v.ready, w.generation = v.generation + 1, w.observed = v.observed
    PROVE  /\ w.deleting = v.deleting => Updates(v, w)
           /\ w.deleting /\ w.spec = v.spec => Marks(v, w)
  BY DEF View, Updates, Marks

\* A view that differs in what the controller writes.
LEMMA ControllersWrite ==
    ASSUME NEW v \in View, NEW w \in View,
           w.identity = v.identity, w.spec = v.spec, w.deleting = v.deleting,
           w.generation = IF w.releaseName = v.releaseName THEN v.generation
                                                           ELSE v.generation + 1
    PROVE  Serves(v, w)
  BY DEF View, Serves

\* A view of an object as the owner makes it.
LEMMA NewByFields ==
    ASSUME NEW v \in View, v.releaseName \in UserName \union {None},
           ~v.generated, ~v.installed, ~v.finalizer, ~v.deleting, ~v.ready,
           v.generation = 1, v.observed = 0
    PROVE  Contract!New(v)
  BY DEF View, Contract!New

\* A deletion marks the object, once.
LEMMA ViewOfDeleted ==
    ASSUME NEW h \in HRP
    PROVE  /\ h.deleting => Deleted(h) = h
           /\ ~h.deleting => Marks(SharedView(h), SharedView(Deleted(h)))
  <1>1. h.deleting => Deleted(h) = h
    BY DEF Deleted, HRP
  <1>2. ASSUME ~h.deleting
        PROVE  Marks(SharedView(h), SharedView(Deleted(h)))
    <2> DEFINE d == Deleted(h)
    <2>1. d \in HRP /\ d.generation = h.generation + 1
      BY <1>2, DeletedType DEF Deleted, HRP
    <2>2. /\ d.cluster = h.cluster /\ d.chart = h.chart /\ d.namespace = h.namespace
          /\ d.content = h.content /\ d.values = h.values /\ d.options = h.options
          /\ d.secret = h.secret
      BY DEF Deleted, HRP
    <2>3. /\ d.releaseName = h.releaseName /\ d.generated = h.generated
          /\ d.installed = h.installed /\ d.finalizer = h.finalizer /\ d.deleting = TRUE
          /\ d.ready = h.ready /\ d.observed = h.observed
      BY DEF Deleted, HRP
    <2> HIDE DEF d
    <2>4. SharedView(h) \in View /\ SharedView(d) \in View
      BY <2>1, ViewType
    <2>5. SharedView(d).identity = SharedView(h).identity /\ SharedView(d).spec = SharedView(h).spec
      BY <2>2, ViewFields
    <2>6. Marks(SharedView(h), SharedView(d))
      <3> DEFINE v == SharedView(h)
                 w == SharedView(d)
      <3>1. /\ w.releaseName = v.releaseName /\ w.generated = v.generated
            /\ w.installed = v.installed /\ w.finalizer = v.finalizer /\ w.deleting = TRUE
            /\ w.ready = v.ready /\ w.generation = v.generation + 1 /\ w.observed = v.observed
        BY <2>1, <2>3, ViewFields
      <3> HIDE DEF v, w
      <3>2. Marks(v, w)
        BY <2>4, <2>5, <3>1, OwnersWrite DEF v, w
      <3> QED
        BY <3>2 DEF v, w
    <2> QED
      BY <2>6 DEF d
  <1> QED
    BY <1>1, <1>2

\* An update changes the owner's part, and the generation.
LEMMA ViewOfUpdated ==
    ASSUME NEW h \in HRP, NEW label \in Label, NEW spec \in HelmChartProxySpec, NEW n,
           n = Default(UpdatedHelmReleaseProxy(h, label, spec)),
           ValidateUpdateRelease(h, n)
    PROVE  Updates(SharedView(h), SharedView(n))
  <1> DEFINE u == UpdatedHelmReleaseProxy(h, label, spec)
  <1>1. u \in HRP /\ n \in HRP
    BY ConstructedType, DefaultType
  <1>2. /\ u.cluster = h.cluster /\ u.releaseName = h.releaseName /\ u.generated = h.generated
        /\ u.installed = h.installed /\ u.finalizer = h.finalizer /\ u.deleting = h.deleting
        /\ u.ready = h.ready /\ u.observed = h.observed
    BY DEF UpdatedHelmReleaseProxy, HRP
  <1>3. u.generation = h.generation + 1
    BY DEF UpdatedHelmReleaseProxy, HRP
  <1> HIDE DEF u
  <1>4. /\ n.cluster = u.cluster /\ n.releaseName = u.releaseName /\ n.generated = u.generated
        /\ n.installed = u.installed /\ n.finalizer = u.finalizer /\ n.deleting = u.deleting
        /\ n.ready = u.ready /\ n.observed = u.observed /\ n.generation = u.generation
    <2>1. n = Default(u)
      BY DEF u
    <2> QED
      BY <1>1, <2>1 DEF Default, HRP
  <1>5. n.chart = h.chart /\ n.namespace = h.namespace
    BY DEF ValidateUpdateRelease
  <1> DEFINE v == SharedView(h)
             w == SharedView(n)
  <1>6. v \in View /\ w \in View
    BY <1>1, ViewType
  <1>7. /\ w.identity = v.identity /\ w.releaseName = v.releaseName /\ w.generated = v.generated
        /\ w.installed = v.installed /\ w.finalizer = v.finalizer /\ w.deleting = v.deleting
        /\ w.ready = v.ready /\ w.generation = v.generation + 1 /\ w.observed = v.observed
    <2>1. /\ v.identity = <<h.cluster, h.chart, h.namespace>>
          /\ w.identity = <<n.cluster, n.chart, n.namespace>>
      BY ViewFields
    <2>2. w.identity = v.identity
      BY <1>2, <1>4, <1>5, <2>1
    <2> QED
      BY <1>2, <1>3, <1>4, <2>2, ViewFields
  <1> HIDE DEF v, w
  <1>8. Updates(v, w)
    BY <1>6, <1>7, OwnersWrite
  <1> QED
    BY <1>8 DEF v, w

\* A report leaves the owner's part alone, and sets a name only where there is none.
LEMMA ReportedFields ==
    ASSUME NEW h \in HRP, NEW n,
           n = Served(h) \/ \E install \in BOOLEAN : n = NotServed(h, install)
    PROVE  /\ n \in HRP
           /\ n.cluster = h.cluster /\ n.chart = h.chart /\ n.namespace = h.namespace
           /\ n.content = h.content /\ n.values = h.values /\ n.options = h.options
           /\ n.secret = h.secret /\ n.deleting = h.deleting
           /\ n.finalizer
           /\ h.generated => n.generated
           /\ h.installed => n.installed
           /\ n.releaseName # h.releaseName =>
                 h.releaseName = None /\ n.releaseName = GeneratedName /\ n.generated
           /\ n.generation = IF n.releaseName = h.releaseName THEN h.generation
                                                              ELSE h.generation + 1
           /\ n.observed = h.generation
  <1>1. n \in HRP
    BY ServedType
  <1>2. CASE n = Served(h)
    <2>1. /\ n.cluster = h.cluster /\ n.chart = h.chart /\ n.namespace = h.namespace
          /\ n.content = h.content /\ n.values = h.values /\ n.options = h.options
          /\ n.secret = h.secret /\ n.deleting = h.deleting
      BY <1>2 DEF Served, HRP
    <2>2. /\ n.finalizer /\ n.installed
          /\ n.generated = (h.generated \/ h.releaseName = None)
          /\ n.releaseName = IF h.releaseName = None THEN GeneratedName ELSE h.releaseName
      BY <1>2 DEF Served, HRP
    <2>3. /\ n.generation = IF h.releaseName = None THEN h.generation + 1 ELSE h.generation
          /\ n.observed = h.generation
      BY <1>2 DEF Served, HRP
    <2>4. GeneratedName # None
      BY ConstantsAssumption
    <2> QED
      BY <1>1, <2>1, <2>2, <2>3, <2>4
  <1>3. ASSUME NEW install \in BOOLEAN, n = NotServed(h, install)
        PROVE  /\ n.cluster = h.cluster /\ n.chart = h.chart /\ n.namespace = h.namespace
               /\ n.content = h.content /\ n.values = h.values /\ n.options = h.options
               /\ n.secret = h.secret /\ n.deleting = h.deleting
               /\ n.finalizer
               /\ h.generated => n.generated
               /\ n.installed = h.installed
               /\ n.releaseName = h.releaseName
               /\ n.generation = h.generation
               /\ n.observed = h.generation
    <2>1. /\ n.cluster = h.cluster /\ n.chart = h.chart /\ n.namespace = h.namespace
          /\ n.content = h.content /\ n.values = h.values /\ n.options = h.options
          /\ n.secret = h.secret /\ n.deleting = h.deleting
      BY <1>3 DEF NotServed, HRP
    <2>2. n.finalizer /\ (h.generated => n.generated) /\ n.installed = h.installed
      BY <1>3 DEF NotServed, HRP
    <2>3. /\ n.releaseName = h.releaseName /\ n.generation = h.generation
          /\ n.observed = h.generation
      BY <1>3 DEF NotServed, HRP
    <2> QED
      BY <2>1, <2>2, <2>3
  <1> QED
    BY <1>1, <1>2, <1>3

\* So it changes the controller's part of the view.
LEMMA ViewOfReported ==
    ASSUME NEW h \in HRP, NEW n,
           n = Served(h) \/ \E install \in BOOLEAN : n = NotServed(h, install),
           NEW v, v = SharedView(h), NEW w, w = SharedView(n)
    PROVE  /\ w # None
           /\ Serves(v, w)
           /\ w.finalizer
           /\ v.generated => w.generated
           /\ v.installed => w.installed
           /\ w.releaseName # v.releaseName =>
                 /\ v.releaseName \notin UserName
                 /\ w.releaseName \in {GeneratedName}
                 /\ w.generated
           /\ w.observed \in 0 .. w.generation
  <1>1. v \in View /\ w \in View /\ w # None
    BY ViewType, ReportedFields
  <1>2. /\ w.identity = v.identity /\ w.spec = v.spec /\ w.deleting = v.deleting
        /\ w.generation = IF w.releaseName = v.releaseName THEN v.generation
                                                           ELSE v.generation + 1
    <2>1. /\ v.identity = <<h.cluster, h.chart, h.namespace>>
          /\ w.identity = <<n.cluster, n.chart, n.namespace>>
          /\ v.spec = <<h.content, h.values, h.options, h.secret>>
          /\ w.spec = <<n.content, n.values, n.options, n.secret>>
      BY ViewFields
    <2>2. w.identity = v.identity /\ w.spec = v.spec
      BY <2>1, ReportedFields
    <2> QED
      BY <2>2, ViewFields, ReportedFields
  <1>3. /\ w.finalizer
        /\ v.generated => w.generated
        /\ v.installed => w.installed
        /\ w.releaseName # v.releaseName =>
              v.releaseName = None /\ w.releaseName = GeneratedName /\ w.generated
        /\ w.observed = v.generation
    BY ViewFields, ReportedFields
  <1>4. Serves(v, w)
    BY <1>1, <1>2, ControllersWrite
  <1>5. w.observed \in 0 .. w.generation
    BY <1>1, <1>2, <1>3 DEF View
  <1>6. None \notin UserName
    BY ConstantsAssumption
  <1> QED
    BY <1>1, <1>3, <1>4, <1>5, <1>6

\* A new object is one the contract lets the owner create.
LEMMA ViewOfCreated ==
    ASSUME NEW c \in Cluster, NEW label \in Label, NEW spec \in HelmChartProxySpec, NEW n,
           n = Default(NewHelmReleaseProxy(c, label, spec))
    PROVE  SharedView(n) # None /\ Contract!New(SharedView(n))
  <1>1. n \in HRP
    BY ConstructedType, DefaultType
  <1>2. /\ n.releaseName = spec.releaseName /\ ~n.generated /\ ~n.installed /\ ~n.finalizer
        /\ ~n.deleting /\ ~n.ready /\ n.generation = 1 /\ n.observed = 0
    BY DEF Default, NewHelmReleaseProxy
  <1>3. spec.releaseName \in UserName \union {None}
    BY DEF HelmChartProxySpec
  <1> QED
    BY <1>1, <1>2, <1>3, ViewType, ViewFields, NewByFields

\* Every step is one of the contract, or leaves the objects of the contract alone.
LEMMA ContractStep ==
    ASSUME TypeInv, WorkerInv, DeletingHeld, [Next]_vars
    PROVE  Contract!Next \/ UNCHANGED Objects
  <1>0. proxies \in [Proxy -> HRP \union {None}]
    BY DEF TypeInv, WorldOK
  <1>1. CASE UNCHANGED proxies
    BY <1>1 DEF Objects, Exists
  <1>2. ASSUME NEW p \in Proxy, Objects' = [Objects EXCEPT ![p] = Objects'[p]],
               \/ Contract!Create(p) \/ Contract!Update(p) \/ Contract!Delete(p)
               \/ Contract!Serve(p) \/ Contract!Remove(p)
        PROVE  Contract!Next
    BY <1>2 DEF Contract!Next, Contract!Only, Contract!Owner, Contract!Controller, Objects
  <1>3. \A p \in Proxy : Objects[p] = IF proxies[p] = None THEN None ELSE SharedView(proxies[p])
    BY DEF Objects, Exists
  <1>4. ASSUME NEW p \in Proxy, IsDeleted(p)
        PROVE  Contract!Next \/ UNCHANGED Objects
    <2> DEFINE h == proxies[p]
    <2>1. CASE ~Exists(p)
      <3>1. proxies' = proxies
        BY <1>0, <1>4, <2>1 DEF IsDeleted, DeleteHelmReleaseProxy, Exists
      <3> QED
        BY <1>1, <3>1
    <2>2. CASE Exists(p)
      <3>1. h \in HRP /\ proxies' = [proxies EXCEPT ![p] = Stored(Deleted(h))]
        BY <1>0, <1>4, <2>2 DEF IsDeleted, DeleteHelmReleaseProxy, Exists
      <3>2. Deleted(h) \in HRP /\ Deleted(h).deleting /\ Deleted(h).finalizer = h.finalizer
        BY <3>1, DeletedType, KeptFields
      <3>3. CASE h.deleting
        <4>1. Deleted(h) = h /\ h.finalizer
          BY <2>2, <3>1, <3>3, ViewOfDeleted DEF DeletingHeld
        <4>2. proxies' = proxies
          BY <1>0, <3>1, <4>1 DEF Stored
        <4> QED
          BY <1>1, <4>2
      <3>4. CASE ~h.deleting
        <4>1. Stored(Deleted(h)) = IF h.finalizer THEN Deleted(h) ELSE None
          BY <3>2 DEF Stored
        <4>2. /\ Objects' = [Objects EXCEPT ![p] = Objects'[p]]
              /\ Objects'[p] = IF h.finalizer THEN SharedView(Deleted(h)) ELSE None
          BY <3>1, <3>2, <4>1, OnlyOne, NoneIsNoObject
        <4>3. Objects[p] = SharedView(h) /\ SharedView(h) # None
          BY <1>3, <2>2, <3>1, ViewType DEF Exists
        <4>4. SharedView(h).finalizer = h.finalizer /\ ~SharedView(h).deleting
          BY <3>4, ViewFields
        <4>5. Marks(SharedView(h), SharedView(Deleted(h)))
          BY <3>1, <3>4, ViewOfDeleted
        <4>6. Contract!Delete(p)
          BY <4>2, <4>3, <4>4, <4>5 DEF Contract!Delete, Contract!Exists, Objects, Marks
        <4> QED
          BY <1>2, <4>2, <4>6
      <3> QED
        BY <3>3, <3>4
    <2> QED
      BY <2>1, <2>2
  <1>5. ASSUME NEW p \in Proxy, IsCreated(p)
        PROVE  Contract!Next
    <2> DEFINE n == Default(NewHelmReleaseProxy(existing.cluster, existing.label, obj.spec))
    <2>1. /\ obj.spec \in HelmChartProxySpec /\ existing.cluster \in Cluster
          /\ existing.label \in Label
      BY <1>5 DEF IsCreated, TypeInv, LocalsOK, HCP
    <2>2. n \in HRP /\ SharedView(n) # None /\ Contract!New(SharedView(n))
      BY <2>1, ViewOfCreated, ConstructedType, DefaultType
    <2>3. proxies' = [proxies EXCEPT ![p] = n] /\ Objects[p] = None
      BY <1>3, <1>5 DEF IsCreated, Exists
    <2> HIDE DEF n
    <2>4. Objects' = [Objects EXCEPT ![p] = Objects'[p]] /\ Objects'[p] = SharedView(n)
      BY <2>2, <2>3, OnlyOne, NoneIsNoObject
    <2>5. Contract!Create(p)
      BY <2>2, <2>3, <2>4 DEF Contract!Create, Contract!Exists, Objects
    <2> QED
      BY <1>2, <2>4, <2>5
  <1>6. ASSUME NEW p \in Proxy, IsUpdated(p)
        PROVE  Contract!Next
    <2> DEFINE h == proxies[p]
               n == Default(UpdatedHelmReleaseProxy(h, existing.label, obj.spec))
    <2>1. h \in HRP /\ obj.spec \in HelmChartProxySpec /\ existing.label \in Label
      BY <1>0, <1>6 DEF IsUpdated, Exists, TypeInv, LocalsOK, HCP
    <2>2. n \in HRP
      BY <2>1, ConstructedType, DefaultType
    <2>3. proxies' = [proxies EXCEPT ![p] = n] /\ ValidateUpdateRelease(h, n)
      BY <1>6 DEF IsUpdated
    <2>4. Updates(SharedView(h), SharedView(n))
      <3>1. n = Default(UpdatedHelmReleaseProxy(h, existing.label, obj.spec))
        OBVIOUS
      <3> HIDE DEF n, h
      <3> QED
        BY <2>1, <2>3, <3>1, ViewOfUpdated
    <2>5. ~(ReconcileStrategy = "InstallOnce" /\ SharedView(h).installed)
      BY <1>6, ViewFields, ConstantsAssumption DEF IsUpdated, WorkerInv, WorkerInstallsOnce
    <2>6. Objects[p] = SharedView(h) /\ SharedView(h) # None /\ SharedView(n) # None
      BY <1>3, <2>1, <2>2, ViewType, NoneIsNoObject
    <2> HIDE DEF n, h
    <2>7. Objects' = [Objects EXCEPT ![p] = Objects'[p]] /\ Objects'[p] = SharedView(n)
      BY <2>2, <2>3, OnlyOne, NoneIsNoObject
    <2>8. Contract!Update(p)
      BY <2>4, <2>5, <2>6, <2>7 DEF Contract!Update, Contract!Exists, Objects, Updates
    <2> QED
      BY <1>2, <2>7, <2>8
  <1>7. ASSUME NEW p \in Proxy, IsReported(p)
        PROVE  Contract!Next
    <2> DEFINE h == proxies[p]
    <2>1. h \in HRP
      BY <1>0, <1>7 DEF IsReported, Exists
    <2>2. PICK n : /\ proxies' = [proxies EXCEPT ![p] = n]
                   /\ n = Served(h) \/ \E install \in BOOLEAN : n = NotServed(h, install)
      BY <1>7 DEF IsReported
    <2>3. n \in HRP
      BY <2>1, <2>2, ServedType
    <2>4. Objects' = [Objects EXCEPT ![p] = Objects'[p]] /\ Objects'[p] = SharedView(n)
      BY <2>2, <2>3, OnlyOne, NoneIsNoObject
    <2>5. Objects[p] = SharedView(h) /\ SharedView(h) # None
      BY <1>3, <2>1, ViewType, NoneIsNoObject
    <2>6. Contract!Serve(p)
      <3> DEFINE v == Objects[p]
                 w == Objects'[p]
      <3>1. /\ w # None
            /\ Serves(v, w)
            /\ w.finalizer
            /\ v.generated => w.generated
            /\ v.installed => w.installed
            /\ w.releaseName # v.releaseName =>
                  /\ v.releaseName \notin UserName
                  /\ w.releaseName \in {GeneratedName}
                  /\ w.generated
            /\ w.observed \in 0 .. w.generation
        <4> HIDE DEF v, w
        <4>1. v = SharedView(h) /\ w = SharedView(n)
          BY <2>4, <2>5 DEF v, w
        <4> HIDE DEF h
        <4>2. n = Served(h) \/ \E install \in BOOLEAN : n = NotServed(h, install)
          BY <2>2
        <4> QED
          BY <2>1, <4>1, <4>2, ViewOfReported
      <3>2. v # None
        BY <2>5
      <3> QED
        BY <3>1, <3>2 DEF Contract!Serve, Contract!Exists, Objects, Serves
    <2> QED
      BY <1>2, <2>4, <2>6
  <1>8. ASSUME NEW p \in Proxy, IsRemoved(p)
        PROVE  Contract!Next
    <2>1. /\ proxies[p] \in HRP /\ proxies[p].deleting
          /\ proxies' = [proxies EXCEPT ![p] = None]
      BY <1>0, <1>8 DEF IsRemoved, Exists
    <2>2. Objects' = [Objects EXCEPT ![p] = Objects'[p]] /\ Objects'[p] = None
      BY <2>1, OnlyOne
    <2>3. Objects[p] # None /\ Objects[p].deleting
      BY <1>3, <2>1, ViewType, ViewFields, NoneIsNoObject
    <2>4. Contract!Remove(p)
      BY <2>2, <2>3 DEF Contract!Remove, Contract!Exists, Objects
    <2> QED
      BY <1>2, <2>2, <2>4
  <1> QED
    BY <1>1, <1>4, <1>5, <1>6, <1>7, <1>8, ProxiesEffect

\* What an upgrade finds is as the contract has it initially.
LEMMA ContractInit == Init => Contract!Init
  <1> SUFFICES ASSUME Init, NEW p \in Proxy, Exists(p)
               PROVE  Contract!New(SharedView(proxies[p]))
    BY DEF Contract!Init, Contract!Exists
  <1> DEFINE h == proxies[p]
  <1>1. PICK spec \in LegacySpec, q \in Proxy, c \in Cluster : Upgraded(spec, q, c)
    BY DEF Init, Exists
  <1>2. h = [NewHelmReleaseProxy(c, clusters[c].label, spec) EXCEPT !.secret = spec.secret]
    BY <1>1 DEF Upgraded, Exists
  <1>3. /\ h.releaseName = spec.releaseName /\ ~h.generated /\ ~h.installed /\ ~h.finalizer
        /\ ~h.deleting /\ ~h.ready /\ h.generation = 1 /\ h.observed = 0
    BY <1>2 DEF NewHelmReleaseProxy
  <1>4. spec.releaseName \in UserName \union {None}
    BY ConstantsAssumption DEF HelmChartProxySpec
  <1>5. h \in HRP
    BY InitType DEF TypeInv, WorldOK, Exists
  <1> QED
    BY <1>3, <1>4, <1>5, ViewType, ViewFields, NewByFields

\* For any number of objects and Clusters, any faults, any age of the cached copies and
\* both strategies, the HelmChartProxy controller implements its side of ReleaseContract:
\* it changes the spec of an object and nothing that the HelmReleaseProxy controller
\* writes, deletes without breaking a finalizer, and leaves alone what InstallOnce has
\* installed.
THEOREM ImplementsContract == Spec => KeepsContract
  <1>1. Init => DeletingHeld
    BY NothingDeletingInit DEF DeletingHeld
  <1>2. TypeInv /\ DeletingHeld /\ [Next]_vars => DeletingHeld'
    BY DeletingHeldStep
  <1>3. TypeInv /\ WorkerInv /\ DeletingHeld /\ [Next]_vars
          => [Contract!Next]_Objects
    BY ContractStep
  <1> QED
    BY <1>1, <1>2, <1>3, TypeInvariance, WorkerInvariance, ContractInit, PTL
       DEF Spec, KeepsContract, Contract!Spec, Objects

-----------------------------------------------------------------------------
(***************************************************************************)
(* The status says what is so, as long as the worker sees every object and *)
(* no request is lost.                                                     *)
(***************************************************************************)

\* A HelmReleaseProxy that a reconcile should keep up to date, and one that a
\* specification has not reached.
InUse(p) ==
    /\ Exists(p) /\ ~proxies[p].deleting
    /\ clusters[proxies[p].cluster].phase = "live"
    /\ ~clusters[proxies[p].cluster].paused

Outdated(p, spec) == InUse(p) /\ ~spec.paused /\ proxies[p].content # spec.content

Ensuring == pc \in Patching /\ call = "ensureFinalizer"
Deferred == pc \in Patching /\ call = "deferred"

\* The worker has not set the condition yet, nor will the patch it is at.
Untouched ==
    \/ pc \in {"listClusters", "listReleases", "deleteOrphans", "deleteRelease",
               "validateDeletion"}
    \/ pc \in Patching /\ call # "deferred"

\* The generation that is reported is one the worker has read, and a generation
\* stands for one specification.
GenerationsInOrder ==
    /\ hcp # None => hcp.observed <= hcp.generation
    /\ pc # "idle" =>
          /\ obj.spec = before.spec
          /\ obj.generation = before.generation
          /\ obj.deleting = before.deleting
          /\ before.observed <= before.generation
    /\ pc # "idle" /\ hcp # None =>
          /\ hcp.observed \in {before.observed, before.generation}
          /\ before.generation <= hcp.generation
          /\ before.generation = hcp.generation => hcp.spec = before.spec

\* The condition that is stored is the one that was read until the last patch has
\* written the new one.
ConditionInOrder ==
    /\ Untouched => obj.specs = before.specs
    /\ pc # "idle" /\ hcp # None =>
          hcp.specs = IF Deferred /\ pc # "patchConditions" THEN obj.specs ELSE before.specs

\* What has been reported as up to date has the finalizer, so that the patch that
\* adds it has nothing to report.
FinalizerFirst ==
    /\ hcp # None /\ hcp.specs = "UpToDate" /\ ~hcp.deleting => hcp.finalizer
    /\ pc # "idle" /\ before.specs = "UpToDate" /\ ~before.deleting => before.finalizer
    /\ pc # "idle" /\ obj.specs = "UpToDate" /\ ~obj.deleting => hcp = None \/ hcp.finalizer
    /\ pc # "idle" /\ before.finalizer /\ ~obj.finalizer => obj.deleting
    /\ Ensuring => ~before.finalizer /\ ~obj.deleting
    /\ pc \in Patching /\ call = "removeFinalizer" => obj.deleting

StatusInOrder == GenerationsInOrder /\ ConditionInOrder /\ FinalizerFirst

\* What is outdated the worker, on its way through reconcileNormal, is yet to come to.
OnTheWay == pc \in Normal \union {"listReleases"} \/ Ensuring

YetToCome(p) ==
    \/ \E label \in Label : <<proxies[p].cluster, label>> \in todo
    \/ pc \in {"reinstall", "createOrUpdate"} /\ existing.proxy = p
    \/ pc = "listReleases" /\ proxies[p].cluster \notin obj.matching
    \/ (pc = "deleteOrphans" \/ Ensuring) /\ p \in doomed

WorkLeft ==
    /\ OnTheWay => \A p \in Proxy : Outdated(p, obj.spec) => YetToCome(p)
    /\ pc = "createOrUpdate" /\ existing.proxy # None /\ InUse(existing.proxy) =>
          proxies[existing.proxy].content = existing.copy.content
    /\ pc = "aggregate" => todo = {}

\* Nothing is outdated when the last patch reports so, or when that is stored.
ReportTrue ==
    /\ Deferred /\ obj.specs = "UpToDate" /\ ~obj.deleting =>
          \A p \in Proxy : ~Outdated(p, obj.spec)
    /\ hcp # None /\ UpToDate(hcp) => \A p \in Proxy : ~Outdated(p, hcp.spec)

WorkInv == WorkLeft /\ ReportTrue

\* No request fails.
NoFailure == budget["api"] = 0

\* With no failures left no request fails.
LEMMA NoRequestFails == NoFailure => ~Use("api")
  BY DEF NoFailure, Use

\* Failures are used up, never added.
LEMMA NoFailureStep ==
    ASSUME TypeInv, NoFailure, [Next]_vars
    PROVE  NoFailure'
  <1>1. budget \in [Event -> Nat]
    BY DEF TypeInv, WorldOK
  <1>2. \A kind \in Event : Use(kind) => NoFailure'
    BY <1>1 DEF NoFailure, Use, Event
  <1>3. UNCHANGED budget \/ \E kind \in Event : Use(kind)
    <2>1. CASE WorkerStep
      <3>1. CASE ListClusters \/ ListReleases \/ (\E p \in Proxy : DeleteOrphan(p))
        BY <3>1 DEF ListClusters, ListReleases, DeleteOrphan, Event
      <3>2. CASE \E c \in Cluster, label \in Label : ForCluster(c, label)
        BY <3>2 DEF ForCluster, Event
      <3>3. CASE Reinstall \/ CreateOrUpdate \/ AggregateReady
        BY <3>3 DEF Reinstall, CreateOrUpdate, AggregateReady, Event
      <3>4. CASE (\E p \in Proxy : DeleteRelease(p)) \/ ValidateDeletion \/ ReleasesDeleted
        BY <3>4 DEF DeleteRelease, ValidateDeletion, ReleasesDeleted, Event
      <3>5. CASE PatchConditions \/ PatchObject \/ PatchStatus
        BY <3>5 DEF PatchConditions, PatchObject, PatchStatus, Request, Event
      <3>6. CASE Reconcile \/ OrphansDeleted \/ ClustersReconciled \/ PatchReturns
        BY <3>6 DEF Reconcile, OrphansDeleted, ClustersReconciled, PatchReturns
      <3> QED
        BY <2>1, <3>1, <3>2, <3>3, <3>4, <3>5, <3>6 DEF WorkerStep
    <2>2. CASE ~WorkerStep
      BY <2>2 DEF Next, User, CacheSync, ProxyReports, ProxyRemoved, GarbageCollect,
         ClusterChanges, CreateHCP, UpdateHCP, DeleteHCP, Crash, vars, Event
    <2> QED
      BY <2>1, <2>2
  <1> QED
    BY <1>2, <1>3 DEF NoFailure

\* What a step may write to the HelmChartProxy, field by field.
SameButSpecs(o, q) ==
    /\ q.spec = o.spec /\ q.generation = o.generation /\ q.observed = o.observed
    /\ q.finalizer = o.finalizer /\ q.deleting = o.deleting

IsNew ==
    /\ pc = "idle" /\ hcp = None /\ UNCHANGED <<proxies, clusters, locals>>
    /\ hcp' \in HCP /\ hcp'.observed = 0 /\ hcp'.generation = 1 /\ hcp'.specs = None

UserWrites ==
    /\ UNCHANGED <<proxies, clusters, locals>>
    /\ hcp \in HCP /\ hcp' \in HCP
    /\ hcp'.generation = hcp.generation + 1 /\ hcp'.observed = hcp.observed
    /\ hcp'.specs = hcp.specs /\ hcp'.finalizer = hcp.finalizer
    /\ hcp'.deleting = hcp.deleting \/ hcp'.deleting

ConditionsSent ==
    /\ pc = "patchConditions" /\ pc' = "patchObject" /\ UNCHANGED <<proxies, clusters>>
    /\ hcp \in HCP /\ hcp' \in HCP /\ SameButSpecs(hcp, hcp')
    /\ hcp'.specs = Merge(hcp.specs, before.specs, obj.specs)

FinalizerSent ==
    /\ pc = "patchObject" /\ pc' = "patchStatus" /\ UNCHANGED <<proxies, clusters>>
    /\ obj.finalizer # before.finalizer
    /\ hcp \in HCP /\ hcp' \in HCP
    /\ hcp'.spec = hcp.spec /\ hcp'.generation = hcp.generation
    /\ hcp'.observed = hcp.observed /\ hcp'.specs = hcp.specs
    /\ hcp'.deleting = hcp.deleting /\ hcp'.finalizer = obj.finalizer

StatusSent ==
    /\ pc = "patchStatus" /\ pc' = "patched" /\ UNCHANGED <<proxies, clusters>>
    /\ hcp \in HCP /\ hcp' \in HCP
    /\ hcp'.spec = hcp.spec /\ hcp'.generation = hcp.generation /\ hcp'.specs = hcp.specs
    /\ hcp'.finalizer = hcp.finalizer /\ hcp'.deleting = hcp.deleting
    /\ hcp'.observed \in {hcp.observed, obj.generation}

\* The fields after each of the requests.
LEMMA ConditionsFields ==
    ASSUME NEW a \in HCP, NEW b \in HCP, NEW o \in HCP
    PROVE  /\ SameButSpecs(a, PatchedConditions(a, b, o))
           /\ PatchedConditions(a, b, o).specs = Merge(a.specs, b.specs, o.specs)
  BY DEF HCP, PatchedConditions, SameButSpecs

\* The request for metadata and spec changes the finalizer only.
LEMMA ObjectFields ==
    ASSUME NEW a \in HCP, NEW f \in BOOLEAN
    PROVE  LET q == [a EXCEPT !.finalizer = f] IN
           /\ q \in HCP
           /\ q.spec = a.spec /\ q.generation = a.generation /\ q.observed = a.observed
           /\ q.specs = a.specs /\ q.deleting = a.deleting /\ q.finalizer = f
  BY DEF HCP

\* The request for the status changes neither spec, condition nor finalizer.
LEMMA StatusFields ==
    ASSUME NEW a \in HCP, NEW b \in HCP, NEW o \in HCP
    PROVE  LET q == PatchedStatus(a, b, o) IN
           /\ q.spec = a.spec /\ q.generation = a.generation /\ q.specs = a.specs
           /\ q.finalizer = a.finalizer /\ q.deleting = a.deleting
           /\ q.observed \in {a.observed, o.generation}
  BY DEF HCP, PatchedStatus, Merge

\* The fields after a user's request.
LEMMA UserFields ==
    /\ \A spec : NewHCP(spec).observed = 0 /\ NewHCP(spec).generation = 1
                 /\ NewHCP(spec).specs = None
    /\ \A a \in HCP : \A spec :
          LET q == [a EXCEPT !.spec = spec, !.generation = @ + 1] IN
          /\ q.generation = a.generation + 1 /\ q.observed = a.observed
          /\ q.specs = a.specs /\ q.finalizer = a.finalizer /\ q.deleting = a.deleting
    /\ \A a \in HCP :
          LET q == Deleted(a) IN
          /\ q.generation = (IF a.deleting THEN a.generation ELSE a.generation + 1)
          /\ q.observed = a.observed
          /\ q.specs = a.specs /\ q.finalizer = a.finalizer /\ q.deleting
  <1>1. \A spec : NewHCP(spec).observed = 0 /\ NewHCP(spec).generation = 1
                  /\ NewHCP(spec).specs = None
    BY DEF NewHCP
  <1>2. \A a \in HCP : \A spec :
          LET q == [a EXCEPT !.spec = spec, !.generation = @ + 1] IN
          /\ q.generation = a.generation + 1 /\ q.observed = a.observed
          /\ q.specs = a.specs /\ q.finalizer = a.finalizer /\ q.deleting = a.deleting
    BY DEF HCP
  <1>3. \A a \in HCP :
          LET q == Deleted(a) IN
          /\ q.generation = (IF a.deleting THEN a.generation ELSE a.generation + 1)
          /\ q.observed = a.observed
          /\ q.specs = a.specs /\ q.finalizer = a.finalizer /\ q.deleting
    BY DEF HCP, Deleted
  <1> QED
    BY <1>1, <1>2, <1>3

\* Every step leaves the HelmChartProxy alone, removes it, or is one of these.
LEMMA StatusEffect ==
    ASSUME TypeInv, [Next]_vars
    PROVE  \/ UNCHANGED hcp
           \/ hcp' = None
           \/ IsNew \/ UserWrites \/ ConditionsSent \/ FinalizerSent \/ StatusSent
  <1>0. /\ hcp # None => hcp \in HCP
        /\ pc # "idle" => obj \in HCP /\ before \in HCP
        /\ TypeInv'
    BY NextType DEF TypeInv, WorldOK, LocalsOK
  <1>1. hcp' # None => hcp' \in HCP
    BY <1>0 DEF TypeInv, WorldOK
  <1>2. CASE PatchConditions
    <2>1. UNCHANGED hcp \/ (hcp # None /\ hcp' = PatchedConditions(hcp, before, obj))
      BY <1>2, RequestOutcome DEF PatchConditions
    <2>2. /\ obj \in HCP /\ before \in HCP /\ pc = "patchConditions" /\ pc' = "patchObject"
          /\ UNCHANGED <<proxies, clusters>>
      BY <1>0, <1>2 DEF PatchConditions
    <2>3. hcp # None => /\ SameButSpecs(hcp, PatchedConditions(hcp, before, obj))
                        /\ PatchedConditions(hcp, before, obj).specs
                             = Merge(hcp.specs, before.specs, obj.specs)
      BY <1>0, <2>2, ConditionsFields
    <2>4. ASSUME hcp # None, hcp' # None, hcp' = PatchedConditions(hcp, before, obj)
          PROVE  ConditionsSent
      <3>1. hcp \in HCP /\ hcp' \in HCP
        BY <1>0, <1>1, <2>4
      <3>2. SameButSpecs(hcp, hcp') /\ hcp'.specs = Merge(hcp.specs, before.specs, obj.specs)
        BY <2>3, <2>4
      <3> QED
        BY <2>2, <3>1, <3>2 DEF ConditionsSent
    <2> QED
      BY <2>1, <2>4
  <1>3. CASE PatchObject
    <2>1. UNCHANGED hcp \/
          (/\ obj.finalizer # before.finalizer /\ hcp # None
           /\ hcp' = Stored([hcp EXCEPT !.finalizer = obj.finalizer]))
      BY <1>3, RequestOutcome DEF PatchObject
    <2>2. /\ obj \in HCP /\ before \in HCP /\ pc = "patchObject" /\ pc' = "patchStatus"
          /\ UNCHANGED <<proxies, clusters>>
      BY <1>0, <1>3 DEF PatchObject
    <2>3. hcp # None => LET q == [hcp EXCEPT !.finalizer = obj.finalizer] IN
                        /\ q.spec = hcp.spec /\ q.generation = hcp.generation
                        /\ q.observed = hcp.observed /\ q.specs = hcp.specs
                        /\ q.deleting = hcp.deleting /\ q.finalizer = obj.finalizer
      BY <1>0, <2>2, ObjectFields DEF HCP
    <2> QED
      BY <1>0, <1>1, <2>1, <2>2, <2>3 DEF FinalizerSent, Stored
  <1>4. CASE PatchStatus
    <2>1. UNCHANGED hcp \/ (hcp # None /\ hcp' = PatchedStatus(hcp, before, obj))
      BY <1>4, RequestOutcome DEF PatchStatus
    <2>2. /\ obj \in HCP /\ before \in HCP /\ pc = "patchStatus" /\ pc' = "patched"
          /\ UNCHANGED <<proxies, clusters>>
      BY <1>0, <1>4 DEF PatchStatus
    <2>3. hcp # None => LET q == PatchedStatus(hcp, before, obj) IN
                        /\ q.spec = hcp.spec /\ q.generation = hcp.generation
                        /\ q.specs = hcp.specs /\ q.finalizer = hcp.finalizer
                        /\ q.deleting = hcp.deleting
                        /\ q.observed \in {hcp.observed, obj.generation}
      BY <1>0, <2>2, StatusFields
    <2>4. ASSUME hcp # None, hcp' # None, hcp' = PatchedStatus(hcp, before, obj)
          PROVE  StatusSent
      <3>1. hcp \in HCP /\ hcp' \in HCP
        BY <1>0, <1>1, <2>4
      <3>2. /\ hcp'.spec = hcp.spec /\ hcp'.generation = hcp.generation
            /\ hcp'.specs = hcp.specs /\ hcp'.finalizer = hcp.finalizer
            /\ hcp'.deleting = hcp.deleting
            /\ hcp'.observed \in {hcp.observed, obj.generation}
        BY <2>3, <2>4
      <3> QED
        BY <2>2, <3>1, <3>2 DEF StatusSent
    <2> QED
      BY <2>1, <2>4
  <1>5. ASSUME NEW spec \in ChartSpec, CreateHCP(spec)
        PROVE  hcp' = None \/ IsNew
    BY <1>1, <1>5, UserFields DEF CreateHCP, IsNew, locals
  <1>6. ASSUME NEW spec \in ChartSpec, UpdateHCP(spec)
        PROVE  hcp' = None \/ UserWrites
    BY <1>0, <1>1, <1>6, UserFields DEF UpdateHCP, UserWrites, locals
  <1>7. ASSUME DeleteHCP
        PROVE  hcp' = None \/ UserWrites
    BY <1>0, <1>1, <1>7, UserFields DEF DeleteHCP, UserWrites, locals, Stored
  <1>8. CASE User
    BY <1>5, <1>6, <1>7, <1>8 DEF User
  <1>9. CASE WorkerStep
    <2>1. \/ PatchConditions \/ PatchObject \/ PatchStatus \/ UNCHANGED hcp
      BY <1>9 DEF WorkerStep, Reconcile, ListClusters, ListReleases, DeleteOrphan, OrphansDeleted,
         ForCluster, Reinstall, CreateOrUpdate, ClustersReconciled, AggregateReady, DeleteRelease,
         ValidateDeletion, ReleasesDeleted, PatchReturns
    <2> QED
      BY <1>2, <1>3, <1>4, <2>1
  <1>10. CASE ~User /\ ~WorkerStep
    BY <1>10 DEF Next, CacheSync, ProxyReports, ProxyRemoved, GarbageCollect, ClusterChanges,
       Crash, vars
  <1> QED
    BY <1>8, <1>9, <1>10

\* What a step may do to the worker's locals: it starts, ...
Starts ==
    /\ pc = "idle" /\ pc' = "listClusters" /\ hcp # None
    /\ obj' = hcp /\ before' = hcp /\ UNCHANGED hcp

\* ... sends a request of a patch, ...
Sends ==
    /\ pc \in Patching \ {"patched"} /\ pc' \in Patching \ {"patchConditions"}
    /\ UNCHANGED <<call, before, obj, todo, doomed, existing>>

\* ... does something between patches, ...
SameTask(o, q) == q.spec = o.spec /\ q.generation = o.generation /\ q.deleting = o.deleting

Works ==
    /\ pc \notin Patching \union {"idle"} /\ pc' # "idle"
    /\ UNCHANGED <<hcp, before>>
    /\ SameTask(obj, obj')
    /\ pc' \in Patching => pc' = "patchConditions"
    /\ Untouched' => Untouched /\ obj'.specs = obj.specs
    /\ obj'.specs = "UpToDate" => obj.specs = "UpToDate" \/ pc \in Normal
    /\ Ensuring' => pc = "listReleases" /\ ~obj.finalizer /\ ~obj.deleting
    /\ pc' \in Patching /\ call' = "removeFinalizer" => pc = "deleteRelease"
    /\ obj'.finalizer = obj.finalizer \/ obj'.finalizer = TRUE \/ pc = "deleteRelease"

\* ... or has patched the finalizer.
Resumes ==
    /\ pc = "patched" /\ call # "deferred" /\ UNCHANGED <<hcp, before, obj>>
    /\ \/ pc' = "deleteOrphans" /\ call = "ensureFinalizer" /\ UNCHANGED <<todo, doomed>>
       \/ pc' = "patchConditions" /\ call' = "deferred"

\* The fields of the object in memory after an assignment to one.
LEMMA AssignedFields ==
    ASSUME NEW o \in HCP
    PROVE  /\ \A r : LET q == [o EXCEPT !.specs = r] IN
                 SameTask(o, q) /\ q.specs = r /\ q.finalizer = o.finalizer
           /\ \A r : LET q == [o EXCEPT !.releases = r] IN
                 SameTask(o, q) /\ q.specs = o.specs /\ q.finalizer = o.finalizer
           /\ \A r : LET q == [o EXCEPT !.matching = r] IN
                 SameTask(o, q) /\ q.specs = o.specs /\ q.finalizer = o.finalizer
           /\ \A r : LET q == [o EXCEPT !.finalizer = r] IN
                 SameTask(o, q) /\ q.specs = o.specs /\ q.finalizer = r
  BY DEF HCP, SameTask

\* A worker that leaves the stored object alone and goes on, or turns to its last patch.
LEMMA WorksFrom ==
    ASSUME pc \notin Patching \union {"idle"}, UNCHANGED <<hcp, before>>, SameTask(obj, obj'),
           \/ pc' = "patchConditions" /\ call' = "deferred"
           \/ pc' \in Normal \ {"deleteOrphans"}
           \/ Untouched /\ obj'.specs = obj.specs /\ pc' \notin Patching \union {"idle"},
           obj'.finalizer = obj.finalizer,
           obj'.specs = obj.specs \/ obj'.specs # "UpToDate" \/ pc \in Normal
    PROVE  Works
  BY DEF Works, Ensuring, Untouched, Normal, Patching

\* Returning with no condition that claims success is such a step.
LEMMA WorksByReturning ==
    ASSUME obj \in HCP, pc \notin Patching \union {"idle"}, UNCHANGED <<hcp, before>>
    PROVE  /\ Return(obj) => Works
           /\ \A r : Return([obj EXCEPT !.releases = r]) => Works
           /\ \A r : Return([obj EXCEPT !.specs = r]) /\ r # "UpToDate" => Works
  <1>1. \A o : Return(o) => pc' = "patchConditions" /\ call' = "deferred" /\ obj' = o
    BY DEF Return, Patch
  <1>2. ASSUME Return(obj)
        PROVE  Works
    BY <1>1, <1>2, WorksFrom DEF SameTask
  <1>3. ASSUME NEW r, Return([obj EXCEPT !.releases = r])
        PROVE  Works
    <2>1. pc' = "patchConditions" /\ call' = "deferred" /\ obj' = [obj EXCEPT !.releases = r]
      BY <1>3 DEF Return, Patch
    <2>2. SameTask(obj, obj') /\ obj'.specs = obj.specs /\ obj'.finalizer = obj.finalizer
      BY <2>1, AssignedFields
    <2> QED
      BY <1>3, <2>1, <2>2, WorksFrom
  <1>4. ASSUME NEW r, Return([obj EXCEPT !.specs = r]), r # "UpToDate"
        PROVE  Works
    <2>1. pc' = "patchConditions" /\ call' = "deferred" /\ obj' = [obj EXCEPT !.specs = r]
      BY <1>4 DEF Return, Patch
    <2>2. SameTask(obj, obj') /\ obj'.specs = r /\ obj'.finalizer = obj.finalizer
      BY <2>1, AssignedFields
    <2> QED
      BY <1>4, <2>1, <2>2, WorksFrom
  <1> QED
    BY <1>2, <1>3, <1>4

\* Every step is one of these, or leaves the worker alone, or ends its reconcile.
LEMMA WorkerEffect ==
    ASSUME TypeInv, [Next]_vars, pc' # "idle"
    PROVE  UNCHANGED locals \/ Starts \/ Sends \/ Works \/ Resumes
  <1>0. pc # "idle" => obj \in HCP
    BY DEF TypeInv, LocalsOK
  <1>1. CASE Reconcile
    BY <1>1 DEF Reconcile, Starts
  <1>2. CASE PatchConditions \/ PatchObject \/ PatchStatus
    BY <1>2 DEF PatchConditions, PatchObject, PatchStatus, Sends, Patching
  <1>3. CASE PatchReturns
    BY <1>3 DEF PatchReturns, Resumes, Return, Patch
  <1>4. CASE ListClusters
    <2>1. /\ pc = "listClusters" /\ pc \notin Patching \union {"idle"} /\ Untouched
          /\ UNCHANGED <<hcp, before>>
      BY <1>4 DEF ListClusters, Patching, Untouched
    <2>2. ASSUME obj' = [obj EXCEPT !.matching = Selected(obj)], pc' = "listReleases"
          PROVE  Works
      <3>1. SameTask(obj, obj') /\ obj'.specs = obj.specs /\ obj'.finalizer = obj.finalizer
        BY <1>0, <2>1, <2>2, AssignedFields
      <3> QED
        BY <2>1, <2>2, <3>1, WorksFrom DEF Patching
    <2>3. Return([obj EXCEPT !.specs = "ClusterSelectionFailed"]) => Works
      BY <1>0, <2>1, WorksByReturning
    <2> QED
      BY <1>4, <2>2, <2>3 DEF ListClusters
  <1>5. CASE ListReleases
    <2>1. /\ pc = "listReleases" /\ pc \notin Patching \union {"idle"} /\ Untouched
          /\ UNCHANGED <<hcp, before>>
      BY <1>5 DEF ListReleases, Patching, Untouched
    <2>2. Return(obj) => Works
      BY <1>0, <2>1, WorksByReturning
    <2>3. ASSUME obj' = obj, pc' \in {"deleteOrphans", "deleteRelease"}
          PROVE  Works
      BY <2>1, <2>3, WorksFrom DEF Patching, SameTask
    <2>4. ASSUME ~obj.finalizer, ~obj.deleting,
                 Patch([obj EXCEPT !.finalizer = TRUE], "ensureFinalizer")
          PROVE  Works
      <3>1. SameTask(obj, obj') /\ obj'.specs = obj.specs /\ obj'.finalizer = TRUE
        BY <1>0, <2>1, <2>4, AssignedFields DEF Patch
      <3> QED
        BY <2>1, <2>4, <3>1 DEF Works, Patch, Patching
    <2> QED
      BY <1>5, <2>2, <2>3, <2>4 DEF ListReleases
  <1>6. CASE OrphansDeleted \/ \E p \in Proxy : DeleteOrphan(p)
    <2>1. /\ pc = "deleteOrphans" /\ pc \notin Patching \union {"idle"} /\ Untouched
          /\ UNCHANGED <<hcp, before>>
      BY <1>6 DEF OrphansDeleted, DeleteOrphan, Patching, Untouched
    <2>2. ASSUME obj' = obj, pc' \in {"deleteOrphans", "forCluster"}
          PROVE  Works
      BY <2>1, <2>2, WorksFrom DEF Patching, SameTask
    <2>3. Return([obj EXCEPT !.specs = "HelmReleaseProxyDeletionFailed"]) => Works
      BY <1>0, <2>1, WorksByReturning
    <2> QED
      BY <1>6, <2>1, <2>2, <2>3 DEF OrphansDeleted, DeleteOrphan
  <1>7. ASSUME NEW c \in Cluster, NEW label \in Label, ForCluster(c, label)
        PROVE  Works
    <2>1. pc = "forCluster" /\ pc \notin Patching \union {"idle"} /\ UNCHANGED <<hcp, before>>
      BY <1>7 DEF ForCluster, Patching
    <2>2. Return(obj) => Works
      BY <1>0, <2>1, WorksByReturning
    <2>3. ASSUME obj' = obj, pc' \in {"forCluster", "reinstall", "createOrUpdate"}
          PROVE  Works
      BY <2>1, <2>3, WorksFrom DEF Normal, SameTask
    <2> QED
      BY <1>7, <2>1, <2>2, <2>3 DEF ForCluster
  <1>8. CASE Reinstall \/ CreateOrUpdate
    <2>1. /\ pc \in {"reinstall", "createOrUpdate"} /\ pc \notin Patching \union {"idle"}
          /\ UNCHANGED <<hcp, before>>
      BY <1>8 DEF Reinstall, CreateOrUpdate, Patching
    <2>2. \A r : Return([obj EXCEPT !.specs = r]) /\ r # "UpToDate" => Works
      BY <1>0, <2>1, WorksByReturning
    <2>3. ASSUME pc' = "forCluster",
                 obj' = obj \/ obj' = [obj EXCEPT !.specs = "HelmReleaseProxyReinstalling"]
          PROVE  Works
      <3>1. SameTask(obj, obj') /\ obj'.finalizer = obj.finalizer
        <4>1. CASE obj' = obj
          BY <4>1 DEF SameTask
        <4>2. CASE obj' = [obj EXCEPT !.specs = "HelmReleaseProxyReinstalling"]
          BY <1>0, <2>1, <4>2, AssignedFields
        <4> QED
          BY <2>3, <4>1, <4>2
      <3> QED
        BY <2>1, <2>3, <3>1, WorksFrom DEF Normal
    <2> QED
      BY <1>8, <2>2, <2>3 DEF Reinstall, CreateOrUpdate
  <1>9. CASE ClustersReconciled
    <2>1. /\ pc = "forCluster" /\ pc \notin Patching \union {"idle"} /\ pc' = "aggregate"
          /\ UNCHANGED <<hcp, before>> /\ obj' = [obj EXCEPT !.specs = "UpToDate"]
      BY <1>9 DEF ClustersReconciled, Patching
    <2>2. SameTask(obj, obj') /\ obj'.finalizer = obj.finalizer
      BY <1>0, <2>1, AssignedFields
    <2> QED
      BY <2>1, <2>2, WorksFrom DEF Normal
  <1>10. CASE AggregateReady \/ ValidateDeletion \/ \E p \in Proxy : DeleteRelease(p)
    <2>1. /\ pc \in {"aggregate", "validateDeletion", "deleteRelease"}
          /\ pc \notin Patching \union {"idle"} /\ UNCHANGED <<hcp, before>>
      BY <1>10 DEF AggregateReady, ValidateDeletion, DeleteRelease, Patching
    <2>2. /\ Return(obj) => Works
          /\ \A r : Return([obj EXCEPT !.releases = r]) => Works
          /\ Return([obj EXCEPT !.specs = "HelmReleaseProxySpecsUpdating"]) => Works
      BY <1>0, <2>1, WorksByReturning
    <2>3. ASSUME obj' = obj, pc' \in {"validateDeletion", "deleteRelease"}, pc # "aggregate"
          PROVE  Works
      BY <2>1, <2>3, WorksFrom DEF Untouched, Patching, SameTask
    <2> QED
      BY <1>10, <2>2, <2>3 DEF AggregateReady, ValidateDeletion, DeleteRelease
  <1>11. CASE ReleasesDeleted
    <2>1. /\ pc = "deleteRelease" /\ pc \notin Patching \union {"idle"} /\ Untouched
          /\ UNCHANGED <<hcp, before>>
      BY <1>11 DEF ReleasesDeleted, Patching, Untouched
    <2>2. \A r : Return([obj EXCEPT !.releases = r]) => Works
      BY <1>0, <2>1, WorksByReturning
    <2>3. ASSUME Patch([obj EXCEPT !.finalizer = FALSE], "removeFinalizer")
          PROVE  Works
      <3>1. SameTask(obj, obj') /\ obj'.specs = obj.specs
        BY <1>0, <2>1, <2>3, AssignedFields DEF Patch
      <3> QED
        BY <2>1, <2>3, <3>1 DEF Works, Patch, Patching, Ensuring
    <2> QED
      BY <1>11, <2>2, <2>3 DEF ReleasesDeleted
  <1>12. CASE WorkerStep
    BY <1>1, <1>2, <1>3, <1>4, <1>5, <1>6, <1>7, <1>8, <1>9, <1>10, <1>11, <1>12 DEF WorkerStep
  <1>13. CASE ~WorkerStep
    BY <1>13 DEF Next, User, CacheSync, ProxyReports, ProxyRemoved, GarbageCollect,
       ClusterChanges, CreateHCP, UpdateHCP, DeleteHCP, Crash, vars
  <1> QED
    BY <1>12, <1>13

\* A generation that is reported has been read.
LEMMA GenerationsStep ==
    ASSUME TypeInv, GenerationsInOrder, [Next]_vars
    PROVE  GenerationsInOrder'
  <1>0. /\ hcp # None => hcp \in HCP /\ hcp.generation \in Nat /\ hcp.observed \in Nat
        /\ pc # "idle" => /\ before.generation \in Nat /\ before.observed \in Nat
                          /\ obj.generation = before.generation
    BY DEF TypeInv, WorldOK, LocalsOK, HCP, GenerationsInOrder
  <1>1. /\ hcp' # None => hcp'.observed <= hcp'.generation
        /\ pc # "idle" /\ hcp # None /\ hcp' # None =>
              /\ hcp'.observed \in {before.observed, before.generation}
              /\ before.generation <= hcp'.generation
              /\ before.generation = hcp'.generation => hcp'.spec = before.spec
        /\ pc # "idle" /\ hcp' # None => hcp # None
    <2>1. CASE UNCHANGED hcp \/ hcp' = None
      BY <2>1 DEF GenerationsInOrder
    <2>2. CASE IsNew
      BY <2>2 DEF IsNew
    <2>3. CASE UserWrites
      BY <1>0, <2>3, NoneIsNoObject DEF UserWrites, GenerationsInOrder
    <2>4. CASE ConditionsSent \/ FinalizerSent
      BY <1>0, <2>4, NoneIsNoObject DEF ConditionsSent, FinalizerSent, SameButSpecs,
         GenerationsInOrder
    <2>5. CASE StatusSent
      BY <1>0, <2>5, NoneIsNoObject DEF StatusSent, GenerationsInOrder
    <2> QED
      BY <2>1, <2>2, <2>3, <2>4, <2>5, StatusEffect
  <1>2. ASSUME pc' # "idle"
        PROVE  /\ obj'.spec = before'.spec
               /\ obj'.generation = before'.generation
               /\ obj'.deleting = before'.deleting
               /\ before'.observed <= before'.generation
               /\ hcp' # None =>
                     /\ hcp'.observed \in {before'.observed, before'.generation}
                     /\ before'.generation <= hcp'.generation
                     /\ before'.generation = hcp'.generation => hcp'.spec = before'.spec
    <2>1. CASE Starts
      BY <1>0, <2>1 DEF Starts, GenerationsInOrder
    <2>2. CASE UNCHANGED locals \/ Sends \/ Works \/ Resumes
      <3>1. pc # "idle" /\ before' = before /\ SameTask(obj, obj')
        BY <1>2, <2>2 DEF locals, Sends, Works, Resumes, SameTask, Patching
      <3> QED
        BY <1>1, <3>1 DEF SameTask, GenerationsInOrder
    <2> QED
      BY <1>2, <2>1, <2>2, WorkerEffect
  <1> QED
    BY <1>1, <1>2 DEF GenerationsInOrder

\* A conditions request that is not lost leaves the condition as it is in memory.
LEMMA ConditionsWritten ==
    ASSUME TypeInv, NoFailure, PatchConditions, hcp' # None,
           hcp # None => hcp.specs = before.specs
    PROVE  hcp'.specs = obj.specs
  <1>0. obj \in HCP /\ before \in HCP /\ (hcp # None => hcp \in HCP)
    BY DEF TypeInv, WorldOK, LocalsOK, PatchConditions
  <1>1. CASE obj.specs = before.specs /\ obj.releases = before.releases
    BY <1>1 DEF PatchConditions, Request
  <1>2. CASE ~(obj.specs = before.specs /\ obj.releases = before.releases)
    <2>1. hcp # None /\ hcp' = PatchedConditions(hcp, before, obj)
      BY <1>2, NoRequestFails DEF PatchConditions, Request
    <2>2. hcp'.specs = Merge(hcp.specs, before.specs, obj.specs)
      BY <1>0, <2>1, ConditionsFields
    <2> QED
      BY <2>1, <2>2 DEF Merge
  <1> QED
    BY <1>1, <1>2

\* The condition that is stored is the one the worker has read, or has sent.
LEMMA ConditionStep ==
    ASSUME TypeInv, NoFailure, ConditionInOrder, [Next]_vars
    PROVE  ConditionInOrder'
  <1>1. Untouched' => obj'.specs = before'.specs
    <2> SUFFICES ASSUME Untouched'
                 PROVE  obj'.specs = before'.specs
      OBVIOUS
    <2>1. pc' # "idle"
      BY DEF Untouched, Patching
    <2>2. CASE Starts
      BY <2>2 DEF Starts
    <2>3. CASE UNCHANGED locals \/ Sends \/ Resumes
      BY <2>3 DEF locals, Sends, Resumes, Untouched, Patching, ConditionInOrder
    <2>4. CASE Works
      BY <2>4 DEF Works, ConditionInOrder
    <2> QED
      BY <2>1, <2>2, <2>3, <2>4, WorkerEffect
  <1>2. ASSUME pc' # "idle", hcp' # None
        PROVE  hcp'.specs = IF Deferred' /\ pc' # "patchConditions"
                              THEN obj'.specs ELSE before'.specs
    <2>0. pc # "idle" => hcp # None
      BY <1>2, StatusEffect, NoneIsNoObject
         DEF IsNew, UserWrites, ConditionsSent, FinalizerSent, StatusSent
    <2>1. CASE Starts
      BY <2>1 DEF Starts, Deferred, Patching
    <2>2. CASE Works \/ Resumes
      BY <1>2, <2>0, <2>2 DEF Works, Resumes, Deferred, Patching, ConditionInOrder
    <2>3. ASSUME pc # "patchConditions"
          PROVE  pc # "idle" => hcp'.specs = hcp.specs
      BY <1>2, <2>0, <2>3, StatusEffect
         DEF IsNew, UserWrites, ConditionsSent, FinalizerSent, StatusSent
    <2>4. CASE Sends
      <3>1. CASE pc # "patchConditions"
        BY <2>0, <2>3, <2>4, <3>1 DEF Sends, Deferred, Patching, ConditionInOrder
      <3>2. CASE pc = "patchConditions"
        <4>1. PatchConditions
          BY <2>4, <3>2 DEF Sends, Next, WorkerStep, User, Reconcile, ListClusters,
             ListReleases, DeleteOrphan, OrphansDeleted, ForCluster, Reinstall,
             CreateOrUpdate, ClustersReconciled, AggregateReady, DeleteRelease,
             ValidateDeletion, ReleasesDeleted, PatchObject, PatchStatus, PatchReturns,
             CacheSync, ProxyReports, ProxyRemoved, GarbageCollect, ClusterChanges,
             CreateHCP, UpdateHCP, DeleteHCP, Crash, vars, locals, Patching
        <4>2. hcp # None => hcp.specs = before.specs
          BY <3>2 DEF ConditionInOrder
        <4>3. hcp'.specs = obj.specs
          BY <1>2, <4>1, <4>2, ConditionsWritten
        <4>4. call # "deferred" => obj.specs = before.specs
          BY <3>2 DEF ConditionInOrder, Untouched, Patching
        <4> QED
          BY <2>4, <4>3, <4>4 DEF Sends, Deferred
      <3> QED
        BY <3>1, <3>2
    <2>5. CASE UNCHANGED locals
      <3>1. hcp'.specs = hcp.specs
        BY <1>2, <2>0, <2>5, StatusEffect
           DEF IsNew, UserWrites, ConditionsSent, FinalizerSent, StatusSent, locals
      <3> QED
        BY <1>2, <2>0, <2>5, <3>1 DEF locals, Deferred, ConditionInOrder
    <2> QED
      BY <1>2, <2>1, <2>2, <2>4, <2>5, WorkerEffect
  <1> QED
    BY <1>1, <1>2 DEF ConditionInOrder

\* Only a worker that knows of the deletion takes the finalizer away.
LEMMA FinalizerFirstStep ==
    ASSUME TypeInv, WorkerInv, FinalizerFirst, [Next]_vars
    PROVE  FinalizerFirst'
  <1>0. /\ pc # "idle" => /\ obj \in HCP /\ obj.finalizer \in BOOLEAN /\ obj.deleting \in BOOLEAN
                          /\ before \in HCP /\ before.finalizer \in BOOLEAN
        /\ pc # "idle" /\ obj.deleting => hcp = None \/ hcp.deleting
        /\ pc \in Normal => hcp # None /\ hcp.finalizer
    BY DEF TypeInv, LocalsOK, HCP, WorkerInv, WorkerGuards, WorkerDeletes, Guarded
  <1>1. hcp' # None /\ hcp'.specs = "UpToDate" /\ ~hcp'.deleting => hcp'.finalizer
    <2>1. CASE UNCHANGED hcp \/ hcp' = None
      BY <2>1 DEF FinalizerFirst
    <2>2. CASE IsNew
      BY <2>2, NoneIsNoReason DEF IsNew, SpecsUpToDateReason
    <2>3. CASE UserWrites
      BY <2>3, NoneIsNoObject DEF UserWrites, FinalizerFirst
    <2>4. CASE ConditionsSent
      <3>1. hcp # None /\ pc # "idle" /\ (hcp'.specs = hcp.specs \/ hcp'.specs = obj.specs)
        BY <2>4, NoneIsNoObject DEF ConditionsSent, Merge
      <3>2. hcp'.finalizer = hcp.finalizer /\ hcp'.deleting = hcp.deleting
        BY <2>4 DEF ConditionsSent, SameButSpecs
      <3> QED
        BY <1>0, <3>1, <3>2 DEF FinalizerFirst
    <2>5. CASE FinalizerSent
      BY <1>0, <2>5, NoneIsNoObject DEF FinalizerSent, FinalizerFirst
    <2>6. CASE StatusSent
      BY <2>6, NoneIsNoObject DEF StatusSent, FinalizerFirst
    <2> QED
      BY <2>1, <2>2, <2>3, <2>4, <2>5, <2>6, StatusEffect
  <1>2. ASSUME pc # "idle", hcp = None \/ hcp.finalizer,
               ~(pc = "patchObject" /\ before.finalizer /\ ~obj.finalizer)
        PROVE  hcp' = None \/ hcp'.finalizer
    BY <1>0, <1>2, StatusEffect, NoneIsNoObject
       DEF IsNew, UserWrites, ConditionsSent, SameButSpecs, FinalizerSent, StatusSent
  <1>3. ASSUME pc' # "idle", Starts
        PROVE  FinalizerFirst'
    BY <1>1, <1>3 DEF Starts, Ensuring, Patching, FinalizerFirst
  <1>4. ASSUME pc' # "idle", pc # "idle", before' = before, SameTask(obj, obj'),
               obj'.specs = "UpToDate" => obj.specs = "UpToDate" \/ pc \in Normal,
               \/ obj'.finalizer = obj.finalizer \/ obj'.finalizer = TRUE
               \/ pc = "deleteRelease",
               Ensuring' => Ensuring \/ (pc = "listReleases" /\ ~obj.finalizer /\ ~obj.deleting),
               pc' \in Patching /\ call' = "removeFinalizer" =>
                  (pc \in Patching /\ call = "removeFinalizer") \/ pc = "deleteRelease"
        PROVE  FinalizerFirst'
    <2>1. before'.specs = "UpToDate" /\ ~before'.deleting => before'.finalizer
      BY <1>4 DEF FinalizerFirst
    <2>2. before'.finalizer /\ ~obj'.finalizer => obj'.deleting
      BY <1>4 DEF FinalizerFirst, WorkerInv, WorkerDeletes, SameTask
    <2>3. Ensuring' => ~before'.finalizer /\ ~obj'.deleting
      BY <1>4 DEF FinalizerFirst, WorkerInv, WorkerGuards, SameTask
    <2>4. pc' \in Patching /\ call' = "removeFinalizer" => obj'.deleting
      BY <1>4 DEF FinalizerFirst, WorkerInv, WorkerDeletes, SameTask
    <2>5. obj'.specs = "UpToDate" /\ ~obj'.deleting => hcp' = None \/ hcp'.finalizer
      <3> SUFFICES ASSUME obj'.specs = "UpToDate", ~obj'.deleting
                   PROVE  hcp' = None \/ hcp'.finalizer
        OBVIOUS
      <3>1. ~obj.deleting
        BY <1>4 DEF SameTask
      <3>2. hcp = None \/ hcp.finalizer
        BY <1>0, <1>4, <3>1 DEF FinalizerFirst
      <3>3. ~(before.finalizer /\ ~obj.finalizer)
        BY <1>4, <3>1 DEF FinalizerFirst
      <3> QED
        BY <1>2, <1>4, <3>2, <3>3
    <2> QED
      BY <1>1, <2>1, <2>2, <2>3, <2>4, <2>5 DEF FinalizerFirst
  <1>5. ASSUME pc' # "idle", UNCHANGED locals \/ Sends \/ Resumes
        PROVE  FinalizerFirst'
    BY <1>4, <1>5 DEF locals, Sends, Resumes, SameTask, Ensuring, Patching
  <1>6. ASSUME pc' # "idle", Works
        PROVE  FinalizerFirst'
    BY <1>4, <1>6 DEF Works
  <1>7. CASE pc' = "idle"
    BY <1>1, <1>7 DEF FinalizerFirst, Ensuring, Patching
  <1> QED
    BY <1>3, <1>5, <1>6, <1>7, WorkerEffect

\* The invariants about the status hold to begin with.
LEMMA StatusInOrderInit == Init => StatusInOrder
  <1> SUFFICES ASSUME Init
               PROVE  StatusInOrder
    OBVIOUS
  <1>1. hcp # None => hcp.observed = 0 /\ hcp.generation = 1 /\ hcp.specs = None
    <2>1. ASSUME NEW spec \in LegacySpec, NEW p \in Proxy, NEW c \in Cluster, Upgraded(spec, p, c)
          PROVE  hcp.observed = 0 /\ hcp.generation = 1 /\ hcp.specs = None
      <3>1. NewHCP(spec) \in HCP
        BY ConstantsAssumption, NewHCPType
      <3> QED
        BY <2>1, <3>1, ObjectFields, UserFields DEF Upgraded
    <2> QED
      BY <2>1, UserFields DEF Init
  <1>2. pc = "idle"
    BY DEF Init
  <1>3. GenerationsInOrder
    BY <1>1, <1>2 DEF GenerationsInOrder
  <1>4. ConditionInOrder
    BY <1>2 DEF ConditionInOrder, Untouched, Patching
  <1>5. FinalizerFirst
    BY <1>1, <1>2, NoneIsNoReason DEF FinalizerFirst, Ensuring, Patching, SpecsUpToDateReason
  <1> QED
    BY <1>3, <1>4, <1>5 DEF StatusInOrder

\* Who writes the version and the values of a HelmReleaseProxy.
LEMMA ContentFields ==
    ASSUME NEW h \in HRP
    PROVE  /\ Deleted(h).content = h.content
           /\ Served(h).content = h.content
           /\ \A install : NotServed(h, install).content = h.content
           /\ \A label, spec :
                 Default(UpdatedHelmReleaseProxy(h, label, spec)).content = spec.content
           /\ \A c, label, spec :
                 Default(NewHelmReleaseProxy(c, label, spec)).content = spec.content
  BY DEF Deleted, Served, NotServed, Default, UpdatedHelmReleaseProxy, NewHelmReleaseProxy, HRP

\* A Cluster is not resumed and does not come back.
LEMMA ClustersOnlyGo ==
    ASSUME TypeInv, "pause" \notin ClusterChange, [Next]_vars, NEW c \in Cluster,
           clusters'[c].phase = "live", ~clusters'[c].paused
    PROVE  clusters[c].phase = "live" /\ ~clusters[c].paused
  <1>1. clusters \in [Cluster -> ClusterState]
    BY DEF TypeInv, WorldOK
  <1>2. ASSUME NEW d \in Cluster, ClusterChanges(d)
        PROVE  clusters[c].phase = "live" /\ ~clusters[c].paused
    <2>1. ASSUME NEW label, clusters' = [clusters EXCEPT ![d].label = label]
          PROVE  clusters[c].phase = "live" /\ ~clusters[c].paused
      BY <1>1, <2>1 DEF ClusterState
    <2>2. ASSUME NEW phase \in {"deleting", "gone"}, clusters' = [clusters EXCEPT ![d].phase = phase]
          PROVE  clusters[c].phase = "live" /\ ~clusters[c].paused
      BY <1>1, <2>2 DEF ClusterState
    <2> QED
      BY <1>2, <2>1, <2>2 DEF ClusterChanges
  <1>3. CASE ~(\E d \in Cluster : ClusterChanges(d))
    <2>1. UNCHANGED clusters
      <3>1. CASE WorkerStep
        BY <3>1 DEF WorkerStep, Reconcile, ListClusters, ListReleases, DeleteOrphan,
           OrphansDeleted, ForCluster, Reinstall, CreateOrUpdate, ClustersReconciled,
           AggregateReady, DeleteRelease, ValidateDeletion, ReleasesDeleted, PatchConditions,
           PatchObject, PatchStatus, PatchReturns
      <3>2. CASE ~WorkerStep
        BY <1>3, <3>2 DEF Next, User, CacheSync, ProxyReports, ProxyRemoved, GarbageCollect,
           CreateHCP, UpdateHCP, DeleteHCP, Crash, vars
      <3> QED
        BY <3>1, <3>2
    <2> QED
      BY <2>1
  <1> QED
    BY <1>2, <1>3

\* An object keeps its version and values, unless the worker has just written those
\* of the specification it knows.
LEMMA StillInUse ==
    ASSUME TypeInv, "pause" \notin ClusterChange, [Next]_vars, NEW q \in Proxy, InUse(q)'
    PROVE  \/ /\ InUse(q)
              /\ proxies'[q].cluster = proxies[q].cluster
              /\ proxies'[q].content = proxies[q].content
           \/ /\ pc = "createOrUpdate" /\ pc' # "createOrUpdate"
              /\ proxies'[q].content = obj.spec.content
  <1>1. proxies \in [Proxy -> HRP \union {None}]
    BY DEF TypeInv, WorldOK
  <1>2. Exists(q)' /\ ~proxies'[q].deleting
    BY DEF InUse
  <1>3. ASSUME Exists(q), ~proxies[q].deleting, proxies'[q].cluster = proxies[q].cluster
        PROVE  InUse(q)
    <2>1. proxies[q].cluster \in Cluster
      BY <1>1, <1>3 DEF Exists, HRP
    <2> QED
      BY <1>3, <2>1, ClustersOnlyGo DEF InUse
  <1>4. CASE UNCHANGED proxies
    BY <1>2, <1>3, <1>4 DEF Exists
  <1>5. ASSUME NEW p \in Proxy, NEW new, proxies' = [proxies EXCEPT ![p] = new]
        PROVE  (p = q => proxies'[q] = new) /\ (p # q => proxies'[q] = proxies[q])
    BY <1>1, <1>5
  <1>6. ASSUME NEW p \in Proxy, IsDeleted(p)
        PROVE  proxies'[q] = proxies[q]
    <2>1. CASE p = q
      <3>1. Exists(q) /\ proxies'[q] = Deleted(proxies[q])
        BY <1>2, <1>5, <1>6, <2>1 DEF IsDeleted, DeleteHelmReleaseProxy, Stored, Exists
      <3>2. proxies[q] \in HRP
        BY <1>1, <3>1 DEF Exists
      <3> QED
        BY <1>2, <3>1, <3>2, KeptFields
    <2>2. CASE p # q
      BY <1>5, <1>6, <2>2 DEF IsDeleted, DeleteHelmReleaseProxy
    <2> QED
      BY <2>1, <2>2
  <1>7. ASSUME NEW p \in Proxy, IsCreated(p)
        PROVE  \/ proxies'[q] = proxies[q]
               \/ /\ pc = "createOrUpdate" /\ pc' # "createOrUpdate"
                  /\ proxies'[q].content = obj.spec.content
    <2> DEFINE new == Default(NewHelmReleaseProxy(existing.cluster, existing.label, obj.spec))
    <2>1. new.content = obj.spec.content
      BY DEF Default, NewHelmReleaseProxy
    <2>2. proxies' = [proxies EXCEPT ![p] = new] /\ pc = "createOrUpdate" /\ pc' # "createOrUpdate"
      BY <1>7 DEF IsCreated
    <2> HIDE DEF new
    <2> QED
      BY <1>5, <2>1, <2>2
  <1>8. ASSUME NEW p \in Proxy, IsUpdated(p)
        PROVE  \/ proxies'[q] = proxies[q]
               \/ /\ pc = "createOrUpdate" /\ pc' # "createOrUpdate"
                  /\ proxies'[q].content = obj.spec.content
    <2> DEFINE new == Default(UpdatedHelmReleaseProxy(proxies[p], existing.label, obj.spec))
    <2>1. proxies[p] \in HRP
      BY <1>1, <1>8 DEF IsUpdated, Exists
    <2>2. new.content = obj.spec.content
      BY <2>1, ContentFields
    <2>3. proxies' = [proxies EXCEPT ![p] = new] /\ pc = "createOrUpdate" /\ pc' # "createOrUpdate"
      BY <1>8 DEF IsUpdated
    <2> HIDE DEF new
    <2> QED
      BY <1>5, <2>2, <2>3
  <1>9. ASSUME NEW p \in Proxy, IsReported(p)
        PROVE  /\ Exists(q) /\ ~proxies[q].deleting
               /\ proxies'[q].cluster = proxies[q].cluster
               /\ proxies'[q].content = proxies[q].content
    <2>1. CASE p = q
      <3>1. Exists(q) /\ proxies[q] \in HRP
        BY <1>1, <1>9, <2>1 DEF IsReported, Exists
      <3>2. \/ proxies'[q] = Served(proxies[q])
            \/ \E install \in BOOLEAN : proxies'[q] = NotServed(proxies[q], install)
        BY <1>5, <1>9, <2>1 DEF IsReported
      <3> QED
        BY <1>2, <3>1, <3>2, KeptFields, ContentFields
    <2>2. CASE p # q
      <3>1. proxies'[q] = proxies[q]
        BY <1>5, <1>9, <2>2 DEF IsReported
      <3> QED
        BY <1>2, <3>1 DEF Exists
    <2> QED
      BY <2>1, <2>2
  <1>10. ASSUME NEW p \in Proxy, IsRemoved(p)
         PROVE  proxies'[q] = proxies[q]
    BY <1>2, <1>5, <1>10 DEF IsRemoved, Exists
  <1>11. ASSUME proxies'[q] = proxies[q]
         PROVE  InUse(q)
    BY <1>2, <1>3, <1>11 DEF Exists
  <1>12. CASE UNCHANGED proxies \/ \E p \in Proxy : IsDeleted(p) \/ IsRemoved(p)
    <2>1. proxies'[q] = proxies[q]
      BY <1>6, <1>10, <1>12
    <2> QED
      BY <1>11, <2>1
  <1>13. CASE \E p \in Proxy : IsCreated(p) \/ IsUpdated(p)
    BY <1>7, <1>8, <1>11, <1>13
  <1>14. CASE \E p \in Proxy : IsReported(p)
    BY <1>3, <1>9, <1>14
  <1> QED
    BY <1>12, <1>13, <1>14, ProxiesEffect

\* How the worker gets where it is on its way.
LEMMA BeforeOnTheWay ==
    ASSUME [Next]_vars, OnTheWay'
    PROVE  \/ UNCHANGED locals \/ Sends \/ Resumes
           \/ ListClusters \/ ListReleases
           \/ OrphansDeleted \/ \E p \in Proxy : DeleteOrphan(p)
           \/ \E c \in Cluster, label \in Label : ForCluster(c, label)
           \/ Reinstall \/ CreateOrUpdate \/ ClustersReconciled
  <1>1. pc' # "idle"
    BY DEF OnTheWay, Ensuring, Normal, Patching
  <1>2. CASE ~WorkerStep
    BY <1>1, <1>2 DEF Next, User, CacheSync, ProxyReports, ProxyRemoved, GarbageCollect,
       ClusterChanges, CreateHCP, UpdateHCP, DeleteHCP, Crash, vars
  <1>3. CASE PatchConditions \/ PatchObject \/ PatchStatus
    BY <1>3 DEF PatchConditions, PatchObject, PatchStatus, Sends, Patching
  <1>4. CASE PatchReturns
    BY <1>1, <1>4 DEF PatchReturns, Resumes, Return, Patch
  <1>5. CASE Reconcile
    BY <1>5 DEF Reconcile, OnTheWay, Ensuring, Normal, Patching
  <1>6. ASSUME \/ AggregateReady \/ ValidateDeletion \/ ReleasesDeleted
               \/ \E p \in Proxy : DeleteRelease(p)
        PROVE  FALSE
    <2>1. \/ pc' = "patchConditions" /\ call' \in {"deferred", "removeFinalizer"}
          \/ pc' \in {"deleteRelease", "validateDeletion"}
      BY <1>6 DEF AggregateReady, ValidateDeletion, ReleasesDeleted, DeleteRelease, Return, Patch
    <2> QED
      BY <2>1 DEF OnTheWay, Ensuring, Normal, Patching
  <1> QED
    BY <1>2, <1>3, <1>4, <1>5, <1>6 DEF WorkerStep

\* An object that is deleted is not in use any more.
LEMMA DeletedNotInUse ==
    ASSUME TypeInv, NEW p \in Proxy, DeleteHelmReleaseProxy(p)
    PROVE  ~InUse(p)'
  <1>1. proxies \in [Proxy -> HRP \union {None}]
    BY DEF TypeInv, WorldOK
  <1>2. proxies'[p] = IF Exists(p) THEN Stored(Deleted(proxies[p])) ELSE None
    BY <1>1 DEF DeleteHelmReleaseProxy
  <1>3. Exists(p) => Deleted(proxies[p]).deleting
    BY <1>1, KeptFields DEF Exists
  <1> QED
    BY <1>2, <1>3 DEF InUse, Exists, Stored

\* A worker that sees every object finds at most one for a Cluster.
LEMMA FindsOne ==
    ASSUME ~CacheLag, OneProxyPerCluster, NEW c
    PROVE  Cardinality({p \in Releases : Listed[p].cluster = c}) \in {0, 1}
  <1> DEFINE found == {p \in Releases : Listed[p].cluster = c}
  <1>1. \A p, q \in found : p = q
    BY DEF Releases, Listed, OneProxyPerCluster, Exists
  <1>2. CASE found = {}
    BY <1>2, FS_EmptySet
  <1>3. CASE found # {}
    <2>1. PICK p \in found : TRUE
      BY <1>3
    <2>2. found = {p}
      BY <1>1, <2>1
    <2>3. Cardinality({p}) = 1
      BY FS_Singleton
    <2>4. Cardinality(found) = Cardinality({p})
      BY <2>2, Zenon
    <2> QED
      BY <2>3, <2>4
  <1> QED
    BY <1>2, <1>3

\* What the worker has chosen to do for a Cluster concerns its object.
LEMMA ForClusterTakes ==
    ASSUME ~CacheLag, ReconcileStrategy = "Continuous", OneProxyPerCluster, NoFailure,
           NEW c \in Cluster, NEW label \in Label, ForCluster(c, label), TypeInv
    PROVE  /\ pc' \in {"reinstall", "createOrUpdate"} /\ todo' = todo \ {<<c, label>>}
           /\ UNCHANGED <<obj, proxies>>
           /\ \A q \in Proxy : Exists(q) /\ proxies[q].cluster = c => existing'.proxy = q
           /\ pc' = "createOrUpdate" /\ existing'.proxy # None =>
                 existing'.copy = proxies[existing'.proxy]
  <1> DEFINE this == [NoExisting EXCEPT !.cluster = c, !.label = label]
             found == {p \in Releases : Listed[p].cluster = c}
  <1>1. Cardinality(found) <= 1 /\ ~(Cardinality(found) > 1)
    <2>1. Cardinality(found) \in {0, 1}
      BY FindsOne
    <2> HIDE DEF found
    <2> QED
      BY <2>1
  <1>2. \A q \in Proxy : Exists(q) /\ proxies[q].cluster = c <=> q \in found
    BY DEF Releases, Listed, Exists
  <1>3. /\ this.proxy = None
        /\ \A p, h : /\ [this EXCEPT !.proxy = p, !.copy = h].proxy = p
                     /\ [this EXCEPT !.proxy = p, !.copy = h].copy = h
    BY DEF NoExisting
  <1>4. /\ todo' = todo \ {<<c, label>>} /\ UNCHANGED <<obj, proxies>>
        /\ \/ /\ pc' \in {"reinstall", "createOrUpdate"}
              /\ \E p \in found : existing' = [this EXCEPT !.proxy = p, !.copy = Listed[p]]
           \/ pc' = "createOrUpdate" /\ found = {} /\ existing' = this
    <2>1. ~Use("api") /\ ReconcileStrategy # "InstallOnce"
      BY NoRequestFails
    <2> HIDE DEF found, this
    <2> QED
      BY <1>1, <2>1 DEF ForCluster, found, this
  <1>5. \A p, q \in found : p = q
    BY DEF Releases, Listed, OneProxyPerCluster, Exists
  <1>6. Listed = proxies
    BY DEF Listed
  <1> HIDE DEF found, this
  <1>7. CASE pc' = "createOrUpdate" /\ found = {} /\ existing' = this
    BY <1>2, <1>3, <1>4, <1>7
  <1>8. CASE /\ pc' \in {"reinstall", "createOrUpdate"}
             /\ \E p \in found : existing' = [this EXCEPT !.proxy = p, !.copy = Listed[p]]
    <2>1. PICK p \in found : existing' = [this EXCEPT !.proxy = p, !.copy = Listed[p]]
      BY <1>8
    <2>2. existing'.proxy = p /\ existing'.copy = proxies[p]
      BY <1>3, <1>6, <2>1
    <2> QED
      BY <1>2, <1>4, <1>5, <1>8, <2>2
  <1> QED
    BY <1>4, <1>7, <1>8

\* The worker comes to every object that is outdated.
LEMMA WorkLeftStep ==
    ASSUME ~CacheLag, ReconcileStrategy = "Continuous", "pause" \notin ClusterChange,
           TypeInv, OneProxyInv, NoFailure, WorkLeft, [Next]_vars
    PROVE  WorkLeft'
  <1>0. /\ proxies \in [Proxy -> HRP \union {None}]
        /\ pc # "idle" => obj \in HCP
        /\ OneProxyPerCluster
        /\ ~Use("api")
    BY NoRequestFails DEF TypeInv, WorldOK, LocalsOK, OneProxyInv
  <1>1. ASSUME pc # "idle", NEW q \in Proxy, obj'.spec = obj.spec, Outdated(q, obj.spec)'
        PROVE  /\ Outdated(q, obj.spec)
               /\ proxies'[q].cluster = proxies[q].cluster
               /\ proxies'[q].content # obj.spec.content
               /\ InUse(q)'
    BY <1>1, StillInUse DEF Outdated
  <1>2. ASSUME OnTheWay', NEW q \in Proxy, Outdated(q, obj.spec)'
        PROVE  YetToCome(q)'
    <2>1. CASE UNCHANGED locals
      <3>1. pc # "idle" /\ OnTheWay /\ obj' = obj
        BY <1>2, <2>1 DEF locals, OnTheWay, Ensuring, Normal, Patching
      <3>2. YetToCome(q) /\ proxies'[q].cluster = proxies[q].cluster
        BY <1>1, <1>2, <3>1 DEF WorkLeft
      <3> QED
        BY <2>1, <3>2 DEF locals, YetToCome, Ensuring
    <2>2. CASE Sends
      <3>1. /\ pc # "idle" /\ Ensuring /\ Ensuring' /\ OnTheWay /\ pc \notin Normal
            /\ UNCHANGED <<obj, todo, doomed>>
        BY <1>2, <2>2 DEF Sends, OnTheWay, Ensuring, Normal, Patching
      <3>2. YetToCome(q) /\ proxies'[q].cluster = proxies[q].cluster
        BY <1>1, <1>2, <3>1 DEF WorkLeft
      <3> QED
        BY <3>1, <3>2 DEF YetToCome, Normal, Ensuring, Patching
    <2>3. CASE Resumes
      <3>1. /\ pc = "patched" /\ Ensuring /\ OnTheWay /\ pc' = "deleteOrphans"
            /\ UNCHANGED <<obj, todo, doomed>>
        BY <1>2, <2>3 DEF Resumes, OnTheWay, Ensuring, Normal, Patching
      <3>2. YetToCome(q) /\ proxies'[q].cluster = proxies[q].cluster
        BY <1>1, <1>2, <3>1 DEF WorkLeft
      <3> QED
        BY <3>1, <3>2 DEF YetToCome
    <2>4. CASE ListClusters
      <3>1. /\ pc = "listClusters" /\ pc' = "listReleases" /\ UNCHANGED <<proxies, clusters>>
            /\ obj' = [obj EXCEPT !.matching = Selected(obj)]
            /\ todo' = {<<c, clusters[c].label>> :
                         c \in {d \in Selected(obj) : /\ clusters[d].phase # "deleting"
                                                      /\ ~clusters[d].paused
                                                      /\ ~obj.spec.paused}}
        BY <1>2, <2>4 DEF ListClusters, Return, Patch, OnTheWay, Ensuring, Normal, Patching
      <3>2. obj'.spec = obj.spec /\ obj'.matching = Selected(obj)
        BY <1>0, <3>1 DEF HCP
      <3>3. Outdated(q, obj.spec) /\ proxies[q] \in HRP
        BY <1>0, <1>1, <1>2, <3>1, <3>2 DEF Outdated, InUse, Exists
      <3>4. /\ clusters[proxies[q].cluster].phase = "live" /\ ~obj.spec.paused
            /\ ~clusters[proxies[q].cluster].paused
            /\ proxies[q].cluster \in Cluster
            /\ clusters[proxies[q].cluster].label \in Label
        BY <3>3 DEF Outdated, InUse, HRP, TypeInv, WorldOK, ClusterState
      <3>5. CASE proxies[q].cluster \in Selected(obj)
        <4>1. <<proxies[q].cluster, clusters[proxies[q].cluster].label>> \in todo'
          BY <3>1, <3>4, <3>5
        <4> QED
          BY <3>1, <3>4, <4>1 DEF YetToCome
      <3>6. CASE proxies[q].cluster \notin Selected(obj)
        BY <3>1, <3>2, <3>6 DEF YetToCome
      <3> QED
        BY <3>5, <3>6
    <2>5. CASE ListReleases
      <3>1. /\ pc = "listReleases" /\ OnTheWay /\ UNCHANGED <<proxies, todo>>
            /\ doomed' = Orphaned(obj)
            /\ pc' = "deleteOrphans" \/ Ensuring'
            /\ obj' = obj \/ obj' = [obj EXCEPT !.finalizer = TRUE]
        BY <1>0, <1>2, <2>5 DEF ListReleases, Patch, OnTheWay, Ensuring, Normal, Patching
      <3>2. obj'.spec = obj.spec
        BY <1>0, <3>1 DEF HCP
      <3>3. Outdated(q, obj.spec) /\ YetToCome(q)
        BY <1>1, <1>2, <3>1, <3>2 DEF WorkLeft
      <3>4. CASE \E label \in Label : <<proxies[q].cluster, label>> \in todo
        BY <3>1, <3>4 DEF YetToCome
      <3>5. CASE proxies[q].cluster \notin obj.matching
        <4>1. q \in Orphaned(obj)
          BY <3>3, <3>5 DEF Orphaned, Releases, Listed, Outdated, InUse, Exists
        <4> QED
          BY <3>1, <4>1 DEF YetToCome
      <3> QED
        BY <3>1, <3>3, <3>4, <3>5 DEF YetToCome, Ensuring, Patching
    <2>6. ASSUME NEW p \in Proxy, DeleteOrphan(p)
          PROVE  YetToCome(q)'
      <3>1. /\ pc = "deleteOrphans" /\ pc' = pc /\ OnTheWay /\ UNCHANGED <<obj, todo>>
            /\ doomed' = doomed \ {p} /\ DeleteHelmReleaseProxy(p)
        BY <1>0, <2>6 DEF DeleteOrphan, OnTheWay, Normal
      <3>2. p # q
        BY <1>1, <1>2, <3>1, DeletedNotInUse
      <3>3. YetToCome(q) /\ proxies'[q].cluster = proxies[q].cluster
        BY <1>1, <1>2, <3>1 DEF WorkLeft
      <3> QED
        BY <3>1, <3>2, <3>3 DEF YetToCome
    <2>7. CASE OrphansDeleted
      <3>1. /\ pc = "deleteOrphans" /\ OnTheWay /\ doomed = {} /\ UNCHANGED <<obj, todo, proxies>>
        BY <2>7 DEF OrphansDeleted, OnTheWay, Normal
      <3>2. YetToCome(q)
        BY <1>1, <1>2, <3>1 DEF WorkLeft
      <3> QED
        BY <3>1, <3>2 DEF YetToCome, Ensuring, Patching
    <2>8. ASSUME NEW c \in Cluster, NEW label \in Label, ForCluster(c, label)
          PROVE  YetToCome(q)'
      <3>1. pc = "forCluster" /\ OnTheWay
        BY <2>8 DEF ForCluster, OnTheWay, Normal
      <3>2. /\ pc' \in {"reinstall", "createOrUpdate"} /\ todo' = todo \ {<<c, label>>}
            /\ UNCHANGED <<obj, proxies>>
            /\ Exists(q) /\ proxies[q].cluster = c => existing'.proxy = q
        BY <1>0, <2>8, ForClusterTakes
      <3>3. YetToCome(q) /\ Exists(q)
        BY <1>1, <1>2, <3>1, <3>2 DEF WorkLeft, Outdated, InUse
      <3>4. CASE proxies[q].cluster = c
        BY <3>2, <3>3, <3>4 DEF YetToCome
      <3>5. CASE proxies[q].cluster # c
        <4>1. PICK l \in Label : <<proxies[q].cluster, l>> \in todo
          BY <3>1, <3>3 DEF YetToCome, Ensuring, Patching
        <4>2. <<proxies[q].cluster, l>> \in todo'
          BY <3>2, <3>5, <4>1
        <4> QED
          BY <3>2, <4>2 DEF YetToCome
      <3> QED
        BY <3>4, <3>5
    <2>9. CASE Reinstall
      <3>1. /\ pc = "reinstall" /\ OnTheWay /\ DeleteHelmReleaseProxy(existing.proxy)
            /\ existing.proxy \in Proxy /\ UNCHANGED todo
            /\ obj' = [obj EXCEPT !.specs = "HelmReleaseProxyReinstalling"]
        BY <1>0, <2>9 DEF Reinstall, OnTheWay, Normal, TypeInv, LocalsOK
      <3>2. obj'.spec = obj.spec
        BY <1>0, <3>1 DEF HCP
      <3>3. existing.proxy # q
        BY <1>1, <1>2, <3>1, <3>2, DeletedNotInUse
      <3>4. YetToCome(q) /\ proxies'[q].cluster = proxies[q].cluster
        BY <1>1, <1>2, <3>1, <3>2 DEF WorkLeft
      <3> QED
        BY <3>1, <3>3, <3>4 DEF YetToCome, Ensuring, Patching
    <2>10. CASE CreateOrUpdate
      <3>1. pc = "createOrUpdate" /\ OnTheWay
        BY <2>10 DEF CreateOrUpdate, OnTheWay, Normal
      <3>2. /\ UNCHANGED <<obj, todo>>
            /\ Write \/ (/\ existing.proxy # None
                         /\ ~NeedsUpdate(existing.copy, existing.label, obj.spec))
        BY <1>0, <1>2, <2>10 DEF CreateOrUpdate, Return, Patch, OnTheWay, Ensuring, Normal,
           Patching
      <3>3. /\ YetToCome(q) /\ InUse(q) /\ proxies[q].content # obj.spec.content
            /\ proxies'[q].cluster = proxies[q].cluster
            /\ proxies'[q].content # obj.spec.content
        BY <1>1, <1>2, <3>1, <3>2 DEF WorkLeft, Outdated
      <3>4. existing.proxy # q
        <4> SUFFICES ASSUME existing.proxy = q
                     PROVE  FALSE
          OBVIOUS
        <4>1. q # None
          BY ConstantsAssumption
        <4>2. CASE Write
          <5>1. proxies' = [proxies EXCEPT ![q] = Default(Constructed)]
            BY <4>1, <4>2 DEF Write
          <5>2. Default(Constructed).content = obj.spec.content
            BY <3>1, <4>1, ContentFields DEF Constructed, TypeInv, LocalsOK
          <5> QED
            BY <1>0, <3>3, <5>1, <5>2
        <4>3. CASE ~NeedsUpdate(existing.copy, existing.label, obj.spec)
          BY <3>1, <3>3, <4>1, <4>3 DEF WorkLeft, NeedsUpdate
        <4> QED
          BY <3>2, <4>2, <4>3
      <3> QED
        BY <3>1, <3>2, <3>3, <3>4 DEF YetToCome, Ensuring, Patching
    <2>11. CASE ClustersReconciled
      <3>1. /\ pc = "forCluster" /\ OnTheWay /\ UNCHANGED <<todo, proxies>>
            /\ obj' = [obj EXCEPT !.specs = "UpToDate"]
        BY <2>11 DEF ClustersReconciled, OnTheWay, Normal
      <3>2. obj'.spec = obj.spec
        BY <1>0, <3>1 DEF HCP
      <3>3. YetToCome(q)
        BY <1>1, <1>2, <3>1, <3>2 DEF WorkLeft
      <3> QED
        BY <3>1, <3>3 DEF YetToCome, Ensuring, Patching
    <2> QED
      BY <1>2, <2>1, <2>2, <2>3, <2>4, <2>5, <2>6, <2>7, <2>8, <2>9, <2>10, <2>11, BeforeOnTheWay
  <1>3. ASSUME pc' = "createOrUpdate", existing'.proxy # None, InUse(existing.proxy)'
        PROVE  proxies'[existing'.proxy].content = existing'.copy.content
    <2>0. existing'.proxy \in Proxy
      BY <1>3, NextType DEF TypeInv, LocalsOK, Existing
    <2>1. CASE UNCHANGED <<pc, existing>>
      BY <1>3, <2>0, <2>1, StillInUse DEF WorkLeft
    <2>2. ASSUME NEW c \in Cluster, NEW label \in Label, ForCluster(c, label)
          PROVE  proxies'[existing'.proxy].content = existing'.copy.content
      BY <1>0, <1>3, <2>2, ForClusterTakes
    <2> QED
      BY <1>3, <2>1, <2>2, BeforeCreateOrUpdate
  <1>4. ASSUME pc' = "aggregate"
        PROVE  todo' = {}
    <2>1. OnTheWay'
      BY <1>4 DEF OnTheWay, Normal
    <2>2. UNCHANGED locals \/ ClustersReconciled
      BY <1>4, <2>1, BeforeOnTheWay DEF Sends, Resumes, ListClusters, ListReleases,
         OrphansDeleted, DeleteOrphan, ForCluster, Reinstall, CreateOrUpdate, Return, Patch,
         Patching
    <2> QED
      BY <1>4, <2>2 DEF locals, ClustersReconciled, WorkLeft
  <1> QED
    BY <1>2, <1>3, <1>4 DEF WorkLeft

\* How the worker comes to report that everything is up to date.
LEMMA BeforeReport ==
    ASSUME ~CacheLag, OneProxyPerCluster, TypeInv, WorkerInv, StatusInOrder, NoFailure,
           [Next]_vars, Deferred', obj'.specs = "UpToDate", ~obj'.deleting
    PROVE  \/ Deferred /\ obj' = obj /\ obj.specs = "UpToDate" /\ ~obj.deleting
           \/ pc = "aggregate" /\ UNCHANGED <<proxies, clusters>> /\ obj'.spec = obj.spec
  <1>0. /\ pc # "idle" => obj \in HCP
        /\ ~Use("api")
        /\ pc' # "idle"
    BY NoRequestFails DEF TypeInv, LocalsOK, Deferred, Patching
  <1>1. CASE UNCHANGED locals \/ Sends
    BY <1>1 DEF locals, Sends, Deferred, Patching
  <1>2. CASE Starts
    BY <1>2 DEF Starts, Deferred, Patching
  <1>3. CASE Resumes
    <2>1. pc = "patched" /\ call # "deferred" /\ obj' = obj
      BY <1>3 DEF Resumes
    <2>2. Untouched /\ obj.specs = before.specs /\ ~before.deleting
      BY <1>0, <2>1 DEF Untouched, Patching, StatusInOrder, ConditionInOrder, GenerationsInOrder
    <2>3. call \in {"ensureFinalizer", "removeFinalizer"}
      BY <2>1 DEF TypeInv, LocalsOK, Call
    <2> QED
      BY <2>1, <2>2, <2>3 DEF StatusInOrder, FinalizerFirst, Ensuring, Patching
  <1>4. CASE Works
    <2>1. pc \notin Patching /\ pc # "idle" /\ SameTask(obj, obj') /\ pc' = "patchConditions"
      BY <1>4 DEF Works, Deferred
    <2>2. pc \notin {"deleteRelease", "validateDeletion"}
      BY <2>1 DEF WorkerInv, WorkerDeletes, SameTask
    <2>3. CASE pc = "aggregate"
      <3>1. AggregateReady
        BY <2>1, <2>3 DEF Next, WorkerStep, User, Reconcile, ListClusters,
           ListReleases, DeleteOrphan, OrphansDeleted, ForCluster, Reinstall,
           CreateOrUpdate, ClustersReconciled, DeleteRelease, ValidateDeletion, ReleasesDeleted,
           PatchConditions, PatchObject, PatchStatus, PatchReturns, CacheSync, ProxyReports,
           ProxyRemoved, GarbageCollect, ClusterChanges, CreateHCP, UpdateHCP, DeleteHCP, Crash,
           vars, locals, Patching
      <3> QED
        BY <2>1, <2>3, <3>1 DEF AggregateReady, SameTask
    <2>4. ASSUME pc # "aggregate"
          PROVE  FALSE
      <3>1. \/ ListClusters \/ ListReleases \/ (\E p \in Proxy : DeleteOrphan(p))
            \/ (\E c \in Cluster, label \in Label : ForCluster(c, label))
            \/ Reinstall \/ CreateOrUpdate
        BY <2>1, <2>2, <2>4 DEF Next, WorkerStep, User, Reconcile, OrphansDeleted,
           ClustersReconciled, AggregateReady, DeleteRelease, ValidateDeletion, ReleasesDeleted,
           PatchConditions, PatchObject, PatchStatus, PatchReturns, CacheSync, ProxyReports,
           ProxyRemoved, GarbageCollect, ClusterChanges, CreateHCP, UpdateHCP, DeleteHCP, Crash,
           vars, locals, Patching
      <3>2. ASSUME NEW r, obj' = [obj EXCEPT !.specs = r], r # "UpToDate"
            PROVE  FALSE
        BY <1>0, <2>1, <3>2 DEF HCP
      <3>3. CASE ListClusters
        <4>1. obj' = [obj EXCEPT !.specs = "ClusterSelectionFailed"]
          BY <2>1, <3>3 DEF ListClusters, Return, Patch
        <4> QED
          BY <3>2, <4>1
      <3>4. CASE ListReleases \/ (\E p \in Proxy : DeleteOrphan(p)) \/ Reinstall
        <4>1. Deferred' => call' = "deferred"
          BY DEF Deferred
        <4> QED
          BY <1>0, <2>1, <3>4, <4>1 DEF ListReleases, DeleteOrphan, Reinstall, Patch, Patching
      <3>5. ASSUME NEW c \in Cluster, NEW label \in Label, ForCluster(c, label)
            PROVE  FALSE
        <4> DEFINE found == {p \in Releases : Listed[p].cluster = c}
        <4>1. Cardinality(found) \in {0, 1}
          BY FindsOne
        <4>2. ~(Cardinality(found) > 1)
          <5> HIDE DEF found
          <5> QED
            BY <4>1
        <4> QED
          BY <1>0, <2>1, <3>5, <4>2 DEF ForCluster
      <3>6. CASE CreateOrUpdate
        <4>1. \E r \in {"ValueParsingFailed", "HelmReleaseProxyCreationFailed"} :
                  obj' = [obj EXCEPT !.specs = r]
          BY <2>1, <3>6 DEF CreateOrUpdate, Return, Patch
        <4> QED
          BY <3>2, <4>1
      <3> QED
        BY <3>1, <3>3, <3>4, <3>5, <3>6
    <2> QED
      BY <2>3, <2>4
  <1> QED
    BY <1>0, <1>1, <1>2, <1>3, <1>4, WorkerEffect

\* What is reported is so.
LEMMA ReportTrueStep ==
    ASSUME ~CacheLag, "pause" \notin ClusterChange, OneProxyPerCluster, TypeInv, WorkerInv,
           StatusInOrder, NoFailure, WorkLeft, ReportTrue, [Next]_vars
    PROVE  ReportTrue'
  <1>1. ASSUME Deferred', obj'.specs = "UpToDate", ~obj'.deleting,
               NEW q \in Proxy, Outdated(q, obj.spec)'
        PROVE  FALSE
    <2>1. CASE Deferred /\ obj' = obj /\ obj.specs = "UpToDate" /\ ~obj.deleting
      <3>1. ~Outdated(q, obj.spec) /\ pc # "createOrUpdate"
        BY <2>1 DEF ReportTrue, Deferred, Patching
      <3> QED
        BY <1>1, <2>1, <3>1, StillInUse DEF Outdated
    <2>2. CASE pc = "aggregate" /\ UNCHANGED <<proxies, clusters>> /\ obj'.spec = obj.spec
      <3>1. Outdated(q, obj.spec)
        BY <1>1, <2>2 DEF Outdated, InUse, Exists
      <3>2. YetToCome(q) /\ todo = {}
        BY <2>2, <3>1 DEF WorkLeft, OnTheWay, Normal
      <3> QED
        BY <2>2, <3>2 DEF YetToCome, Ensuring, Patching
    <2> QED
      BY <1>1, <2>1, <2>2, BeforeReport
  <1>2. ASSUME hcp' # None, UpToDate(hcp)', NEW q \in Proxy, Outdated(q, hcp.spec)'
        PROVE  FALSE
    <2>0. /\ hcp # None => /\ hcp.generation \in Nat /\ hcp.observed \in Nat
                           /\ hcp.observed <= hcp.generation
          /\ pc # "idle" => before.generation \in Nat /\ before.observed \in Nat
          /\ pc # "idle" => /\ obj.spec = before.spec /\ obj.generation = before.generation
                            /\ obj.deleting = before.deleting
                            /\ before.observed <= before.generation
          /\ pc # "idle" /\ hcp # None =>
                /\ hcp.observed \in {before.observed, before.generation}
                /\ before.generation <= hcp.generation
                /\ before.generation = hcp.generation => hcp.spec = before.spec
          /\ pc # "idle" /\ hcp # None /\ obj.deleting => hcp.deleting
      BY DEF TypeInv, WorldOK, LocalsOK, HCP, StatusInOrder, GenerationsInOrder, WorkerInv,
         WorkerDeletes
    <2>1. /\ hcp'.specs = "UpToDate" /\ hcp'.observed = hcp'.generation /\ ~hcp'.deleting
          /\ InUse(q)' /\ ~hcp'.spec.paused /\ proxies'[q].content # hcp'.spec.content
      BY <1>2 DEF UpToDate, Outdated
    <2>2. ASSUME hcp # None, hcp'.spec = hcp.spec, UpToDate(hcp)
          PROVE  FALSE
      <3>1. ~Outdated(q, hcp.spec)
        BY <2>2 DEF ReportTrue
      <3>2. pc = "createOrUpdate" => obj.spec = hcp.spec
        BY <2>0, <2>2 DEF UpToDate
      <3> QED
        BY <2>1, <2>2, <3>1, <3>2, StillInUse DEF Outdated
    <2>3. ASSUME hcp # None, pc # "idle", hcp'.spec = hcp.spec, hcp.generation = before.generation,
                 Deferred, obj.specs = "UpToDate", ~obj.deleting, UNCHANGED <<proxies, clusters>>
          PROVE  FALSE
      <3>1. ~Outdated(q, obj.spec) /\ obj.spec = hcp.spec
        BY <2>0, <2>3 DEF ReportTrue
      <3> QED
        BY <2>1, <2>3, <3>1 DEF Outdated, InUse, Exists
    <2>4. CASE UNCHANGED hcp
      BY <1>2, <2>1, <2>2, <2>4 DEF UpToDate
    <2>5. CASE IsNew
      <3>1. hcp'.observed = 0 /\ hcp'.generation = 1
        BY <2>5 DEF IsNew
      <3>2. hcp'.observed = hcp'.generation
        BY <2>1
      <3>3. 0 # 1
        OBVIOUS
      <3> QED
        BY <3>1, <3>2, <3>3, Zenon
    <2>6. CASE UserWrites
      BY <2>0, <2>1, <2>6, NoneIsNoObject DEF UserWrites
    <2>7. CASE ConditionsSent
      <3>1. /\ pc = "patchConditions" /\ pc # "idle" /\ hcp # None
            /\ UNCHANGED <<proxies, clusters>>
            /\ hcp'.spec = hcp.spec /\ hcp'.generation = hcp.generation
            /\ hcp'.observed = hcp.observed /\ hcp'.deleting = hcp.deleting
            /\ hcp'.specs = IF obj.specs = before.specs THEN hcp.specs ELSE obj.specs
        BY <2>7, NoneIsNoObject DEF ConditionsSent, SameButSpecs, Merge
      <3>2. CASE hcp.specs = "UpToDate"
        BY <2>1, <2>2, <3>1, <3>2 DEF UpToDate
      <3>3. CASE hcp.specs # "UpToDate"
        <4>1. obj.specs = "UpToDate" /\ obj.specs # before.specs /\ ~obj.deleting
          BY <2>0, <2>1, <3>1, <3>3
        <4>2. Deferred
          BY <3>1, <4>1 DEF Deferred, Patching, StatusInOrder, ConditionInOrder, Untouched
        <4>3. hcp.generation = before.generation
          BY <2>0, <2>1, <3>1
        <4> QED
          BY <2>3, <3>1, <4>1, <4>2, <4>3
      <3> QED
        BY <3>2, <3>3
    <2>8. CASE FinalizerSent
      BY <2>1, <2>2, <2>8, NoneIsNoObject DEF FinalizerSent, UpToDate
    <2>9. CASE StatusSent
      <3>1. /\ pc = "patchStatus" /\ pc # "idle" /\ hcp # None
            /\ UNCHANGED <<proxies, clusters>>
            /\ hcp'.spec = hcp.spec /\ hcp'.generation = hcp.generation
            /\ hcp'.specs = hcp.specs /\ hcp'.deleting = hcp.deleting
            /\ hcp'.observed \in {hcp.observed, obj.generation}
        BY <2>9, NoneIsNoObject DEF StatusSent
      <3>2. ~obj.deleting /\ hcp.generation = before.generation
        BY <2>0, <2>1, <3>1
      <3>3. CASE Deferred
        <4>1. obj.specs = "UpToDate"
          BY <2>1, <3>1, <3>3 DEF StatusInOrder, ConditionInOrder
        <4> QED
          BY <2>3, <3>1, <3>2, <3>3, <4>1
      <3>4. CASE ~Deferred
        <4>1. before.specs = "UpToDate" /\ ~before.deleting
          BY <2>0, <2>1, <3>1, <3>2, <3>4 DEF StatusInOrder, ConditionInOrder
        <4>2. call \in {"ensureFinalizer", "removeFinalizer"}
          BY <3>1, <3>4 DEF Deferred, Patching, TypeInv, LocalsOK, Call
        <4> QED
          BY <3>1, <3>2, <4>1, <4>2 DEF StatusInOrder, FinalizerFirst, Ensuring, Patching
      <3> QED
        BY <3>3, <3>4
    <2> QED
      BY <1>2, <2>4, <2>5, <2>6, <2>7, <2>8, <2>9, StatusEffect
  <1> QED
    BY <1>1, <1>2 DEF ReportTrue

\* Nothing is reported to begin with.
LEMMA WorkInit == Init => WorkInv
  <1> SUFFICES ASSUME Init
               PROVE  WorkInv
    OBVIOUS
  <1>1. pc = "idle" /\ (hcp # None => hcp.observed = 0 /\ hcp.generation = 1)
    <2>1. ASSUME NEW spec \in LegacySpec, NEW p \in Proxy, NEW c \in Cluster, Upgraded(spec, p, c)
          PROVE  hcp.observed = 0 /\ hcp.generation = 1
      <3>1. NewHCP(spec) \in HCP
        BY ConstantsAssumption, NewHCPType
      <3> QED
        BY <2>1, <3>1, ObjectFields, UserFields DEF Upgraded
    <2> QED
      BY <2>1, UserFields DEF Init
  <1> QED
    BY <1>1 DEF WorkInv, WorkLeft, ReportTrue, OnTheWay, Ensuring, Deferred, Normal, Patching,
       UpToDate

\* Where no Cluster is paused, no request fails and the cache does not lag, a
\* HelmChartProxy that reports its HelmReleaseProxies as up to date with its current
\* generation has brought its version and values to each of them: though the
\* condition, the finalizer and the generation are written in three requests, users
\* may change the specification between any two of them, Clusters come under other
\* selectors or go while they are worked on, updates are refused, values cannot be
\* parsed, and the process may be stopped at any point.
THEOREM UpToDateIsTrue ==
    ASSUME ~CacheLag, ReconcileStrategy = "Continuous", "pause" \notin ClusterChange,
           MaxEvent["api"] = 0
    PROVE  Spec => []UpToDateHonest
  <1>1. TypeInv /\ NoFailure /\ [Next]_vars => NoFailure'
    BY NoFailureStep
  <1>2. /\ TypeInv /\ WorkerInv /\ NoFailure /\ StatusInOrder /\ [Next]_vars => StatusInOrder'
    BY GenerationsStep, ConditionStep, FinalizerFirstStep DEF StatusInOrder
  <1>3. /\ TypeInv /\ OneProxyInv /\ WorkerInv /\ NoFailure /\ StatusInOrder /\ WorkInv
        /\ [Next]_vars
        => WorkInv'
    BY WorkLeftStep, ReportTrueStep DEF WorkInv, OneProxyInv
  <1>4. TypeInv /\ OneProxyInv /\ [Next]_vars => OneProxyInv'
    BY OneProxyStep
  <1>5. Init => NoFailure
    BY DEF Init, NoFailure
  <1>6. TypeInv /\ WorkInv => UpToDateHonest
    BY DEF WorkInv, ReportTrue, UpToDateHonest, Outdated, InUse, Reconciled
  <1> QED
    BY <1>1, <1>2, <1>3, <1>4, <1>5, <1>6, TypeInvariance, WorkerInvariance, OneProxyInit,
       StatusInOrderInit, WorkInit, PTL DEF Spec
=============================================================================
