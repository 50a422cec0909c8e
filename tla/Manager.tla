-------------------------------- MODULE Manager --------------------------------
(***************************************************************************)
(* How the manager process gets its two controllers to work: informers     *)
(* deliver changes of HelmChartProxies, HelmReleaseProxies and Clusters,   *)
(* event filters and mappers turn them into keys of objects to reconcile,  *)
(* and the controllers' workqueues hand the keys to workers.               *)
(*                                                                         *)
(* A reconcile is reduced to what it reads at its beginning and what it    *)
(* writes at its end; HelmChartProxy and HelmReleaseProxy have what lies   *)
(* between.  Here the question is whether it is called at all: an event    *)
(* may be filtered, mapped to nobody, or arrive while its object is being  *)
(* worked on, and several early returns count on an event to come.         *)
(***************************************************************************)
EXTENDS Integers

CONSTANTS
    Chart,       \* HelmChartProxies
    Cluster,     \* Clusters
    Label,       \* what selectors tell Clusters apart by
    Selector,    \* selectors users write: the labels they match, or None
    Start,       \* the selectors and Clusters the manager may find when it starts
    None,        \* "no value"; as a selector, one that cannot be parsed
    MaxEvent     \* bound on changes by users, errors and restarts

\* The HelmReleaseProxy of a HelmChartProxy for a Cluster.
Release == Chart \X Cluster
Key == Chart \union Release

ASSUME ConstantsAssumption ==
    /\ None \notin Chart \union Cluster \union Label
    /\ Selector \subseteq (SUBSET Label) \union {None}
    /\ \A s \in Start :
          /\ DOMAIN s.selectors \subseteq Chart
          /\ \A h \in DOMAIN s.selectors : s.selectors[h] \in (SUBSET Label) \union {None}
          /\ s.clusters \in [Cluster -> [label : Label, annotated : BOOLEAN,
                                         controlPlane : {"unset", "false", "true"}]]
    /\ MaxEvent \in Nat

HelmChartProxy == [selector : (SUBSET Label) \union {None}, deleting : BOOLEAN,
                   matching : SUBSET Cluster, ready : BOOLEAN]

\* A HelmReleaseProxy, as its conditions and deletion timestamp have it.
HelmReleaseProxy == {"new", "waiting", "ready", "deleting"}

\* annotated: carries the paused annotation.  controlPlane: what
\* Status.Initialization.ControlPlaneInitialized is.
ClusterObject == [label : Label, annotated : BOOLEAN,
                  controlPlane : {"unset", "false", "true"}]

ASSUME KeysAreTold == Chart \intersect Release = {}

ASSUME NoneIsNoObject ==
    None \notin HelmChartProxy \union HelmReleaseProxy \union ClusterObject

VARIABLES
    charts, releases, clusters,              \* objects in the API server
    seenCharts, seenReleases, seenClusters,  \* the informers' copies
    dirty,       \* keys to be reconciled
    processing,  \* keys being reconciled
    backoff,     \* keys to be added again after an error
    read,        \* what each running reconcile has read
    missed,      \* keys an event was about and did not reach (history)
    budget       \* events left

objects == <<charts, releases, clusters>>
informers == <<seenCharts, seenReleases, seenClusters>>
queue == <<dirty, processing, backoff, read, missed>>
vars == <<objects, informers, queue, budget>>

Nothing == [chart |-> None, release |-> None, matching |-> {}, cluster |-> None]

\* Every variable has its type; a key is read for exactly while it is processed.
TypeOK ==
    /\ charts \in [Chart -> HelmChartProxy \union {None}]
    /\ seenCharts \in [Chart -> HelmChartProxy \union {None}]
    /\ releases \in [Release -> HelmReleaseProxy \union {None}]
    /\ seenReleases \in [Release -> HelmReleaseProxy \union {None}]
    /\ clusters \in [Cluster -> ClusterObject \union {None}]
    /\ seenClusters \in [Cluster -> ClusterObject \union {None}]
    /\ dirty \subseteq Key
    /\ processing \subseteq Key
    /\ backoff \subseteq Key
    /\ missed \subseteq Key
    /\ read \in [Key -> [chart : HelmChartProxy \union {None},
                         release : HelmReleaseProxy \union {None},
                         matching : SUBSET Cluster,
                         cluster : ClusterObject \union {None}]]
    /\ \A k \in Key \ processing : read[k] = Nothing
    /\ budget \in Nat

NewChart(selector) ==
    [selector |-> selector, deleting |-> FALSE, matching |-> {}, ready |-> FALSE]

\* The manager starts: every object is listed, and queued.
Init ==
    /\ \E s \in Start :
          /\ charts = [h \in Chart |-> IF h \in DOMAIN s.selectors
                                        THEN NewChart(s.selectors[h]) ELSE None]
          /\ clusters = s.clusters
    /\ releases = [r \in Release |-> None]
    /\ seenCharts = charts
    /\ seenReleases = releases
    /\ seenClusters = clusters
    /\ dirty = {h \in Chart : charts[h] # None}
    /\ processing = {}
    /\ backoff = {}
    /\ read = [k \in Key |-> Nothing]
    /\ missed = {}
    /\ budget = MaxEvent

Use ==
    /\ budget > 0
    /\ budget' = budget - 1

-----------------------------------------------------------------------------
(* Filters and mappers.                                                    *)

\* Does the selector match?  Not if there is no Cluster.
Matches(selector, cluster) == cluster # None /\ cluster.label \in selector

\* The HelmChartProxies the mapper means to find ...
Selecting(cluster) ==
    {h \in Chart : /\ seenCharts[h] # None
                   /\ seenCharts[h].selector # None
                   /\ Matches(seenCharts[h].selector, cluster)}

Unparsable == \E h \in Chart : seenCharts[h] # None /\ seenCharts[h].selector = None

\* ... and those it finds: none as soon as one selector cannot be parsed.
ClusterToHelmChartProxiesMapper(cluster) ==
    IF Unparsable THEN {} ELSE Selecting(cluster)

\* Mutant: the reference to the Cluster is taken for the owner's.
HelmReleaseProxyToHelmChartProxyMapper_cluster(r) == {r[2]}

HelmReleaseProxyToHelmChartProxyMapper(r) == {r[1]}

ClusterToHelmReleaseProxies(c) == {r \in Release : r[2] = c /\ seenReleases[r] # None}

\* ResourceNotPaused is asked about the new object, or the deleted one.
NotPaused(old, new) == IF new = None THEN ~old.annotated ELSE ~new.annotated

\* ClusterUnpaused lets creations through, ClusterControlPlaneInitialized the
\* change to true.
CreatedOrInitialized(old, new) ==
    /\ new # None
    /\ old = None \/ (old.controlPlane # "true" /\ new.controlPlane = "true")

\* Mutant: an update is only mapped by what it leads to.
EnqueueCharts_newOnly(old, new) ==
    IF NotPaused(old, new) THEN ClusterToHelmChartProxiesMapper(new) ELSE {}

\* The HelmChartProxies to queue for a change of a Cluster: EnqueueRequestsFromMapFunc
\* maps the object before an update, and after it.
EnqueueCharts(old, new) ==
    IF NotPaused(old, new)
      THEN ClusterToHelmChartProxiesMapper(old) \union ClusterToHelmChartProxiesMapper(new)
      ELSE {}

\* The HelmReleaseProxies to queue for it.
EnqueueReleases(c, old, new) ==
    IF NotPaused(old, new) /\ CreatedOrInitialized(old, new)
      THEN ClusterToHelmReleaseProxies(c)
      ELSE {}

\* Whom the change concerns and who is known not to hear of it: nobody hears of a
\* paused Cluster, no HelmChartProxy does beside one with a selector like that.
Unheard(c, old, new) ==
    {h \in Selecting(old) \union Selecting(new) : ~NotPaused(old, new) \/ Unparsable} \union
    {r \in ClusterToHelmReleaseProxies(c) : ~NotPaused(old, new) /\ CreatedOrInitialized(old, new)}

-----------------------------------------------------------------------------
(* Informers.  A copy is brought up to date and its event handled.         *)

Add(keys) == dirty' = dirty \union keys

DeliverCluster(c) ==
    LET old == seenClusters[c]
        new == clusters[c]
    IN
    /\ old # new
    /\ seenClusters' = [seenClusters EXCEPT ![c] = new]
    /\ Add(EnqueueCharts(old, new) \union EnqueueReleases(c, old, new))
    /\ missed' = missed \union Unheard(c, old, new)
    /\ UNCHANGED <<objects, seenCharts, seenReleases, processing, backoff, read, budget>>

DeliverChart(h) ==
    /\ seenCharts[h] # charts[h]
    /\ seenCharts' = [seenCharts EXCEPT ![h] = charts[h]]
    /\ Add({h})
    /\ UNCHANGED <<objects, seenReleases, seenClusters, processing, backoff, read, missed, budget>>

DeliverRelease(r) ==
    /\ seenReleases[r] # releases[r]
    /\ seenReleases' = [seenReleases EXCEPT ![r] = releases[r]]
    /\ Add({r} \union HelmReleaseProxyToHelmChartProxyMapper(r))
    /\ UNCHANGED <<objects, seenCharts, seenClusters, processing, backoff, read, missed, budget>>

Idle(k) == k \notin dirty \union processing \union backoff

Seen(k) == IF k \in Chart THEN seenCharts[k] # None ELSE seenReleases[k] # None

\* Mutant: the cache is never synchronised again.
Resync_never(k) == FALSE /\ UNCHANGED vars

\* The cache's SyncPeriod: every object it holds is delivered again.
Resync(k) ==
    /\ Seen(k)
    /\ Idle(k)
    /\ Add({k})
    /\ UNCHANGED <<objects, informers, processing, backoff, read, missed, budget>>

-----------------------------------------------------------------------------
(* Workqueue and workers.                                                  *)

Aggregate(h, copies) == \A c \in Cluster : copies[<<h, c>>] \in {None, "ready"}

\* A worker takes a key and reads its objects from the cache.
Begin(k) ==
    /\ k \in dirty \ processing
    /\ dirty' = dirty \ {k}
    /\ processing' = processing \union {k}
    /\ missed' = missed \ {k}
    /\ read' = [read EXCEPT ![k] =
         IF k \in Chart
           THEN [Nothing EXCEPT
                   !.chart = seenCharts[k],
                   !.matching = {c \in Cluster :
                       /\ seenCharts[k] # None
                       /\ seenCharts[k].selector # None
                       /\ Matches(seenCharts[k].selector, seenClusters[c])}]
           ELSE [Nothing EXCEPT
                   !.release = seenReleases[k],
                   !.cluster = seenClusters[k[2]]]]
    /\ UNCHANGED <<objects, informers, backoff, budget>>

\* The reconcile ends; after an error its key is added again later.
End(k, failed) ==
    /\ processing' = processing \ {k}
    /\ backoff' = IF failed THEN backoff \union {k} ELSE backoff \ {k}
    /\ read' = [read EXCEPT ![k] = Nothing]
    /\ UNCHANGED <<informers, dirty, missed>>

Retry(k) ==
    /\ k \in backoff
    /\ backoff' = backoff \ {k}
    /\ Add({k})
    /\ UNCHANGED <<objects, informers, processing, read, missed, budget>>

\* Any reconcile may fail before it has written anything.
Fail(k) ==
    /\ k \in processing
    /\ Use
    /\ End(k, TRUE)
    /\ UNCHANGED objects

\* A HelmReleaseProxy without the finalizer is gone at once.
Deleted(release) == IF release \in {None, "new"} THEN None ELSE "deleting"

\* Reconcile of a HelmChartProxy.  The names of HelmReleaseProxies are generated: a
\* new one is not worked on by a worker that still holds the old one.
ReconcileChart(h) ==
    LET chart == read[h].chart
        matching == read[h].matching
        mine == {r \in Release : r[1] = h}
    IN
    /\ h \in processing
    /\ \/ /\ chart = None
          /\ End(h, FALSE)
          /\ UNCHANGED objects
       \/ /\ chart # None
          /\ chart.selector = None
          /\ End(h, TRUE)
          /\ UNCHANGED objects
       \/ /\ chart # None
          /\ chart.selector # None
          /\ chart.deleting
          /\ releases' = [r \in Release |-> IF r \in mine /\ seenReleases[r] # None
                                              THEN Deleted(releases[r]) ELSE releases[r]]
          /\ charts' = IF \A r \in mine : seenReleases[r] = None
                         THEN [charts EXCEPT ![h] = None] ELSE charts
          /\ End(h, FALSE)  \* without a request to be called again
          /\ UNCHANGED clusters
       \/ /\ chart # None
          /\ chart.selector # None
          /\ ~chart.deleting
          /\ \A r \in mine : r[2] \in matching /\ releases[r] = None => r \notin processing
          /\ releases' = [r \in Release |->
                CASE r \in mine /\ r[2] \notin matching /\ seenReleases[r] # None -> Deleted(releases[r])
                  [] r \in mine /\ r[2] \in matching /\ seenReleases[r] = None /\ releases[r] = None -> "new"
                  [] OTHER -> releases[r]]
          /\ charts' = IF charts[h] = None THEN charts
                       ELSE [charts EXCEPT ![h] = [@ EXCEPT !.matching = matching,
                                                            !.ready = Aggregate(h, seenReleases)]]
          /\ End(h, FALSE)
          /\ UNCHANGED clusters
    /\ UNCHANGED budget

Phase(cluster) == IF cluster = None THEN "gone" ELSE cluster.controlPlane

\* Reconcile of a HelmReleaseProxy.  While the control plane is not initialized it
\* returns without an error: the event of its initialization is to call it again.
ReconcileRelease(r) ==
    LET phase == Phase(read[r].cluster)
        Report(condition) ==
            releases' = [releases EXCEPT ![r] = IF @ \in {None, "deleting"} THEN @ ELSE condition]
    IN
    /\ r \in processing
    /\ \/ /\ read[r].release = None
          /\ End(r, FALSE)
          /\ UNCHANGED releases
       \/ /\ read[r].release = "deleting"
          /\ phase \in {"gone", "true"}
          /\ releases' = [releases EXCEPT ![r] = None]
          /\ End(r, FALSE)
       \/ /\ read[r].release = "deleting"
          /\ phase \in {"unset", "false"}
          /\ End(r, TRUE)
          /\ UNCHANGED releases
       \/ /\ read[r].release \notin {None, "deleting"}
          /\ phase \in {"gone", "unset"}
          /\ End(r, TRUE)
          /\ Report("waiting")
       \/ /\ read[r].release \notin {None, "deleting"}
          /\ phase = "false"
          /\ Report("waiting")
          /\ End(r, FALSE)
       \/ /\ read[r].release \notin {None, "deleting"}
          /\ phase = "true"
          /\ Report("ready")
          /\ End(r, FALSE)
    /\ UNCHANGED <<charts, clusters, budget>>

\* The process stops and starts again: it lists every object and queues it.
Restart ==
    /\ Use
    /\ seenCharts' = charts
    /\ seenReleases' = releases
    /\ seenClusters' = clusters
    /\ dirty' = {h \in Chart : charts[h] # None} \union {r \in Release : releases[r] # None}
    /\ processing' = {}
    /\ backoff' = {}
    /\ read' = [k \in Key |-> Nothing]
    /\ missed' = {}
    /\ UNCHANGED objects

-----------------------------------------------------------------------------
(* Users and Cluster API.                                                  *)

SelectorChanges(h, selector) ==
    /\ charts[h] # None
    /\ charts[h].selector # selector
    /\ Use
    /\ charts' = [charts EXCEPT ![h] = [@ EXCEPT !.selector = selector]]
    /\ UNCHANGED <<releases, clusters, informers, queue>>

ChartDeleted(h) ==
    /\ charts[h] # None
    /\ ~charts[h].deleting
    /\ Use
    /\ charts' = [charts EXCEPT ![h] = [@ EXCEPT !.deleting = TRUE]]
    /\ UNCHANGED <<releases, clusters, informers, queue>>

\* A Cluster is relabelled, annotated as paused or not any more, or deleted.
ClusterChanges(c) ==
    /\ clusters[c] # None
    /\ Use
    /\ \/ \E label \in Label \ {clusters[c].label} :
             clusters' = [clusters EXCEPT ![c] = [@ EXCEPT !.label = label]]
       \/ clusters' = [clusters EXCEPT ![c] = [clusters[c] EXCEPT !.annotated = ~@]]
       \/ clusters' = [clusters EXCEPT ![c] = None]
    /\ UNCHANGED <<charts, releases, informers, queue>>

ControlPlane(c) ==
    /\ clusters[c] # None
    /\ \E next \in {"false", "true"} \ {clusters[c].controlPlane} :
          /\ clusters[c].controlPlane # "true"
          /\ clusters' = [clusters EXCEPT ![c] = [@ EXCEPT !.controlPlane = next]]
    /\ UNCHANGED <<charts, releases, informers, queue, budget>>

-----------------------------------------------------------------------------
Reconcile(k) == IF k \in Chart THEN ReconcileChart(k) ELSE ReconcileRelease(k)

Next ==
    \/ \E c \in Cluster : DeliverCluster(c) \/ ClusterChanges(c) \/ ControlPlane(c)
    \/ \E h \in Chart : \/ DeliverChart(h) \/ ChartDeleted(h)
                        \/ \E s \in Selector : SelectorChanges(h, s)
    \/ \E r \in Release : DeliverRelease(r)
    \/ \E k \in Key : Begin(k) \/ Reconcile(k) \/ Fail(k) \/ Retry(k) \/ Resync(k)
    \/ Restart

\* Events are delivered, queued keys are worked on, errors are retried, and the
\* cache is synchronised again and again.
Fairness ==
    /\ \A c \in Cluster : WF_vars(DeliverCluster(c))
    /\ \A h \in Chart : WF_vars(DeliverChart(h))
    /\ \A r \in Release : WF_vars(DeliverRelease(r))
    /\ \A k \in Key : /\ WF_vars(Begin(k))
                      /\ WF_vars(Reconcile(k))
                      /\ WF_vars(Retry(k))
                      /\ WF_vars(Resync(k))

Spec == Init /\ [][Next]_vars

FairSpec == Spec /\ Fairness

-----------------------------------------------------------------------------
(* Properties.                                                             *)

\* A HelmChartProxy is as a reconcile would leave it.
ChartSettled(h) ==
    LET chart == charts[h]
        matching == {c \in Cluster : Matches(chart.selector, clusters[c])}
    IN
    /\ chart.selector # None
    /\ IF chart.deleting
         THEN \E c \in Cluster : releases[<<h, c>>] # None
         ELSE /\ chart.matching = matching
              /\ chart.ready = Aggregate(h, releases)
              /\ \A c \in matching : releases[<<h, c>>] # None
              /\ \A c \in Cluster \ matching : releases[<<h, c>>] \in {None, "deleting"}

\* So is a HelmReleaseProxy: it waits only for a control plane that is not there.
ReleaseSettled(r) ==
    \/ releases[r] = "ready"
    \/ releases[r] = "waiting" /\ Phase(clusters[r[2]]) \in {"gone", "false"}

\* When nothing is under way in the informers, an object nobody works on or is
\* going to has been dealt with: whatever happened while it was being worked on,
\* it was queued again.  Events that the filter for paused Clusters or a selector
\* that cannot be parsed kept from it are the only exception.
NoLostWakeup ==
    seenCharts = charts /\ seenReleases = releases /\ seenClusters = clusters =>
        /\ \A h \in Chart : Idle(h) /\ h \notin missed /\ charts[h] # None => ChartSettled(h)
        /\ \A r \in Release : Idle(r) /\ r \notin missed /\ releases[r] # None => ReleaseSettled(r)

\* Events that were lost that way are made up for by the resync: in the end every
\* HelmChartProxy whose own selector is valid, and every HelmReleaseProxy of it,
\* follows the Clusters, and a deletion waits only for a Cluster that is not up.
EventuallySettled ==
    <>[](\A h \in Chart : charts[h] # None /\ charts[h].selector # None =>
            /\ ChartSettled(h)
            /\ \A c \in Cluster :
                 releases[<<h, c>>] # None =>
                   \/ ReleaseSettled(<<h, c>>)
                   \/ Phase(clusters[c]) \in {"unset", "false"})
=============================================================================
