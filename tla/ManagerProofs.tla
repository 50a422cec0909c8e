----------------------------- MODULE ManagerProofs -----------------------------
(***************************************************************************)
(* No wake-up is lost in Manager, for any number of HelmChartProxies and   *)
(* Clusters and any sequence of events.  NoLostWakeup looks at a moment    *)
(* when the informers have caught up; WakeupInv says of every moment what  *)
(* an object that nobody is going to work on counts on: what the informers *)
(* hold is settled, or an event is on its way that will queue the object.  *)
(***************************************************************************)
EXTENDS Manager, TLAPS

\* The Clusters a HelmChartProxy selects, as far as the informers know.
SeenMatching(h) == {c \in Cluster : Matches(seenCharts[h].selector, seenClusters[c])}

\* The informers' copies are as a reconcile of h would leave them.
ChartSeenSettled(h) ==
    LET chart == seenCharts[h] IN
    /\ chart.selector # None
    /\ IF chart.deleting
         THEN \E c \in Cluster : seenReleases[<<h, c>>] # None
         ELSE /\ chart.matching = SeenMatching(h)
              /\ chart.ready = Aggregate(h, seenReleases)
              /\ \A c \in SeenMatching(h) : seenReleases[<<h, c>>] # None
              /\ \A c \in Cluster \ SeenMatching(h) :
                     seenReleases[<<h, c>>] \in {None, "deleting"}

\* A HelmReleaseProxy was created, or its deletion has begun or ended, and its
\* informer will say so: nothing undoes that before.
ReleaseChanged(r) ==
    \/ seenReleases[r] = None /\ releases[r] # None
    \/ seenReleases[r] \notin {None, "deleting"} /\ releases[r] \in {None, "deleting"}
    \/ seenReleases[r] = "deleting" /\ releases[r] = None

\* An event is on its way that will queue h and that only h's worker could undo.
ChartEventComes(h) ==
    \/ charts[h] = None
    \/ charts[h].matching # seenCharts[h].matching
    \/ charts[h].ready # seenCharts[h].ready
    \/ \E c \in Cluster : ReleaseChanged(<<h, c>>)

ChartsCountOn ==
    \A h \in Chart :
        Idle(h) /\ h \notin missed /\ seenCharts[h] # None =>
            ChartSeenSettled(h) \/ ChartEventComes(h)

ReleaseSeenSettled(r) ==
    \/ seenReleases[r] = "ready"
    \/ seenReleases[r] = "waiting" /\ Phase(seenClusters[r[2]]) \in {"gone", "false"}

ReleasesCountOn ==
    \A r \in Release :
        Idle(r) /\ r \notin missed /\ seenReleases[r] # None =>
            ReleaseSeenSettled(r) \/ releases[r] # seenReleases[r]

\* A reconcile that is not called again works on what the informers have.
ChartsReadCurrent ==
    \A h \in Chart :
        h \in processing /\ h \notin dirty /\ h \notin missed =>
            /\ read[h].chart = seenCharts[h]
            /\ seenCharts[h] # None /\ seenCharts[h].selector # None
                 => read[h].matching = SeenMatching(h)

ReleasesReadCurrent ==
    \A r \in Release :
        r \in processing /\ r \notin dirty /\ r \notin missed =>
            /\ read[r].release = seenReleases[r]
            /\ seenReleases[r] # None /\ Phase(read[r].cluster) = "false"
                 => Phase(seenClusters[r[2]]) \in {"gone", "false"}

\* A deletion is not taken back, and a new object is not one a worker still holds.
ReleasesInOrder ==
    \A r \in Release :
        /\ seenReleases[r] = "deleting" => releases[r] \in {None, "deleting"}
        /\ seenReleases[r] = None /\ releases[r] # None /\ r \in processing
             => read[r].release = None

\* The control plane of a Cluster is not un-initialized.
PhasesInOrder ==
    \A c \in Cluster :
        Phase(clusters[c]) = "unset" => Phase(seenClusters[c]) = "unset"

WakeupInv ==
    /\ ChartsCountOn
    /\ ReleasesCountOn
    /\ ChartsReadCurrent
    /\ ReleasesReadCurrent
    /\ ReleasesInOrder
    /\ PhasesInOrder

-----------------------------------------------------------------------------
(* Type correctness.                                                       *)

View == [chart : HelmChartProxy \union {None},
         release : HelmReleaseProxy \union {None},
         matching : SUBSET Cluster,
         cluster : ClusterObject \union {None}]

ObjectsOK ==
    /\ charts \in [Chart -> HelmChartProxy \union {None}]
    /\ releases \in [Release -> HelmReleaseProxy \union {None}]
    /\ clusters \in [Cluster -> ClusterObject \union {None}]
    /\ budget \in Nat

InformersOK ==
    /\ seenCharts \in [Chart -> HelmChartProxy \union {None}]
    /\ seenReleases \in [Release -> HelmReleaseProxy \union {None}]
    /\ seenClusters \in [Cluster -> ClusterObject \union {None}]

QueueOK == dirty \subseteq Key /\ backoff \subseteq Key /\ missed \subseteq Key

WorkersOK ==
    /\ processing \subseteq Key
    /\ read \in [Key -> View]
    /\ \A k \in Key \ processing : read[k] = Nothing

TypeInv == ObjectsOK /\ InformersOK /\ QueueOK /\ WorkersOK

LEMMA TypeOKParts == TypeOK <=> TypeInv
  BY DEF TypeOK, TypeInv, ObjectsOK, InformersOK, QueueOK, WorkersOK, View

LEMMA NothingType == Nothing \in View
  BY DEF Nothing, View

\* The objects users and reconciles write.
Marked(chart) == [chart EXCEPT !.deleting = TRUE]
Selects(chart, selector) == [chart EXCEPT !.selector = selector]
Reports(chart, matching, ready) == [chart EXCEPT !.matching = matching, !.ready = ready]

LEMMA ChartFields ==
    ASSUME NEW chart \in HelmChartProxy
    PROVE  /\ Marked(chart) \in HelmChartProxy
           /\ \A s \in (SUBSET Label) \union {None} : Selects(chart, s) \in HelmChartProxy
           /\ \A m \in SUBSET Cluster, b \in BOOLEAN : Reports(chart, m, b) \in HelmChartProxy
  BY DEF Marked, Selects, Reports, HelmChartProxy

\* What a HelmChartProxy keeps.
LEMMA ChartKeeps ==
    ASSUME NEW chart \in HelmChartProxy
    PROVE  /\ Marked(chart).matching = chart.matching
           /\ Marked(chart).ready = chart.ready
           /\ \A s : /\ Selects(chart, s).matching = chart.matching
                     /\ Selects(chart, s).ready = chart.ready
           /\ \A m, b : /\ Reports(chart, m, b).matching = m
                        /\ Reports(chart, m, b).ready = b
  BY DEF Marked, Selects, Reports, HelmChartProxy

\* What a reconcile of h writes of it.
LEMMA StatusWritten ==
    ASSUME NEW h \in Chart, ReconcileChart(h)
    PROVE  \/ charts' = charts
           \/ charts' = [charts EXCEPT ![h] = None]
           \/ /\ charts[h] # None
              /\ charts' = [charts EXCEPT ![h] = Reports(charts[h], read[h].matching,
                                                         Aggregate(h, seenReleases))]
  BY DEF ReconcileChart, objects, Reports

\* A Cluster is deleted, or changes without its control plane getting lost.
LEMMA ClusterEffect ==
    ASSUME NEW c \in Cluster, ClusterChanges(c) \/ ControlPlane(c), clusters[c] \in ClusterObject
    PROVE  \/ clusters' = [clusters EXCEPT ![c] = None]
           \/ \E x \in ClusterObject :
                 /\ clusters' = [clusters EXCEPT ![c] = x]
                 /\ x.controlPlane = "unset" => clusters[c].controlPlane = "unset"
  <1>1. ASSUME NEW label \in Label,
               clusters' = [clusters EXCEPT ![c] = [clusters[c] EXCEPT !.label = label]]
        PROVE  \E x \in ClusterObject :
                  /\ clusters' = [clusters EXCEPT ![c] = x]
                  /\ x.controlPlane = "unset" => clusters[c].controlPlane = "unset"
    <2>1. /\ [clusters[c] EXCEPT !.label = label] \in ClusterObject
          /\ [clusters[c] EXCEPT !.label = label].controlPlane = clusters[c].controlPlane
      BY DEF ClusterObject
    <2> QED
      BY <1>1, <2>1
  <1>2. ASSUME clusters' = [clusters EXCEPT ![c] = [clusters[c] EXCEPT !.annotated = ~@]]
        PROVE  \E x \in ClusterObject :
                  /\ clusters' = [clusters EXCEPT ![c] = x]
                  /\ x.controlPlane = "unset" => clusters[c].controlPlane = "unset"
    <2>1. /\ [clusters[c] EXCEPT !.annotated = ~@] \in ClusterObject
          /\ [clusters[c] EXCEPT !.annotated = ~@].controlPlane = clusters[c].controlPlane
      BY DEF ClusterObject
    <2> QED
      BY <1>2, <2>1
  <1>3. ASSUME NEW next \in {"false", "true"},
               clusters' = [clusters EXCEPT ![c] = [clusters[c] EXCEPT !.controlPlane = next]]
        PROVE  \E x \in ClusterObject :
                  /\ clusters' = [clusters EXCEPT ![c] = x]
                  /\ x.controlPlane = "unset" => clusters[c].controlPlane = "unset"
    <2>1. /\ [clusters[c] EXCEPT !.controlPlane = next] \in ClusterObject
          /\ [clusters[c] EXCEPT !.controlPlane = next].controlPlane # "unset"
      BY DEF ClusterObject
    <2> QED
      BY <1>3, <2>1
  <1>4. CASE ClusterChanges(c)
    <2>1. \/ \E label \in Label :
                clusters' = [clusters EXCEPT ![c] = [clusters[c] EXCEPT !.label = label]]
          \/ clusters' = [clusters EXCEPT ![c] = [clusters[c] EXCEPT !.annotated = ~@]]
          \/ clusters' = [clusters EXCEPT ![c] = None]
      BY <1>4, Zenon DEF ClusterChanges
    <2> QED
      BY <1>1, <1>2, <2>1, Zenon
  <1>5. CASE ControlPlane(c)
    <2>1. \E next \in {"false", "true"} :
              clusters' = [clusters EXCEPT ![c] = [clusters[c] EXCEPT !.controlPlane = next]]
      BY <1>5, Zenon DEF ControlPlane
    <2> QED
      BY <1>3, <2>1, Zenon
  <1> QED
    BY <1>4, <1>5

\* The end of a reconcile forgets what was read.
LEMMA EndType ==
    ASSUME TypeInv, NEW k \in Key, NEW failed, End(k, failed)
    PROVE  InformersOK' /\ QueueOK' /\ WorkersOK'
  <1>1. InformersOK /\ QueueOK /\ WorkersOK
    BY DEF TypeInv
  <1>2. InformersOK' /\ QueueOK'
    BY <1>1 DEF End, informers, InformersOK, QueueOK
  <1>3. WorkersOK'
    BY <1>1, NothingType DEF End, WorkersOK
  <1> QED
    BY <1>2, <1>3

\* Reading the objects of a key.
LEMMA BeginType ==
    ASSUME TypeInv, NEW k \in Key, Begin(k)
    PROVE  TypeInv'
  <1> DEFINE matching == {c \in Cluster :
                             /\ seenCharts[k] # None
                             /\ seenCharts[k].selector # None
                             /\ Matches(seenCharts[k].selector, seenClusters[c])}
             forChart == [Nothing EXCEPT !.chart = seenCharts[k], !.matching = matching]
             forRelease == [Nothing EXCEPT !.release = seenReleases[k],
                                           !.cluster = seenClusters[k[2]]]
  <1>1. ObjectsOK /\ InformersOK /\ QueueOK /\ WorkersOK
    BY DEF TypeInv
  <1>2. ObjectsOK' /\ InformersOK' /\ QueueOK'
    BY <1>1 DEF Begin, objects, informers, ObjectsOK, InformersOK, QueueOK
  <1>3. k \in Chart => forChart \in View
    <2>1. matching \in SUBSET Cluster
      OBVIOUS
    <2> HIDE DEF matching
    <2> QED
      BY <1>1, <2>1 DEF InformersOK, Nothing, View
  <1>4. k \notin Chart => forRelease \in View
    <2>1. k \notin Chart => k \in Release /\ k[2] \in Cluster
      BY DEF Key, Release
    <2> QED
      BY <1>1, <2>1 DEF InformersOK, Nothing, View
  <1>5. read' = [read EXCEPT ![k] = IF k \in Chart THEN forChart ELSE forRelease]
    BY DEF Begin
  <1> HIDE DEF forChart, forRelease
  <1>6. WorkersOK'
    BY <1>1, <1>3, <1>4, <1>5 DEF WorkersOK, Begin
  <1> QED
    BY <1>2, <1>6 DEF TypeInv

\* What a reconcile of a HelmChartProxy writes.
LEMMA ReconcileChartType ==
    ASSUME TypeInv, NEW h \in Chart, ReconcileChart(h)
    PROVE  TypeInv'
  <1>1. ObjectsOK /\ InformersOK /\ WorkersOK /\ h \in Key
    BY DEF TypeInv, Key
  <1>2. InformersOK' /\ QueueOK' /\ WorkersOK'
    BY <1>1, EndType DEF ReconcileChart
  <1>3. \A x \in HelmReleaseProxy \union {None} : Deleted(x) \in HelmReleaseProxy \union {None}
    BY DEF Deleted, HelmReleaseProxy
  <1>4. releases' \in [Release -> HelmReleaseProxy \union {None}]
    BY <1>1, <1>3 DEF ReconcileChart, ObjectsOK, objects, HelmReleaseProxy
  <1>5. charts' \in [Chart -> HelmChartProxy \union {None}]
    <2>1. read[h].matching \in SUBSET Cluster /\ Aggregate(h, seenReleases) \in BOOLEAN
      BY <1>1 DEF WorkersOK, View, Aggregate
    <2> DEFINE x == Reports(charts[h], read[h].matching, Aggregate(h, seenReleases))
    <2>2. charts[h] # None => x \in HelmChartProxy
      BY <1>1, <2>1, ChartFields DEF ObjectsOK
    <2>3. \/ charts' = charts
          \/ charts' = [charts EXCEPT ![h] = None]
          \/ charts[h] # None /\ charts' = [charts EXCEPT ![h] = x]
      BY StatusWritten
    <2> HIDE DEF x
    <2> QED
      BY <1>1, <2>2, <2>3 DEF ObjectsOK
  <1>6. clusters' = clusters /\ budget' = budget
    BY DEF ReconcileChart, objects
  <1> QED
    BY <1>1, <1>2, <1>4, <1>5, <1>6 DEF TypeInv, ObjectsOK

\* What a reconcile of a HelmReleaseProxy writes.
LEMMA ReconcileReleaseType ==
    ASSUME TypeInv, NEW r \in Release, ReconcileRelease(r)
    PROVE  TypeInv'
  <1>1. ObjectsOK /\ r \in Key
    BY DEF TypeInv, Key
  <1>2. InformersOK' /\ QueueOK' /\ WorkersOK'
    BY <1>1, EndType DEF ReconcileRelease
  <1>3. releases' \in [Release -> HelmReleaseProxy \union {None}]
    BY <1>1 DEF ReconcileRelease, ObjectsOK, HelmReleaseProxy
  <1>4. UNCHANGED <<charts, clusters, budget>>
    BY DEF ReconcileRelease
  <1> QED
    BY <1>1, <1>2, <1>3, <1>4 DEF TypeInv, ObjectsOK

\* Whom an event is about.
LEMMA EnqueueType ==
    ASSUME NEW c \in Cluster, NEW old, NEW new
    PROVE  /\ EnqueueCharts(old, new) \union EnqueueReleases(c, old, new) \subseteq Key
           /\ Unheard(c, old, new) \subseteq Key
  BY DEF EnqueueCharts, EnqueueReleases, Unheard, ClusterToHelmChartProxiesMapper,
         ClusterToHelmReleaseProxies, Selecting, Key

\* Events and the queue.
LEMMA QueueType ==
    ASSUME TypeInv,
           \/ \E c \in Cluster : DeliverCluster(c)
           \/ \E h \in Chart : DeliverChart(h)
           \/ \E r \in Release : DeliverRelease(r)
           \/ \E k \in Key : Retry(k) \/ Resync(k)
    PROVE  TypeInv'
  <1>1. ObjectsOK /\ InformersOK /\ QueueOK /\ WorkersOK
    BY DEF TypeInv
  <1>2. ObjectsOK' /\ WorkersOK'
    BY <1>1 DEF DeliverCluster, DeliverChart, DeliverRelease, Retry, Resync, objects,
                ObjectsOK, WorkersOK
  <1>3. InformersOK'
    BY <1>1 DEF DeliverCluster, DeliverChart, DeliverRelease, Retry, Resync, informers,
                ObjectsOK, InformersOK
  <1>4. QueueOK'
    <2>1. ASSUME NEW c \in Cluster, DeliverCluster(c)
          PROVE  QueueOK'
      BY <1>1, <2>1, EnqueueType DEF DeliverCluster, Add, QueueOK
    <2>2. ASSUME NEW r \in Release, DeliverRelease(r)
          PROVE  QueueOK'
      <3>1. r \in Key /\ r[1] \in Key
        BY DEF Release, Key
      <3> QED
        BY <1>1, <2>2, <3>1
           DEF DeliverRelease, Add, QueueOK, HelmReleaseProxyToHelmChartProxyMapper
    <2>3. CASE (\E h \in Chart : DeliverChart(h)) \/ (\E k \in Key : Retry(k) \/ Resync(k))
      BY <1>1, <2>3 DEF DeliverChart, Retry, Resync, Add, QueueOK, Key
    <2> QED
      BY <2>1, <2>2, <2>3
  <1> QED
    BY <1>2, <1>3, <1>4 DEF TypeInv

\* Errors, restarts, users and Cluster API.
LEMMA EventType ==
    ASSUME TypeInv,
           \/ \E k \in Key : Fail(k)
           \/ Restart
           \/ \E h \in Chart : ChartDeleted(h) \/ \E s \in Selector : SelectorChanges(h, s)
           \/ \E c \in Cluster : ClusterChanges(c) \/ ControlPlane(c)
    PROVE  TypeInv'
  <1>1. ObjectsOK /\ InformersOK /\ QueueOK /\ WorkersOK
    BY DEF TypeInv
  <1>2. Use => budget' \in Nat
    BY <1>1 DEF Use, ObjectsOK
  <1>3. CASE \E k \in Key : Fail(k)
    BY <1>1, <1>2, <1>3, EndType DEF TypeInv, Fail, objects, ObjectsOK
  <1>4. CASE Restart
    <2>1. ObjectsOK' /\ InformersOK'
      BY <1>1, <1>2, <1>4 DEF Restart, objects, ObjectsOK, InformersOK
    <2>2. QueueOK' /\ WorkersOK'
      BY <1>4, NothingType DEF Restart, QueueOK, WorkersOK, Key
    <2> QED
      BY <2>1, <2>2 DEF TypeInv
  <1>5. ASSUME UNCHANGED <<informers, queue>>, ObjectsOK'
        PROVE  TypeInv'
    BY <1>1, <1>5 DEF TypeInv, informers, queue, InformersOK, QueueOK, WorkersOK
  <1>6. ASSUME NEW h \in Chart, ChartDeleted(h) \/ \E s \in Selector : SelectorChanges(h, s)
        PROVE  TypeInv'
    <2>2. charts' \in [Chart -> HelmChartProxy \union {None}]
      <3>1. charts[h] \in HelmChartProxy
        BY <1>1, <1>6 DEF ChartDeleted, SelectorChanges, ObjectsOK
      <3>2. CASE ChartDeleted(h)
        <4>1. charts' = [charts EXCEPT ![h] = Marked(charts[h])]
          BY <3>2 DEF ChartDeleted, Marked
        <4> QED
          BY <1>1, <3>1, <4>1, ChartFields DEF ObjectsOK
      <3>3. ASSUME NEW s \in Selector, SelectorChanges(h, s)
            PROVE  charts' \in [Chart -> HelmChartProxy \union {None}]
        <4>1. charts' = [charts EXCEPT ![h] = Selects(charts[h], s)]
          BY <3>3 DEF SelectorChanges, Selects
        <4>2. s \in (SUBSET Label) \union {None}
          BY ConstantsAssumption
        <4> QED
          BY <1>1, <3>1, <4>1, <4>2, ChartFields DEF ObjectsOK
      <3> QED
        BY <1>6, <3>2, <3>3
    <2> QED
      BY <1>1, <1>2, <1>5, <1>6, <2>2 DEF ChartDeleted, SelectorChanges, ObjectsOK
  <1>7. ASSUME NEW c \in Cluster, ClusterChanges(c) \/ ControlPlane(c)
        PROVE  TypeInv'
    <2>2. clusters' \in [Cluster -> ClusterObject \union {None}]
      <3>1. clusters[c] \in ClusterObject
        BY <1>1, <1>7 DEF ClusterChanges, ControlPlane, ObjectsOK
      <3>2. \/ clusters' = [clusters EXCEPT ![c] = None]
            \/ \E x \in ClusterObject : clusters' = [clusters EXCEPT ![c] = x]
        BY <1>7, <3>1, ClusterEffect
      <3> QED
        BY <1>1, <3>2 DEF ObjectsOK
    <2>3. budget' \in Nat
      BY <1>1, <1>2, <1>7 DEF ClusterChanges, ControlPlane, ObjectsOK
    <2> QED
      BY <1>1, <1>5, <1>7, <2>2, <2>3 DEF ClusterChanges, ControlPlane, ObjectsOK
  <1> QED
    BY <1>3, <1>4, <1>6, <1>7

\* Every variable keeps its type, and a reconcile leaves nothing behind of what it read,
\* for any number of objects and any sequence of events.
THEOREM TypeCorrect == Spec => []TypeOK
  <1>1. Init => TypeInv
    <2> SUFFICES ASSUME Init
                 PROVE  TypeInv
      OBVIOUS
    <2>1. PICK s \in Start :
              /\ charts = [h \in Chart |-> IF h \in DOMAIN s.selectors
                                            THEN NewChart(s.selectors[h]) ELSE None]
              /\ clusters = s.clusters
      BY DEF Init
    <2>2. charts \in [Chart -> HelmChartProxy \union {None}]
      BY <2>1, ConstantsAssumption DEF NewChart, HelmChartProxy
    <2>3. clusters \in [Cluster -> ClusterObject \union {None}]
      BY <2>1, ConstantsAssumption DEF ClusterObject
    <2>4. ObjectsOK /\ InformersOK
      BY <2>2, <2>3, ConstantsAssumption DEF Init, ObjectsOK, InformersOK
    <2>5. QueueOK /\ WorkersOK
      BY NothingType DEF Init, QueueOK, WorkersOK, Key
    <2> QED
      BY <2>4, <2>5 DEF TypeInv
  <1>2. TypeInv /\ [Next]_vars => TypeInv'
    <2> SUFFICES ASSUME TypeInv, [Next]_vars
                 PROVE  TypeInv'
      OBVIOUS
    <2>1. CASE UNCHANGED vars
      BY <2>1 DEF vars, objects, informers, queue, TypeInv, ObjectsOK, InformersOK, QueueOK, WorkersOK
    <2>2. ASSUME NEW k \in Key, Reconcile(k)
          PROVE  TypeInv'
      BY <2>2, ReconcileChartType, ReconcileReleaseType DEF Reconcile, Key
    <2> QED
      BY <2>1, <2>2, BeginType, QueueType, EventType DEF Next
  <1> QED
    BY <1>1, <1>2, TypeOKParts, PTL DEF Spec

-----------------------------------------------------------------------------
(* What the steps do to the queue and to the HelmReleaseProxies.           *)

\* A reconcile that ends leaves the other keys alone.
LEMMA EndEffect ==
    ASSUME TypeInv, NEW k \in Key, NEW failed \in BOOLEAN, End(k, failed)
    PROVE  /\ UNCHANGED <<seenCharts, seenReleases, seenClusters, dirty, missed>>
           /\ processing' = processing \ {k}
           /\ \A q \in Key : q # k => read'[q] = read[q] /\ (Idle(q)' <=> Idle(q))
           /\ failed => ~Idle(k)'
           /\ Idle(k)' => k \notin dirty
  BY DEF TypeInv, WorkersOK, End, informers, Idle

\* A worker reads what the informers have.
LEMMA BeginEffect ==
    ASSUME TypeInv, NEW k \in Key, Begin(k)
    PROVE  /\ k \in Chart =>
                /\ read'[k].chart = seenCharts[k]
                /\ seenCharts[k] # None /\ seenCharts[k].selector # None
                     => read'[k].matching = SeenMatching(k)
           /\ k \in Release =>
                /\ read'[k].release = seenReleases[k]
                /\ read'[k].cluster = seenClusters[k[2]]
           /\ \A q \in Key : q # k => read'[q] = read[q]
  <1> DEFINE matching == {c \in Cluster :
                             /\ seenCharts[k] # None
                             /\ seenCharts[k].selector # None
                             /\ Matches(seenCharts[k].selector, seenClusters[c])}
             forChart == [Nothing EXCEPT !.chart = seenCharts[k], !.matching = matching]
             forRelease == [Nothing EXCEPT !.release = seenReleases[k],
                                           !.cluster = seenClusters[k[2]]]
  <1>1. read' = [read EXCEPT ![k] = IF k \in Chart THEN forChart ELSE forRelease]
    BY DEF Begin
  <1>2. /\ forChart.chart = seenCharts[k] /\ forChart.matching = matching
        /\ forRelease.release = seenReleases[k] /\ forRelease.cluster = seenClusters[k[2]]
    <2> HIDE DEF matching
    <2> QED
      BY DEF Nothing
  <1>3. seenCharts[k] # None /\ seenCharts[k].selector # None => matching = SeenMatching(k)
    BY DEF SeenMatching
  <1> HIDE DEF matching, forChart, forRelease
  <1>4. /\ k \in Chart => read'[k] = forChart
        /\ k \in Release => read'[k] = forRelease
        /\ \A q \in Key : q # k => read'[q] = read[q]
    BY <1>1, KeysAreTold DEF TypeInv, WorkersOK
  <1> QED
    BY <1>2, <1>3, <1>4

\* A reconcile of h creates and deletes HelmReleaseProxies of h.  It creates one only
\* where none is seen and no worker holds the one before.
LEMMA ChartWritesReleases ==
    ASSUME TypeInv, NEW h \in Chart, ReconcileChart(h), NEW r \in Release
    PROVE  \/ releases'[r] = releases[r]
           \/ /\ r[1] = h /\ seenReleases[r] # None
              /\ releases'[r] = Deleted(releases[r])
           \/ /\ r[1] = h /\ seenReleases[r] = None
              /\ releases[r] = None /\ r \notin processing
              /\ releases'[r] = "new"
  BY DEF ReconcileChart, objects

\* A reconcile of a HelmReleaseProxy ends a deletion it has read, or reports on an
\* object that is not under deletion.
LEMMA ReleaseWrites ==
    ASSUME TypeInv, NEW r \in Release, ReconcileRelease(r)
    PROVE  /\ \A q \in Release : q # r => releases'[q] = releases[q]
           /\ \/ releases'[r] = releases[r]
              \/ releases'[r] = None /\ read[r].release = "deleting"
              \/ /\ releases[r] \notin {None, "deleting"}
                 /\ read[r].release # None
                 /\ releases'[r] \in {"waiting", "ready"}
  <1>1. releases \in [Release -> HelmReleaseProxy \union {None}]
    BY DEF TypeInv, ObjectsOK
  <1> QED
    BY <1>1 DEF ReconcileRelease

LEMMA ReconcileEnds ==
    ASSUME NEW k \in Key
    PROVE  /\ k \in Chart /\ ReconcileChart(k) =>
                k \in processing /\ clusters' = clusters /\ \E failed \in BOOLEAN : End(k, failed)
           /\ k \in Release /\ ReconcileRelease(k) =>
                /\ k \in processing /\ charts' = charts /\ clusters' = clusters
                /\ \E failed \in BOOLEAN : End(k, failed)
  BY DEF ReconcileChart, ReconcileRelease, objects

-----------------------------------------------------------------------------
(* WakeupInv, part by part.                                                *)

\* Users and Cluster API: they change HelmChartProxies and Clusters, and nothing else.
UserStep ==
    \/ \E h \in Chart : ChartDeleted(h) \/ \E s \in Selector : SelectorChanges(h, s)
    \/ \E c \in Cluster : ClusterChanges(c) \/ ControlPlane(c)

LEMMA UserEffect ==
    ASSUME UserStep
    PROVE  /\ releases' = releases
           /\ UNCHANGED <<seenCharts, seenReleases, seenClusters>>
           /\ UNCHANGED <<dirty, processing, backoff, read, missed>>
  BY DEF UserStep, ChartDeleted, SelectorChanges, ClusterChanges, ControlPlane, informers, queue

\* Events are delivered to the informers.
DeliverStep ==
    \/ \E c \in Cluster : DeliverCluster(c)
    \/ \E h \in Chart : DeliverChart(h)
    \/ \E r \in Release : DeliverRelease(r)

LEMMA StepCases ==
    ASSUME [Next]_vars
    PROVE  \/ UNCHANGED vars \/ UserStep \/ DeliverStep \/ Restart
           \/ \E k \in Key : Begin(k) \/ Fail(k) \/ Retry(k) \/ Resync(k)
           \/ \E h \in Chart : ReconcileChart(h)
           \/ \E r \in Release : ReconcileRelease(r)
  BY DEF Next, UserStep, DeliverStep, Reconcile, Key

\* The control plane of a Cluster is not un-initialized.
LEMMA PhasesInOrderKept ==
    ASSUME TypeInv, PhasesInOrder, [Next]_vars
    PROVE  PhasesInOrder'
  <1>0. clusters \in [Cluster -> ClusterObject \union {None}]
    BY DEF TypeInv, ObjectsOK
  <1>1. CASE clusters' = clusters /\ seenClusters' = seenClusters
    BY <1>1 DEF PhasesInOrder, Phase
  <1>2. ASSUME NEW c \in Cluster, ClusterChanges(c) \/ ControlPlane(c)
        PROVE  PhasesInOrder'
    <2>1. clusters[c] \in ClusterObject /\ seenClusters' = seenClusters
      BY <1>0, <1>2 DEF ClusterChanges, ControlPlane, informers
    <2>2. CASE clusters' = [clusters EXCEPT ![c] = None]
      BY <1>0, <2>1, <2>2 DEF PhasesInOrder, Phase
    <2>3. ASSUME NEW x \in ClusterObject, clusters' = [clusters EXCEPT ![c] = x],
                 x.controlPlane = "unset" => clusters[c].controlPlane = "unset"
          PROVE  PhasesInOrder'
      <3>1. \A d \in Cluster : d # c => clusters'[d] = clusters[d]
        BY <1>0, <2>3
      <3>2. clusters'[c] = x /\ x # None /\ clusters[c] # None
        BY <1>0, <2>1, <2>3, NoneIsNoObject
      <3> QED
        BY <2>1, <2>3, <3>1, <3>2 DEF PhasesInOrder, Phase
    <2> QED
      BY <1>2, <2>1, <2>2, <2>3, ClusterEffect
  <1>3. ASSUME NEW c \in Cluster, DeliverCluster(c)
        PROVE  PhasesInOrder'
    <2>1. clusters' = clusters /\ seenClusters' = [seenClusters EXCEPT ![c] = clusters[c]]
      BY <1>3 DEF DeliverCluster, objects
    <2> QED
      BY <2>1 DEF PhasesInOrder, Phase, TypeInv, InformersOK
  <1>4. CASE Restart
    BY <1>4 DEF Restart, objects, PhasesInOrder, Phase
  <1>5. CASE \/ UNCHANGED vars
             \/ \E h \in Chart : \/ DeliverChart(h) \/ ChartDeleted(h)
                                 \/ \E s \in Selector : SelectorChanges(h, s)
             \/ \E r \in Release : DeliverRelease(r)
             \/ \E k \in Key : Begin(k) \/ Fail(k) \/ Retry(k) \/ Resync(k)
    BY <1>1, <1>5 DEF vars, objects, informers, DeliverChart, ChartDeleted, SelectorChanges,
                      DeliverRelease, Begin, Fail, Retry, Resync, End
  <1>6. ASSUME NEW k \in Key, Reconcile(k)
        PROVE  PhasesInOrder'
    <2>1. clusters' = clusters /\ \E failed \in BOOLEAN : End(k, failed)
      BY <1>6, ReconcileEnds DEF Reconcile, Key
    <2> QED
      BY <1>1, <2>1 DEF End, informers
  <1> QED
    BY <1>2, <1>3, <1>4, <1>5, <1>6 DEF Next

\* A deletion is not taken back, and a new object is not one a worker still holds.
LEMMA ReleasesInOrderKept ==
    ASSUME TypeInv, ReleasesInOrder, [Next]_vars
    PROVE  ReleasesInOrder'
  <1> SUFFICES ASSUME NEW r \in Release
               PROVE  /\ seenReleases'[r] = "deleting" => releases'[r] \in {None, "deleting"}
                      /\ seenReleases'[r] = None /\ releases'[r] # None /\ r \in processing'
                           => read'[r].release = None
    BY DEF ReleasesInOrder
  <1>0. /\ seenReleases[r] = "deleting" => releases[r] \in {None, "deleting"}
        /\ seenReleases[r] = None /\ releases[r] # None /\ r \in processing
             => read[r].release = None
        /\ r \in Key
        /\ seenReleases \in [Release -> HelmReleaseProxy \union {None}]
        /\ releases \in [Release -> HelmReleaseProxy \union {None}]
    BY DEF ReleasesInOrder, Key, TypeInv, InformersOK, ObjectsOK
  <1>1. CASE /\ releases'[r] = releases[r] /\ seenReleases'[r] = seenReleases[r]
             /\ r \in processing' => r \in processing /\ read'[r] = read[r]
    BY <1>0, <1>1
  <1>2. CASE UNCHANGED vars \/ UserStep
    BY <1>1, <1>2, UserEffect DEF vars, objects, informers, queue
  <1>3. CASE \/ \E c \in Cluster : DeliverCluster(c)
             \/ \E h \in Chart : DeliverChart(h)
             \/ \E k \in Key : Retry(k) \/ Resync(k)
    BY <1>1, <1>3 DEF DeliverCluster, DeliverChart, Retry, Resync, objects, informers
  <1>4. ASSUME NEW q \in Release, DeliverRelease(q)
        PROVE  /\ seenReleases'[r] = "deleting" => releases'[r] \in {None, "deleting"}
               /\ seenReleases'[r] = None /\ releases'[r] # None /\ r \in processing'
                    => read'[r].release = None
    BY <1>0, <1>4 DEF DeliverRelease, objects
  <1>5. CASE Restart
    BY <1>5 DEF Restart, objects
  <1>6. ASSUME NEW k \in Key, Begin(k)
        PROVE  /\ seenReleases'[r] = "deleting" => releases'[r] \in {None, "deleting"}
               /\ seenReleases'[r] = None /\ releases'[r] # None /\ r \in processing'
                    => read'[r].release = None
    <2>1. /\ releases' = releases /\ seenReleases' = seenReleases
          /\ processing' = processing \union {k}
      BY <1>6 DEF Begin, objects, informers
    <2> QED
      BY <1>0, <1>6, <2>1, BeginEffect
  <1>7. ASSUME NEW k \in Key, Fail(k)
        PROVE  /\ releases'[r] = releases[r] /\ seenReleases'[r] = seenReleases[r]
               /\ r \in processing' => r \in processing /\ read'[r] = read[r]
    BY <1>0, <1>7, EndEffect DEF Fail, objects
  <1>8. ASSUME NEW h \in Chart, ReconcileChart(h)
        PROVE  /\ seenReleases'[r] = "deleting" => releases'[r] \in {None, "deleting"}
               /\ seenReleases'[r] = None /\ releases'[r] # None /\ r \in processing'
                    => read'[r].release = None
    <2>1. h \in Key /\ h # r
      BY KeysAreTold DEF Key
    <2>2. PICK failed \in BOOLEAN : End(h, failed)
      BY <1>8, <2>1, ReconcileEnds
    <2>3. /\ seenReleases' = seenReleases /\ processing' = processing \ {h}
          /\ read'[r] = read[r]
      BY <1>0, <2>1, <2>2, EndEffect
    <2>4. None # "deleting"
      BY NoneIsNoObject DEF HelmReleaseProxy
    <2>5. \/ releases'[r] = releases[r]
          \/ seenReleases[r] # None /\ releases'[r] \in {None, "deleting"}
          \/ seenReleases[r] = None /\ r \notin processing
      BY <1>8, ChartWritesReleases DEF Deleted
    <2> QED
      BY <1>0, <2>3, <2>4, <2>5
  <1>9. ASSUME NEW q \in Release, ReconcileRelease(q)
        PROVE  /\ seenReleases'[r] = "deleting" => releases'[r] \in {None, "deleting"}
               /\ seenReleases'[r] = None /\ releases'[r] # None /\ r \in processing'
                    => read'[r].release = None
    <2>1. q \in Key
      BY DEF Key
    <2>2. PICK failed \in BOOLEAN : End(q, failed)
      BY <1>9, <2>1, ReconcileEnds
    <2>3. /\ seenReleases' = seenReleases /\ processing' = processing \ {q}
          /\ q # r => read'[r] = read[r]
      BY <1>0, <2>1, <2>2, EndEffect
    <2> QED
      BY <1>0, <1>9, <2>3, ReleaseWrites
  <1> QED
    BY <1>1, <1>2, <1>3, <1>4, <1>5, <1>6, <1>7, <1>8, <1>9, StepCases DEF DeliverStep

\* Whoever is idle after a step of the queue was idle before.
LEMMA QueueEffect ==
    ASSUME TypeInv, NEW k \in Key, Begin(k) \/ Fail(k) \/ Retry(k) \/ Resync(k)
    PROVE  /\ UNCHANGED <<charts, releases, clusters, seenCharts, seenReleases, seenClusters>>
           /\ \A q \in Key : Idle(q)' /\ q \notin missed' => Idle(q) /\ q \notin missed
  <1>1. UNCHANGED <<charts, releases, clusters, seenCharts, seenReleases, seenClusters>>
    BY DEF Begin, Fail, Retry, Resync, End, objects, informers
  <1>2. \A q \in Key : Idle(q)' /\ q \notin missed' => Idle(q) /\ q \notin missed
    BY DEF Begin, Fail, Retry, Resync, End, Add, Idle
  <1> QED
    BY <1>1, <1>2

\* A HelmChartProxy for which a Cluster is not the same any more hears of it.
LEMMA ClusterTellsCharts ==
    ASSUME TypeInv, NEW c \in Cluster, DeliverCluster(c), NEW h \in Chart,
           h \notin dirty', h \notin missed',
           seenCharts[h] # None, seenCharts[h].selector # None
    PROVE  SeenMatching(h)' = SeenMatching(h)
  <1> DEFINE old == seenClusters[c]
             new == clusters[c]
             selector == seenCharts[h].selector
  <1>1. /\ seenCharts' = seenCharts
        /\ seenClusters' = [seenClusters EXCEPT ![c] = new]
        /\ dirty' = dirty \union (EnqueueCharts(old, new) \union EnqueueReleases(c, old, new))
        /\ missed' = missed \union Unheard(c, old, new)
    BY DEF DeliverCluster, Add
  <1>2. h \notin EnqueueCharts(old, new) /\ h \notin Unheard(c, old, new)
    BY <1>1
  <1>3. h \notin Selecting(old) \union Selecting(new)
    BY <1>2 DEF EnqueueCharts, Unheard, ClusterToHelmChartProxiesMapper
  <1>4. ~Matches(selector, old) /\ ~Matches(selector, new)
    BY <1>3 DEF Selecting
  <1>5. \A d \in Cluster : Matches(selector, seenClusters'[d]) <=> Matches(selector, seenClusters[d])
    <2>1. ASSUME NEW d \in Cluster
          PROVE  seenClusters'[d] = IF d = c THEN new ELSE seenClusters[d]
      BY <1>1 DEF TypeInv, InformersOK
    <2> HIDE DEF selector, new
    <2> QED
      BY <1>4, <2>1
  <1> QED
    BY <1>1, <1>5 DEF SeenMatching

\* A HelmReleaseProxy that waits for nothing to happen still may, or it hears of the
\* Cluster.
LEMMA ClusterTellsReleases ==
    ASSUME TypeInv, PhasesInOrder, NEW c \in Cluster, DeliverCluster(c), NEW r \in Release,
           r \notin dirty', r \notin missed', seenReleases[r] # None,
           Phase(seenClusters[r[2]]) \in {"gone", "false"}
    PROVE  Phase(seenClusters'[r[2]]) \in {"gone", "false"}
  <1> DEFINE old == seenClusters[c]
             new == clusters[c]
  <1>1. /\ seenClusters' = [seenClusters EXCEPT ![c] = new]
        /\ dirty' = dirty \union (EnqueueCharts(old, new) \union EnqueueReleases(c, old, new))
        /\ missed' = missed \union Unheard(c, old, new)
    BY DEF DeliverCluster, Add
  <1>2. seenClusters \in [Cluster -> ClusterObject \union {None}]
    BY DEF TypeInv, InformersOK
  <1>3. CASE r[2] # c
    <2>1. r[2] \in Cluster
      BY DEF Release
    <2>2. seenClusters'[r[2]] = seenClusters[r[2]]
      BY <1>1, <1>2, <1>3, <2>1
    <2> QED
      BY <2>2
  <1>4. CASE r[2] = c
    <2>1. r \in ClusterToHelmReleaseProxies(c)
      BY <1>4 DEF ClusterToHelmReleaseProxies
    <2>2. r \notin EnqueueReleases(c, old, new) /\ r \notin Unheard(c, old, new)
      BY <1>1
    <2>3. ~CreatedOrInitialized(old, new)
      BY <2>1, <2>2 DEF EnqueueReleases, Unheard
    <2>4. new \in ClusterObject \union {None}
      BY DEF TypeInv, ObjectsOK
    <2>5. Phase(new) = "unset" => Phase(old) = "unset"
      BY DEF PhasesInOrder
    <2>6. Phase(old) \in {"gone", "false"}
      BY <1>4
    <2>7. Phase(new) \in {"gone", "false"}
      <3> HIDE DEF new, old
      <3> QED
        BY <2>3, <2>4, <2>5, <2>6 DEF CreatedOrInitialized, Phase, ClusterObject
    <2> QED
      BY <1>1, <1>2, <1>4, <2>7
  <1> QED
    BY <1>3, <1>4

\* A reconcile that is not called again works on what the informers have.
LEMMA ChartsReadCurrentKept ==
    ASSUME TypeInv, ChartsReadCurrent, [Next]_vars
    PROVE  ChartsReadCurrent'
  <1> SUFFICES ASSUME NEW h \in Chart, h \in processing', h \notin dirty', h \notin missed'
               PROVE  /\ read'[h].chart = seenCharts'[h]
                      /\ seenCharts'[h] # None /\ seenCharts'[h].selector # None
                           => read'[h].matching = SeenMatching(h)'
    BY DEF ChartsReadCurrent
  <1> DEFINE Goal == /\ read'[h].chart = seenCharts'[h]
                     /\ seenCharts'[h] # None /\ seenCharts'[h].selector # None
                          => read'[h].matching = SeenMatching(h)'
  <1>0. h \in Key
    BY DEF Key
  <1>1. h \in processing /\ h \notin dirty /\ h \notin missed =>
           /\ read[h].chart = seenCharts[h]
           /\ seenCharts[h] # None /\ seenCharts[h].selector # None
                => read[h].matching = SeenMatching(h)
    BY DEF ChartsReadCurrent
  <1>2. CASE /\ h \in processing /\ h \notin dirty /\ h \notin missed
             /\ read'[h] = read[h] /\ seenCharts'[h] = seenCharts[h]
             /\ seenClusters' = seenClusters
    BY <1>1, <1>2 DEF SeenMatching
  <1>3. CASE \/ UNCHANGED vars
             \/ \E r \in Release : DeliverRelease(r)
             \/ \E k \in Key : Retry(k) \/ Resync(k)
    BY <1>2, <1>3 DEF vars, objects, informers, queue, DeliverRelease, Retry, Resync, Add
  <1>4. CASE UserStep
    BY <1>2, <1>4, UserEffect
  <1>5. ASSUME NEW g \in Chart, DeliverChart(g)
        PROVE  Goal
    <2>1. g # h
      BY <1>5 DEF DeliverChart, Add
    <2>2. seenCharts'[h] = seenCharts[h]
      BY <1>5, <2>1 DEF DeliverChart, TypeInv, InformersOK
    <2> QED
      BY <1>2, <1>5, <2>2 DEF DeliverChart, Add
  <1>6. ASSUME NEW c \in Cluster, DeliverCluster(c)
        PROVE  Goal
    <2>1. /\ seenCharts' = seenCharts /\ processing' = processing /\ read' = read
          /\ h \notin dirty /\ h \notin missed
      BY <1>6 DEF DeliverCluster, Add
    <2> QED
      BY <1>1, <1>6, <2>1, ClusterTellsCharts
  <1>7. ASSUME NEW k \in Key, Begin(k)
        PROVE  Goal
    <2>1. UNCHANGED <<seenCharts, seenClusters>>
      BY <1>7, QueueEffect
    <2>2. SeenMatching(h)' = SeenMatching(h)
      BY <2>1 DEF SeenMatching
    <2>3. CASE k = h
      BY <1>7, <2>1, <2>2, <2>3, BeginEffect
    <2>4. CASE k # h
      <3>1. read'[h] = read[h]
        BY <1>0, <1>7, <2>4, BeginEffect
      <3>2. h \in processing /\ h \notin dirty /\ h \notin missed
        BY <1>7, <2>4 DEF Begin
      <3> QED
        BY <1>2, <2>1, <3>1, <3>2
    <2> QED
      BY <2>3, <2>4
  <1>8. ASSUME NEW k \in Key, NEW failed \in BOOLEAN, End(k, failed)
        PROVE  Goal
    <2>1. /\ k # h /\ h \in processing /\ h \notin dirty /\ h \notin missed
          /\ UNCHANGED <<seenCharts, seenClusters>>
      BY <1>8, EndEffect
    <2>2. read'[h] = read[h]
      BY <1>0, <1>8, <2>1, EndEffect
    <2> QED
      BY <1>2, <2>1, <2>2
  <1>9. CASE Restart
    BY <1>9 DEF Restart
  <1>10. ASSUME \/ \E k \in Key : Fail(k)
                \/ \E g \in Chart : ReconcileChart(g)
                \/ \E r \in Release : ReconcileRelease(r)
         PROVE  \E k \in Key : \E failed \in BOOLEAN : End(k, failed)
    BY <1>10, ReconcileEnds DEF Fail, Key
  <1> HIDE DEF Goal
  <1> QED
    BY <1>3, <1>4, <1>5, <1>6, <1>7, <1>8, <1>9, <1>10, StepCases DEF DeliverStep, Goal

LEMMA ReleasesReadCurrentKept ==
    ASSUME TypeInv, ReleasesReadCurrent, PhasesInOrder, [Next]_vars
    PROVE  ReleasesReadCurrent'
  <1> SUFFICES ASSUME NEW r \in Release, r \in processing', r \notin dirty', r \notin missed'
               PROVE  /\ read'[r].release = seenReleases'[r]
                      /\ seenReleases'[r] # None /\ Phase(read'[r].cluster) = "false"
                           => Phase(seenClusters'[r[2]]) \in {"gone", "false"}
    BY DEF ReleasesReadCurrent, Phase
  <1> DEFINE Goal == /\ read'[r].release = seenReleases'[r]
                     /\ seenReleases'[r] # None /\ Phase(read'[r].cluster) = "false"
                          => Phase(seenClusters'[r[2]]) \in {"gone", "false"}
  <1>0. r \in Key
    BY DEF Key
  <1>1. r \in processing /\ r \notin dirty /\ r \notin missed =>
           /\ read[r].release = seenReleases[r]
           /\ seenReleases[r] # None /\ Phase(read[r].cluster) = "false"
                => Phase(seenClusters[r[2]]) \in {"gone", "false"}
    BY DEF ReleasesReadCurrent
  <1>2. CASE /\ r \in processing /\ r \notin dirty /\ r \notin missed
             /\ read'[r] = read[r] /\ seenReleases'[r] = seenReleases[r]
             /\ seenClusters' = seenClusters
    BY <1>1, <1>2
  <1>3. CASE \/ UNCHANGED vars
             \/ \E h \in Chart : DeliverChart(h)
             \/ \E k \in Key : Retry(k) \/ Resync(k)
    BY <1>2, <1>3 DEF vars, objects, informers, queue, DeliverChart, Retry, Resync, Add
  <1>4. CASE UserStep
    BY <1>2, <1>4, UserEffect
  <1>5. ASSUME NEW q \in Release, DeliverRelease(q)
        PROVE  Goal
    <2>1. q # r
      BY <1>5 DEF DeliverRelease, Add
    <2>2. seenReleases'[r] = seenReleases[r]
      BY <1>5, <2>1 DEF DeliverRelease, TypeInv, InformersOK
    <2> QED
      BY <1>2, <1>5, <2>2 DEF DeliverRelease, Add
  <1>6. ASSUME NEW c \in Cluster, DeliverCluster(c)
        PROVE  Goal
    <2>1. /\ seenReleases' = seenReleases /\ processing' = processing /\ read' = read
          /\ r \notin dirty /\ r \notin missed
      BY <1>6 DEF DeliverCluster, Add
    <2> QED
      BY <1>1, <1>6, <2>1, ClusterTellsReleases
  <1>7. ASSUME NEW k \in Key, Begin(k)
        PROVE  Goal
    <2>1. UNCHANGED <<seenReleases, seenClusters>>
      BY <1>7, QueueEffect
    <2>2. CASE k = r
      BY <1>7, <2>1, <2>2, BeginEffect
    <2>3. CASE k # r
      <3>1. read'[r] = read[r]
        BY <1>0, <1>7, <2>3, BeginEffect
      <3>2. r \in processing /\ r \notin dirty /\ r \notin missed
        BY <1>7, <2>3 DEF Begin
      <3> QED
        BY <1>2, <2>1, <3>1, <3>2
    <2> QED
      BY <2>2, <2>3
  <1>8. ASSUME NEW k \in Key, NEW failed \in BOOLEAN, End(k, failed)
        PROVE  Goal
    <2>1. /\ k # r /\ r \in processing /\ r \notin dirty /\ r \notin missed
          /\ UNCHANGED <<seenReleases, seenClusters>>
      BY <1>8, EndEffect
    <2>2. read'[r] = read[r]
      BY <1>0, <1>8, <2>1, EndEffect
    <2> QED
      BY <1>2, <2>1, <2>2
  <1>9. CASE Restart
    BY <1>9 DEF Restart
  <1>10. ASSUME \/ \E k \in Key : Fail(k)
                \/ \E h \in Chart : ReconcileChart(h)
                \/ \E q \in Release : ReconcileRelease(q)
         PROVE  \E k \in Key : \E failed \in BOOLEAN : End(k, failed)
    BY <1>10, ReconcileEnds DEF Fail, Key
  <1> HIDE DEF Goal
  <1> QED
    BY <1>3, <1>4, <1>5, <1>6, <1>7, <1>8, <1>9, <1>10, StepCases DEF DeliverStep, Goal

\* Whoever is idle after an event was idle before, and has not missed more.
LEMMA DeliverEffect ==
    ASSUME DeliverStep
    PROVE  /\ UNCHANGED <<charts, releases, clusters, processing, backoff>>
           /\ \A q \in Key : Idle(q)' /\ q \notin missed' => Idle(q) /\ q \notin missed
  BY DEF DeliverStep, DeliverCluster, DeliverChart, DeliverRelease, Add, Idle, objects

\* What a reconcile of h that ends well leaves behind: the copies its informers hold are
\* settled, or it has caused an event.
LEMMA ReconcileChartSettles ==
    ASSUME TypeInv, NEW h \in Chart, ReconcileChart(h), seenCharts[h] # None,
           UNCHANGED <<seenCharts, seenReleases, seenClusters>>,
           read[h].chart = seenCharts[h],
           seenCharts[h].selector # None => read[h].matching = SeenMatching(h),
           ~End(h, TRUE)
    PROVE  ChartSeenSettled(h) \/ ChartEventComes(h)'
  <1> DEFINE mine == {r \in Release : r[1] = h}
  <1>1. \A c \in Cluster : <<h, c>> \in mine /\ <<h, c>>[2] = c /\ <<h, c>> \in Release
    BY DEF Release
  <1>2. seenCharts[h].selector # None
    BY DEF ReconcileChart
  <1>3. CASE seenCharts[h].deleting
    <2>1. charts' = IF \A r \in mine : seenReleases[r] = None
                      THEN [charts EXCEPT ![h] = None] ELSE charts
      BY <1>2, <1>3 DEF ReconcileChart
    <2>2. CASE \A r \in mine : seenReleases[r] = None
      <3>1. charts'[h] = None
        BY <2>1, <2>2 DEF TypeInv, ObjectsOK
      <3> QED
        BY <3>1 DEF ChartEventComes
    <2>3. CASE ~ \A r \in mine : seenReleases[r] = None
      <3>1. PICK r \in Release : r[1] = h /\ seenReleases[r] # None
        BY <2>3
      <3>2. r = <<h, r[2]>> /\ r[2] \in Cluster
        BY <3>1 DEF Release
      <3>3. \E c \in Cluster : seenReleases[<<h, c>>] # None
        BY <3>1, <3>2
      <3> QED
        BY <1>2, <1>3, <3>3 DEF ChartSeenSettled
    <2> QED
      BY <2>2, <2>3
  <1>4. CASE ~seenCharts[h].deleting
    <2>1. /\ releases' = [r \in Release |->
                CASE r \in mine /\ r[2] \notin SeenMatching(h) /\ seenReleases[r] # None
                       -> Deleted(releases[r])
                  [] r \in mine /\ r[2] \in SeenMatching(h) /\ seenReleases[r] = None /\ releases[r] = None
                       -> "new"
                  [] OTHER -> releases[r]]
          /\ \/ charts' = charts /\ charts[h] = None
             \/ /\ charts[h] # None
                /\ charts' = [charts EXCEPT ![h] = Reports(charts[h], SeenMatching(h),
                                                           Aggregate(h, seenReleases))]
      BY <1>2, <1>4 DEF ReconcileChart, Reports
    <2>2. CASE charts' = charts /\ charts[h] = None
      BY <2>2 DEF ChartEventComes
    <2>3. CASE charts[h] # None /\ charts' = [charts EXCEPT ![h] =
                   Reports(charts[h], SeenMatching(h), Aggregate(h, seenReleases))]
      <3> DEFINE x == Reports(charts[h], SeenMatching(h), Aggregate(h, seenReleases))
      <3>1. x.matching = SeenMatching(h) /\ x.ready = Aggregate(h, seenReleases)
        BY <2>3, ChartKeeps DEF TypeInv, ObjectsOK
      <3>2. charts'[h] = x
        BY <2>3 DEF TypeInv, ObjectsOK
      <3> HIDE DEF x
      <3>3. CASE \/ seenCharts[h].matching # SeenMatching(h)
                 \/ seenCharts[h].ready # Aggregate(h, seenReleases)
        BY <3>1, <3>2, <3>3 DEF ChartEventComes
      <3>4. ASSUME NEW c \in SeenMatching(h), seenReleases[<<h, c>>] = None
            PROVE  ChartEventComes(h)'
        <4>1. c \in Cluster /\ <<h, c>> \in Release
          BY <1>1 DEF SeenMatching
        <4>2. releases'[<<h, c>>] = IF releases[<<h, c>>] = None THEN "new" ELSE releases[<<h, c>>]
          BY <1>1, <2>1, <3>4, <4>1
        <4>3. releases'[<<h, c>>] # None
          BY <4>2, NoneIsNoObject DEF HelmReleaseProxy
        <4>4. seenReleases'[<<h, c>>] = None
          BY <3>4
        <4> QED
          BY <4>1, <4>3, <4>4 DEF ChartEventComes, ReleaseChanged
      <3>5. ASSUME NEW c \in Cluster \ SeenMatching(h), seenReleases[<<h, c>>] \notin {None, "deleting"}
            PROVE  ChartEventComes(h)'
        <4>1. releases'[<<h, c>>] = Deleted(releases[<<h, c>>])
          BY <1>1, <2>1, <3>5
        <4>2. releases'[<<h, c>>] \in {None, "deleting"}
          BY <4>1 DEF Deleted
        <4>3. seenReleases'[<<h, c>>] \notin {None, "deleting"}
          BY <3>5
        <4> QED
          BY <4>2, <4>3 DEF ChartEventComes, ReleaseChanged
      <3> QED
        BY <1>2, <1>4, <3>3, <3>4, <3>5 DEF ChartSeenSettled
    <2> QED
      BY <2>1, <2>2, <2>3
  <1> QED
    BY <1>3, <1>4

\* What a change of a HelmReleaseProxy announces is not undone by a worker.
LEMMA ReleaseChangeStays ==
    ASSUME TypeInv, ReleasesInOrder, NEW q \in Release, ReconcileRelease(q),
           NEW r \in Release, ReleaseChanged(r), seenReleases' = seenReleases
    PROVE  ReleaseChanged(r)'
  <1>1. /\ seenReleases[r] = None /\ releases[r] # None /\ r \in processing
             => read[r].release = None
        /\ q \in processing
    BY DEF ReleasesInOrder, ReconcileRelease
  <1>2. CASE releases'[r] = releases[r]
    BY <1>2 DEF ReleaseChanged
  <1>3. CASE r = q /\ releases'[r] = None /\ read[r].release = "deleting"
    <2>1. None # "deleting"
      BY NoneIsNoObject DEF HelmReleaseProxy
    <2> QED
      BY <1>1, <1>3, <2>1 DEF ReleaseChanged
  <1>4. CASE r = q /\ releases[r] \notin {None, "deleting"} /\ releases'[r] \in {"waiting", "ready"}
    <2>1. releases'[r] # None
      BY <1>4, NoneIsNoObject DEF HelmReleaseProxy
    <2> QED
      BY <1>4, <2>1 DEF ReleaseChanged
  <1> QED
    BY <1>2, <1>3, <1>4, ReleaseWrites

\* Nor does a user undo what a HelmChartProxy's event announces.
LEMMA ChartEventStays ==
    ASSUME TypeInv, UserStep, NEW h \in Chart, ChartEventComes(h)
    PROVE  ChartEventComes(h)'
  <1>1. releases' = releases /\ seenReleases' = seenReleases /\ seenCharts' = seenCharts
    BY UserEffect
  <1>2. CASE \E c \in Cluster : ReleaseChanged(<<h, c>>)
    BY <1>1, <1>2 DEF ChartEventComes, ReleaseChanged
  <1>3. CASE charts'[h] = charts[h]
    BY <1>1, <1>2, <1>3 DEF ChartEventComes
  <1>4. CASE /\ charts[h] # None
             /\ charts'[h].matching = charts[h].matching /\ charts'[h].ready = charts[h].ready
    BY <1>1, <1>2, <1>4 DEF ChartEventComes
  <1>5. ASSUME NEW g \in Chart, NEW x, charts' = [charts EXCEPT ![g] = x], charts[g] # None,
               charts[g] \in HelmChartProxy =>
                   x.matching = charts[g].matching /\ x.ready = charts[g].ready
        PROVE  ChartEventComes(h)'
    <2>1. g = h => charts'[h] = x /\ charts[h] \in HelmChartProxy
      BY <1>5 DEF TypeInv, ObjectsOK
    <2>2. g # h => charts'[h] = charts[h]
      BY <1>5 DEF TypeInv, ObjectsOK
    <2>3. g = h => /\ charts[h] # None
                   /\ charts'[h].matching = charts[h].matching
                   /\ charts'[h].ready = charts[h].ready
      BY <1>5, <2>1
    <2> QED
      BY <1>3, <1>4, <2>2, <2>3
  <1>6. ASSUME NEW g \in Chart, ChartDeleted(g)
        PROVE  ChartEventComes(h)'
    <2>1. charts' = [charts EXCEPT ![g] = Marked(charts[g])] /\ charts[g] # None
      BY <1>6 DEF ChartDeleted, Marked
    <2> QED
      BY <1>5, <2>1, ChartKeeps
  <1>7. ASSUME NEW g \in Chart, NEW s \in Selector, SelectorChanges(g, s)
        PROVE  ChartEventComes(h)'
    <2>1. charts' = [charts EXCEPT ![g] = Selects(charts[g], s)] /\ charts[g] # None
      BY <1>7 DEF SelectorChanges, Selects
    <2>2. charts[g] \in HelmChartProxy =>
             /\ Selects(charts[g], s).matching = charts[g].matching
             /\ Selects(charts[g], s).ready = charts[g].ready
      BY ChartKeeps
    <2> QED
      BY <1>5, <2>1, <2>2
  <1>8. ASSUME NEW c \in Cluster, ClusterChanges(c) \/ ControlPlane(c)
        PROVE  ChartEventComes(h)'
    BY <1>3, <1>8 DEF ClusterChanges, ControlPlane
  <1> QED
    BY <1>6, <1>7, <1>8 DEF UserStep

\* An idle HelmChartProxy is settled, as far as the informers know, or an event comes.
LEMMA ChartsCountOnKept ==
    ASSUME TypeInv, WakeupInv, [Next]_vars
    PROVE  ChartsCountOn'
  <1> SUFFICES ASSUME NEW h \in Chart, Idle(h)', h \notin missed', seenCharts'[h] # None
               PROVE  ChartSeenSettled(h)' \/ ChartEventComes(h)'
    BY DEF ChartsCountOn
  <1> DEFINE Goal == ChartSeenSettled(h)' \/ ChartEventComes(h)'
  <1>0. /\ h \in Key
        /\ \A c \in Cluster : <<h, c>> \in Release /\ <<h, c>>[1] = h
    BY DEF Key, Release
  <1>1. Idle(h) /\ h \notin missed /\ seenCharts[h] # None =>
           ChartSeenSettled(h) \/ ChartEventComes(h)
    BY DEF WakeupInv, ChartsCountOn
  <1>2. ASSUME seenCharts'[h] = seenCharts[h],
               \A c \in Cluster : seenReleases'[<<h, c>>] = seenReleases[<<h, c>>],
               seenCharts[h].selector # None => SeenMatching(h)' = SeenMatching(h),
               ChartSeenSettled(h)
        PROVE  ChartSeenSettled(h)'
    <2>1. Aggregate(h, seenReleases)' <=> Aggregate(h, seenReleases)
      BY <1>2 DEF Aggregate
    <2>2. SeenMatching(h)' = SeenMatching(h)
      BY <1>2 DEF ChartSeenSettled
    <2>3. CASE seenCharts[h].deleting
      BY <1>2, <2>3 DEF ChartSeenSettled
    <2>4. CASE ~seenCharts[h].deleting
      <3>1. /\ seenCharts'[h].selector # None /\ ~seenCharts'[h].deleting
            /\ seenCharts'[h].matching = SeenMatching(h)'
            /\ seenCharts'[h].ready = Aggregate(h, seenReleases)'
        BY <1>2, <2>1, <2>2, <2>4 DEF ChartSeenSettled, Aggregate
      <3>2. /\ \A c \in SeenMatching(h)' : seenReleases'[<<h, c>>] # None
            /\ \A c \in Cluster \ SeenMatching(h)' : seenReleases'[<<h, c>>] \in {None, "deleting"}
        <4>1. SeenMatching(h) \subseteq Cluster
          BY DEF SeenMatching
        <4> QED
          BY <1>2, <2>2, <2>4, <4>1 DEF ChartSeenSettled
      <3> QED
        BY <3>1, <3>2 DEF ChartSeenSettled
    <2> QED
      BY <2>3, <2>4
  <1>3. ASSUME seenCharts'[h] = seenCharts[h], charts'[h] = charts[h],
               \A c \in Cluster : seenReleases'[<<h, c>>] = seenReleases[<<h, c>>],
               \A c \in Cluster : releases'[<<h, c>>] = releases[<<h, c>>],
               ChartEventComes(h)
        PROVE  ChartEventComes(h)'
    BY <1>3 DEF ChartEventComes, ReleaseChanged
  <1>4. ASSUME UNCHANGED <<seenCharts, seenReleases, seenClusters>>
        PROVE  ChartSeenSettled(h) => ChartSeenSettled(h)'
    BY <1>4 DEF ChartSeenSettled, Aggregate, SeenMatching
  <1>5. CASE UNCHANGED vars
    BY <1>1, <1>3, <1>4, <1>5 DEF vars, objects, informers, queue, Idle
  <1>6. CASE UserStep
    <2>1. Idle(h) /\ h \notin missed /\ UNCHANGED <<seenCharts, seenReleases, seenClusters>>
      BY <1>6, UserEffect DEF Idle
    <2> QED
      BY <1>1, <1>4, <1>6, <2>1, ChartEventStays
  <1>7. ASSUME NEW k \in Key, Begin(k) \/ Fail(k) \/ Retry(k) \/ Resync(k)
        PROVE  Goal
    <2>1. /\ Idle(h) /\ h \notin missed
          /\ UNCHANGED <<charts, releases, seenCharts, seenReleases, seenClusters>>
      BY <1>0, <1>7, QueueEffect
    <2> QED
      BY <1>1, <1>3, <1>4, <2>1
  <1>8. CASE DeliverStep
    <2>1. Idle(h) /\ h \notin missed /\ charts' = charts /\ releases' = releases
      BY <1>0, <1>8, DeliverEffect
    <2>2. h \notin dirty'
      BY DEF Idle
    <2>3. ASSUME NEW g \in Chart, DeliverChart(g)
          PROVE  Goal
      <3>1. g # h
        BY <2>2, <2>3 DEF DeliverChart, Add
      <3>2. seenCharts'[h] = seenCharts[h] /\ seenReleases' = seenReleases /\ seenClusters' = seenClusters
        BY <2>3, <3>1 DEF DeliverChart, TypeInv, InformersOK
      <3>3. SeenMatching(h)' = SeenMatching(h)
        BY <3>2 DEF SeenMatching
      <3> QED
        BY <1>1, <1>2, <1>3, <2>1, <3>2, <3>3
    <2>4. ASSUME NEW r \in Release, DeliverRelease(r)
          PROVE  Goal
      <3>1. r[1] # h
        BY <2>2, <2>4 DEF DeliverRelease, Add, HelmReleaseProxyToHelmChartProxyMapper
      <3>2. \A c \in Cluster : r # <<h, c>>
        BY <3>1
      <3>3. \A c \in Cluster : seenReleases'[<<h, c>>] = seenReleases[<<h, c>>]
        BY <1>0, <2>4, <3>2 DEF DeliverRelease, TypeInv, InformersOK
      <3>4. seenCharts' = seenCharts /\ seenClusters' = seenClusters
        BY <2>4 DEF DeliverRelease
      <3>5. SeenMatching(h)' = SeenMatching(h)
        BY <3>4 DEF SeenMatching
      <3> QED
        BY <1>1, <1>2, <1>3, <2>1, <3>3, <3>4, <3>5
    <2>5. ASSUME NEW c \in Cluster, DeliverCluster(c)
          PROVE  Goal
      <3>1. seenCharts' = seenCharts /\ seenReleases' = seenReleases
        BY <2>5 DEF DeliverCluster
      <3>2. seenCharts[h].selector # None => SeenMatching(h)' = SeenMatching(h)
        BY <2>2, <2>5, <3>1, ClusterTellsCharts
      <3> QED
        BY <1>1, <1>2, <1>3, <2>1, <3>1, <3>2
    <2> QED
      BY <1>8, <2>3, <2>4, <2>5 DEF DeliverStep
  <1>9. CASE Restart
    BY <1>9 DEF Restart, Idle
  <1>10. ASSUME NEW r \in Release, ReconcileRelease(r)
         PROVE  Goal
    <2>1. r \in Key /\ r # h
      BY KeysAreTold DEF Key
    <2>2. PICK failed \in BOOLEAN : End(r, failed)
      BY <1>10, <2>1, ReconcileEnds
    <2>3. Idle(h) /\ h \notin missed /\ UNCHANGED <<seenCharts, seenReleases, seenClusters>>
      BY <1>0, <2>1, <2>2, EndEffect
    <2>4. charts' = charts
      BY <1>10, <2>1, ReconcileEnds
    <2>5. \A c \in Cluster : ReleaseChanged(<<h, c>>) => ReleaseChanged(<<h, c>>)'
      BY <1>0, <1>10, <2>3, ReleaseChangeStays DEF WakeupInv
    <2>6. ChartEventComes(h) => ChartEventComes(h)'
      BY <2>3, <2>4, <2>5 DEF ChartEventComes
    <2> QED
      BY <1>1, <1>4, <2>3, <2>6
  <1>11. ASSUME NEW g \in Chart, ReconcileChart(g)
         PROVE  Goal
    <2>1. g \in Key /\ g \in processing
      BY <1>11, ReconcileEnds DEF Key
    <2>2. PICK failed \in BOOLEAN : End(g, failed)
      BY <1>11, <2>1, ReconcileEnds
    <2>3. UNCHANGED <<seenCharts, seenReleases, seenClusters, dirty, missed>>
      BY <2>1, <2>2, EndEffect
    <2>4. CASE g # h
      <3>1. Idle(h) /\ h \notin missed
        BY <1>0, <2>1, <2>2, <2>3, <2>4, EndEffect
      <3>2. charts'[h] = charts[h]
        BY <1>11, <2>4, StatusWritten DEF TypeInv, ObjectsOK
      <3>3. \A c \in Cluster : releases'[<<h, c>>] = releases[<<h, c>>]
        BY <1>0, <1>11, <2>4, ChartWritesReleases
      <3> QED
        BY <1>1, <1>3, <1>4, <2>3, <3>1, <3>2, <3>3
    <2>5. CASE g = h
      <3>1. ~End(h, TRUE) /\ h \notin dirty /\ h \notin missed
        BY <1>0, <2>2, <2>3, <2>5, EndEffect
      <3>2. /\ read[h].chart = seenCharts[h]
            /\ seenCharts[h].selector # None => read[h].matching = SeenMatching(h)
        BY <2>1, <2>3, <2>5, <3>1 DEF WakeupInv, ChartsReadCurrent
      <3>3. ChartSeenSettled(h) \/ ChartEventComes(h)'
        BY <1>11, <2>3, <2>5, <3>1, <3>2, ReconcileChartSettles
      <3> QED
        BY <1>4, <2>3, <3>3
    <2> QED
      BY <2>4, <2>5
  <1> HIDE DEF Goal
  <1> QED
    BY <1>5, <1>6, <1>7, <1>8, <1>9, <1>10, <1>11, StepCases DEF Goal

\* So is an idle HelmReleaseProxy.
LEMMA ReleasesCountOnKept ==
    ASSUME TypeInv, WakeupInv, [Next]_vars
    PROVE  ReleasesCountOn'
  <1> SUFFICES ASSUME NEW r \in Release, Idle(r)', r \notin missed', seenReleases'[r] # None
               PROVE  ReleaseSeenSettled(r)' \/ releases'[r] # seenReleases'[r]
    BY DEF ReleasesCountOn
  <1> DEFINE Goal == ReleaseSeenSettled(r)' \/ releases'[r] # seenReleases'[r]
  <1>0. r \in Key
    BY DEF Key
  <1>1. Idle(r) /\ r \notin missed /\ seenReleases[r] # None =>
           ReleaseSeenSettled(r) \/ releases[r] # seenReleases[r]
    BY DEF WakeupInv, ReleasesCountOn
  <1>2. CASE /\ Idle(r) /\ r \notin missed
             /\ releases'[r] = releases[r] /\ seenReleases'[r] = seenReleases[r]
             /\ seenClusters' = seenClusters
    BY <1>1, <1>2 DEF ReleaseSeenSettled
  <1>3. CASE UNCHANGED vars
    BY <1>2, <1>3 DEF vars, objects, informers, queue, Idle
  <1>4. CASE UserStep
    BY <1>2, <1>4, UserEffect DEF Idle
  <1>5. ASSUME NEW k \in Key, Begin(k) \/ Fail(k) \/ Retry(k) \/ Resync(k)
        PROVE  Goal
    BY <1>0, <1>2, <1>5, QueueEffect
  <1>6. CASE DeliverStep
    <2>1. Idle(r) /\ r \notin missed /\ releases' = releases
      BY <1>0, <1>6, DeliverEffect
    <2>2. r \notin dirty'
      BY DEF Idle
    <2>3. ASSUME NEW h \in Chart, DeliverChart(h)
          PROVE  Goal
      BY <1>2, <2>1, <2>3 DEF DeliverChart
    <2>4. ASSUME NEW q \in Release, DeliverRelease(q)
          PROVE  Goal
      <3>1. q # r
        BY <2>2, <2>4 DEF DeliverRelease, Add
      <3> QED
        BY <1>2, <2>1, <2>4, <3>1 DEF DeliverRelease, TypeInv, InformersOK
    <2>5. ASSUME NEW c \in Cluster, DeliverCluster(c)
          PROVE  Goal
      <3>1. seenReleases' = seenReleases
        BY <2>5 DEF DeliverCluster
      <3>2. Phase(seenClusters[r[2]]) \in {"gone", "false"} => Phase(seenClusters'[r[2]]) \in {"gone", "false"}
        BY <2>2, <2>5, <3>1, ClusterTellsReleases DEF WakeupInv
      <3>3. ReleaseSeenSettled(r) => ReleaseSeenSettled(r)'
        BY <3>1, <3>2 DEF ReleaseSeenSettled, Phase
      <3> QED
        BY <1>1, <2>1, <3>1, <3>3
    <2> QED
      BY <1>6, <2>3, <2>4, <2>5 DEF DeliverStep
  <1>7. CASE Restart
    BY <1>7 DEF Restart, Idle
  <1>8. ASSUME NEW h \in Chart, ReconcileChart(h)
        PROVE  Goal
    <2>1. h \in Key /\ h # r
      BY KeysAreTold DEF Key
    <2>2. PICK failed \in BOOLEAN : End(h, failed)
      BY <1>8, <2>1, ReconcileEnds
    <2>3. Idle(r) /\ r \notin missed /\ UNCHANGED <<seenReleases, seenClusters>>
      BY <1>0, <2>1, <2>2, EndEffect
    <2>4. CASE releases'[r] = releases[r]
      BY <1>2, <2>3, <2>4
    <2>5. CASE releases'[r] = Deleted(releases[r])
      <3>1. CASE ReleaseSeenSettled(r)
        BY <2>3, <3>1 DEF ReleaseSeenSettled
      <3>2. CASE releases[r] # seenReleases[r]
        <4>1. seenReleases[r] = "deleting" => releases[r] = None
          BY <3>2 DEF WakeupInv, ReleasesInOrder
        <4>2. /\ releases'[r] \in {None, "deleting"}
              /\ releases[r] = None => releases'[r] = None
          BY <2>5 DEF Deleted
        <4> QED
          BY <2>3, <4>1, <4>2
      <3> QED
        BY <1>1, <2>3, <3>1, <3>2
    <2> QED
      BY <1>8, <2>3, <2>4, <2>5, ChartWritesReleases
  <1>9. ASSUME NEW q \in Release, ReconcileRelease(q)
        PROVE  Goal
    <2>1. q \in Key /\ q \in processing
      BY <1>9, ReconcileEnds DEF Key
    <2>2. PICK failed \in BOOLEAN : End(q, failed)
      BY <1>9, <2>1, ReconcileEnds
    <2>3. UNCHANGED <<seenReleases, seenClusters, dirty, missed>>
      BY <2>1, <2>2, EndEffect
    <2>4. CASE q # r
      <3>1. Idle(r) /\ releases'[r] = releases[r]
        BY <1>0, <1>9, <2>1, <2>2, <2>4, EndEffect, ReleaseWrites
      <3> QED
        BY <1>2, <2>3, <3>1
    <2>5. CASE q = r
      <3>1. ~End(r, TRUE) /\ r \notin dirty /\ r \notin missed
        BY <1>0, <2>2, <2>3, <2>5, EndEffect
      <3>2. /\ read[r].release = seenReleases[r]
            /\ Phase(read[r].cluster) = "false" => Phase(seenClusters[r[2]]) \in {"gone", "false"}
        BY <2>1, <2>3, <2>5, <3>1 DEF WakeupInv, ReleasesReadCurrent
      <3>3. releases \in [Release -> HelmReleaseProxy \union {None}]
        BY DEF TypeInv, ObjectsOK
      <3>4. CASE read[r].release = "deleting"
        <4>1. releases'[r] = None
          BY <1>9, <2>3, <2>5, <3>1, <3>2, <3>3, <3>4 DEF ReconcileRelease
        <4> QED
          BY <4>1
      <3>5. CASE read[r].release # "deleting"
        <4>1. \E condition \in {"waiting", "ready"} :
                 /\ releases'[r] = IF releases[r] \in {None, "deleting"} THEN releases[r] ELSE condition
                 /\ condition = "waiting" => Phase(read[r].cluster) = "false"
          BY <1>9, <2>3, <2>5, <3>1, <3>2, <3>3, <3>5 DEF ReconcileRelease
        <4>2. CASE releases'[r] \in {None, "deleting"}
          BY <2>3, <3>2, <3>5, <4>2
        <4>3. CASE releases'[r] = "ready"
          BY <4>3 DEF ReleaseSeenSettled
        <4>4. CASE releases'[r] = "waiting" /\ Phase(read[r].cluster) = "false"
          <5>1. Phase(seenClusters'[r[2]]) \in {"gone", "false"}
            BY <2>3, <3>2, <4>4
          <5> QED
            BY <4>4, <5>1 DEF ReleaseSeenSettled, Phase
        <4> QED
          BY <4>1, <4>2, <4>3, <4>4
      <3> QED
        BY <3>4, <3>5
    <2> QED
      BY <2>4, <2>5
  <1> HIDE DEF Goal
  <1> QED
    BY <1>3, <1>4, <1>5, <1>6, <1>7, <1>8, <1>9, StepCases DEF Goal

-----------------------------------------------------------------------------
(* Nothing is lost.                                                        *)

\* At every moment an object that nobody is going to reconcile is settled, as far as the
\* informers know, or an event is on its way that will queue it; and a reconcile that
\* will not be repeated works on what the informers have.
THEOREM WakeupInvariance == Spec => []WakeupInv
  <1>1. Init => WakeupInv
    <2> SUFFICES ASSUME Init
                 PROVE  WakeupInv
      OBVIOUS
    <2>1. ChartsCountOn
      BY DEF Init, ChartsCountOn, Idle
    <2>2. ReleasesCountOn /\ ReleasesInOrder
      BY NoneIsNoObject DEF Init, ReleasesCountOn, ReleasesInOrder, HelmReleaseProxy
    <2>3. ChartsReadCurrent /\ ReleasesReadCurrent
      BY DEF Init, ChartsReadCurrent, ReleasesReadCurrent
    <2>4. PhasesInOrder
      BY DEF Init, PhasesInOrder
    <2> QED
      BY <2>1, <2>2, <2>3, <2>4 DEF WakeupInv
  <1>2. TypeInv /\ WakeupInv /\ [Next]_vars => WakeupInv'
    BY ChartsCountOnKept, ReleasesCountOnKept, ChartsReadCurrentKept, ReleasesReadCurrentKept,
       ReleasesInOrderKept, PhasesInOrderKept DEF WakeupInv
  <1> QED
    BY <1>1, <1>2, TypeCorrect, TypeOKParts, PTL DEF Spec

\* Whatever the order of changes, events, reconciles, errors and restarts: once the
\* informers have caught up, an object nobody is going to reconcile is as a reconcile
\* would leave it, unless a paused Cluster or an unparsable selector kept an event from it.
THEOREM NothingIsLost == Spec => []NoLostWakeup
  <1>1. TypeInv /\ WakeupInv => NoLostWakeup
    <2> SUFFICES ASSUME TypeInv, WakeupInv,
                        seenCharts = charts, seenReleases = releases, seenClusters = clusters
                 PROVE  /\ \A h \in Chart : Idle(h) /\ h \notin missed /\ charts[h] # None
                                              => ChartSettled(h)
                        /\ \A r \in Release : Idle(r) /\ r \notin missed /\ releases[r] # None
                                              => ReleaseSettled(r)
      BY DEF NoLostWakeup
    <2>1. ASSUME NEW h \in Chart, Idle(h), h \notin missed, charts[h] # None
          PROVE  ChartSettled(h)
      <3>1. ~ChartEventComes(h)
        BY <2>1, NoneIsNoObject DEF ChartEventComes, ReleaseChanged, HelmReleaseProxy
      <3>2. ChartSeenSettled(h)
        BY <2>1, <3>1 DEF WakeupInv, ChartsCountOn
      <3> QED
        BY <3>2 DEF ChartSeenSettled, ChartSettled, SeenMatching
    <2>2. ASSUME NEW r \in Release, Idle(r), r \notin missed, releases[r] # None
          PROVE  ReleaseSettled(r)
      <3>1. ReleaseSeenSettled(r)
        BY <2>2 DEF WakeupInv, ReleasesCountOn
      <3> QED
        BY <3>1 DEF ReleaseSeenSettled, ReleaseSettled
    <2> QED
      BY <2>1, <2>2
  <1> QED
    BY <1>1, TypeCorrect, TypeOKParts, WakeupInvariance, PTL
=============================================================================
