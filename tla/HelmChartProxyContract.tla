------------------------ MODULE HelmChartProxyContract ------------------------
(***************************************************************************)
(* The HelmChartProxy controller, and the environment HelmChartProxy gives *)
(* it, implement ReleaseContract.                                          *)
(***************************************************************************)
EXTENDS HelmChartProxy

\* What the two controllers see of a HelmReleaseProxy.
SharedView(h) ==
    [identity    |-> <<h.cluster, h.chart, h.namespace>>,
     spec        |-> <<h.content, h.values, h.options, h.secret>>,
     releaseName |-> h.releaseName,
     generated   |-> h.generated,
     installed   |-> h.installed,
     finalizer   |-> h.finalizer,
     deleting    |-> h.deleting,
     ready       |-> h.ready,
     generation  |-> h.generation,
     observed    |-> h.observed]

View ==
    [identity    : Cluster \X Chart \X ReleaseNamespace,
     spec        : Content \X Label \X Options \X SecretReference,
     releaseName : ReleaseName,
     generated   : BOOLEAN,
     installed   : BOOLEAN,
     finalizer   : BOOLEAN,
     deleting    : BOOLEAN,
     ready       : BOOLEAN,
     generation  : Nat,
     observed    : Nat]

ASSUME NoneIsNoView == None \notin View

Contract == INSTANCE ReleaseContract WITH
    GeneratedName <- {GeneratedName},
    objects <- [p \in Proxy |-> IF Exists(p) THEN SharedView(proxies[p]) ELSE None]

\* However old the copy was that the worker decided on, what it writes is the
\* owner's part of the object and nothing else: the annotations, the finalizer,
\* the generated name and the status of the other controller are not lost, the
\* fields that cannot change do not, and what InstallOnce has installed stays as
\* it is.
KeepsContract == Contract!Spec
=============================================================================
