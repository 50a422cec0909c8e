----------------------- MODULE HelmReleaseProxyContract -----------------------
(***************************************************************************)
(* The HelmReleaseProxy controller, working from copies that may be old    *)
(* and writing them back in pieces, implements ReleaseContract.            *)
(***************************************************************************)
EXTENDS HelmReleaseProxy

\* What the owner sees of a HelmReleaseProxy.
OwnersView(o) ==
    [identity    |-> o.cluster,
     spec        |-> <<o.content, o.keepHistory>>,
     releaseName |-> o.releaseName,
     generated   |-> o.generated,
     installed   |-> o.installed,
     finalizer   |-> o.finalizer,
     deleting    |-> o.deleting,
     ready       |-> Ready(o),
     generation  |-> o.generation,
     observed    |-> o.observed]

View ==
    [identity    : Cluster,
     spec        : Content \X BOOLEAN,
     releaseName : Name \union {None},
     generated   : BOOLEAN,
     installed   : BOOLEAN,
     finalizer   : BOOLEAN,
     deleting    : BOOLEAN,
     ready       : BOOLEAN,
     generation  : Nat,
     observed    : Nat]

ASSUME NoneIsNoView == None \notin View

Contract == INSTANCE ReleaseContract WITH
    objects <- [p \in Proxy |-> IF Exists(p) THEN OwnersView(api[p]) ELSE None]

\* Whatever copy a worker started from and whichever of its requests got
\* through: the finalizer is only taken from an object under deletion, the
\* annotations are never lost, a name from a spec is never overwritten, the
\* spec is the owner's alone, and the status is never about a generation that
\* was not written.
KeepsContract == Contract!Spec
=============================================================================
