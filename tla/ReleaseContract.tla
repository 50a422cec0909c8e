---------------------------- MODULE ReleaseContract ----------------------------
(***************************************************************************)
(* What the two controllers promise each other about the HelmReleaseProxy  *)
(* objects they share, and nothing of how they keep it: the HelmChartProxy *)
(* controller owns the objects, the HelmReleaseProxy controller writes     *)
(* their finalizer, annotations, generated name and status.                *)
(*                                                                         *)
(* HelmReleaseProxy and HelmChartProxy each model one side in detail and   *)
(* the other as environment.  Both implement this specification, so that   *)
(* what each of them assumes of the other is what the other does.          *)
(***************************************************************************)
EXTENDS Integers

CONSTANTS
    Proxy,             \* HelmReleaseProxy objects
    UserName,          \* release names users give
    GeneratedName,     \* release names Helm generates
    None,              \* "no value"
    ReconcileStrategy  \* "Continuous" or "InstallOnce"

\* Each object is None, or a record with the fields
\*   identity     the Cluster and the chart: never changed
\*   spec         what the owner may change
\*   releaseName, generated, installed, finalizer, deleting,
\*   ready, generation, observed
VARIABLE objects

Exists(p) == objects[p] # None

\* As the owner makes it.
New(o) ==
    /\ o.releaseName \in UserName \union {None}
    /\ o = [o EXCEPT !.generated = FALSE, !.installed = FALSE, !.finalizer = FALSE,
                     !.deleting = FALSE, !.ready = FALSE,
                     !.generation = 1, !.observed = 0]

\* There may be objects that the owner's predecessor made before an upgrade.
Init == \A p \in Proxy : Exists(p) => New(objects[p])

\* Only p's object changes.
Only(p) == objects' = [objects EXCEPT ![p] = objects'[p]]

-----------------------------------------------------------------------------
(* The owner.                                                              *)

Create(p) ==
    /\ ~Exists(p)
    /\ Exists(p)'
    /\ New(objects'[p])

\* What is installed once is left alone.
Update(p) ==
    LET old == objects[p]
        new == objects'[p]
    IN
    /\ Exists(p)
    /\ Exists(p)'
    /\ ~(ReconcileStrategy = "InstallOnce" /\ old.installed)
    /\ new = [old EXCEPT !.spec = new.spec, !.generation = @ + 1]

\* Without a finalizer the object is gone at once.
Delete(p) ==
    LET old == objects[p] IN
    /\ Exists(p)
    /\ ~old.deleting
    /\ objects'[p] = IF old.finalizer
                       THEN [old EXCEPT !.deleting = TRUE, !.generation = @ + 1]
                       ELSE None

-----------------------------------------------------------------------------
(* The controller.                                                         *)

\* It writes its metadata and its status in one request or in several.  The
\* finalizer stays while the object is not under deletion; an annotation once set
\* stays; a name is recorded only where the user gave none, and marked as such; the
\* status is about a specification that was written.
Serve(p) ==
    LET old == objects[p]
        new == objects'[p]
    IN
    /\ Exists(p)
    /\ Exists(p)'
    /\ new = [old EXCEPT !.finalizer = new.finalizer,
                         !.generated = new.generated,
                         !.installed = new.installed,
                         !.releaseName = new.releaseName,
                         !.generation = IF new.releaseName = old.releaseName THEN @ ELSE @ + 1,
                         !.ready = new.ready,
                         !.observed = new.observed]
    /\ old.finalizer => new.finalizer
    /\ old.generated => new.generated
    /\ old.installed => new.installed
    /\ new.releaseName # old.releaseName =>
          /\ old.releaseName \notin UserName
          /\ new.releaseName \in GeneratedName
          /\ new.generated
    /\ new.observed \in 0 .. new.generation

\* The last finalizer is removed, from an object under deletion only.
Remove(p) ==
    /\ Exists(p)
    /\ objects[p].deleting
    /\ ~Exists(p)'

-----------------------------------------------------------------------------
Owner(p) == Create(p) \/ Update(p) \/ Delete(p)

Controller(p) == Serve(p) \/ Remove(p)

Next == \E p \in Proxy : Only(p) /\ (Owner(p) \/ Controller(p))

Spec == Init /\ [][Next]_objects
=============================================================================
