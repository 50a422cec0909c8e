------------------------------- MODULE TempFiles -------------------------------
(***************************************************************************)
(* The temporary files of the HelmReleaseProxy controller                  *)
(* (controllers/helmreleaseproxy/helmreleaseproxy_controller.go and        *)
(* internal/helm_client.go).  A reconcile writes registry credentials and  *)
(* a CA certificate out of Secrets, and the values, to files in a common   *)
(* directory, gives Helm their names, and removes them when it returns, on *)
(* whichever path it returns.  Workers reconcile side by side.             *)
(*                                                                         *)
(* HelmReleaseProxy has what such a reconcile does to its object and to    *)
(* the release; here only its files count.                                 *)
(***************************************************************************)
CONSTANTS
    Worker,  \* workers of the controller
    Path,    \* file names; when all are taken, the directory is full
    None     \* "no value"

Secret == {"credentials", "ca"}
Kind == Secret \union {"values"}

File == [owner : Worker, kind : Kind, complete : BOOLEAN]

ASSUME ConstantsAssumption == None \notin Worker \union Path \union File

VARIABLES
    disk,    \* the files in the temporary directory
    step,    \* next step of each worker
    wanted,  \* the Secrets its HelmReleaseProxy refers to
    kind,    \* the file it is about to write
    opened,  \* the file it has created and not yet written
    held,    \* the files it has written and deferred the removal of
    leaked   \* files a failure left behind (history)

vars == <<disk, step, wanted, kind, opened, held, leaked>>

Step == {"idle", "get", "create", "write", "client", "locate", "run", "unwind"}

NothingHeld == [k \in Kind |-> None]

\* Every variable has its type; a worker has a file open exactly to write to it, and
\* has nothing left to remove when it is done.
TypeOK ==
    /\ disk \in [Path -> File \union {None}]
    /\ step \in [Worker -> Step]
    /\ wanted \in [Worker -> SUBSET Secret]
    /\ kind \in [Worker -> Kind]
    /\ opened \in [Worker -> Path \union {None}]
    /\ held \in [Worker -> [Kind -> Path \union {None}]]
    /\ leaked \subseteq Path
    /\ \A w \in Worker : /\ step[w] = "write" <=> opened[w] # None
                         /\ step[w] = "idle" => held[w] = NothingHeld
                         /\ step[w] = "get" => kind[w] \in Secret
                         /\ step[w] = "idle" => kind[w] = "credentials"

Init ==
    /\ disk = [p \in Path |-> None]
    /\ step = [w \in Worker |-> "idle"]
    /\ wanted = [w \in Worker |-> {}]
    /\ kind = [w \in Worker |-> "credentials"]
    /\ opened = [w \in Worker |-> None]
    /\ held = [w \in Worker |-> NothingHeld]
    /\ leaked = {}

Goto(w, next) == step' = [step EXCEPT ![w] = next]

-----------------------------------------------------------------------------
(* One reconcile.  Any of its calls may fail: it then returns.             *)

Reconcile(w, secrets) ==
    /\ step[w] = "idle"
    /\ Goto(w, "get")
    /\ wanted' = [wanted EXCEPT ![w] = secrets]
    /\ UNCHANGED <<disk, kind, opened, held, leaked>>

\* Where a worker goes once it is done with a file.
NextAfter(k) == CASE k = "credentials" -> "get" [] k = "ca" -> "client" [] k = "values" -> "run"

Advance(w) ==
    /\ Goto(w, NextAfter(kind[w]))
    /\ kind' = [kind EXCEPT ![w] = IF @ = "credentials" THEN "ca" ELSE @]

\* Mutant: removals are registered only once both files are there.
GetSecret_undeferred(w) ==
    /\ step[w] = "get"
    /\ \/ /\ kind[w] \notin wanted[w]
          /\ Advance(w)
          /\ UNCHANGED held
       \/ /\ kind[w] \in wanted[w]
          /\ Goto(w, "create")
          /\ UNCHANGED <<kind, held>>
       \/ /\ kind[w] \in wanted[w]
          /\ Goto(w, "unwind")
          /\ held' = [held EXCEPT ![w] = NothingHeld]
          /\ UNCHANGED kind
    /\ UNCHANGED <<disk, wanted, opened, leaked>>

\* getCredentials, then getCAFile: read the Secret, if there is a reference to one.
GetSecret(w) ==
    /\ step[w] = "get"
    /\ \/ /\ kind[w] \notin wanted[w]
          /\ Advance(w)
       \/ /\ kind[w] \in wanted[w]
          /\ Goto(w, "create") \/ Goto(w, "unwind")
          /\ UNCHANGED kind
    /\ UNCHANGED <<disk, wanted, opened, held, leaked>>

\* Mutant: the name does not depend on what is there.
Free_any == Path

\* Names CreateTemp may choose.
Free == {p \in Path : disk[p] = None}

\* os.CreateTemp
CreateTemp(w) ==
    /\ step[w] = "create"
    /\ \/ \E p \in Free :
            /\ disk' = [disk EXCEPT ![p] = [owner |-> w, kind |-> kind[w], complete |-> FALSE]]
            /\ opened' = [opened EXCEPT ![w] = p]
            /\ Goto(w, "write")
       \/ /\ Goto(w, "unwind")
          /\ UNCHANGED <<disk, opened>>
    /\ UNCHANGED <<wanted, kind, held, leaked>>

\* File.Write.  If it fails the name is not returned, and nobody removes the file.
Write(w) ==
    LET p == opened[w] IN
    /\ step[w] = "write"
    /\ opened' = [opened EXCEPT ![w] = None]
    /\ \/ /\ disk' = [disk EXCEPT ![p] = [owner |-> w, kind |-> kind[w], complete |-> TRUE]]
          /\ held' = [held EXCEPT ![w][kind[w]] = p]
          /\ Advance(w)
          /\ UNCHANGED leaked
       \/ /\ Goto(w, "unwind")
          /\ leaked' = leaked \union {p}
          /\ UNCHANGED <<disk, kind, held>>
    /\ UNCHANGED wanted

\* reconcileNormal up to the registry client, which reads the CA file.  It returns at
\* once if there is nothing to do.
NewRegistryClient(w) ==
    /\ step[w] = "client"
    /\ Goto(w, "locate") \/ Goto(w, "unwind")
    /\ UNCHANGED <<disk, wanted, kind, opened, held, leaked>>

\* LocateChart reads the credentials; the values are written next.
LocateChart(w) ==
    /\ step[w] = "locate"
    /\ Goto(w, "create") \/ Goto(w, "unwind")
    /\ kind' = [kind EXCEPT ![w] = "values"]
    /\ UNCHANGED <<disk, wanted, opened, held, leaked>>

\* MergeValues, and the install or upgrade, whatever comes of it.
Run(w) ==
    /\ step[w] = "run"
    /\ Goto(w, "unwind")
    /\ UNCHANGED <<disk, wanted, kind, opened, held, leaked>>

\* Deferred calls run in reverse order.
Last(w, k) ==
    CASE k = "values"      -> TRUE
      [] k = "ca"          -> held[w]["values"] = None
      [] k = "credentials" -> held[w]["values"] = None /\ held[w]["ca"] = None

\* os.Remove.  That it fails is only logged.
Remove(w, k) ==
    LET p == held[w][k] IN
    /\ step[w] = "unwind"
    /\ p # None
    /\ Last(w, k)
    /\ held' = [held EXCEPT ![w][k] = None]
    /\ \/ /\ disk' = [disk EXCEPT ![p] = None]
          /\ UNCHANGED leaked
       \/ /\ leaked' = leaked \union {p}
          /\ UNCHANGED disk
    /\ UNCHANGED <<step, wanted, kind, opened>>

\* Mutant: it does not wait for the removal of the credentials.
Return_early(w) ==
    /\ step[w] = "unwind"
    /\ held[w]["values"] = None /\ held[w]["ca"] = None
    /\ Goto(w, "idle")
    /\ wanted' = [wanted EXCEPT ![w] = {}]
    /\ kind' = [kind EXCEPT ![w] = "credentials"]
    /\ UNCHANGED <<disk, opened, held, leaked>>

Return(w) ==
    /\ step[w] = "unwind"
    /\ held[w] = NothingHeld
    /\ Goto(w, "idle")
    /\ wanted' = [wanted EXCEPT ![w] = {}]
    /\ kind' = [kind EXCEPT ![w] = "credentials"]
    /\ UNCHANGED <<disk, opened, held, leaked>>

\* The process stops.  The directory is a volume of the pod: its files are still
\* there after a restart of the container, and gone with the pod.
Crash ==
    /\ \E w \in Worker : step[w] # "idle"
    /\ step' = [w \in Worker |-> "idle"]
    /\ wanted' = [w \in Worker |-> {}]
    /\ kind' = [w \in Worker |-> "credentials"]
    /\ opened' = [w \in Worker |-> None]
    /\ held' = [w \in Worker |-> NothingHeld]
    /\ \/ /\ disk' = [p \in Path |-> None]
          /\ leaked' = {}
       \/ /\ leaked' = {p \in Path : disk[p] # None}
          /\ UNCHANGED disk

-----------------------------------------------------------------------------
WorkerStep(w) ==
    \/ \E secrets \in SUBSET Secret : Reconcile(w, secrets)
    \/ GetSecret(w) \/ CreateTemp(w) \/ Write(w)
    \/ NewRegistryClient(w) \/ LocateChart(w) \/ Run(w)
    \/ \E k \in Kind : Remove(w, k)
    \/ Return(w)

Next == (\E w \in Worker : WorkerStep(w)) \/ Crash

Spec == Init /\ [][Next]_vars

-----------------------------------------------------------------------------
(* Properties.                                                             *)

\* Somebody will see to the file.
Attended(p) == \E w \in Worker : opened[w] = p \/ \E k \in Kind : held[w][k] = p

\* No file with credentials, a certificate or values stays behind a reconcile,
\* on whichever path that returned, but for one whose writing or removal failed
\* or whose process was stopped.
NoStrayFiles == \A p \in Path : disk[p] # None => p \in leaked \/ Attended(p)

\* What Helm has been given at each step.
InUse(w, k) ==
    \/ k \in wanted[w] /\ step[w] \in {"client", "locate", "run"}
    \/ k = "values" /\ step[w] = "run"

\* A file Helm has been given the name of is there, complete, of the right kind,
\* and the reconcile's own, whatever the other workers create and remove.
FilesWhileUsed ==
    \A w \in Worker, k \in Kind :
        InUse(w, k) =>
            /\ held[w][k] \in Path
            /\ disk[held[w][k]] = [owner |-> w, kind |-> k, complete |-> TRUE]
=============================================================================
