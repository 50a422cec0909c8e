------------------------------ MODULE HelmClient ------------------------------
(***************************************************************************)
(* The Helm client of internal/helm_client.go and what it relies on in the *)
(* Helm library: the record of a release's latest revision in a workload   *)
(* cluster, and what each Helm operation does to it.  An operation that    *)
(* changes a release is two writes of that record, one when it begins      *)
(* (pending-install, pending-upgrade, uninstalling) and one when it ends;  *)
(* the process may stop between them.                                      *)
(*                                                                         *)
(* "content" stands for what shouldUpgradeHelmRelease compares: the chart  *)
(* version and the values.  Revision numbers, older revisions, rollbacks   *)
(* and the Atomic option are not represented.                              *)
(***************************************************************************)
CONSTANTS Content,  \* chart version and values, as one value
          None      \* "no value": an empty string, a nil pointer, an absent object

ASSUME NoneIsNotContent == None \notin Content

Status == {"none", "pending-install", "pending-upgrade", "deployed", "failed",
           "uninstalling", "uninstalled"}

Release == [status : Status, content : Content \union {None}]

\* Helm answers ErrReleaseNotFound.
NoRelease == [status |-> "none", content |-> None]

IsPending(status) == status \in {"pending-install", "pending-upgrade"}

\* The chart's resources are, or may be, in the workload cluster.
Live(release) == release # NoRelease /\ release.status # "uninstalled"

-----------------------------------------------------------------------------
(* InstallOrUpgradeHelmRelease and UpgradeHelmReleaseIfChanged.            *)

\* Mutant: the pending status stays.
updateLastReleaseStatus_kept(release) == release

\* A pending status left behind by an interrupted operation is overwritten.
updateLastReleaseStatus(release) == [release EXCEPT !.status = "failed"]

\* Mutant: the version and the values are not compared.
shouldUpgradeHelmRelease_statusOnly(existing, content) == existing.status = "failed"

shouldUpgradeHelmRelease(existing, content) ==
    \/ existing.content # content
    \/ existing.status = "failed"

-----------------------------------------------------------------------------
(* The Helm library.                                                       *)

\* Install refuses a name that has a release, whatever its status.
NameAvailable(release) == release = NoRelease

\* Upgrade refuses a missing release, one that another operation is working
\* on, and one that has no deployed or failed revision to start from.
Upgradable(release) == release.status \in {"deployed", "failed"}

BeginInstall(content) == [status |-> "pending-install", content |-> content]
BeginUpgrade(content) == [status |-> "pending-upgrade", content |-> content]

\* The record is updated at the end of an operation only if it still exists.
Record(release, status, content) ==
    IF release = NoRelease THEN NoRelease
                           ELSE [status |-> status, content |-> content]

\* Uninstall refuses a missing release and, when it is to keep the history,
\* one that is already uninstalled.
Uninstallable(release, keepHistory) ==
    /\ release # NoRelease
    /\ ~(release.status = "uninstalled" /\ keepHistory)

BeginUninstall(release) == [release EXCEPT !.status = "uninstalling"]

EndUninstall(release, keepHistory) ==
    IF keepHistory THEN Record(release, "uninstalled", release.content)
                   ELSE NoRelease
=============================================================================
