------------------------------- MODULE Webhooks -------------------------------
(***************************************************************************)
(* The admission webhooks of both kinds of objects                         *)
(* (api/v1alpha1/helmchartproxy_webhook.go, helmreleaseproxy_webhook.go).  *)
(* The API server calls them for every create and update of an object,     *)
(* those of the controllers included, but not for its status.              *)
(*                                                                         *)
(* What they refuse they refuse to the controllers as well: a finalizer    *)
(* can only be removed from an object that would be admitted as it is.     *)
(***************************************************************************)
CONSTANTS
    None,           \* "no value"
    InvalidURL,     \* charts of repositories whose URL is not absolute HTTPS or OCI
    ForeignSecret   \* references to Secrets of other namespaces

\* References to a Secret: none, without a namespace, in the object's namespace, or not.
SecretReference == {None, "unset", "own"} \union ForeignSecret

ReleaseNamespace == {None, "default", "other"}

\* Only the release namespace is followed here; Wait and Timeout are in Options.
Default(spec) == [spec EXCEPT !.namespace = IF @ = None THEN "default" ELSE @]

isUrlValid(chart) == chart \notin InvalidURL

\* Mutant: a foreign reference is refused even if it was there before.
validateSecretReferences_always(old, new) == new.secret \notin ForeignSecret

\* A foreign reference is only accepted where it already was.
validateSecretReferences(old, new) ==
    new.secret \in ForeignSecret => old # None /\ old.secret = new.secret

\* HelmChartProxies.  ReconcileStrategy, which is immutable, is a constant.
ValidateCreate(new) == isUrlValid(new.chart) /\ validateSecretReferences(None, new)

ValidateUpdate(old, new) == isUrlValid(new.chart) /\ validateSecretReferences(old, new)

\* HelmReleaseProxies, to which Default applies as well.
ValidateCreateRelease(new) == isUrlValid(new.chart)

ValidateUpdateRelease(old, new) == new.chart = old.chart /\ new.namespace = old.namespace
=============================================================================
