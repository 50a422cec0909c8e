--------------------------- MODULE MCHelmChartProxy ---------------------------
(* Small instances of HelmChartProxy.                                      *)
EXTENDS HelmChartProxyContract, TLC

CONSTANTS in, in2, out, chartA, chartB, v1, v2, optA, optB, relA, foreign

Base == [selector |-> Label \ {out}, chart |-> chartA, namespace |-> None, releaseName |-> None,
         content |-> v1, options |-> optA, secret |-> "unset", paused |-> FALSE]

\* From before an upgrade: a Secret of another namespace.
Legacy == {[Base EXCEPT !.namespace = "default", !.secret = foreign]}

\* What users write in a run: first Base, then another version or values, ...
Upgrades == {Base, [Base EXCEPT !.content = v2]}
\* ... a selector that cannot be parsed, ...
BadSelector == {Base, [Base EXCEPT !.selector = None]}
\* ... another chart, ...
Charts == {Base, [Base EXCEPT !.chart = chartB, !.content = v2]}
\* ... a release name, a pause, ...
Edits == Charts \union {[Base EXCEPT !.releaseName = relA], [Base EXCEPT !.paused = TRUE]}
\* ... or other options.
OptionChanges == {Base, [Base EXCEPT !.options = optB]}

AnyChange == Upgrades \union Charts \union BadSelector

Events(count) == [e \in Event |-> IF e \in DOMAIN count THEN count[e] ELSE 0]

Faults == Events([crash |-> 1, api |-> 1, delete |-> 1])
Changes == Events([crash |-> 1, values |-> 1, unready |-> 1, cluster |-> 1])
Settling == Events([cluster |-> 1, delete |-> 1])
Stale == Events([crash |-> 1, delete |-> 1])
NoEvents == Events(<<>>)

Symmetry == Permutations(Proxy) \union Permutations(Cluster)
=============================================================================
