------------------------------ MODULE MCManager ------------------------------
(* A small instance of Manager: a HelmChartProxy, a bystander, a Cluster.  *)
EXTENDS Manager, TLC

CONSTANTS h1, h2, c1, in, out

Charts == {h1, h2}

Selectors == {{}, None}

First(selectors, label, annotated, controlPlane) ==
    [selectors |-> selectors,
     clusters |-> [c \in {c1} |-> [label |-> label, annotated |-> annotated,
                                   controlPlane |-> controlPlane]]]

Alone == h1 :> {in}

\* A Cluster that is selected, one that is not, one that is annotated as paused;
\* and a bystander whose selector cannot be parsed.
Starts == {First(Alone, in, FALSE, "unset"), First(Alone, out, FALSE, "false"),
           First(Alone, in, TRUE, "false"),
           First(Alone @@ (h2 :> None), in, FALSE, "false")}
=============================================================================
