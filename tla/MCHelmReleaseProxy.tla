-------------------------- MODULE MCHelmReleaseProxy --------------------------
(* Small instances of HelmReleaseProxy for TLC.                            *)
EXTENDS HelmReleaseProxyContract, TLC

CONSTANTS p1, p2

OneProxy == {p1}
TwoProxies == {p1, p2}
Faults(crash, request, secret, helm) ==
    [kind \in Fault |-> CASE kind = "crash" -> crash
                          [] kind = "api" -> request
                          [] kind = "secret" -> secret
                          [] kind = "helm" -> helm]
NoFault == Faults(0, 0, 0, 0)
OneCrash == Faults(1, 0, 0, 0)
CrashAndHelm == Faults(1, 0, 0, 1)
OneOfEach == Faults(1, 1, 1, 1)

Symmetry == Permutations(Proxy)
NameSymmetry == Permutations(GeneratedName)
=============================================================================
