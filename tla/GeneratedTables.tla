--------------------------- MODULE GeneratedTables ---------------------------
(* The four factories of pkg/generated.                                    *)
EXTENDS GeneratedShapes

Kube == INSTANCE KubeInformers
Istio == INSTANCE IstioInformers
Gateway == INSTANCE GatewayInformers
Route == INSTANCE RouteInformers

PkgGenerated == {
    [groups |-> Kube!FactoryGroups, cases |-> Kube!ForResourceCases],
    [groups |-> Istio!FactoryGroups, cases |-> Istio!ForResourceCases],
    [groups |-> Gateway!FactoryGroups, cases |-> Gateway!ForResourceCases],
    [groups |-> Route!FactoryGroups, cases |-> Route!ForResourceCases]}
=============================================================================
