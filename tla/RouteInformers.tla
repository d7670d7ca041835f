--------------------------- MODULE RouteInformers ---------------------------
(***************************************************************************)
(* What pkg/generated/openshift/route consists of, in the form that        *)
(* KubeWorkloadInformers explains.                                         *)
(***************************************************************************)
EXTENDS GeneratedShapes

route_v1_route == PerNamespace("route/v1", "routes", "Route")
route_v1 == [
    Routes |-> OnSet(route_v1_route)]
route_v1_cases == Cases("route/v1", "Route", "V1", [
    routes |-> "Routes"])

route == [V1 |-> route_v1]

-----------------------------------------------------------------------------
FactoryGroups == [
    Route |-> route]

ForResourceCases == UNION {
    route_v1_cases}
=============================================================================
