-------------------------- MODULE GatewayInformers --------------------------
(***************************************************************************)
(* What pkg/generated/gatewayapi consists of, file by file, in the form    *)
(* that KubeWorkloadInformers explains. The client calls its one group     *)
(* Gateway, whose package is apis.                                         *)
(***************************************************************************)
EXTENDS GeneratedShapes

apis_v1alpha2_gRPCRoute == PerNamespace("apis/v1alpha2", "grpcroutes", "GRPCRoute")
apis_v1alpha2_gateway == PerNamespace("apis/v1alpha2", "gateways", "Gateway")
apis_v1alpha2_gatewayClass == ClusterWide("apis/v1alpha2", "gatewayclasses", "GatewayClass")
apis_v1alpha2_hTTPRoute == PerNamespace("apis/v1alpha2", "httproutes", "HTTPRoute")
apis_v1alpha2_referenceGrant ==
    PerNamespace("apis/v1alpha2", "referencegrants", "ReferenceGrant")
apis_v1alpha2_tCPRoute == PerNamespace("apis/v1alpha2", "tcproutes", "TCPRoute")
apis_v1alpha2_tLSRoute == PerNamespace("apis/v1alpha2", "tlsroutes", "TLSRoute")
apis_v1alpha2_uDPRoute == PerNamespace("apis/v1alpha2", "udproutes", "UDPRoute")
apis_v1alpha2 == [
    GRPCRoutes |-> OnSet(apis_v1alpha2_gRPCRoute),
    Gateways |-> OnSet(apis_v1alpha2_gateway),
    GatewayClasses |-> apis_v1alpha2_gatewayClass,
    HTTPRoutes |-> OnSet(apis_v1alpha2_hTTPRoute),
    ReferenceGrants |-> OnSet(apis_v1alpha2_referenceGrant),
    TCPRoutes |-> OnSet(apis_v1alpha2_tCPRoute),
    TLSRoutes |-> OnSet(apis_v1alpha2_tLSRoute),
    UDPRoutes |-> OnSet(apis_v1alpha2_uDPRoute)]
apis_v1alpha2_cases == Cases("apis/v1alpha2", "Gateway", "V1alpha2", [
    grpcroutes |-> "GRPCRoutes", gateways |-> "Gateways",
    gatewayclasses |-> "GatewayClasses", httproutes |-> "HTTPRoutes",
    referencegrants |-> "ReferenceGrants", tcproutes |-> "TCPRoutes",
    tlsroutes |-> "TLSRoutes", udproutes |-> "UDPRoutes"])

apis_v1beta1_gateway == PerNamespace("apis/v1beta1", "gateways", "Gateway")
apis_v1beta1_gatewayClass == ClusterWide("apis/v1beta1", "gatewayclasses", "GatewayClass")
apis_v1beta1_hTTPRoute == PerNamespace("apis/v1beta1", "httproutes", "HTTPRoute")
apis_v1beta1_referenceGrant == PerNamespace("apis/v1beta1", "referencegrants", "ReferenceGrant")
apis_v1beta1 == [
    Gateways |-> OnSet(apis_v1beta1_gateway),
    GatewayClasses |-> apis_v1beta1_gatewayClass,
    HTTPRoutes |-> OnSet(apis_v1beta1_hTTPRoute),
    ReferenceGrants |-> OnSet(apis_v1beta1_referenceGrant)]

\* Mutant: a type that was added later has no case.
apis_v1beta1_cases_Older == Cases("apis/v1beta1", "Gateway", "V1beta1", [
    gateways |-> "Gateways", gatewayclasses |-> "GatewayClasses",
    httproutes |-> "HTTPRoutes"])

apis_v1beta1_cases == Cases("apis/v1beta1", "Gateway", "V1beta1", [
    gateways |-> "Gateways", gatewayclasses |-> "GatewayClasses",
    httproutes |-> "HTTPRoutes", referencegrants |-> "ReferenceGrants"])

apis == [V1alpha2 |-> apis_v1alpha2, V1beta1 |-> apis_v1beta1]

-----------------------------------------------------------------------------
FactoryGroups == [
    Gateway |-> apis]

ForResourceCases == UNION {
    apis_v1alpha2_cases, apis_v1beta1_cases}
=============================================================================
