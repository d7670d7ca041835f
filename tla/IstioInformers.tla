--------------------------- MODULE IstioInformers ---------------------------
(***************************************************************************)
(* What pkg/generated/istio consists of, file by file, in the form that    *)
(* KubeWorkloadInformers explains.                                         *)
(***************************************************************************)
EXTENDS GeneratedShapes

extensions_v1alpha1_wasmPlugin ==
    PerNamespace("extensions/v1alpha1", "wasmplugins", "WasmPlugin")
extensions_v1alpha1 == [
    WasmPlugins |-> OnSet(extensions_v1alpha1_wasmPlugin)]
extensions_v1alpha1_cases == Cases("extensions/v1alpha1", "Extensions", "V1alpha1", [
    wasmplugins |-> "WasmPlugins"])

extensions == [V1alpha1 |-> extensions_v1alpha1]

networking_v1alpha3_destinationRule ==
    PerNamespace("networking/v1alpha3", "destinationrules", "DestinationRule")
networking_v1alpha3_envoyFilter ==
    PerNamespace("networking/v1alpha3", "envoyfilters", "EnvoyFilter")
networking_v1alpha3_gateway == PerNamespace("networking/v1alpha3", "gateways", "Gateway")
networking_v1alpha3_serviceEntry ==
    PerNamespace("networking/v1alpha3", "serviceentries", "ServiceEntry")
networking_v1alpha3_sidecar == PerNamespace("networking/v1alpha3", "sidecars", "Sidecar")
networking_v1alpha3_virtualService ==
    PerNamespace("networking/v1alpha3", "virtualservices", "VirtualService")
networking_v1alpha3_workloadEntry ==
    PerNamespace("networking/v1alpha3", "workloadentries", "WorkloadEntry")
networking_v1alpha3_workloadGroup ==
    PerNamespace("networking/v1alpha3", "workloadgroups", "WorkloadGroup")
networking_v1alpha3 == [
    DestinationRules |-> OnSet(networking_v1alpha3_destinationRule),
    EnvoyFilters |-> OnSet(networking_v1alpha3_envoyFilter),
    Gateways |-> OnSet(networking_v1alpha3_gateway),
    ServiceEntries |-> OnSet(networking_v1alpha3_serviceEntry),
    Sidecars |-> OnSet(networking_v1alpha3_sidecar),
    VirtualServices |-> OnSet(networking_v1alpha3_virtualService),
    WorkloadEntries |-> OnSet(networking_v1alpha3_workloadEntry),
    WorkloadGroups |-> OnSet(networking_v1alpha3_workloadGroup)]
networking_v1alpha3_cases == Cases("networking/v1alpha3", "Networking", "V1alpha3", [
    destinationrules |-> "DestinationRules", envoyfilters |-> "EnvoyFilters",
    gateways |-> "Gateways", serviceentries |-> "ServiceEntries",
    sidecars |-> "Sidecars", virtualservices |-> "VirtualServices",
    workloadentries |-> "WorkloadEntries", workloadgroups |-> "WorkloadGroups"])

networking_v1beta1_destinationRule ==
    PerNamespace("networking/v1beta1", "destinationrules", "DestinationRule")
networking_v1beta1_gateway == PerNamespace("networking/v1beta1", "gateways", "Gateway")
networking_v1beta1_proxyConfig ==
    PerNamespace("networking/v1beta1", "proxyconfigs", "ProxyConfig")
networking_v1beta1_serviceEntry ==
    PerNamespace("networking/v1beta1", "serviceentries", "ServiceEntry")
networking_v1beta1_sidecar == PerNamespace("networking/v1beta1", "sidecars", "Sidecar")
networking_v1beta1_virtualService ==
    PerNamespace("networking/v1beta1", "virtualservices", "VirtualService")
networking_v1beta1_workloadEntry ==
    PerNamespace("networking/v1beta1", "workloadentries", "WorkloadEntry")
networking_v1beta1_workloadGroup ==
    PerNamespace("networking/v1beta1", "workloadgroups", "WorkloadGroup")
networking_v1beta1 == [
    DestinationRules |-> OnSet(networking_v1beta1_destinationRule),
    Gateways |-> OnSet(networking_v1beta1_gateway),
    ProxyConfigs |-> OnSet(networking_v1beta1_proxyConfig),
    ServiceEntries |-> OnSet(networking_v1beta1_serviceEntry),
    Sidecars |-> OnSet(networking_v1beta1_sidecar),
    VirtualServices |-> OnSet(networking_v1beta1_virtualService),
    WorkloadEntries |-> OnSet(networking_v1beta1_workloadEntry),
    WorkloadGroups |-> OnSet(networking_v1beta1_workloadGroup)]
networking_v1beta1_cases == Cases("networking/v1beta1", "Networking", "V1beta1", [
    destinationrules |-> "DestinationRules", gateways |-> "Gateways",
    proxyconfigs |-> "ProxyConfigs", serviceentries |-> "ServiceEntries",
    sidecars |-> "Sidecars", virtualservices |-> "VirtualServices",
    workloadentries |-> "WorkloadEntries", workloadgroups |-> "WorkloadGroups"])

networking == [V1alpha3 |-> networking_v1alpha3, V1beta1 |-> networking_v1beta1]

security_v1beta1_authorizationPolicy ==
    PerNamespace("security/v1beta1", "authorizationpolicies", "AuthorizationPolicy")
security_v1beta1_peerAuthentication ==
    PerNamespace("security/v1beta1", "peerauthentications", "PeerAuthentication")
security_v1beta1_requestAuthentication ==
    PerNamespace("security/v1beta1", "requestauthentications", "RequestAuthentication")
security_v1beta1 == [
    AuthorizationPolicies |-> OnSet(security_v1beta1_authorizationPolicy),
    PeerAuthentications |-> OnSet(security_v1beta1_peerAuthentication),
    RequestAuthentications |-> OnSet(security_v1beta1_requestAuthentication)]
security_v1beta1_cases == Cases("security/v1beta1", "Security", "V1beta1", [
    authorizationpolicies |-> "AuthorizationPolicies",
    peerauthentications |-> "PeerAuthentications",
    requestauthentications |-> "RequestAuthentications"])

security_v1_authorizationPolicy ==
    PerNamespace("security/v1", "authorizationpolicies", "AuthorizationPolicy")
security_v1_requestAuthentication ==
    PerNamespace("security/v1", "requestauthentications", "RequestAuthentication")
security_v1 == [
    AuthorizationPolicies |-> OnSet(security_v1_authorizationPolicy),
    RequestAuthentications |-> OnSet(security_v1_requestAuthentication)]
security_v1_cases == Cases("security/v1", "Security", "V1", [
    authorizationpolicies |-> "AuthorizationPolicies",
    requestauthentications |-> "RequestAuthentications"])

security == [V1beta1 |-> security_v1beta1, V1 |-> security_v1]

telemetry_v1alpha1_telemetry == PerNamespace("telemetry/v1alpha1", "telemetries", "Telemetry")
telemetry_v1alpha1 == [
    Telemetries |-> OnSet(telemetry_v1alpha1_telemetry)]
telemetry_v1alpha1_cases == Cases("telemetry/v1alpha1", "Telemetry", "V1alpha1", [
    telemetries |-> "Telemetries"])

telemetry == [V1alpha1 |-> telemetry_v1alpha1]

-----------------------------------------------------------------------------
FactoryGroups == [
    Extensions |-> extensions, Networking |-> networking, Security |-> security,
    Telemetry |-> telemetry]

ForResourceCases == UNION {
    extensions_v1alpha1_cases, networking_v1alpha3_cases, networking_v1beta1_cases,
    security_v1beta1_cases, security_v1_cases, telemetry_v1alpha1_cases}
=============================================================================
