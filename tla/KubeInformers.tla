--------------------------- MODULE KubeInformers ----------------------------
(***************************************************************************)
(* What pkg/generated/kube consists of, file by file, in the form that     *)
(* KubeWorkloadInformers explains: the other groups, and at the end what   *)
(* factory.go and generic.go make of all of them.                          *)
(***************************************************************************)
EXTENDS KubeWorkloadInformers

admissionregistration_v1_mutatingWebhookConfiguration ==
    ClusterWide("admissionregistration/v1", "mutatingwebhookconfigurations",
        "MutatingWebhookConfiguration")
admissionregistration_v1_validatingWebhookConfiguration ==
    ClusterWide("admissionregistration/v1", "validatingwebhookconfigurations",
        "ValidatingWebhookConfiguration")
admissionregistration_v1 == [
    MutatingWebhookConfigurations |-> admissionregistration_v1_mutatingWebhookConfiguration,
    ValidatingWebhookConfigurations |-> admissionregistration_v1_validatingWebhookConfiguration]
admissionregistration_v1_cases ==
  Cases("admissionregistration/v1", "Admissionregistration", "V1", [
    mutatingwebhookconfigurations |-> "MutatingWebhookConfigurations",
    validatingwebhookconfigurations |-> "ValidatingWebhookConfigurations"])

admissionregistration_v1alpha1_validatingAdmissionPolicy ==
    ClusterWide("admissionregistration/v1alpha1", "validatingadmissionpolicies",
        "ValidatingAdmissionPolicy")
admissionregistration_v1alpha1_validatingAdmissionPolicyBinding ==
    ClusterWide("admissionregistration/v1alpha1", "validatingadmissionpolicybindings",
        "ValidatingAdmissionPolicyBinding")
admissionregistration_v1alpha1 == [
    ValidatingAdmissionPolicies |-> admissionregistration_v1alpha1_validatingAdmissionPolicy,
    ValidatingAdmissionPolicyBindings |-> admissionregistration_v1alpha1_validatingAdmissionPolicyBinding]
admissionregistration_v1alpha1_cases ==
  Cases("admissionregistration/v1alpha1", "Admissionregistration", "V1alpha1", [
    validatingadmissionpolicies |-> "ValidatingAdmissionPolicies",
    validatingadmissionpolicybindings |-> "ValidatingAdmissionPolicyBindings"])

admissionregistration_v1beta1_mutatingWebhookConfiguration ==
    ClusterWide("admissionregistration/v1beta1", "mutatingwebhookconfigurations",
        "MutatingWebhookConfiguration")
admissionregistration_v1beta1_validatingWebhookConfiguration ==
    ClusterWide("admissionregistration/v1beta1", "validatingwebhookconfigurations",
        "ValidatingWebhookConfiguration")
admissionregistration_v1beta1 == [
    MutatingWebhookConfigurations |-> admissionregistration_v1beta1_mutatingWebhookConfiguration,
    ValidatingWebhookConfigurations |-> admissionregistration_v1beta1_validatingWebhookConfiguration]
admissionregistration_v1beta1_cases ==
  Cases("admissionregistration/v1beta1", "Admissionregistration", "V1beta1", [
    mutatingwebhookconfigurations |-> "MutatingWebhookConfigurations",
    validatingwebhookconfigurations |-> "ValidatingWebhookConfigurations"])

admissionregistration == [V1 |-> admissionregistration_v1, V1alpha1 |-> admissionregistration_v1alpha1,
    V1beta1 |-> admissionregistration_v1beta1]

apiserverinternal_v1alpha1_storageVersion ==
    ClusterWide("apiserverinternal/v1alpha1", "storageversions", "StorageVersion")
apiserverinternal_v1alpha1 == [
    StorageVersions |-> apiserverinternal_v1alpha1_storageVersion]
apiserverinternal_v1alpha1_cases ==
  Cases("apiserverinternal/v1alpha1", "Internal", "V1alpha1", [
    storageversions |-> "StorageVersions"])

apiserverinternal == [V1alpha1 |-> apiserverinternal_v1alpha1]

certificates_v1_certificateSigningRequest ==
    ClusterWide("certificates/v1", "certificatesigningrequests", "CertificateSigningRequest")
certificates_v1 == [
    CertificateSigningRequests |-> certificates_v1_certificateSigningRequest]
certificates_v1_cases == Cases("certificates/v1", "Certificates", "V1", [
    certificatesigningrequests |-> "CertificateSigningRequests"])

certificates_v1alpha1_clusterTrustBundle ==
    ClusterWide("certificates/v1alpha1", "clustertrustbundles", "ClusterTrustBundle")
certificates_v1alpha1 == [
    ClusterTrustBundles |-> certificates_v1alpha1_clusterTrustBundle]
certificates_v1alpha1_cases == Cases("certificates/v1alpha1", "Certificates", "V1alpha1", [
    clustertrustbundles |-> "ClusterTrustBundles"])

certificates_v1beta1_certificateSigningRequest ==
    ClusterWide("certificates/v1beta1", "certificatesigningrequests",
        "CertificateSigningRequest")
certificates_v1beta1 == [
    CertificateSigningRequests |-> certificates_v1beta1_certificateSigningRequest]
certificates_v1beta1_cases == Cases("certificates/v1beta1", "Certificates", "V1beta1", [
    certificatesigningrequests |-> "CertificateSigningRequests"])

certificates == [V1 |-> certificates_v1, V1alpha1 |-> certificates_v1alpha1,
    V1beta1 |-> certificates_v1beta1]

coordination_v1_lease == PerNamespace("coordination/v1", "leases", "Lease")
coordination_v1 == [
    Leases |-> OnSet(coordination_v1_lease)]
coordination_v1_cases == Cases("coordination/v1", "Coordination", "V1", [
    leases |-> "Leases"])

coordination_v1beta1_lease == PerNamespace("coordination/v1beta1", "leases", "Lease")
coordination_v1beta1 == [
    Leases |-> OnSet(coordination_v1beta1_lease)]
coordination_v1beta1_cases == Cases("coordination/v1beta1", "Coordination", "V1beta1", [
    leases |-> "Leases"])

coordination == [V1 |-> coordination_v1, V1beta1 |-> coordination_v1beta1]

flowcontrol_v1alpha1_flowSchema ==
    ClusterWide("flowcontrol/v1alpha1", "flowschemas", "FlowSchema")
flowcontrol_v1alpha1_priorityLevelConfiguration ==
    ClusterWide("flowcontrol/v1alpha1", "prioritylevelconfigurations",
        "PriorityLevelConfiguration")
flowcontrol_v1alpha1 == [
    FlowSchemas |-> flowcontrol_v1alpha1_flowSchema,
    PriorityLevelConfigurations |-> flowcontrol_v1alpha1_priorityLevelConfiguration]
flowcontrol_v1alpha1_cases == Cases("flowcontrol/v1alpha1", "Flowcontrol", "V1alpha1", [
    flowschemas |-> "FlowSchemas",
    prioritylevelconfigurations |-> "PriorityLevelConfigurations"])

flowcontrol_v1beta1_flowSchema ==
    ClusterWide("flowcontrol/v1beta1", "flowschemas", "FlowSchema")
flowcontrol_v1beta1_priorityLevelConfiguration ==
    ClusterWide("flowcontrol/v1beta1", "prioritylevelconfigurations",
        "PriorityLevelConfiguration")
flowcontrol_v1beta1 == [
    FlowSchemas |-> flowcontrol_v1beta1_flowSchema,
    PriorityLevelConfigurations |-> flowcontrol_v1beta1_priorityLevelConfiguration]
flowcontrol_v1beta1_cases == Cases("flowcontrol/v1beta1", "Flowcontrol", "V1beta1", [
    flowschemas |-> "FlowSchemas",
    prioritylevelconfigurations |-> "PriorityLevelConfigurations"])

flowcontrol_v1beta2_flowSchema ==
    ClusterWide("flowcontrol/v1beta2", "flowschemas", "FlowSchema")
flowcontrol_v1beta2_priorityLevelConfiguration ==
    ClusterWide("flowcontrol/v1beta2", "prioritylevelconfigurations",
        "PriorityLevelConfiguration")
flowcontrol_v1beta2 == [
    FlowSchemas |-> flowcontrol_v1beta2_flowSchema,
    PriorityLevelConfigurations |-> flowcontrol_v1beta2_priorityLevelConfiguration]
flowcontrol_v1beta2_cases == Cases("flowcontrol/v1beta2", "Flowcontrol", "V1beta2", [
    flowschemas |-> "FlowSchemas",
    prioritylevelconfigurations |-> "PriorityLevelConfigurations"])

flowcontrol_v1beta3_flowSchema ==
    ClusterWide("flowcontrol/v1beta3", "flowschemas", "FlowSchema")
flowcontrol_v1beta3_priorityLevelConfiguration ==
    ClusterWide("flowcontrol/v1beta3", "prioritylevelconfigurations",
        "PriorityLevelConfiguration")
flowcontrol_v1beta3 == [
    FlowSchemas |-> flowcontrol_v1beta3_flowSchema,
    PriorityLevelConfigurations |-> flowcontrol_v1beta3_priorityLevelConfiguration]
flowcontrol_v1beta3_cases == Cases("flowcontrol/v1beta3", "Flowcontrol", "V1beta3", [
    flowschemas |-> "FlowSchemas",
    prioritylevelconfigurations |-> "PriorityLevelConfigurations"])

flowcontrol == [V1alpha1 |-> flowcontrol_v1alpha1, V1beta1 |-> flowcontrol_v1beta1,
    V1beta2 |-> flowcontrol_v1beta2, V1beta3 |-> flowcontrol_v1beta3]

networking_v1_ingress == PerNamespace("networking/v1", "ingresses", "Ingress")
networking_v1_ingressClass == ClusterWide("networking/v1", "ingressclasses", "IngressClass")
networking_v1_networkPolicy == PerNamespace("networking/v1", "networkpolicies", "NetworkPolicy")
networking_v1 == [
    Ingresses |-> OnSet(networking_v1_ingress),
    IngressClasses |-> networking_v1_ingressClass,
    NetworkPolicies |-> OnSet(networking_v1_networkPolicy)]
networking_v1_cases == Cases("networking/v1", "Networking", "V1", [
    ingresses |-> "Ingresses", ingressclasses |-> "IngressClasses",
    networkpolicies |-> "NetworkPolicies"])

networking_v1alpha1_clusterCIDR ==
    ClusterWide("networking/v1alpha1", "clustercidrs", "ClusterCIDR")
networking_v1alpha1_iPAddress == ClusterWide("networking/v1alpha1", "ipaddresses", "IPAddress")
networking_v1alpha1 == [
    ClusterCIDRs |-> networking_v1alpha1_clusterCIDR,
    IPAddresses |-> networking_v1alpha1_iPAddress]
networking_v1alpha1_cases == Cases("networking/v1alpha1", "Networking", "V1alpha1", [
    clustercidrs |-> "ClusterCIDRs", ipaddresses |-> "IPAddresses"])

networking_v1beta1_ingress == PerNamespace("networking/v1beta1", "ingresses", "Ingress")
networking_v1beta1_ingressClass ==
    ClusterWide("networking/v1beta1", "ingressclasses", "IngressClass")
networking_v1beta1 == [
    Ingresses |-> OnSet(networking_v1beta1_ingress),
    IngressClasses |-> networking_v1beta1_ingressClass]
networking_v1beta1_cases == Cases("networking/v1beta1", "Networking", "V1beta1", [
    ingresses |-> "Ingresses", ingressclasses |-> "IngressClasses"])

networking == [V1 |-> networking_v1, V1alpha1 |-> networking_v1alpha1,
    V1beta1 |-> networking_v1beta1]

node_v1_runtimeClass == ClusterWide("node/v1", "runtimeclasses", "RuntimeClass")
node_v1 == [
    RuntimeClasses |-> node_v1_runtimeClass]
node_v1_cases == Cases("node/v1", "Node", "V1", [
    runtimeclasses |-> "RuntimeClasses"])

node_v1alpha1_runtimeClass == ClusterWide("node/v1alpha1", "runtimeclasses", "RuntimeClass")
node_v1alpha1 == [
    RuntimeClasses |-> node_v1alpha1_runtimeClass]
node_v1alpha1_cases == Cases("node/v1alpha1", "Node", "V1alpha1", [
    runtimeclasses |-> "RuntimeClasses"])

node_v1beta1_runtimeClass == ClusterWide("node/v1beta1", "runtimeclasses", "RuntimeClass")
node_v1beta1 == [
    RuntimeClasses |-> node_v1beta1_runtimeClass]
node_v1beta1_cases == Cases("node/v1beta1", "Node", "V1beta1", [
    runtimeclasses |-> "RuntimeClasses"])

node == [V1 |-> node_v1, V1alpha1 |-> node_v1alpha1, V1beta1 |-> node_v1beta1]

policy_v1_podDisruptionBudget ==
    PerNamespace("policy/v1", "poddisruptionbudgets", "PodDisruptionBudget")
policy_v1 == [
    PodDisruptionBudgets |-> OnSet(policy_v1_podDisruptionBudget)]
policy_v1_cases == Cases("policy/v1", "Policy", "V1", [
    poddisruptionbudgets |-> "PodDisruptionBudgets"])

policy_v1beta1_podDisruptionBudget ==
    PerNamespace("policy/v1beta1", "poddisruptionbudgets", "PodDisruptionBudget")
policy_v1beta1_podSecurityPolicy ==
    ClusterWide("policy/v1beta1", "podsecuritypolicies", "PodSecurityPolicy")
policy_v1beta1 == [
    PodDisruptionBudgets |-> OnSet(policy_v1beta1_podDisruptionBudget),
    PodSecurityPolicies |-> policy_v1beta1_podSecurityPolicy]
policy_v1beta1_cases == Cases("policy/v1beta1", "Policy", "V1beta1", [
    poddisruptionbudgets |-> "PodDisruptionBudgets",
    podsecuritypolicies |-> "PodSecurityPolicies"])

policy == [V1 |-> policy_v1, V1beta1 |-> policy_v1beta1]

rbac_v1_clusterRole == ClusterWide("rbac/v1", "clusterroles", "ClusterRole")
rbac_v1_clusterRoleBinding ==
    ClusterWide("rbac/v1", "clusterrolebindings", "ClusterRoleBinding")
rbac_v1_role == PerNamespace("rbac/v1", "roles", "Role")
rbac_v1_roleBinding == PerNamespace("rbac/v1", "rolebindings", "RoleBinding")
rbac_v1 == [
    ClusterRoles |-> rbac_v1_clusterRole,
    ClusterRoleBindings |-> rbac_v1_clusterRoleBinding,
    Roles |-> OnSet(rbac_v1_role),
    RoleBindings |-> OnSet(rbac_v1_roleBinding)]
rbac_v1_cases == Cases("rbac/v1", "Rbac", "V1", [
    clusterroles |-> "ClusterRoles", clusterrolebindings |-> "ClusterRoleBindings",
    roles |-> "Roles", rolebindings |-> "RoleBindings"])

rbac_v1alpha1_clusterRole == ClusterWide("rbac/v1alpha1", "clusterroles", "ClusterRole")
rbac_v1alpha1_clusterRoleBinding ==
    ClusterWide("rbac/v1alpha1", "clusterrolebindings", "ClusterRoleBinding")
rbac_v1alpha1_role == PerNamespace("rbac/v1alpha1", "roles", "Role")
rbac_v1alpha1_roleBinding == PerNamespace("rbac/v1alpha1", "rolebindings", "RoleBinding")
rbac_v1alpha1 == [
    ClusterRoles |-> rbac_v1alpha1_clusterRole,
    ClusterRoleBindings |-> rbac_v1alpha1_clusterRoleBinding,
    Roles |-> OnSet(rbac_v1alpha1_role),
    RoleBindings |-> OnSet(rbac_v1alpha1_roleBinding)]
rbac_v1alpha1_cases == Cases("rbac/v1alpha1", "Rbac", "V1alpha1", [
    clusterroles |-> "ClusterRoles", clusterrolebindings |-> "ClusterRoleBindings",
    roles |-> "Roles", rolebindings |-> "RoleBindings"])

rbac_v1beta1_clusterRole == ClusterWide("rbac/v1beta1", "clusterroles", "ClusterRole")
rbac_v1beta1_clusterRoleBinding ==
    ClusterWide("rbac/v1beta1", "clusterrolebindings", "ClusterRoleBinding")
rbac_v1beta1_role == PerNamespace("rbac/v1beta1", "roles", "Role")
rbac_v1beta1_roleBinding == PerNamespace("rbac/v1beta1", "rolebindings", "RoleBinding")
rbac_v1beta1 == [
    ClusterRoles |-> rbac_v1beta1_clusterRole,
    ClusterRoleBindings |-> rbac_v1beta1_clusterRoleBinding,
    Roles |-> OnSet(rbac_v1beta1_role),
    RoleBindings |-> OnSet(rbac_v1beta1_roleBinding)]
rbac_v1beta1_cases == Cases("rbac/v1beta1", "Rbac", "V1beta1", [
    clusterroles |-> "ClusterRoles", clusterrolebindings |-> "ClusterRoleBindings",
    roles |-> "Roles", rolebindings |-> "RoleBindings"])

rbac == [V1 |-> rbac_v1, V1alpha1 |-> rbac_v1alpha1, V1beta1 |-> rbac_v1beta1]

resource_v1alpha2_podSchedulingContext ==
    PerNamespace("resource/v1alpha2", "podschedulingcontexts", "PodSchedulingContext")
resource_v1alpha2_resourceClaim ==
    PerNamespace("resource/v1alpha2", "resourceclaims", "ResourceClaim")
resource_v1alpha2_resourceClaimTemplate ==
    PerNamespace("resource/v1alpha2", "resourceclaimtemplates", "ResourceClaimTemplate")
resource_v1alpha2_resourceClass ==
    ClusterWide("resource/v1alpha2", "resourceclasses", "ResourceClass")
resource_v1alpha2 == [
    PodSchedulingContexts |-> OnSet(resource_v1alpha2_podSchedulingContext),
    ResourceClaims |-> OnSet(resource_v1alpha2_resourceClaim),
    ResourceClaimTemplates |-> OnSet(resource_v1alpha2_resourceClaimTemplate),
    ResourceClasses |-> resource_v1alpha2_resourceClass]
resource_v1alpha2_cases == Cases("resource/v1alpha2", "Resource", "V1alpha2", [
    podschedulingcontexts |-> "PodSchedulingContexts",
    resourceclaims |-> "ResourceClaims",
    resourceclaimtemplates |-> "ResourceClaimTemplates",
    resourceclasses |-> "ResourceClasses"])

resource == [V1alpha2 |-> resource_v1alpha2]

storage_v1_cSIDriver == ClusterWide("storage/v1", "csidrivers", "CSIDriver")
storage_v1_cSINode == ClusterWide("storage/v1", "csinodes", "CSINode")
storage_v1_cSIStorageCapacity ==
    PerNamespace("storage/v1", "csistoragecapacities", "CSIStorageCapacity")
storage_v1_storageClass == ClusterWide("storage/v1", "storageclasses", "StorageClass")
storage_v1_volumeAttachment ==
    ClusterWide("storage/v1", "volumeattachments", "VolumeAttachment")
storage_v1 == [
    CSIDrivers |-> storage_v1_cSIDriver,
    CSINodes |-> storage_v1_cSINode,
    CSIStorageCapacities |-> OnSet(storage_v1_cSIStorageCapacity),
    StorageClasses |-> storage_v1_storageClass,
    VolumeAttachments |-> storage_v1_volumeAttachment]
storage_v1_cases == Cases("storage/v1", "Storage", "V1", [
    csidrivers |-> "CSIDrivers", csinodes |-> "CSINodes",
    csistoragecapacities |-> "CSIStorageCapacities",
    storageclasses |-> "StorageClasses", volumeattachments |-> "VolumeAttachments"])

storage_v1alpha1_cSIStorageCapacity ==
    PerNamespace("storage/v1alpha1", "csistoragecapacities", "CSIStorageCapacity")
storage_v1alpha1_volumeAttachment ==
    ClusterWide("storage/v1alpha1", "volumeattachments", "VolumeAttachment")
storage_v1alpha1 == [
    CSIStorageCapacities |-> OnSet(storage_v1alpha1_cSIStorageCapacity),
    VolumeAttachments |-> storage_v1alpha1_volumeAttachment]
storage_v1alpha1_cases == Cases("storage/v1alpha1", "Storage", "V1alpha1", [
    csistoragecapacities |-> "CSIStorageCapacities",
    volumeattachments |-> "VolumeAttachments"])

storage_v1beta1_cSIDriver == ClusterWide("storage/v1beta1", "csidrivers", "CSIDriver")
storage_v1beta1_cSINode == ClusterWide("storage/v1beta1", "csinodes", "CSINode")
storage_v1beta1_cSIStorageCapacity ==
    PerNamespace("storage/v1beta1", "csistoragecapacities", "CSIStorageCapacity")
storage_v1beta1_storageClass == ClusterWide("storage/v1beta1", "storageclasses", "StorageClass")
storage_v1beta1_volumeAttachment ==
    ClusterWide("storage/v1beta1", "volumeattachments", "VolumeAttachment")
storage_v1beta1 == [
    CSIDrivers |-> storage_v1beta1_cSIDriver,
    CSINodes |-> storage_v1beta1_cSINode,
    CSIStorageCapacities |-> OnSet(storage_v1beta1_cSIStorageCapacity),
    StorageClasses |-> storage_v1beta1_storageClass,
    VolumeAttachments |-> storage_v1beta1_volumeAttachment]
storage_v1beta1_cases == Cases("storage/v1beta1", "Storage", "V1beta1", [
    csidrivers |-> "CSIDrivers", csinodes |-> "CSINodes",
    csistoragecapacities |-> "CSIStorageCapacities",
    storageclasses |-> "StorageClasses", volumeattachments |-> "VolumeAttachments"])

storage == [V1 |-> storage_v1, V1alpha1 |-> storage_v1alpha1, V1beta1 |-> storage_v1beta1]

-----------------------------------------------------------------------------
FactoryGroups == [
    Admissionregistration |-> admissionregistration, Internal |-> apiserverinternal,
    Apps |-> apps, Autoscaling |-> autoscaling, Batch |-> batch,
    Certificates |-> certificates, Coordination |-> coordination, Core |-> core,
    Discovery |-> discovery, Events |-> events, Extensions |-> extensions,
    Flowcontrol |-> flowcontrol, Networking |-> networking, Node |-> node,
    Policy |-> policy, Rbac |-> rbac, Resource |-> resource,
    Scheduling |-> scheduling, Storage |-> storage]

ForResourceCases == UNION {
    admissionregistration_v1_cases, admissionregistration_v1alpha1_cases,
    admissionregistration_v1beta1_cases, apiserverinternal_v1alpha1_cases,
    apps_v1_cases, apps_v1beta1_cases, apps_v1beta2_cases, autoscaling_v1_cases,
    autoscaling_v2_cases, autoscaling_v2beta1_cases, autoscaling_v2beta2_cases,
    batch_v1_cases, batch_v1beta1_cases, certificates_v1_cases,
    certificates_v1alpha1_cases, certificates_v1beta1_cases, coordination_v1_cases,
    coordination_v1beta1_cases, core_v1_cases, discovery_v1beta1_cases,
    discovery_v1_cases, events_v1_cases, events_v1beta1_cases,
    extensions_v1beta1_cases, flowcontrol_v1alpha1_cases, flowcontrol_v1beta1_cases,
    flowcontrol_v1beta2_cases, flowcontrol_v1beta3_cases, networking_v1_cases,
    networking_v1alpha1_cases, networking_v1beta1_cases, node_v1_cases,
    node_v1alpha1_cases, node_v1beta1_cases, policy_v1_cases, policy_v1beta1_cases,
    rbac_v1_cases, rbac_v1alpha1_cases, rbac_v1beta1_cases, resource_v1alpha2_cases,
    scheduling_v1_cases, scheduling_v1alpha1_cases, scheduling_v1beta1_cases,
    storage_v1_cases, storage_v1alpha1_cases, storage_v1beta1_cases}
=============================================================================
