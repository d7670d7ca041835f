----------------------- MODULE KubeWorkloadInformers ------------------------
(***************************************************************************)
(* What pkg/generated/kube consists of, file by file: the groups of        *)
(* workloads and of what they use. The other groups are in KubeInformers.  *)
(*                                                                         *)
(* Of a type's file (core/v1/pod.go), the definition core_v1_pod says what *)
(* its informer lists, how, and for which Go type; core_v1 is the          *)
(* version's interface.go, with the accessor of each type and whether it   *)
(* hands over the namespace set; core_v1_cases is the version's part of    *)
(* the switch in ForResource (generic.go); core is the group's             *)
(* interface.go.                                                           *)
(***************************************************************************)
EXTENDS GeneratedShapes

apps_v1_controllerRevision ==
    PerNamespace("apps/v1", "controllerrevisions", "ControllerRevision")
apps_v1_daemonSet == PerNamespace("apps/v1", "daemonsets", "DaemonSet")
apps_v1_deployment == PerNamespace("apps/v1", "deployments", "Deployment")
apps_v1_replicaSet == PerNamespace("apps/v1", "replicasets", "ReplicaSet")
apps_v1_statefulSet == PerNamespace("apps/v1", "statefulsets", "StatefulSet")
apps_v1 == [
    ControllerRevisions |-> OnSet(apps_v1_controllerRevision),
    DaemonSets |-> OnSet(apps_v1_daemonSet),
    Deployments |-> OnSet(apps_v1_deployment),
    ReplicaSets |-> OnSet(apps_v1_replicaSet),
    StatefulSets |-> OnSet(apps_v1_statefulSet)]
apps_v1_cases == Cases("apps/v1", "Apps", "V1", [
    controllerrevisions |-> "ControllerRevisions", daemonsets |-> "DaemonSets",
    deployments |-> "Deployments", replicasets |-> "ReplicaSets",
    statefulsets |-> "StatefulSets"])

apps_v1beta1_controllerRevision ==
    PerNamespace("apps/v1beta1", "controllerrevisions", "ControllerRevision")
apps_v1beta1_deployment == PerNamespace("apps/v1beta1", "deployments", "Deployment")
apps_v1beta1_statefulSet == PerNamespace("apps/v1beta1", "statefulsets", "StatefulSet")
apps_v1beta1 == [
    ControllerRevisions |-> OnSet(apps_v1beta1_controllerRevision),
    Deployments |-> OnSet(apps_v1beta1_deployment),
    StatefulSets |-> OnSet(apps_v1beta1_statefulSet)]
apps_v1beta1_cases == Cases("apps/v1beta1", "Apps", "V1beta1", [
    controllerrevisions |-> "ControllerRevisions", deployments |-> "Deployments",
    statefulsets |-> "StatefulSets"])

apps_v1beta2_controllerRevision ==
    PerNamespace("apps/v1beta2", "controllerrevisions", "ControllerRevision")
apps_v1beta2_daemonSet == PerNamespace("apps/v1beta2", "daemonsets", "DaemonSet")
apps_v1beta2_deployment == PerNamespace("apps/v1beta2", "deployments", "Deployment")
apps_v1beta2_replicaSet == PerNamespace("apps/v1beta2", "replicasets", "ReplicaSet")
apps_v1beta2_statefulSet == PerNamespace("apps/v1beta2", "statefulsets", "StatefulSet")
apps_v1beta2 == [
    ControllerRevisions |-> OnSet(apps_v1beta2_controllerRevision),
    DaemonSets |-> OnSet(apps_v1beta2_daemonSet),
    Deployments |-> OnSet(apps_v1beta2_deployment),
    ReplicaSets |-> OnSet(apps_v1beta2_replicaSet),
    StatefulSets |-> OnSet(apps_v1beta2_statefulSet)]
apps_v1beta2_cases == Cases("apps/v1beta2", "Apps", "V1beta2", [
    controllerrevisions |-> "ControllerRevisions", daemonsets |-> "DaemonSets",
    deployments |-> "Deployments", replicasets |-> "ReplicaSets",
    statefulsets |-> "StatefulSets"])

apps == [V1 |-> apps_v1, V1beta1 |-> apps_v1beta1, V1beta2 |-> apps_v1beta2]

autoscaling_v1_horizontalPodAutoscaler ==
    PerNamespace("autoscaling/v1", "horizontalpodautoscalers", "HorizontalPodAutoscaler")
autoscaling_v1 == [
    HorizontalPodAutoscalers |-> OnSet(autoscaling_v1_horizontalPodAutoscaler)]
autoscaling_v1_cases == Cases("autoscaling/v1", "Autoscaling", "V1", [
    horizontalpodautoscalers |-> "HorizontalPodAutoscalers"])

autoscaling_v2_horizontalPodAutoscaler ==
    PerNamespace("autoscaling/v2", "horizontalpodautoscalers", "HorizontalPodAutoscaler")
autoscaling_v2 == [
    HorizontalPodAutoscalers |-> OnSet(autoscaling_v2_horizontalPodAutoscaler)]
autoscaling_v2_cases == Cases("autoscaling/v2", "Autoscaling", "V2", [
    horizontalpodautoscalers |-> "HorizontalPodAutoscalers"])

autoscaling_v2beta1_horizontalPodAutoscaler ==
    PerNamespace("autoscaling/v2beta1", "horizontalpodautoscalers", "HorizontalPodAutoscaler")
autoscaling_v2beta1 == [
    HorizontalPodAutoscalers |-> OnSet(autoscaling_v2beta1_horizontalPodAutoscaler)]
autoscaling_v2beta1_cases == Cases("autoscaling/v2beta1", "Autoscaling", "V2beta1", [
    horizontalpodautoscalers |-> "HorizontalPodAutoscalers"])

autoscaling_v2beta2_horizontalPodAutoscaler ==
    PerNamespace("autoscaling/v2beta2", "horizontalpodautoscalers", "HorizontalPodAutoscaler")
autoscaling_v2beta2 == [
    HorizontalPodAutoscalers |-> OnSet(autoscaling_v2beta2_horizontalPodAutoscaler)]
autoscaling_v2beta2_cases == Cases("autoscaling/v2beta2", "Autoscaling", "V2beta2", [
    horizontalpodautoscalers |-> "HorizontalPodAutoscalers"])

autoscaling == [V1 |-> autoscaling_v1, V2 |-> autoscaling_v2, V2beta1 |-> autoscaling_v2beta1,
    V2beta2 |-> autoscaling_v2beta2]

batch_v1_cronJob == PerNamespace("batch/v1", "cronjobs", "CronJob")
batch_v1_job == PerNamespace("batch/v1", "jobs", "Job")
batch_v1 == [
    CronJobs |-> OnSet(batch_v1_cronJob),
    Jobs |-> OnSet(batch_v1_job)]
batch_v1_cases == Cases("batch/v1", "Batch", "V1", [
    cronjobs |-> "CronJobs", jobs |-> "Jobs"])

batch_v1beta1_cronJob == PerNamespace("batch/v1beta1", "cronjobs", "CronJob")
batch_v1beta1 == [
    CronJobs |-> OnSet(batch_v1beta1_cronJob)]
batch_v1beta1_cases == Cases("batch/v1beta1", "Batch", "V1beta1", [
    cronjobs |-> "CronJobs"])

batch == [V1 |-> batch_v1, V1beta1 |-> batch_v1beta1]

core_v1_componentStatus == ClusterWide("core/v1", "componentstatuses", "ComponentStatus")
core_v1_configMap == PerNamespace("core/v1", "configmaps", "ConfigMap")
core_v1_endpoints == PerNamespace("core/v1", "endpoints", "Endpoints")
core_v1_event == PerNamespace("core/v1", "events", "Event")
core_v1_limitRange == PerNamespace("core/v1", "limitranges", "LimitRange")
core_v1_namespace == ClusterWide("core/v1", "namespaces", "Namespace")
core_v1_node == ClusterWide("core/v1", "nodes", "Node")
core_v1_persistentVolume == ClusterWide("core/v1", "persistentvolumes", "PersistentVolume")
core_v1_persistentVolumeClaim ==
    PerNamespace("core/v1", "persistentvolumeclaims", "PersistentVolumeClaim")
core_v1_pod == PerNamespace("core/v1", "pods", "Pod")
core_v1_podTemplate == PerNamespace("core/v1", "podtemplates", "PodTemplate")
core_v1_replicationController ==
    PerNamespace("core/v1", "replicationcontrollers", "ReplicationController")
core_v1_resourceQuota == PerNamespace("core/v1", "resourcequotas", "ResourceQuota")
core_v1_secret == PerNamespace("core/v1", "secrets", "Secret")
core_v1_service == PerNamespace("core/v1", "services", "Service")
core_v1_serviceAccount == PerNamespace("core/v1", "serviceaccounts", "ServiceAccount")
core_v1 == [
    ComponentStatuses |-> core_v1_componentStatus,
    ConfigMaps |-> OnSet(core_v1_configMap),
    Endpoints |-> OnSet(core_v1_endpoints),
    Events |-> OnSet(core_v1_event),
    LimitRanges |-> OnSet(core_v1_limitRange),
    Namespaces |-> core_v1_namespace,
    Nodes |-> core_v1_node,
    PersistentVolumes |-> core_v1_persistentVolume,
    PersistentVolumeClaims |-> OnSet(core_v1_persistentVolumeClaim),
    Pods |-> OnSet(core_v1_pod),
    PodTemplates |-> OnSet(core_v1_podTemplate),
    ReplicationControllers |-> OnSet(core_v1_replicationController),
    ResourceQuotas |-> OnSet(core_v1_resourceQuota),
    Secrets |-> OnSet(core_v1_secret),
    Services |-> OnSet(core_v1_service),
    ServiceAccounts |-> OnSet(core_v1_serviceAccount)]
core_v1_cases == Cases("core/v1", "Core", "V1", [
    componentstatuses |-> "ComponentStatuses", configmaps |-> "ConfigMaps",
    endpoints |-> "Endpoints", events |-> "Events", limitranges |-> "LimitRanges",
    namespaces |-> "Namespaces", nodes |-> "Nodes",
    persistentvolumes |-> "PersistentVolumes",
    persistentvolumeclaims |-> "PersistentVolumeClaims", pods |-> "Pods",
    podtemplates |-> "PodTemplates",
    replicationcontrollers |-> "ReplicationControllers",
    resourcequotas |-> "ResourceQuotas", secrets |-> "Secrets",
    services |-> "Services", serviceaccounts |-> "ServiceAccounts"])

core == [V1 |-> core_v1]

discovery_v1beta1_endpointSlice ==
    PerNamespace("discovery/v1beta1", "endpointslices", "EndpointSlice")
discovery_v1beta1 == [
    EndpointSlices |-> OnSet(discovery_v1beta1_endpointSlice)]
discovery_v1beta1_cases == Cases("discovery/v1beta1", "Discovery", "V1beta1", [
    endpointslices |-> "EndpointSlices"])

discovery_v1_endpointSlice == PerNamespace("discovery/v1", "endpointslices", "EndpointSlice")
discovery_v1 == [
    EndpointSlices |-> OnSet(discovery_v1_endpointSlice)]
discovery_v1_cases == Cases("discovery/v1", "Discovery", "V1", [
    endpointslices |-> "EndpointSlices"])

discovery == [V1beta1 |-> discovery_v1beta1, V1 |-> discovery_v1]

events_v1_event == PerNamespace("events/v1", "events", "Event")
events_v1 == [
    Events |-> OnSet(events_v1_event)]
events_v1_cases == Cases("events/v1", "Events", "V1", [
    events |-> "Events"])

events_v1beta1_event == PerNamespace("events/v1beta1", "events", "Event")
events_v1beta1 == [
    Events |-> OnSet(events_v1beta1_event)]
events_v1beta1_cases == Cases("events/v1beta1", "Events", "V1beta1", [
    events |-> "Events"])

events == [V1 |-> events_v1, V1beta1 |-> events_v1beta1]

extensions_v1beta1_daemonSet == PerNamespace("extensions/v1beta1", "daemonsets", "DaemonSet")
extensions_v1beta1_deployment == PerNamespace("extensions/v1beta1", "deployments", "Deployment")

\* Mutant: the client of the group that ingresses have moved to.
extensions_v1beta1_ingress_Moved ==
    [PerNamespace("extensions/v1beta1", "ingresses", "Ingress")
        EXCEPT !.lists = <<"networking/v1beta1", "ingresses">>]

extensions_v1beta1_ingress == PerNamespace("extensions/v1beta1", "ingresses", "Ingress")
extensions_v1beta1_networkPolicy ==
    PerNamespace("extensions/v1beta1", "networkpolicies", "NetworkPolicy")
extensions_v1beta1_replicaSet == PerNamespace("extensions/v1beta1", "replicasets", "ReplicaSet")
extensions_v1beta1 == [
    DaemonSets |-> OnSet(extensions_v1beta1_daemonSet),
    Deployments |-> OnSet(extensions_v1beta1_deployment),
    Ingresses |-> OnSet(extensions_v1beta1_ingress),
    NetworkPolicies |-> OnSet(extensions_v1beta1_networkPolicy),
    ReplicaSets |-> OnSet(extensions_v1beta1_replicaSet)]
extensions_v1beta1_cases == Cases("extensions/v1beta1", "Extensions", "V1beta1", [
    daemonsets |-> "DaemonSets", deployments |-> "Deployments",
    ingresses |-> "Ingresses", networkpolicies |-> "NetworkPolicies",
    replicasets |-> "ReplicaSets"])

extensions == [V1beta1 |-> extensions_v1beta1]

scheduling_v1_priorityClass == ClusterWide("scheduling/v1", "priorityclasses", "PriorityClass")
scheduling_v1 == [
    PriorityClasses |-> scheduling_v1_priorityClass]
scheduling_v1_cases == Cases("scheduling/v1", "Scheduling", "V1", [
    priorityclasses |-> "PriorityClasses"])

scheduling_v1alpha1_priorityClass ==
    ClusterWide("scheduling/v1alpha1", "priorityclasses", "PriorityClass")
scheduling_v1alpha1 == [
    PriorityClasses |-> scheduling_v1alpha1_priorityClass]
scheduling_v1alpha1_cases == Cases("scheduling/v1alpha1", "Scheduling", "V1alpha1", [
    priorityclasses |-> "PriorityClasses"])

scheduling_v1beta1_priorityClass ==
    ClusterWide("scheduling/v1beta1", "priorityclasses", "PriorityClass")
scheduling_v1beta1 == [
    PriorityClasses |-> scheduling_v1beta1_priorityClass]
scheduling_v1beta1_cases == Cases("scheduling/v1beta1", "Scheduling", "V1beta1", [
    priorityclasses |-> "PriorityClasses"])

scheduling == [V1 |-> scheduling_v1, V1alpha1 |-> scheduling_v1alpha1,
    V1beta1 |-> scheduling_v1beta1]
=============================================================================
