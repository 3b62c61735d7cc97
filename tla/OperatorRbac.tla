---------------------------- MODULE OperatorRbac ----------------------------
(***************************************************************************)
(* The permissions of the installation: the rules the operator is installed*)
(* with, the rules it gives to the controller, the server and the shim, and*)
(* the API calls each of them makes.  A permission is a triple of an API   *)
(* group, a resource and a verb.                                           *)
(***************************************************************************)

Rule(groups, resources, verbs) == groups \X resources \X verbs

read == {"get", "list", "watch"}
write == {"create", "update", "delete"}
-----------------------------------------------------------------------------
(* What the operator hands out.                                            *)

ControllerCoreRules ==
    Rule({""}, {"events"}, {"create", "patch"})
    \cup Rule({""}, {"nodes"}, read \cup {"update", "patch"})
    \cup Rule({""}, {"pods"}, read \cup {"update", "patch"})
    \cup Rule({""}, {"persistentvolumeclaims"}, read)
    \cup Rule({"apiextensions.k8s.io"}, {"customresourcedefinitions"}, read)
    \cup Rule({""}, {"resourcequotas"}, {"list", "watch"} \cup write)

MutControllerCustomRules ==
    Rule({"maroonedpods.io"}, {"maroonedpods"}, read \cup {"update", "delete", "patch"})
    \cup Rule({"maroonedpods.io"}, {"maroonedpodsconfigs"}, read)
    \cup Rule({"kubevirt.io"}, {"virtualmachineinstances"}, read \cup {"update", "delete", "patch"})
    \cup Rule({"discovery.k8s.io"}, {"endpointslices"}, read \cup write \cup {"patch"})

ControllerCustomRules ==
    Rule({"maroonedpods.io"}, {"maroonedpods"}, read \cup {"update", "delete", "patch"})
    \cup Rule({"maroonedpods.io"}, {"maroonedpods/status", "maroonedpodsconfigs/status"}, {"update", "patch"})
    \cup Rule({"maroonedpods.io"}, {"maroonedpodsconfigs"}, read)
    \cup Rule({"kubevirt.io"}, {"kubevirts"}, {"list", "watch"})
    \cup Rule({"discovery.k8s.io"}, {"endpointslices"}, read \cup write \cup {"patch"})
    \cup Rule({"kubevirt.io"}, {"virtualmachineinstances"}, read \cup write \cup {"patch"})
    \cup Rule({"kubevirt.io"}, {"virtualmachineinstances/status"}, {"patch"})
    \cup Rule({"admissionregistration.k8s.io"}, {"validatingwebhookconfigurations"}, {"create", "get", "delete"})
    \cup Rule({"maroonedpods.io"}, {"mps"}, {"list", "watch"})

ControllerClusterRules == ControllerCoreRules \cup ControllerCustomRules

ControllerRole ==
    Rule({""}, {"configmaps", "secrets"}, read)
    \cup Rule({""}, {"endpoints"}, read \cup {"create", "update"})
    \cup Rule({"coordination.k8s.io"}, {"leases"}, read \cup write \cup {"patch"})

ServerClusterRules ==
    Rule({"kubevirt.io"}, {"kubevirts"}, {"list", "watch"})
    \cup Rule({""}, {"pods"}, read)
    \cup Rule({""}, {"resourcequotas"}, {"list", "watch", "update", "create"})

ServerRole == Rule({""}, {"secrets"}, read)

ShimClusterRules ==
    Rule({""}, {"pods"}, read \cup {"patch", "update"}) \cup Rule({""}, {"events"}, {"create", "patch"})
-----------------------------------------------------------------------------
(* What the operator itself may do.                                        *)

MutOperatorOwnRules ==
    Rule({"rbac.authorization.k8s.io"}, {"clusterrolebindings", "clusterroles", "rolebindings", "roles"}, read \cup write)
    \cup Rule({"admissionregistration.k8s.io"}, {"mutatingwebhookconfigurations"}, read \cup write)

OperatorOwnRules ==
    Rule({"rbac.authorization.k8s.io"}, {"clusterrolebindings", "clusterroles", "rolebindings", "roles"}, read \cup write)
    \cup Rule({"apiextensions.k8s.io"}, {"customresourcedefinitions", "customresourcedefinitions/status"}, read \cup write)
    \cup Rule({"maroonedpods.io"}, {"mps", "mps/finalizers"}, read \cup {"delete", "update"})
    \cup Rule({"maroonedpods.io"}, {"mps/status"}, {"get", "update", "patch"})
    \cup Rule({"admissionregistration.k8s.io"},
              {"mutatingwebhookconfigurations", "validatingwebhookconfigurations"}, read \cup write)

OperatorResourceRules ==
    Rule({"scheduling.k8s.io"}, {"priorityclasses"}, read)
    \cup Rule({""}, {"namespaces"}, read \cup {"create", "update"})
    \cup Rule({""}, {"serviceaccounts"}, read \cup write)
    \cup Rule({"node.k8s.io"}, {"runtimeclasses"}, read \cup write)
    \cup Rule({"apps"}, {"daemonsets", "deployments", "deployments/finalizers", "replicasets"}, read \cup write \cup {"patch"})
    \cup Rule({""}, {"services", "configmaps", "secrets"}, read \cup write \cup {"patch"})

OperatorNamespacedRules ==
    Rule({""}, {"serviceaccounts", "configmaps", "events", "secrets", "services"}, read \cup write)
    \cup Rule({""}, {"pods", "services", "endpoints"}, read \cup {"create", "update"})
    \cup Rule({"apps"}, {"deployments", "deployments/finalizers"}, read \cup write)
    \cup Rule({"monitoring.coreos.com"}, {"servicemonitors", "prometheusrules"}, read \cup write \cup {"patch"})
    \cup Rule({"coordination.k8s.io"}, {"leases"}, read \cup write \cup {"patch"})
    \cup Rule({"rbac.authorization.k8s.io"}, {"rolebindings", "roles"}, read \cup write)

\* The rules of the roles are added to the operator's own: it may not give
\* away what it does not hold.
GetClusterRolePolicyRules == ControllerClusterRules \cup ServerClusterRules

OperatorGrants == OperatorOwnRules \cup OperatorResourceRules \cup GetClusterRolePolicyRules \cup OperatorNamespacedRules
-----------------------------------------------------------------------------
(* What each group of resources takes to be created, read and updated; to  *)
(* create a role or a binding takes every permission of the role.          *)

Make(group, resources) == Rule({group}, resources, {"create", "get", "update", "list", "watch"})

StaticNeeds ==
    Make("rbac.authorization.k8s.io", {"clusterroles", "clusterrolebindings"})
    \cup ServerClusterRules \cup ControllerClusterRules

ShimNeeds ==
    Make("", {"namespaces", "serviceaccounts"}) \cup Make("node.k8s.io", {"runtimeclasses"})
    \cup Make("apps", {"daemonsets"}) \cup ShimClusterRules

ServerNeeds ==
    Make("rbac.authorization.k8s.io", {"roles", "rolebindings"}) \cup Make("", {"serviceaccounts", "services"})
    \cup Make("apps", {"deployments"}) \cup ServerRole

ControllerNeeds ==
    Make("rbac.authorization.k8s.io", {"roles", "rolebindings"}) \cup Make("", {"serviceaccounts"})
    \cup Make("apps", {"deployments"}) \cup ControllerRole

HooksNeeds ==
    Make("admissionregistration.k8s.io", {"mutatingwebhookconfigurations", "validatingwebhookconfigurations"})

CertNeeds == Make("", {"secrets", "configmaps"})
-----------------------------------------------------------------------------
(* What the installed components call.                                     *)

\* Both serve TLS only after their informer of the secrets has synced.
SecretInformerCalls == Rule({""}, {"secrets"}, {"list", "watch"})

InformerCalls ==
    Rule({""}, {"pods", "nodes"}, {"list", "watch"})
    \cup Rule({"maroonedpods.io"}, {"maroonedpods", "maroonedpodsconfigs"}, {"list", "watch"})
    \cup Rule({"kubevirt.io"}, {"virtualmachineinstances"}, {"list", "watch"})
    \cup SecretInformerCalls

\* The adaptor makes, claims and deletes VMIs, updates Pods...
AdaptorVMICalls == Rule({"kubevirt.io"}, {"virtualmachineinstances"}, write)
AdaptorPodCalls == Rule({""}, {"pods"}, {"update"}) \cup Rule({""}, {"events"}, {"create", "patch"})

\* ...and publishes the guest's address.
AdaptorSliceCalls == Rule({"discovery.k8s.io"}, {"endpointslices"}, {"create", "get", "update"})

ElectionCalls ==
    Rule({"coordination.k8s.io"}, {"leases"}, {"get", "create", "update"})
    \cup Rule({""}, {"events"}, {"create", "patch"})

ControllerCalls == InformerCalls \cup AdaptorVMICalls \cup AdaptorPodCalls \cup AdaptorSliceCalls \cup ElectionCalls

ServerCalls == Rule({""}, {"pods"}, {"list", "get"}) \cup SecretInformerCalls

ShimCalls == Rule({""}, {"pods"}, {"list", "get", "patch", "update"})
=============================================================================
