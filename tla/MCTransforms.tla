---------------------------- MODULE MCTransforms ----------------------------
(***************************************************************************)
(* An excerpt of the manifest in cmd/manager/kodata/knative-serving, with   *)
(* one resource of each kind a transformer treats in a way of its own and   *)
(* the two deployments whose containers have the same name; and the values  *)
(* users give the fields of the spec.                                       *)
(***************************************************************************)
EXTENDS TransformsInvariant

Pair(x, v) == [y \in {x} |-> v]
Shipped(name) == [from |-> "release", name |-> name]

Named(kind, name) == [kind |-> kind, name |-> name, owner |-> "none", namespace |-> "shipped"]

\* A record with the fields of both.
With(u, v) == Overlay(u, v)

Container(name, image) ==
  [name |-> name, image |-> Shipped(image), mounts |-> <<>>,
   limits |-> Pair("cpu", "1000m"), requests |-> Pair("cpu", "100m")]

Deployment(name, container, image) ==
  With(Named("Deployment", name),
       [containers |-> <<Container(container, image)>>, secrets |-> <<>>,
        volumes |-> <<>>, replicas |-> 1])

SmallManifest ==
  << [kind |-> "Namespace", name |-> "shipped"],
     [kind |-> "ClusterRole", name |-> "knative-serving-admin"],
     [kind |-> "ClusterRoleBinding", name |-> "knative-serving-admin", subject |-> "shipped"],
     With(Named("RoleBinding", "custom-metrics-auth-reader"),
          [namespace |-> "kube-system", subject |-> "shipped"]),
     [kind |-> "APIService", name |-> "custom.metrics.k8s.io", service |-> "shipped"],
     With(Named("Image", "queue-proxy"),
          [image |-> Shipped("queue-proxy"), secrets |-> <<>>]),
     With(Named("ConfigMap", "config-leader-election"), [data |-> Pair("_example", "shipped")]),
     With(Named("HorizontalPodAutoscaler", "activator"), [min |-> 1]),
     Deployment("controller", "controller", "controller"),
     Deployment("webhook", "webhook", "webhook"),
     With(Named("Gateway", "knative-ingress-gateway"), [selector |-> Pair("istio", "ingress")]),
     With(Named("Gateway", "cluster-local-gateway"), [selector |-> Pair("istio", "local")]),
     Deployment("istio-webhook", "webhook", "net-istio-webhook") >>

SmallCut == Pair("config-leader-election", "leader-election")

Registry(default, override, secrets) ==
  [default |-> default, override |-> override, secrets |-> secrets]
Mirror == [from |-> "mirror", name |-> NameVariable]
Patched == [from |-> "mirror", name |-> "patched"]

Requirement(container, limits, requests) ==
  [container |-> container, limits |-> limits, requests |-> requests]

SmallSpecs ==
  [config |-> {NoEntries,
               Pair("leader-election", Pair(EnabledComponents, "hpaautoscaler")),
               Pair("leader-election", Pair("leaseDuration", "5s"))},
   registry |-> {Registry(NoImage, NoEntries, <<>>),
                 Registry(Mirror, Pair("webhook", NoImage), <<"pull">>),
                 Registry(Mirror, Pair("queue-proxy", Patched), <<>>),
                 Registry(NoImage, Pair("webhook", Patched), <<>>)},
   ingress |-> {NoEntries, Pair("custom", "ingress")},
   local |-> {NoEntries, Pair("custom", "local")},
   certs |-> {NoCerts, [type |-> "Secret", name |-> "certs"],
              [type |-> "ConfigMap", name |-> ""], [type |-> "", name |-> "certs"]},
   ha |-> {NoHA, 0, 2, 30},
   resources |-> {<<>>,
                  << Requirement("controller", NoEntries, Pair("memory", "1Gi")),
                     Requirement("controller", Pair("cpu", "2000m"), NoEntries) >>,
                  << Requirement("webhook", Pair("cpu", "500m"), NoEntries) >>}]

=============================================================================
