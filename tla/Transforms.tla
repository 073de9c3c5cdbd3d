----------------------------- MODULE Transforms -----------------------------
(***************************************************************************)
(* How the controller makes the manifest it installs out of the one it was  *)
(* shipped with and the spec of a KnativeServing: transform in              *)
(* knativeserving.go, and the transformers of                               *)
(* pkg/reconciler/knativeserving/common in the order of extensions.go.      *)
(*                                                                         *)
(* A resource is a record of its kind and of those of its fields that some  *)
(* transformer touches.  An image is the registry it comes from and a name; *)
(* a template is an image whose name is NameVariable.  The user edits the   *)
(* spec, one field at a time, between one reconciliation and the next.      *)
(***************************************************************************)
EXTENDS Integers, Sequences

CONSTANTS
  Manifest,         \* the resources below KO_DATA_PATH, in order
  Namespace, Owner, \* the namespace of the KnativeServing, and itself
  Cut,              \* what is left of the name of each ConfigMap without its first
                    \* len("config-") characters
  SpecFields,       \* the values users give each field of the spec
  PlatformResults   \* what the platform's function may return, subset of
                    \* {"nil", "transformer", "error"}

ASSUME PlatformAssumption == PlatformResults \subseteq {"nil", "transformer", "error"}

-----------------------------------------------------------------------------
(* The spec of a KnativeServing.                                            *)

NoImage == [from |-> "", name |-> ""]
NameVariable == "${NAME}"
NoCerts == [type |-> "", name |-> ""]
NoHA == -1                    \* a nil HighAvailability
NoEntries == [x \in {} |-> ""]

EmptySpec ==
  [config    |-> NoEntries,   \* ConfigMap without "config-" -> entries
   registry  |-> [default |-> NoImage, override |-> NoEntries, secrets |-> <<>>],
   ingress   |-> NoEntries,   \* selector of knative-ingress-gateway
   local     |-> NoEntries,   \* selector of cluster-local-gateway
   certs     |-> NoCerts,
   ha        |-> NoHA,        \* or the replicas, 0 if left out
   resources |-> <<>>]        \* of [container, limits, requests]

\* f with the entries of g on top.
Overlay(f, g) ==
  [x \in DOMAIN f \cup DOMAIN g |-> IF x \in DOMAIN g THEN g[x] ELSE f[x]]

Failure == [kind |-> "failure"]

-----------------------------------------------------------------------------
(* The manifest as it is read, and the values the API server lets in.       *)

IsFunction(f) == f = [x \in DOMAIN f |-> f[x]]

IsSequence(q) == q \in Seq({q[i] : i \in DOMAIN q})
IsImage(v) == IsFunction(v) /\ DOMAIN v = {"from", "name"}

\* Kubernetes refuses a container without a name or an image.
ShippedContainer(c) ==
  /\ IsFunction(c) /\ DOMAIN c = {"name", "image", "mounts", "limits", "requests"}
  /\ c.name # "" /\ c.image # NoImage /\ IsSequence(c.mounts)
  /\ IsFunction(c.limits) /\ IsFunction(c.requests)

ShippedResource(u) ==
  /\ IsFunction(u) /\ {"kind", "name"} \subseteq DOMAIN u
  /\ u.kind \notin {"DaemonSet", Failure.kind}
  /\ u.kind = "Deployment" =>
       /\ {"containers", "secrets", "volumes", "replicas"} \subseteq DOMAIN u
       /\ IsFunction(u.containers)
       /\ \A i \in DOMAIN u.containers : ShippedContainer(u.containers[i])
       /\ IsSequence(u.volumes)
  /\ u.kind = "Image" => {"image", "secrets"} \subseteq DOMAIN u /\ u.name # ""
  /\ u.kind = "ConfigMap" => "data" \in DOMAIN u /\ IsFunction(u.data)
  /\ u.kind = "Gateway" =>
       "selector" \in DOMAIN u /\ u.name \in {"knative-ingress-gateway", "cluster-local-gateway"}
  /\ u.kind = "HorizontalPodAutoscaler" => "min" \in DOMAIN u /\ u.min \in Nat

ASSUME ManifestAssumption ==
  /\ IsSequence(Manifest)
  /\ \A i \in DOMAIN Manifest : ShippedResource(Manifest[i])
  /\ \E i \in DOMAIN Manifest :
       Manifest[i].kind = "Deployment" /\ Manifest[i].name = "controller"

ASSUME FieldsAssumption ==
  /\ \A v \in SpecFields.registry : IsImage(v.default)
  /\ \A v \in SpecFields.ingress \cup SpecFields.local : IsFunction(v)
  /\ SpecFields.ha \subseteq Nat \cup {NoHA}
  /\ \A v \in SpecFields.resources : IsSequence(v)

-----------------------------------------------------------------------------
(* The transformers, of a resource u under the spec s.                      *)

ClusterScoped ==
  {"ComponentStatus", "Namespace", "Node", "PersistentVolume", "MutatingWebhookConfiguration",
   "ValidatingWebhookConfiguration", "CustomResourceDefinition", "APIService", "MeshPolicy",
   "TokenReview", "SelfSubjectAccessReview", "SelfSubjectRulesReview", "SubjectAccessReview",
   "CertificateSigningRequest", "PodSecurityPolicy", "ClusterRoleBinding", "ClusterRole",
   "PriorityClass", "StorageClass", "VolumeAttachment"}

InjectOwner(u) ==
  IF u.kind \in ClusterScoped THEN u ELSE [u EXCEPT !.owner = Owner]

\* Kinds with subjects, and kinds that call a service, in some namespace.
Bindings == {"ClusterRoleBinding", "RoleBinding"}
Callers == {"ValidatingWebhookConfiguration", "MutatingWebhookConfiguration", "APIService"}

InjectNamespace(u) ==
  LET v == IF u.kind \in ClusterScoped THEN u ELSE [u EXCEPT !.namespace = Namespace]
  IN  CASE u.kind = "Namespace" -> [v EXCEPT !.name = Namespace]
        [] u.kind \in Bindings -> [v EXCEPT !.subject = Namespace]
        [] u.kind \in Callers  -> [v EXCEPT !.service = Namespace]
        [] OTHER -> v

UpdateConfigMapReplaceMutant(u, entries) == [u EXCEPT !.data = entries]
UpdateConfigMap(u, entries) == [u EXCEPT !.data = Overlay(@, entries)]

ConfigMapTransform(u, s) ==
  IF u.kind = "ConfigMap" /\ Cut[u.name] \in DOMAIN s.config
  THEN UpdateConfigMap(u, s.config[Cut[u.name]]) ELSE u

ReplaceName(template, name) ==
  [template EXCEPT !.name = IF @ = NameVariable THEN name ELSE @]

\* "" in the code is NoImage: then the shipped image stays.
GetNewImage(registry, name) ==
  IF name \in DOMAIN registry.override /\ registry.override[name] # NoImage
  THEN registry.override[name] ELSE ReplaceName(registry.default, name)

UnguardedImageMutant(registry, name, shipped) == GetNewImage(registry, name)
UpdatedImage(registry, name, shipped) ==
  LET new == GetNewImage(registry, name) IN IF new # NoImage THEN new ELSE shipped

AddImagePullSecrets(secrets, registry) == secrets \o registry.secrets

UpdateRegistry(u, registry) ==
  [u EXCEPT !.secrets = AddImagePullSecrets(@, registry),
            !.containers = [i \in DOMAIN @ |->
               [u.containers[i] EXCEPT !.image =
                  UpdatedImage(registry, u.containers[i].name, @)]]]

UpdateCachingImage(u, registry) ==
  [u EXCEPT !.secrets = AddImagePullSecrets(@, registry),
            !.image = UpdatedImage(registry, u.name, @)]

ImageTransform(u, s) ==
  CASE u.kind \in {"Deployment", "DaemonSet"} -> UpdateRegistry(u, s.registry)
    [] u.kind = "Image" -> UpdateCachingImage(u, s.registry)
    [] OTHER -> u

UpdateGateway(u, selector) ==
  IF DOMAIN selector # {} THEN [u EXCEPT !.selector = selector] ELSE u

GatewayTransform(u, s) ==
  CASE u.kind = "Gateway" /\ u.name = "knative-ingress-gateway" -> UpdateGateway(u, s.ingress)
    [] u.kind = "Gateway" /\ u.name = "cluster-local-gateway"   -> UpdateGateway(u, s.local)
    [] OTHER -> u

BadCerts(certs) == certs.type \notin {"ConfigMap", "Secret"} \/ certs.name = ""

\* A volume, and in the first container its mount and SSL_CERT_DIR.
ConfigureCustomCerts(u, certs) ==
  IF BadCerts(certs) THEN Failure
  ELSE [u EXCEPT !.volumes = Append(@, certs),
                 !.containers[1].mounts = Append(@, certs.name)]

CertsOnUnnamedMutant(u, s) ==
  IF s.certs.name # "" /\ u.kind = "Deployment" /\ u.name = "controller"
  THEN ConfigureCustomCerts(u, s.certs) ELSE u
CustomCertsTransform(u, s) ==
  IF s.certs # NoCerts /\ u.kind = "Deployment" /\ u.name = "controller"
  THEN ConfigureCustomCerts(u, s.certs) ELSE u

LeaderElection == "config-leader-election"
EnabledComponents == "enabledComponents"
ComponentsValue == "controller,hpaautoscaler,certcontroller,istiocontroller,nscontroller"

DeploymentNames == {"controller", "autoscaler-hpa", "networking-certmanager",
                    "networking-ns-cert", "networking-istio"}

\* "Do nothing if the HPA ships with even more replicas".
RaisedOrLoweredMutant(u, replicas) == replicas
Floor(u, replicas) == IF u.min > replicas THEN u.min ELSE replicas

HighAvailabilityTransform(u, s) ==
  IF s.ha = NoHA THEN u
  ELSE CASE u.kind = "ConfigMap" /\ u.name = LeaderElection ->
              [u EXCEPT !.data = Overlay(@, [x \in {EnabledComponents} |-> ComponentsValue])]
         [] u.kind = "Deployment" /\ u.name \in DeploymentNames ->
              [u EXCEPT !.replicas = s.ha]
         [] u.kind = "HorizontalPodAutoscaler" ->
              [u EXCEPT !.min = Floor(u, s.ha)]
         [] OTHER -> u

OverridesOf(s, name) == {i \in DOMAIN s.resources : s.resources[i].container = name}

\* find: the first override of the container.
Find(s, name) ==
  s.resources[CHOOSE i \in OverridesOf(s, name) : \A j \in OverridesOf(s, name) : i <= j]

ResourceRequirementsTransform(u, s) ==
  IF u.kind # "Deployment" THEN u
  ELSE [u EXCEPT !.containers = [i \in DOMAIN @ |->
          LET c == u.containers[i]
          IN  IF OverridesOf(s, c.name) = {} THEN c
              ELSE [c EXCEPT !.limits = Overlay(@, Find(s, c.name).limits),
                             !.requests = Overlay(@, Find(s, c.name).requests)]]]

Transformers ==
  <<"InjectOwner", "InjectNamespace", "ConfigMap", "Image", "Gateway",
    "CustomCerts", "HighAvailability", "ResourceRequirements">>

Apply(fn, u, s) ==
  IF u = Failure THEN Failure
  ELSE CASE fn = "InjectOwner"          -> InjectOwner(u)
         [] fn = "InjectNamespace"      -> InjectNamespace(u)
         [] fn = "ConfigMap"            -> ConfigMapTransform(u, s)
         [] fn = "Image"                -> ImageTransform(u, s)
         [] fn = "Gateway"              -> GatewayTransform(u, s)
         [] fn = "CustomCerts"          -> CustomCertsTransform(u, s)
         [] fn = "HighAvailability"     -> HighAvailabilityTransform(u, s)
         [] fn = "ResourceRequirements" -> ResourceRequirementsTransform(u, s)

-----------------------------------------------------------------------------
VARIABLES
  spec,     \* the spec of the KnativeServing, and of the copy that is reconciled
  phase,    \* of the transform
  fns,      \* the transformers at work
  result,   \* the resources that are being transformed
  at,       \* the resource, and the transformer, whose turn it is
  platform  \* whether the platform has failed

vars == <<spec, phase, fns, result, at, platform>>

Phases == {"idle", "transforming", "transformed", "failed"}
Start == [resource |-> 1, fn |-> 1]

Init ==
  /\ spec = EmptySpec
  /\ phase = "idle"
  /\ fns = <<>> /\ result = <<>> /\ at = Start
  /\ platform = "nil"

Edit ==
  /\ phase = "idle"
  /\ \E f \in DOMAIN EmptySpec : \E v \in SpecFields[f] :
       spec' = [spec EXCEPT ![f] = v]
  /\ UNCHANGED <<phase, fns, result, at, platform>>

\* The transformers at work, given what the platform's function returned.
AtWork(returned) ==
  Transformers \o IF returned = "transformer" THEN <<"Platform">> ELSE <<>>

\* The platform's function returns a transformer, none, or an error; the
\* manifest is copied.
Begin ==
  /\ phase = "idle"
  /\ platform' \in PlatformResults
  /\ IF platform' = "error"
     THEN phase' = "failed" /\ UNCHANGED <<fns, result>>
     ELSE /\ phase' = "transforming"
          /\ fns' = AtWork(platform')
          /\ result' = Manifest
  /\ UNCHANGED <<spec, at>>

Current == fns[at.fn]

Advance ==
  IF at.fn < Len(fns)
  THEN at' = [at EXCEPT !.fn = @ + 1] /\ UNCHANGED phase
  ELSE IF at.resource < Len(result)
  THEN at' = [resource |-> at.resource + 1, fn |-> 1] /\ UNCHANGED phase
  ELSE at' = Start /\ phase' = "transformed"

\* An error throws away what has been transformed so far.
Abort == phase' = "failed" /\ result' = <<>> /\ at' = Start

TransformResource ==
  /\ phase = "transforming" /\ Current # "Platform"
  /\ LET u == Apply(Current, result[at.resource], spec)
     IN  IF u = Failure THEN Abort
         ELSE result' = [result EXCEPT ![at.resource] = u] /\ Advance
  /\ UNCHANGED <<spec, fns, platform>>

\* The platform's transformer is not part of this repository; it may fail.
TransformForPlatform ==
  /\ phase = "transforming" /\ Current = "Platform"
  /\ \/ Advance /\ UNCHANGED <<result, platform>>
     \/ Abort /\ platform' = "error"
  /\ UNCHANGED <<spec, fns>>

\* The manifest is installed, or the failure reported.  What is transformed the next
\* time is the manifest as it was read.
End ==
  /\ phase \in {"transformed", "failed"}
  /\ phase' = "idle" /\ fns' = <<>> /\ result' = <<>> /\ platform' = "nil"
  /\ UNCHANGED <<spec, at>>

Next == Edit \/ Begin \/ TransformResource \/ TransformForPlatform \/ End

Spec == Init /\ [][Next]_vars

-----------------------------------------------------------------------------
(* What a spec s asks for, field by field, whatever the transformers do and  *)
(* in whatever order.                                                       *)

Entry(f, x, default) == IF x \in DOMAIN f THEN f[x] ELSE default

\* The override of that name, else the default template, else the image shipped.
SpecifiedImage(name, shipped, s) ==
  LET override == Entry(s.registry.override, name, NoImage)
      template == s.registry.default
  IN  CASE override # NoImage -> override
        [] override = NoImage /\ template = NoImage -> shipped
        [] OTHER -> [template EXCEPT !.name = IF @ = NameVariable THEN name ELSE @]

\* The user's entry of a ConfigMap, or the shipped one.  The exception is the
\* components that elect leaders once the control plane is highly available: there
\* the user's entry is overwritten, whatever ConfigMapTransform says of it (see
\* ConfigOverridesAll).
SpecifiedData(u, s) ==
  LET users == Entry(s.config, Cut[u.name], NoEntries)
      elects == s.ha # NoHA /\ u.name = LeaderElection
  IN  [x \in DOMAIN u.data \cup DOMAIN users \cup IF elects THEN {EnabledComponents} ELSE {} |->
         CASE elects /\ x = EnabledComponents -> ComponentsValue
           [] ~(elects /\ x = EnabledComponents) /\ x \in DOMAIN users -> users[x]
           [] OTHER -> u.data[x]]

\* Of several overrides of a container the first counts.
SpecifiedAmounts(container, which, shipped, s) ==
  LET first == {i \in DOMAIN s.resources :
                  /\ s.resources[i].container = container
                  /\ \A j \in 1 .. i - 1 : s.resources[j].container # container}
      amounts == [x \in UNION {DOMAIN s.resources[i][which] : i \in first} |->
                    LET i == CHOOSE i \in first : TRUE IN s.resources[i][which][x]]
  IN  [x \in DOMAIN shipped \cup DOMAIN amounts |-> Entry(amounts, x, shipped[x])]

Trusts(u, s) == u.name = "controller" /\ s.certs # NoCerts

SpecifiedContainer(u, i, s) ==
  LET c == u.containers[i]
  IN  [name |-> c.name,
       image |-> SpecifiedImage(c.name, c.image, s),
       limits |-> SpecifiedAmounts(c.name, "limits", c.limits, s),
       requests |-> SpecifiedAmounts(c.name, "requests", c.requests, s),
       mounts |-> c.mounts \o IF Trusts(u, s) /\ i = 1 THEN <<s.certs.name>> ELSE <<>>]

Specified(u, s) ==
  LET v == IF u.kind \in ClusterScoped THEN u
           ELSE [u EXCEPT !.owner = Owner, !.namespace = Namespace]
      selector(users) == IF users = NoEntries THEN u.selector ELSE users
  IN  CASE u.kind = "Deployment" ->
             [v EXCEPT !.containers = [i \in DOMAIN @ |-> SpecifiedContainer(u, i, s)],
                       !.secrets = @ \o s.registry.secrets,
                       !.volumes = @ \o IF Trusts(u, s) THEN <<s.certs>> ELSE <<>>,
                       !.replicas = IF u.name \in DeploymentNames /\ s.ha # NoHA
                                    THEN s.ha ELSE @]
        [] u.kind = "Image" ->
             [v EXCEPT !.image = SpecifiedImage(u.name, @, s),
                       !.secrets = @ \o s.registry.secrets]
        [] u.kind = "ConfigMap" -> [v EXCEPT !.data = SpecifiedData(u, s)]
        [] u.kind = "Gateway" ->
             [v EXCEPT !.selector = selector(IF u.name = "cluster-local-gateway"
                                             THEN s.local ELSE s.ingress)]
        [] u.kind = "HorizontalPodAutoscaler" ->
             [v EXCEPT !.min = IF s.ha > @ THEN s.ha ELSE @]
        [] u.kind \in Bindings -> [v EXCEPT !.subject = Namespace]
        [] u.kind \in Callers -> [v EXCEPT !.service = Namespace]
        [] u.kind = "Namespace" -> [v EXCEPT !.name = Namespace]
        [] OTHER -> v

-----------------------------------------------------------------------------
(* Properties.                                                              *)

\* Every resource, at whatever stage of the transform, has an image where it has
\* a container, and is turned where the transformers have yet to go.
TypeOK ==
  /\ phase \in Phases /\ platform \in {"nil", "transformer", "error"}
  /\ phase = "transforming" => at.resource \in DOMAIN result /\ at.fn \in DOMAIN fns
  /\ \A i \in DOMAIN result :
       result[i].kind = "Deployment" =>
         \A c \in DOMAIN result[i].containers : result[i].containers[c].image # NoImage

\* What is installed is the manifest as it was shipped with what the spec asks
\* for, of each field exactly once, and nothing that an earlier spec asked for:
\* no transformer undoes another's work, repeats it or leaves it behind for the
\* next reconciliation.
ResultAsSpecified ==
  phase = "transformed" => result = [i \in DOMAIN Manifest |-> Specified(Manifest[i], spec)]

\* ConfigMapTransform: "Let any config in instance override everything else".
ConfigOverridesAll ==
  phase = "transformed" =>
    \A i \in DOMAIN result : result[i].kind = "ConfigMap" =>
      LET users == Entry(spec.config, Cut[result[i].name], NoEntries)
      IN  \A x \in DOMAIN users : result[i].data[x] = users[x]

\* Both write the components of the leader election.
Contested(u, s) ==
  /\ u.kind = "ConfigMap" /\ u.name = LeaderElection /\ s.ha # NoHA
  /\ EnabledComponents \in DOMAIN Entry(s.config, Cut[u.name], NoEntries)

\* The order of the list in extensions.go decides nothing but the components of
\* the leader election: of any resource on its way, the next transformer and one
\* after it may change places.
OrderIsIrrelevant ==
  phase = "transforming" /\ Current # "Platform" =>
    LET u == result[at.resource]
    IN  \A later \in at.fn + 1 .. Len(Transformers) :
          LET f == Current
              g == Transformers[later]
          IN  \/ Apply(g, Apply(f, u, spec), spec) = Apply(f, Apply(g, u, spec), spec)
              \/ (Contested(u, spec) /\ {f, g} = {"ConfigMap", "HighAvailability"})

\* A reconciliation is refused for the certificates of the controller or by the
\* platform, and for these it always is, before anything is installed.
RefusedForCerts ==
  LET bad == spec.certs # NoCerts /\ BadCerts(spec.certs)
  IN  /\ phase = "failed" => bad \/ platform = "error"
      /\ phase = "transformed" => ~bad

=============================================================================
