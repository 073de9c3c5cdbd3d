-------------------------- MODULE TransformsProofs --------------------------
(***************************************************************************)
(* Proofs about the transform, for every manifest and every spec: what the  *)
(* transformers make of a resource is what the spec asks for, and their     *)
(* order does not matter.                                                   *)
(***************************************************************************)
EXTENDS TransformsInvariant, SequenceTheorems, WellFoundedInduction, TLAPS

-----------------------------------------------------------------------------
(* Functions and the fields the transformers write.                         *)

\* Two functions with the same domain and values are the same.
LEMMA SameFunction ==
  ASSUME NEW f, NEW g, IsFunction(f), IsFunction(g), DOMAIN f = DOMAIN g,
         \A x \in DOMAIN f : f[x] = g[x]
  PROVE  f = g
BY DEF IsFunction

\* EXCEPT makes a function with the same domain, changed in one place.
LEMMA ExceptAt ==
  ASSUME NEW f, NEW a, NEW e, IsFunction(f)
  PROVE  LET g == [f EXCEPT ![a] = e]
         IN  /\ IsFunction(g) /\ DOMAIN g = DOMAIN f
             /\ \A x \in DOMAIN f : g[x] = IF x = a THEN e ELSE f[x]
BY DEF IsFunction

\* v is u but for the fields in the set fields.
Rewritten(v, u, fields) ==
  /\ IsFunction(v) /\ DOMAIN v = DOMAIN u
  /\ \A x \in DOMAIN u \ fields : v[x] = u[x]

\* The fields a transformer writes of a resource of some kind.
Writes(fn, kind) ==
  CASE fn = "InjectOwner" ->
         IF kind \in ClusterScoped THEN {} ELSE {"owner"}
    [] fn = "InjectNamespace" ->
         CASE kind = "Namespace" -> {"name"}
           [] kind = "ClusterRoleBinding" -> {"subject"}
           [] kind = "RoleBinding" -> {"namespace", "subject"}
           [] kind \in Callers -> {"service"}
           [] kind \in ClusterScoped \ ({"Namespace", "ClusterRoleBinding"} \cup Callers) -> {}
           [] OTHER -> {"namespace"}
    [] fn = "ConfigMap" -> IF kind = "ConfigMap" THEN {"data"} ELSE {}
    [] fn = "Image" ->
         CASE kind = "Deployment" -> {"secrets", "containers"}
           [] kind = "Image" -> {"secrets", "image"}
           [] OTHER -> {}
    [] fn = "Gateway" -> IF kind = "Gateway" THEN {"selector"} ELSE {}
    [] fn = "CustomCerts" -> IF kind = "Deployment" THEN {"volumes", "containers"} ELSE {}
    [] fn = "HighAvailability" ->
         CASE kind = "ConfigMap" -> {"data"}
           [] kind = "Deployment" -> {"replicas"}
           [] kind = "HorizontalPodAutoscaler" -> {"min"}
           [] OTHER -> {}
    [] fn = "ResourceRequirements" -> IF kind = "Deployment" THEN {"containers"} ELSE {}

Names == {"InjectOwner", "InjectNamespace", "ConfigMap", "Image", "Gateway",
          "CustomCerts", "HighAvailability", "ResourceRequirements"}

\* A resource is none that a transformer failed on.
LEMMA NoFailure ==
  ASSUME NEW u, ShippedResource(u)
  PROVE  u # Failure
BY DEF ShippedResource, Failure

\* What each transformer does, by name.
LEMMA Applied ==
  ASSUME NEW u, NEW s, ShippedResource(u)
  PROVE  /\ Apply("InjectOwner", u, s) = InjectOwner(u)
         /\ Apply("InjectNamespace", u, s) = InjectNamespace(u)
         /\ Apply("ConfigMap", u, s) = ConfigMapTransform(u, s)
         /\ Apply("Image", u, s) = ImageTransform(u, s)
         /\ Apply("Gateway", u, s) = GatewayTransform(u, s)
         /\ Apply("CustomCerts", u, s) = CustomCertsTransform(u, s)
         /\ Apply("HighAvailability", u, s) = HighAvailabilityTransform(u, s)
         /\ Apply("ResourceRequirements", u, s) = ResourceRequirementsTransform(u, s)
BY NoFailure DEF Apply

\* InjectOwner (transform.go) writes the owner of what belongs to a namespace.
LEMMA OwnerWrites ==
  ASSUME NEW u, ShippedResource(u)
  PROVE  Rewritten(InjectOwner(u), u, Writes("InjectOwner", u.kind))
BY DEF InjectOwner, Rewritten, Writes, ShippedResource, IsFunction

\* InjectNamespace (transform.go) writes one or two fields of each kind.
LEMMA NamespaceWrites ==
  ASSUME NEW u, ShippedResource(u)
  PROVE  Rewritten(InjectNamespace(u), u, Writes("InjectNamespace", u.kind))
BY DEF InjectNamespace, Rewritten, Writes, ShippedResource, IsFunction, ClusterScoped, Bindings, Callers

\* ConfigMapTransform (config_maps.go) writes the entries.
LEMMA ConfigMapWrites ==
  ASSUME NEW u, NEW s, ShippedResource(u)
  PROVE  Rewritten(ConfigMapTransform(u, s), u, Writes("ConfigMap", u.kind))
BY DEF ConfigMapTransform, UpdateConfigMap, Rewritten, Writes, ShippedResource, IsFunction

\* ImageTransform (images.go) writes images and pull secrets.
LEMMA ImageWrites ==
  ASSUME NEW u, NEW s, ShippedResource(u)
  PROVE  Rewritten(ImageTransform(u, s), u, Writes("Image", u.kind))
<1>1. IsFunction(u)
  BY DEF ShippedResource
<1>2. CASE u.kind = "Deployment"
  <2>1. ImageTransform(u, s) = UpdateRegistry(u, s.registry)
    BY <1>2 DEF ImageTransform
  <2>2. Writes("Image", u.kind) = {"secrets", "containers"}
    BY <1>2 DEF Writes
  <2> QED  BY <1>1, <2>1, <2>2 DEF UpdateRegistry, Rewritten, IsFunction
<1>3. CASE u.kind = "Image"
  <2>1. ImageTransform(u, s) = UpdateCachingImage(u, s.registry)
    BY <1>3 DEF ImageTransform
  <2>2. Writes("Image", u.kind) = {"secrets", "image"}
    BY <1>3 DEF Writes
  <2> QED  BY <1>1, <2>1, <2>2 DEF UpdateCachingImage, Rewritten, IsFunction
<1>4. CASE u.kind \notin {"Deployment", "Image"}
  <2>1. ImageTransform(u, s) = u
    BY <1>4 DEF ImageTransform, ShippedResource
  <2> QED  BY <1>1, <2>1 DEF Rewritten
<1> QED  BY <1>2, <1>3, <1>4

\* GatewayTransform (gateway.go) writes the selector.
LEMMA GatewayWrites ==
  ASSUME NEW u, NEW s, ShippedResource(u)
  PROVE  Rewritten(GatewayTransform(u, s), u, Writes("Gateway", u.kind))
BY DEF GatewayTransform, UpdateGateway, Rewritten, Writes, ShippedResource, IsFunction

\* CustomCertsTransform (certs.go) writes volumes and containers, unless it refuses.
LEMMA CertsWrites ==
  ASSUME NEW u, NEW s, ShippedResource(u), ~Refused(u, s)
  PROVE  Rewritten(CustomCertsTransform(u, s), u, Writes("CustomCerts", u.kind))
BY DEF CustomCertsTransform, ConfigureCustomCerts, Refused, Rewritten, Writes, ShippedResource, IsFunction

\* HighAvailabilityTransform (ha.go) writes one field of each of three kinds.
LEMMA AvailabilityWrites ==
  ASSUME NEW u, NEW s, ShippedResource(u)
  PROVE  Rewritten(HighAvailabilityTransform(u, s), u, Writes("HighAvailability", u.kind))
BY DEF HighAvailabilityTransform, Rewritten, Writes, ShippedResource, IsFunction

\* ResourceRequirementsTransform (resources.go) writes the containers.
LEMMA RequirementsWrites ==
  ASSUME NEW u, NEW s, ShippedResource(u)
  PROVE  Rewritten(ResourceRequirementsTransform(u, s), u, Writes("ResourceRequirements", u.kind))
<1>1. IsFunction(u)
  BY DEF ShippedResource
<1>2. CASE u.kind = "Deployment"
  <2> DEFINE cs == [i \in DOMAIN u.containers |->
          LET c == u.containers[i]
          IN  IF OverridesOf(s, c.name) = {} THEN c
              ELSE [c EXCEPT !.limits = Overlay(@, Find(s, c.name).limits),
                             !.requests = Overlay(@, Find(s, c.name).requests)]]
  <2>1. ResourceRequirementsTransform(u, s) = [u EXCEPT !.containers = cs]
    BY <1>2 DEF ResourceRequirementsTransform
  <2>2. Writes("ResourceRequirements", u.kind) = {"containers"}
    BY <1>2 DEF Writes
  <2> HIDE DEF cs
  <2> QED  BY <1>1, <2>1, <2>2 DEF Rewritten, IsFunction
<1>3. CASE u.kind # "Deployment"
  BY <1>1, <1>3 DEF ResourceRequirementsTransform, Rewritten
<1> QED  BY <1>2, <1>3

\* A sequence is one of its own elements.
LEMMA OfItsElements ==
  ASSUME NEW T, NEW q \in Seq(T)
  PROVE  IsSequence(q)
<1> DEFINE S == {q[i] : i \in DOMAIN q}
<1>1. Len(q) \in Nat /\ q \in [1 .. Len(q) -> T] /\ DOMAIN q = 1 .. Len(q)
  BY LenProperties
<1>2. \A i \in DOMAIN q : q[i] \in S
  OBVIOUS
<1> HIDE DEF S
<1>3. q \in [1 .. Len(q) -> S]
  BY <1>1, <1>2
<1>4. q \in Seq(S)
  BY <1>1, <1>3, SeqDef
<1> QED  BY <1>4 DEF IsSequence, S

\* A sequence, its length and its elements, and one element more.
LEMMA SequenceFacts ==
  ASSUME NEW q, IsSequence(q)
  PROVE  /\ IsFunction(q) /\ Len(q) \in Nat /\ DOMAIN q = 1 .. Len(q)
         /\ q \o <<>> = q
         /\ \A e : IsSequence(Append(q, e)) /\ Append(q, e) = q \o <<e>>
<1> DEFINE S == {q[i] : i \in DOMAIN q}
<1>1. q \in Seq(S)
  BY DEF IsSequence
<1> HIDE DEF S
<1>2. Len(q) \in Nat /\ q \in [1 .. Len(q) -> S] /\ DOMAIN q = 1 .. Len(q)
  BY <1>1, LenProperties
<1>3. q \o <<>> = q
  BY <1>1, ConcatEmptySeq
<1>4. ASSUME NEW e
      PROVE  IsSequence(Append(q, e)) /\ Append(q, e) = q \o <<e>>
  <2> DEFINE T == S \cup {e}
             a == Append(q, e)
  <2>1. q \in Seq(T) /\ e \in T
    BY <1>1, SeqMonotonic
  <2> HIDE DEF T
  <2>2. a \in Seq(T) /\ a = q \o <<e>>
    BY <2>1, AppendProperties, AppendIsConcat
  <2> HIDE DEF a
  <2>3. IsSequence(a)
    BY <2>2, OfItsElements
  <2> QED  BY <2>2, <2>3 DEF a
<1> QED  BY <1>2, <1>3, <1>4 DEF IsFunction

-----------------------------------------------------------------------------
(* Every transformer leaves a resource of the shape it found.               *)

\* What an image becomes is an image.
LEMMA ImageStays ==
  ASSUME NEW registry, NEW name, NEW shipped, shipped # NoImage
  PROVE  UpdatedImage(registry, name, shipped) # NoImage
BY DEF UpdatedImage

\* Entries on top of entries are entries.
LEMMA OverlayIsFunction ==
  ASSUME NEW f, NEW g
  PROVE  IsFunction(Overlay(f, g))
BY DEF Overlay, IsFunction

\* A container with another image.
LEMMA ContainerImage ==
  ASSUME NEW c, ShippedContainer(c), NEW image, image # NoImage
  PROVE  ShippedContainer([c EXCEPT !.image = image])
BY DEF ShippedContainer, IsFunction

\* A container with one more mount.
LEMMA ContainerMount ==
  ASSUME NEW c, ShippedContainer(c), NEW mount
  PROVE  ShippedContainer([c EXCEPT !.mounts = Append(@, mount)])
<1>1. IsSequence(Append(c.mounts, mount))
  BY SequenceFacts DEF ShippedContainer
<1> QED  BY <1>1 DEF ShippedContainer, IsFunction

\* A container with other amounts.
LEMMA ContainerAmounts ==
  ASSUME NEW c, ShippedContainer(c), NEW f, NEW g
  PROVE  ShippedContainer([c EXCEPT !.limits = Overlay(@, f), !.requests = Overlay(@, g)])
<1> DEFINE l == Overlay(c.limits, f)
           r == Overlay(c.requests, g)
<1>1. IsFunction(l) /\ IsFunction(r)
  BY OverlayIsFunction
<1> HIDE DEF l, r
<1>2. ShippedContainer([c EXCEPT !.limits = l, !.requests = r])
  BY <1>1 DEF ShippedContainer, IsFunction
<1> QED  BY <1>2 DEF l, r

\* A deployment with other containers and volumes, and whatever else.
LEMMA DeploymentKept ==
  ASSUME NEW u, NEW v, ShippedResource(u), u.kind = "Deployment",
         IsFunction(v), DOMAIN v = DOMAIN u, v.kind = u.kind,
         IsFunction(v.containers),
         \A i \in DOMAIN v.containers : ShippedContainer(v.containers[i]),
         IsSequence(v.volumes)
  PROVE  ShippedResource(v)
<1>1. {"kind", "name", "containers", "secrets", "volumes", "replicas"} \subseteq DOMAIN u
  BY DEF ShippedResource
<1> QED  BY <1>1 DEF ShippedResource, Failure

\* The fields of a deployment's shape are no others than its containers and volumes.
LEMMA OthersKept ==
  ASSUME NEW u, NEW v, NEW fields, ShippedResource(u), Rewritten(v, u, fields),
         fields \cap {"kind", "containers", "volumes"} = {},
         u.kind # "Namespace" => "name" \notin fields,
         u.kind = "ConfigMap" => IsFunction(v.data),
         u.kind = "HorizontalPodAutoscaler" => v.min \in Nat
  PROVE  ShippedResource(v)
<1>1. IsFunction(v) /\ DOMAIN v = DOMAIN u /\ v.kind = u.kind
  BY DEF ShippedResource, Rewritten
<1>2. CASE u.kind = "Deployment"
  <2>1. v.containers = u.containers /\ v.volumes = u.volumes
    BY <1>2 DEF ShippedResource, Rewritten
  <2> QED  BY <1>1, <1>2, <2>1, DeploymentKept DEF ShippedResource
<1>3. CASE u.kind # "Deployment"
  <2>1. u.kind # "Namespace" => v.name = u.name
    BY DEF ShippedResource, Rewritten
  <2> QED  BY <1>1, <1>3, <2>1 DEF ShippedResource, Failure
<1> QED  BY <1>2, <1>3

\* InjectOwner keeps the shape of a resource.
LEMMA OwnerKeeps ==
  ASSUME NEW u, ShippedResource(u)
  PROVE  ShippedResource(InjectOwner(u))
<1>1. Rewritten(InjectOwner(u), u, {"owner"})
  BY OwnerWrites DEF Rewritten, Writes
<1>2. /\ u.kind = "ConfigMap" => InjectOwner(u).data = u.data /\ IsFunction(u.data)
      /\ u.kind = "HorizontalPodAutoscaler" => InjectOwner(u).min = u.min /\ u.min \in Nat
  BY <1>1 DEF Rewritten, ShippedResource
<1> QED  BY <1>1, <1>2, OthersKept

\* InjectNamespace keeps it, but for the name of a Namespace.
LEMMA NamespaceKeeps ==
  ASSUME NEW u, ShippedResource(u)
  PROVE  ShippedResource(InjectNamespace(u))
<1> DEFINE fields == IF u.kind = "Namespace" THEN {"name"} ELSE {"namespace", "subject", "service"}
<1>1. Rewritten(InjectNamespace(u), u, fields)
  BY NamespaceWrites DEF Rewritten, Writes, Callers
<1>2. /\ u.kind = "ConfigMap" => InjectNamespace(u).data = u.data /\ IsFunction(u.data)
      /\ u.kind = "HorizontalPodAutoscaler" => InjectNamespace(u).min = u.min /\ u.min \in Nat
  BY <1>1 DEF Rewritten, ShippedResource
<1>3. /\ fields \cap {"kind", "containers", "volumes"} = {}
      /\ u.kind # "Namespace" => "name" \notin fields
  OBVIOUS
<1> HIDE DEF fields
<1> QED  BY <1>1, <1>2, <1>3, OthersKept

\* ConfigMapTransform keeps it.
LEMMA ConfigMapKeeps ==
  ASSUME NEW u, NEW s, ShippedResource(u)
  PROVE  ShippedResource(ConfigMapTransform(u, s))
<1> DEFINE v == ConfigMapTransform(u, s)
<1>1. Rewritten(v, u, Writes("ConfigMap", u.kind))
  BY ConfigMapWrites
<1>2. CASE u.kind = "ConfigMap"
  <2>1. v.data \in {u.data, Overlay(u.data, s.config[Cut[u.name]])}
    BY <1>2 DEF ConfigMapTransform, UpdateConfigMap, ShippedResource
  <2>2. IsFunction(v.data)
    BY <1>2, <2>1, OverlayIsFunction DEF ShippedResource
  <2>3. Rewritten(v, u, {"data"})
    BY <1>1, <1>2 DEF Writes
  <2> HIDE DEF v
  <2>4. ShippedResource(v)
    BY <1>2, <2>2, <2>3, OthersKept
  <2> QED  BY <2>4 DEF v
<1>3. CASE u.kind # "ConfigMap"
  BY <1>3 DEF ConfigMapTransform
<1> QED  BY <1>2, <1>3

\* ImageTransform keeps it, and leaves no container without an image.
LEMMA ImageKeeps ==
  ASSUME NEW u, NEW s, ShippedResource(u)
  PROVE  ShippedResource(ImageTransform(u, s))
<1> DEFINE v == ImageTransform(u, s)
<1>1. Rewritten(v, u, Writes("Image", u.kind))
  BY ImageWrites
<1>2. CASE u.kind = "Deployment"
  <2>1. v.containers = [i \in DOMAIN u.containers |->
               [u.containers[i] EXCEPT !.image =
                  UpdatedImage(s.registry, u.containers[i].name, @)]]
    BY <1>2 DEF ImageTransform, UpdateRegistry, ShippedResource
  <2>2. \A i \in DOMAIN u.containers :
          ShippedContainer([u.containers[i] EXCEPT !.image =
                  UpdatedImage(s.registry, u.containers[i].name, @)])
    <3> SUFFICES ASSUME NEW i \in DOMAIN u.containers
                 PROVE  ShippedContainer([u.containers[i] EXCEPT !.image =
                          UpdatedImage(s.registry, u.containers[i].name, @)])
      OBVIOUS
    <3>1. ShippedContainer(u.containers[i])
      BY <1>2 DEF ShippedResource
    <3>2. UpdatedImage(s.registry, u.containers[i].name, u.containers[i].image) # NoImage
      BY <3>1, ImageStays DEF ShippedContainer
    <3> QED  BY <3>1, <3>2, ContainerImage
  <2>3. IsFunction(v.containers) /\ \A i \in DOMAIN v.containers : ShippedContainer(v.containers[i])
    BY <2>1, <2>2 DEF IsFunction
  <2>4. v.volumes = u.volumes /\ v.kind = u.kind /\ IsSequence(u.volumes)
    BY <1>1, <1>2 DEF Rewritten, Writes, ShippedResource
  <2>5. IsFunction(v) /\ DOMAIN v = DOMAIN u
    BY <1>1 DEF Rewritten
  <2> HIDE DEF v
  <2>6. ShippedResource(v)
    BY <1>2, <2>3, <2>4, <2>5, DeploymentKept
  <2> QED  BY <2>6 DEF v
<1>3. CASE u.kind # "Deployment"
  <2>1. Rewritten(v, u, {"secrets", "image"})
    BY <1>1, <1>3 DEF Rewritten, Writes
  <2>2. /\ u.kind = "ConfigMap" => v.data = u.data /\ IsFunction(u.data)
        /\ u.kind = "HorizontalPodAutoscaler" => v.min = u.min /\ u.min \in Nat
    BY <2>1 DEF Rewritten, ShippedResource
  <2> HIDE DEF v
  <2>3. ShippedResource(v)
    BY <2>1, <2>2, OthersKept
  <2> QED  BY <2>3 DEF v
<1> QED  BY <1>2, <1>3

\* GatewayTransform keeps it.
LEMMA GatewayKeeps ==
  ASSUME NEW u, NEW s, ShippedResource(u)
  PROVE  ShippedResource(GatewayTransform(u, s))
<1> DEFINE v == GatewayTransform(u, s)
<1>1. Rewritten(v, u, {"selector"})
  BY GatewayWrites DEF Rewritten, Writes
<1>2. /\ u.kind = "ConfigMap" => v.data = u.data /\ IsFunction(u.data)
      /\ u.kind = "HorizontalPodAutoscaler" => v.min = u.min /\ u.min \in Nat
  BY <1>1 DEF Rewritten, ShippedResource
<1> HIDE DEF v
<1>3. ShippedResource(v)
  BY <1>1, <1>2, OthersKept
<1> QED  BY <1>3 DEF v

\* CustomCertsTransform keeps it, unless it refuses.
LEMMA CertsKeep ==
  ASSUME NEW u, NEW s, ShippedResource(u), UserSpec(s), ~Refused(u, s)
  PROVE  ShippedResource(CustomCertsTransform(u, s))
<1> DEFINE v == CustomCertsTransform(u, s)
<1>1. CASE s.certs # NoCerts /\ u.kind = "Deployment" /\ u.name = "controller"
  <2>1. v = [u EXCEPT !.volumes = Append(@, s.certs),
                      !.containers[1].mounts = Append(@, s.certs.name)]
    BY <1>1 DEF CustomCertsTransform, ConfigureCustomCerts, Refused
  <2>3. v.volumes = Append(u.volumes, s.certs) /\ v.kind = u.kind
    BY <1>1, <2>1 DEF ShippedResource
  <2>4. IsSequence(v.volumes)
    <3>1. IsSequence(u.volumes)
      BY <1>1 DEF ShippedResource
    <3>2. IsSequence(Append(u.volumes, s.certs))
      BY <3>1, SequenceFacts
    <3> QED  BY <2>3, <3>2
  <2> DEFINE cs == u.containers
             first == [cs[1] EXCEPT !.mounts = Append(@, s.certs.name)]
  <2>5. v.containers = [cs EXCEPT ![1] = first]
    BY <1>1, <2>1 DEF ShippedResource
  <2>6. IsFunction(v.containers) /\ \A i \in DOMAIN v.containers : ShippedContainer(v.containers[i])
    <3>1. IsFunction(cs) /\ \A i \in DOMAIN cs : ShippedContainer(cs[i])
      BY <1>1 DEF ShippedResource
    <3>2. 1 \in DOMAIN cs => ShippedContainer(first)
      BY <3>1, ContainerMount
    <3> HIDE DEF cs, first, v
    <3> QED  BY <2>5, <3>1, <3>2, ExceptAt DEF IsFunction
  <2>7. IsFunction(v) /\ DOMAIN v = DOMAIN u
    BY CertsWrites DEF Rewritten
  <2> HIDE DEF v
  <2>8. ShippedResource(v)
    BY <1>1, <2>3, <2>4, <2>6, <2>7, DeploymentKept
  <2> QED  BY <2>8 DEF v
<1>2. CASE ~(s.certs # NoCerts /\ u.kind = "Deployment" /\ u.name = "controller")
  BY <1>2 DEF CustomCertsTransform
<1> QED  BY <1>1, <1>2

\* HighAvailabilityTransform keeps it.
LEMMA AvailabilityKeeps ==
  ASSUME NEW u, NEW s, ShippedResource(u), UserSpec(s)
  PROVE  ShippedResource(HighAvailabilityTransform(u, s))
<1> DEFINE v == HighAvailabilityTransform(u, s)
<1>1. Rewritten(v, u, {"data", "replicas", "min"})
  BY AvailabilityWrites DEF Rewritten, Writes
<1>2. u.kind = "ConfigMap" => IsFunction(v.data)
  <2>1. SUFFICES ASSUME u.kind = "ConfigMap" PROVE IsFunction(v.data)
    OBVIOUS
  <2> DEFINE entries == [x \in {EnabledComponents} |-> ComponentsValue]
  <2>2. v.data \in {u.data, Overlay(u.data, entries)}
    BY <2>1 DEF HighAvailabilityTransform, ShippedResource
  <2> HIDE DEF entries
  <2> QED  BY <2>1, <2>2, OverlayIsFunction DEF ShippedResource
<1>3. u.kind = "HorizontalPodAutoscaler" => v.min \in Nat
  BY DEF HighAvailabilityTransform, ShippedResource, Floor, UserSpec
<1> HIDE DEF v
<1>4. ShippedResource(v)
  BY <1>1, <1>2, <1>3, OthersKept
<1> QED  BY <1>4 DEF v

\* ResourceRequirementsTransform keeps it.
LEMMA RequirementsKeep ==
  ASSUME NEW u, NEW s, ShippedResource(u)
  PROVE  ShippedResource(ResourceRequirementsTransform(u, s))
<1> DEFINE v == ResourceRequirementsTransform(u, s)
<1>1. Rewritten(v, u, Writes("ResourceRequirements", u.kind))
  BY RequirementsWrites
<1>2. CASE u.kind = "Deployment"
  <2> DEFINE new(i) ==
        LET c == u.containers[i]
        IN  IF OverridesOf(s, c.name) = {} THEN c
            ELSE [c EXCEPT !.limits = Overlay(@, Find(s, c.name).limits),
                           !.requests = Overlay(@, Find(s, c.name).requests)]
  <2>1. v.containers = [i \in DOMAIN u.containers |-> new(i)]
    BY <1>2 DEF ResourceRequirementsTransform, ShippedResource
  <2>2. \A i \in DOMAIN u.containers : ShippedContainer(new(i))
    BY <1>2, ContainerAmounts DEF ShippedResource
  <2> HIDE DEF new
  <2>3. IsFunction(v.containers) /\ \A i \in DOMAIN v.containers : ShippedContainer(v.containers[i])
    BY <2>1, <2>2 DEF IsFunction
  <2>4. v.volumes = u.volumes /\ v.kind = u.kind /\ IsSequence(u.volumes)
    BY <1>1, <1>2 DEF Rewritten, Writes, ShippedResource
  <2>5. IsFunction(v) /\ DOMAIN v = DOMAIN u
    BY <1>1 DEF Rewritten
  <2> HIDE DEF v
  <2>6. ShippedResource(v)
    BY <1>2, <2>3, <2>4, <2>5, DeploymentKept
  <2> QED  BY <2>6 DEF v
<1>3. CASE u.kind # "Deployment"
  BY <1>3 DEF ResourceRequirementsTransform
<1> QED  BY <1>2, <1>3

-----------------------------------------------------------------------------
(* What the helpers of the transformers compute is what the spec asks for.  *)

\* updateImage and getNewImage (images.go): the override, or the template with the
\* name in it, or what was shipped.
LEMMA ImageAsSpecified ==
  ASSUME NEW s, UserSpec(s), NEW name, name # "", NEW shipped
  PROVE  UpdatedImage(s.registry, name, shipped) = SpecifiedImage(name, shipped, s)
<1> DEFINE template == s.registry.default
           named == ReplaceName(template, name)
           override == Entry(s.registry.override, name, NoImage)
<1>1. IsImage(template)
  BY DEF UserSpec
<1>2. template = NoImage => named = NoImage
  <2>1. IsFunction(NoImage) /\ DOMAIN NoImage = {"from", "name"} /\ NoImage.name = ""
    BY DEF NoImage, IsFunction
  <2>2. named = [template EXCEPT !.name = IF @ = NameVariable THEN name ELSE @]
    BY DEF ReplaceName
  <2>3. "" # NameVariable
    BY DEF NameVariable
  <2> HIDE DEF template, named
  <2> QED  BY <2>1, <2>2, <2>3 DEF IsFunction
<1>3. template # NoImage => named # NoImage
  BY <1>1 DEF ReplaceName, NoImage, NameVariable, IsImage, IsFunction
<1>4. named = [template EXCEPT !.name = IF @ = NameVariable THEN name ELSE @]
  BY DEF ReplaceName
<1>5. GetNewImage(s.registry, name) = IF override # NoImage THEN override ELSE named
  BY DEF GetNewImage, Entry
<1>6. SpecifiedImage(name, shipped, s)
        = IF override # NoImage THEN override ELSE IF template = NoImage THEN shipped ELSE named
  BY <1>4 DEF SpecifiedImage
<1> HIDE DEF template, named, override
<1> QED  BY <1>2, <1>3, <1>5, <1>6 DEF UpdatedImage

\* A set of naturals that is not empty has a least member.
LEMMA LeastMember ==
  ASSUME NEW S, S \subseteq Nat, S # {}
  PROVE  \E i \in S : \A j \in S : i <= j
<1> DEFINE less == OpToRel(<, Nat)
<1>1. IsWellFoundedOn(less, Nat)
  BY NatLessThanWellFounded, Zenon
<1>2. \A x, y \in Nat : (<<y, x>> \in less) <=> y < x
  BY Zenon DEF OpToRel
<1> HIDE DEF less
<1>3. PICK x \in S : \A y \in S : ~ (<<y, x>> \in less)
  BY <1>1, WFMin
<1>4. \A y \in S : x <= y
  <2> SUFFICES ASSUME NEW y \in S PROVE x <= y
    OBVIOUS
  <2>1. ~ (y < x)
    BY <1>2, <1>3
  <2> QED  BY <2>1
<1> QED  BY <1>4

\* find and merge (resources.go): the first override of the container counts.
LEMMA AmountsAsSpecified ==
  ASSUME NEW s, UserSpec(s), NEW container, NEW shipped, IsFunction(shipped),
         NEW which \in {"limits", "requests"}
  PROVE  SpecifiedAmounts(container, which, shipped, s)
           = IF OverridesOf(s, container) = {} THEN shipped
             ELSE Overlay(shipped, Find(s, container)[which])
<1> DEFINE of == OverridesOf(s, container)
           first == {i \in DOMAIN s.resources :
                       /\ s.resources[i].container = container
                       /\ \A j \in 1 .. i - 1 : s.resources[j].container # container}
           amounts == [x \in UNION {DOMAIN s.resources[i][which] : i \in first} |->
                    LET i == CHOOSE i \in first : TRUE IN s.resources[i][which][x]]
<1>1. DOMAIN s.resources = 1 .. Len(s.resources) /\ Len(s.resources) \in Nat
  BY SequenceFacts DEF UserSpec
<1>2. SpecifiedAmounts(container, which, shipped, s)
        = [x \in DOMAIN shipped \cup DOMAIN amounts |-> Entry(amounts, x, shipped[x])]
  BY DEF SpecifiedAmounts
<1>3. CASE of = {}
  <2>1. first = {}
    BY <1>3 DEF OverridesOf
  <2>2. DOMAIN amounts = {}
    <3> HIDE DEF first
    <3> QED  BY <2>1
  <2> HIDE DEF amounts, of
  <2> QED  BY <1>2, <1>3, <2>2 DEF Entry, IsFunction, of
<1>4. CASE of # {}
  <2> DEFINE k == CHOOSE i \in of : \A j \in of : i <= j
  <2>1. of \subseteq Nat
    BY <1>1 DEF OverridesOf
  <2>2. k \in of /\ \A j \in of : k <= j
    <3> HIDE DEF of
    <3> QED  BY <1>4, <2>1, LeastMember
  <2>3. first = {k}
    <3> HIDE DEF k
    <3>1. k \in first
      BY <1>1, <2>2 DEF OverridesOf
    <3>2. \A i \in first : i = k
      BY <1>1, <2>2 DEF OverridesOf
    <3> HIDE DEF first
    <3> QED  BY <3>1, <3>2
  <2>4. Find(s, container) = s.resources[k]
    BY DEF Find
  <2>5. UNION {DOMAIN s.resources[i][which] : i \in first} = DOMAIN s.resources[k][which]
    <3> HIDE DEF first, k
    <3> QED  BY <2>3
  <2>6. (CHOOSE i \in first : TRUE) = k
    <3> HIDE DEF first, k
    <3> QED  BY <2>3
  <2>7. /\ DOMAIN amounts = DOMAIN s.resources[k][which]
        /\ \A x \in DOMAIN amounts : amounts[x] = s.resources[k][which][x]
    <3> HIDE DEF first, k
    <3> QED  BY <2>3, <2>5, <2>6
  <2> HIDE DEF amounts, k, of
  <2> QED  BY <1>2, <1>4, <2>4, <2>7 DEF Entry, Overlay, of
<1> QED  BY <1>3, <1>4

\* UpdateConfigMap (config_maps.go), twice for the leader election: the shipped entries,
\* then the user's, then the components.
LEMMA DataAsSpecified ==
  ASSUME NEW s, NEW u, IsFunction(u.data),
         NEW data, data = IF Cut[u.name] \in DOMAIN s.config
                          THEN Overlay(u.data, s.config[Cut[u.name]]) ELSE u.data
  PROVE  SpecifiedData(u, s)
           = IF s.ha # NoHA /\ u.name = LeaderElection
             THEN Overlay(data, [x \in {EnabledComponents} |-> ComponentsValue]) ELSE data
BY DEF SpecifiedData, Entry, Overlay, IsFunction, NoEntries

-----------------------------------------------------------------------------
(* The transformers one after the other.                                    *)

\* No transformer changes the kind, and only InjectNamespace the name, of a Namespace.
LEMMA KindIsKept ==
  ASSUME NEW u, NEW v, NEW fn \in Names, ShippedResource(u),
         Rewritten(v, u, Writes(fn, u.kind))
  PROVE  v.kind = u.kind /\ (u.kind # "Namespace" => v.name = u.name)
<1>1. "kind" \notin Writes(fn, u.kind)
  BY DEF Names, Writes
<1>2. u.kind # "Namespace" => "name" \notin Writes(fn, u.kind)
  BY DEF Names, Writes
<1> QED  BY <1>1, <1>2 DEF Rewritten, ShippedResource

\* A transformer that does not refuse a resource keeps its shape and writes its fields.
LEMMA StepKept ==
  ASSUME NEW s, UserSpec(s), NEW u, ShippedResource(u), NEW fn \in Names,
         fn = "CustomCerts" => ~Refused(u, s)
  PROVE  LET v == Apply(fn, u, s)
         IN  /\ ShippedResource(v) /\ Rewritten(v, u, Writes(fn, u.kind))
             /\ v.kind = u.kind /\ (u.kind # "Namespace" => v.name = u.name)
             /\ Refused(v, s) <=> Refused(u, s)
<1> DEFINE v == Apply(fn, u, s)
<1>1. ShippedResource(v) /\ Rewritten(v, u, Writes(fn, u.kind))
  <2>1. CASE fn = "InjectOwner"
    BY <2>1, Applied, OwnerKeeps, OwnerWrites
  <2>2. CASE fn = "InjectNamespace"
    BY <2>2, Applied, NamespaceKeeps, NamespaceWrites
  <2>3. CASE fn = "ConfigMap"
    BY <2>3, Applied, ConfigMapKeeps, ConfigMapWrites
  <2>4. CASE fn = "Image"
    BY <2>4, Applied, ImageKeeps, ImageWrites
  <2>5. CASE fn = "Gateway"
    BY <2>5, Applied, GatewayKeeps, GatewayWrites
  <2>6. CASE fn = "CustomCerts"
    BY <2>6, Applied, CertsKeep, CertsWrites
  <2>7. CASE fn = "HighAvailability"
    BY <2>7, Applied, AvailabilityKeeps, AvailabilityWrites
  <2>8. CASE fn = "ResourceRequirements"
    BY <2>8, Applied, RequirementsKeep, RequirementsWrites
  <2> QED  BY <2>1, <2>2, <2>3, <2>4, <2>5, <2>6, <2>7, <2>8 DEF Names
<1> HIDE DEF v
<1>2. v.kind = u.kind /\ (u.kind # "Namespace" => v.name = u.name)
  BY <1>1, KindIsKept
<1>3. Refused(v, s) <=> Refused(u, s)
  BY <1>2 DEF Refused
<1> QED  BY <1>1, <1>2, <1>3 DEF v

\* A resource on its way: of the kind, and but for a Namespace the name, it was shipped with.
Turning(v, u, s) ==
  /\ ShippedResource(v) /\ DOMAIN v = DOMAIN u
  /\ v.kind = u.kind /\ (u.kind # "Namespace" => v.name = u.name)
  /\ Refused(v, s) <=> Refused(u, s)

\* StepKept, of a resource on its way.
LEMMA TurningKept ==
  ASSUME NEW s, UserSpec(s), NEW u, NEW v, Turning(v, u, s), NEW fn \in Names,
         fn = "CustomCerts" => ~Refused(u, s)
  PROVE  /\ Turning(Apply(fn, v, s), u, s)
         /\ Rewritten(Apply(fn, v, s), v, Writes(fn, u.kind))
BY StepKept DEF Turning, Rewritten

\* The first five transformers bring every resource on, the others those that are not
\* refused.
LEMMA AllTurning ==
  ASSUME NEW s, UserSpec(s), NEW u, ShippedResource(u)
  PROVE  /\ Turning(u, u, s)
         /\ Turning(Turned1(u, s), u, s) /\ Turning(Turned2(u, s), u, s)
         /\ Turning(Turned3(u, s), u, s) /\ Turning(Turned4(u, s), u, s)
         /\ Turning(Turned5(u, s), u, s)
         /\ Rewritten(Turned3(u, s), Turned2(u, s), Writes("ConfigMap", u.kind))
         /\ Rewritten(Turned4(u, s), Turned3(u, s), Writes("Image", u.kind))
         /\ Rewritten(Turned5(u, s), Turned4(u, s), Writes("Gateway", u.kind))
         /\ ~Refused(u, s) =>
              /\ Turning(Turned6(u, s), u, s) /\ Turning(Turned7(u, s), u, s)
              /\ Turning(Turned8(u, s), u, s)
              /\ Rewritten(Turned6(u, s), Turned5(u, s), Writes("CustomCerts", u.kind))
              /\ Rewritten(Turned7(u, s), Turned6(u, s), Writes("HighAvailability", u.kind))
              /\ Rewritten(Turned8(u, s), Turned7(u, s), Writes("ResourceRequirements", u.kind))
<1>0. Turning(u, u, s)
  BY DEF Turning
<1>1. Turning(Turned1(u, s), u, s)
  BY <1>0, TurningKept DEF Turned1, Names
<1>2. Turning(Turned2(u, s), u, s)
  BY <1>1, TurningKept DEF Turned2, Names
<1>3. Turning(Turned3(u, s), u, s) /\ Rewritten(Turned3(u, s), Turned2(u, s), Writes("ConfigMap", u.kind))
  BY <1>2, TurningKept DEF Turned3, Names
<1>4. Turning(Turned4(u, s), u, s) /\ Rewritten(Turned4(u, s), Turned3(u, s), Writes("Image", u.kind))
  BY <1>3, TurningKept DEF Turned4, Names
<1>5. Turning(Turned5(u, s), u, s) /\ Rewritten(Turned5(u, s), Turned4(u, s), Writes("Gateway", u.kind))
  BY <1>4, TurningKept DEF Turned5, Names
<1>6. ASSUME ~Refused(u, s)
      PROVE  /\ Turning(Turned6(u, s), u, s)
             /\ Rewritten(Turned6(u, s), Turned5(u, s), Writes("CustomCerts", u.kind))
  BY <1>5, <1>6, TurningKept DEF Turned6, Names
<1>7. ASSUME ~Refused(u, s)
      PROVE  /\ Turning(Turned7(u, s), u, s)
             /\ Rewritten(Turned7(u, s), Turned6(u, s), Writes("HighAvailability", u.kind))
  BY <1>6, <1>7, TurningKept DEF Turned7, Names
<1>8. ASSUME ~Refused(u, s)
      PROVE  /\ Turning(Turned8(u, s), u, s)
             /\ Rewritten(Turned8(u, s), Turned7(u, s), Writes("ResourceRequirements", u.kind))
  BY <1>7, <1>8, TurningKept DEF Turned8, Names
<1> QED  BY <1>0, <1>1, <1>2, <1>3, <1>4, <1>5, <1>6, <1>7, <1>8

-----------------------------------------------------------------------------
(* What the transformers make of each kind is what the spec asks for.       *)

\* A resource none of whose fields is written stays as it is.
LEMMA NothingWritten ==
  ASSUME NEW u, NEW v, Rewritten(v, u, {}), ShippedResource(u)
  PROVE  v = u
BY SameFunction DEF Rewritten, ShippedResource

Owned(u) == [u EXCEPT !.owner = Owner, !.namespace = Namespace]

\* The kinds that belong to a namespace and have none in their other fields.
LEMMA OwnedFirst ==
  ASSUME NEW s, NEW u, UserSpec(s), ShippedResource(u),
         u.kind \notin ClusterScoped \cup Bindings \cup Callers
  PROVE  /\ Turned2(u, s) = Owned(u)
         /\ IsFunction(Owned(u)) /\ DOMAIN Owned(u) = DOMAIN u
         /\ \A x \in DOMAIN u \ {"owner", "namespace"} : Owned(u)[x] = u[x]
<1>1. Turned1(u, s) = [u EXCEPT !.owner = Owner]
  BY Applied DEF Turned1, InjectOwner
<1>2. ShippedResource(Turned1(u, s)) /\ Turned1(u, s).kind = u.kind
  BY AllTurning DEF Turning
<1>3. Turned2(u, s) = [Turned1(u, s) EXCEPT !.namespace = Namespace]
  <2>1. Turned2(u, s) = InjectNamespace(Turned1(u, s))
    BY <1>2, Applied DEF Turned2
  <2> QED  BY <1>2, <2>1 DEF InjectNamespace, ClusterScoped
<1>4. IsFunction(u)
  BY DEF ShippedResource
<1> QED  BY <1>1, <1>3, <1>4 DEF Owned, IsFunction

\* Caching images: updateCachingImage (images.go).
LEMMA ImageTurned ==
  ASSUME NEW s, NEW u, UserSpec(s), ShippedResource(u), u.kind = "Image"
  PROVE  Turned8(u, s) = Specified(u, s)
<1> DEFINE o == Owned(u)
<1>1. /\ Turned2(u, s) = o /\ IsFunction(o) /\ DOMAIN o = DOMAIN u
      /\ \A x \in DOMAIN u \ {"owner", "namespace"} : o[x] = u[x]
  BY OwnedFirst DEF ClusterScoped, Bindings, Callers
<1>2. ~Refused(u, s)
  BY DEF Refused
<1>3. Turned3(u, s) = o
  BY <1>1, AllTurning, NothingWritten DEF Turning, Writes
<1>4. Turned8(u, s) = Turned4(u, s)
  <2>1. Turned5(u, s) = Turned4(u, s)
    BY AllTurning, NothingWritten DEF Turning, Writes
  <2>2. Turned6(u, s) = Turned5(u, s)
    BY <1>2, AllTurning, NothingWritten DEF Turning, Writes
  <2>3. Turned7(u, s) = Turned6(u, s)
    BY <1>2, AllTurning, NothingWritten DEF Turning, Writes
  <2>4. Turned8(u, s) = Turned7(u, s)
    BY <1>2, AllTurning, NothingWritten DEF Turning, Writes
  <2> QED  BY <2>1, <2>2, <2>3, <2>4
<1>5. {"kind", "name", "image", "secrets"} \subseteq DOMAIN u /\ u.name # ""
  BY DEF ShippedResource
<1>6. o.kind = "Image" /\ o.name = u.name /\ ShippedResource(o)
  <2>1. ShippedResource(o)
    BY <1>1, AllTurning DEF Turning
  <2> HIDE DEF o
  <2> QED  BY <1>1, <1>5, <2>1
<1>7. Turned4(u, s) = [o EXCEPT !.secrets = @ \o s.registry.secrets,
                               !.image = UpdatedImage(s.registry, u.name, @)]
  <2>1. Turned4(u, s) = ImageTransform(o, s)
    BY <1>3, <1>6, Applied DEF Turned4
  <2> HIDE DEF o
  <2> QED  BY <1>6, <2>1 DEF ImageTransform, UpdateCachingImage, AddImagePullSecrets
<1>8. Specified(u, s) = [o EXCEPT !.image = SpecifiedImage(u.name, @, s),
                                 !.secrets = @ \o s.registry.secrets]
  BY DEF Specified, ClusterScoped, Bindings, Callers, Owned
<1>9. UpdatedImage(s.registry, u.name, o.image) = SpecifiedImage(u.name, o.image, s)
  BY <1>5, ImageAsSpecified
<1> HIDE DEF o
<1> QED  BY <1>1, <1>4, <1>7, <1>8, <1>9 DEF IsFunction

\* ConfigMaps: ConfigMapTransform (config_maps.go) and the leader election (ha.go).
LEMMA ConfigMapTurned ==
  ASSUME NEW s, NEW u, UserSpec(s), ShippedResource(u), u.kind = "ConfigMap"
  PROVE  Turned8(u, s) = Specified(u, s)
<1> DEFINE o == Owned(u)
           data == IF Cut[u.name] \in DOMAIN s.config
                   THEN Overlay(u.data, s.config[Cut[u.name]]) ELSE u.data
           components == [x \in {EnabledComponents} |-> ComponentsValue]
           elected == IF s.ha # NoHA /\ u.name = LeaderElection
                      THEN Overlay(data, components) ELSE data
<1>1. /\ Turned2(u, s) = o /\ IsFunction(o) /\ DOMAIN o = DOMAIN u
      /\ \A x \in DOMAIN u \ {"owner", "namespace"} : o[x] = u[x]
  BY OwnedFirst DEF ClusterScoped, Bindings, Callers
<1>2. ~Refused(u, s)
  BY DEF Refused
<1>3. {"kind", "name", "data"} \subseteq DOMAIN u /\ IsFunction(u.data)
  BY DEF ShippedResource
<1>4. ShippedResource(o) /\ o.kind = "ConfigMap" /\ o.name = u.name /\ o.data = u.data
  <2>1. ShippedResource(o)
    BY <1>1, AllTurning DEF Turning
  <2> HIDE DEF o
  <2> QED  BY <1>1, <1>3, <2>1
<1>5. Turned3(u, s) = [o EXCEPT !.data = data]
  <2>1. Turned3(u, s) = ConfigMapTransform(o, s)
    BY <1>1, <1>4, Applied DEF Turned3
  <2>2. [o EXCEPT !.data = u.data] = o
    <3> HIDE DEF o
    <3> QED  BY <1>1, <1>4 DEF IsFunction
  <2> HIDE DEF o
  <2> QED  BY <1>4, <2>1, <2>2 DEF ConfigMapTransform, UpdateConfigMap
<1>6. Turned6(u, s) = Turned3(u, s) /\ Turned8(u, s) = Turned7(u, s)
  <2>1. Turned4(u, s) = Turned3(u, s)
    BY AllTurning, NothingWritten DEF Turning, Writes
  <2>2. Turned5(u, s) = Turned4(u, s)
    BY AllTurning, NothingWritten DEF Turning, Writes
  <2>3. Turned6(u, s) = Turned5(u, s)
    BY <1>2, AllTurning, NothingWritten DEF Turning, Writes
  <2>4. Turned8(u, s) = Turned7(u, s)
    BY <1>2, AllTurning, NothingWritten DEF Turning, Writes
  <2> QED  BY <2>1, <2>2, <2>3, <2>4
<1>7. Turned7(u, s) = [o EXCEPT !.data = elected]
  <2> DEFINE t == [o EXCEPT !.data = data]
  <2>1. ShippedResource(t)
    BY <1>5, AllTurning DEF Turning
  <2>2. Turned7(u, s) = HighAvailabilityTransform(t, s)
    BY <1>5, <1>6, <2>1, Applied DEF Turned7
  <2>3. t.kind = "ConfigMap" /\ t.name = u.name /\ t.data = data
    <3> HIDE DEF o, data
    <3> QED  BY <1>1, <1>3, <1>4
  <2>4. \A e : [t EXCEPT !.data = e] = [o EXCEPT !.data = e]
    <3> HIDE DEF o, data
    <3> QED  BY <1>1 DEF IsFunction
  <2>5. HighAvailabilityTransform(t, s)
          = IF s.ha # NoHA /\ u.name = LeaderElection
            THEN [t EXCEPT !.data = Overlay(data, components)] ELSE t
    <3> HIDE DEF t, data
    <3> QED  BY <2>3 DEF HighAvailabilityTransform
  <2> HIDE DEF o, data, components
  <2> QED  BY <2>2, <2>4, <2>5
<1>8. Specified(u, s) = [o EXCEPT !.data = SpecifiedData(u, s)]
  BY DEF Specified, ClusterScoped, Bindings, Callers, Owned
<1>9. SpecifiedData(u, s) = elected
  BY <1>3, DataAsSpecified
<1> HIDE DEF o, data, components, elected
<1> QED  BY <1>6, <1>7, <1>8, <1>9

\* Gateways: updateKnativeIngressGateway (gateway.go).
LEMMA GatewayTurned ==
  ASSUME NEW s, NEW u, UserSpec(s), ShippedResource(u), u.kind = "Gateway"
  PROVE  Turned8(u, s) = Specified(u, s)
<1> DEFINE o == Owned(u)
           users == IF u.name = "cluster-local-gateway" THEN s.local ELSE s.ingress
<1>1. /\ Turned2(u, s) = o /\ IsFunction(o) /\ DOMAIN o = DOMAIN u
      /\ \A x \in DOMAIN u \ {"owner", "namespace"} : o[x] = u[x]
  BY OwnedFirst DEF ClusterScoped, Bindings, Callers
<1>2. ~Refused(u, s)
  BY DEF Refused
<1>3. /\ {"kind", "name", "selector"} \subseteq DOMAIN u
      /\ u.name \in {"knative-ingress-gateway", "cluster-local-gateway"}
  BY DEF ShippedResource
<1>4. ShippedResource(o) /\ o.kind = "Gateway" /\ o.name = u.name /\ o.selector = u.selector
  <2>1. ShippedResource(o)
    BY <1>1, AllTurning DEF Turning
  <2> HIDE DEF o
  <2> QED  BY <1>1, <1>3, <2>1
<1>5. Turned4(u, s) = o /\ Turned8(u, s) = Turned5(u, s)
  <2>1. Turned3(u, s) = Turned2(u, s)
    BY AllTurning, NothingWritten DEF Turning, Writes
  <2>2. Turned4(u, s) = Turned3(u, s)
    BY AllTurning, NothingWritten DEF Turning, Writes
  <2>3. Turned6(u, s) = Turned5(u, s)
    BY <1>2, AllTurning, NothingWritten DEF Turning, Writes
  <2>4. Turned7(u, s) = Turned6(u, s)
    BY <1>2, AllTurning, NothingWritten DEF Turning, Writes
  <2>5. Turned8(u, s) = Turned7(u, s)
    BY <1>2, AllTurning, NothingWritten DEF Turning, Writes
  <2> QED  BY <1>1, <2>1, <2>2, <2>3, <2>4, <2>5
<1>6. Turned5(u, s) = UpdateGateway(o, users)
  <2>1. Turned5(u, s) = GatewayTransform(o, s)
    BY <1>4, <1>5, Applied DEF Turned5
  <2> HIDE DEF o
  <2> QED  BY <1>3, <1>4, <2>1 DEF GatewayTransform
<1>7. Specified(u, s) = [o EXCEPT !.selector = IF users = NoEntries THEN u.selector ELSE users]
  BY DEF Specified, ClusterScoped, Bindings, Callers, Owned
<1>8. DOMAIN users = {} <=> users = NoEntries
  <2>1. IsFunction(users)
    BY DEF UserSpec
  <2> HIDE DEF users
  <2> QED  BY <2>1 DEF IsFunction, NoEntries
<1> HIDE DEF o, users
<1>9. [o EXCEPT !.selector = u.selector] = o
  BY <1>1, <1>4 DEF IsFunction
<1> QED  BY <1>5, <1>6, <1>7, <1>8, <1>9 DEF UpdateGateway

\* Autoscalers: "do nothing if the HPA ships with even more replicas" (ha.go).
LEMMA AutoscalerTurned ==
  ASSUME NEW s, NEW u, UserSpec(s), ShippedResource(u), u.kind = "HorizontalPodAutoscaler"
  PROVE  Turned8(u, s) = Specified(u, s)
<1> DEFINE o == Owned(u)
           min == IF s.ha > u.min THEN s.ha ELSE u.min
<1>1. /\ Turned2(u, s) = o /\ IsFunction(o) /\ DOMAIN o = DOMAIN u
      /\ \A x \in DOMAIN u \ {"owner", "namespace"} : o[x] = u[x]
  BY OwnedFirst DEF ClusterScoped, Bindings, Callers
<1>2. ~Refused(u, s)
  BY DEF Refused
<1>3. {"kind", "name", "min"} \subseteq DOMAIN u /\ u.min \in Nat
  BY DEF ShippedResource
<1>4. ShippedResource(o) /\ o.kind = "HorizontalPodAutoscaler" /\ o.min = u.min
  <2>1. ShippedResource(o)
    BY <1>1, AllTurning DEF Turning
  <2> HIDE DEF o
  <2> QED  BY <1>1, <1>3, <2>1
<1>5. Turned6(u, s) = o /\ Turned8(u, s) = Turned7(u, s)
  <2>1. Turned3(u, s) = Turned2(u, s)
    BY AllTurning, NothingWritten DEF Turning, Writes
  <2>2. Turned4(u, s) = Turned3(u, s)
    BY AllTurning, NothingWritten DEF Turning, Writes
  <2>3. Turned5(u, s) = Turned4(u, s)
    BY AllTurning, NothingWritten DEF Turning, Writes
  <2>4. Turned6(u, s) = Turned5(u, s)
    BY <1>2, AllTurning, NothingWritten DEF Turning, Writes
  <2>5. Turned8(u, s) = Turned7(u, s)
    BY <1>2, AllTurning, NothingWritten DEF Turning, Writes
  <2> QED  BY <1>1, <2>1, <2>2, <2>3, <2>4, <2>5
<1>6. Turned7(u, s) = HighAvailabilityTransform(o, s)
  BY <1>4, <1>5, Applied DEF Turned7
<1>7. Specified(u, s) = [o EXCEPT !.min = IF s.ha > @ THEN s.ha ELSE @]
  BY DEF Specified, ClusterScoped, Bindings, Callers, Owned
<1> HIDE DEF o
<1>8. [o EXCEPT !.min = u.min] = o
  BY <1>1, <1>4 DEF IsFunction
<1>9. CASE s.ha = NoHA
  <2>1. ~(s.ha > u.min)
    BY <1>3, <1>9 DEF NoHA
  <2> QED  BY <1>4, <1>5, <1>6, <1>7, <1>8, <1>9, <2>1 DEF HighAvailabilityTransform
<1>10. CASE s.ha # NoHA
  <2>1. s.ha \in Nat
    BY <1>10 DEF UserSpec
  <2>2. Floor(o, s.ha) = min
    BY <1>3, <1>4, <2>1 DEF Floor
  <2>3. HighAvailabilityTransform(o, s) = [o EXCEPT !.min = Floor(o, s.ha)]
    BY <1>4, <1>10 DEF HighAvailabilityTransform
  <2> QED  BY <1>4, <1>5, <1>6, <1>7, <2>2, <2>3
<1> QED  BY <1>9, <1>10

\* The kinds that only InjectOwner and InjectNamespace change (manifestival's transform.go).
LEMMA OthersTurned ==
  ASSUME NEW s, NEW u, UserSpec(s), ShippedResource(u),
         u.kind \notin {"Deployment", "Image", "ConfigMap", "Gateway", "HorizontalPodAutoscaler"}
  PROVE  Turned8(u, s) = Specified(u, s)
<1>1. ~Refused(u, s)
  BY DEF Refused
<1>2. Turned8(u, s) = Turned2(u, s)
  <2>1. Turned3(u, s) = Turned2(u, s)
    BY AllTurning, NothingWritten DEF Turning, Writes
  <2>2. Turned4(u, s) = Turned3(u, s)
    BY AllTurning, NothingWritten DEF Turning, Writes
  <2>3. Turned5(u, s) = Turned4(u, s)
    BY AllTurning, NothingWritten DEF Turning, Writes
  <2>4. Turned6(u, s) = Turned5(u, s)
    BY <1>1, AllTurning, NothingWritten DEF Turning, Writes
  <2>5. Turned7(u, s) = Turned6(u, s)
    BY <1>1, AllTurning, NothingWritten DEF Turning, Writes
  <2>6. Turned8(u, s) = Turned7(u, s)
    BY <1>1, AllTurning, NothingWritten DEF Turning, Writes
  <2> QED  BY <2>1, <2>2, <2>3, <2>4, <2>5, <2>6
<1> DEFINE t == Turned1(u, s)
<1>3. t = InjectOwner(u) /\ t.kind = u.kind /\ Turned2(u, s) = InjectNamespace(t)
  <2>1. ShippedResource(t) /\ t.kind = u.kind
    BY AllTurning DEF Turning
  <2>2. t = InjectOwner(u)
    BY Applied DEF Turned1
  <2>3. Turned2(u, s) = InjectNamespace(t)
    BY <2>1, Applied DEF Turned2
  <2> QED  BY <2>1, <2>2, <2>3
<1> HIDE DEF t
<1>4. CASE u.kind \in ClusterScoped
  <2>1. t = u
    BY <1>3, <1>4 DEF InjectOwner
  <2>2. InjectNamespace(u) = CASE u.kind = "Namespace" -> [u EXCEPT !.name = Namespace]
                               [] u.kind \in Bindings -> [u EXCEPT !.subject = Namespace]
                               [] u.kind \in Callers -> [u EXCEPT !.service = Namespace]
                               [] OTHER -> u
    BY <1>4 DEF InjectNamespace
  <2>3. Specified(u, s) = CASE u.kind = "Namespace" -> [u EXCEPT !.name = Namespace]
                            [] u.kind \in Bindings -> [u EXCEPT !.subject = Namespace]
                            [] u.kind \in Callers -> [u EXCEPT !.service = Namespace]
                            [] OTHER -> u
    BY <1>4 DEF Specified, Bindings, Callers
  <2> QED  BY <1>2, <1>3, <2>1, <2>2, <2>3
<1>5. CASE u.kind \notin ClusterScoped
  <2>1. t = [u EXCEPT !.owner = Owner] /\ [t EXCEPT !.namespace = Namespace] = Owned(u)
    BY <1>3, <1>5 DEF InjectOwner, Owned
  <2>2. u.kind # "Namespace" /\ u.kind \notin Callers
    BY <1>5 DEF ClusterScoped, Callers
  <2>3. InjectNamespace(t) = IF u.kind \in Bindings THEN [Owned(u) EXCEPT !.subject = Namespace]
                             ELSE Owned(u)
    BY <1>3, <1>5, <2>1, <2>2 DEF InjectNamespace
  <2>4. Specified(u, s) = IF u.kind \in Bindings THEN [Owned(u) EXCEPT !.subject = Namespace]
                          ELSE Owned(u)
    BY <1>5, <2>2 DEF Specified, Bindings, Owned
  <2> QED  BY <1>2, <1>3, <2>3, <2>4
<1> QED  BY <1>4, <1>5

\* What updateRegistry, configureCustomCerts and ResourceRequirementsTransform make of the
\* container i of the deployment u.
WithImage(c, s) == [c EXCEPT !.image = UpdatedImage(s.registry, c.name, @)]

WithMount(u, i, c, s) ==
  IF Trusts(u, s) /\ i = 1 THEN [c EXCEPT !.mounts = Append(@, s.certs.name)] ELSE c

WithAmounts(c, s) ==
  IF OverridesOf(s, c.name) = {} THEN c
  ELSE [c EXCEPT !.limits = Overlay(@, Find(s, c.name).limits),
                 !.requests = Overlay(@, Find(s, c.name).requests)]

\* One container of a deployment: its image, the mount of the certificates, its amounts.
LEMMA ContainerTurned ==
  ASSUME NEW s, UserSpec(s), NEW u, NEW i, ShippedContainer(u.containers[i])
  PROVE  WithAmounts(WithMount(u, i, WithImage(u.containers[i], s), s), s)
           = SpecifiedContainer(u, i, s)
<1> DEFINE c == u.containers[i]
           d == WithImage(c, s)
           e == WithMount(u, i, d, s)
           f == WithAmounts(e, s)
<1> HIDE DEF d, e, f
<1> DEFINE fields == {"name", "image", "mounts", "limits", "requests"}
           mounts == c.mounts \o IF Trusts(u, s) /\ i = 1 THEN <<s.certs.name>> ELSE <<>>
           amounts(which) == IF OverridesOf(s, c.name) = {} THEN c[which]
                             ELSE Overlay(c[which], Find(s, c.name)[which])
<1>1. /\ IsFunction(c) /\ DOMAIN c = fields /\ c.name # "" /\ IsSequence(c.mounts)
      /\ IsFunction(c.limits) /\ IsFunction(c.requests)
  BY DEF ShippedContainer
<1>2. /\ IsFunction(d) /\ DOMAIN d = fields /\ d.name = c.name
      /\ d.image = UpdatedImage(s.registry, c.name, c.image)
      /\ d.mounts = c.mounts /\ d.limits = c.limits /\ d.requests = c.requests
  BY <1>1 DEF IsFunction, d, WithImage
<1>3. mounts = IF Trusts(u, s) /\ i = 1 THEN Append(c.mounts, s.certs.name) ELSE c.mounts
  BY <1>1, SequenceFacts
<1>4. /\ IsFunction(e) /\ DOMAIN e = fields /\ e.name = c.name /\ e.image = d.image
      /\ e.mounts = mounts /\ e.limits = c.limits /\ e.requests = c.requests
  <2> HIDE DEF mounts
  <2>1. CASE Trusts(u, s) /\ i = 1
    <3>1. e = [d EXCEPT !.mounts = Append(@, s.certs.name)]
      BY <2>1 DEF e, WithMount
    <3> QED  BY <1>2, <1>3, <2>1, <3>1 DEF IsFunction
  <2>2. CASE ~(Trusts(u, s) /\ i = 1)
    BY <1>2, <1>3, <2>2 DEF e, WithMount
  <2> QED  BY <2>1, <2>2
<1>5. /\ IsFunction(f) /\ DOMAIN f = fields /\ f.name = c.name /\ f.image = d.image
      /\ f.mounts = mounts /\ f.limits = amounts("limits") /\ f.requests = amounts("requests")
  <2> HIDE DEF mounts
  <2>1. CASE OverridesOf(s, c.name) = {}
    <3>1. f = e
      BY <1>4, <2>1 DEF f, WithAmounts
    <3> QED  BY <1>4, <2>1, <3>1
  <2>2. CASE OverridesOf(s, c.name) # {}
    <3>1. f = [e EXCEPT !.limits = Overlay(@, Find(s, c.name).limits),
                        !.requests = Overlay(@, Find(s, c.name).requests)]
      BY <1>4, <2>2 DEF f, WithAmounts
    <3> QED  BY <1>4, <2>2, <3>1 DEF IsFunction
  <2> QED  BY <2>1, <2>2
<1>6. LET g == SpecifiedContainer(u, i, s)
      IN  /\ IsFunction(g) /\ DOMAIN g = fields /\ g.name = c.name
          /\ g.image = SpecifiedImage(c.name, c.image, s) /\ g.mounts = mounts
          /\ g.limits = SpecifiedAmounts(c.name, "limits", c.limits, s)
          /\ g.requests = SpecifiedAmounts(c.name, "requests", c.requests, s)
  BY DEF SpecifiedContainer, IsFunction
<1>7. SpecifiedImage(c.name, c.image, s) = d.image
  BY <1>1, <1>2, ImageAsSpecified
<1>8. SpecifiedAmounts(c.name, "limits", c.limits, s) = amounts("limits")
  BY <1>1, AmountsAsSpecified
<1>9. SpecifiedAmounts(c.name, "requests", c.requests, s) = amounts("requests")
  BY <1>1, AmountsAsSpecified
<1> DEFINE g == SpecifiedContainer(u, i, s)
<1>10. /\ IsFunction(g) /\ DOMAIN g = DOMAIN f
       /\ \A x \in DOMAIN f : f[x] = g[x]
  <2> HIDE DEF mounts, amounts, g
  <2>1. /\ IsFunction(g) /\ DOMAIN g = fields /\ g.name = c.name /\ g.image = d.image
        /\ g.mounts = mounts /\ g.limits = amounts("limits") /\ g.requests = amounts("requests")
    BY <1>6, <1>7, <1>8, <1>9 DEF g
  <2>2. /\ f["name"] = g["name"] /\ f["image"] = g["image"] /\ f["mounts"] = g["mounts"]
        /\ f["limits"] = g["limits"] /\ f["requests"] = g["requests"]
    BY <1>5, <2>1
  <2>3. IsFunction(g) /\ DOMAIN g = fields /\ DOMAIN f = fields
    BY <1>5, <2>1
  <2> QED  BY <2>2, <2>3
<1> HIDE DEF g
<1>11. f = g
  BY <1>5, <1>10, SameFunction
<1> QED  BY <1>11 DEF c, d, e, f, g

\* The first five transformers of a deployment: its owner and namespace, its secrets
\* and images (updateRegistry, images.go).
LEMMA DeploymentImages ==
  ASSUME NEW s, NEW u, UserSpec(s), ShippedResource(u), u.kind = "Deployment"
  PROVE  /\ IsFunction(Turned5(u, s)) /\ DOMAIN Turned5(u, s) = DOMAIN u
         /\ \A x \in DOMAIN u \ {"secrets", "containers"} : Turned5(u, s)[x] = Owned(u)[x]
         /\ Turned5(u, s).secrets = u.secrets \o s.registry.secrets
         /\ Turned5(u, s).containers
              = [i \in DOMAIN u.containers |-> WithImage(u.containers[i], s)]
<1> DEFINE o == Owned(u)
<1>1. /\ Turned2(u, s) = o /\ IsFunction(o) /\ DOMAIN o = DOMAIN u
      /\ \A x \in DOMAIN u \ {"owner", "namespace"} : o[x] = u[x]
  BY OwnedFirst DEF ClusterScoped, Bindings, Callers
<1>2. {"kind", "name", "containers", "secrets", "volumes", "replicas"} \subseteq DOMAIN u
  BY DEF ShippedResource
<1>3. Turned3(u, s) = o /\ Turned5(u, s) = Turned4(u, s)
  <2>1. Turned3(u, s) = Turned2(u, s)
    BY AllTurning, NothingWritten DEF Turning, Writes
  <2>2. Turned5(u, s) = Turned4(u, s)
    BY AllTurning, NothingWritten DEF Turning, Writes
  <2> QED  BY <1>1, <2>1, <2>2
<1>4. /\ ShippedResource(o) /\ o.kind = "Deployment"
      /\ o.containers = u.containers /\ o.secrets = u.secrets
  <2>1. ShippedResource(o)
    BY <1>1, AllTurning DEF Turning
  <2> HIDE DEF o
  <2> QED  BY <1>1, <1>2, <2>1
<1>5. Turned4(u, s) = UpdateRegistry(o, s.registry)
  <2>1. Turned4(u, s) = ImageTransform(o, s)
    BY <1>3, <1>4, Applied DEF Turned4
  <2> HIDE DEF o
  <2> QED  BY <1>4, <2>1 DEF ImageTransform
<1> DEFINE cs == [i \in DOMAIN u.containers |-> WithImage(u.containers[i], s)]
           secrets == u.secrets \o s.registry.secrets
<1>6. UpdateRegistry(o, s.registry)
        = [o EXCEPT !.secrets = secrets, !.containers = cs]
  <2> HIDE DEF o
  <2> QED  BY <1>4 DEF UpdateRegistry, AddImagePullSecrets, WithImage
<1> DEFINE t == Turned5(u, s)
<1>7. t = [o EXCEPT !.secrets = secrets, !.containers = cs]
  BY <1>3, <1>5, <1>6
<1> HIDE DEF o, cs, secrets, t
<1>8. /\ IsFunction(t) /\ DOMAIN t = DOMAIN u
      /\ \A x \in DOMAIN u \ {"secrets", "containers"} : t[x] = o[x]
      /\ t.secrets = secrets /\ t.containers = cs
  BY <1>1, <1>2, <1>7 DEF IsFunction
<1> QED  BY <1>8 DEF o, cs, secrets, t

\* configureCustomCerts (certs.go) adds the volume and the mount to the controller alone.
LEMMA DeploymentCerts ==
  ASSUME NEW s, UserSpec(s), NEW t, ShippedResource(t), t.kind = "Deployment", ~Refused(t, s)
  PROVE  /\ CustomCertsTransform(t, s).volumes
              = t.volumes \o IF Trusts(t, s) THEN <<s.certs>> ELSE <<>>
         /\ DOMAIN CustomCertsTransform(t, s).containers = DOMAIN t.containers
         /\ \A i \in DOMAIN t.containers :
              CustomCertsTransform(t, s).containers[i] = WithMount(t, i, t.containers[i], s)
<1> DEFINE v == CustomCertsTransform(t, s)
           cs == t.containers
           first == [cs[1] EXCEPT !.mounts = Append(@, s.certs.name)]
<1>1. {"kind", "containers", "volumes"} \subseteq DOMAIN t /\ IsSequence(t.volumes)
  BY DEF ShippedResource
<1>2. CASE Trusts(t, s)
  <2>1. v = [t EXCEPT !.volumes = Append(@, s.certs),
                      !.containers[1].mounts = Append(@, s.certs.name)]
    BY <1>2 DEF CustomCertsTransform, ConfigureCustomCerts, Refused, Trusts
  <2>2. v.volumes = Append(t.volumes, s.certs) /\ v.containers = [cs EXCEPT ![1] = first]
    BY <1>1, <2>1
  <2>3. Append(t.volumes, s.certs) = t.volumes \o <<s.certs>>
    BY <1>1, SequenceFacts
  <2> HIDE DEF v
  <2>4. /\ DOMAIN v.containers = DOMAIN cs
        /\ \A i \in DOMAIN cs : v.containers[i] = IF i = 1 THEN first ELSE cs[i]
    <3> HIDE DEF cs, first
    <3> QED  BY <2>2
  <2>5. \A i \in DOMAIN cs : v.containers[i] = WithMount(t, i, cs[i], s)
    BY <1>2, <2>4 DEF WithMount
  <2> QED  BY <1>2, <2>2, <2>3, <2>4, <2>5 DEF v
<1>3. CASE ~Trusts(t, s)
  <2>1. v = t
    BY <1>3 DEF CustomCertsTransform, Trusts
  <2>2. t.volumes \o <<>> = t.volumes
    BY <1>1, SequenceFacts
  <2> QED  BY <1>3, <2>1, <2>2 DEF WithMount
<1> QED  BY <1>2, <1>3

\* Deployments, all transformers in their order.
LEMMA DeploymentTurned ==
  ASSUME NEW s, NEW u, UserSpec(s), ShippedResource(u), u.kind = "Deployment", ~Refused(u, s)
  PROVE  Turned8(u, s) = Specified(u, s)
<1> DEFINE o == Owned(u)
           t5 == Turned5(u, s)
           t6 == Turned6(u, s)
           t7 == Turned7(u, s)
           t8 == Turned8(u, s)
           volumes == u.volumes \o IF Trusts(u, s) THEN <<s.certs>> ELSE <<>>
           replicas == IF u.name \in DeploymentNames /\ s.ha # NoHA THEN s.ha ELSE u.replicas
           secrets == u.secrets \o s.registry.secrets
<1>1. /\ IsFunction(o) /\ DOMAIN o = DOMAIN u
      /\ \A x \in DOMAIN u \ {"owner", "namespace"} : o[x] = u[x]
  BY OwnedFirst DEF ClusterScoped, Bindings, Callers
<1>2. {"kind", "name", "containers", "secrets", "volumes", "replicas"} \subseteq DOMAIN u
  BY DEF ShippedResource
<1>3. /\ Turning(t5, u, s) /\ Turning(t6, u, s) /\ Turning(t7, u, s) /\ Turning(t8, u, s)
      /\ Rewritten(t6, t5, {"volumes", "containers"})
      /\ Rewritten(t7, t6, {"replicas"})
      /\ Rewritten(t8, t7, {"containers"})
  BY AllTurning DEF Writes
<1>4. /\ IsFunction(t5) /\ DOMAIN t5 = DOMAIN u
      /\ \A x \in DOMAIN u \ {"secrets", "containers"} : t5[x] = o[x]
      /\ t5.secrets = secrets
      /\ t5.containers = [i \in DOMAIN u.containers |-> WithImage(u.containers[i], s)]
  BY DeploymentImages
<1>5. /\ t6.volumes = volumes
      /\ DOMAIN t6.containers = DOMAIN u.containers
      /\ \A i \in DOMAIN u.containers : t6.containers[i] = WithMount(u, i, WithImage(u.containers[i], s), s)
  <2>1. t6 = CustomCertsTransform(t5, s)
    BY <1>3, Applied DEF Turning, Turned6
  <2>2. ShippedResource(t5) /\ t5.kind = "Deployment" /\ ~Refused(t5, s) /\ t5.name = u.name
    BY <1>3 DEF Turning
  <2>3. Trusts(t5, s) <=> Trusts(u, s)
    BY <2>2 DEF Trusts
  <2>4. t5.volumes = u.volumes
    BY <1>1, <1>2, <1>4
  <2>5. /\ t6.volumes = t5.volumes \o IF Trusts(t5, s) THEN <<s.certs>> ELSE <<>>
        /\ DOMAIN t6.containers = DOMAIN t5.containers
        /\ \A i \in DOMAIN t5.containers :
             t6.containers[i] = WithMount(t5, i, t5.containers[i], s)
    BY <2>1, <2>2, DeploymentCerts
  <2> HIDE DEF t5, t6
  <2> QED  BY <1>4, <2>3, <2>4, <2>5 DEF WithMount
<1>6. t7.replicas = replicas
  <2>1. t7 = HighAvailabilityTransform(t6, s)
    BY <1>3, Applied DEF Turning, Turned7
  <2>2. t6.replicas = u.replicas
    BY <1>1, <1>2, <1>3, <1>4 DEF Rewritten
  <2>3. t6.kind = "Deployment" /\ t6.name = u.name /\ "replicas" \in DOMAIN t6
    BY <1>2, <1>3 DEF Turning
  <2> HIDE DEF t6, t7
  <2> QED  BY <2>1, <2>2, <2>3 DEF HighAvailabilityTransform
<1>7. /\ IsFunction(t8.containers) /\ DOMAIN t8.containers = DOMAIN t7.containers
      /\ \A i \in DOMAIN t7.containers : t8.containers[i] = WithAmounts(t7.containers[i], s)
  <2>1. t8 = ResourceRequirementsTransform(t7, s)
    BY <1>3, Applied DEF Turning, Turned8
  <2>2. t7.kind = "Deployment" /\ "containers" \in DOMAIN t7
    BY <1>2, <1>3 DEF Turning
  <2> HIDE DEF t7, t8
  <2>3. t8.containers = [i \in DOMAIN t7.containers |-> WithAmounts(t7.containers[i], s)]
    BY <2>1, <2>2 DEF ResourceRequirementsTransform, WithAmounts
  <2> QED  BY <2>3 DEF IsFunction
<1>8. t8.containers = [i \in DOMAIN u.containers |-> SpecifiedContainer(u, i, s)]
  <2>1. t7.containers = t6.containers
    BY <1>2, <1>3 DEF Rewritten, Turning
  <2>2. \A i \in DOMAIN u.containers :
          t8.containers[i] = WithAmounts(WithMount(u, i, WithImage(u.containers[i], s), s), s)
    <3> HIDE DEF t6, t7, t8
    <3> QED  BY <1>5, <1>7, <2>1
  <2>3. \A i \in DOMAIN u.containers :
          WithAmounts(WithMount(u, i, WithImage(u.containers[i], s), s), s) = SpecifiedContainer(u, i, s)
    BY ContainerTurned DEF ShippedResource
  <2>4. IsFunction(t8.containers) /\ DOMAIN t8.containers = DOMAIN u.containers
    BY <1>5, <1>7, <2>1
  <2> HIDE DEF t6, t7, t8
  <2> QED  BY <2>2, <2>3, <2>4 DEF IsFunction
<1>9. /\ IsFunction(t8) /\ DOMAIN t8 = DOMAIN u
      /\ \A x \in DOMAIN u \ {"containers", "secrets", "volumes", "replicas"} : t8[x] = o[x]
      /\ t8.secrets = secrets /\ t8.volumes = volumes /\ t8.replicas = replicas
  <2> HIDE DEF o, t5, t6, t7, t8, secrets, volumes, replicas
  <2> QED  BY <1>2, <1>3, <1>4, <1>5, <1>6 DEF Rewritten
<1> DEFINE w == Specified(u, s)
           cs == [i \in DOMAIN u.containers |-> SpecifiedContainer(u, i, s)]
<1>10. w = [o EXCEPT !.containers = [i \in DOMAIN @ |-> SpecifiedContainer(u, i, s)],
                     !.secrets = @ \o s.registry.secrets,
                     !.volumes = @ \o IF Trusts(u, s) THEN <<s.certs>> ELSE <<>>,
                     !.replicas = IF u.name \in DeploymentNames /\ s.ha # NoHA
                                  THEN s.ha ELSE @]
  BY DEF Specified, ClusterScoped, Bindings, Callers, Owned
<1>11. w = [o EXCEPT !.containers = cs, !.secrets = secrets,
                     !.volumes = volumes, !.replicas = replicas]
  <2>1. /\ o.containers = u.containers /\ o.secrets = u.secrets
        /\ o.volumes = u.volumes /\ o.replicas = u.replicas
    BY <1>1, <1>2
  <2> HIDE DEF o, w
  <2> QED  BY <1>10, <2>1
<1> HIDE DEF o, w, cs, secrets, volumes, replicas
<1>12. /\ IsFunction(w) /\ DOMAIN w = DOMAIN u
       /\ \A x \in DOMAIN u \ {"containers", "secrets", "volumes", "replicas"} : w[x] = o[x]
       /\ w.containers = cs /\ w.secrets = secrets /\ w.volumes = volumes /\ w.replicas = replicas
  BY <1>1, <1>2, <1>11 DEF IsFunction
<1> HIDE DEF t8
<1>13. \A x \in DOMAIN u : t8[x] = w[x]
  <2>1. t8.containers = cs
    BY <1>8 DEF cs
  <2> QED  BY <1>9, <1>12, <2>1
<1>14. t8 = w
  BY <1>9, <1>12, <1>13, SameFunction
<1> QED  BY <1>14 DEF t8, w

\* What the eight transformers make of a resource is what the spec asks for.
LEMMA TurnedAsSpecified ==
  ASSUME NEW s, NEW u, UserSpec(s), ShippedResource(u), ~Refused(u, s)
  PROVE  Turned8(u, s) = Specified(u, s) /\ ShippedResource(Specified(u, s))
<1>1. Turned8(u, s) = Specified(u, s)
  BY DeploymentTurned, ImageTurned, ConfigMapTurned, GatewayTurned, AutoscalerTurned, OthersTurned
<1> QED  BY <1>1, AllTurning DEF Turning

-----------------------------------------------------------------------------
(* The invariant of the transform.                                          *)

\* The certificates that configureCustomCerts (certs.go) refuses.
LEMMA RefusedFails ==
  ASSUME NEW s, NEW u, ShippedResource(u), Refused(u, s)
  PROVE  Apply("CustomCerts", u, s) = Failure
BY Applied DEF Refused, CustomCertsTransform, ConfigureCustomCerts

\* Each transformer turns the resource that the ones before it have brought this far.
LEMMA TurnedBy ==
  ASSUME NEW s, NEW u, NEW n \in 1 .. 8
  PROVE  /\ Transformers[n] \in Names
         /\ Transformers[n] = "CustomCerts" <=> n = 6
         /\ Turned(n, u, s) = Apply(Transformers[n], Turned(n - 1, u, s), s)
<1>1. n \in {1, 2, 3, 4, 5, 6, 7, 8}
  OBVIOUS
<1>2. CASE n = 1
  BY <1>2 DEF Turned, Turned1, Transformers, Names
<1>3. CASE n = 2
  BY <1>3 DEF Turned, Turned2, Transformers, Names
<1>4. CASE n = 3
  BY <1>4 DEF Turned, Turned3, Transformers, Names
<1>5. CASE n = 4
  BY <1>5 DEF Turned, Turned4, Transformers, Names
<1>6. CASE n = 5
  BY <1>6 DEF Turned, Turned5, Transformers, Names
<1>7. CASE n = 6
  BY <1>7 DEF Turned, Turned6, Transformers, Names
<1>8. CASE n = 7
  BY <1>8 DEF Turned, Turned7, Transformers, Names
<1>9. CASE n = 8
  BY <1>9 DEF Turned, Turned8, Transformers, Names
<1> QED  BY <1>1, <1>2, <1>3, <1>4, <1>5, <1>6, <1>7, <1>8, <1>9

\* A resource on its way keeps its shape, and is as specified at the end of it.
LEMMA TurnedKept ==
  ASSUME NEW s, UserSpec(s), NEW u, ShippedResource(u)
  PROVE  /\ Turned(0, u, s) = u
         /\ ~Refused(u, s) => Turned(8, u, s) = Specified(u, s)
         /\ \A n \in 0 .. 8 :
              n < 6 \/ ~Refused(u, s) =>
                Turning(Turned(n, u, s), u, s)
<1>1. Turned(0, u, s) = u
  BY DEF Turned
<1>2. Turned(8, u, s) = Turned8(u, s)
  BY DEF Turned
<1>3. SUFFICES ASSUME NEW n \in 0 .. 8, n < 6 \/ ~Refused(u, s)
               PROVE  Turning(Turned(n, u, s), u, s)
  BY <1>1, <1>2, TurnedAsSpecified
<1>4. n \in {0, 1, 2, 3, 4, 5, 6, 7, 8}
  OBVIOUS
<1>5. CASE n \in {0, 1, 2, 3, 4, 5}
  BY <1>5, AllTurning DEF Turned
<1>6. CASE n \in {6, 7, 8}
  <2>1. ~Refused(u, s)
    BY <1>3, <1>6
  <2> QED  BY <1>6, <2>1, AllTurning DEF Turned
<1> QED  BY <1>4, <1>5, <1>6

\* A list of eight, with one more or none at its end.
LEMMA EightOrNine ==
  ASSUME NEW ts, NEW more, NEW both, NEW last,
         Len(ts) = 8, Len(more) \in {0, 1}, Len(more) = 1 => more[1] = last,
         Len(both) = Len(ts) + Len(more), DOMAIN both = 1 .. Len(both),
         \A i \in 1 .. Len(ts) + Len(more) : both[i] = IF i <= Len(ts) THEN ts[i] ELSE more[i - Len(ts)]
  PROVE  /\ Len(both) \in {8, 9} /\ DOMAIN both = 1 .. Len(both)
         /\ \A n \in 1 .. 8 : both[n] = ts[n]
         /\ Len(both) = 9 => both[9] = last
OBVIOUS

\* The transformers at work: those of extensions.go, and the platform's at the end.
LEMMA WhoIsAtWork ==
  ASSUME NEW p
  PROVE  /\ Len(AtWork(p)) \in {8, 9} /\ DOMAIN AtWork(p) = 1 .. Len(AtWork(p))
         /\ \A n \in 1 .. 8 : AtWork(p)[n] = Transformers[n]
         /\ Len(AtWork(p)) = 9 => AtWork(p)[9] = "Platform"
<1> DEFINE S == Names \cup {"Platform"}
           more == IF p = "transformer" THEN <<"Platform">> ELSE <<>>
           both == Transformers \o more
<1>1. Transformers \in Seq(S) /\ Len(Transformers) = 8
  BY DEF Transformers, Names
<1>2. more \in Seq(S) /\ Len(more) \in {0, 1} /\ (Len(more) = 1 => more[1] = "Platform")
  <2>1. <<"Platform">> \in Seq(S) /\ Len(<<"Platform">>) = 1 /\ <<"Platform">>[1] = "Platform"
    OBVIOUS
  <2>2. <<>> \in Seq(S) /\ Len(<<>>) = 0
    OBVIOUS
  <2> HIDE DEF S
  <2> QED  BY <2>1, <2>2
<1>3. AtWork(p) = both
  BY DEF AtWork
<1> HIDE DEF more, S
<1>4. /\ both \in Seq(S) /\ Len(both) = Len(Transformers) + Len(more)
      /\ \A i \in 1 .. Len(Transformers) + Len(more) :
           both[i] = IF i <= Len(Transformers) THEN Transformers[i] ELSE more[i - Len(Transformers)]
  BY <1>1, <1>2, ConcatProperties
<1> HIDE DEF both
<1>5. DOMAIN both = 1 .. Len(both)
  BY <1>4, LenProperties
<1>6. /\ Len(both) \in {8, 9} /\ DOMAIN both = 1 .. Len(both)
      /\ \A n \in 1 .. 8 : both[n] = Transformers[n]
      /\ Len(both) = 9 => both[9] = "Platform"
  BY <1>1, <1>2, <1>4, <1>5, EightOrNine
<1> QED  BY <1>3, <1>6

\* There is something to transform.
LEMMA SomeManifest ==
  /\ Len(Manifest) \in Nat /\ Len(Manifest) >= 1 /\ DOMAIN Manifest = 1 .. Len(Manifest)
  /\ IsFunction(Manifest) /\ \A i \in 1 .. Len(Manifest) : ShippedResource(Manifest[i])
<1>1. IsSequence(Manifest)
  BY ManifestAssumption
<1>2. IsFunction(Manifest) /\ Len(Manifest) \in Nat /\ DOMAIN Manifest = 1 .. Len(Manifest)
  BY <1>1, SequenceFacts
<1> QED  BY <1>2, ManifestAssumption

\* A function of the first naturals is a sequence of that length.
LEMMA LengthOf ==
  ASSUME NEW N \in Nat, NEW q, IsFunction(q), DOMAIN q = 1 .. N
  PROVE  Len(q) = N
<1> DEFINE S == {q[i] : i \in 1 .. N}
<1>1. \A i \in 1 .. N : q[i] \in S
  OBVIOUS
<1> HIDE DEF S
<1>2. q \in [1 .. N -> S]
  BY <1>1 DEF IsFunction
<1>3. q \in Seq(S)
  BY <1>2, SeqDef
<1>4. Len(q) \in Nat /\ DOMAIN q = 1 .. Len(q)
  BY <1>3, LenProperties
<1> QED  BY <1>4

\* The shape of the resources on their way, and their number.
LEMMA ResultShape ==
  ASSUME NEW s, NEW place \in Places, NEW r, r = ResultAt(place, s)
  PROVE  /\ IsFunction(r) /\ DOMAIN r = 1 .. Len(Manifest) /\ Len(r) = Len(Manifest)
         /\ place.resource \in 1 .. Len(Manifest) /\ place.fn \in 1 .. 9
         /\ place = [resource |-> place.resource, fn |-> place.fn]
         /\ \A i \in 1 .. Len(Manifest) :
              r[i] = IF i < place.resource THEN Specified(Manifest[i], s)
                     ELSE IF i = place.resource THEN Turned(place.fn - 1, Manifest[i], s)
                     ELSE Manifest[i]
<1> DEFINE N == Len(Manifest)
<1>1. N \in Nat /\ DOMAIN Manifest = 1 .. N
  BY SomeManifest
<1>2. /\ place.resource \in 1 .. N /\ place.fn \in 1 .. 9
      /\ place = [resource |-> place.resource, fn |-> place.fn]
  BY DEF Places
<1>3. /\ IsFunction(r) /\ DOMAIN r = 1 .. N
      /\ \A i \in 1 .. N :
           r[i] = IF i < place.resource THEN Specified(Manifest[i], s)
                  ELSE IF i = place.resource THEN Turned(place.fn - 1, Manifest[i], s)
                  ELSE Manifest[i]
  BY <1>1 DEF ResultAt, IsFunction
<1>4. Len(r) = N
  BY <1>1, <1>3, LengthOf
<1> QED  BY <1>2, <1>3, <1>4

\* The values of the spec that a user may set are of their kinds.
LEMMA EditedSpec ==
  ASSUME NEW s, UserSpec(s), NEW f \in DOMAIN EmptySpec, NEW v \in SpecFields[f]
  PROVE  UserSpec([s EXCEPT ![f] = v])
<1> DEFINE t == [s EXCEPT ![f] = v]
           fields == {"config", "registry", "ingress", "local", "certs", "ha", "resources"}
<1>1. DOMAIN EmptySpec = fields
  BY DEF EmptySpec
<1>2. IsFunction(t) /\ DOMAIN t = DOMAIN s /\ \A x \in fields : t[x] = IF x = f THEN v ELSE s[x]
  BY <1>1 DEF UserSpec, IsFunction
<1>3. /\ f = "registry" => IsImage(v.default)
      /\ f \in {"ingress", "local"} => IsFunction(v)
      /\ f = "ha" => v \in Nat \cup {NoHA}
      /\ f = "resources" => IsSequence(v)
  BY FieldsAssumption
<1> HIDE DEF t
<1>4. IsImage(t.registry.default) /\ IsFunction(t.ingress) /\ IsFunction(t.local)
  BY <1>2, <1>3 DEF UserSpec
<1>5. t.ha \in Nat \cup {NoHA} /\ IsSequence(t.resources)
  BY <1>2, <1>3 DEF UserSpec
<1>6. UserSpec(t)
  BY <1>2, <1>4, <1>5 DEF UserSpec
<1> QED  BY <1>6 DEF t

\* A KnativeServing without a spec.
LEMMA FirstSpec ==
  UserSpec(EmptySpec)
<1>1. /\ IsFunction(EmptySpec) /\ EmptySpec.registry.default = NoImage
      /\ EmptySpec.ingress = NoEntries /\ EmptySpec.local = NoEntries
      /\ EmptySpec.ha = NoHA /\ EmptySpec.resources = <<>>
  BY DEF EmptySpec, IsFunction
<1>2. IsImage(NoImage) /\ IsFunction(NoEntries)
  BY DEF NoImage, IsImage, NoEntries, IsFunction
<1>3. IsSequence(<<>>)
  <2>1. <<>> \in Seq({})
    OBVIOUS
  <2> QED  BY <2>1, OfItsElements
<1> QED  BY <1>1, <1>2, <1>3 DEF UserSpec

\* A place in a list of eight or nine.
LEMMA EightOrLast ==
  ASSUME NEW l \in {8, 9}
  PROVE  1 <= l /\ \A n \in 1 .. 9 : n <= l => n \in 1 .. 8 \/ (n = 9 /\ l = 9)
OBVIOUS

\* Which transformer, of which resource, has its turn.
LEMMA WhoseTurn ==
  ASSUME InProgress
  PROVE  /\ at.resource \in 1 .. Len(Manifest) /\ at.fn \in 1 .. Len(fns) /\ Len(fns) \in {8, 9}
         /\ at = [resource |-> at.resource, fn |-> at.fn]
         /\ Current # "Platform" =>
              at.fn \in 1 .. 8 /\ Current = Transformers[at.fn] /\ Current \in Names
         /\ Current = "Platform" => at.fn = 9 /\ Len(fns) = 9
<1>1. at \in Places /\ at.fn <= Len(fns) /\ fns = AtWork(platform)
  BY DEF InProgress
<1>2. /\ Len(fns) \in {8, 9} /\ \A n \in 1 .. 8 : fns[n] = Transformers[n]
      /\ Len(fns) = 9 => fns[9] = "Platform"
  BY <1>1, WhoIsAtWork
<1>3. /\ at.resource \in 1 .. Len(Manifest) /\ at.fn \in 1 .. 9
      /\ at = [resource |-> at.resource, fn |-> at.fn]
  BY <1>1 DEF Places
<1>4. \A n \in 1 .. 8 : Transformers[n] \in Names
  BY TurnedBy
<1>5. "Platform" \notin Names
  BY DEF Names
<1>6. at.fn \in 1 .. 8 \/ (at.fn = 9 /\ Len(fns) = 9)
  BY <1>1, <1>2, <1>3, EightOrLast
<1>7. CASE at.fn \in 1 .. 8
  BY <1>1, <1>2, <1>3, <1>4, <1>5, <1>7 DEF Current
<1>8. CASE at.fn = 9 /\ Len(fns) = 9
  BY <1>2, <1>3, <1>8 DEF Current
<1> QED  BY <1>6, <1>7, <1>8

\* The resource at place is turned once more, into v; last is the number of transformers.
TurnedOnce(q, v, place, last, s) ==
  /\ place \in Places /\ last \in {8, 9} /\ place.fn <= last
  /\ q = [ResultAt(place, s) EXCEPT ![place.resource] = v]
  /\ place.fn < 6 \/ ~Refused(Manifest[place.resource], s)
  /\ place.fn \in 1 .. 8 => v = Turned(place.fn, Manifest[place.resource], s)
  /\ place.fn = 9 => v = Turned(8, Manifest[place.resource], s)

\* Then the transformers before the next place have had their turn.
LEMMA NextPlace ==
  ASSUME NEW s, UserSpec(s), NEW place, NEW v, NEW q, NEW last, TurnedOnce(q, v, place, last, s)
  PROVE  /\ Len(q) = Len(Manifest)
         /\ place.fn < last => q = ResultAt([place EXCEPT !.fn = @ + 1], s)
         /\ place.fn = last /\ place.resource < Len(Manifest) =>
              q = ResultAt([resource |-> place.resource + 1, fn |-> 1], s)
         /\ place.fn = last /\ place.resource = Len(Manifest) =>
              q = [i \in DOMAIN Manifest |-> Specified(Manifest[i], s)]
<1> DEFINE r == ResultAt(place, s)
<1>0. /\ place \in Places /\ last \in {8, 9} /\ place.fn <= last
      /\ q = [r EXCEPT ![place.resource] = v]
      /\ ~Refused(Manifest[place.resource], s) \/ place.fn < 6
      /\ place.fn \in 1 .. 8 => v = Turned(place.fn, Manifest[place.resource], s)
      /\ place.fn = 9 => v = Turned(8, Manifest[place.resource], s)
  BY DEF TurnedOnce
<1> DEFINE N == Len(Manifest)
           at1 == [place EXCEPT !.fn = @ + 1]
           at2 == [resource |-> place.resource + 1, fn |-> 1]
           u == Manifest[place.resource]
<1>1. N \in Nat /\ DOMAIN Manifest = 1 .. N /\ \A i \in 1 .. N : ShippedResource(Manifest[i])
  BY SomeManifest
<1>2. /\ IsFunction(r) /\ DOMAIN r = 1 .. N
      /\ place.resource \in 1 .. N /\ place.fn \in 1 .. 9
      /\ place = [resource |-> place.resource, fn |-> place.fn]
      /\ \A i \in 1 .. N :
           r[i] = IF i < place.resource THEN Specified(Manifest[i], s)
                  ELSE IF i = place.resource THEN Turned(place.fn - 1, Manifest[i], s)
                  ELSE Manifest[i]
  BY <1>0, ResultShape
<1> HIDE DEF r
<1>3. /\ IsFunction(q) /\ DOMAIN q = 1 .. N
      /\ \A i \in 1 .. N :
           q[i] = IF i < place.resource THEN Specified(Manifest[i], s)
                  ELSE IF i = place.resource THEN v ELSE Manifest[i]
  <2>1. IsFunction(q) /\ DOMAIN q = DOMAIN r
    BY <1>0, <1>2, ExceptAt
  <2>2. \A i \in 1 .. N : q[i] = IF i = place.resource THEN v ELSE r[i]
    BY <1>0, <1>2, ExceptAt
  <2> QED  BY <1>2, <2>1, <2>2
<1>4. Len(q) = N
  BY <1>1, <1>3, LengthOf
<1>5. ASSUME place.fn < last
      PROVE  q = ResultAt(at1, s)
  <2>1. place.fn \in 1 .. 8 /\ v = Turned(place.fn, u, s)
    BY <1>0, <1>2, <1>5
  <2>2. at1.resource = place.resource /\ at1.fn - 1 = place.fn
    BY <1>2
  <2> HIDE DEF at1
  <2> QED  BY <1>1, <1>3, <2>1, <2>2 DEF ResultAt, IsFunction
<1>6. ASSUME place.fn = last
      PROVE  v = Specified(u, s)
  <2>1. v = Turned(8, u, s) /\ ~Refused(u, s)
    BY <1>0, <1>2, <1>6
  <2>2. ShippedResource(u)
    BY <1>1, <1>2
  <2> QED  BY <2>1, <2>2, TurnedKept
<1>7. ASSUME place.fn = last, place.resource < N
      PROVE  q = ResultAt(at2, s)
  <2>1. v = Specified(u, s)
    BY <1>6, <1>7
  <2>2. at2.resource = place.resource + 1 /\ at2.fn - 1 = 0
    OBVIOUS
  <2>3. \A i \in 1 .. N : Turned(0, Manifest[i], s) = Manifest[i]
    BY <1>1, TurnedKept
  <2> HIDE DEF at2
  <2> DEFINE w == ResultAt(at2, s)
  <2>4. /\ IsFunction(w) /\ DOMAIN w = 1 .. N
        /\ \A i \in 1 .. N :
             w[i] = IF i < at2.resource THEN Specified(Manifest[i], s)
                    ELSE IF i = at2.resource THEN Turned(at2.fn - 1, Manifest[i], s)
                    ELSE Manifest[i]
    BY <1>1 DEF ResultAt, IsFunction
  <2> HIDE DEF w
  <2>5. \A i \in 1 .. N : q[i] = w[i]
    <3> SUFFICES ASSUME NEW i \in 1 .. N PROVE q[i] = w[i]
      OBVIOUS
    <3>1. CASE i < place.resource
      BY <1>2, <1>3, <2>2, <2>4, <3>1
    <3>2. CASE i = place.resource
      BY <1>2, <1>3, <2>1, <2>2, <2>4, <3>2
    <3>3. CASE i > place.resource
      BY <1>2, <1>3, <2>2, <2>3, <2>4, <3>3
    <3> QED  BY <1>2, <3>1, <3>2, <3>3
  <2>6. q = w
    BY <1>3, <2>4, <2>5, SameFunction
  <2> QED  BY <2>6 DEF w
<1>8. ASSUME place.fn = last, place.resource = N
      PROVE  q = [i \in DOMAIN Manifest |-> Specified(Manifest[i], s)]
  <2>1. v = Specified(u, s)
    BY <1>6, <1>8
  <2>2. \A i \in 1 .. N : q[i] = Specified(Manifest[i], s)
    BY <1>1, <1>2, <1>3, <1>8, <2>1
  <2> QED  BY <1>1, <1>3, <2>2 DEF IsFunction
<1> QED  BY <1>4, <1>5, <1>7, <1>8


\* Before the first transformer the resources are as they were read.
LEMMA FirstPlace ==
  ASSUME NEW s, UserSpec(s)
  PROVE  Start \in Places /\ Start.resource = 1 /\ Start.fn = 1 /\ ResultAt(Start, s) = Manifest
<1>1. /\ Len(Manifest) \in Nat /\ Len(Manifest) >= 1 /\ DOMAIN Manifest = 1 .. Len(Manifest)
      /\ IsFunction(Manifest) /\ \A i \in 1 .. Len(Manifest) : ShippedResource(Manifest[i])
  BY SomeManifest
<1>2. Start \in Places /\ Start.resource = 1 /\ Start.fn = 1
  BY <1>1 DEF Start, Places
<1> DEFINE r == ResultAt(Start, s)
<1>3. /\ IsFunction(r) /\ DOMAIN r = 1 .. Len(Manifest)
      /\ \A i \in 1 .. Len(Manifest) :
           r[i] = IF i < Start.resource THEN Specified(Manifest[i], s)
                  ELSE IF i = Start.resource THEN Turned(Start.fn - 1, Manifest[i], s)
                  ELSE Manifest[i]
  BY <1>2, ResultShape
<1>4. \A i \in 1 .. Len(Manifest) : Turned(0, Manifest[i], s) = Manifest[i]
  BY <1>1, TurnedKept
<1> HIDE DEF r
<1>5. \A i \in 1 .. Len(Manifest) : r[i] = Manifest[i]
  BY <1>2, <1>3, <1>4
<1>6. r = Manifest
  BY <1>1, <1>3, <1>5, SameFunction
<1> QED  BY <1>2, <1>6 DEF r

\* Between two reconciliations the user edits the spec.
LEMMA EditKeeps ==
  ASSUME TransformsInv, Edit
  PROVE  TransformsInv'
<1>1. PICK f \in DOMAIN EmptySpec : \E v \in SpecFields[f] : spec' = [spec EXCEPT ![f] = v]
  BY DEF Edit
<1>2. PICK v \in SpecFields[f] : spec' = [spec EXCEPT ![f] = v]
  BY <1>1
<1>3. UserSpec(spec')
  BY <1>2, EditedSpec DEF TransformsInv
<1>4. phase = "idle" /\ phase' = phase /\ result' = result /\ at' = at /\ platform' = platform
  BY DEF Edit
<1> QED  BY <1>3, <1>4 DEF TransformsInv

\* The list of the transformers, and the copy of the manifest, they begin with.
LEMMA BeginKeeps ==
  ASSUME TransformsInv, Begin
  PROVE  TransformsInv'
<1>1. /\ UserSpec(spec) /\ spec' = spec /\ at' = at /\ at = Start /\ result = <<>>
      /\ platform' \in {"nil", "transformer", "error"}
  BY PlatformAssumption DEF TransformsInv, Begin
<1>2. CASE platform' = "error"
  <2>1. phase' = "failed" /\ result' = result
    BY <1>2 DEF Begin
  <2> QED  BY <1>1, <1>2, <2>1 DEF TransformsInv, Phases
<1>3. CASE platform' # "error"
  <2>1. phase' = "transforming" /\ fns' = AtWork(platform') /\ result' = Manifest
    BY <1>3 DEF Begin
  <2>2. Len(fns') \in {8, 9}
    BY <2>1, WhoIsAtWork
  <2>3. Start \in Places /\ Start.resource = 1 /\ Start.fn = 1 /\ ResultAt(Start, spec) = Manifest
    BY <1>1, FirstPlace
  <2>4. InProgress'
    <3>1. platform' \in {"nil", "transformer"}
      BY <1>1, <1>3
    <3>2. at'.fn <= Len(fns')
      BY <1>1, <2>2, <2>3, EightOrLast
    <3>3. \A i \in 1 .. at'.resource - 1 : FALSE
      BY <1>1, <2>3
    <3>4. at'.fn = 1 /\ at' \in Places /\ result' = ResultAt(at', spec')
      BY <1>1, <2>1, <2>3
    <3> QED  BY <2>1, <3>1, <3>2, <3>3, <3>4 DEF InProgress
  <2> QED  BY <1>1, <2>1, <2>4 DEF TransformsInv, Phases
<1> QED  BY <1>2, <1>3

\* One transformer more has turned the resource at hand into v.
LEMMA AdvanceKeeps ==
  ASSUME TransformsInv, phase = "transforming", NEW v,
         result' = [result EXCEPT ![at.resource] = v], Advance,
         spec' = spec, fns' = fns, platform' = platform,
         at.fn < 6 \/ ~Refused(Manifest[at.resource], spec),
         at.fn \in 1 .. 8 => v = Turned(at.fn, Manifest[at.resource], spec),
         at.fn = 9 => v = Turned(8, Manifest[at.resource], spec)
  PROVE  TransformsInv'
<1> DEFINE N == Len(Manifest)
           last == Len(fns)
           next == [at EXCEPT !.fn = @ + 1]
           after == [resource |-> at.resource + 1, fn |-> 1]
<1>1. InProgress /\ UserSpec(spec)
  BY DEF TransformsInv
<1>2. /\ at.resource \in 1 .. N /\ at.fn \in 1 .. last /\ last \in {8, 9}
      /\ at = [resource |-> at.resource, fn |-> at.fn]
  BY <1>1, WhoseTurn
<1>3. /\ at \in Places /\ result = ResultAt(at, spec) /\ at.fn <= last
      /\ platform \in {"nil", "transformer"} /\ fns = AtWork(platform)
      /\ \A i \in 1 .. at.resource - 1 : ~Refused(Manifest[i], spec)
  BY <1>1 DEF InProgress
<1>4. N \in Nat /\ Len(result) = N /\ DOMAIN Manifest = 1 .. N
  BY <1>3, SomeManifest, ResultShape
<1> HIDE DEF last
<1>5. /\ at.fn < last => result' = ResultAt(next, spec)
      /\ at.fn = last /\ at.resource < N => result' = ResultAt(after, spec)
      /\ at.fn = last /\ at.resource = N =>
           result' = [i \in DOMAIN Manifest |-> Specified(Manifest[i], spec)]
  <2>1. TurnedOnce(result', v, at, last, spec)
    BY <1>2, <1>3 DEF TurnedOnce
  <2> QED  BY <1>1, <2>1, NextPlace
<1>6. CASE at.fn < last
  <2>1. at' = next /\ phase' = phase
    BY <1>6 DEF Advance, last
  <2>2. next.resource = at.resource /\ next.fn = at.fn + 1
    BY <1>2
  <2>3. next \in Places /\ next.fn <= last
    BY <1>2, <1>6 DEF Places
  <2>4. next.fn > 6 => ~Refused(Manifest[next.resource], spec)
    BY <1>2, <2>2
  <2> HIDE DEF next
  <2>5. InProgress'
    <3>1. at' \in Places /\ at'.fn <= Len(fns')
      BY <2>1, <2>3 DEF last
    <3>2. platform' \in {"nil", "transformer"} /\ fns' = AtWork(platform')
      BY <1>3
    <3>3. result' = ResultAt(at', spec')
      BY <1>5, <1>6, <2>1
    <3>4. \A i \in 1 .. at'.resource - 1 : ~Refused(Manifest[i], spec')
      BY <1>3, <2>1, <2>2
    <3>5. at'.fn > 6 => ~Refused(Manifest[at'.resource], spec')
      BY <2>1, <2>4
    <3> QED  BY <3>1, <3>2, <3>3, <3>4, <3>5 DEF InProgress
  <2> QED  BY <1>1, <2>1, <2>5 DEF TransformsInv
<1>7. CASE at.fn = last /\ at.resource < N
  <2>1. at' = after /\ phase' = phase
    BY <1>4, <1>7 DEF Advance, last
  <2>2. after.resource = at.resource + 1 /\ after.fn = 1
    OBVIOUS
  <2>3. after \in Places /\ after.fn <= last
    BY <1>2, <1>4, <1>7 DEF Places
  <2>4. ~Refused(Manifest[at.resource], spec)
    BY <1>2, <1>7
  <2> HIDE DEF after
  <2>5. InProgress'
    <3>1. at' \in Places /\ at'.fn <= Len(fns')
      BY <2>1, <2>3 DEF last
    <3>2. platform' \in {"nil", "transformer"} /\ fns' = AtWork(platform')
      BY <1>3
    <3>3. result' = ResultAt(at', spec')
      BY <1>5, <1>7, <2>1
    <3>4. \A i \in 1 .. at'.resource - 1 : ~Refused(Manifest[i], spec')
      BY <1>2, <1>3, <2>1, <2>2, <2>4
    <3>5. at'.fn = 1
      BY <2>1, <2>2
    <3> QED  BY <3>1, <3>2, <3>3, <3>4, <3>5 DEF InProgress
  <2> QED  BY <1>1, <2>1, <2>5 DEF TransformsInv
<1>8. CASE at.fn = last /\ at.resource = N
  <2>1. at' = Start /\ phase' = "transformed"
    BY <1>4, <1>8 DEF Advance, last
  <2>2. \A i \in DOMAIN Manifest : ~Refused(Manifest[i], spec)
    BY <1>2, <1>3, <1>4, <1>8
  <2> QED  BY <1>1, <1>3, <1>5, <1>8, <2>1, <2>2 DEF TransformsInv, Phases
<1> QED  BY <1>2, <1>4, <1>6, <1>7, <1>8


\* One of the transformers of this repository has its turn.
LEMMA TransformResourceKeeps ==
  ASSUME TransformsInv, TransformResource
  PROVE  TransformsInv'
<1> DEFINE n == at.fn
           m == Manifest[at.resource]
           u == result[at.resource]
           v == Apply(Current, u, spec)
<1>1. /\ phase = "transforming" /\ Current # "Platform" /\ InProgress /\ UserSpec(spec)
      /\ spec' = spec /\ fns' = fns /\ platform' = platform
  BY DEF TransformResource, TransformsInv
<1>2. at.resource \in 1 .. Len(Manifest) /\ n \in 1 .. 8 /\ Current = Transformers[n]
  BY <1>1, WhoseTurn
<1>3. u = Turned(n - 1, m, spec) /\ ShippedResource(m)
  <2>1. at \in Places /\ result = ResultAt(at, spec)
    BY <1>1 DEF InProgress
  <2>2. result[at.resource] = Turned(at.fn - 1, Manifest[at.resource], spec)
    BY <1>2, <2>1, ResultShape
  <2> QED  BY <1>2, <2>2, SomeManifest
<1>4. v = Turned(n, m, spec) /\ (Transformers[n] = "CustomCerts" <=> n = 6)
  BY <1>2, <1>3, TurnedBy
<1>5. n > 6 => ~Refused(m, spec)
  BY <1>1 DEF InProgress
<1>6. CASE n = 6 /\ Refused(m, spec)
  <2>1. Turning(u, m, spec)
    BY <1>1, <1>3, <1>6, TurnedKept
  <2>2. v = Failure
    BY <1>2, <1>4, <1>6, <2>1, RefusedFails DEF Turning
  <2>3. phase' = "failed" /\ result' = <<>> /\ at' = Start
    BY <2>2 DEF TransformResource, Abort
  <2>4. spec.certs # NoCerts /\ BadCerts(spec.certs)
    BY <1>6 DEF Refused
  <2> QED  BY <1>1, <2>3, <2>4 DEF TransformsInv, Phases
<1>7. CASE ~(n = 6 /\ Refused(m, spec))
  <2>1. n < 6 \/ ~Refused(m, spec)
    BY <1>2, <1>5, <1>7
  <2>2. n \in 0 .. 8
    BY <1>2
  <2> HIDE DEF n, m
  <2>3. Turning(Turned(n, m, spec), m, spec)
    BY <1>1, <1>3, <2>1, <2>2, TurnedKept
  <2>4. v # Failure
    BY <1>4, <2>3, NoFailure DEF Turning
  <2>5. result' = [result EXCEPT ![at.resource] = v] /\ Advance
    BY <2>4 DEF TransformResource
  <2> HIDE DEF v
  <2>6. n # 9
    BY <1>2
  <2> QED  BY <1>1, <1>4, <2>1, <2>5, <2>6, AdvanceKeeps DEF n, m
<1> QED  BY <1>6, <1>7

\* The platform's transformer has its turn: the last, after which a resource is as specified.
LEMMA TransformForPlatformKeeps ==
  ASSUME TransformsInv, TransformForPlatform
  PROVE  TransformsInv'
<1> DEFINE m == Manifest[at.resource]
           u == result[at.resource]
<1>1. /\ phase = "transforming" /\ Current = "Platform" /\ InProgress /\ UserSpec(spec)
      /\ spec' = spec /\ fns' = fns
  BY DEF TransformForPlatform, TransformsInv
<1>2. CASE Advance /\ UNCHANGED <<result, platform>>
  <2>1. at.resource \in 1 .. Len(Manifest) /\ at.fn = 9
    BY <1>1, WhoseTurn
  <2>2. at \in Places /\ result = ResultAt(at, spec)
    BY <1>1 DEF InProgress
  <2>3. u = Turned(8, m, spec) /\ IsFunction(result) /\ DOMAIN result = 1 .. Len(Manifest)
    <3>1. /\ result[at.resource] = Turned(at.fn - 1, Manifest[at.resource], spec)
          /\ IsFunction(result) /\ DOMAIN result = 1 .. Len(Manifest)
      BY <2>1, <2>2, ResultShape
    <3>2. at.fn - 1 = 8
      BY <2>1
    <3> QED  BY <3>1, <3>2
  <2>4. result' = [result EXCEPT ![at.resource] = u]
    BY <1>2, <2>3 DEF IsFunction
  <2>5. ~Refused(m, spec)
    BY <1>1, <2>1 DEF InProgress
  <2>6. at.fn \notin 1 .. 8
    BY <2>1
  <2> HIDE DEF u, m
  <2> QED  BY <1>1, <1>2, <2>1, <2>3, <2>4, <2>5, <2>6, AdvanceKeeps DEF m
<1>3. CASE Abort /\ platform' = "error"
  <2>1. phase' = "failed" /\ result' = <<>> /\ at' = Start
    BY <1>3 DEF Abort
  <2> QED  BY <1>1, <1>3, <2>1 DEF TransformsInv, Phases
<1> QED  BY <1>2, <1>3 DEF TransformForPlatform

\* The manifest is installed, or the failure reported.
LEMMA EndKeeps ==
  ASSUME TransformsInv, End
  PROVE  TransformsInv'
<1>1. /\ phase \in {"transformed", "failed"} /\ phase' = "idle" /\ result' = <<>>
      /\ platform' = "nil" /\ spec' = spec /\ at' = at
  BY DEF End
<1> QED  BY <1>1 DEF TransformsInv, Phases

\* TransformsInv holds of every transform, whatever the manifest, the spec and the
\* platform: the loop of manifestival's transform.go, and the order of extensions.go.
THEOREM TransformInvariant == Spec => []TransformsInv
<1>1. Init => TransformsInv
  BY FirstSpec DEF Init, TransformsInv, Phases
<1>2. TransformsInv /\ [Next]_vars => TransformsInv'
  <2> SUFFICES ASSUME TransformsInv, [Next]_vars PROVE TransformsInv'
    OBVIOUS
  <2>1. CASE Edit
    BY <2>1, EditKeeps
  <2>2. CASE Begin
    BY <2>2, BeginKeeps
  <2>3. CASE TransformResource
    BY <2>3, TransformResourceKeeps
  <2>4. CASE TransformForPlatform
    BY <2>4, TransformForPlatformKeeps
  <2>5. CASE End
    BY <2>5, EndKeeps
  <2>6. CASE UNCHANGED vars
    <3>1. InProgress => InProgress'
      BY <2>6 DEF vars, InProgress, ResultAt
    <3>2. /\ spec' = spec /\ phase' = phase /\ result' = result /\ at' = at
          /\ platform' = platform
      BY <2>6 DEF vars
    <3> QED  BY <3>1, <3>2 DEF TransformsInv
  <2> QED  BY <2>1, <2>2, <2>3, <2>4, <2>5, <2>6 DEF Next
<1> QED  BY <1>1, <1>2, PTL DEF Spec


\* Every resource that is being transformed has the shape of one that was shipped.
LEMMA AllShipped ==
  ASSUME TransformsInv
  PROVE  /\ DOMAIN result \subseteq 1 .. Len(Manifest)
         /\ \A i \in DOMAIN result : ShippedResource(result[i])
<1>1. UserSpec(spec) /\ phase \in Phases
  BY DEF TransformsInv
<1>2. /\ DOMAIN Manifest = 1 .. Len(Manifest)
      /\ \A i \in 1 .. Len(Manifest) : ShippedResource(Manifest[i])
  BY SomeManifest
<1>3. CASE phase = "transforming"
  <2>1. InProgress
    BY <1>3 DEF TransformsInv
  <2>2. /\ at \in Places /\ result = ResultAt(at, spec)
        /\ \A i \in 1 .. at.resource - 1 : ~Refused(Manifest[i], spec)
        /\ at.fn > 6 => ~Refused(Manifest[at.resource], spec)
    BY <2>1 DEF InProgress
  <2>3. /\ at.resource \in 1 .. Len(Manifest) /\ at.fn \in 1 .. 9
        /\ DOMAIN result = 1 .. Len(Manifest)
        /\ \A i \in 1 .. Len(Manifest) :
             result[i] = IF i < at.resource THEN Specified(Manifest[i], spec)
                         ELSE IF i = at.resource THEN Turned(at.fn - 1, Manifest[i], spec)
                         ELSE Manifest[i]
    BY <2>2, ResultShape
  <2>4. SUFFICES ASSUME NEW i \in 1 .. Len(Manifest) PROVE ShippedResource(result[i])
    BY <2>3
  <2>5. CASE i < at.resource
    <3>1. ~Refused(Manifest[i], spec)
      BY <2>2, <2>3, <2>5
    <3> QED  BY <1>1, <1>2, <2>3, <2>5, <3>1, TurnedAsSpecified
  <2>6. CASE i = at.resource
    <3>1. at.fn - 1 \in 0 .. 8 /\ (at.fn - 1 < 6 \/ ~Refused(Manifest[i], spec))
      BY <2>2, <2>3, <2>6
    <3>2. result[i] = Turned(at.fn - 1, Manifest[i], spec)
      BY <2>3, <2>6
    <3> DEFINE k == at.fn - 1
    <3> HIDE DEF k
    <3>3. Turning(Turned(k, Manifest[i], spec), Manifest[i], spec)
      BY <1>1, <1>2, <3>1, TurnedKept DEF k
    <3> QED  BY <3>2, <3>3 DEF Turning, k
  <2>7. CASE i > at.resource
    BY <1>2, <2>3, <2>7
  <2> QED  BY <2>3, <2>5, <2>6, <2>7
<1>4. CASE phase = "transformed"
  <2>1. /\ result = [i \in DOMAIN Manifest |-> Specified(Manifest[i], spec)]
        /\ \A i \in DOMAIN Manifest : ~Refused(Manifest[i], spec)
    BY <1>4 DEF TransformsInv
  <2> QED  BY <1>1, <1>2, <2>1, TurnedAsSpecified
<1>5. CASE phase \in {"idle", "failed"}
  <2>1. result = <<>>
    BY <1>5 DEF TransformsInv
  <2> QED  BY <2>1
<1> QED  BY <1>1, <1>3, <1>4, <1>5 DEF Phases

\* No container is ever without an image: updateImage (images.go) replaces one by another
\* or leaves it.
THEOREM ContainersHaveImages == Spec => []TypeOK
<1>1. TransformsInv => TypeOK
  <2> SUFFICES ASSUME TransformsInv PROVE TypeOK
    OBVIOUS
  <2>1. phase \in Phases /\ platform \in {"nil", "transformer", "error"}
    BY DEF TransformsInv
  <2>2. phase = "transforming" => at.resource \in DOMAIN result /\ at.fn \in DOMAIN fns
    <3>1. SUFFICES ASSUME InProgress PROVE at.resource \in DOMAIN result /\ at.fn \in DOMAIN fns
      BY DEF TransformsInv
    <3>2. at \in Places /\ result = ResultAt(at, spec) /\ fns = AtWork(platform)
      BY <3>1 DEF InProgress
    <3>3. at.resource \in 1 .. Len(Manifest) /\ at.fn \in 1 .. Len(fns)
      BY <3>1, WhoseTurn
    <3>4. DOMAIN result = 1 .. Len(Manifest) /\ DOMAIN fns = 1 .. Len(fns)
      BY <3>2, ResultShape, WhoIsAtWork
    <3> QED  BY <3>3, <3>4
  <2>3. ASSUME NEW i \in DOMAIN result, result[i].kind = "Deployment",
               NEW c \in DOMAIN result[i].containers
        PROVE  result[i].containers[c].image # NoImage
    BY <2>3, AllShipped DEF ShippedResource, ShippedContainer
  <2> QED  BY <2>1, <2>2, <2>3 DEF TypeOK
<1> QED  BY <1>1, TransformInvariant, PTL

\* What transform (knativeserving.go) hands to the installation is the manifest with what
\* the spec asks for, of each field exactly once.
THEOREM InstalledAsSpecified == Spec => []ResultAsSpecified
<1>1. TransformsInv => ResultAsSpecified
  BY DEF TransformsInv, ResultAsSpecified
<1> QED  BY <1>1, TransformInvariant, PTL

\* CustomCertsTransform (certs.go) and the platform alone fail a reconciliation, before
\* anything is installed, and bad certificates always do.
THEOREM BadCertsAreRefused == Spec => []RefusedForCerts
<1>1. TransformsInv => RefusedForCerts
  <2> SUFFICES ASSUME TransformsInv PROVE RefusedForCerts
    OBVIOUS
  <2>1. PICK i \in DOMAIN Manifest : Manifest[i].kind = "Deployment" /\ Manifest[i].name = "controller"
    BY ManifestAssumption
  <2>2. phase = "transformed" => ~Refused(Manifest[i], spec)
    BY DEF TransformsInv
  <2> QED  BY <2>1, <2>2 DEF TransformsInv, RefusedForCerts, Refused
<1> QED  BY <1>1, TransformInvariant, PTL


-----------------------------------------------------------------------------
(* The order of the transformers.                                           *)

\* Two resources on their way that have the same value in one field.
AlikeIn(x, w, u) ==
  /\ ShippedResource(u) /\ ShippedResource(w) /\ DOMAIN w = DOMAIN u
  /\ w.kind = u.kind /\ (u.kind # "Namespace" => w.name = u.name)
  /\ x \in DOMAIN u /\ w[x] = u[x]

\* What updateRegistry and updateCachingImage (images.go) write in a field depends on no other.
LEMMA ImageOwn ==
  ASSUME NEW s, NEW u, NEW w, NEW x, AlikeIn(x, w, u), x \in Writes("Image", u.kind)
  PROVE  ImageTransform(w, s)[x] = ImageTransform(u, s)[x]
<1>1. /\ IsFunction(u) /\ IsFunction(w) /\ DOMAIN w = DOMAIN u /\ w.kind = u.kind
      /\ x \in DOMAIN u /\ w[x] = u[x]
  BY DEF AlikeIn, ShippedResource
<1>2. CASE u.kind = "Deployment"
  <2> DEFINE cs(v) == [i \in DOMAIN v.containers |->
               [v.containers[i] EXCEPT !.image =
                  UpdatedImage(s.registry, v.containers[i].name, @)]]
  <2>1. /\ ImageTransform(u, s) = [u EXCEPT !.secrets = AddImagePullSecrets(@, s.registry),
                                            !.containers = cs(u)]
        /\ ImageTransform(w, s) = [w EXCEPT !.secrets = AddImagePullSecrets(@, s.registry),
                                            !.containers = cs(w)]
    BY <1>1, <1>2 DEF ImageTransform, UpdateRegistry
  <2>2. x \in {"secrets", "containers"}
    BY <1>2 DEF Writes
  <2>3. w.containers = u.containers => cs(w) = cs(u)
    OBVIOUS
  <2> HIDE DEF cs
  <2>4. {"secrets", "containers"} \subseteq DOMAIN u
    BY <1>2 DEF AlikeIn, ShippedResource
  <2>5. /\ ImageTransform(u, s).secrets = AddImagePullSecrets(u.secrets, s.registry)
        /\ ImageTransform(w, s).secrets = AddImagePullSecrets(w.secrets, s.registry)
        /\ ImageTransform(u, s).containers = cs(u)
        /\ ImageTransform(w, s).containers = cs(w)
    BY <1>1, <2>1, <2>4
  <2> QED  BY <1>1, <2>2, <2>3, <2>5
<1>3. CASE u.kind = "Image"
  <2>1. /\ ImageTransform(u, s) = [u EXCEPT !.secrets = AddImagePullSecrets(@, s.registry),
                                            !.image = UpdatedImage(s.registry, u.name, @)]
        /\ ImageTransform(w, s) = [w EXCEPT !.secrets = AddImagePullSecrets(@, s.registry),
                                            !.image = UpdatedImage(s.registry, w.name, @)]
    BY <1>1, <1>3 DEF ImageTransform, UpdateCachingImage
  <2>2. x \in {"secrets", "image"} /\ w.name = u.name
    BY <1>3 DEF Writes, AlikeIn
  <2>3. {"secrets", "image"} \subseteq DOMAIN u
    BY <1>3 DEF AlikeIn, ShippedResource
  <2>4. /\ ImageTransform(u, s).secrets = AddImagePullSecrets(u.secrets, s.registry)
        /\ ImageTransform(w, s).secrets = AddImagePullSecrets(w.secrets, s.registry)
        /\ ImageTransform(u, s).image = UpdatedImage(s.registry, u.name, u.image)
        /\ ImageTransform(w, s).image = UpdatedImage(s.registry, w.name, w.image)
    BY <1>1, <2>1, <2>3
  <2> QED  BY <1>1, <2>2, <2>4
<1>4. u.kind \in {"Deployment", "Image"}
  BY DEF Writes
<1> QED  BY <1>2, <1>3, <1>4

\* Nor what configureCustomCerts (certs.go) writes.
LEMMA CertsOwn ==
  ASSUME NEW s, NEW u, NEW w, NEW x, AlikeIn(x, w, u), x \in Writes("CustomCerts", u.kind),
         ~Refused(u, s)
  PROVE  CustomCertsTransform(w, s)[x] = CustomCertsTransform(u, s)[x]
<1>1. /\ IsFunction(u) /\ IsFunction(w) /\ DOMAIN w = DOMAIN u /\ w.kind = u.kind
      /\ x \in DOMAIN u /\ w[x] = u[x]
  BY DEF AlikeIn, ShippedResource
<1>2. u.kind = "Deployment" /\ x \in {"volumes", "containers"} /\ w.name = u.name
  BY DEF Writes, AlikeIn
<1>3. CASE Trusts(u, s)
  <2> DEFINE cs(v) == [v.containers EXCEPT ![1] =
                         [v.containers[1] EXCEPT !.mounts = Append(@, s.certs.name)]]
  <2>1. /\ CustomCertsTransform(u, s) = [u EXCEPT !.volumes = Append(@, s.certs),
                                                  !.containers[1].mounts = Append(@, s.certs.name)]
        /\ CustomCertsTransform(w, s) = [w EXCEPT !.volumes = Append(@, s.certs),
                                                  !.containers[1].mounts = Append(@, s.certs.name)]
    BY <1>1, <1>2, <1>3 DEF CustomCertsTransform, ConfigureCustomCerts, Refused, Trusts
  <2>2. {"containers", "volumes"} \subseteq DOMAIN u
    BY <1>2 DEF AlikeIn, ShippedResource
  <2>3. /\ CustomCertsTransform(u, s).volumes = Append(u.volumes, s.certs)
        /\ CustomCertsTransform(w, s).volumes = Append(w.volumes, s.certs)
        /\ CustomCertsTransform(u, s).containers = cs(u)
        /\ CustomCertsTransform(w, s).containers = cs(w)
    BY <1>1, <2>1, <2>2
  <2>4. w.containers = u.containers => cs(w) = cs(u)
    OBVIOUS
  <2> HIDE DEF cs
  <2> QED  BY <1>1, <1>2, <2>3, <2>4
<1>4. CASE ~Trusts(u, s)
  BY <1>1, <1>2, <1>4 DEF CustomCertsTransform, Trusts
<1> QED  BY <1>3, <1>4

\* Nor what ResourceRequirementsTransform (resources.go) writes.
LEMMA RequirementsOwn ==
  ASSUME NEW s, NEW u, NEW w, NEW x, AlikeIn(x, w, u), x \in Writes("ResourceRequirements", u.kind)
  PROVE  ResourceRequirementsTransform(w, s)[x] = ResourceRequirementsTransform(u, s)[x]
<1>1. /\ IsFunction(u) /\ IsFunction(w) /\ DOMAIN w = DOMAIN u /\ w.kind = u.kind
      /\ x \in DOMAIN u /\ w[x] = u[x]
  BY DEF AlikeIn, ShippedResource
<1>2. u.kind = "Deployment" /\ x = "containers"
  BY DEF Writes
<1> DEFINE cs(v) == [i \in DOMAIN v.containers |-> WithAmounts(v.containers[i], s)]
<1>3. /\ ResourceRequirementsTransform(u, s) = [u EXCEPT !.containers = cs(u)]
      /\ ResourceRequirementsTransform(w, s) = [w EXCEPT !.containers = cs(w)]
  BY <1>1, <1>2 DEF ResourceRequirementsTransform, WithAmounts
<1>4. w.containers = u.containers => cs(w) = cs(u)
  OBVIOUS
<1> HIDE DEF cs
<1> QED  BY <1>1, <1>2, <1>3, <1>4

\* Nor what any transformer does.
LEMMA OwnFieldOnly ==
  ASSUME NEW s, NEW u, NEW w, NEW x, AlikeIn(x, w, u), NEW fn \in Names,
         x \in Writes(fn, u.kind), fn = "CustomCerts" => ~Refused(u, s)
  PROVE  Apply(fn, w, s)[x] = Apply(fn, u, s)[x]
<1>1. /\ IsFunction(u) /\ IsFunction(w) /\ DOMAIN w = DOMAIN u /\ w.kind = u.kind
      /\ x \in DOMAIN u /\ w[x] = u[x] /\ ShippedResource(u) /\ ShippedResource(w)
      /\ u.kind # "Namespace" => w.name = u.name
  BY DEF AlikeIn, ShippedResource
<1>2. CASE fn = "InjectOwner"
  <2>1. x = "owner" /\ u.kind \notin ClusterScoped
    BY <1>2 DEF Writes
  <2>2. InjectOwner(u) = [u EXCEPT !.owner = Owner] /\ InjectOwner(w) = [w EXCEPT !.owner = Owner]
    BY <1>1, <2>1 DEF InjectOwner
  <2> QED  BY <1>1, <1>2, <2>1, <2>2, Applied
<1>3. CASE fn = "InjectNamespace"
  <2>1. InjectNamespace(w)[x] = Namespace /\ InjectNamespace(u)[x] = Namespace
    BY <1>1, <1>3 DEF Writes, InjectNamespace, ClusterScoped, Bindings, Callers
  <2> QED  BY <1>1, <1>3, <2>1, Applied
<1>4. CASE fn = "ConfigMap"
  <2>1. x = "data" /\ u.kind = "ConfigMap" /\ w.name = u.name
    BY <1>1, <1>4 DEF Writes
  <2>2. ConfigMapTransform(w, s)[x] = ConfigMapTransform(u, s)[x]
    BY <1>1, <2>1 DEF ConfigMapTransform, UpdateConfigMap
  <2> QED  BY <1>1, <1>4, <2>2, Applied
<1>5. CASE fn = "Image"
  BY <1>1, <1>5, ImageOwn, Applied
<1>6. CASE fn = "Gateway"
  <2>1. x = "selector" /\ u.kind = "Gateway" /\ w.name = u.name
    BY <1>1, <1>6 DEF Writes
  <2>2. GatewayTransform(w, s)[x] = GatewayTransform(u, s)[x]
    BY <1>1, <2>1 DEF GatewayTransform, UpdateGateway
  <2> QED  BY <1>1, <1>6, <2>2, Applied
<1>7. CASE fn = "CustomCerts"
  BY <1>1, <1>7, CertsOwn, Applied
<1>8. CASE fn = "HighAvailability"
  <2>1. /\ x \in {"data", "replicas", "min"} /\ w.name = u.name
        /\ u.kind = CASE x = "data" -> "ConfigMap" [] x = "replicas" -> "Deployment"
                      [] x = "min" -> "HorizontalPodAutoscaler"
    BY <1>1, <1>8 DEF Writes
  <2>2. HighAvailabilityTransform(w, s)[x] = HighAvailabilityTransform(u, s)[x]
    <3> DEFINE entries == [y \in {EnabledComponents} |-> ComponentsValue]
    <3>1. CASE x = "data"
      <4>1. \A v : v.kind = "ConfigMap" /\ IsFunction(v) /\ "data" \in DOMAIN v =>
              HighAvailabilityTransform(v, s).data
                = IF s.ha # NoHA /\ v.name = LeaderElection THEN Overlay(v.data, entries) ELSE v.data
        BY DEF HighAvailabilityTransform, IsFunction
      <4> HIDE DEF entries
      <4> QED  BY <1>1, <2>1, <3>1, <4>1
    <3>2. CASE x = "replicas"
      BY <1>1, <2>1, <3>2 DEF HighAvailabilityTransform
    <3>3. CASE x = "min"
      BY <1>1, <2>1, <3>3 DEF HighAvailabilityTransform, Floor
    <3> QED  BY <2>1, <3>1, <3>2, <3>3
  <2> QED  BY <1>1, <1>8, <2>2, Applied
<1>9. CASE fn = "ResourceRequirements"
  BY <1>1, <1>9, RequirementsOwn, Applied
<1> QED  BY <1>2, <1>3, <1>4, <1>5, <1>6, <1>7, <1>8, <1>9 DEF Names


\* Entries that have no key in common may be laid on top in either order.
LEMMA OverlaysCommute ==
  ASSUME NEW d, NEW e, NEW f, DOMAIN e \cap DOMAIN f = {}
  PROVE  Overlay(Overlay(d, e), f) = Overlay(Overlay(d, f), e)
<1> DEFINE l == Overlay(Overlay(d, e), f)
           r == Overlay(Overlay(d, f), e)
<1>1. IsFunction(l) /\ IsFunction(r)
  BY OverlayIsFunction
<1>2. DOMAIN l = DOMAIN r
  BY DEF Overlay
<1>3. \A x \in DOMAIN l : l[x] = r[x]
  BY DEF Overlay
<1> HIDE DEF l, r
<1>4. l = r
  BY <1>1, <1>2, <1>3, SameFunction
<1> QED  BY <1>4 DEF l, r

\* The entries of the leader election and the user's (ha.go, config_maps.go).
LEMMA DataCommutes ==
  ASSUME NEW s, NEW u, ShippedResource(u), u.kind = "ConfigMap", ~Contested(u, s),
         NEW v, v = ConfigMapTransform(u, s), NEW w, w = HighAvailabilityTransform(u, s),
         AlikeIn("kind", v, u), AlikeIn("kind", w, u)
  PROVE  HighAvailabilityTransform(v, s).data = ConfigMapTransform(w, s).data
<1> DEFINE components == [x \in {EnabledComponents} |-> ComponentsValue]
           users == s.config[Cut[u.name]]
           overlaid(d) == IF Cut[u.name] \in DOMAIN s.config THEN Overlay(d, users) ELSE d
           elects == s.ha # NoHA /\ u.name = LeaderElection
           elected(d) == IF elects THEN Overlay(d, components) ELSE d
<1>1. /\ "data" \in DOMAIN u /\ u.kind = "ConfigMap" /\ IsFunction(u)
      /\ "data" \in DOMAIN v /\ v.kind = "ConfigMap" /\ v.name = u.name /\ IsFunction(v)
      /\ "data" \in DOMAIN w /\ w.kind = "ConfigMap" /\ w.name = u.name /\ IsFunction(w)
  BY DEF AlikeIn, ShippedResource
<1>2. \A t : "data" \in DOMAIN t /\ t.kind = "ConfigMap" /\ t.name = u.name =>
        ConfigMapTransform(t, s).data = overlaid(t.data)
  BY DEF ConfigMapTransform, UpdateConfigMap
<1>3. \A t : "data" \in DOMAIN t /\ t.kind = "ConfigMap" /\ t.name = u.name =>
        HighAvailabilityTransform(t, s).data = elected(t.data)
  BY DEF HighAvailabilityTransform
<1>4. overlaid(elected(u.data)) = elected(overlaid(u.data))
  <2>1. CASE elects /\ Cut[u.name] \in DOMAIN s.config
    <3>1. EnabledComponents \notin DOMAIN users
      BY <2>1 DEF Contested, Entry
    <3>2. DOMAIN users \cap DOMAIN components = {}
      BY <3>1
    <3> HIDE DEF users, components
    <3> QED  BY <2>1, <3>2, OverlaysCommute
  <2>2. CASE ~(elects /\ Cut[u.name] \in DOMAIN s.config)
    BY <2>2
  <2> QED  BY <2>1, <2>2
<1> HIDE DEF overlaid, elected
<1> QED  BY <1>1, <1>2, <1>3, <1>4

\* The transformers that write containers, and what each makes of one.
OfContainers == {"Image", "CustomCerts", "ResourceRequirements"}

Now(fn, u, i, c, s) ==
  CASE fn = "Image" -> WithImage(c, s)
    [] fn = "CustomCerts" -> WithMount(u, i, c, s)
    [] fn = "ResourceRequirements" -> WithAmounts(c, s)

\* The containers that one of them leaves.
LEMMA ContainersOf ==
  ASSUME NEW s, UserSpec(s), NEW u, ShippedResource(u), u.kind = "Deployment",
         NEW fn \in OfContainers, fn = "CustomCerts" => ~Refused(u, s)
  PROVE  LET cs == Apply(fn, u, s).containers
         IN  /\ IsFunction(cs) /\ DOMAIN cs = DOMAIN u.containers
             /\ \A i \in DOMAIN u.containers : cs[i] = Now(fn, u, i, u.containers[i], s)
<1> DEFINE v == Apply(fn, u, s)
<1>1. IsFunction(v.containers)
  <2>1. ShippedResource(v) /\ v.kind = u.kind
    BY StepKept DEF OfContainers, Names
  <2> QED  BY <2>1 DEF ShippedResource
<1>2. IsFunction(u) /\ "containers" \in DOMAIN u
  BY DEF ShippedResource
<1>3. /\ DOMAIN v.containers = DOMAIN u.containers
      /\ \A i \in DOMAIN u.containers : v.containers[i] = Now(fn, u, i, u.containers[i], s)
  <2>1. CASE fn = "Image"
    <3>1. v = UpdateRegistry(u, s.registry)
      BY <2>1, Applied DEF ImageTransform
    <3>2. v.containers = [i \in DOMAIN u.containers |-> WithImage(u.containers[i], s)]
      BY <1>2, <3>1 DEF UpdateRegistry, WithImage
    <3> HIDE DEF v
    <3> QED  BY <2>1, <3>2 DEF Now
  <2>2. CASE fn = "CustomCerts"
    <3>1. v = CustomCertsTransform(u, s)
      BY <2>2, Applied
    <3> HIDE DEF v
    <3> QED  BY <2>2, <3>1, DeploymentCerts DEF Now
  <2>3. CASE fn = "ResourceRequirements"
    <3>1. v = ResourceRequirementsTransform(u, s)
      BY <2>3, Applied
    <3>2. v.containers = [i \in DOMAIN u.containers |-> WithAmounts(u.containers[i], s)]
      BY <1>2, <3>1 DEF ResourceRequirementsTransform, WithAmounts
    <3> HIDE DEF v
    <3> QED  BY <2>3, <3>2 DEF Now
  <2> QED  BY <2>1, <2>2, <2>3 DEF OfContainers
<1> QED  BY <1>1, <1>3

\* A container's image, mounts and amounts do not depend on each other.
LEMMA ContainerCommutes ==
  ASSUME NEW s, NEW u, NEW i, NEW c, ShippedContainer(c), NEW f \in OfContainers, NEW g \in OfContainers
  PROVE  Now(g, u, i, Now(f, u, i, c, s), s) = Now(f, u, i, Now(g, u, i, c, s), s)
<1>1. /\ IsFunction(c) /\ DOMAIN c = {"name", "image", "mounts", "limits", "requests"}
  BY DEF ShippedContainer
<1>2. WithMount(u, i, WithImage(c, s), s) = WithImage(WithMount(u, i, c, s), s)
  <2> DEFINE image(d) == UpdatedImage(s.registry, d.name, d.image)
             mounts(d) == Append(d.mounts, s.certs.name)
  <2>1. \A d : WithImage(d, s) = [d EXCEPT !.image = image(d)]
    BY DEF WithImage
  <2>2. CASE Trusts(u, s) /\ i = 1
    <3>1. \A d : WithMount(u, i, d, s) = [d EXCEPT !.mounts = mounts(d)]
      BY <2>2 DEF WithMount
    <3> DEFINE a == [c EXCEPT !.image = image(c)]
               b == [c EXCEPT !.mounts = mounts(c)]
    <3>2. image(b) = image(c) /\ mounts(a) = mounts(c)
      BY <1>1
    <3> HIDE DEF image, mounts
    <3>3. [a EXCEPT !.mounts = mounts(c)] = [b EXCEPT !.image = image(c)]
      BY <1>1 DEF IsFunction
    <3> QED  BY <2>1, <3>1, <3>2, <3>3
  <2>3. CASE ~(Trusts(u, s) /\ i = 1)
    BY <2>3 DEF WithMount
  <2> QED  BY <2>2, <2>3
<1> DEFINE overridden == OverridesOf(s, c.name) # {}
           limits(d) == Overlay(d.limits, Find(s, c.name).limits)
           requests(d) == Overlay(d.requests, Find(s, c.name).requests)
<1>3. \A d : d.name = c.name =>
        WithAmounts(d, s) = IF overridden
                            THEN [d EXCEPT !.limits = limits(d), !.requests = requests(d)] ELSE d
  BY DEF WithAmounts
<1>4. WithAmounts(WithImage(c, s), s) = WithImage(WithAmounts(c, s), s)
  <2> DEFINE image(d) == UpdatedImage(s.registry, d.name, d.image)
             a == [c EXCEPT !.image = image(c)]
             b == [c EXCEPT !.limits = limits(c), !.requests = requests(c)]
  <2>1. \A d : WithImage(d, s) = [d EXCEPT !.image = image(d)]
    BY DEF WithImage
  <2>2. /\ image(b) = image(c) /\ limits(a) = limits(c) /\ requests(a) = requests(c)
        /\ a.name = c.name
    BY <1>1
  <2> HIDE DEF image, limits, requests, overridden
  <2>3. [a EXCEPT !.limits = limits(c), !.requests = requests(c)] = [b EXCEPT !.image = image(c)]
    BY <1>1 DEF IsFunction
  <2> QED  BY <1>3, <2>1, <2>2, <2>3
<1>5. WithAmounts(WithMount(u, i, c, s), s) = WithMount(u, i, WithAmounts(c, s), s)
  <2> DEFINE mounts(d) == Append(d.mounts, s.certs.name)
             a == [c EXCEPT !.mounts = mounts(c)]
             b == [c EXCEPT !.limits = limits(c), !.requests = requests(c)]
  <2>1. CASE Trusts(u, s) /\ i = 1
    <3>1. \A d : WithMount(u, i, d, s) = [d EXCEPT !.mounts = mounts(d)]
      BY <2>1 DEF WithMount
    <3>2. /\ mounts(b) = mounts(c) /\ limits(a) = limits(c) /\ requests(a) = requests(c)
          /\ a.name = c.name
      BY <1>1
    <3> HIDE DEF mounts, limits, requests, overridden
    <3>3. [a EXCEPT !.limits = limits(c), !.requests = requests(c)] = [b EXCEPT !.mounts = mounts(c)]
      BY <1>1 DEF IsFunction
    <3> QED  BY <1>3, <3>1, <3>2, <3>3
  <2>2. CASE ~(Trusts(u, s) /\ i = 1)
    BY <2>2 DEF WithMount
  <2> QED  BY <2>1, <2>2
<1> QED  BY <1>2, <1>4, <1>5 DEF Now, OfContainers


\* The fields that two transformers both write.
LEMMA BothWrite ==
  ASSUME NEW f \in Names, NEW g \in Names, f # g, NEW kind, NEW x,
         x \in Writes(f, kind), x \in Writes(g, kind)
  PROVE  \/ kind = "ConfigMap" /\ x = "data" /\ {f, g} = {"ConfigMap", "HighAvailability"}
         \/ kind = "Deployment" /\ x = "containers" /\ f \in OfContainers /\ g \in OfContainers
<1>1. x \in {"data", "containers"}
  BY DEF Names, Writes
<1>2. CASE x = "data"
  <2>1. kind = "ConfigMap" /\ f \in {"ConfigMap", "HighAvailability"} /\ g \in {"ConfigMap", "HighAvailability"}
    BY <1>2 DEF Names, Writes
  <2> QED  BY <1>2, <2>1
<1>3. CASE x = "containers"
  <2>1. kind = "Deployment" /\ f \in OfContainers /\ g \in OfContainers
    BY <1>3 DEF Names, Writes, OfContainers
  <2> QED  BY <1>3, <2>1
<1> QED  BY <1>1, <1>2, <1>3

\* Two transformers that do not refuse a resource may change places, but for the components
\* of the leader election.
LEMMA UnrefusedCommute ==
  ASSUME NEW s, UserSpec(s), NEW u, ShippedResource(u),
         NEW f \in Names, NEW g \in Names, f # g, "CustomCerts" \in {f, g} => ~Refused(u, s),
         ~(Contested(u, s) /\ {f, g} = {"ConfigMap", "HighAvailability"})
  PROVE  Apply(g, Apply(f, u, s), s) = Apply(f, Apply(g, u, s), s)
<1> DEFINE v == Apply(f, u, s)
           w == Apply(g, u, s)
           gf == Apply(g, v, s)
           fg == Apply(f, w, s)
           F == Writes(f, u.kind)
           G == Writes(g, u.kind)
<1>1. Turning(u, u, s)
  BY DEF Turning
<1>2. Turning(v, u, s) /\ Rewritten(v, u, F) /\ Turning(w, u, s) /\ Rewritten(w, u, G)
  BY <1>1, TurningKept
<1>3. Turning(gf, u, s) /\ Rewritten(gf, v, G) /\ Turning(fg, u, s) /\ Rewritten(fg, w, F)
  BY <1>2, TurningKept
<1>4. \A x \in DOMAIN u : x \in G /\ x \notin F => gf[x] = w[x] /\ fg[x] = w[x]
  <2> SUFFICES ASSUME NEW x \in DOMAIN u, x \in G, x \notin F PROVE gf[x] = w[x] /\ fg[x] = w[x]
    OBVIOUS
  <2>1. AlikeIn(x, v, u)
    BY <1>2 DEF AlikeIn, Turning, Rewritten
  <2>2. gf[x] = w[x]
    BY <2>1, OwnFieldOnly
  <2> HIDE DEF fg, w, F
  <2>3. fg[x] = w[x]
    BY <1>2, <1>3 DEF Rewritten, Turning
  <2> QED  BY <2>2, <2>3
<1>5. \A x \in DOMAIN u : x \in F /\ x \notin G => gf[x] = v[x] /\ fg[x] = v[x]
  <2> SUFFICES ASSUME NEW x \in DOMAIN u, x \in F, x \notin G PROVE gf[x] = v[x] /\ fg[x] = v[x]
    OBVIOUS
  <2>1. AlikeIn(x, w, u)
    BY <1>2 DEF AlikeIn, Turning, Rewritten
  <2>2. fg[x] = v[x]
    BY <2>1, OwnFieldOnly
  <2> HIDE DEF gf, v, G
  <2>3. gf[x] = v[x]
    BY <1>2, <1>3 DEF Rewritten, Turning
  <2> QED  BY <2>2, <2>3
<1>6. \A x \in DOMAIN u : x \notin F /\ x \notin G => gf[x] = fg[x]
  <2> HIDE DEF gf, fg, v, w, F, G
  <2> QED  BY <1>2, <1>3 DEF Rewritten, Turning
<1>7. \A x \in DOMAIN u : x \in F /\ x \in G => gf[x] = fg[x]
  <2> SUFFICES ASSUME NEW x \in DOMAIN u, x \in F, x \in G PROVE gf[x] = fg[x]
    OBVIOUS
  <2>1. CASE u.kind = "ConfigMap" /\ x = "data" /\ {f, g} = {"ConfigMap", "HighAvailability"}
    <3> DEFINE a == ConfigMapTransform(u, s)
               b == HighAvailabilityTransform(u, s)
    <3>1. (f = "ConfigMap" /\ g = "HighAvailability") \/ (f = "HighAvailability" /\ g = "ConfigMap")
      BY <2>1
    <3>2. ShippedResource(v) /\ ShippedResource(w)
      BY <1>2 DEF Turning
    <3>3. Turning(a, u, s) /\ Turning(b, u, s) /\ Rewritten(a, u, {"data"}) /\ Rewritten(b, u, {"data"})
      BY <1>2, <2>1, <3>1, Applied DEF Writes
    <3>4. "kind" \in DOMAIN u
      BY DEF ShippedResource
    <3> HIDE DEF a, b
    <3>5. AlikeIn("kind", a, u) /\ AlikeIn("kind", b, u)
      BY <3>3, <3>4 DEF AlikeIn, Turning
    <3>6. HighAvailabilityTransform(a, s).data = ConfigMapTransform(b, s).data
      BY <2>1, <3>5, DataCommutes DEF a, b
    <3>7. \/ v = a /\ w = b /\ gf = HighAvailabilityTransform(a, s) /\ fg = ConfigMapTransform(b, s)
          \/ v = b /\ w = a /\ gf = ConfigMapTransform(b, s) /\ fg = HighAvailabilityTransform(a, s)
      BY <3>1, <3>2, Applied DEF a, b
    <3> HIDE DEF gf, fg, v, w
    <3> QED  BY <2>1, <3>6, <3>7
  <2>2. CASE u.kind = "Deployment" /\ x = "containers" /\ f \in OfContainers /\ g \in OfContainers
    <3>1. /\ ShippedResource(v) /\ v.kind = "Deployment" /\ v.name = u.name
          /\ ShippedResource(w) /\ w.kind = "Deployment" /\ w.name = u.name
          /\ (Refused(v, s) <=> Refused(u, s)) /\ (Refused(w, s) <=> Refused(u, s))
      BY <1>2, <2>2 DEF Turning
    <3> DEFINE cs == u.containers
               vs == v.containers
               ws == w.containers
               ls == gf.containers
               rs == fg.containers
    <3>2. /\ DOMAIN vs = DOMAIN cs /\ \A i \in DOMAIN cs : vs[i] = Now(f, u, i, cs[i], s)
          /\ DOMAIN ws = DOMAIN cs /\ \A i \in DOMAIN cs : ws[i] = Now(g, u, i, cs[i], s)
      BY <2>2, ContainersOf
    <3>3. /\ IsFunction(ls) /\ DOMAIN ls = DOMAIN vs
          /\ \A i \in DOMAIN vs : ls[i] = Now(g, v, i, vs[i], s)
      BY <2>2, <3>1, ContainersOf
    <3>4. /\ IsFunction(rs) /\ DOMAIN rs = DOMAIN ws
          /\ \A i \in DOMAIN ws : rs[i] = Now(f, w, i, ws[i], s)
      BY <2>2, <3>1, ContainersOf
    <3>5. \A i, c : Now(g, v, i, c, s) = Now(g, u, i, c, s) /\ Now(f, w, i, c, s) = Now(f, u, i, c, s)
      <4>1. (Trusts(v, s) <=> Trusts(u, s)) /\ (Trusts(w, s) <=> Trusts(u, s))
        BY <3>1 DEF Trusts
      <4> HIDE DEF v, w
      <4> QED  BY <2>2, <4>1 DEF Now, WithMount, OfContainers
    <3>6. \A i \in DOMAIN cs : ShippedContainer(cs[i])
      BY <2>2 DEF ShippedResource
    <3>7. \A i \in DOMAIN cs :
            Now(g, u, i, Now(f, u, i, cs[i], s), s) = Now(f, u, i, Now(g, u, i, cs[i], s), s)
      BY <2>2, <3>6, ContainerCommutes
    <3> HIDE DEF vs, ws, ls, rs, cs, v, w
    <3>8. \A i \in DOMAIN cs : ls[i] = rs[i]
      BY <3>2, <3>3, <3>4, <3>5, <3>7
    <3>9. ls = rs
      BY <3>2, <3>3, <3>4, <3>8, SameFunction
    <3> QED  BY <2>2, <3>9 DEF ls, rs
  <2> HIDE DEF gf, fg, v, w
  <2> QED  BY <2>1, <2>2, BothWrite
<1>8. \A x \in DOMAIN u : gf[x] = fg[x]
  <2> HIDE DEF gf, fg, v, w, F, G
  <2> QED  BY <1>4, <1>5, <1>6, <1>7
<1>9. IsFunction(gf) /\ IsFunction(fg) /\ DOMAIN gf = DOMAIN u /\ DOMAIN fg = DOMAIN u
  BY <1>3 DEF Turning, Rewritten
<1> HIDE DEF gf, fg, v, w
<1>10. gf = fg
  BY <1>8, <1>9, SameFunction
<1> QED  BY <1>10 DEF gf, fg, v, w

\* Of a refused deployment nothing is left in either order.
LEMMA RefusedCommute ==
  ASSUME NEW s, UserSpec(s), NEW u, ShippedResource(u), Refused(u, s),
         NEW g \in Names, g # "CustomCerts"
  PROVE  /\ Apply(g, Apply("CustomCerts", u, s), s) = Failure
         /\ Apply("CustomCerts", Apply(g, u, s), s) = Failure
<1>1. Apply("CustomCerts", u, s) = Failure
  BY RefusedFails
<1>2. Apply(g, Failure, s) = Failure
  BY DEF Apply
<1>3. ShippedResource(Apply(g, u, s)) /\ Refused(Apply(g, u, s), s)
  BY StepKept
<1> QED  BY <1>1, <1>2, <1>3, RefusedFails


\* Any two transformers of the list in extensions.go.
LEMMA TwoCommute ==
  ASSUME NEW s, UserSpec(s), NEW u, ShippedResource(u), NEW f \in Names, NEW g \in Names,
         ~(Contested(u, s) /\ {f, g} = {"ConfigMap", "HighAvailability"})
  PROVE  Apply(g, Apply(f, u, s), s) = Apply(f, Apply(g, u, s), s)
<1>1. CASE f = g
  BY <1>1
<1>2. CASE f # g /\ ("CustomCerts" \in {f, g} => ~Refused(u, s))
  BY <1>2, UnrefusedCommute
<1>3. CASE f # g /\ "CustomCerts" \in {f, g} /\ Refused(u, s)
  <2>1. CASE f = "CustomCerts"
    BY <1>3, <2>1, RefusedCommute
  <2>2. CASE g = "CustomCerts"
    BY <1>3, <2>2, RefusedCommute
  <2> QED  BY <1>3, <2>1, <2>2
<1> QED  BY <1>1, <1>2, <1>3

\* The order of the list in extensions.go decides nothing but the components of the leader
\* election.
THEOREM OrderDecidesNothing == Spec => []OrderIsIrrelevant
<1>1. TransformsInv => OrderIsIrrelevant
  <2>1. SUFFICES ASSUME TransformsInv, phase = "transforming", Current # "Platform",
                        NEW later \in at.fn + 1 .. Len(Transformers)
                 PROVE  LET u == result[at.resource]
                            f == Current
                            g == Transformers[later]
                        IN  \/ Apply(g, Apply(f, u, spec), spec) = Apply(f, Apply(g, u, spec), spec)
                            \/ (Contested(u, spec) /\ {f, g} = {"ConfigMap", "HighAvailability"})
    BY DEF OrderIsIrrelevant
  <2>2. InProgress /\ UserSpec(spec)
    BY <2>1 DEF TransformsInv
  <2>3. /\ at.resource \in 1 .. Len(Manifest) /\ at.fn \in 1 .. 8 /\ Current \in Names
    BY <2>1, <2>2, WhoseTurn
  <2>4. at.resource \in DOMAIN result
    BY <2>2, <2>3, ResultShape DEF InProgress
  <2>5. ShippedResource(result[at.resource])
    BY <2>1, <2>4, AllShipped
  <2>6. later \in 1 .. 8
    <3>1. Len(Transformers) = 8
      BY DEF Transformers
    <3> QED  BY <2>1, <2>3, <3>1
  <2>7. Transformers[later] \in Names
    BY <2>6, TurnedBy
  <2> QED  BY <2>2, <2>3, <2>5, <2>7, TwoCommute
<1> QED  BY <1>1, TransformInvariant, PTL

=============================================================================
