------------------------ MODULE TransformsInvariant ------------------------
(***************************************************************************)
(* What holds of the transform at every step: the resources before the one  *)
(* at hand are as the spec asks for, that one is as far as the transformers *)
(* before the one whose turn it is have brought it, and those after it are  *)
(* as they were shipped.                                                    *)
(***************************************************************************)
EXTENDS Transforms

\* The spec that is reconciled has values of the kinds that FieldsAssumption names.
UserSpec(s) ==
  /\ IsFunction(s) /\ DOMAIN s = DOMAIN EmptySpec
  /\ IsImage(s.registry.default)
  /\ IsFunction(s.ingress) /\ IsFunction(s.local)
  /\ s.ha \in Nat \cup {NoHA}
  /\ IsSequence(s.resources)

\* A resource u after each of the transformers.
Turned1(u, s) == Apply("InjectOwner", u, s)
Turned2(u, s) == Apply("InjectNamespace", Turned1(u, s), s)
Turned3(u, s) == Apply("ConfigMap", Turned2(u, s), s)
Turned4(u, s) == Apply("Image", Turned3(u, s), s)
Turned5(u, s) == Apply("Gateway", Turned4(u, s), s)
Turned6(u, s) == Apply("CustomCerts", Turned5(u, s), s)
Turned7(u, s) == Apply("HighAvailability", Turned6(u, s), s)
Turned8(u, s) == Apply("ResourceRequirements", Turned7(u, s), s)

\* After the first n of them.
Turned(n, u, s) ==
  CASE n = 0 -> u
    [] n = 1 -> Turned1(u, s)
    [] n = 2 -> Turned2(u, s)
    [] n = 3 -> Turned3(u, s)
    [] n = 4 -> Turned4(u, s)
    [] n = 5 -> Turned5(u, s)
    [] n = 6 -> Turned6(u, s)
    [] n = 7 -> Turned7(u, s)
    [] n = 8 -> Turned8(u, s)

\* The deployment whose certificates CustomCertsTransform refuses.
Refused(u, s) ==
  /\ u.kind = "Deployment" /\ u.name = "controller"
  /\ s.certs # NoCerts /\ BadCerts(s.certs)

\* The resources once the transform has come to the given place.
ResultAt(place, s) ==
  [i \in DOMAIN Manifest |->
     IF i < place.resource THEN Specified(Manifest[i], s)
     ELSE IF i = place.resource THEN Turned(place.fn - 1, Manifest[i], s)
     ELSE Manifest[i]]

Places == [resource : 1 .. Len(Manifest), fn : 1 .. 9]

InProgress ==
  /\ platform \in {"nil", "transformer"}
  /\ fns = AtWork(platform)
  /\ at \in Places /\ at.fn <= Len(fns)
  /\ result = ResultAt(at, spec)
  /\ \A i \in 1 .. at.resource - 1 : ~Refused(Manifest[i], spec)
  /\ at.fn > 6 => ~Refused(Manifest[at.resource], spec)

\* The invariant of the proofs: how far the transform of manifestival (transform.go,
\* lines 27 to 38) has come with each resource, under the spec it began with.
TransformsInv ==
  /\ UserSpec(spec)
  /\ phase \in Phases /\ platform \in {"nil", "transformer", "error"}
  /\ phase = "transforming" => InProgress
  /\ phase # "transforming" => at = Start
  /\ phase \in {"idle", "failed"} => result = <<>>
  /\ phase = "transformed" =>
       /\ result = [i \in DOMAIN Manifest |-> Specified(Manifest[i], spec)]
       /\ \A i \in DOMAIN Manifest : ~Refused(Manifest[i], spec)
  /\ phase = "failed" =>
       platform = "error" \/ (spec.certs # NoCerts /\ BadCerts(spec.certs))

=============================================================================
