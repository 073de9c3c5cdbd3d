SPECIFICATION Spec
CONSTANTS
  Manifest <- SmallManifest
  Namespace = "knative-serving"
  Owner = "KnativeServing"
  Cut <- SmallCut
  SpecFields <- SmallSpecs
  PlatformResults = {"nil", "transformer", "error"}
INVARIANTS
  ConfigOverridesAll
