------------------------------ MODULE MCStartup ------------------------------
(* The process, and two KnativeServings.                                     *)
EXTENDS StartupInvariant

CONSTANTS goroutine, k1, k2

JustMain == {goroutine}
TwoKeys == {k1, k2}
OneKey == {k1}
TwoTypes == {"KnativeServing", "Deployment"}
TheServing == "KnativeServing"
TheDeployment == "Deployment"
=============================================================================
