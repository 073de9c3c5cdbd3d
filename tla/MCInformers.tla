----------------------------- MODULE MCInformers -----------------------------
(* Two goroutines and two types: both ask for one type, or each for one.    *)
EXTENDS InformersInvariant

CONSTANTS c1, c2, servings, deployments

TwoCallers == {c1, c2}
TwoTypes == {servings, deployments}
=============================================================================
