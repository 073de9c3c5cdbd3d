---------------------------- MODULE MCReconciler ----------------------------
(***************************************************************************)
(* Small instances of Reconciler for TLC: one KnativeServing, in the home   *)
(* namespace or in another, new or left by an earlier operator, or two.     *)
(***************************************************************************)
EXTENDS ReconcilerRefinement

CONSTANTS k1, k2

OneKey == {k1}
TwoKeys == {k1, k2}
NoKeys == {}

=============================================================================
