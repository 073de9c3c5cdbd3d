-------------------------- MODULE MetricsInvariant --------------------------
(***************************************************************************)
(* The inductive invariant behind the properties of ChangeMetrics.  It is a *)
(* formula about the values that belong to one key: the stored object a,    *)
(* the cached object c, the changes w between them, the stage s of the      *)
(* worker and its copy r, the generation v last reconciled, the reports rep *)
(* and the changes m.  TLC checks it on a small instance, MetricsProofs     *)
(* proves it.                                                               *)
(***************************************************************************)
EXTENDS ChangeMetrics, ReconcilerInvariant

Live(o) == o.phase = "live"

\* A worker that has read its object but not yet acted on the generation.
HoldStages == {"setFinalizer", "reconcileKind", "finalizeKind"}
Holds(s, r) == s \in HoldStages /\ r.phase # "empty"

\* The objects whose generations may still be reported or forgotten.
InSight(a, c, w, s, r) ==
  {a, c} \cup {w[i] : i \in DOMAIN w} \cup {o \in {r} : Holds(s, r)}

\* Object o was stored after object p, or is p: nothing comes back to life but as
\* the next incarnation.
Succeeds(p, o) == p.inc <= o.inc /\ (Live(o) /\ ~Live(p) => p.inc < o.inc)

Succession(a, c, w, s, r) ==
  /\ \A p \in InSight(a, c, w, s, r) : Succeeds(p, a)
  /\ \A i \in DOMAIN w : Succeeds(c, w[i])
  /\ \A i, j \in DOMAIN w : i < j => Succeeds(w[i], w[j])
  /\ Holds(s, r) => Succeeds(r, c) /\ \A i \in DOMAIN w : Succeeds(r, w[i])

\* setFinalizer works on a live object, finalizeKind on one that is being deleted,
\* and the zero KnativeServing has the zero generation.
Handed(s, r) ==
  /\ s = "setFinalizer" => Live(r)
  /\ s = "reconcileKind" => Live(r) \/ (r.phase = "empty" /\ r.gen = 0)
  /\ s = "finalizeKind" => r.phase = "deleting"

\* The generation of a live object is one more than the edits of its incarnation:
\* those were made before the next incarnation, and before now.
GenerationsCount(p, a, m) ==
  Live(p) =>
    /\ p.inc >= 1 /\ p.gen >= 1
    /\ m.before[p.inc] + p.gen - 1 <= m.edits
    /\ \A j \in p.inc + 1 .. a.inc : m.before[p.inc] + p.gen - 1 <= m.before[j]

\* What was made since the process started, the object it found counted in.
Creations(m) == m.creations + IF m.there THEN 1 ELSE 0

\* No report of incarnation o.inc has been made, and one at most for each creation
\* and each edit before it.
Unreported(o, a, rep, m) ==
  /\ rep["edit"] <= m.before[o.inc]
  /\ rep["creation"] + a.inc <= o.inc + Creations(m) - 1

\* The same, but the edits up to generation v, and the creation, of incarnation
\* o.inc may have been reported.
ReportedUpTo(o, a, v, rep, m) ==
  /\ rep["edit"] <= m.before[o.inc] + v - 1
  /\ rep["creation"] + a.inc <= o.inc + Creations(m)

Accounted(S, a, v, rep, m) ==
  /\ v = NotServed \/ v >= 1
  /\ rep["edit"] <= m.edits /\ rep["creation"] <= Creations(m)
  /\ \A p \in S : GenerationsCount(p, a, m)
  /\ \A o \in S : Live(o) =>
       IF v = NotServed THEN Unreported(o, a, rep, m) ELSE ReportedUpTo(o, a, v, rep, m)
  /\ \A p, o \in S : Live(o) /\ ~Live(p) /\ p.inc < o.inc => Unreported(o, a, rep, m)

MetricsKey(a, c, w, s, r, v, rep, m) ==
  /\ Succession(a, c, w, s, r) /\ Handed(s, r)
  /\ Len(m.before) = a.inc
  /\ Accounted(InSight(a, c, w, s, r), a, v, rep, m)

Made == [creations : Nat, edits : Nat, there : BOOLEAN, before : Seq(Nat)]

MetricsTypes ==
  /\ reported \in [ServingKeys -> [Changes -> Nat]]
  /\ made \in [Keys -> Made]

\* The inductive invariant: whatever the informer has missed, no object in sight
\* can be reported of more often than it, and all before it, was changed.
MetricsInv ==
  /\ MetricsTypes
  /\ \A k \in Keys :
       MetricsKey(api[k], cache[k], watch[k], pc[k], res[k], servings[k], reported[k], made[k])
  /\ servings[NoKey] \in {NotServed, 0} /\ NamedChangesOnly

=============================================================================
