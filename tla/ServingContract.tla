--------------------------- MODULE ServingContract ---------------------------
(***************************************************************************)
(* What the operator promises about the finalizer                          *)
(* delete-knative-serving-manifest, without a word on how: nothing is       *)
(* applied to the cluster except for a KnativeServing that has it, nothing  *)
(* is removed except for one that is being deleted and has it, and it is    *)
(* put on objects that live and taken off objects that are being deleted.   *)
(* So a KnativeServing never leaves anything behind of which FinalizeKind   *)
(* has not heard, and never takes anything away while it lives.             *)
(***************************************************************************)
EXTENDS Naturals

CONSTANTS
  Keys,             \* the KnativeServings, by namespace and name
  LegacyKeys,       \* those there, installed, when the operator starts
  ClusterResources, \* cluster-scoped resources of this manifest and of earlier ones
  Obsolete          \* those of earlier manifests only

VARIABLES
  object,    \* of each key: whether it lives, its incarnation, whether it is held
  cluster,   \* the cluster-scoped resources that exist
  owner      \* the incarnation that controls the deployments of a key, 0 if none

vars == <<object, cluster, owner>>

Held(k) == object[k].held

Become(k, o) == object' = [object EXCEPT ![k] = o] /\ UNCHANGED <<cluster, owner>>

Absent(inc) == [phase |-> "absent", inc |-> inc, held |-> FALSE]
Live(inc, held) == [phase |-> "live", inc |-> inc, held |-> held]
Deleting(inc, held) == [phase |-> "deleting", inc |-> inc, held |-> held]

Init ==
  /\ object = [k \in Keys |-> IF k \in LegacyKeys THEN Live(1, TRUE) ELSE Absent(0)]
  /\ cluster = IF LegacyKeys = {} THEN {} ELSE ClusterResources
  /\ owner = [k \in Keys |-> IF k \in LegacyKeys THEN 1 ELSE 0]

Create(k) ==
  /\ object[k].phase = "absent"
  /\ Become(k, Live(object[k].inc + 1, FALSE))

Hold(k) ==
  /\ object[k].phase = "live"
  /\ Become(k, Live(object[k].inc, TRUE))

\* An object that nothing holds may be gone at once.
Delete(k) ==
  /\ object[k].phase = "live"
  /\ \/ Become(k, Deleting(object[k].inc, Held(k)))
     \/ ~Held(k) /\ Become(k, Absent(object[k].inc))

Release(k) ==
  /\ object[k].phase = "deleting" /\ Held(k)
  /\ \/ Become(k, Deleting(object[k].inc, FALSE))
     \/ Become(k, Absent(object[k].inc))

Vanish(k) ==
  /\ object[k].phase = "deleting" /\ ~Held(k)
  /\ Become(k, Absent(object[k].inc))

Install(k) ==
  /\ Held(k)
  /\ \E r \in ClusterResources \ Obsolete : cluster' = cluster \cup {r}
  /\ UNCHANGED <<object, owner>>

\* The deployments of a key come under the control of the object that is held.
Adopt(k) ==
  /\ Held(k)
  /\ owner' = [owner EXCEPT ![k] = object[k].inc]
  /\ UNCHANGED <<object, cluster>>

Tidy(k) ==
  /\ Held(k)
  /\ cluster' = cluster \ Obsolete
  /\ UNCHANGED <<object, owner>>

Uninstall(k) ==
  /\ object[k].phase = "deleting" /\ Held(k)
  /\ \E r \in ClusterResources \ Obsolete : cluster' = cluster \ {r}
  /\ UNCHANGED <<object, owner>>

\* Deployments are deleted by the operator, by the garbage collector, by users.
Lose(K) ==
  /\ owner' = [k \in Keys |-> IF k \in K THEN 0 ELSE owner[k]]
  /\ UNCHANGED <<object, cluster>>

Next ==
  \/ \E K \in SUBSET Keys : Lose(K)
  \/ \E k \in Keys : \/ Create(k) \/ Hold(k) \/ Delete(k) \/ Release(k) \/ Vanish(k)
                     \/ Install(k) \/ Adopt(k) \/ Tidy(k) \/ Uninstall(k)

Spec == Init /\ [][Next]_vars

=============================================================================
