------------------------ MODULE ReconcilerRefinement ------------------------
(***************************************************************************)
(* The controller keeps the promises of ServingContract.  Of an object the  *)
(* contract sees whether it lives, its incarnation and whether it has the   *)
(* manifest finalizer, as the API server stores it; of the deployments, who *)
(* controls them.  Everything a worker, the informer or the queue has in    *)
(* memory is hidden, and with it how stale that may be.                     *)
(***************************************************************************)
EXTENDS ReconcilerInvariant

StoredObject(o) ==
  [phase |-> o.phase, inc |-> o.inc, held |-> Has(o.fin, ManifestFinalizer)]

Controller(d) == IF d.state = "absent" THEN NoOwner ELSE d.owner

Contract == INSTANCE ServingContract WITH
  Obsolete <- {"obsolete"},
  object <- [k \in Keys |-> StoredObject(api[k])],
  owner <- [k \in Keys |-> Controller(dep[k])]

\* The controller implements the contract: whatever is applied or removed, by
\* however many workers from however stale a copy and across crashes, is
\* applied for a KnativeServing that is stored and held at that very moment,
\* or removed for one that is held and being deleted.
ContractKept == Contract!Spec

=============================================================================
