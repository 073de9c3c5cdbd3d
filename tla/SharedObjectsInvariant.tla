----------------------- MODULE SharedObjectsInvariant -----------------------
(***************************************************************************)
(* The inductive invariant behind the properties of SharedObjects: which    *)
(* cell each reference of the objects in use refers to.  TLC checks it on a *)
(* small instance, SharedObjectsProofs proves it.                           *)
(***************************************************************************)
EXTENDS SharedObjects

\* The variables have their types; what the worker has in hand it has all of.
SharedTypeOK ==
  /\ shape \subseteq KnativeServing
  /\ struct \in [Ids -> [KnativeServing -> Cells \cup {Nil}]]
  /\ memory \in [Cells -> {0, 1}]
  /\ cached \in Ids \cup {None} /\ original \in Ids \cup {None}
  /\ resource \in Ids \cup {None} /\ existing \in Ids \cup {None}
  /\ writes \in Nat

InHand ==
  /\ original = None <=> resource = None
  /\ original # None => cached # None
  /\ existing # None => resource # None

\* The objects in hand are copies, each of its own.
Apart ==
  /\ resource # None => resource \notin {cached, original, existing}
  /\ existing # None => existing \notin {cached, original}

\* Every reference of an object refers to a cell of its own, or the one updateStatus
\* has made it share with resource.
Home(i, p) == struct[i][p] \in {Nil, <<i, p>>}
AtHome ==
  \A i \in Held, p \in KnativeServing :
    \/ Home(i, p)
    \/ i = existing /\ p = Conditions /\ struct[i][p] = struct[resource][p]

\* The inductive invariant: a copy shares no cell with what it was copied from,
\* down to the entries of the maps in the maps, and so no write to one shows in the other.
SharingInv == SharedTypeOK /\ InHand /\ Apart /\ AtHome /\ CacheAsDelivered

=============================================================================
