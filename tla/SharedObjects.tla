---------------------------- MODULE SharedObjects ----------------------------
(***************************************************************************)
(* Who shares memory with whom.  The lister hands out the informer's own    *)
(* objects; a worker is to change copies only.  A KnativeServing is a        *)
(* struct with references to maps, slices and a pointer                      *)
(* (pkg/apis/serving/v1alpha1/knativeserving_types.go), and a copy is as     *)
(* good as the DeepCopyInto methods of zz_generated.deepcopy.go, which go    *)
(* down the struct reference by reference.                                   *)
(*                                                                         *)
(* A reference is known by its path from the struct; "*" stands for the      *)
(* entries of a map or the elements of a slice.  What a reference refers to  *)
(* is one cell, whose content is 0 or 1.  One worker reconciles one object.  *)
(***************************************************************************)
EXTENDS Naturals, Sequences

CONSTANTS
  Ids,        \* of objects in memory
  MaxWrites   \* writes into cells

Nil == <<>>
None == 0

\* There is room in memory for a fifth object.
ASSUME IdsAssumption ==
  /\ Ids \subseteq Nat \ {None}
  /\ \A a, b, c, d \in Ids \cup {None} : Ids \ {a, b, c, d} # {}
ASSUME WritesAssumption == MaxWrites \in Nat

Into(field, paths) == {<<field>> \o p : p \in paths}

-----------------------------------------------------------------------------
(* The references in the types ...                                          *)

IstioGatewayOverride == {<<"Selector">>}
Registry == {<<"Override">>, <<"ImagePullSecrets">>}
ResourceRequirementsOverride == {<<"Limits">>, <<"Requests">>}
KnativeServingSpec ==
  {<<"Config">>, <<"Config", "*">>, <<"HighAvailability">>, <<"Resources">>}
  \cup Into("Registry", Registry)
  \cup Into("KnativeIngressGateway", IstioGatewayOverride)
  \cup Into("ClusterLocalGateway", IstioGatewayOverride)
  \cup Into("Resources", Into("*", ResourceRequirementsOverride))
ObjectMeta == {<<"Finalizers">>}
KnativeServingStatus == {<<"Conditions">>}
KnativeServing ==
  Into("ObjectMeta", ObjectMeta) \cup Into("Spec", KnativeServingSpec)
  \cup Into("Status", KnativeServingStatus)

Finalizers == <<"ObjectMeta", "Finalizers">>
Conditions == <<"Status", "Conditions">>

(* ... and those whose targets DeepCopyInto copies.                          *)

CopyGateway == {<<"Selector">>}
CopyRegistry == {<<"Override">>, <<"ImagePullSecrets">>}
CopyResources == {<<"Limits">>, <<"Requests">>}

\* The loop over Config that copies the outer map only.
CopyConfigMutant == {<<"Config">>}
CopyConfig == {<<"Config">>, <<"Config", "*">>}

CopySpec ==
  CopyConfig \cup {<<"HighAvailability">>, <<"Resources">>}
  \cup Into("Registry", CopyRegistry)
  \cup Into("KnativeIngressGateway", CopyGateway)
  \cup Into("ClusterLocalGateway", CopyGateway)
  \cup Into("Resources", Into("*", CopyResources))
CopyMeta == {<<"Finalizers">>}
CopyStatus == {<<"Conditions">>}
Copied ==
  Into("ObjectMeta", CopyMeta) \cup Into("Spec", CopySpec) \cup Into("Status", CopyStatus)

IsPrefix(p, q) == Len(p) <= Len(q) /\ \A i \in DOMAIN p : p[i] = q[i]

\* A struct that has these references and those on the way to them.
Shapes == {KnativeServing} \cup
          {{p \in KnativeServing : IsPrefix(p, q)} : q \in KnativeServing}

-----------------------------------------------------------------------------
VARIABLES
  shape,     \* the references that are not nil, in every object decoded
  struct,    \* of each object the cell each reference refers to, or Nil
  memory,    \* the content of the cells
  cached,    \* the informer's object,
  original,  \* the one Reconcile got from the lister,
  resource,  \* the copy it reconciles,
  existing,  \* and the one updateStatus sends; None if there is none
  delivered, \* what the informer delivered: the content, by reference
  asRead,    \* what Reconcile got
  writes

vars == <<shape, struct, memory, cached, original, resource, existing, delivered, asRead, writes>>

Cells == Ids \X KnativeServing
Nowhere == [p \in KnativeServing |-> Nil]
Absent == 2

Held == {cached, original, resource, existing} \ {None}
InUse == Held \cup UNION {{c[1] : c \in {struct[i][p] : p \in KnativeServing} \ {Nil}} : i \in Held}
New == CHOOSE i \in Ids : i \notin InUse

Content(i) == [p \in KnativeServing |-> IF struct[i][p] = Nil THEN Absent ELSE memory[struct[i][p]]]

\* An object decoded from JSON, with cells of its own.
Own(i) == [p \in KnativeServing |-> IF p \in shape THEN <<i, p>> ELSE Nil]
Zeroed(i) == [c \in Cells |-> IF c[1] = i /\ c[2] \in shape THEN 0 ELSE memory[c]]

\* in.DeepCopyInto(out): a reference that is not nil gets a cell of its own if it,
\* and all on the way to it, is copied; else out has what "*out = *in" gave it.
IsCopied(p) == \A q \in KnativeServing : IsPrefix(q, p) => q \in Copied
DeepCopyInto(in, out) ==
  [p \in KnativeServing |-> IF in[p] # Nil /\ IsCopied(p) THEN <<out, p>> ELSE in[p]]
Duplicated(in, out) ==
  [c \in Cells |-> IF c[1] = out /\ in[c[2]] # Nil THEN memory[in[c[2]]] ELSE memory[c]]

Init ==
  /\ shape \in Shapes
  /\ struct = [i \in Ids |-> Nowhere]
  /\ memory = [c \in Cells |-> 0]
  /\ cached = None /\ original = None /\ resource = None /\ existing = None
  /\ delivered = [p \in KnativeServing |-> Absent] /\ asRead = delivered
  /\ writes = 0

-----------------------------------------------------------------------------
\* The informer puts a new object, decoded from the watch, in the place of the old,
\* which a worker may still have.
Deliver ==
  /\ cached' = New
  /\ struct' = [struct EXCEPT ![New] = Own(New)]
  /\ memory' = Zeroed(New)
  /\ delivered' = [p \in KnativeServing |-> IF p \in shape THEN 0 ELSE Absent]
  /\ UNCHANGED <<shape, original, resource, existing, asRead, writes>>

\* original, err := getter.Get(name); resource := original.DeepCopy()
Get ==
  /\ original = None /\ cached # None
  /\ original' = cached /\ resource' = New
  /\ struct' = [struct EXCEPT ![New] = DeepCopyInto(struct[cached], New)]
  /\ memory' = Duplicated(struct[cached], New)
  /\ asRead' = Content(cached)
  /\ UNCHANGED <<shape, cached, existing, delivered, writes>>

Write(cell) ==
  /\ writes < MaxWrites /\ writes' = writes + 1
  /\ memory' = [memory EXCEPT ![cell] = 1 - @]

\* ReconcileKind and FinalizeKind, and what they call, write to resource.
Change(p) ==
  /\ resource # None /\ existing = None
  /\ struct[resource][p] # Nil
  /\ Write(struct[resource][p])
  /\ UNCHANGED <<shape, struct, cached, original, resource, existing, delivered, asRead>>

\* updateFinalizersFiltered copies what the lister has now and appends to the list of
\* finalizers of the copy: into its backing array, if that has room.
UpdateFinalizersFiltered ==
  /\ resource # None /\ existing = None /\ cached # None
  /\ LET copy == DeepCopyInto(struct[cached], New)
     IN  /\ copy[Finalizers] # Nil
         /\ struct' = [struct EXCEPT ![New] = copy]
         /\ writes < MaxWrites /\ writes' = writes + 1
         /\ memory' = [Duplicated(struct[cached], New) EXCEPT ![copy[Finalizers]] = 1 - @]
  /\ UNCHANGED <<shape, cached, original, resource, existing, delivered, asRead>>

\* A reply of the API server takes the place of resource (Patch), or its fields do
\* (afterUpdate.DeepCopyInto(instance), of an object nobody else has).
Reply ==
  /\ resource # None /\ existing = None
  /\ resource' = New
  /\ struct' = [struct EXCEPT ![New] = Own(New)]
  /\ memory' = Zeroed(New)
  /\ UNCHANGED <<shape, cached, original, existing, delivered, asRead, writes>>

\* delete, in FinalizeKind: refetched is what the lister has, not a copy of it.
Release ==
  /\ resource # None /\ existing = None /\ cached # None
  /\ struct[cached][Finalizers] # Nil
  /\ Write(struct[cached][Finalizers])
  /\ UNCHANGED <<shape, struct, cached, original, resource, existing, delivered, asRead>>

\* existing.Status = desired.Status: what the status refers to is shared.
WithStatus(s) == [s EXCEPT ![Conditions] = struct[resource][Conditions]]

NotCopiedMutant ==
  /\ existing' = original
  /\ struct' = [struct EXCEPT ![original] = WithStatus(@)]
  /\ UNCHANGED memory

\* existing = existing.DeepCopy()
CopyOriginal ==
  /\ existing' = New
  /\ struct' = [struct EXCEPT ![New] = WithStatus(DeepCopyInto(struct[original], New))]
  /\ memory' = Duplicated(struct[original], New)

UpdateStatus ==
  /\ resource # None /\ existing = None
  /\ CopyOriginal
  /\ UNCHANGED <<shape, cached, original, resource, delivered, asRead, writes>>

\* existing, err = getter.Get(desired.Name, ...), after a conflict
RetryStatus ==
  /\ existing # None
  /\ existing' = New
  /\ struct' = [struct EXCEPT ![New] = WithStatus(Own(New))]
  /\ memory' = Zeroed(New)
  /\ UNCHANGED <<shape, cached, original, resource, delivered, asRead, writes>>

Return ==
  /\ original # None
  /\ original' = None /\ resource' = None /\ existing' = None
  /\ UNCHANGED <<shape, struct, memory, cached, delivered, asRead, writes>>

Next ==
  \/ \E p \in KnativeServing : Change(p)
  \/ Deliver \/ Get \/ UpdateFinalizersFiltered \/ Reply \/ Release
  \/ UpdateStatus \/ RetryStatus \/ Return

Spec == Init /\ [][Next]_vars

-----------------------------------------------------------------------------
(* Properties.                                                              *)

\* No two objects share a cell, but for the conditions that updateStatus makes the
\* object it sends share with resource: whatever a reconciler writes to, down to the
\* entries of the maps in the maps, it does not write to the informer's cache.
CopiesArePrivate ==
  \A i, j \in Held : \A p, q \in KnativeServing :
    i # j /\ struct[i][p] # Nil /\ struct[i][p] = struct[j][q] =>
      {i, j} = {resource, existing} /\ p = Conditions /\ q = Conditions

Unchanged(i, content, paths) == \A p \in paths : Content(i)[p] = content[p]

\* Spec and status in the cache stay what the informer delivered, and those Reconcile
\* compares the status with and starts its update from stay what it read.
CacheAsDelivered ==
  /\ cached # None => Unchanged(cached, delivered, KnativeServing \ {Finalizers})
  /\ original # None => Unchanged(original, asRead, KnativeServing \ {Finalizers})

=============================================================================
