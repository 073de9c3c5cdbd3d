--------------------------- MODULE ContractProofs ---------------------------
(***************************************************************************)
(* The controller implements ServingContract, for every set of keys and all  *)
(* bounds.  What the contract sees of a step is at most one of three things: *)
(* an object that changes (Moves), something done to the cluster for an      *)
(* object that is held, or deployments that are lost.  After that, when the  *)
(* object of the only key there is lets go of the manifest finalizer.        *)
(***************************************************************************)
EXTENDS ReconcilerProofs, ReconcilerRefinement

\* How the contract sees a stored object change: x before and y after.
Moves(x, y) ==
  \/ y = x
  \/ x.phase = "absent" /\ y = [phase |-> "live", inc |-> x.inc + 1, held |-> FALSE]
  \/ x.phase = "live" /\ y = [phase |-> "live", inc |-> x.inc, held |-> TRUE]
  \/ x.phase = "live" /\ y = [phase |-> "deleting", inc |-> x.inc, held |-> x.held]
  \/ x.phase = "live" /\ ~x.held /\ y = [phase |-> "absent", inc |-> x.inc, held |-> FALSE]
  \/ x.phase = "deleting" /\ y = [phase |-> "absent", inc |-> x.inc, held |-> FALSE]
  \/ x.phase = "deleting" /\ x.held /\ y = [phase |-> "deleting", inc |-> x.inc, held |-> FALSE]

\* A step of one object is a step of the contract.
LEMMA ObjectStep ==
  ASSUME NEW k \in Keys, \A j \in Keys \ {k} : api'[j] = api[j], UNCHANGED <<cluster, dep>>,
         Moves(StoredObject(api[k]), StoredObject(api'[k]))
  PROVE  [Contract!Next]_Contract!vars
<1> DEFINE object == [j \in Keys |-> StoredObject(api[j])]
           x == StoredObject(api[k])
           y == StoredObject(api'[k])
<1>1. object' = [object EXCEPT ![k] = y]
  BY DEF StoredObject
<1>2. object[k] = x
  OBVIOUS
<1>3. UNCHANGED [j \in Keys |-> Controller(dep[j])]
  BY DEF Controller
<1>4. CASE y = x
  <2>1. object' = object
    BY <1>1, <1>2, <1>4
  <2>2. QED
    BY <1>3, <2>1 DEF Contract!vars
<1>5. ASSUME NEW o, y = o
      PROVE  Contract!Become(k, o)
  BY <1>1, <1>3, <1>5 DEF Contract!Become
<1>6. x.held = object[k].held /\ x.phase = object[k].phase /\ x.inc = object[k].inc
  BY <1>2
<1> HIDE DEF object, x, y
<1>7. CASE x.phase = "absent" /\ y = [phase |-> "live", inc |-> x.inc + 1, held |-> FALSE]
  <2>1. Contract!Create(k)
    BY <1>5, <1>6, <1>7 DEF Contract!Create, Contract!Live, object
  <2>2. QED
    BY <2>1 DEF Contract!Next
<1>8. CASE x.phase = "live" /\ y = [phase |-> "live", inc |-> x.inc, held |-> TRUE]
  <2>1. Contract!Hold(k)
    BY <1>5, <1>6, <1>8 DEF Contract!Hold, Contract!Live, object
  <2>2. QED
    BY <2>1 DEF Contract!Next
<1>9. CASE \/ x.phase = "live" /\ y = [phase |-> "deleting", inc |-> x.inc, held |-> x.held]
           \/ x.phase = "live" /\ ~x.held /\ y = [phase |-> "absent", inc |-> x.inc, held |-> FALSE]
  <2>1. Contract!Delete(k)
    BY <1>5, <1>6, <1>9 DEF Contract!Delete, Contract!Deleting, Contract!Absent, Contract!Held, object
  <2>2. QED
    BY <2>1 DEF Contract!Next
<1>10. CASE x.phase = "deleting" /\ y = [phase |-> "absent", inc |-> x.inc, held |-> FALSE]
  <2>1. Contract!Release(k) \/ Contract!Vanish(k)
    BY <1>5, <1>6, <1>10
    DEF Contract!Release, Contract!Vanish, Contract!Absent, Contract!Held, object
  <2>2. QED
    BY <2>1 DEF Contract!Next
<1>11. CASE /\ x.phase = "deleting" /\ x.held
            /\ y = [phase |-> "deleting", inc |-> x.inc, held |-> FALSE]
  <2>1. Contract!Release(k)
    BY <1>5, <1>6, <1>11 DEF Contract!Release, Contract!Deleting, Contract!Held, object
  <2>2. QED
    BY <2>1 DEF Contract!Next
<1>12. Moves(x, y)
  BY DEF x, y
<1>13. QED
  BY <1>4, <1>7, <1>8, <1>9, <1>10, <1>11, <1>12 DEF Moves

\* What is applied is applied for an object that is held.
LEMMA InstallStep ==
  ASSUME NEW k \in Keys, Has(api[k].fin, ManifestFinalizer), UNCHANGED <<api, dep>>,
         NEW r \in ClusterResources \ {"obsolete"}, cluster' = cluster \cup {r}
  PROVE  Contract!Next
<1>1. Contract!Install(k)
  BY DEF Contract!Install, Contract!Held, StoredObject, Controller
<1>2. QED
  BY <1>1 DEF Contract!Next

\* Its deployments come under its control.
LEMMA AdoptStep ==
  ASSUME NEW k \in Keys, Has(api[k].fin, ManifestFinalizer), UNCHANGED <<api, cluster>>,
         Controller(dep'[k]) = api[k].inc, \A j \in Keys \ {k} : dep'[j] = dep[j]
  PROVE  Contract!Next
<1>1. Contract!Adopt(k)
  BY DEF Contract!Adopt, Contract!Held, StoredObject, Controller
<1>2. QED
  BY <1>1 DEF Contract!Next

\* Obsolete resources are removed for an object that is held.
LEMMA TidyStep ==
  ASSUME NEW k \in Keys, Has(api[k].fin, ManifestFinalizer), UNCHANGED <<api, dep>>,
         cluster' = cluster \ {"obsolete"}
  PROVE  Contract!Next
<1>1. Contract!Tidy(k)
  BY DEF Contract!Tidy, Contract!Held, StoredObject, Controller
<1>2. QED
  BY <1>1 DEF Contract!Next

\* What is removed is removed for an object that is held and being deleted.
LEMMA UninstallStep ==
  ASSUME NEW k \in Keys, api[k].phase = "deleting", Has(api[k].fin, ManifestFinalizer),
         UNCHANGED <<api, dep>>,
         NEW r \in ClusterResources \ {"obsolete"}, cluster' = cluster \ {r}
  PROVE  Contract!Next
<1>1. Contract!Uninstall(k)
  BY DEF Contract!Uninstall, Contract!Held, StoredObject, Controller
<1>2. QED
  BY <1>1 DEF Contract!Next

\* Deployments are deleted.
LEMMA LoseStep ==
  ASSUME NEW K \in SUBSET Keys, UNCHANGED <<api, cluster>>,
         \A j \in K : Controller(dep'[j]) = NoOwner,
         \A j \in Keys \ K : Controller(dep'[j]) = Controller(dep[j])
  PROVE  Contract!Next
<1>1. Contract!Lose(K)
  BY DEF Contract!Lose, StoredObject, Controller, NoOwner
<1>2. QED
  BY <1>1 DEF Contract!Next

\* A step that changes neither the stored objects nor the cluster.
LEMMA HiddenStep ==
  ASSUME UNCHANGED <<api, cluster, dep>>
  PROVE  [Contract!Next]_Contract!vars
  BY DEF Contract!vars, StoredObject, Controller

-----------------------------------------------------------------------------
(* Stored objects.                                                          *)

\* What the contract sees of an object, by cases on whether it is held.
LEMMA Seen ==
  ASSUME NEW o
  PROVE  /\ StoredObject(o).phase = o.phase /\ StoredObject(o).inc = o.inc
         /\ StoredObject(o).held <=> Has(o.fin, ManifestFinalizer)
         /\ Has(o.fin, ManifestFinalizer) =>
              StoredObject(o) = [phase |-> o.phase, inc |-> o.inc, held |-> TRUE]
         /\ ~Has(o.fin, ManifestFinalizer) =>
              StoredObject(o) = [phase |-> o.phase, inc |-> o.inc, held |-> FALSE]
<1> DEFINE h == Has(o.fin, ManifestFinalizer)
           seen(held) == [phase |-> o.phase, inc |-> o.inc, held |-> held]
<1>1. StoredObject(o) = seen(h)
  BY DEF StoredObject
<1>2. h \in BOOLEAN
  BY DEF Has
<1>3. h = TRUE \/ h = FALSE
  <2> HIDE DEF h
  <2>1. QED
    BY <1>2
<1>4. CASE h
  <2>1. h = TRUE
    BY <1>3, <1>4
  <2>2. StoredObject(o) = seen(TRUE)
    BY <1>1, <2>1
  <2> HIDE DEF h
  <2>3. h /\ StoredObject(o).held = TRUE
    BY <1>4, <2>2
  <2>4. QED
    BY <2>2, <2>3 DEF h
<1>5. CASE ~h
  <2>1. h = FALSE
    BY <1>3, <1>5
  <2>2. StoredObject(o) = seen(FALSE)
    BY <1>1, <2>1
  <2> HIDE DEF h
  <2>3. ~h /\ StoredObject(o).held = FALSE
    BY <1>5, <2>2
  <2>4. QED
    BY <2>2, <2>3 DEF h
<1>6. QED
  BY <1>4, <1>5

\* An object without finalizers is not held.
LEMMA Unheld ==
  ASSUME NEW fin \in Seq(Finalizers), Len(fin) = 0
  PROVE  ~Has(fin, ManifestFinalizer) /\ ~Has(<<>>, ManifestFinalizer)
  BY DEF Has

\* A write by which an object that lives does not lose the manifest finalizer,
\* and one that is being deleted does not get it.
LEMMA WrittenMoves ==
  ASSUME NEW a \in Objects, Exists(a), NEW o \in Objects, o.phase = a.phase, o.inc = a.inc,
         a.phase = "live" /\ Has(a.fin, ManifestFinalizer) => Has(o.fin, ManifestFinalizer),
         a.phase = "deleting" /\ Has(o.fin, ManifestFinalizer) => Has(a.fin, ManifestFinalizer)
  PROVE  Moves(StoredObject(a), StoredObject(Committed(o)))
<1> DEFINE b == Committed(o)
<1>1. CASE o.phase = "deleting" /\ Len(o.fin) = 0
  <2>1. b = Gone(o.inc, o.rv + 1)
    BY <1>1 DEF Committed
  <2>2. b.phase = "absent" /\ b.inc = a.inc /\ ~Has(b.fin, ManifestFinalizer)
    <3>1. o.fin \in Seq(Finalizers)
      BY DEF Objects
    <3>2. QED
      BY <1>1, <2>1, <3>1, Unheld DEF Gone
  <2>3. StoredObject(b) = [phase |-> "absent", inc |-> a.inc, held |-> FALSE]
    BY <2>2, Seen
  <2>4. StoredObject(a).phase = "deleting" /\ StoredObject(a).inc = a.inc
    BY <1>1, Seen
  <2> HIDE DEF b
  <2>5. QED
    BY <2>3, <2>4 DEF Moves, b
<1>2. CASE ~(o.phase = "deleting" /\ Len(o.fin) = 0)
  <2>1. b.phase = a.phase /\ b.inc = a.inc /\ b.fin = o.fin
    BY <1>2 DEF Committed, Bumped, Objects
  <2>2. CASE a.phase = "live" /\ Has(b.fin, ManifestFinalizer)
    <3>1. StoredObject(b) = [phase |-> "live", inc |-> a.inc, held |-> TRUE]
      BY <2>1, <2>2, Seen
    <3>2. QED
      BY <2>2, <3>1, Seen DEF Moves
  <2>3. CASE Has(b.fin, ManifestFinalizer) <=> Has(a.fin, ManifestFinalizer)
    <3>1. StoredObject(b) = StoredObject(a)
      BY <2>1, <2>3, Seen
    <3>2. QED
      BY <3>1 DEF Moves
  <2>4. CASE /\ a.phase = "deleting"
             /\ Has(a.fin, ManifestFinalizer) /\ ~Has(b.fin, ManifestFinalizer)
    <3>1. StoredObject(b) = [phase |-> "deleting", inc |-> a.inc, held |-> FALSE]
      BY <2>1, <2>4, Seen
    <3>2. StoredObject(a).phase = "deleting" /\ StoredObject(a).inc = a.inc /\ StoredObject(a).held
      BY <2>4, Seen
    <3>3. QED
      BY <3>1, <3>2 DEF Moves
  <2>5. QED
    BY <2>1, <2>2, <2>3, <2>4 DEF Exists
<1>3. QED
  BY <1>1, <1>2

\* An object that is marked for deletion, with the finalizers it has.
LEMMA MarkedMoves ==
  ASSUME NEW a \in Objects, a.phase = "live", NEW o \in Objects, o.phase = "deleting", o.inc = a.inc,
         Has(o.fin, ManifestFinalizer) <=> Has(a.fin, ManifestFinalizer)
  PROVE  Moves(StoredObject(a), StoredObject(Committed(o)))
<1> DEFINE b == Committed(o)
<1>1. CASE Len(o.fin) = 0
  <2>1. b = Gone(o.inc, o.rv + 1)
    BY <1>1 DEF Committed
  <2>2. /\ b.phase = "absent" /\ b.inc = a.inc /\ ~Has(b.fin, ManifestFinalizer)
        /\ ~Has(a.fin, ManifestFinalizer)
    BY <1>1, <2>1, Unheld DEF Gone, Objects
  <2>3. StoredObject(b) = [phase |-> "absent", inc |-> a.inc, held |-> FALSE]
    BY <2>2, Seen
  <2>4. /\ StoredObject(a).phase = "live" /\ StoredObject(a).inc = a.inc
        /\ ~StoredObject(a).held
    BY <2>2, Seen
  <2> HIDE DEF b
  <2>5. QED
    BY <2>3, <2>4 DEF Moves, b
<1>2. CASE Len(o.fin) # 0
  <2>1. b.phase = "deleting" /\ b.inc = a.inc /\ b.fin = o.fin
    BY <1>2 DEF Committed, Bumped, Objects
  <2>2. CASE Has(a.fin, ManifestFinalizer)
    <3>1. StoredObject(b) = [phase |-> "deleting", inc |-> a.inc, held |-> TRUE]
      BY <2>1, <2>2, Seen
    <3>2. StoredObject(a) = [phase |-> "live", inc |-> a.inc, held |-> TRUE]
      BY <2>2, Seen
    <3>3. QED
      BY <3>1, <3>2 DEF Moves
  <2>3. CASE ~Has(a.fin, ManifestFinalizer)
    <3>1. StoredObject(b) = [phase |-> "deleting", inc |-> a.inc, held |-> FALSE]
      BY <2>1, <2>3, Seen
    <3>2. StoredObject(a) = [phase |-> "live", inc |-> a.inc, held |-> FALSE]
      BY <2>3, Seen
    <3>3. QED
      BY <3>1, <3>2 DEF Moves
  <2>4. QED
    BY <2>2, <2>3
<1>3. QED
  BY <1>1, <1>2

\* A request to the API server that moves the object, if it is carried out, as
\* the contract allows.
LEMMA WriteMoves ==
  ASSUME TypeOK, NEW k \in Keys, NEW rv, NEW o \in Objects, NEW reply, Write(k, rv, o, reply),
         UNCHANGED <<cluster, dep>>,
         Exists(api[k]) /\ api[k].rv = rv => Moves(StoredObject(api[k]), StoredObject(Committed(o)))
  PROVE  [Contract!Next]_Contract!vars
<1>1. /\ \A j \in Keys \ {k} : api'[j] = api[j]
      /\ \/ api'[k] = api[k]
         \/ Exists(api[k]) /\ api[k].rv = rv /\ api'[k] = Committed(o)
  BY WriteEffect
<1>2. Moves(StoredObject(api[k]), StoredObject(api'[k]))
  BY <1>1 DEF Moves
<1>3. QED
  BY <1>1, <1>2, ObjectStep

\* A request that changes only the status.
LEMMA StatusMoves ==
  ASSUME TypeOK, NEW k \in Keys, NEW rv, NEW st \in Statuses, NEW reply,
         Write(k, rv, [api[k] EXCEPT !.status = st], reply), UNCHANGED <<cluster, dep>>
  PROVE  [Contract!Next]_Contract!vars
<1> DEFINE o == [api[k] EXCEPT !.status = st]
<1>1. api[k] \in Objects /\ o \in Objects
  BY KeyTyped, StatusFollows
<1>2. o.phase = api[k].phase /\ o.inc = api[k].inc /\ o.fin = api[k].fin
  BY <1>1 DEF Objects
<1> HIDE DEF o
<1>3. Exists(api[k]) => Moves(StoredObject(api[k]), StoredObject(Committed(o)))
  BY <1>1, <1>2, WrittenMoves
<1>4. Write(k, rv, o, reply)
  BY DEF o
<1>5. QED
  BY <1>1, <1>3, <1>4, WriteMoves

-----------------------------------------------------------------------------
(* The informer's cache, when nothing is on its way to it.                   *)

\* What is stored is an object, or what is left of one, and is on its way to the
\* informer.
Sent(k) ==
  \/ api'[k] = api[k] /\ watch'[k] = watch[k]
  \/ watch'[k] = Append(watch[k], api'[k]) /\ api'[k].phase # "empty"

\* The API server makes no empty object.
LEMMA CommittedPhase ==
  ASSUME NEW o \in Objects, o.phase # "empty"
  PROVE  Committed(o).phase # "empty"
  BY DEF Committed, Gone, Bumped, Objects

\* A request that is carried out sends one object to the informer.
LEMMA WriteSends ==
  ASSUME TypeOK, NEW k \in Keys, NEW rv, NEW o \in Objects, o.phase = api[k].phase,
         NEW reply, Write(k, rv, o, reply)
  PROVE  \A j \in Keys : Sent(j)
<1>1. Exists(api[k]) => Committed(o).phase # "empty"
  BY CommittedPhase DEF Exists
<1>2. QED
  BY <1>1, WriteEffect DEF Sent

\* So does a write of a user.
LEMMA StoreSends ==
  ASSUME TypeOK, NEW k \in Keys, NEW o \in Objects, o.phase # "empty", Store(k, o)
  PROVE  \A j \in Keys : Sent(j)
  BY DEF Store, Sent, TypeOK

\* And what writes nothing sends nothing.
LEMMA QuietSends ==
  ASSUME UNCHANGED <<api, watch>>
  PROVE  \A j \in Keys : Sent(j)
  BY DEF Sent

\* The steps of the users and of the garbage collector.
LEMMA EnvironmentSends ==
  ASSUME TypeOK, NEW k \in Keys, Environment(k)
  PROVE  cache' = cache /\ \A j \in Keys : Sent(j)
<1>1. api[k] \in Objects /\ api[k].inc + 1 \in Nat /\ api[k].rv + 1 \in Nat /\ api[k].gen + 1 \in Nat
  BY KeyTyped DEF Objects
<1>2. ASSUME NEW spec \in Specs, CreateCR(k, spec)
      PROVE  cache' = cache /\ \A j \in Keys : Sent(j)
  <2> DEFINE o == Created(api[k].inc + 1, api[k].rv + 1, spec)
  <2>1. <<>> \in Seq(Finalizers) /\ NoStatus \in Statuses /\ "live" \in Phases
    BY EmptyTyped DEF Phases
  <2>2. o \in Objects /\ o.phase = "live"
    BY <1>1, <2>1 DEF Created, Objects
  <2>3. Store(k, o) /\ cache' = cache
    BY <1>2 DEF CreateCR
  <2> HIDE DEF o
  <2>4. QED
    BY <2>2, <2>3, StoreSends
<1>3. ASSUME NEW spec \in Specs, EditSpec(k, spec)
      PROVE  cache' = cache /\ \A j \in Keys : Sent(j)
  <2> DEFINE o == Edited(api[k], spec)
  <2>1. o \in Objects /\ o.phase = api[k].phase
    BY <1>1 DEF Edited, Objects
  <2>2. Store(k, Committed(o)) /\ cache' = cache /\ Exists(api[k])
    BY <1>3 DEF EditSpec
  <2> HIDE DEF o
  <2>3. Committed(o) \in Objects /\ Committed(o).phase # "empty"
    BY <2>1, <2>2, CommittedTyped, CommittedPhase DEF Exists
  <2>4. QED
    BY <2>2, <2>3, StoreSends
<1>4. ASSUME NEW foreground \in BOOLEAN, DeleteCR(k, foreground)
      PROVE  cache' = cache /\ \A j \in Keys : Sent(j)
  <2> DEFINE fin == IF foreground THEN Append(api[k].fin, ForegroundFinalizer) ELSE api[k].fin
             o == Marked(api[k], fin)
  <2>1. fin \in Seq(Finalizers)
    BY <1>1, AppendFacts DEF Objects, Finalizers
  <2>2. Store(k, Committed(o)) /\ cache' = cache
    BY <1>4 DEF DeleteCR
  <2> HIDE DEF fin
  <2>3. o \in Objects /\ o.phase = "deleting"
    BY <1>1, <2>1 DEF Marked, Objects, Phases
  <2> HIDE DEF o
  <2>4. Committed(o) \in Objects /\ Committed(o).phase # "empty"
    BY <2>3, CommittedTyped, CommittedPhase
  <2>5. QED
    BY <2>2, <2>4, StoreSends
<1>5. ASSUME ForegroundDone(k)
      PROVE  cache' = cache /\ \A j \in Keys : Sent(j)
  <2>1. PICK i \in DOMAIN api[k].fin :
          /\ api[k].fin[i] = ForegroundFinalizer
          /\ Store(k, Committed([api[k] EXCEPT !.fin = Without(@, i)]))
    BY <1>5 DEF ForegroundDone
  <2> DEFINE o == [api[k] EXCEPT !.fin = Without(@, i)]
  <2>2. Without(api[k].fin, i) \in Seq(Finalizers)
    BY <1>1, <2>1, WithoutFacts DEF Objects
  <2>3. o \in Objects /\ o.phase = api[k].phase
    BY <1>1, <2>2 DEF Objects
  <2>4. Store(k, Committed(o)) /\ cache' = cache /\ Exists(api[k])
    BY <1>5, <2>1 DEF ForegroundDone
  <2> HIDE DEF o
  <2>5. Committed(o) \in Objects /\ Committed(o).phase # "empty"
    BY <2>3, <2>4, CommittedTyped, CommittedPhase DEF Exists
  <2>6. QED
    BY <2>4, <2>5, StoreSends
<1>6. ASSUME \/ DeploymentUp(k) \/ CollectDeployment(k)
             \/ \E state \in {"absent", "down"} : DeploymentLost(k, state)
      PROVE  cache' = cache /\ \A j \in Keys : Sent(j)
  BY <1>6, QuietSends DEF DeploymentUp, CollectDeployment, DeploymentLost, objects
<1>7. QED
  BY <1>2, <1>3, <1>4, <1>5, <1>6 DEF Environment

\* A request for the stored object with other finalizers.
Patches(k, rv, fin) ==
  \E reply \in {"ok", "conflict", "notfound", "error"} :
    Write(k, rv, [api[k] EXCEPT !.fin = fin], reply)

\* A patch of the finalizers sends the object with them.
LEMMA PatchSends ==
  ASSUME TypeOK, NEW k \in Keys, NEW rv, NEW fin \in Seq(Finalizers), Patches(k, rv, fin)
  PROVE  \A j \in Keys : Sent(j)
<1> DEFINE o == [api[k] EXCEPT !.fin = fin]
<1>1. o \in Objects /\ o.phase = api[k].phase
  BY KeyTyped DEF Objects
<1>2. PICK reply \in {"ok", "conflict", "notfound", "error"} : Write(k, rv, o, reply)
  BY DEF Patches
<1> HIDE DEF o
<1>3. QED
  BY <1>1, <1>2, WriteSends

\* Another finalizer, added or taken off, leaves the manifest finalizer alone.
LEMMA AppendedHas ==
  ASSUME NEW fin \in Seq(Finalizers), NEW f \in Finalizers \ {ManifestFinalizer}
  PROVE  Has(Append(fin, f), ManifestFinalizer) <=> Has(fin, ManifestFinalizer)
<1>1. /\ Len(Append(fin, f)) = Len(fin) + 1 /\ Append(fin, f)[Len(fin) + 1] = f
      /\ \A i \in DOMAIN fin : Append(fin, f)[i] = fin[i]
      /\ \A i \in DOMAIN Append(fin, f) : i \in DOMAIN fin \/ i = Len(fin) + 1
  OBVIOUS
<1>2. Has(Append(fin, f), ManifestFinalizer) => Has(fin, ManifestFinalizer)
  BY <1>1 DEF Has
<1>3. QED
  BY <1>2, AppendFacts

\* Taking off one finalizer puts on none.
LEMMA WithoutHas ==
  ASSUME NEW fin \in Seq(Finalizers), NEW i \in DOMAIN fin, Has(Without(fin, i), ManifestFinalizer)
  PROVE  Has(fin, ManifestFinalizer)
<1>1. Len(fin) \in Nat /\ DOMAIN fin = 1 .. Len(fin)
  OBVIOUS
<1>2. PICK j \in 1 .. Len(fin) - 1 : Without(fin, i)[j] = ManifestFinalizer
  BY <1>1 DEF Has, Without
<1>3. fin[j] = ManifestFinalizer \/ fin[j + 1] = ManifestFinalizer
  BY <1>2 DEF Without
<1>4. j \in DOMAIN fin /\ j + 1 \in DOMAIN fin
  BY <1>1, <1>2
<1>5. QED
  BY <1>3, <1>4 DEF Has

\* updateFinalizersFiltered patches the cached object, and only its default
\* finalizer.
LEMMA FilteredPatches ==
  ASSUME TypeOK, NEW k \in Keys, NEW r \in Objects, UpdateFinalizersFiltered(k, r)
  PROVE  \/ UNCHANGED <<api, watch>>
         \/ \E fin \in Seq(Finalizers) :
              /\ Patches(k, cache[k].rv, fin)
              /\ Has(fin, ManifestFinalizer) <=> Has(cache[k].fin, ManifestFinalizer)
<1> DEFINE c == cache[k]
           desired == Has(r.fin, DefaultFinalizer)
           fin == IF desired THEN Append(c.fin, DefaultFinalizer)
                  ELSE SortedList(SetOf(c.fin) \ {DefaultFinalizer})
<1>1. c.fin \in Seq(Finalizers)
  BY KeyTyped DEF Objects
<1>2. /\ fin \in Seq(Finalizers)
      /\ Has(fin, ManifestFinalizer) <=> Has(c.fin, ManifestFinalizer)
  <2>1. CASE desired
    <3>1. DefaultFinalizer \in Finalizers \ {ManifestFinalizer}
      BY <1>1, FinalizerSets
    <3>2. QED
      BY <1>1, <2>1, <3>1, AppendFacts, AppendedHas
  <2>2. CASE ~desired
    <3> DEFINE S == SetOf(c.fin) \ {DefaultFinalizer}
    <3>1. S \in SUBSET Finalizers /\ (ManifestFinalizer \in S <=> Has(c.fin, ManifestFinalizer))
      BY <1>1, FinalizerSets
    <3>2. fin = SortedList(S)
      BY <2>2
    <3> HIDE DEF S, fin
    <3>3. SortedList(S) \in Seq(Finalizers) /\ (ManifestFirst(SortedList(S)) => Has(SortedList(S), ManifestFinalizer))
      BY <3>1, SortedListFacts, FinalizerSets
    <3>4. QED
      BY <3>1, <3>2, <3>3, SortedListFacts
  <2>3. QED
    BY <2>1, <2>2
<1>3. UNCHANGED <<api, watch>> \/ Patches(k, c.rv, fin)
  BY DEF UpdateFinalizersFiltered, Patches
<1> HIDE DEF fin
<1>4. QED
  BY <1>2, <1>3

\* SetFinalizer and ClearFinalizer make such a patch.
LEMMA FinalizerRequest ==
  ASSUME TypeOK, NEW k \in Keys, SetFinalizer(k) \/ ClearFinalizer(k)
  PROVE  /\ cache' = cache /\ UNCHANGED manifest
         /\ \/ UNCHANGED <<api, watch>>
            \/ \E fin \in Seq(Finalizers) :
                 /\ Patches(k, cache[k].rv, fin)
                 /\ Has(fin, ManifestFinalizer) <=> Has(cache[k].fin, ManifestFinalizer)
<1> DEFINE r(S) == [res[k] EXCEPT !.fin = SortedList(S)]
<1>1. res[k] \in Objects /\ res[k].fin \in Seq(Finalizers)
  BY KeyTyped DEF Objects
<1>2. ASSUME NEW S \in SUBSET Finalizers
      PROVE  r(S) \in Objects
  BY <1>1, SortedListFacts DEF Objects
<1>3. PICK S \in SUBSET Finalizers : UpdateFinalizersFiltered(k, r(S))
  BY <1>1, FinalizerSets DEF SetFinalizer, ClearFinalizer
<1> HIDE DEF r
<1>4. cache' = cache /\ UNCHANGED manifest
  BY DEF SetFinalizer, ClearFinalizer
<1>5. QED
  BY <1>2, <1>3, <1>4, FilteredPatches

\* EnsureFinalizer asks for the manifest finalizer on top of what the worker's copy
\* has.
LEMMA EnsureRequest ==
  ASSUME TypeOK, NEW k \in Keys, EnsureFinalizer(k)
  PROVE  /\ cache' = cache /\ UNCHANGED manifest
         /\ \/ UNCHANGED <<api, watch>>
            \/ \E fin \in Seq(Finalizers) :
                 Patches(k, res[k].rv, fin) /\ Has(fin, ManifestFinalizer) /\ res[k].phase # "empty"
<1> DEFINE fin == Append(res[k].fin, ManifestFinalizer)
<1>1. fin \in Seq(Finalizers) /\ Has(fin, ManifestFinalizer)
  BY KeyTyped, AppendFacts DEF Objects, Finalizers
<1>2. UNCHANGED <<api, watch>> \/ (Patches(k, res[k].rv, fin) /\ res[k].phase # "empty")
  BY DEF EnsureFinalizer, Patches
<1>3. cache' = cache /\ UNCHANGED manifest
  BY DEF EnsureFinalizer
<1> HIDE DEF fin
<1>4. QED
  BY <1>1, <1>2, <1>3

\* A request for the stored object with another status.
Updates(k, rv, st) ==
  \E reply \in {"ok", "conflict", "notfound", "error"} :
    Write(k, rv, [api[k] EXCEPT !.status = st], reply)

\* An update of the status sends the object with it.
LEMMA UpdateSends ==
  ASSUME TypeOK, NEW k \in Keys, NEW rv, NEW st \in Statuses, Updates(k, rv, st)
  PROVE  \A j \in Keys : Sent(j)
<1> DEFINE o == [api[k] EXCEPT !.status = st]
<1>1. o \in Objects /\ o.phase = api[k].phase
  BY KeyTyped DEF Objects
<1>2. PICK reply \in {"ok", "conflict", "notfound", "error"} : Write(k, rv, o, reply)
  BY DEF Updates
<1> HIDE DEF o
<1>3. QED
  BY <1>1, <1>2, WriteSends

\* InitStatus and SyncStatus write a status.
LEMMA StatusRequest ==
  ASSUME TypeOK, NEW k \in Keys, InitStatus(k) \/ SyncStatus(k)
  PROVE  /\ cache' = cache /\ UNCHANGED manifest
         /\ UNCHANGED <<api, watch>> \/ \E rv : \E st \in Statuses : Updates(k, rv, st)
<1> DEFINE status == [res[k].status EXCEPT !.cond = InitializeConditions(@)]
<1>1. res[k].status \in Statuses /\ res[k].status.cond \in Conditions
  BY KeyTyped DEF Objects, Statuses
<1>2. status \in Statuses
  BY <1>1, ConditionsTyped DEF Statuses
<1>3. CASE InitStatus(k)
  <2>1. UNCHANGED <<api, watch>> \/ Updates(k, res[k].rv, status)
    BY <1>3 DEF InitStatus, Updates
  <2> HIDE DEF status
  <2>2. cache' = cache /\ UNCHANGED manifest
    BY <1>3 DEF InitStatus
  <2>3. QED
    BY <1>2, <2>1, <2>2
<1>4. CASE SyncStatus(k)
  <2>1. UNCHANGED <<api, watch>> \/ Updates(k, orig[k].rv, res[k].status)
    BY <1>4 DEF SyncStatus, Updates
  <2>2. cache' = cache /\ UNCHANGED manifest
    BY <1>4 DEF SyncStatus
  <2>3. QED
    BY <1>1, <2>1, <2>2
<1>5. QED
  BY <1>3, <1>4

\* The steps of a worker that leave the stored objects and the informer alone.
LEMMA LocalSteps ==
  ASSUME NEW k \in Keys,
         \/ Reconcile(k) \/ ReconcileKind(k) \/ Install(k) \/ CheckDeployments(k)
         \/ DeleteObsoleteResources(k) \/ FinalizeKind(k) \/ Delete(k) \/ GetStatus(k)
  PROVE  UNCHANGED objects
  BY DEF Reconcile, ReconcileKind, Install, CheckDeployments, DeleteObsoleteResources,
         FinalizeKind, Delete, GetStatus

\* What a step of a worker stores is on its way to the informer, whose cache only
\* Release touches.
LEMMA WorkerSends ==
  ASSUME TypeOK, NEW k \in Keys, Reconcile(k) \/ WorkerStep(k), ~Release(k)
  PROVE  cache' = cache /\ \A j \in Keys : Sent(j)
<1>1. CASE SetFinalizer(k) \/ ClearFinalizer(k)
  BY <1>1, FinalizerRequest, PatchSends, QuietSends
<1>2. CASE EnsureFinalizer(k)
  BY <1>2, EnsureRequest, PatchSends, QuietSends
<1>3. CASE InitStatus(k) \/ SyncStatus(k)
  BY <1>3, StatusRequest, UpdateSends, QuietSends
<1>4. CASE UNCHANGED objects
  BY <1>4, QuietSends DEF objects
<1>5. QED
  BY <1>1, <1>2, <1>3, <1>4, LocalSteps DEF WorkerStep

\* The cache of a key stays current when what is stored is sent.
LEMMA SentCurrent ==
  ASSUME TypeOK, TypeOK', CacheCurrent, cache' = cache, \A j \in Keys : Sent(j)
  PROVE  CacheCurrent'
<1>1. ASSUME NEW k \in Keys
      PROVE  Current(api'[k], cache'[k], watch'[k])
  <2>1. Current(api[k], cache[k], watch[k])
    BY DEF CacheCurrent
  <2>2. CASE api'[k] = api[k] /\ watch'[k] = watch[k]
    BY <2>1, <2>2
  <2>3. CASE watch'[k] = Append(watch[k], api'[k]) /\ api'[k].phase # "empty"
    <3>1. watch[k] \in Seq(Objects) /\ api'[k] \in Objects
      BY DEF TypeOK
    <3>2. Len(Append(watch[k], api'[k])) # 0
      BY <3>1, AppendChange
    <3>3. QED
      BY <2>3, <3>2 DEF Current
  <2>4. QED
    BY <2>2, <2>3 DEF Sent
<1>2. QED
  BY <1>1 DEF CacheCurrent

\* What Release asks for: the cached object, which is being deleted, without its
\* first finalizer.  The cached object has lost it in any case.
LEMMA ReleaseRequest ==
  ASSUME IInv, NEW k \in Keys, Release(k)
  PROVE  /\ UNCHANGED manifest /\ cache[k].phase = "deleting"
         /\ \E fin \in Seq(Finalizers) :
              /\ Patches(k, cache[k].rv, fin)
              /\ cache' = [cache EXCEPT ![k] = [cache[k] EXCEPT !.fin = fin]]
              /\ Has(fin, ManifestFinalizer) => Has(cache[k].fin, ManifestFinalizer)
<1> DEFINE fin == Tail(cache[k].fin)
<1>1. TypeOK /\ cache[k] \in Objects /\ cache[k].fin \in Seq(Finalizers)
  BY KeyTyped DEF IInv, Objects
<1>2. Doomed(cache[k])
  BY DEF Release, At, IInv, KeyInv, Finalizing
<1>3. /\ cache[k].phase = "deleting" /\ Exists(cache[k])
      /\ Len(cache[k].fin) > 0 /\ Has(cache[k].fin, ManifestFinalizer)
  BY <1>1, <1>2, FinalizerSets DEF Doomed, Exists, ManifestFirst
<1>4. fin \in Seq(Finalizers)
  BY <1>1, <1>3
<1>5. Patches(k, cache[k].rv, fin) /\ UNCHANGED manifest
  BY <1>3 DEF Release, Patches
<1>6. cache' = [cache EXCEPT ![k] = [cache[k] EXCEPT !.fin = fin]]
  BY <1>1, <1>3 DEF Release, TypeOK
<1> HIDE DEF fin
<1>7. QED
  BY <1>3, <1>4, <1>5, <1>6

\* Release takes the finalizer off the cached object, which is being deleted.
LEMMA ReleaseCurrent ==
  ASSUME IInv, TypeOK', CacheCurrent, NEW k \in Keys, Release(k)
  PROVE  CacheCurrent'
<1>1. TypeOK
  BY DEF IInv
<1>2. PICK fin \in Seq(Finalizers) :
        /\ Patches(k, cache[k].rv, fin)
        /\ cache' = [cache EXCEPT ![k] = [cache[k] EXCEPT !.fin = fin]]
  BY ReleaseRequest
<1>3. \A j \in Keys : Sent(j)
  BY <1>1, <1>2, PatchSends
<1>4. ASSUME NEW j \in Keys
      PROVE  cache'[j].status = cache[j].status /\ (cache'[j] = cache[j] \/ cache'[j].phase = "deleting")
  <2>1. CASE j = k
    <3>1. cache[k] \in Objects /\ cache[k].phase = "deleting"
      BY <1>1, KeyTyped, ReleaseRequest
    <3>2. cache'[k] = [cache[k] EXCEPT !.fin = fin]
      BY <1>1, <1>2 DEF TypeOK
    <3>3. QED
      BY <2>1, <3>1, <3>2 DEF Objects
  <2>2. CASE j # k
    BY <1>1, <1>2, <2>2 DEF TypeOK
  <2>3. QED
    BY <2>1, <2>2
<1>5. ASSUME NEW j \in Keys
      PROVE  Current(api'[j], cache'[j], watch'[j])
  <2>1. Current(api[j], cache[j], watch[j])
    BY DEF CacheCurrent
  <2>2. CASE api'[j] = api[j] /\ watch'[j] = watch[j]
    BY <1>4, <2>1, <2>2 DEF Current
  <2>3. CASE watch'[j] = Append(watch[j], api'[j]) /\ api'[j].phase # "empty"
    <3>1. watch[j] \in Seq(Objects) /\ api'[j] \in Objects
      BY <1>1 DEF TypeOK
    <3>2. Len(Append(watch[j], api'[j])) # 0
      BY <3>1, AppendChange
    <3>3. QED
      BY <2>3, <3>2 DEF Current
  <2>4. QED
    BY <1>3, <2>2, <2>3 DEF Sent
<1>6. QED
  BY <1>5 DEF CacheCurrent

\* The informer takes the next change, or lists.
LEMMA InformerCurrent ==
  ASSUME IInv, CacheCurrent, NEW k \in Keys, Informer(k)
  PROVE  CacheCurrent'
<1>1. /\ TypeOK /\ api[k] \in Objects /\ cache[k] \in Objects /\ watch[k] \in Seq(Objects)
      /\ HistoryOrdered(api[k], cache[k], watch[k])
      /\ \A j \in Keys : Current(api[j], cache[j], watch[j])
  BY KeyTyped DEF IInv, KeyInv, CacheCurrent
<1>2. CASE WatchEvent(k)
  <2>1. /\ cache'[k] = Head(watch[k]) /\ watch'[k] = Tail(watch[k]) /\ Len(watch[k]) > 0
        /\ \A j \in Keys \ {k} : cache'[j] = cache[j] /\ watch'[j] = watch[j]
        /\ UNCHANGED api
    BY <1>1, <1>2 DEF WatchEvent, TypeOK
  <2>2. Len(Tail(watch[k])) = 0 => Head(watch[k]) = watch[k][Len(watch[k])]
    BY <1>1, <2>1
  <2>3. Len(Tail(watch[k])) = 0 => Head(watch[k]) = api[k]
    BY <1>1, <2>1, <2>2 DEF HistoryOrdered
  <2>4. QED
    BY <1>1, <2>1, <2>3 DEF Current, CacheCurrent
<1>3. CASE Relist(k)
  <2>1. /\ cache'[k] = api[k] /\ UNCHANGED api
        /\ \A j \in Keys \ {k} : cache'[j] = cache[j] /\ watch'[j] = watch[j]
    BY <1>1, <1>3 DEF Relist, TypeOK
  <2>2. QED
    BY <1>1, <2>1 DEF Current, CacheCurrent
<1>4. CASE Resync(k)
  BY <1>4 DEF Resync, objects, CacheCurrent
<1>5. QED
  BY <1>2, <1>3, <1>4 DEF Informer

\* Every step keeps the cache current.
LEMMA StepCurrent ==
  ASSUME IInv, TypeOK', CacheCurrent, [Next]_vars
  PROVE  CacheCurrent'
<1>1. TypeOK
  BY DEF IInv
<1>2. CASE UNCHANGED vars
  BY <1>2 DEF vars, CacheCurrent
<1>3. CASE Restart
  BY <1>3 DEF Restart, CacheCurrent, Current
<1>4. ASSUME NEW k \in Keys, Environment(k)
      PROVE  CacheCurrent'
  BY <1>1, <1>4, EnvironmentSends, SentCurrent
<1>5. ASSUME NEW k \in Keys, Informer(k)
      PROVE  CacheCurrent'
  BY <1>5, InformerCurrent
<1>6. ASSUME NEW k \in Keys, Reconcile(k) \/ WorkerStep(k)
      PROVE  CacheCurrent'
  BY <1>1, <1>6, WorkerSends, SentCurrent, ReleaseCurrent
<1>7. QED
  BY <1>2, <1>3, <1>4, <1>5, <1>6 DEF Next

\* A worker that reads the informer's cache when nothing is on its way to it reads
\* the stored object; a patch that the API server takes was made from it.
THEOREM CacheIsCurrent == Spec => []CacheCurrent
<1>1. Init => CacheCurrent
  BY DEF Init, CacheCurrent, Current, LegacyObject, Gone
<1>2. IInv /\ TypeOK' /\ CacheCurrent /\ [Next]_vars => CacheCurrent'
  BY StepCurrent
<1>3. QED
  BY <1>1, <1>2, Invariant, TypeCorrect, PTL DEF Spec

-----------------------------------------------------------------------------
(* Every step is a step of the contract, or none of its business.           *)

\* A patch of the finalizers that keeps the manifest finalizer of an object that
\* lives and does not put it on one that is being deleted.
LEMMA PatchMoves ==
  ASSUME TypeOK, NEW k \in Keys, NEW rv, NEW fin \in Seq(Finalizers), Patches(k, rv, fin),
         UNCHANGED manifest,
         api[k].rv = rv /\ api[k].phase = "live" /\ Has(api[k].fin, ManifestFinalizer) =>
           Has(fin, ManifestFinalizer),
         api[k].rv = rv /\ api[k].phase = "deleting" /\ Has(fin, ManifestFinalizer) =>
           Has(api[k].fin, ManifestFinalizer)
  PROVE  [Contract!Next]_Contract!vars
<1> DEFINE o == [api[k] EXCEPT !.fin = fin]
<1>1. /\ api[k] \in Objects /\ o \in Objects
      /\ o.phase = api[k].phase /\ o.inc = api[k].inc /\ o.fin = fin
  BY KeyTyped DEF Objects
<1>2. PICK reply \in {"ok", "conflict", "notfound", "error"} : Write(k, rv, o, reply)
  BY DEF Patches
<1> HIDE DEF o
<1>3. Exists(api[k]) /\ api[k].rv = rv => Moves(StoredObject(api[k]), StoredObject(Committed(o)))
  BY <1>1, WrittenMoves
<1>4. QED
  BY <1>1, <1>2, <1>3, WriteMoves DEF manifest

\* What the invariants say of a patch made from the cached object.
LEMMA CachedPatch ==
  ASSUME IInv, CacheCurrent, NEW k \in Keys, api[k].rv = cache[k].rv
  PROVE  /\ api[k].phase = cache[k].phase
         /\ api[k].phase = "live" => api[k] = cache[k]
         /\ Has(cache[k].fin, ManifestFinalizer) => Has(api[k].fin, ManifestFinalizer)
<1>1. /\ HistoryOrdered(api[k], cache[k], watch[k]) /\ HistoryKept(api[k], cache[k], watch[k])
      /\ api[k] \in Objects /\ cache[k] \in Objects /\ watch[k] \in Seq(Objects)
      /\ Current(api[k], cache[k], watch[k])
  BY KeyTyped DEF IInv, KeyInv, CacheCurrent
<1>2. Len(watch[k]) = 0 /\ api[k].phase = cache[k].phase
  BY <1>1, CacheIsOlder
<1>3. QED
  BY <1>1, <1>2 DEF Current, HistoryKept, Kept

\* SetFinalizer, ClearFinalizer and Release patch the cached object, EnsureFinalizer
\* the worker's copy.
LEMMA FinalizerMoves ==
  ASSUME IInv, CacheCurrent, NEW k \in Keys,
         SetFinalizer(k) \/ ClearFinalizer(k) \/ Release(k) \/ EnsureFinalizer(k)
  PROVE  [Contract!Next]_Contract!vars
<1>1. TypeOK /\ api[k] \in Objects
  BY KeyTyped DEF IInv
<1>2. CASE UNCHANGED <<api, watch>> /\ UNCHANGED manifest
  BY <1>2, HiddenStep DEF manifest
<1>3. CASE SetFinalizer(k) \/ ClearFinalizer(k)
  <2>1. CASE \E fin \in Seq(Finalizers) :
               /\ Patches(k, cache[k].rv, fin)
               /\ Has(fin, ManifestFinalizer) <=> Has(cache[k].fin, ManifestFinalizer)
    BY <1>1, <1>3, <2>1, FinalizerRequest, CachedPatch, PatchMoves
  <2>2. QED
    BY <1>1, <1>2, <1>3, <2>1, FinalizerRequest
<1>4. CASE Release(k)
  <2>1. PICK fin \in Seq(Finalizers) :
          /\ Patches(k, cache[k].rv, fin)
          /\ Has(fin, ManifestFinalizer) => Has(cache[k].fin, ManifestFinalizer)
    BY <1>4, ReleaseRequest
  <2>2. UNCHANGED manifest /\ cache[k].phase = "deleting"
    BY <1>4, ReleaseRequest
  <2>3. QED
    BY <1>1, <2>1, <2>2, CachedPatch, PatchMoves
<1>5. CASE EnsureFinalizer(k)
  <2>1. api[k].rv = res[k].rv /\ res[k].phase # "empty" => api[k].phase = "live"
    BY <1>5 DEF EnsureFinalizer, At, IInv, KeyInv, EarlyCopy, EarlyStages
  <2>2. CASE \E fin \in Seq(Finalizers) :
               /\ Patches(k, res[k].rv, fin)
               /\ Has(fin, ManifestFinalizer) /\ res[k].phase # "empty"
    BY <1>1, <1>5, <2>1, <2>2, EnsureRequest, PatchMoves
  <2>3. QED
    BY <1>1, <1>2, <1>5, <2>2, EnsureRequest
<1>6. QED
  BY <1>3, <1>4, <1>5

\* InitStatus and SyncStatus write a status.
LEMMA StatusIsHidden ==
  ASSUME TypeOK, NEW k \in Keys, InitStatus(k) \/ SyncStatus(k)
  PROVE  [Contract!Next]_Contract!vars
<1>1. UNCHANGED manifest
  BY StatusRequest
<1>2. CASE UNCHANGED <<api, watch>>
  BY <1>1, <1>2, HiddenStep DEF manifest
<1>3. ASSUME NEW rv, NEW st \in Statuses, Updates(k, rv, st)
      PROVE  [Contract!Next]_Contract!vars
  BY <1>1, <1>3, StatusMoves DEF Updates, manifest
<1>4. QED
  BY <1>2, <1>3, StatusRequest

\* The users' steps and the garbage collector's.
LEMMA EnvironmentMoves ==
  ASSUME IInv, CacheCurrent, NEW k \in Keys, Environment(k)
  PROVE  [Contract!Next]_Contract!vars
<1> DEFINE a == api[k]
<1>1. /\ TypeOK /\ a \in Objects /\ a.inc \in Nat /\ a.rv \in Nat /\ a.gen + 1 \in Nat
      /\ a.phase \in Phases /\ a.phase # "empty"
  BY KeyTyped DEF IInv, Objects, CacheCurrent, Current
<1> HIDE DEF a
<1>2. ASSUME NEW o, Store(k, o), UNCHANGED manifest, Moves(StoredObject(a), StoredObject(o))
      PROVE  [Contract!Next]_Contract!vars
  <2>1. api'[k] = o /\ \A j \in Keys \ {k} : api'[j] = api[j]
    BY <1>1, <1>2 DEF Store, TypeOK
  <2>2. QED
    BY <1>2, <2>1, ObjectStep DEF manifest, a
<1>3. ASSUME NEW spec \in Specs, CreateCR(k, spec)
      PROVE  [Contract!Next]_Contract!vars
  <2> DEFINE o == Created(a.inc + 1, a.rv + 1, spec)
  <2>1. Store(k, o) /\ UNCHANGED manifest /\ a.phase = "absent"
    BY <1>1, <1>3 DEF CreateCR, Exists, Phases, a
  <2>2. StoredObject(o) = [phase |-> "live", inc |-> a.inc + 1, held |-> FALSE]
    <3>1. o.phase = "live" /\ o.inc = a.inc + 1 /\ ~Has(o.fin, ManifestFinalizer)
      BY DEF Created, Has
    <3>2. QED
      BY <3>1, Seen
  <2> HIDE DEF o
  <2>3. StoredObject(a).phase = "absent" /\ StoredObject(a).inc = a.inc
    BY <2>1, Seen
  <2>4. Moves(StoredObject(a), StoredObject(o))
    BY <2>2, <2>3 DEF Moves
  <2>5. QED
    BY <1>2, <2>1, <2>4
<1>4. ASSUME NEW spec \in Specs, EditSpec(k, spec)
      PROVE  [Contract!Next]_Contract!vars
  <2> DEFINE o == Edited(a, spec)
  <2>1. Exists(a) /\ Store(k, Committed(o)) /\ UNCHANGED manifest
    BY <1>4 DEF EditSpec, a
  <2>2. o \in Objects /\ o.phase = a.phase /\ o.inc = a.inc /\ o.fin = a.fin
    BY <1>1 DEF Edited, Objects
  <2> HIDE DEF o
  <2>3. Moves(StoredObject(a), StoredObject(Committed(o)))
    BY <1>1, <2>1, <2>2, WrittenMoves
  <2>4. QED
    BY <1>2, <2>1, <2>3
<1>5. ASSUME NEW foreground \in BOOLEAN, DeleteCR(k, foreground)
      PROVE  [Contract!Next]_Contract!vars
  <2> DEFINE fin == IF foreground THEN Append(a.fin, ForegroundFinalizer) ELSE a.fin
             o == Marked(a, fin)
  <2>1. a.phase = "live" /\ Store(k, Committed(o)) /\ UNCHANGED manifest
    BY <1>5 DEF DeleteCR, a
  <2>2. /\ fin \in Seq(Finalizers)
        /\ Has(fin, ManifestFinalizer) <=> Has(a.fin, ManifestFinalizer)
    <3>1. a.fin \in Seq(Finalizers) /\ ForegroundFinalizer \in Finalizers \ {ManifestFinalizer}
      BY <1>1 DEF Objects, Finalizers, ForegroundFinalizer, ManifestFinalizer
    <3>2. QED
      BY <3>1, AppendFacts, AppendedHas
  <2> HIDE DEF fin
  <2>3. o \in Objects /\ o.phase = "deleting" /\ o.inc = a.inc /\ o.fin = fin
    BY <1>1, <2>2 DEF Marked, Objects, Phases
  <2> HIDE DEF o
  <2>4. Moves(StoredObject(a), StoredObject(Committed(o)))
    BY <1>1, <2>1, <2>2, <2>3, MarkedMoves
  <2>5. QED
    BY <1>2, <2>1, <2>4
<1>6. ASSUME ForegroundDone(k)
      PROVE  [Contract!Next]_Contract!vars
  <2>1. PICK i \in DOMAIN a.fin :
          /\ a.fin[i] = ForegroundFinalizer
          /\ Store(k, Committed([a EXCEPT !.fin = Without(@, i)]))
    BY <1>6 DEF ForegroundDone, a
  <2> DEFINE fin == Without(a.fin, i)
             o == [a EXCEPT !.fin = fin]
  <2>2. a.fin \in Seq(Finalizers)
    BY <1>1 DEF Objects
  <2>3. /\ fin \in Seq(Finalizers)
        /\ Has(a.fin, ManifestFinalizer) => Has(fin, ManifestFinalizer)
        /\ Has(fin, ManifestFinalizer) => Has(a.fin, ManifestFinalizer)
    <3>1. fin \in Seq(Finalizers) /\ (Has(a.fin, ManifestFinalizer) => Has(fin, ManifestFinalizer))
      BY <2>1, <2>2, WithoutFacts
    <3>2. QED
      BY <2>2, <3>1, WithoutHas
  <2>4. Exists(a) /\ Store(k, Committed(o)) /\ UNCHANGED manifest
    BY <1>6, <2>1 DEF ForegroundDone, a
  <2> HIDE DEF fin
  <2>5. o \in Objects /\ o.phase = a.phase /\ o.inc = a.inc /\ o.fin = fin
    BY <1>1, <2>3 DEF Objects
  <2> HIDE DEF o
  <2>6. Moves(StoredObject(a), StoredObject(Committed(o)))
    BY <1>1, <2>3, <2>4, <2>5, WrittenMoves
  <2>7. QED
    BY <1>2, <2>4, <2>6
<1>7. ASSUME \/ DeploymentUp(k) \/ CollectDeployment(k)
             \/ \E state \in {"absent", "down"} : DeploymentLost(k, state)
      PROVE  [Contract!Next]_Contract!vars
  <2>1. PICK state \in DepStates :
          /\ dep[k].state # "absent" /\ dep' = [dep EXCEPT ![k].state = state]
          /\ UNCHANGED <<api, cluster>>
    BY <1>7 DEF DeploymentUp, CollectDeployment, DeploymentLost, SetDeployment, objects, DepStates
  <2>2. /\ dep[k] \in [state : DepStates, owner : Nat]
        /\ dep'[k] = [dep[k] EXCEPT !.state = state]
        /\ \A j \in Keys \ {k} : dep'[j] = dep[j]
    BY <1>1, <2>1 DEF TypeOK
  <2>3. dep'[k].state = state /\ dep'[k].owner = dep[k].owner
    BY <2>2
  <2>4. CASE state = "absent"
    <3>1. Controller(dep'[k]) = NoOwner
      BY <2>3, <2>4 DEF Controller
    <3>2. {k} \in SUBSET Keys /\ \A j \in Keys \ {k} : Controller(dep'[j]) = Controller(dep[j])
      BY <2>2
    <3>3. QED
      BY <2>1, <3>1, <3>2, LoseStep
  <2>5. CASE state # "absent"
    <3>1. \A j \in Keys : Controller(dep'[j]) = Controller(dep[j])
      BY <2>1, <2>2, <2>3, <2>5 DEF Controller
    <3>2. {} \in SUBSET Keys
      OBVIOUS
    <3>3. QED
      BY <2>1, <3>1, <3>2, LoseStep
  <2>6. QED
    BY <2>4, <2>5
<1>8. QED
  BY <1>3, <1>4, <1>5, <1>6, <1>7 DEF Environment

\* A worker that installs works for the stored object, which is held.
LEMMA InstallMoves ==
  ASSUME IInv, NEW k \in Keys, Install(k) \/ DeleteObsoleteResources(k)
  PROVE  [Contract!Next]_Contract!vars
<1>1. /\ TypeOK /\ Has(api[k].fin, ManifestFinalizer) /\ api[k].inc = res[k].inc
      /\ UNCHANGED api
  BY DEF IInv, KeyInv, Protected, Kept, InstallStages, Install, DeleteObsoleteResources, At, objects
<1>2. CASE DeleteObsoleteResources(k)
  <2>1. UNCHANGED <<api, dep>> /\ (cluster' = cluster \/ cluster' = cluster \ {"obsolete"})
    BY <1>1, <1>2 DEF DeleteObsoleteResources
  <2>2. QED
    BY <1>1, <2>1, TidyStep, HiddenStep
<1>3. CASE Install(k)
  <2> DEFINE r == Head(todo[k])
  <2>1. r \in Resources
    BY <1>1, <1>3 DEF Install, At, IInv, TodoOK, TypeOK
  <2>2. ApplyResource(k, r) \/ UNCHANGED manifest
    BY <1>3 DEF Install
  <2> HIDE DEF r
  <2>3. CASE ApplyResource(k, r) /\ r = "deployment"
    <3>1. /\ dep' = [dep EXCEPT ![k] = [state |-> IF @.state = "absent" THEN "down" ELSE @.state,
                                        owner |-> res[k].inc]]
          /\ UNCHANGED cluster
      BY <2>3 DEF ApplyResource
    <3>2. /\ dep'[k].state # "absent" /\ dep'[k].owner = res[k].inc
          /\ \A j \in Keys \ {k} : dep'[j] = dep[j]
      BY <1>1, <3>1 DEF TypeOK
    <3>3. Controller(dep'[k]) = api[k].inc
      BY <1>1, <3>2 DEF Controller
    <3>4. QED
      BY <1>1, <3>1, <3>2, <3>3, AdoptStep
  <2>4. CASE ApplyResource(k, r) /\ r # "deployment"
    <3>1. cluster' = cluster \cup {r} /\ UNCHANGED dep
      BY <2>4 DEF ApplyResource
    <3>2. r \in ClusterResources \ {"obsolete"}
      BY <2>1, <2>4 DEF ClusterResources, Resources
    <3>3. QED
      BY <1>1, <3>1, <3>2, InstallStep
  <2>5. QED
    BY <1>1, <2>2, <2>3, <2>4, HiddenStep DEF manifest
<1>4. QED
  BY <1>2, <1>3

\* A worker that uninstalls works for a stored object that is doomed.
LEMMA DeleteMoves ==
  ASSUME IInv, NEW k \in Keys, Delete(k)
  PROVE  [Contract!Next]_Contract!vars
<1>1. /\ TypeOK /\ HistoryOrdered(api[k], cache[k], watch[k]) /\ Doomed(cache[k])
      /\ api[k] \in Objects /\ cache[k] \in Objects /\ watch[k] \in Seq(Objects)
      /\ UNCHANGED api
  BY KeyTyped DEF IInv, KeyInv, Finalizing, Delete, At, objects
<1>2. Doomed(api[k]) /\ api[k].fin \in Seq(Finalizers)
  BY <1>1, CacheIsOlder DEF Objects
<1>3. api[k].phase = "deleting" /\ Has(api[k].fin, ManifestFinalizer)
  BY <1>2, FinalizerSets DEF Doomed
<1> DEFINE r == Head(todo[k])
<1>4. r \in Resources
  BY <1>1 DEF Delete, At, IInv, TodoOK, TypeOK
<1>5. DeleteResource(r) \/ UNCHANGED manifest
  BY DEF Delete
<1> HIDE DEF r
<1>6. CASE DeleteResource(r) /\ r = "deployment"
  <2>1. /\ dep' = [j \in Keys |-> IF j \in HomeKeys THEN [dep[j] EXCEPT !.state = "absent"]
                                                    ELSE dep[j]]
        /\ UNCHANGED cluster
    BY <1>6 DEF DeleteResource
  <2>2. /\ HomeKeys \in SUBSET Keys
        /\ \A j \in HomeKeys : dep'[j] = [dep[j] EXCEPT !.state = "absent"]
        /\ \A j \in Keys \ HomeKeys : dep'[j] = dep[j]
    BY <2>1, KeysAssumption
  <2>3. \A j \in HomeKeys : Controller(dep'[j]) = NoOwner
    <3>1. \A j \in Keys : dep[j] \in [state : DepStates, owner : Nat]
      BY <1>1 DEF TypeOK
    <3>2. ASSUME NEW j \in HomeKeys
          PROVE  dep'[j].state = "absent"
      <4>1. dep[j] \in [state : DepStates, owner : Nat] /\ dep'[j] = [dep[j] EXCEPT !.state = "absent"]
        BY <2>2, <3>1
      <4>2. QED
        BY <4>1
    <3>3. QED
      BY <3>2 DEF Controller
  <2>4. \A j \in Keys \ HomeKeys : Controller(dep'[j]) = Controller(dep[j])
    BY <2>2
  <2>5. QED
    BY <1>1, <2>1, <2>2, <2>3, <2>4, LoseStep
<1>7. CASE DeleteResource(r) /\ r # "deployment"
  <2>1. cluster' = cluster \ {r} /\ UNCHANGED dep
    BY <1>7 DEF DeleteResource
  <2>2. r \in ClusterResources \ {"obsolete"}
    BY <1>4, <1>7 DEF ClusterResources, Resources
  <2>3. QED
    BY <1>1, <1>3, <2>1, <2>2, UninstallStep
<1>8. QED
  BY <1>1, <1>5, <1>6, <1>7, HiddenStep DEF manifest

\* Every step of the controller is one of the contract, or hidden from it.
LEMMA StepContract ==
  ASSUME IInv, CacheCurrent, [Next]_vars
  PROVE  [Contract!Next]_Contract!vars
<1>1. TypeOK
  BY DEF IInv
<1>2. CASE UNCHANGED vars
  BY <1>2, HiddenStep DEF vars
<1>3. CASE Restart
  BY <1>3, HiddenStep DEF Restart, manifest
<1>4. ASSUME NEW k \in Keys, Environment(k)
      PROVE  [Contract!Next]_Contract!vars
  BY <1>4, EnvironmentMoves
<1>5. ASSUME NEW k \in Keys, Informer(k)
      PROVE  [Contract!Next]_Contract!vars
  BY <1>5, HiddenStep DEF Informer, WatchEvent, Relist, Resync, objects, manifest
<1>6. ASSUME NEW k \in Keys,
             \/ Reconcile(k) \/ ReconcileKind(k) \/ CheckDeployments(k)
             \/ FinalizeKind(k) \/ GetStatus(k)
      PROVE  [Contract!Next]_Contract!vars
  BY <1>6, HiddenStep
  DEF Reconcile, ReconcileKind, CheckDeployments, FinalizeKind, GetStatus, objects, manifest
<1>7. ASSUME NEW k \in Keys, WorkerStep(k)
      PROVE  [Contract!Next]_Contract!vars
  BY <1>1, <1>6, <1>7, FinalizerMoves, StatusIsHidden, InstallMoves, DeleteMoves DEF WorkerStep
<1>8. QED
  BY <1>2, <1>3, <1>4, <1>5, <1>6, <1>7 DEF Next

\* The controller starts as the contract says.
LEMMA InitContract == Init => Contract!Init
<1> SUFFICES ASSUME Init PROVE Contract!Init
  OBVIOUS
<1>1. ASSUME NEW k \in Keys
      PROVE  /\ k \in LegacyKeys =>
                  /\ StoredObject(api[k]) = [phase |-> "live", inc |-> 1, held |-> TRUE]
                  /\ Controller(dep[k]) = 1
             /\ k \notin LegacyKeys =>
                  /\ StoredObject(api[k]) = [phase |-> "absent", inc |-> 0, held |-> FALSE]
                  /\ Controller(dep[k]) = 0
  <2>1. CASE k \in LegacyKeys
    <3>1. api[k] = LegacyObject /\ dep[k] = [state |-> "up", owner |-> 1]
      BY <2>1 DEF Init
    <3>2. /\ LegacyObject.phase = "live" /\ LegacyObject.inc = 1
          /\ Has(LegacyObject.fin, ManifestFinalizer)
      BY DEF LegacyObject, Has
    <3>3. StoredObject(LegacyObject) = [phase |-> "live", inc |-> 1, held |-> TRUE]
      BY <3>2, Seen
    <3>4. QED
      BY <2>1, <3>1, <3>3 DEF Controller
  <2>2. CASE k \notin LegacyKeys
    <3>1. api[k] = Gone(0, 0) /\ dep[k] = [state |-> "absent", owner |-> NoOwner]
      BY <2>2 DEF Init
    <3>2. /\ Gone(0, 0).phase = "absent" /\ Gone(0, 0).inc = 0
          /\ ~Has(Gone(0, 0).fin, ManifestFinalizer)
      BY DEF Gone, Has
    <3>3. StoredObject(Gone(0, 0)) = [phase |-> "absent", inc |-> 0, held |-> FALSE]
      BY <3>2, Seen
    <3>4. QED
      BY <2>2, <3>1, <3>3 DEF Controller, NoOwner
  <2>3. QED
    BY <2>1, <2>2
<1>2. cluster = IF LegacyKeys = {} THEN {} ELSE ClusterResources
  BY DEF Init
<1>3. QED
  BY <1>1, <1>2 DEF Contract!Init, Contract!Live, Contract!Absent

\* The controller implements ServingContract: in the code, every Apply and Delete of
\* the manifest (knativeserving.go, install and delete) happens while the API
\* server's object has the finalizer that install attached, and every finalizer
\* patch of the generated reconciler respects it.
THEOREM ContractIsKept == Spec => ContractKept
<1>1. Init => Contract!Init
  BY InitContract
<1>2. IInv /\ CacheCurrent /\ [Next]_vars => [Contract!Next]_Contract!vars
  BY StepContract
<1>3. QED
  BY <1>1, <1>2, Invariant, CacheIsCurrent, PTL DEF Spec, ContractKept, Contract!Spec

-----------------------------------------------------------------------------
(* Who may take the manifest finalizer off the stored object.                *)

\* A write that keeps the finalizer on the object keeps it on what is stored.
LEMMA CommittedHas ==
  ASSUME NEW o \in Objects, Has(o.fin, ManifestFinalizer)
  PROVE  Has(Committed(o).fin, ManifestFinalizer)
<1>1. o.fin \in Seq(Finalizers)
  BY DEF Objects
<1>2. Len(o.fin) # 0
  BY <1>1, Unheld
<1>3. Committed(o).fin = o.fin
  BY <1>2 DEF Committed, Bumped, Objects
<1>4. QED
  BY <1>3

\* A patch takes it off only if it is made from the stored version, and without it.
LEMMA PatchLetsGo ==
  ASSUME TypeOK, NEW k \in Keys, NEW rv, NEW fin \in Seq(Finalizers), Patches(k, rv, fin),
         Has(api[k].fin, ManifestFinalizer), ~Has(api'[k].fin, ManifestFinalizer)
  PROVE  api[k].rv = rv /\ ~Has(fin, ManifestFinalizer)
<1> DEFINE o == [api[k] EXCEPT !.fin = fin]
<1>1. o \in Objects /\ o.fin = fin
  BY KeyTyped DEF Objects
<1>2. PICK reply \in {"ok", "conflict", "notfound", "error"} : Write(k, rv, o, reply)
  BY DEF Patches
<1> HIDE DEF o
<1>3. api'[k] = api[k] \/ (api[k].rv = rv /\ api'[k] = Committed(o))
  BY <1>1, <1>2, WriteEffect
<1>4. QED
  BY <1>1, <1>3, CommittedHas

\* A new status does not take it off.
LEMMA UpdateHolds ==
  ASSUME TypeOK, NEW k \in Keys, NEW rv, NEW st \in Statuses, Updates(k, rv, st),
         Has(api[k].fin, ManifestFinalizer)
  PROVE  Has(api'[k].fin, ManifestFinalizer)
<1> DEFINE o == [api[k] EXCEPT !.status = st]
<1>1. o \in Objects /\ o.fin = api[k].fin
  BY KeyTyped DEF Objects
<1>2. PICK reply \in {"ok", "conflict", "notfound", "error"} : Write(k, rv, o, reply)
  BY DEF Updates
<1> HIDE DEF o
<1>3. api'[k] = api[k] \/ api'[k] = Committed(o)
  BY <1>1, <1>2, WriteEffect
<1>4. QED
  BY <1>1, <1>3, CommittedHas

\* Users and the garbage collector do not.
LEMMA EnvironmentHolds ==
  ASSUME IInv, NEW k \in Keys, Environment(k), Has(api[k].fin, ManifestFinalizer)
  PROVE  Has(api'[k].fin, ManifestFinalizer)
<1> DEFINE a == api[k]
<1>1. /\ TypeOK /\ a \in Objects /\ a.inc \in Nat /\ a.rv \in Nat /\ a.gen + 1 \in Nat
      /\ a.fin \in Seq(Finalizers) /\ Exists(a)
  BY KeyTyped DEF IInv, KeyInv, HistoryKept, Objects
<1> HIDE DEF a
<1>2. ASSUME NEW o \in Objects, Store(k, Committed(o)), Has(o.fin, ManifestFinalizer)
      PROVE  Has(api'[k].fin, ManifestFinalizer)
  <2>1. api'[k] = Committed(o)
    BY <1>1, <1>2 DEF Store, TypeOK
  <2>2. QED
    BY <1>2, <2>1, CommittedHas
<1>3. ASSUME NEW spec \in Specs, EditSpec(k, spec)
      PROVE  Has(api'[k].fin, ManifestFinalizer)
  <2>1. Store(k, Committed(Edited(a, spec)))
    BY <1>3 DEF EditSpec, a
  <2>2. Edited(a, spec) \in Objects /\ Edited(a, spec).fin = a.fin
    BY <1>1 DEF Edited, Objects
  <2>3. QED
    BY <1>2, <2>1, <2>2 DEF a
<1>4. ASSUME NEW foreground \in BOOLEAN, DeleteCR(k, foreground)
      PROVE  Has(api'[k].fin, ManifestFinalizer)
  <2> DEFINE fin == IF foreground THEN Append(a.fin, ForegroundFinalizer) ELSE a.fin
  <2>1. Store(k, Committed(Marked(a, fin)))
    BY <1>4 DEF DeleteCR, a
  <2>2. fin \in Seq(Finalizers) /\ Has(fin, ManifestFinalizer)
    BY <1>1, AppendFacts DEF Finalizers, a
  <2> HIDE DEF fin
  <2>3. Marked(a, fin) \in Objects /\ Marked(a, fin).fin = fin
    BY <1>1, <2>2 DEF Marked, Objects, Phases
  <2>4. QED
    BY <1>2, <2>1, <2>2, <2>3
<1>5. ASSUME ForegroundDone(k)
      PROVE  Has(api'[k].fin, ManifestFinalizer)
  <2>1. PICK i \in DOMAIN a.fin :
          /\ a.fin[i] = ForegroundFinalizer
          /\ Store(k, Committed([a EXCEPT !.fin = Without(@, i)]))
    BY <1>5 DEF ForegroundDone, a
  <2> DEFINE fin == Without(a.fin, i)
             o == [a EXCEPT !.fin = fin]
  <2>2. fin \in Seq(Finalizers) /\ Has(fin, ManifestFinalizer)
    BY <1>1, <2>1, WithoutFacts DEF a
  <2>3. Store(k, Committed(o))
    BY <2>1
  <2> HIDE DEF fin
  <2>4. o \in Objects /\ o.fin = fin
    BY <1>1, <2>2 DEF Objects
  <2> HIDE DEF o
  <2>5. QED
    BY <1>2, <2>2, <2>3, <2>4
<1>6. ASSUME \/ DeploymentUp(k) \/ CollectDeployment(k)
             \/ \E state \in {"absent", "down"} : DeploymentLost(k, state)
      PROVE  Has(api'[k].fin, ManifestFinalizer)
  BY <1>6 DEF DeploymentUp, CollectDeployment, DeploymentLost, objects
<1>7. ASSUME NEW spec \in Specs, CreateCR(k, spec)
      PROVE  FALSE
  BY <1>1, <1>7 DEF CreateCR, a
<1>8. QED
  BY <1>3, <1>4, <1>5, <1>6, <1>7 DEF Environment

\* Release does, and any patch from a cached object it has slipped off.
LEMMA LetsGo ==
  ASSUME IInv, NEW k \in Keys, Environment(k) \/ Informer(k) \/ Reconcile(k) \/ WorkerStep(k),
         Has(api[k].fin, ManifestFinalizer), ~Has(api'[k].fin, ManifestFinalizer)
  PROVE  Release(k) \/ Slipped(k)
<1>1. TypeOK
  BY DEF IInv
<1>2. CASE SetFinalizer(k) \/ ClearFinalizer(k)
  <2>1. PICK fin \in Seq(Finalizers) :
          /\ Patches(k, cache[k].rv, fin)
          /\ Has(fin, ManifestFinalizer) <=> Has(cache[k].fin, ManifestFinalizer)
    BY <1>1, <1>2, FinalizerRequest
  <2>2. QED
    BY <1>1, <2>1, PatchLetsGo DEF Slipped
<1>3. CASE EnsureFinalizer(k)
  BY <1>1, <1>3, EnsureRequest, PatchLetsGo
<1>4. CASE InitStatus(k) \/ SyncStatus(k)
  BY <1>1, <1>4, StatusRequest, UpdateHolds
<1>5. CASE Environment(k)
  BY <1>5, EnvironmentHolds
<1>6. CASE UNCHANGED objects
  BY <1>6 DEF objects
<1>7. CASE Informer(k)
  BY <1>7 DEF Informer, WatchEvent, Relist, Resync, objects
<1>8. QED
  BY <1>2, <1>3, <1>4, <1>5, <1>6, <1>7, LocalSteps DEF WorkerStep

-----------------------------------------------------------------------------
(* When the finalizer has slipped.                                          *)

\* Only Release makes it slip.
LEMMA SlipsInRelease ==
  ASSUME IInv, IInv', NEW k \in Keys,
         Environment(k) \/ Informer(k) \/ Reconcile(k) \/ WorkerStep(k) \/ Restart,
         Slipped(k)'
  PROVE  Slipped(k) \/ Release(k)
<1>1. /\ TypeOK /\ TypeOK' /\ HistoryOrdered(api'[k], cache'[k], watch'[k])
      /\ api'[k] \in Objects /\ cache'[k] \in Objects /\ watch'[k] \in Seq(Objects)
      /\ watch[k] \in Seq(Objects)
  BY DEF IInv, KeyInv, TypeOK
<1>2. Len(watch'[k]) = 0 /\ cache'[k] # api'[k]
  BY <1>1, CacheIsOlder DEF Slipped
<1>3. CASE cache' = cache /\ Sent(k)
  <2>1. api'[k] = api[k]
    BY <1>1, <1>2, <1>3, AppendChange DEF Sent
  <2>2. QED
    BY <1>3, <2>1 DEF Slipped
<1>4. CASE WatchEvent(k)
  <2>1. /\ Len(watch[k]) > 0 /\ cache'[k] = Head(watch[k]) /\ watch'[k] = Tail(watch[k])
        /\ api' = api
    BY <1>1, <1>4 DEF WatchEvent, TypeOK
  <2>2. Len(watch[k]) = 1 /\ Head(watch[k]) = watch[k][Len(watch[k])]
    BY <1>1, <1>2, <2>1
  <2>3. watch[k][Len(watch[k])] = api[k]
    BY <2>1 DEF IInv, KeyInv, HistoryOrdered
  <2>4. QED
    BY <1>2, <2>1, <2>2, <2>3
<1>5. CASE Relist(k) \/ Restart
  <2>1. cache'[k] = api'[k]
    BY <1>1, <1>5 DEF Relist, Restart, TypeOK
  <2>2. QED
    BY <1>2, <2>1
<1>6. CASE Resync(k)
  BY <1>6 DEF Resync, objects, Slipped
<1>7. QED
  BY <1>1, <1>3, <1>4, <1>5, <1>6, EnvironmentSends, WorkerSends DEF Informer

\* It does so on an object that is being deleted.
LEMMA SlippedIsDoomed ==
  ASSUME IInv, CacheCurrent, NEW k \in Keys, Slipped(k)
  PROVE  cache[k].phase # "live" /\ ~Doomed(cache[k])
<1>1. /\ HistoryOrdered(api[k], cache[k], watch[k]) /\ Current(api[k], cache[k], watch[k])
      /\ api[k] \in Objects /\ cache[k] \in Objects /\ watch[k] \in Seq(Objects)
      /\ cache[k].fin \in Seq(Finalizers)
  BY KeyTyped DEF IInv, KeyInv, CacheCurrent, Objects
<1>2. Len(watch[k]) = 0
  BY <1>1, CacheIsOlder DEF Slipped
<1>3. QED
  BY <1>1, <1>2, FinalizerSets DEF Current, Slipped, Doomed

\* A worker that installs has found its object live.
LEMMA InstallsFromLive ==
  ASSUME TypeOK, NEW k \in Keys, Environment(k) \/ Informer(k) \/ Reconcile(k) \/ WorkerStep(k),
         pc'[k] \in EarlyStages \cup InstallStages
  PROVE  pc[k] \in EarlyStages \cup InstallStages \/ (Reconcile(k) /\ cache[k].phase = "live")
<1>1. ASSUME NEW s, Goto(k, s)
      PROVE  pc'[k] = s
  BY <1>1 DEF Goto, TypeOK
<1>2. CASE UNCHANGED pc
  BY <1>2
<1>3. CASE Reconcile(k)
  BY <1>1, <1>3 DEF Reconcile, EarlyStages, InstallStages
<1>4. CASE SetFinalizer(k) \/ ReconcileKind(k) \/ EnsureFinalizer(k) \/ InitStatus(k)
  BY <1>4 DEF SetFinalizer, ReconcileKind, EnsureFinalizer, InitStatus, At, EarlyStages, InstallStages
<1>5. CASE Install(k) \/ CheckDeployments(k) \/ DeleteObsoleteResources(k)
  BY <1>5 DEF Install, CheckDeployments, DeleteObsoleteResources, At, EarlyStages, InstallStages
<1>6. CASE FinalizeKind(k)
  BY <1>1, <1>6 DEF FinalizeKind, EarlyStages, InstallStages
<1>7. CASE Delete(k)
  <2>1. pc'[k] \in {"delete", "release", "clearFinalizer"}
    BY <1>1, <1>7 DEF Delete, At
  <2>2. QED
    BY <2>1 DEF EarlyStages, InstallStages
<1>8. CASE Release(k) \/ ClearFinalizer(k)
  <2>1. pc'[k] \in {"clearFinalizer", "syncStatus"}
    BY <1>1, <1>8 DEF Release, ClearFinalizer
  <2>2. QED
    BY <2>1 DEF EarlyStages, InstallStages
<1>9. CASE SyncStatus(k) \/ GetStatus(k)
  <2>1. pc'[k] \in {"idle", "getStatus", "syncStatus"}
    BY <1>1, <1>9 DEF SyncStatus, GetStatus, Done
  <2>2. QED
    BY <2>1 DEF EarlyStages, InstallStages
<1>10. CASE Environment(k) \/ Informer(k)
  BY <1>10 DEF Environment, CreateCR, EditSpec, DeleteCR, DeploymentUp, CollectDeployment,
      ForegroundDone, DeploymentLost, Informer, WatchEvent, Relist, Resync, worker
<1>11. QED
  BY <1>3, <1>4, <1>5, <1>6, <1>7, <1>8, <1>9, <1>10 DEF WorkerStep

-----------------------------------------------------------------------------
(* What each step does to the uninstall of its key.                         *)

\* The stages in which the list of delete matters.
UninstallStages == {"delete", "release"}

\* A step that leaves the cluster to others, and does not come to delete.
LEMMA QuietUninstall ==
  ASSUME NEW k \in Keys, Uninstalling(k), Slipped(k)' => Slipped(k) \/ Release(k),
         cluster' = cluster, servings' = servings,
         pc'[k] \in UninstallStages => pc'[k] = pc[k] /\ todo'[k] = todo[k]
  PROVE  Uninstalling(k)'
<1>1. Believed(k)' <=> Believed(k)
  BY DEF Believed
<1>2. Release(k) => pc[k] = "release"
  BY DEF Release, At
<1>3. Removed' <=> Removed
  BY DEF Removed
<1>4. pc'[k] = "delete" => pc[k] = "delete" /\ Listed(k)' = Listed(k)
  BY DEF UninstallStages, Listed
<1>5. pc'[k] = "release" => pc[k] = "release"
  BY DEF UninstallStages
<1>6. QED
  BY <1>1, <1>2, <1>3, <1>4, <1>5 DEF Uninstalling

\* The list of delete has all that an uninstall removes.
LEMMA AllListed == Uninstalled \subseteq {DeleteOrder[i] : i \in DOMAIN DeleteOrder}
<1> DEFINE others == <<"deployment">> \o <<"webhook", "deployment">>
           rbac == <<"binding", "role">>
<1>1. /\ others \in Seq(Resources) /\ rbac \in Seq(Resources)
      /\ Len(others) = 3 /\ others[2] = "webhook"
      /\ Len(rbac) = 2 /\ rbac[1] = "binding" /\ rbac[2] = "role"
  BY DEF Resources
<1>2. DeleteOrder = others \o rbac
  BY DEF DeleteOrder
<1> HIDE DEF others, rbac
<1>3. /\ Len(DeleteOrder) = 5 /\ DeleteOrder \in Seq(Resources)
      /\ DeleteOrder[2] = "webhook" /\ DeleteOrder[4] = "binding" /\ DeleteOrder[5] = "role"
  <2>1. /\ others \o rbac \in Seq(Resources) /\ Len(others \o rbac) = Len(others) + Len(rbac)
        /\ \A i \in 1 .. Len(others) + Len(rbac) :
             (others \o rbac)[i] = IF i <= Len(others) THEN others[i] ELSE rbac[i - Len(others)]
    BY <1>1, ConcatProperties
  <2>2. \A i \in 1 .. 5 : DeleteOrder[i] = IF i <= 3 THEN others[i] ELSE rbac[i - 3]
    BY <1>1, <1>2, <2>1
  <2>3. QED
    BY <1>1, <1>2, <2>1, <2>2
<1>4. 2 \in DOMAIN DeleteOrder /\ 4 \in DOMAIN DeleteOrder /\ 5 \in DOMAIN DeleteOrder
  BY <1>3
<1>5. QED
  BY <1>3, <1>4 DEF Uninstalled

\* FinalizeKind lists all there is, or believes that another KnativeServing is served.
LEMMA FinalizeUninstalls ==
  ASSUME TypeOK, NEW k \in Keys, Uninstalling(k), FinalizeKind(k)
  PROVE  Uninstalling(k)'
<1>1. servings' = Unserve(servings, k) /\ UNCHANGED <<objects, manifest>>
  BY DEF FinalizeKind
<1>2. servings'[k] = NotServed /\ \A j \in ServingKeys \ {k} : servings'[j] = servings[j]
  BY <1>1 DEF Unserve, ServingKeys, TypeOK
<1>3. (Believed(k)' <=> Believed(k)) /\ (Slipped(k)' <=> Slipped(k)) /\ (Removed' <=> Removed)
  BY <1>1, <1>2 DEF Believed, Slipped, Removed, objects, manifest
<1>4. pc'[k] \in {"delete", "release", "clearFinalizer"}
  BY DEF FinalizeKind, Goto, TypeOK
<1>5. ASSUME pc'[k] = "delete"
      PROVE  cluster' \cap Uninstalled \subseteq Listed(k)'
  <2>1. todo'[k] = DeleteOrder
    BY <1>5 DEF FinalizeKind, Goto, TypeOK
  <2>2. QED
    BY <2>1, AllListed DEF Listed
<1>6. ASSUME pc'[k] = "release"
      PROVE  Believed(k)'
  <2>1. PICK j \in ServingKeys : servings'[j] # NotServed
    BY <1>6 DEF FinalizeKind, Goto, TypeOK
  <2>2. QED
    BY <1>2, <2>1 DEF Believed
<1>7. QED
  BY <1>3, <1>5, <1>6 DEF Uninstalling

\* delete deletes the first on its list, or fails and does not go on to Release.
LEMMA DeleteUninstalls ==
  ASSUME TypeOK, TodoOK, NEW k \in Keys, Uninstalling(k), Delete(k), ~Slipped(k)'
  PROVE  Uninstalling(k)'
<1> DEFINE r == Head(todo[k])
           l == Tail(todo[k])
<1>1. /\ r \in Resources /\ l \in Seq(Resources) /\ Len(todo[k]) > 0 /\ Len(todo[k]) \in Nat
      /\ Len(l) = Len(todo[k]) - 1 /\ todo[k] \in Seq(Resources)
  BY TodoTyped DEF Delete, At, TypeOK
<1>2. \A i \in DOMAIN todo[k] : todo[k][i] = r \/ \E j \in DOMAIN l : l[j] = todo[k][i]
  <2>1. ASSUME NEW i \in DOMAIN todo[k], i # 1
        PROVE  i - 1 \in DOMAIN l /\ l[i - 1] = todo[k][i]
    BY <1>1, <2>1
  <2>2. todo[k][1] = r
    BY <1>1
  <2> HIDE DEF l, r
  <2>3. QED
    BY <2>1, <2>2
<1>3. Believed(k)' <=> Believed(k)
  BY DEF Delete, Believed
<1>4. CASE /\ DeleteResource(r)
           /\ todo' = [todo EXCEPT ![k] = Tail(@)]
           /\ IF Len(todo[k]) = 1 THEN Goto(k, "release") ELSE UNCHANGED pc
  <2>1. todo'[k] = l /\ pc'[k] \in {"delete", "release"} /\ (pc'[k] = "release" <=> Len(todo[k]) = 1)
    BY <1>1, <1>4 DEF Goto, TypeOK, Delete, At
  <2>2. cluster' \cap Uninstalled \subseteq (cluster \cap Uninstalled) \ {r}
    BY <1>4 DEF DeleteResource, Uninstalled
  <2>3. pc[k] = "delete"
    BY DEF Delete, At
  <2> HIDE DEF r, l
  <2>4. ~Believed(k) => cluster' \cap Uninstalled \subseteq {l[i] : i \in DOMAIN l}
    BY <1>2, <2>2, <2>3 DEF Uninstalling, Listed
  <2>5. pc'[k] = "release" => {l[i] : i \in DOMAIN l} = {}
    BY <1>1, <2>1
  <2>6. QED
    BY <1>3, <2>1, <2>4, <2>5 DEF Uninstalling, Listed, Removed
<1>5. CASE Goto(k, "clearFinalizer")
  BY <1>5 DEF Goto, TypeOK, Uninstalling
<1>6. QED
  BY <1>4, <1>5 DEF Delete

\* The finalizer has slipped only under workers that do not install.
LEMMA SlippedStage ==
  ASSUME IInv, CacheCurrent, IInv', NEW k \in Keys, KeyUninstall(k),
         Environment(k) \/ Informer(k) \/ Reconcile(k) \/ WorkerStep(k), Slipped(k)'
  PROVE  pc'[k] \notin EarlyStages \cup InstallStages
<1>1. TypeOK
  BY DEF IInv
<1>2. CASE Release(k)
  <2>1. pc'[k] = "clearFinalizer"
    BY <1>1, <1>2 DEF Release, Goto, TypeOK
  <2>2. QED
    BY <2>1 DEF EarlyStages, InstallStages
<1>3. CASE Slipped(k)
  <2>1. pc[k] \notin EarlyStages \cup InstallStages /\ cache[k].phase # "live"
    BY <1>3, SlippedIsDoomed DEF KeyUninstall
  <2>2. QED
    BY <1>1, <2>1, InstallsFromLive
<1>4. QED
  BY <1>2, <1>3, SlipsInRelease

\* The steps of the only key there is.
LEMMA StepUninstalls ==
  ASSUME IInv, CacheCurrent, IInv', NEW k \in Keys, KeyUninstall(k),
         Environment(k) \/ Informer(k) \/ Reconcile(k) \/ WorkerStep(k)
  PROVE  Uninstalling(k)'
<1>1. TypeOK /\ TodoOK /\ Uninstalling(k)
  BY DEF IInv, KeyUninstall
<1>2. Slipped(k)' => Slipped(k) \/ Release(k)
  BY SlipsInRelease
<1>3. ASSUME NEW s, Goto(k, s)
      PROVE  pc'[k] = s
  BY <1>1, <1>3 DEF Goto, TypeOK
<1>4. CASE /\ cluster' = cluster /\ servings' = servings
           /\ pc'[k] \in UninstallStages => pc'[k] = pc[k] /\ todo'[k] = todo[k]
  BY <1>1, <1>2, <1>4, QuietUninstall
<1>5. CASE Environment(k) \/ Informer(k)
  <2>1. UNCHANGED <<cluster, servings, pc, todo>>
    BY <1>5 DEF Environment, CreateCR, EditSpec, DeleteCR, DeploymentUp, CollectDeployment,
        ForegroundDone, DeploymentLost, Informer, WatchEvent, Relist, Resync, worker, manifest
  <2>2. QED
    BY <1>4, <2>1
<1>6. CASE Reconcile(k) \/ SetFinalizer(k) \/ ClearFinalizer(k) \/ Release(k)
  <2>1. cluster' = cluster /\ servings' = servings
    BY <1>6 DEF Reconcile, SetFinalizer, ClearFinalizer, Release, manifest
  <2>2. pc'[k] \in {pc[k], "setFinalizer", "finalizeKind", "reconcileKind", "clearFinalizer", "syncStatus"}
    BY <1>3, <1>6 DEF Reconcile, SetFinalizer, ClearFinalizer, Release
  <2>3. todo' = todo
    BY <1>6 DEF Reconcile, SetFinalizer, ClearFinalizer, Release
  <2>4. QED
    BY <1>4, <2>1, <2>2, <2>3 DEF UninstallStages
<1>7. CASE EnsureFinalizer(k) \/ InitStatus(k) \/ CheckDeployments(k)
  <2>1. cluster' = cluster /\ servings' = servings
    BY <1>7 DEF EnsureFinalizer, InitStatus, CheckDeployments, manifest
  <2>2. pc'[k] \in {"initStatus", "install", "deleteObsoleteResources", "syncStatus"}
    BY <1>3, <1>7 DEF EnsureFinalizer, InitStatus, CheckDeployments
  <2>3. QED
    BY <1>4, <2>1, <2>2 DEF UninstallStages
<1>8. CASE SyncStatus(k) \/ GetStatus(k)
  <2>1. cluster' = cluster /\ servings' = servings
    BY <1>8 DEF SyncStatus, GetStatus, manifest
  <2>2. pc'[k] \in {"idle", "getStatus", "syncStatus"}
    BY <1>3, <1>8 DEF SyncStatus, GetStatus, Done
  <2>3. QED
    BY <1>4, <2>1, <2>2 DEF UninstallStages
<1>9. CASE ReconcileKind(k) \/ Install(k) \/ DeleteObsoleteResources(k)
  <2>1. pc[k] \in EarlyStages \cup InstallStages
    BY <1>9 DEF ReconcileKind, Install, DeleteObsoleteResources, At, EarlyStages, InstallStages
  <2>2. ~Slipped(k)'
    BY <1>2, <2>1 DEF KeyUninstall, Release, At, EarlyStages, InstallStages
  <2>3. pc'[k] \in {"syncStatus", "ensureFinalizer", "install", "checkDeployments"}
    BY <1>3, <1>9 DEF ReconcileKind, Install, DeleteObsoleteResources, At
  <2>4. QED
    BY <2>2, <2>3 DEF Uninstalling
<1>10. CASE Delete(k)
  <2>1. Doomed(cache[k])
    BY <1>10 DEF Delete, At, IInv, KeyInv, Finalizing
  <2>2. ~Slipped(k)'
    BY <1>2, <1>10, <2>1, SlippedIsDoomed DEF Delete, Release, At
  <2>3. QED
    BY <1>1, <1>10, <2>2, DeleteUninstalls
<1>11. QED
  BY <1>1, <1>5, <1>6, <1>7, <1>8, <1>9, <1>10, FinalizeUninstalls DEF WorkerStep

-----------------------------------------------------------------------------
\* The only key there is, when the operator starts and when it starts again.
LEMMA UninstallStarts ==
  ASSUME NEW k \in Keys, pc[k] = "idle", cache[k] = api[k]
  PROVE  KeyUninstall(k)
  BY DEF KeyUninstall, Uninstalling, Slipped, EarlyStages, InstallStages

\* Every step keeps the invariant of the only key.
LEMMA UninstallKept ==
  ASSUME NEW k \in Keys, Keys = {k}, IInv, CacheCurrent, KeyUninstall(k), [Next]_vars
  PROVE  KeyUninstall(k)'
<1>1. IInv'
  BY StepInvariant
<1>2. CASE UNCHANGED vars
  BY <1>2 DEF vars, KeyUninstall, Uninstalling, Slipped, Believed, Listed, Removed
<1>3. CASE Restart
  <2>1. pc'[k] = "idle" /\ cache'[k] = api'[k]
    BY <1>3 DEF Restart
  <2>2. QED
    BY <2>1 DEF KeyUninstall, Uninstalling, Slipped, EarlyStages, InstallStages
<1>4. CASE Environment(k) \/ Informer(k) \/ Reconcile(k) \/ WorkerStep(k)
  BY <1>1, <1>4, SlippedStage, StepUninstalls DEF KeyUninstall
<1>5. QED
  BY <1>2, <1>3, <1>4 DEF Next

\* Where the finalizer goes, the invariant has the manifest gone.
LEMMA UninstallReleases ==
  ASSUME NEW k \in Keys, Keys = {k}, IInv, KeyUninstall(k), [Next]_vars,
         Has(api[k].fin, ManifestFinalizer), ~Has(api'[k].fin, ManifestFinalizer)
  PROVE  Removed \/ Believed(k)
<1>1. Environment(k) \/ Informer(k) \/ Reconcile(k) \/ WorkerStep(k)
  BY DEF Next, Restart, vars
<1>2. Release(k) \/ Slipped(k)
  BY <1>1, LetsGo
<1>3. QED
  BY <1>2 DEF KeyUninstall, Uninstalling, Release, At

\* The inductive invariant of a cluster with one KnativeServing: once delete has begun
\* (knativeserving.go, delete), what is left of the manifest is on its list.
THEOREM UninstallInvariant ==
  ASSUME NEW k \in Keys, Keys = {k}
  PROVE  Spec => []UninstallInv
<1>1. Init => KeyUninstall(k)
  BY UninstallStarts DEF Init
<1>2. IInv /\ CacheCurrent /\ KeyUninstall(k) /\ [Next]_vars => KeyUninstall(k)'
  BY UninstallKept
<1>3. KeyUninstall(k) <=> UninstallInv
  BY DEF UninstallInv
<1>4. QED
  BY <1>1, <1>2, <1>3, Invariant, CacheIsCurrent, PTL DEF Spec

\* The finalizer of the only KnativeServing goes last: after the deletions in delete
\* (knativeserving.go), or with servings keeping the operator from them.
THEOREM ReleasedLast ==
  ASSUME NEW only \in Keys, Keys = {only}
  PROVE  Spec => ReleaseAfterUninstall
<1>1. IInv /\ UninstallInv /\ [Next]_vars =>
        [\A k \in Keys :
           Has(api[k].fin, ManifestFinalizer) /\ ~Has(api'[k].fin, ManifestFinalizer) =>
             cluster \cap Uninstalled = {} \/ \E j \in ServingKeys \ {k} : servings[j] # NotServed]_vars
  BY UninstallReleases DEF UninstallInv, Removed, Believed
<1>2. Spec => []UninstallInv
  BY UninstallInvariant
<1>3. QED
  BY <1>1, <1>2, Invariant, PTL DEF Spec, ReleaseAfterUninstall

=============================================================================
