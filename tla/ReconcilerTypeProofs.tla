------------------------ MODULE ReconcilerTypeProofs ------------------------
(***************************************************************************)
(* The type invariant of Reconciler is kept by every step, one lemma for    *)
(* each action.  It is not inductive on its own: the slice in Release is a  *)
(* list only if there is something to slice, which ReconcilerProofs shows.  *)
(***************************************************************************)
EXTENDS ReconcilerInvariant, SequenceTheorems, TLAPS

\* The Mark methods and InitializeConditions return conditions.
LEMMA ConditionsTyped ==
  ASSUME NEW c \in Conditions
  PROVE  /\ \A t \in ConditionTypes : MarkTrue(c, t) \in Conditions /\ MarkFalse(c, t) \in Conditions
         /\ InitializeConditions(c) \in Conditions
         /\ MarkInstallFailed(c) \in Conditions
         /\ MarkInstallSucceeded(c) \in Conditions
         /\ MarkDeploymentsAvailable(c) \in Conditions
         /\ MarkDeploymentsNotReady(c) \in Conditions
<1>1. ASSUME NEW d \in Conditions, NEW t \in ConditionTypes
      PROVE  MarkTrue(d, t) \in Conditions /\ MarkFalse(d, t) \in Conditions
  <2>1. Happiness([d EXCEPT ![t] = "True"]) \in ConditionStatus
    BY DEF Happiness, ConditionStatus
  <2>2. QED
    BY <2>1 DEF MarkTrue, MarkFalse, Conditions, ConditionStatus
<1>2. InitializeConditions(c) \in Conditions
  BY DEF InitializeConditions, Conditions, ConditionStatus, ConditionTypes
<1>3. {DependenciesInstalled, DeploymentsAvailable, InstallSucceeded} \subseteq ConditionTypes
  BY DEF ConditionTypes, Dependents
<1>4. MarkInstallSucceeded(c) \in Conditions
  BY <1>1, <1>3 DEF MarkInstallSucceeded, MarkDependenciesInstalled
<1>5. QED
  BY <1>1, <1>2, <1>3, <1>4 DEF MarkInstallFailed, MarkDeploymentsAvailable, MarkDeploymentsNotReady

\* What is in a concatenation of finalizer lists, and what comes first.
LEMMA ConcatMember ==
  ASSUME NEW s \in Seq(Finalizers), NEW t \in Seq(Finalizers)
  PROVE  /\ s \o t \in Seq(Finalizers)
         /\ Len(s) > 0 => Len(s \o t) > 0 /\ (s \o t)[1] = s[1]
         /\ \A j \in DOMAIN (s \o t) : \/ j \in DOMAIN s /\ s[j] = (s \o t)[j]
                                     \/ \E i \in DOMAIN t : t[i] = (s \o t)[j]
<1>1. s \o t \in Seq(Finalizers) /\ Len(s \o t) = Len(s) + Len(t)
  OBVIOUS
<1>2. ASSUME NEW j \in DOMAIN (s \o t)
      PROVE  \/ j \in DOMAIN s /\ s[j] = (s \o t)[j]
             \/ \E i \in DOMAIN t : t[i] = (s \o t)[j]
  <2>1. CASE j <= Len(s)
    BY <1>1, <2>1
  <2>2. CASE j > Len(s)
    <3>1. j - Len(s) \in DOMAIN t /\ t[j - Len(s)] = (s \o t)[j]
      BY <1>1, <2>2, ConcatProperties
    <3>2. QED
      BY <3>1
  <2>3. QED
    BY <1>1, <2>1, <2>2
<1>3. QED
  BY <1>1, <1>2

\* A sorted list has the manifest finalizer if its set has, and has it first.
LEMMA SortedListFacts ==
  ASSUME NEW S \in SUBSET Finalizers
  PROVE  /\ SortedList(S) \in Seq(Finalizers)
         /\ ManifestFinalizer \in S => ManifestFirst(SortedList(S))
         /\ Has(SortedList(S), ManifestFinalizer) => ManifestFinalizer \in S
<1> DEFINE only(f) == IF f \in S THEN <<f>> ELSE <<>>
<1>1. ASSUME NEW f \in Finalizers
      PROVE  /\ only(f) \in Seq(Finalizers)
             /\ f \in S => Len(only(f)) = 1 /\ only(f)[1] = f
             /\ \A i \in DOMAIN only(f) : f \in S /\ only(f)[i] = f
  <2>1. CASE f \in S
    BY <2>1
  <2>2. CASE f \notin S
    BY <2>2
  <2>3. QED
    BY <2>1, <2>2
<1>2. /\ ManifestFinalizer \in Finalizers /\ ForegroundFinalizer \in Finalizers
      /\ DefaultFinalizer \in Finalizers
  BY DEF Finalizers
<1> HIDE DEF only
<1> DEFINE m == only(ManifestFinalizer)  g == only(ForegroundFinalizer)  d == only(DefaultFinalizer)
<1>3. m \in Seq(Finalizers) /\ g \in Seq(Finalizers) /\ d \in Seq(Finalizers)
  BY <1>1, <1>2
<1>4. SortedList(S) = (m \o g) \o d
  BY DEF SortedList, only
<1>5. SortedList(S) \in Seq(Finalizers)
  BY <1>3, <1>4
<1>6. ASSUME ManifestFinalizer \in S PROVE ManifestFirst(SortedList(S))
  <2>1. Len(m) = 1 /\ m[1] = ManifestFinalizer
    BY <1>1, <1>2, <1>6
  <2>2. m \o g \in Seq(Finalizers) /\ Len(m \o g) > 0 /\ (m \o g)[1] = ManifestFinalizer
    BY <1>3, <2>1, ConcatMember
  <2>3. QED
    BY <1>3, <1>4, <2>2, ConcatMember DEF ManifestFirst
<1>7. ASSUME Has(SortedList(S), ManifestFinalizer) PROVE ManifestFinalizer \in S
  <2>1. PICK i \in DOMAIN SortedList(S) : SortedList(S)[i] = ManifestFinalizer
    BY <1>7 DEF Has
  <2>2. \/ \E j \in DOMAIN (m \o g) : (m \o g)[j] = ManifestFinalizer
        \/ \E j \in DOMAIN d : d[j] = ManifestFinalizer
    BY <1>3, <1>4, <2>1, ConcatMember
  <2>3. \/ \E j \in DOMAIN m : m[j] = ManifestFinalizer
        \/ \E j \in DOMAIN g : g[j] = ManifestFinalizer
        \/ \E j \in DOMAIN d : d[j] = ManifestFinalizer
    BY <1>3, <2>2, ConcatMember
  <2>4. QED
    BY <1>1, <1>2, <2>3 DEF ManifestFinalizer, ForegroundFinalizer, DefaultFinalizer
<1>8. QED
  BY <1>5, <1>6, <1>7

\* Taking off a foreground finalizer leaves the manifest finalizer where it is.
LEMMA WithoutFacts ==
  ASSUME NEW fin \in Seq(Finalizers), NEW i \in DOMAIN fin, fin[i] = ForegroundFinalizer
  PROVE  /\ Without(fin, i) \in Seq(Finalizers)
         /\ ManifestFirst(fin) => ManifestFirst(Without(fin, i))
         /\ Has(fin, ManifestFinalizer) => Has(Without(fin, i), ManifestFinalizer)
<1>1. Without(fin, i) \in [1 .. Len(fin) - 1 -> Finalizers]
  BY DEF Without
<1>2. Len(fin) - 1 \in Nat
  OBVIOUS
<1>3. Without(fin, i) \in Seq(Finalizers) /\ Len(Without(fin, i)) = Len(fin) - 1
  BY <1>1, <1>2
<1>4. ManifestFirst(fin) => ManifestFirst(Without(fin, i))
  BY <1>3 DEF ManifestFirst, Without, ManifestFinalizer, ForegroundFinalizer
<1>5. ASSUME Has(fin, ManifestFinalizer) PROVE Has(Without(fin, i), ManifestFinalizer)
  <2>1. PICK j \in DOMAIN fin : fin[j] = ManifestFinalizer
    BY <1>5 DEF Has
  <2>2. j # i
    BY <2>1 DEF ManifestFinalizer, ForegroundFinalizer
  <2>3. CASE j < i
    BY <2>1, <2>3, <1>3 DEF Has, Without
  <2>4. CASE j > i
    <3>1. j - 1 \in DOMAIN Without(fin, i) /\ Without(fin, i)[j - 1] = fin[j]
      BY <2>4, <1>3 DEF Without
    <3>2. QED BY <3>1, <2>1 DEF Has
  <2>5. QED BY <2>2, <2>3, <2>4
<1>6. QED BY <1>3, <1>4, <1>5

\* Appending a finalizer adds it and moves no other.
LEMMA AppendFacts ==
  ASSUME NEW fin \in Seq(Finalizers), NEW f \in Finalizers
  PROVE  /\ Append(fin, f) \in Seq(Finalizers)
         /\ Len(Append(fin, f)) > 0
         /\ ManifestFirst(fin) => ManifestFirst(Append(fin, f))
         /\ Has(fin, ManifestFinalizer) => Has(Append(fin, f), ManifestFinalizer)
         /\ Has(Append(fin, f), f)
<1>1. Append(fin, f) \in Seq(Finalizers) /\ Len(Append(fin, f)) = Len(fin) + 1
  OBVIOUS
<1>2. \A i \in DOMAIN fin : i \in DOMAIN Append(fin, f) /\ Append(fin, f)[i] = fin[i]
  OBVIOUS
<1>3. Len(fin) + 1 \in DOMAIN Append(fin, f) /\ Append(fin, f)[Len(fin) + 1] = f
  OBVIOUS
<1>4. QED
  BY <1>1, <1>2, <1>3 DEF ManifestFirst, Has

\* The zero KnativeServing and what is left of a removed one are objects.
LEMMA EmptyTyped ==
  NoStatus \in Statuses /\ Empty \in Objects /\ \A i, v \in Nat : Gone(i, v) \in Objects
<1>1. NoStatus \in Statuses
  BY DEF NoStatus, Statuses, NoConditions, Conditions, ConditionStatus, Versions
<1>2. Empty \in Objects
  BY <1>1 DEF Empty, Objects, Phases, Specs
<1>3. QED
  BY <1>1, <1>2 DEF Gone, Empty, Objects, Phases, Specs

\* What the API server makes of an object is one.
LEMMA CommittedTyped ==
  ASSUME NEW o \in Objects
  PROVE  Committed(o) \in Objects /\ Bumped(o) \in Objects
<1>1. o.inc \in Nat /\ o.rv + 1 \in Nat
  BY DEF Objects
<1>2. Gone(o.inc, o.rv + 1) \in Objects
  BY <1>1, EmptyTyped
<1>3. Bumped(o) \in Objects
  BY <1>1 DEF Bumped, Objects
<1>4. QED
  BY <1>2, <1>3 DEF Committed

\* The initial states have their types.
LEMMA InitTyped == Init => TypeOK /\ TodoOK
<1> SUFFICES ASSUME Init PROVE TypeOK /\ TodoOK
  OBVIOUS
<1>1. LegacyObject \in Objects
  <2>1. LegacyStatus \in Statuses
    BY DEF LegacyStatus, Statuses, Conditions, ConditionStatus, Versions
  <2>2. <<ManifestFinalizer>> \in Seq(Finalizers)
    BY DEF Finalizers
  <2>3. QED
    BY <2>1, <2>2 DEF LegacyObject, Objects, Phases, Specs
<1>2. api \in [Keys -> Objects]
  BY <1>1, EmptyTyped DEF Init
<1>3. queue \subseteq Keys /\ cluster \subseteq ClusterResources
  BY KeysAssumption DEF Init
<1>4. dep \in [Keys -> [state : DepStates, owner : Nat]]
  BY DEF Init, DepStates, NoOwner
<1>5. /\ pc \in [Keys -> Stages] /\ orig \in [Keys -> Objects] /\ res \in [Keys -> Objects]
      /\ err \in [Keys -> BOOLEAN] /\ att \in [Keys -> Nat]
  BY EmptyTyped DEF Init, Stages
<1>6. watch \in [Keys -> Seq(Objects)] /\ todo \in [Keys -> Seq(Resources)]
  BY DEF Init
<1>7. servings \in [ServingKeys -> Int] /\ used \in [DOMAIN Limit -> Nat]
  BY DEF Init, NotServed
<1>8. TodoOK
  BY DEF Init, TodoOK
<1>9. QED
  BY <1>2, <1>3, <1>4, <1>5, <1>6, <1>7, <1>8 DEF TypeOK, Init

\* Using up a bound keeps the counts natural numbers.
LEMMA SpendTyped ==
  ASSUME TypeOK, NEW b \in DOMAIN Limit, Spend(b)
  PROVE  used' \in [DOMAIN Limit -> Nat]
  BY DEF TypeOK, Spend

\* The names of the bounds.
LEMMA BudgetNames == DOMAIN Limit = {"edit", "fault", "restart", "flip"}
  BY DEF Limit

\* A request keeps the types of what it may change.
LEMMA WriteTyped ==
  ASSUME TypeOK, NEW k \in Keys, NEW rv, NEW o \in Objects, NEW reply, Write(k, rv, o, reply)
  PROVE  /\ api' \in [Keys -> Objects] /\ watch' \in [Keys -> Seq(Objects)]
         /\ used' \in [DOMAIN Limit -> Nat]
<1>1. Committed(o) \in Objects
  BY CommittedTyped
<1>2. Store(k, Committed(o)) =>
        api' \in [Keys -> Objects] /\ watch' \in [Keys -> Seq(Objects)]
  BY <1>1 DEF Store, TypeOK
<1>3. Spend("fault") => used' \in [DOMAIN Limit -> Nat]
  BY SpendTyped, BudgetNames
<1>4. QED
  BY <1>2, <1>3 DEF Write, TypeOK

\* So does the patch of updateFinalizersFiltered, with its reply.
LEMMA UpdateFinalizersTyped ==
  ASSUME TypeOK, NEW k \in Keys, NEW r \in Objects, UpdateFinalizersFiltered(k, r)
  PROVE  /\ api' \in [Keys -> Objects] /\ watch' \in [Keys -> Seq(Objects)]
         /\ used' \in [DOMAIN Limit -> Nat] /\ res' \in [Keys -> Objects]
<1> DEFINE desired == Has(r.fin, DefaultFinalizer)
           fin == IF desired THEN Append(cache[k].fin, DefaultFinalizer)
                  ELSE SortedList(SetOf(cache[k].fin) \ {DefaultFinalizer})
           patched == [api[k] EXCEPT !.fin = fin]
<1>1. cache[k] \in Objects /\ api[k] \in Objects
  BY DEF TypeOK
<1>2. fin \in Seq(Finalizers)
  <2>1. SetOf(cache[k].fin) \ {DefaultFinalizer} \in SUBSET Finalizers
    BY DEF SetOf
  <2>2. cache[k].fin \in Seq(Finalizers) /\ DefaultFinalizer \in Finalizers
    BY <1>1 DEF Objects, Finalizers
  <2>3. QED
    BY <2>1, <2>2, SortedListFacts, AppendFacts
<1>3. patched \in Objects
  BY <1>1, <1>2 DEF Objects
<1> HIDE DEF fin, patched
<1>4. CASE UNCHANGED <<api, watch, used>> /\ (SetRes(k, r) \/ SetRes(k, Empty))
  BY <1>4, EmptyTyped DEF TypeOK, SetRes
<1>5. CASE \E reply \in {"ok", "conflict", "notfound", "error"} :
             /\ Write(k, cache[k].rv, patched, reply)
             /\ SetRes(k, IF reply = "ok" THEN Bumped(patched) ELSE Empty)
  <2>1. PICK reply \in {"ok", "conflict", "notfound", "error"} :
          /\ Write(k, cache[k].rv, patched, reply)
          /\ SetRes(k, IF reply = "ok" THEN Bumped(patched) ELSE Empty)
    BY <1>5
  <2>2. res' \in [Keys -> Objects]
    BY <2>1, <1>3, EmptyTyped, CommittedTyped DEF TypeOK, SetRes
  <2>3. QED
    BY <2>1, <2>2, <1>3, WriteTyped
<1>6. QED
  BY <1>4, <1>5 DEF UpdateFinalizersFiltered, fin, patched

\* A worker that returns leaves typed values behind.
LEMMA DoneTyped ==
  ASSUME TypeOK, NEW k \in Keys, NEW failed \in BOOLEAN, Done(k, failed)
  PROVE  /\ queue' \subseteq Keys /\ pc' \in [Keys -> Stages]
         /\ orig' \in [Keys -> Objects] /\ res' \in [Keys -> Objects]
         /\ todo' \in [Keys -> Seq(Resources)]
         /\ err' \in [Keys -> BOOLEAN] /\ att' \in [Keys -> Nat]
         /\ TodoOK => TodoOK'
<1>1. orig' \in [Keys -> Objects] /\ res' \in [Keys -> Objects]
  BY EmptyTyped DEF TypeOK, Done, SetRes
<1>2. queue' \subseteq Keys
  BY DEF TypeOK, Done, Requeue
<1>3. /\ pc' \in [Keys -> Stages] /\ todo' \in [Keys -> Seq(Resources)]
      /\ att' \in [Keys -> Nat]
  BY DEF TypeOK, Done, Goto, Stages
<1>4. err' \in [Keys -> BOOLEAN]
  BY Zenon DEF TypeOK, Done, SetErr
<1>5. TodoOK => TodoOK'
  BY DEF TypeOK, TodoOK, Done, Goto
<1>6. QED
  BY <1>1, <1>2, <1>3, <1>4, <1>5

\* A stored object and its change have their types.
LEMMA StoreTyped ==
  ASSUME TypeOK, NEW k \in Keys, NEW o \in Objects, Store(k, o)
  PROVE  api' \in [Keys -> Objects] /\ watch' \in [Keys -> Seq(Objects)]
  BY DEF TypeOK, Store

\* What users do keeps the types.
LEMMA UserTyped ==
  ASSUME TypeOK, TodoOK, NEW k \in Keys,
         \/ \E spec \in Specs : CreateCR(k, spec) \/ EditSpec(k, spec)
         \/ \E foreground \in BOOLEAN : DeleteCR(k, foreground)
  PROVE  TypeOK' /\ TodoOK'
<1>1. api[k] \in Objects
  BY DEF TypeOK
<1>2. ASSUME NEW spec \in Specs, CreateCR(k, spec) PROVE TypeOK' /\ TodoOK'
  <2> DEFINE o == Created(api[k].inc + 1, api[k].rv + 1, spec)
  <2>1. o \in Objects
    <3>1. api[k].inc + 1 \in Nat /\ api[k].rv + 1 \in Nat
      BY <1>1 DEF Objects
    <3>2. <<>> \in Seq(Finalizers) /\ NoStatus \in Statuses /\ "live" \in Phases
      BY EmptyTyped DEF Phases
    <3>3. QED
      BY <3>1, <3>2 DEF Created, Objects
  <2>2. Store(k, o)
    BY <1>2 DEF CreateCR
  <2> HIDE DEF o
  <2>3. QED
    BY <1>2, <2>1, <2>2, StoreTyped DEF CreateCR, worker, manifest, TypeOK, TodoOK
<1>3. ASSUME NEW spec \in Specs, EditSpec(k, spec) PROVE TypeOK' /\ TodoOK'
  <2> DEFINE o == Edited(api[k], spec)
  <2>1. o \in Objects
    BY <1>1 DEF Edited, Objects
  <2>2. Store(k, Committed(o)) /\ Spend("edit")
    BY <1>3 DEF EditSpec
  <2> HIDE DEF o
  <2>3. Committed(o) \in Objects
    BY <2>1, CommittedTyped
  <2>4. QED
    BY <1>3, <2>2, <2>3, StoreTyped, SpendTyped, BudgetNames
       DEF EditSpec, worker, manifest, TypeOK, TodoOK
<1>4. ASSUME NEW foreground \in BOOLEAN, DeleteCR(k, foreground) PROVE TypeOK' /\ TodoOK'
  <2> DEFINE fin == IF foreground THEN Append(api[k].fin, ForegroundFinalizer) ELSE api[k].fin
             o == Marked(api[k], fin)
  <2>1. fin \in Seq(Finalizers)
    BY <1>1, AppendFacts DEF Objects, Finalizers
  <2>2. o \in Objects
    BY <1>1, <2>1 DEF Marked, Objects, Phases
  <2>3. Store(k, Committed(o))
    BY <1>4 DEF DeleteCR
  <2> HIDE DEF o
  <2>4. Committed(o) \in Objects
    BY <2>2, CommittedTyped
  <2>5. QED
    BY <1>4, <2>3, <2>4, StoreTyped DEF DeleteCR, worker, manifest, TypeOK, TodoOK
<1>5. QED
  BY <1>2, <1>3, <1>4

\* What deployments and the garbage collector do keeps the types.
LEMMA DeploymentTyped ==
  ASSUME TypeOK, TodoOK, NEW k \in Keys,
         \/ DeploymentUp(k) \/ CollectDeployment(k) \/ ForegroundDone(k)
         \/ \E state \in {"absent", "down"} : DeploymentLost(k, state)
  PROVE  TypeOK' /\ TodoOK'
<1>1. ASSUME NEW state \in DepStates, SetDeployment(k, state)
      PROVE  dep' \in [Keys -> [state : DepStates, owner : Nat]] /\ queue' \subseteq Keys
  BY <1>1 DEF SetDeployment, EnqueueControllerOf, TypeOK
<1>2. CASE DeploymentUp(k)
  BY <1>2, <1>1 DEF DeploymentUp, DepStates, objects, worker, TypeOK, TodoOK
<1>3. CASE CollectDeployment(k)
  BY <1>3, <1>1 DEF CollectDeployment, DepStates, objects, worker, TypeOK, TodoOK
<1>4. ASSUME NEW state \in {"absent", "down"}, DeploymentLost(k, state) PROVE TypeOK' /\ TodoOK'
  <2>1. used' \in [DOMAIN Limit -> Nat]
    BY <1>4, SpendTyped, BudgetNames DEF DeploymentLost
  <2>2. QED
    BY <1>4, <1>1, <2>1 DEF DeploymentLost, DepStates, objects, worker, TypeOK, TodoOK
<1>5. CASE ForegroundDone(k)
  <2>1. PICK i \in DOMAIN api[k].fin :
          /\ api[k].fin[i] = ForegroundFinalizer
          /\ Store(k, Committed([api[k] EXCEPT !.fin = Without(@, i)]))
    BY <1>5 DEF ForegroundDone
  <2> DEFINE o == [api[k] EXCEPT !.fin = Without(@, i)]
  <2>2. api[k] \in Objects /\ api[k].fin \in Seq(Finalizers)
    BY DEF TypeOK, Objects
  <2>3. Without(api[k].fin, i) \in Seq(Finalizers)
    BY <2>1, <2>2, WithoutFacts
  <2>4. o \in Objects
    BY <2>2, <2>3 DEF Objects
  <2> HIDE DEF o
  <2>5. Committed(o) \in Objects
    BY <2>4, CommittedTyped
  <2>6. Store(k, Committed(o))
    BY <2>1 DEF o
  <2>7. QED
    BY <1>5, <2>5, <2>6, StoreTyped DEF ForegroundDone, worker, manifest, TypeOK, TodoOK
<1>6. QED
  BY <1>2, <1>3, <1>4, <1>5

\* What the informer does keeps the types.
LEMMA InformerTyped ==
  ASSUME TypeOK, TodoOK, NEW k \in Keys, Informer(k)
  PROVE  TypeOK' /\ TodoOK'
<1>1. CASE WatchEvent(k)
  <2>1. watch[k] \in Seq(Objects) /\ Len(watch[k]) > 0
    BY <1>1 DEF WatchEvent, TypeOK
  <2>2. Head(watch[k]) \in Objects /\ Tail(watch[k]) \in Seq(Objects)
    BY <2>1
  <2>3. cache' \in [Keys -> Objects] /\ watch' \in [Keys -> Seq(Objects)]
    BY <1>1, <2>2 DEF WatchEvent, TypeOK
  <2>4. QED
    BY <1>1, <2>3 DEF WatchEvent, worker, manifest, TypeOK, TodoOK
<1>2. CASE Relist(k)
  <2>1. cache' \in [Keys -> Objects] /\ watch' \in [Keys -> Seq(Objects)]
    BY <1>2 DEF Relist, TypeOK
  <2>2. QED
    BY <1>2, <2>1 DEF Relist, worker, manifest, TypeOK, TodoOK
<1>3. CASE Resync(k)
  BY <1>3 DEF Resync, objects, worker, manifest, TypeOK, TodoOK
<1>4. QED
  BY <1>1, <1>2, <1>3 DEF Informer

\* A restart sets everything that is in memory to typed values.
LEMMA RestartTyped ==
  ASSUME TypeOK, Restart
  PROVE  TypeOK' /\ TodoOK'
<1>1. used' \in [DOMAIN Limit -> Nat]
  BY SpendTyped, BudgetNames DEF Restart
<1>2. /\ cache' \in [Keys -> Objects] /\ orig' \in [Keys -> Objects] /\ res' \in [Keys -> Objects]
      /\ watch' \in [Keys -> Seq(Objects)] /\ todo' \in [Keys -> Seq(Resources)]
  BY EmptyTyped DEF Restart, TypeOK
<1>3. /\ queue' \subseteq Keys /\ pc' \in [Keys -> Stages] /\ att' \in [Keys -> Nat]
      /\ servings' \in [ServingKeys -> Int] /\ TodoOK'
  BY DEF Restart, Stages, NotServed, TodoOK
<1>4. err' \in [Keys -> BOOLEAN]
  BY DEF Restart
<1>5. QED
  BY <1>1, <1>2, <1>3, <1>4 DEF Restart, manifest, TypeOK

\* A worker that takes a key has a typed copy.
LEMMA ReconcileTyped ==
  ASSUME TypeOK, TodoOK, NEW k \in Keys, Reconcile(k)
  PROVE  TypeOK' /\ TodoOK'
<1>1. pc' \in [Keys -> Stages] /\ orig' \in [Keys -> Objects] /\ res' \in [Keys -> Objects]
  <2>1. CASE Exists(cache[k])
    <3>1. PICK stage \in {"setFinalizer", "finalizeKind"} : Goto(k, stage)
      BY <2>1 DEF Reconcile
    <3>2. orig' = [orig EXCEPT ![k] = cache[k]] /\ res' = [res EXCEPT ![k] = cache[k]]
      BY <2>1 DEF Reconcile, SetRes
    <3>3. QED
      BY <3>1, <3>2 DEF TypeOK, Goto, Stages
  <2>2. CASE ~Exists(cache[k])
    BY <2>2 DEF Reconcile, TypeOK
  <2>3. QED
    BY <2>1, <2>2
<1>2. TodoOK'
  BY DEF Reconcile, TypeOK, TodoOK, Goto
<1>3. QED
  BY <1>1, <1>2 DEF Reconcile, objects, manifest, TypeOK

\* setFinalizerIfFinalizer and clearFinalizer keep the types.
LEMMA FinalizersTyped ==
  ASSUME TypeOK, TodoOK, NEW k \in Keys, SetFinalizer(k) \/ ClearFinalizer(k)
  PROVE  TypeOK' /\ TodoOK'
<1>1. res[k] \in Objects
  BY DEF TypeOK
<1>2. ASSUME NEW S \in SUBSET Finalizers
      PROVE  [res[k] EXCEPT !.fin = SortedList(S)] \in Objects
  BY <1>1, SortedListFacts DEF Objects
<1>3. CASE SetFinalizer(k)
  <2> DEFINE S == SetOf(res[k].fin) \cup {DefaultFinalizer}
             r == [res[k] EXCEPT !.fin = SortedList(S)]
  <2>1. S \in SUBSET Finalizers
    BY DEF SetOf, Finalizers
  <2>2. r \in Objects
    BY <1>2, <2>1
  <2>3. UpdateFinalizersFiltered(k, r)
    BY <1>3 DEF SetFinalizer
  <2>4. pc' \in [Keys -> Stages] /\ TodoOK'
    BY <1>3 DEF SetFinalizer, Goto, Stages, TypeOK, TodoOK
  <2> HIDE DEF r
  <2>5. QED
    BY <1>3, <2>2, <2>3, <2>4, UpdateFinalizersTyped DEF SetFinalizer, manifest, TypeOK
<1>4. CASE ClearFinalizer(k)
  <2> DEFINE S == SetOf(res[k].fin) \ GivenUp(err[k])
             r == [res[k] EXCEPT !.fin = SortedList(S)]
  <2>1. S \in SUBSET Finalizers
    BY DEF SetOf, Finalizers
  <2>2. r \in Objects
    BY <1>2, <2>1
  <2>3. UpdateFinalizersFiltered(k, r)
    BY <1>4 DEF ClearFinalizer
  <2>4. pc' \in [Keys -> Stages] /\ TodoOK'
    BY <1>4 DEF ClearFinalizer, Goto, Stages, TypeOK, TodoOK
  <2> HIDE DEF r
  <2>5. QED
    BY <1>4, <2>2, <2>3, <2>4, UpdateFinalizersTyped DEF ClearFinalizer, manifest, TypeOK
<1>5. QED
  BY <1>3, <1>4

\* A worker that sets the status, or the conditions, of its copy.
LEMMA StatusTyped ==
  ASSUME NEW o \in Objects
  PROVE  /\ \A s \in Statuses : [o EXCEPT !.status = s] \in Objects
         /\ \A c \in Conditions : [o EXCEPT !.status.cond = c] \in Objects
         /\ o.status \in Statuses /\ o.status.cond \in Conditions
         /\ \A c \in Conditions : [o.status EXCEPT !.cond = c] \in Statuses
<1>1. o.status \in Statuses /\ o.status.cond \in Conditions
  BY DEF Objects, Statuses
<1>2. \A c \in Conditions : [o.status EXCEPT !.cond = c] \in Statuses
  BY <1>1 DEF Statuses
<1>3. \A s \in Statuses : [o EXCEPT !.status = s] \in Objects
  BY DEF Objects
<1>4. \A c \in Conditions : [o EXCEPT !.status.cond = c] \in Objects
  BY <1>2, <1>3 DEF Objects
<1>5. QED
  BY <1>1, <1>2, <1>3, <1>4

\* ReconcileKind keeps the types; a generation is an integer, as servings holds.
LEMMA ReconcileKindTyped ==
  ASSUME TypeOK, TodoOK, NEW k \in Keys, ReconcileKind(k)
  PROVE  TypeOK' /\ TodoOK'
<1> DEFINE c == MarkInstallFailed(res[k].status.cond)
<1>1. res[k] \in Objects /\ res[k].gen \in Nat
  BY DEF TypeOK, Objects
<1>2. c \in Conditions
  BY <1>1, StatusTyped, ConditionsTyped
<1>3. res' \in [Keys -> Objects]
  <2>1. res' = res \/ SetCond(k, c)
    BY DEF ReconcileKind
  <2>2. [res[k] EXCEPT !.status.cond = c] \in Objects
    BY <1>1, <1>2, StatusTyped
  <2>3. QED
    BY <2>1, <2>2 DEF SetCond, SetRes, TypeOK
<1>4. servings' \in [ServingKeys -> Int]
  <2>1. servings' = servings \/ servings' = [servings EXCEPT ![KeyOf(k)] = res[k].gen]
    BY DEF ReconcileKind
  <2>2. QED
    BY <1>1, <2>1 DEF TypeOK
<1>5. pc' \in [Keys -> Stages] /\ TodoOK'
  BY DEF ReconcileKind, Goto, Stages, TypeOK, TodoOK
<1>6. err' \in [Keys -> BOOLEAN]
  BY DEF ReconcileKind, SetErr, TypeOK
<1>7. QED
  BY <1>3, <1>4, <1>5, <1>6 DEF ReconcileKind, objects, manifest, TypeOK

\* ensureFinalizer keeps the types.
LEMMA EnsureFinalizerTyped ==
  ASSUME TypeOK, TodoOK, NEW k \in Keys, EnsureFinalizer(k)
  PROVE  TypeOK' /\ TodoOK'
<1>1. res[k] \in Objects /\ api[k] \in Objects /\ res[k].fin \in Seq(Finalizers)
  BY DEF TypeOK, Objects
<1>2. CASE ManifestAttached(res[k].fin)
  BY <1>2 DEF EnsureFinalizer, Goto, Stages, manifest, TypeOK, TodoOK
<1>3. CASE ~ManifestAttached(res[k].fin)
  <2> DEFINE fin == Append(res[k].fin, ManifestFinalizer)
             o == [api[k] EXCEPT !.fin = fin]
  <2>1. PICK reply \in {"ok", "conflict", "notfound", "error"} :
          /\ (UNCHANGED <<api, watch, used>> \/ Write(k, res[k].rv, o, reply))
          /\ SetErr(k, reply # "ok")
          /\ Goto(k, IF reply = "ok" THEN "initStatus" ELSE "syncStatus")
    BY <1>3 DEF EnsureFinalizer
  <2>2. fin \in Seq(Finalizers)
    BY <1>1, AppendFacts DEF Finalizers
  <2>3. o \in Objects /\ [res[k] EXCEPT !.fin = fin] \in Objects
    BY <1>1, <2>2 DEF Objects
  <2>4. res' \in [Keys -> Objects]
    BY <1>3, <2>3 DEF EnsureFinalizer, SetRes, TypeOK
  <2>5. pc' \in [Keys -> Stages] /\ err' \in [Keys -> BOOLEAN]
    BY <2>1 DEF Goto, SetErr, Stages, TypeOK
  <2>6. TodoOK'
    BY <2>1, <1>3 DEF EnsureFinalizer, Goto, TypeOK, TodoOK
  <2> HIDE DEF o
  <2>7. /\ api' \in [Keys -> Objects] /\ watch' \in [Keys -> Seq(Objects)]
        /\ used' \in [DOMAIN Limit -> Nat]
    BY <2>1, <2>3, WriteTyped DEF TypeOK
  <2>8. QED
    BY <1>3, <2>4, <2>5, <2>6, <2>7 DEF EnsureFinalizer, manifest, TypeOK
<1>4. QED
  BY <1>2, <1>3

\* The orders in which resources are applied and deleted are lists of resources.
LEMMA OrdersTyped ==
  /\ ApplyOrder \in Seq(Resources) /\ Len(ApplyOrder) > 0
  /\ DeleteOrder \in Seq(Resources) /\ Len(DeleteOrder) > 0
  BY DEF ApplyOrder, DeleteOrder, Resources

\* initStatus keeps the types, and starts install with work to do.
LEMMA InitStatusTyped ==
  ASSUME TypeOK, TodoOK, NEW k \in Keys, InitStatus(k)
  PROVE  TypeOK' /\ TodoOK'
<1>1. res[k] \in Objects /\ api[k] \in Objects
  BY DEF TypeOK
<1>2. CASE res[k].status.cond # NoConditions
  <2>1. /\ pc' = [pc EXCEPT ![k] = "install"] /\ todo' = [todo EXCEPT ![k] = ApplyOrder]
        /\ UNCHANGED <<api, watch, res, err, used>>
        /\ UNCHANGED <<cache, queue, orig, att, servings, manifest>>
    BY <1>2 DEF InitStatus, Goto
  <2>2. pc' \in [Keys -> Stages]
    BY <2>1 DEF Stages, TypeOK
  <2>3. todo' \in [Keys -> Seq(Resources)]
    BY <2>1, OrdersTyped DEF TypeOK
  <2>4. TypeOK'
    BY <2>1, <2>2, <2>3 DEF manifest, TypeOK
  <2>5. TodoOK'
    BY <2>1, OrdersTyped DEF TypeOK, TodoOK
  <2>6. QED
    BY <2>4, <2>5
<1>3. CASE res[k].status.cond = NoConditions
  <2> DEFINE status == [res[k].status EXCEPT !.cond = InitializeConditions(@)]
             stored == [api[k] EXCEPT !.status = status]
             kept == [res[k] EXCEPT !.status = status]
  <2>1. PICK reply \in {"ok", "conflict", "notfound", "error"} :
          /\ Write(k, res[k].rv, stored, reply)
          /\ SetErr(k, reply # "ok")
          /\ IF reply = "ok"
             THEN /\ SetRes(k, Bumped(stored))
                  /\ Goto(k, "install") /\ todo' = [todo EXCEPT ![k] = ApplyOrder]
             ELSE /\ SetRes(k, kept)
                  /\ Goto(k, "syncStatus") /\ UNCHANGED todo
    BY <1>3 DEF InitStatus
  <2>2. status \in Statuses
    BY <1>1, StatusTyped, ConditionsTyped
  <2>3. stored \in Objects /\ kept \in Objects
    BY <1>1, <2>2, StatusTyped
  <2> HIDE DEF stored, kept
  <2>4. res' \in [Keys -> Objects]
    <3>1. Bumped(stored) \in Objects
      BY <2>3, CommittedTyped
    <3>2. SetRes(k, Bumped(stored)) \/ SetRes(k, kept)
      BY <2>1
    <3>3. QED
      BY <2>3, <3>1, <3>2 DEF SetRes, TypeOK
  <2>5. pc' \in [Keys -> Stages] /\ err' \in [Keys -> BOOLEAN]
    BY <2>1 DEF Goto, SetErr, Stages, TypeOK
  <2>6. todo' \in [Keys -> Seq(Resources)] /\ TodoOK'
    BY <2>1, OrdersTyped DEF Goto, TypeOK, TodoOK
  <2>7. /\ api' \in [Keys -> Objects] /\ watch' \in [Keys -> Seq(Objects)]
        /\ used' \in [DOMAIN Limit -> Nat]
    BY <2>1, <2>3, WriteTyped
  <2>8. QED
    BY <2>4, <2>5, <2>6, <2>7 DEF InitStatus, manifest, TypeOK
<1>4. QED
  BY <1>2, <1>3

\* Applying one resource keeps the types of what is in the cluster.
LEMMA ApplyTyped ==
  ASSUME TypeOK, NEW k \in Keys, NEW r \in Resources, ApplyResource(k, r)
  PROVE  /\ cluster' \subseteq ClusterResources /\ queue' \subseteq Keys
         /\ dep' \in [Keys -> [state : DepStates, owner : Nat]]
<1>1. res[k].inc \in Nat /\ dep[k].state \in DepStates
  BY DEF TypeOK, Objects
<1>2. CASE r = "deployment"
  <2> DEFINE d == [state |-> IF dep[k].state = "absent" THEN "down" ELSE dep[k].state,
                   owner |-> res[k].inc]
  <2>1. dep' = [dep EXCEPT ![k] = d] /\ UNCHANGED cluster /\ queue' \subseteq queue \cup {k}
    BY <1>2 DEF ApplyResource
  <2>2. d \in [state : DepStates, owner : Nat]
    BY <1>1 DEF DepStates
  <2> HIDE DEF d
  <2>3. QED
    BY <2>1, <2>2 DEF TypeOK
<1>3. CASE r # "deployment"
  BY <1>3 DEF ApplyResource, ClusterResources, TypeOK
<1>4. QED
  BY <1>2, <1>3

\* The next resource of a worker that installs or deletes.
LEMMA TodoTyped ==
  ASSUME TypeOK, TodoOK, NEW k \in Keys, pc[k] \in {"install", "delete"}
  PROVE  /\ Head(todo[k]) \in Resources /\ Tail(todo[k]) \in Seq(Resources)
         /\ Len(todo[k]) > 0 /\ Len(Tail(todo[k])) = Len(todo[k]) - 1
         /\ Len(todo[k]) \in Nat
  BY DEF TypeOK, TodoOK

\* install keeps the types, and leaves the stage with its last resource.
LEMMA InstallTyped ==
  ASSUME TypeOK, TodoOK, NEW k \in Keys, Install(k)
  PROVE  TypeOK' /\ TodoOK'
<1> DEFINE r == Head(todo[k])
<1>1. pc[k] = "install" /\ res[k] \in Objects
  BY DEF Install, At, TypeOK
<1>2. /\ r \in Resources /\ Tail(todo[k]) \in Seq(Resources)
      /\ Len(Tail(todo[k])) = Len(todo[k]) - 1 /\ Len(todo[k]) > 0 /\ Len(todo[k]) \in Nat
  BY <1>1, TodoTyped
<1>3. CASE /\ ApplyResource(k, r)
           /\ todo' = [todo EXCEPT ![k] = Tail(@)]
           /\ IF Len(todo[k]) = 1
              THEN /\ SetRes(k, [res[k] EXCEPT !.status = Installed(@)])
                   /\ Goto(k, "checkDeployments")
              ELSE UNCHANGED <<res, pc>>
           /\ UNCHANGED <<err, used>>
  <2>1. Installed(res[k].status) \in Statuses
    BY <1>1, StatusTyped, ConditionsTyped DEF Installed, Statuses, Versions
  <2>2. [res[k] EXCEPT !.status = Installed(@)] \in Objects
    BY <1>1, <2>1, StatusTyped
  <2>3. res' \in [Keys -> Objects]
    BY <1>3, <2>2 DEF SetRes, TypeOK
  <2>4. todo' \in [Keys -> Seq(Resources)] /\ pc' \in [Keys -> Stages]
    BY <1>2, <1>3 DEF Goto, Stages, TypeOK
  <2>5. TodoOK'
    BY <1>2, <1>3 DEF Goto, TypeOK, TodoOK
  <2>6. QED
    BY <1>2, <1>3, <2>3, <2>4, <2>5, ApplyTyped DEF Install, objects, TypeOK
<1>4. CASE /\ Spend("fault")
           /\ ApplyResource(k, r) \/ UNCHANGED <<manifest, queue>>
           /\ SetCond(k, MarkInstallFailed(res[k].status.cond))
           /\ todo' = [todo EXCEPT ![k] = <<>>]
           /\ SetErr(k, TRUE) /\ Goto(k, "syncStatus")
  <2>1. MarkInstallFailed(res[k].status.cond) \in Conditions
    BY <1>1, StatusTyped, ConditionsTyped
  <2>2. [res[k] EXCEPT !.status.cond = MarkInstallFailed(res[k].status.cond)] \in Objects
    BY <1>1, <2>1, StatusTyped
  <2>3. res' \in [Keys -> Objects]
    BY <1>4, <2>2 DEF SetCond, SetRes, TypeOK
  <2>4. todo' \in [Keys -> Seq(Resources)] /\ pc' \in [Keys -> Stages] /\ TodoOK'
    BY <1>4 DEF Goto, Stages, TypeOK, TodoOK
  <2>5. err' \in [Keys -> BOOLEAN]
    BY <1>4 DEF SetErr, TypeOK
  <2>6. /\ cluster' \subseteq ClusterResources /\ queue' \subseteq Keys
        /\ dep' \in [Keys -> [state : DepStates, owner : Nat]]
    BY <1>2, <1>4, ApplyTyped DEF manifest, TypeOK
  <2>7. used' \in [DOMAIN Limit -> Nat]
    BY <1>4, SpendTyped, BudgetNames
  <2>8. QED
    BY <2>3, <2>4, <2>5, <2>6, <2>7 DEF Install, objects, TypeOK
<1>5. QED
  BY <1>3, <1>4 DEF Install

\* checkDeployments keeps the types.
LEMMA CheckDeploymentsTyped ==
  ASSUME TypeOK, TodoOK, NEW k \in Keys, CheckDeployments(k)
  PROVE  TypeOK' /\ TodoOK'
<1>1. res[k] \in Objects
  BY DEF TypeOK
<1>2. PICK c \in Conditions : SetCond(k, c)
  BY <1>1, StatusTyped, ConditionsTyped DEF CheckDeployments
<1>3. [res[k] EXCEPT !.status.cond = c] \in Objects
  BY <1>1, StatusTyped
<1>4. res' \in [Keys -> Objects]
  BY <1>2, <1>3 DEF SetCond, SetRes, TypeOK
<1>5. used' \in [DOMAIN Limit -> Nat]
  BY SpendTyped, BudgetNames DEF CheckDeployments, TypeOK
<1>6. err' \in [Keys -> BOOLEAN] /\ pc' \in [Keys -> Stages] /\ TodoOK'
  BY DEF CheckDeployments, SetErr, Goto, Stages, TypeOK, TodoOK
<1>7. QED
  BY <1>4, <1>5, <1>6 DEF CheckDeployments, objects, manifest, TypeOK

\* deleteObsoleteResources keeps the types.
LEMMA DeleteObsoleteTyped ==
  ASSUME TypeOK, TodoOK, NEW k \in Keys, DeleteObsoleteResources(k)
  PROVE  TypeOK' /\ TodoOK'
<1>1. used' \in [DOMAIN Limit -> Nat]
  BY SpendTyped, BudgetNames DEF DeleteObsoleteResources, TypeOK
<1>2. cluster' \subseteq ClusterResources
  BY DEF DeleteObsoleteResources, TypeOK
<1>3. err' \in [Keys -> BOOLEAN] /\ pc' \in [Keys -> Stages] /\ TodoOK'
  BY DEF DeleteObsoleteResources, SetErr, Goto, Stages, TypeOK, TodoOK
<1>4. QED
  BY <1>1, <1>2, <1>3 DEF DeleteObsoleteResources, objects, TypeOK

\* FinalizeKind keeps the types, and starts delete with work to do.
LEMMA FinalizeKindTyped ==
  ASSUME TypeOK, TodoOK, NEW k \in Keys, FinalizeKind(k)
  PROVE  TypeOK' /\ TodoOK'
<1>1. servings' \in [ServingKeys -> Int]
  <2>1. NotServed \in Int /\ servings \in [ServingKeys -> Int]
    BY DEF NotServed, TypeOK
  <2>2. servings' = Unserve(servings, k)
    BY DEF FinalizeKind
  <2>3. QED
    BY <2>1, <2>2 DEF Unserve
<1>2. \/ Goto(k, "delete") /\ todo' = [todo EXCEPT ![k] = DeleteOrder]
      \/ Goto(k, "release") /\ UNCHANGED todo
      \/ Goto(k, "clearFinalizer") /\ UNCHANGED todo
  BY DEF FinalizeKind
<1>3. todo' \in [Keys -> Seq(Resources)] /\ pc' \in [Keys -> Stages] /\ TodoOK'
  <2>1. todo' \in [Keys -> Seq(Resources)]
    BY <1>2, OrdersTyped DEF TypeOK
  <2>2. pc' \in [Keys -> Stages]
    BY <1>2 DEF Goto, Stages, TypeOK
  <2>3. TodoOK'
    BY <1>2, OrdersTyped DEF Goto, TypeOK, TodoOK
  <2>4. QED
    BY <2>1, <2>2, <2>3
<1>4. QED
  BY <1>1, <1>3 DEF FinalizeKind, objects, manifest, TypeOK

\* Deleting one resource keeps the types of what is in the cluster.
LEMMA DeleteResourceTyped ==
  ASSUME TypeOK, NEW r \in Resources, DeleteResource(r)
  PROVE  /\ cluster' \subseteq ClusterResources /\ queue' \subseteq Keys
         /\ dep' \in [Keys -> [state : DepStates, owner : Nat]]
<1>1. CASE r = "deployment"
  <2>1. ASSUME NEW j \in Keys
        PROVE  [dep[j] EXCEPT !.state = "absent"] \in [state : DepStates, owner : Nat]
    BY DEF TypeOK, DepStates
  <2>2. dep' \in [Keys -> [state : DepStates, owner : Nat]]
    BY <1>1, <2>1 DEF DeleteResource, EnqueueControllerOf, TypeOK
  <2>3. QED
    BY <1>1, <2>2, KeysAssumption DEF DeleteResource, EnqueueControllerOf, TypeOK
<1>2. CASE r # "deployment"
  BY <1>2 DEF DeleteResource, TypeOK
<1>3. QED
  BY <1>1, <1>2

\* delete keeps the types, and leaves the stage with its last resource.
LEMMA DeleteTyped ==
  ASSUME TypeOK, TodoOK, NEW k \in Keys, Delete(k)
  PROVE  TypeOK' /\ TodoOK'
<1> DEFINE r == Head(todo[k])
<1>1. /\ r \in Resources /\ Tail(todo[k]) \in Seq(Resources)
      /\ Len(Tail(todo[k])) = Len(todo[k]) - 1 /\ Len(todo[k]) > 0 /\ Len(todo[k]) \in Nat
  BY TodoTyped DEF Delete, At
<1>2. CASE /\ DeleteResource(r)
           /\ todo' = [todo EXCEPT ![k] = Tail(@)]
           /\ IF Len(todo[k]) = 1 THEN Goto(k, "release") ELSE UNCHANGED pc
           /\ UNCHANGED <<err, used>>
  <2>1. todo' \in [Keys -> Seq(Resources)] /\ pc' \in [Keys -> Stages]
    BY <1>1, <1>2 DEF Goto, Stages, TypeOK
  <2>2. TodoOK'
    BY <1>1, <1>2 DEF Goto, TypeOK, TodoOK
  <2>3. QED
    BY <1>1, <1>2, <2>1, <2>2, DeleteResourceTyped DEF Delete, objects, TypeOK
<1>3. CASE /\ Spend("fault")
           /\ DeleteResource(r) \/ UNCHANGED <<manifest, queue>>
           /\ todo' = [todo EXCEPT ![k] = <<>>]
           /\ SetErr(k, TRUE) /\ Goto(k, "clearFinalizer")
  <2>1. todo' \in [Keys -> Seq(Resources)] /\ pc' \in [Keys -> Stages] /\ TodoOK'
    BY <1>3 DEF Goto, Stages, TypeOK, TodoOK
  <2>2. err' \in [Keys -> BOOLEAN]
    BY <1>3 DEF SetErr, TypeOK
  <2>3. /\ cluster' \subseteq ClusterResources /\ queue' \subseteq Keys
        /\ dep' \in [Keys -> [state : DepStates, owner : Nat]]
    BY <1>1, <1>3, DeleteResourceTyped DEF manifest, TypeOK
  <2>4. used' \in [DOMAIN Limit -> Nat]
    BY <1>3, SpendTyped, BudgetNames
  <2>5. QED
    BY <2>1, <2>2, <2>3, <2>4 DEF Delete, objects, TypeOK
<1>4. QED
  BY <1>2, <1>3 DEF Delete

\* The refetch in delete keeps the types, as the cached object has a finalizer to
\* take off.
LEMMA ReleaseTyped ==
  ASSUME TypeOK, TodoOK, RefetchSafe, NEW k \in Keys, Release(k)
  PROVE  TypeOK' /\ TodoOK'
<1>1. cache[k] \in Objects /\ api[k] \in Objects
  BY DEF TypeOK
<1>2. pc' \in [Keys -> Stages] /\ TodoOK'
  BY DEF Release, Goto, Stages, TypeOK, TodoOK
<1>3. CASE ~Exists(cache[k]) /\ SetErr(k, TRUE) /\ UNCHANGED <<objects, used>>
  <2>1. err' \in [Keys -> BOOLEAN]
    BY <1>3 DEF SetErr, TypeOK
  <2>2. QED
    BY <1>2, <1>3, <2>1 DEF Release, objects, manifest, TypeOK
<1>4. CASE Exists(cache[k])
  <2> DEFINE fin == Tail(cache[k].fin)
             stored == [api[k] EXCEPT !.fin = fin]
  <2>1. /\ cache' = [cache EXCEPT ![k].fin = fin]
        /\ \E reply \in {"ok", "conflict", "notfound", "error"} :
             Write(k, cache[k].rv, stored, reply) /\ SetErr(k, reply # "ok")
    BY <1>4 DEF Release
  <2>2. fin \in Seq(Finalizers)
    <3>1. cache[k].fin \in Seq(Finalizers) /\ Len(cache[k].fin) > 0
      BY <1>1, <1>4 DEF Release, At, RefetchSafe, Objects
    <3>2. QED
      BY <3>1
  <2>3. stored \in Objects /\ [cache[k] EXCEPT !.fin = fin] \in Objects
    BY <1>1, <2>2 DEF Objects
  <2>4. cache' \in [Keys -> Objects]
    BY <2>1, <2>3 DEF TypeOK
  <2> HIDE DEF stored
  <2>5. /\ api' \in [Keys -> Objects] /\ watch' \in [Keys -> Seq(Objects)]
        /\ used' \in [DOMAIN Limit -> Nat]
    BY <2>1, <2>3, WriteTyped
  <2>6. err' \in [Keys -> BOOLEAN]
    BY <2>1 DEF SetErr, TypeOK
  <2>7. QED
    BY <1>2, <2>4, <2>5, <2>6 DEF Release, manifest, TypeOK
<1>5. QED
  BY <1>3, <1>4 DEF Release

\* updateStatus keeps the types.
LEMMA SyncStatusTyped ==
  ASSUME TypeOK, TodoOK, NEW k \in Keys, SyncStatus(k)
  PROVE  TypeOK' /\ TodoOK'
<1> DEFINE stored == [api[k] EXCEPT !.status = res[k].status]
<1>1. /\ api[k] \in Objects /\ res[k] \in Objects /\ err[k] \in BOOLEAN
      /\ att[k] \in Nat
  BY DEF TypeOK
<1>2. stored \in Objects
  BY <1>1, StatusTyped
<1> HIDE DEF stored
<1>3. CASE Done(k, err[k]) /\ UNCHANGED <<api, watch, used>>
  BY <1>1, <1>3, DoneTyped DEF SyncStatus, manifest, TypeOK
<1>4. CASE \E reply \in {"ok", "conflict", "notfound", "error"} :
             /\ Write(k, orig[k].rv, stored, reply)
             /\ IF reply = "conflict" /\ att[k] + 1 < RetrySteps
                THEN /\ Goto(k, "getStatus")
                     /\ att' = [att EXCEPT ![k] = @ + 1]
                     /\ UNCHANGED <<queue, orig, res, todo, err>>
                ELSE Done(k, err[k] \/ reply # "ok")
  <2>1. /\ api' \in [Keys -> Objects] /\ watch' \in [Keys -> Seq(Objects)]
        /\ used' \in [DOMAIN Limit -> Nat]
    BY <1>2, <1>4, WriteTyped
  <2>2. PICK failed \in BOOLEAN :
          \/ Goto(k, "getStatus") /\ att' = [att EXCEPT ![k] = @ + 1]
             /\ UNCHANGED <<queue, orig, res, todo, err>>
          \/ Done(k, failed)
    BY <1>4
  <2>3. CASE Goto(k, "getStatus") /\ att' = [att EXCEPT ![k] = @ + 1]
             /\ UNCHANGED <<queue, orig, res, todo, err>>
    <3>1. att' \in [Keys -> Nat]
      BY <1>1, <2>3 DEF TypeOK
    <3>2. pc' \in [Keys -> Stages] /\ TodoOK'
      BY <2>3 DEF Goto, Stages, TypeOK, TodoOK
    <3>3. QED
      BY <2>1, <2>3, <3>1, <3>2 DEF SyncStatus, manifest, TypeOK
  <2>4. CASE Done(k, failed)
    BY <2>1, <2>4, DoneTyped DEF SyncStatus, manifest, TypeOK
  <2>5. QED
    BY <2>2, <2>3, <2>4
<1>5. QED
  BY <1>3, <1>4 DEF SyncStatus, stored

\* The fetch between two attempts of updateStatus keeps the types.
LEMMA GetStatusTyped ==
  ASSUME TypeOK, TodoOK, NEW k \in Keys, GetStatus(k)
  PROVE  TypeOK' /\ TodoOK'
<1>1. used' \in [DOMAIN Limit -> Nat]
  BY SpendTyped, BudgetNames DEF GetStatus, TypeOK
<1>2. CASE Done(k, TRUE)
  BY <1>1, <1>2, DoneTyped DEF GetStatus, objects, manifest, TypeOK
<1>3. CASE orig' = [orig EXCEPT ![k] = api[k]] /\ Goto(k, "syncStatus")
           /\ UNCHANGED <<queue, res, todo, err, att, used>>
  <2>1. orig' \in [Keys -> Objects]
    BY <1>3 DEF TypeOK
  <2>2. pc' \in [Keys -> Stages] /\ TodoOK'
    BY <1>3 DEF Goto, Stages, TypeOK, TodoOK
  <2>3. QED
    BY <1>1, <1>3, <2>1, <2>2 DEF GetStatus, objects, manifest, TypeOK
<1>4. QED
  BY <1>2, <1>3 DEF GetStatus

\* Every step keeps the types, given that the refetch in delete is safe.
LEMMA StepTyped ==
  ASSUME TypeOK, TodoOK, RefetchSafe, [Next]_vars
  PROVE  TypeOK' /\ TodoOK'
<1>1. CASE UNCHANGED vars
  BY <1>1 DEF vars, TypeOK, TodoOK
<1>2. CASE Restart
  BY <1>2, RestartTyped
<1>3. ASSUME NEW k \in Keys, Environment(k)
      PROVE  TypeOK' /\ TodoOK'
  BY <1>3, UserTyped, DeploymentTyped DEF Environment
<1>4. ASSUME NEW k \in Keys, Informer(k) \/ Reconcile(k)
      PROVE  TypeOK' /\ TodoOK'
  BY <1>4, InformerTyped, ReconcileTyped
<1>5. ASSUME NEW k \in Keys, WorkerStep(k)
      PROVE  TypeOK' /\ TodoOK'
  BY <1>5, FinalizersTyped, ReconcileKindTyped, EnsureFinalizerTyped, InitStatusTyped,
     InstallTyped, CheckDeploymentsTyped, DeleteObsoleteTyped, FinalizeKindTyped,
     DeleteTyped, ReleaseTyped, SyncStatusTyped, GetStatusTyped DEF WorkerStep
<1>6. QED
  BY <1>1, <1>2, <1>3, <1>4, <1>5 DEF Next

=============================================================================
