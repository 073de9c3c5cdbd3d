----------------------------- MODULE ReadyProofs -----------------------------
(***************************************************************************)
(* That a KnativeServing which reports Ready has the manifest finalizer,     *)
(* under every key that no earlier operator left, however stale the copies   *)
(* its status was computed from.  The danger is a status that outlives the   *)
(* object it was computed for: it could be written over a successor.  It     *)
(* does not happen as long as a run that takes off the manifest finalizer    *)
(* has no status to write, which is so because the default finalizer went    *)
(* before, in an earlier run (DefaultFirst).                                *)
(*                                                                         *)
(* Then, for the only KnativeServing of a cluster: no binding is there       *)
(* without its role, and Ready means that the manifest is installed.         *)
(***************************************************************************)
EXTENDS ContractProofs

-----------------------------------------------------------------------------
(* Lists of finalizers.                                                     *)

\* What Append adds, and where.
LEMMA AppendedFin ==
  ASSUME NEW fin \in Seq(Finalizers), NEW f \in Finalizers
  PROVE  /\ Append(fin, f) \in Seq(Finalizers) /\ Has(Append(fin, f), f)
         /\ \A g : Has(fin, g) => Has(Append(fin, f), g)
         /\ \A g : g # f /\ Has(Append(fin, f), g) => Has(fin, g)
         /\ InOrder(fin) /\ (f = DefaultFinalizer => ~Has(fin, ManifestFinalizer)) =>
              InOrder(Append(fin, f))
<1> DEFINE v == Append(fin, f)
<1>1. /\ v \in Seq(Finalizers) /\ Len(fin) \in Nat
      /\ Len(fin) + 1 \in DOMAIN v /\ v[Len(fin) + 1] = f
      /\ \A i \in DOMAIN fin : i \in DOMAIN v /\ v[i] = fin[i] /\ i < Len(fin) + 1
      /\ \A i \in DOMAIN v : i \in DOMAIN fin \/ i = Len(fin) + 1
  OBVIOUS
<1> HIDE DEF v
<1>2. ManifestFinalizer # DefaultFinalizer
  BY DEF ManifestFinalizer, DefaultFinalizer
<1>3. ASSUME InOrder(fin), f = DefaultFinalizer => ~Has(fin, ManifestFinalizer)
      PROVE  InOrder(v)
  <2>1. ASSUME NEW i \in DOMAIN v, NEW j \in DOMAIN v,
               v[i] = ManifestFinalizer, v[j] = DefaultFinalizer
        PROVE  j < i
    <3>1. CASE i \in DOMAIN fin /\ j \in DOMAIN fin
      BY <1>1, <1>3, <2>1, <3>1 DEF InOrder
    <3>2. CASE i \in DOMAIN fin /\ j = Len(fin) + 1
      BY <1>1, <1>3, <2>1, <3>2 DEF Has
    <3>3. CASE i = Len(fin) + 1
      BY <1>1, <1>2, <2>1, <3>3
    <3>4. QED
      BY <1>1, <3>1, <3>2, <3>3
  <2>2. QED
    BY <2>1 DEF InOrder
<1>4. QED
  BY <1>1, <1>3 DEF Has, v

\* What is left when the first finalizer is taken off.
LEMMA TailFin ==
  ASSUME NEW fin \in Seq(Finalizers), Len(fin) > 0, InOrder(fin)
  PROVE  /\ Tail(fin) \in Seq(Finalizers) /\ InOrder(Tail(fin))
         /\ ManifestFirst(fin) => ~Has(fin, DefaultFinalizer) /\ ~Has(Tail(fin), DefaultFinalizer)
<1> DEFINE v == Tail(fin)
<1>1. /\ v \in Seq(Finalizers) /\ 1 \in DOMAIN fin /\ \A i \in DOMAIN fin : 1 <= i /\ i \in Nat
      /\ \A i \in DOMAIN v : i \in Nat /\ i + 1 \in DOMAIN fin /\ v[i] = fin[i + 1]
  OBVIOUS
<1> HIDE DEF v
<1>2. InOrder(v)
  <2>1. ASSUME NEW i \in DOMAIN v, NEW j \in DOMAIN v,
               v[i] = ManifestFinalizer, v[j] = DefaultFinalizer
        PROVE  j < i
    <3>1. j + 1 < i + 1
      BY <1>1, <2>1 DEF InOrder
    <3>2. QED
      BY <1>1, <3>1
  <2>2. QED
    BY <2>1 DEF InOrder
<1>3. ManifestFirst(fin) => ~Has(fin, DefaultFinalizer)
  <2>1. SUFFICES ASSUME ManifestFirst(fin), NEW j \in DOMAIN fin, fin[j] = DefaultFinalizer
                 PROVE  FALSE
    BY DEF Has
  <2>2. j < 1
    BY <1>1, <2>1 DEF ManifestFirst, InOrder
  <2>3. QED
    BY <1>1, <2>2
<1>4. Has(v, DefaultFinalizer) => Has(fin, DefaultFinalizer)
  BY <1>1 DEF Has
<1>5. QED
  BY <1>1, <1>2, <1>3, <1>4 DEF v

\* What is left when the foreground finalizer is taken off.
LEMMA WithoutFin ==
  ASSUME NEW fin \in Seq(Finalizers), NEW i \in DOMAIN fin, fin[i] = ForegroundFinalizer
  PROVE  /\ InOrder(fin) => InOrder(Without(fin, i))
         /\ Has(fin, DefaultFinalizer) <=> Has(Without(fin, i), DefaultFinalizer)
<1> DEFINE v == Without(fin, i)
           at(j) == IF j < i THEN j ELSE j + 1
<1>1. Len(fin) \in Nat /\ DOMAIN fin = 1 .. Len(fin) /\ DOMAIN v = 1 .. Len(fin) - 1
  BY DEF Without
<1>2. \A j \in DOMAIN v : at(j) \in DOMAIN fin /\ v[j] = fin[at(j)]
  BY <1>1 DEF Without
<1>3. \A m, n \in DOMAIN v : at(n) < at(m) => n < m
  BY <1>1
<1>4. InOrder(fin) => InOrder(v)
  <2> HIDE DEF at, v
  <2>1. QED
    BY <1>2, <1>3 DEF InOrder
<1>5. Has(v, DefaultFinalizer) => Has(fin, DefaultFinalizer)
  <2> HIDE DEF at, v
  <2>1. QED
    BY <1>2 DEF Has
<1>6. ASSUME NEW j \in DOMAIN fin, fin[j] = DefaultFinalizer
      PROVE  Has(v, DefaultFinalizer)
  <2>1. j # i
    BY <1>6 DEF DefaultFinalizer, ForegroundFinalizer
  <2>2. CASE j < i
    <3>1. j \in DOMAIN v /\ v[j] = fin[j]
      BY <1>1, <2>2 DEF Without
    <3>2. QED
      BY <1>6, <3>1 DEF Has
  <2>3. CASE j > i
    <3>1. j - 1 \in DOMAIN v /\ v[j - 1] = fin[j]
      BY <1>1, <2>3 DEF Without
    <3>2. QED
      BY <1>6, <3>1 DEF Has
  <2>4. QED
    BY <1>1, <2>1, <2>2, <2>3
<1>7. QED
  BY <1>4, <1>5, <1>6 DEF Has

\* A sorted list is without the default finalizer if its set is.
LEMMA SortedListNoDefault ==
  ASSUME NEW S \in SUBSET Finalizers, DefaultFinalizer \notin S
  PROVE  ~Has(SortedList(S), DefaultFinalizer) /\ InOrder(SortedList(S))
<1> DEFINE only(f) == IF f \in S THEN <<f>> ELSE <<>>
           m == only(ManifestFinalizer)  g == only(ForegroundFinalizer)
<1>1. \A f \in Finalizers \ {DefaultFinalizer} :
        only(f) \in Seq(Finalizers) /\ \A i \in DOMAIN only(f) : only(f)[i] = f
  <2> SUFFICES ASSUME NEW f \in Finalizers \ {DefaultFinalizer}
               PROVE  only(f) \in Seq(Finalizers) /\ \A i \in DOMAIN only(f) : only(f)[i] = f
    OBVIOUS
  <2>1. CASE f \in S
    BY <2>1
  <2>2. CASE f \notin S
    BY <2>2
  <2>3. QED
    BY <2>1, <2>2
<1>2. {ManifestFinalizer, ForegroundFinalizer} \subseteq Finalizers \ {DefaultFinalizer}
  BY DEF Finalizers, ManifestFinalizer, ForegroundFinalizer, DefaultFinalizer
<1>3. only(DefaultFinalizer) = <<>>
  OBVIOUS
<1> HIDE DEF only
<1>4. /\ m \in Seq(Finalizers) /\ g \in Seq(Finalizers)
      /\ \A i \in DOMAIN m : m[i] # DefaultFinalizer
      /\ \A i \in DOMAIN g : g[i] # DefaultFinalizer
  BY <1>1, <1>2
<1> HIDE DEF m, g
<1>5. SortedList(S) = (m \o g) \o <<>>
  BY <1>3 DEF SortedList, only, m, g
<1>6. (m \o g) \o <<>> = m \o g
  BY <1>4
<1>7. \A i \in DOMAIN (m \o g) : (m \o g)[i] # DefaultFinalizer
  BY <1>4, ConcatMember
<1>8. QED
  BY <1>5, <1>6, <1>7 DEF Has, InOrder

-----------------------------------------------------------------------------
(* Objects and histories.                                                   *)

\* An object without a status is not Ready, and one without finalizers in order.
LEMMA BlankReady ==
  /\ ~IsReady(Empty) /\ \A i, v : ReadyKept(Gone(i, v)) /\ DefaultFirst(Gone(i, v))
  /\ \A i, v : Untouched(Gone(i, v))
  /\ \A i, v, spec : /\ ReadyKept(Created(i, v, spec)) /\ DefaultFirst(Created(i, v, spec))
                     /\ Untouched(Created(i, v, spec))
<1>1. ~IsTrue(NoStatus.cond, Ready)
  BY DEF NoStatus, NoConditions, IsTrue, ConditionTypes
<1>2. InOrder(<<>>) /\ \A f : ~Has(<<>>, f)
  BY DEF InOrder, Has
<1>3. QED
  BY <1>1, <1>2 DEF IsReady, ReadyKept, DefaultFirst, Untouched, Gone, Created, Empty

\* What is good of an object is good of what the API server makes of it.
LEMMA CommittedReady ==
  ASSUME NEW o \in Objects
  PROVE  /\ ReadyKept(o) => ReadyKept(Committed(o))
         /\ DefaultFirst(o) => DefaultFirst(Committed(o))
         /\ Untouched(o) => Untouched(Committed(o))
<1>1. /\ Bumped(o).status = o.status /\ Bumped(o).fin = o.fin /\ Bumped(o).phase = o.phase
  BY DEF Bumped, Objects
<1>2. /\ ReadyKept(o) => ReadyKept(Bumped(o))
      /\ DefaultFirst(o) => DefaultFirst(Bumped(o))
      /\ Untouched(o) => Untouched(Bumped(o))
  BY <1>1 DEF ReadyKept, DefaultFirst, Untouched, IsReady
<1>3. QED
  BY <1>2, BlankReady DEF Committed

\* What may be stored of an object after a.
Renews(a, b) ==
  ReadyKept(b) /\ DefaultFirst(b) /\ (Untouched(a) => Untouched(b))

\* A write that keeps the status and the finalizers that matter.
LEMMA WrittenRenews ==
  ASSUME NEW a \in Objects, ReadyKept(a), DefaultFirst(a), NEW o \in Objects, o.status = a.status,
         Exists(a), o.phase = a.phase \/ o.phase = "deleting",
         InOrder(o.fin),
         Has(o.fin, ManifestFinalizer) <=> Has(a.fin, ManifestFinalizer),
         Has(o.fin, DefaultFinalizer) <=> Has(a.fin, DefaultFinalizer)
  PROVE  Renews(a, Committed(o))
<1>1. ReadyKept(o) /\ DefaultFirst(o) /\ (Untouched(a) => Untouched(o))
  BY DEF ReadyKept, DefaultFirst, Untouched, IsReady, Exists
<1>2. QED
  BY <1>1, CommittedReady DEF Renews

\* The history of a key stays good when a good object is stored: one on which a
\* worker has left nothing unless it had before, or one stored when nothing is
\* on its way to an informer that has the object live.
LEMMA ReadyGrows ==
  ASSUME NEW a \in Objects, NEW c \in Objects, NEW w \in Seq(Objects), NEW b \in Objects,
         HistoryOrdered(a, c, w), ReadyHistory(a, c, w), ReadyKept(b), DefaultFirst(b),
         (Untouched(a) => Untouched(b)) \/ (Len(w) = 0 /\ c.phase = "live")
  PROVE  ReadyHistory(b, c, Append(w, b))
<1> DEFINE v == Append(w, b)
<1>1. /\ Len(v) = Len(w) + 1 /\ v[Len(w) + 1] = b /\ Len(w) \in Nat
      /\ \A i \in DOMAIN w : v[i] = w[i] /\ i \in Nat /\ i < Len(w) + 1
      /\ \A i \in DOMAIN v : i \in DOMAIN w \/ i = Len(w) + 1
  BY AppendChange
<1> HIDE DEF v
<1>2. CASE Untouched(a) => Untouched(b)
  <2>1. Anew(c, b)
    <3>1. CASE Len(w) = 0
      BY <1>2, <3>1 DEF HistoryOrdered, Anew, Untouched
    <3>2. CASE Len(w) # 0
      <4>1. Len(w) \in DOMAIN w /\ w[Len(w)] = a
        BY <1>1, <3>2 DEF HistoryOrdered
      <4>2. QED
        BY <1>2, <4>1 DEF ReadyHistory, Anew
    <3>3. QED
      BY <3>1, <3>2
  <2>2. ASSUME NEW i \in DOMAIN w
        PROVE  Anew(w[i], b)
    <3>1. Len(w) \in DOMAIN w /\ w[Len(w)] = a /\ (i = Len(w) \/ i < Len(w))
      BY DEF HistoryOrdered
    <3>2. Anew(w[i], a)
      BY <3>1 DEF ReadyHistory, Anew, Untouched
    <3>3. QED
      BY <1>2, <3>2 DEF Anew
  <2>3. ASSUME NEW i \in DOMAIN v, NEW j \in DOMAIN v, i < j
        PROVE  Anew(v[i], v[j])
    <3>1. i \in DOMAIN w
      BY <1>1, <2>3
    <3>2. CASE j \in DOMAIN w
      BY <1>1, <2>3, <3>1, <3>2 DEF ReadyHistory
    <3>3. CASE j = Len(w) + 1
      BY <1>1, <2>2, <3>1, <3>3
    <3>4. QED
      BY <1>1, <3>2, <3>3
  <2>4. ASSUME NEW i \in DOMAIN v
        PROVE  ReadyKept(v[i]) /\ DefaultFirst(v[i]) /\ Anew(c, v[i])
    BY <1>1, <2>1 DEF ReadyHistory
  <2>5. QED
    BY <2>3, <2>4 DEF ReadyHistory, v
<1>3. CASE Len(w) = 0 /\ c.phase = "live"
  <2>1. \A i \in DOMAIN v : i = 1 /\ v[i] = b
    BY <1>1, <1>3
  <2>2. Anew(c, b)
    BY <1>3 DEF Anew
  <2>3. QED
    BY <2>1, <2>2 DEF ReadyHistory, v
<1>4. QED
  BY <1>2, <1>3

\* Somebody else than the worker stores an object.
LEMMA ReadyStored ==
  ASSUME NEW a \in Objects, NEW c \in Objects, NEW w \in Seq(Objects), NEW b \in Objects,
         NEW s, NEW r \in Objects, NEW o,
         KeyInv(a, c, w, s, r), ReadyKey(a, c, w, s, r, o), Follows(a, b), Renews(a, b)
  PROVE  ReadyKey(b, c, Append(w, b), s, r, o)
<1>1. ReadyHistory(b, c, Append(w, b))
  BY ReadyGrows DEF KeyInv, ReadyKey, Renews
<1>2. a.rv \in Nat /\ b.rv \in Nat /\ r.rv \in Nat /\ a.rv < b.rv
  BY DEF Objects, Follows, Precedes
<1>3. \A i : Kept(a, i) => Kept(b, i)
  BY DEF Follows, Kept
<1>4. ReadyEarly(b, c, s, r)
  <2>1. s \in {"reconcileKind", "ensureFinalizer"} /\ r.phase = "live" => r.rv <= a.rv
    BY DEF KeyInv, EarlyCopy, EarlyStages
  <2>2. QED
    BY <1>2, <2>1 DEF ReadyKey, ReadyEarly
<1>5. ReadyLate(b, c, Append(w, b), s, r, o)
  <2>1. s \in FinalizeStages => \A i \in DOMAIN Append(w, b) : Untouched(Append(w, b)[i])
    BY AppendChange DEF ReadyKey, ReadyLate, Renews
  <2>2. QED
    BY <1>3, <2>1 DEF ReadyKey, ReadyLate, Renews
<1>6. QED
  BY <1>1, <1>4, <1>5 DEF ReadyKey

\* Between two reconciliations, and while a worker installs, only the history
\* matters.
LEMMA ReadyAtRest ==
  ASSUME NEW a, NEW c, NEW w, NEW s, NEW r, NEW o, ReadyHistory(a, c, w),
         s \in {"idle"} \cup InstallStages
  PROVE  ReadyKey(a, c, w, s, r, o)
  BY DEF ReadyKey, ReadyEarly, ReadyLate, InstallStages, EarlyStages, FinalizeStages

\* A worker goes on to write a status that is not Ready, that is the one it has
\* started from, or that is of an object which the manifest finalizer holds.
LEMMA ReadyToSync ==
  ASSUME NEW a, NEW c, NEW w, NEW r, NEW o, ReadyHistory(a, c, w),
         IsReady(r) => o.status = r.status \/ Kept(a, r.inc)
  PROVE  ReadyKey(a, c, w, "syncStatus", r, o)
  BY DEF ReadyKey, ReadyEarly, ReadyLate, EarlyStages, FinalizeStages

-----------------------------------------------------------------------------
(* Steps of one key leave the others alone.                                 *)

Elsewhere(k) ==
  \A j \in Keys \ {k} :
    /\ api'[j] = api[j] /\ cache'[j] = cache[j] /\ watch'[j] = watch[j]
    /\ pc'[j] = pc[j] /\ res'[j] = res[j] /\ orig'[j] = orig[j]

\* A write of a user leaves the other keys alone.
LEMMA StoreElsewhere ==
  ASSUME TypeOK, NEW k \in Keys, NEW o, Store(k, o), UNCHANGED <<cache, pc, res, orig>>
  PROVE  Elsewhere(k)
  BY DEF Store, TypeOK, Elsewhere

\* So does a request of a worker.
LEMMA RequestElsewhere ==
  ASSUME TypeOK, NEW k \in Keys,
         \/ UNCHANGED <<api, watch>>
         \/ \E rv : \E fin \in Seq(Finalizers) : Patches(k, rv, fin)
         \/ \E rv : \E st \in Statuses : Updates(k, rv, st)
  PROVE  \A j \in Keys \ {k} : api'[j] = api[j] /\ watch'[j] = watch[j]
<1>1. ASSUME NEW rv, NEW o, NEW reply, Write(k, rv, o, reply)
      PROVE  \A j \in Keys \ {k} : api'[j] = api[j] /\ watch'[j] = watch[j]
  BY <1>1 DEF Write, Store, TypeOK
<1>2. QED
  BY <1>1 DEF Patches, Updates

\* The worker's own variables.
LEMMA WorkerElsewhere ==
  ASSUME TypeOK, NEW k \in Keys, Reconcile(k) \/ WorkerStep(k)
  PROVE  Elsewhere(k)
<1>1. /\ \A stage : Goto(k, stage) => \A j \in Keys \ {k} : pc'[j] = pc[j]
      /\ \A o : SetRes(k, o) => \A j \in Keys \ {k} : res'[j] = res[j]
      /\ \A c : SetCond(k, c) => \A j \in Keys \ {k} : res'[j] = res[j]
      /\ \A o : orig' = [orig EXCEPT ![k] = o] => \A j \in Keys \ {k} : orig'[j] = orig[j]
      /\ \A o : cache' = [cache EXCEPT ![k] = o] => \A j \in Keys \ {k} : cache'[j] = cache[j]
  BY DEF Goto, SetCond, SetRes, TypeOK
<1>2. \A failed : Done(k, failed) =>
        \A j \in Keys \ {k} : pc'[j] = pc[j] /\ res'[j] = res[j] /\ orig'[j] = orig[j]
  BY <1>1 DEF Done
<1>3. CASE SetFinalizer(k) \/ ClearFinalizer(k)
  <2>1. \A j \in Keys \ {k} : api'[j] = api[j] /\ watch'[j] = watch[j]
    BY <1>3, FinalizerRequest, RequestElsewhere
  <2>2. \A r : UpdateFinalizersFiltered(k, r) => \E o : SetRes(k, o)
    BY DEF UpdateFinalizersFiltered
  <2>3. QED
    BY <1>1, <1>3, <2>1, <2>2 DEF SetFinalizer, ClearFinalizer, Elsewhere
<1>4. CASE EnsureFinalizer(k)
  <2>1. \A j \in Keys \ {k} : api'[j] = api[j] /\ watch'[j] = watch[j]
    BY <1>4, EnsureRequest, RequestElsewhere
  <2>2. (UNCHANGED res \/ \E o : SetRes(k, o)) /\ (\E stage : Goto(k, stage)) /\ UNCHANGED <<cache, orig>>
    BY <1>4 DEF EnsureFinalizer
  <2>3. QED
    BY <1>1, <2>1, <2>2 DEF Elsewhere
<1>5. CASE InitStatus(k)
  <2>1. \A j \in Keys \ {k} : api'[j] = api[j] /\ watch'[j] = watch[j]
    BY <1>5, StatusRequest, RequestElsewhere
  <2>2. (UNCHANGED res \/ \E o : SetRes(k, o)) /\ (\E stage : Goto(k, stage)) /\ UNCHANGED <<cache, orig>>
    BY <1>5 DEF InitStatus
  <2>3. QED
    BY <1>1, <2>1, <2>2 DEF Elsewhere
<1>6. CASE SyncStatus(k)
  <2>1. \A j \in Keys \ {k} : api'[j] = api[j] /\ watch'[j] = watch[j]
    BY <1>6, StatusRequest, RequestElsewhere
  <2>2. /\ UNCHANGED cache
        /\ \/ \E failed : Done(k, failed)
           \/ UNCHANGED <<res, orig>> /\ \E stage : Goto(k, stage)
    BY <1>6 DEF SyncStatus
  <2>3. QED
    BY <1>1, <1>2, <2>1, <2>2 DEF Elsewhere
<1>7. CASE GetStatus(k)
  <2>1. /\ UNCHANGED objects
        /\ \/ \E failed : Done(k, failed)
           \/ UNCHANGED res /\ (\E o : orig' = [orig EXCEPT ![k] = o]) /\ \E stage : Goto(k, stage)
    BY <1>7 DEF GetStatus
  <2>2. QED
    BY <1>1, <1>2, <2>1 DEF Elsewhere, objects
<1>8. CASE Release(k)
  <2>1. /\ UNCHANGED <<res, orig>> /\ Goto(k, "clearFinalizer")
        /\ UNCHANGED objects \/ \E o : cache' = [cache EXCEPT ![k] = o]
    BY <1>8 DEF Release, TypeOK
  <2>2. UNCHANGED <<api, watch>> \/ \E rv, o, reply : Write(k, rv, o, reply)
    BY <1>8 DEF Release, objects
  <2>3. \A j \in Keys \ {k} : api'[j] = api[j] /\ watch'[j] = watch[j]
    BY <2>2 DEF Write, Store, TypeOK
  <2>4. QED
    BY <1>1, <2>1, <2>3 DEF Elsewhere, objects
<1>9. CASE Reconcile(k)
  <2>1. /\ UNCHANGED objects
        /\ \/ UNCHANGED <<pc, orig, res>>
           \/ /\ \E stage : Goto(k, stage)
              /\ \E o : orig' = [orig EXCEPT ![k] = o]
              /\ \E o : SetRes(k, o)
    BY <1>9 DEF Reconcile
  <2>2. QED
    BY <1>1, <2>1 DEF Elsewhere, objects
<1>10. CASE ReconcileKind(k)
  <2>1. /\ UNCHANGED <<objects, orig>> /\ \E stage : Goto(k, stage)
        /\ UNCHANGED res \/ \E c : SetCond(k, c)
    BY <1>10 DEF ReconcileKind
  <2>2. QED
    BY <1>1, <2>1 DEF Elsewhere, objects
<1>11. CASE Install(k) \/ CheckDeployments(k) \/ DeleteObsoleteResources(k)
  <2>1. /\ UNCHANGED <<objects, orig>> /\ (UNCHANGED pc \/ \E stage : Goto(k, stage))
        /\ UNCHANGED res \/ (\E c : SetCond(k, c)) \/ \E o : SetRes(k, o)
    BY <1>11 DEF Install, CheckDeployments, DeleteObsoleteResources
  <2>2. QED
    BY <1>1, <2>1 DEF Elsewhere, objects
<1>12. CASE FinalizeKind(k) \/ Delete(k)
  <2>1. UNCHANGED <<objects, orig, res>> /\ (UNCHANGED pc \/ \E stage : Goto(k, stage))
    BY <1>12 DEF FinalizeKind, Delete
  <2>2. QED
    BY <1>1, <2>1 DEF Elsewhere, objects
<1>13. QED
  BY <1>3, <1>4, <1>5, <1>6, <1>7, <1>8, <1>9, <1>10, <1>11, <1>12 DEF WorkerStep

\* What the informer and the environment do to a key.
LEMMA OutsideElsewhere ==
  ASSUME TypeOK, NEW k \in Keys, Environment(k) \/ Informer(k)
  PROVE  Elsewhere(k) /\ UNCHANGED <<pc, res, orig>>
<1>1. CASE Environment(k)
  <2>1. /\ UNCHANGED <<cache, pc, res, orig>>
        /\ UNCHANGED <<api, watch>> \/ \E o : Store(k, o)
    BY <1>1 DEF Environment, CreateCR, EditSpec, DeleteCR, ForegroundDone, DeploymentUp,
                CollectDeployment, DeploymentLost, worker, objects
  <2>2. QED
    BY <2>1, StoreElsewhere DEF Elsewhere
<1>2. CASE Informer(k)
  BY <1>2 DEF Informer, WatchEvent, Relist, Resync, worker, objects, TypeOK, Elsewhere
<1>3. QED
  BY <1>1, <1>2

\* The invariant of one key, and how that of all is put together.
ReadyAt(k) == ReadyKey(api[k], cache[k], watch[k], pc[k], res[k], orig[k])

\* It is enough to look at the key that the step is of.
LEMMA ReadyFrame ==
  ASSUME ReadyInv, NEW k \in Keys, Elsewhere(k), k \notin LegacyKeys => ReadyAt(k)'
  PROVE  ReadyInv'
  BY DEF ReadyInv, Elsewhere, ReadyAt

-----------------------------------------------------------------------------
(* Users and the garbage collector.                                         *)

\* Somebody else than the worker stores an object.
LEMMA StoredReady ==
  ASSUME IInv, NEW k \in Keys, ReadyAt(k), NEW b \in Objects, Store(k, b),
         Follows(api[k], b), Renews(api[k], b), UNCHANGED <<cache, pc, res, orig>>
  PROVE  ReadyAt(k)'
<1>1. TypeOK /\ KeyInv(api[k], cache[k], watch[k], pc[k], res[k])
  BY DEF IInv
<1>2. ReadyKey(b, cache[k], Append(watch[k], b), pc[k], res[k], orig[k])
  BY <1>1, KeyTyped, ReadyStored DEF ReadyAt
<1>3. api'[k] = b /\ watch'[k] = Append(watch[k], b)
  BY <1>1 DEF Store, TypeOK
<1>4. QED
  BY <1>2, <1>3 DEF ReadyAt

\* A new object is not Ready.
LEMMA CreateReady ==
  ASSUME IInv, NEW k \in Keys, ReadyAt(k), NEW spec \in Specs, CreateCR(k, spec)
  PROVE  ReadyAt(k)'
<1> DEFINE b == Created(api[k].inc + 1, api[k].rv + 1, spec)
<1>1. TypeOK /\ api[k] \in Objects /\ api[k].rv \in Nat /\ api[k].inc \in Nat
  BY KeyTyped DEF IInv, Objects
<1>2. b \in Objects
  <2>1. /\ <<>> \in Seq(Finalizers) /\ NoStatus \in Statuses /\ "live" \in Phases
        /\ api[k].inc + 1 \in Nat /\ api[k].rv + 1 \in Nat /\ 1 \in Nat
    BY <1>1, EmptyTyped DEF Phases
  <2>2. QED
    BY <2>1 DEF Created, Objects
<1>3. b.rv = api[k].rv + 1 /\ b.phase = "live" /\ Exists(b) /\ ~Exists(api[k])
  BY DEF Created, CreateCR, Exists
<1>4. ~Doomed(api[k])
  BY <1>3 DEF Doomed, Exists
<1>5. Follows(api[k], b)
  BY <1>1, <1>3, <1>4 DEF Follows, Precedes
<1>6. Store(k, b) /\ UNCHANGED <<cache, pc, res, orig>>
  BY DEF CreateCR, worker
<1>7. Renews(api[k], b)
  BY BlankReady DEF Renews
<1> HIDE DEF b
<1>8. QED
  BY <1>2, <1>5, <1>6, <1>7, StoredReady

\* An edit keeps status and finalizers.
LEMMA EditReady ==
  ASSUME IInv, NEW k \in Keys, ReadyAt(k), NEW spec \in Specs, EditSpec(k, spec)
  PROVE  ReadyAt(k)'
<1> DEFINE a == api[k]
           o == Edited(a, spec)
<1>1. /\ TypeOK /\ a \in Objects /\ a.gen + 1 \in Nat
      /\ ReadyKept(a) /\ DefaultFirst(a)
  BY KeyTyped DEF IInv, Objects, ReadyAt, ReadyKey, ReadyHistory
<1>2. o \in Objects
  BY <1>1 DEF Edited, Objects
<1>3. /\ o.phase = a.phase /\ o.inc = a.inc /\ o.rv = a.rv /\ o.fin = a.fin
      /\ o.status = a.status
      /\ Exists(a) /\ Store(k, Committed(o)) /\ UNCHANGED <<cache, pc, res, orig>>
  BY DEF EditSpec, Edited, worker
<1> HIDE DEF a, o
<1>4. Exists(o) /\ (Doomed(a) => Doomed(o)) /\ InOrder(o.fin)
  BY <1>1, <1>3 DEF Exists, Doomed, DefaultFirst
<1>5. Follows(a, Committed(o)) /\ Committed(o) \in Objects
  BY <1>1, <1>2, <1>3, <1>4, CommittedFollows, CommittedTyped
<1>6. Renews(a, Committed(o))
  BY <1>1, <1>2, <1>3, <1>4, WrittenRenews
<1>7. QED
  BY <1>3, <1>5, <1>6, StoredReady DEF a

\* A deletion keeps the status, and puts no finalizer before the others.
LEMMA DeleteReady ==
  ASSUME IInv, NEW k \in Keys, ReadyAt(k), NEW foreground \in BOOLEAN, DeleteCR(k, foreground)
  PROVE  ReadyAt(k)'
<1> DEFINE a == api[k]
           fin == IF foreground THEN Append(a.fin, ForegroundFinalizer) ELSE a.fin
           o == Marked(a, fin)
<1>1. /\ TypeOK /\ a \in Objects /\ a.gen + 1 \in Nat /\ a.fin \in Seq(Finalizers)
      /\ ReadyKept(a) /\ DefaultFirst(a)
  <2>1. TypeOK /\ a \in Objects /\ a.gen + 1 \in Nat /\ a.fin \in Seq(Finalizers)
    BY KeyTyped DEF IInv, Objects
  <2>2. QED
    BY <2>1 DEF ReadyAt, ReadyKey, ReadyHistory
<1>2. /\ fin \in Seq(Finalizers) /\ InOrder(fin)
      /\ Has(fin, ManifestFinalizer) <=> Has(a.fin, ManifestFinalizer)
      /\ Has(fin, DefaultFinalizer) <=> Has(a.fin, DefaultFinalizer)
  <2>1. /\ ForegroundFinalizer \in Finalizers /\ ForegroundFinalizer # DefaultFinalizer
        /\ ForegroundFinalizer # ManifestFinalizer
    BY DEF Finalizers, ForegroundFinalizer, DefaultFinalizer, ManifestFinalizer
  <2>2. InOrder(a.fin)
    BY <1>1 DEF DefaultFirst
  <2>3. QED
    BY <1>1, <2>1, <2>2, AppendedFin
<1>3. a.phase = "live" /\ Store(k, Committed(o)) /\ UNCHANGED <<cache, pc, res, orig>>
  BY DEF DeleteCR, worker
<1> HIDE DEF fin
<1>4. o \in Objects
  BY <1>1, <1>2 DEF Marked, Objects, Phases
<1>5. /\ o.inc = a.inc /\ o.rv = a.rv /\ o.fin = fin /\ Exists(o) /\ Exists(a) /\ ~Doomed(a)
      /\ o.phase = "deleting" /\ o.status = a.status
  BY <1>3 DEF Marked, Exists, Doomed
<1> HIDE DEF a, o
<1>6. Follows(a, Committed(o)) /\ Committed(o) \in Objects
  BY <1>1, <1>2, <1>4, <1>5, CommittedFollows, CommittedTyped
<1>7. Renews(a, Committed(o))
  BY <1>1, <1>2, <1>4, <1>5, WrittenRenews
<1>8. QED
  BY <1>3, <1>6, <1>7, StoredReady DEF a

\* The garbage collector takes off its own finalizer only.
LEMMA ForegroundReady ==
  ASSUME IInv, NEW k \in Keys, ReadyAt(k), ForegroundDone(k)
  PROVE  ReadyAt(k)'
<1> DEFINE a == api[k]
<1>1. /\ TypeOK /\ a \in Objects /\ a.fin \in Seq(Finalizers)
      /\ ReadyKept(a) /\ DefaultFirst(a)
  BY KeyTyped DEF IInv, Objects, ReadyAt, ReadyKey, ReadyHistory
<1>2. PICK i \in DOMAIN a.fin :
        /\ a.fin[i] = ForegroundFinalizer
        /\ Store(k, Committed([a EXCEPT !.fin = Without(@, i)]))
  BY DEF ForegroundDone
<1> DEFINE fin == Without(a.fin, i)
           o == [a EXCEPT !.fin = fin]
<1>3. /\ fin \in Seq(Finalizers) /\ InOrder(fin)
      /\ ManifestFirst(a.fin) => ManifestFirst(fin)
      /\ Has(fin, ManifestFinalizer) <=> Has(a.fin, ManifestFinalizer)
      /\ Has(fin, DefaultFinalizer) <=> Has(a.fin, DefaultFinalizer)
  <2>1. InOrder(a.fin)
    BY <1>1 DEF DefaultFirst
  <2>2. Has(fin, ManifestFinalizer) => Has(a.fin, ManifestFinalizer)
    BY <1>1, WithoutHas
  <2>3. QED
    BY <1>1, <1>2, <2>1, <2>2, WithoutFacts, WithoutFin
<1>4. Exists(a) /\ UNCHANGED <<cache, pc, res, orig>> /\ Store(k, Committed(o))
  BY <1>2 DEF ForegroundDone, worker
<1> HIDE DEF fin
<1>5. /\ o \in Objects /\ o.inc = a.inc /\ o.rv = a.rv /\ o.fin = fin /\ o.phase = a.phase
      /\ o.status = a.status
  BY <1>1, <1>3 DEF Objects
<1> HIDE DEF a, o
<1>6. Exists(o) /\ (Doomed(a) => Doomed(o))
  BY <1>3, <1>4, <1>5 DEF Exists, Doomed
<1>7. Follows(a, Committed(o)) /\ Committed(o) \in Objects
  BY <1>1, <1>3, <1>4, <1>5, <1>6, CommittedFollows, CommittedTyped
<1>8. Renews(a, Committed(o))
  BY <1>1, <1>3, <1>4, <1>5, WrittenRenews
<1>9. QED
  BY <1>4, <1>7, <1>8, StoredReady DEF a

\* All steps of users, deployments and garbage collector.
LEMMA EnvironmentReady ==
  ASSUME IInv, NEW k \in Keys, ReadyAt(k), Environment(k)
  PROVE  ReadyAt(k)'
<1>1. CASE \/ DeploymentUp(k) \/ CollectDeployment(k)
           \/ \E state \in {"absent", "down"} : DeploymentLost(k, state)
  BY <1>1 DEF DeploymentUp, CollectDeployment, DeploymentLost, objects, worker, ReadyAt
<1>2. QED
  BY <1>1, CreateReady, EditReady, DeleteReady, ForegroundReady DEF Environment

-----------------------------------------------------------------------------
(* The informer.                                                            *)

\* The next change, or the stored object itself, becomes the cached one.
LEMMA WatchReady ==
  ASSUME NEW a \in Objects, NEW c \in Objects, NEW w \in Seq(Objects), NEW s, NEW r \in Objects, NEW o,
         KeyInv(a, c, w, s, r), ReadyKey(a, c, w, s, r, o), Len(w) > 0
  PROVE  ReadyKey(a, Head(w), Tail(w), s, r, o)
<1> DEFINE h == Head(w)  v == Tail(w)
<1>1. /\ 1 \in DOMAIN w /\ h = w[1] /\ h \in Objects
      /\ \A i \in DOMAIN v : v[i] = w[i + 1] /\ i + 1 \in DOMAIN w /\ 1 < i + 1
      /\ \A i, j \in DOMAIN v : i < j => i + 1 < j + 1
  OBVIOUS
<1>2. c.rv \in Nat /\ h.rv \in Nat /\ r.rv \in Nat /\ c.rv < h.rv
  BY <1>1 DEF Objects, KeyInv, HistoryOrdered, Precedes
<1> HIDE DEF h, v
<1>3. ReadyHistory(a, h, v)
  BY <1>1 DEF ReadyKey, ReadyHistory
<1>4. ReadyEarly(a, h, s, r)
  BY <1>2 DEF ReadyKey, ReadyEarly
<1>5. ReadyLate(a, h, v, s, r, o)
  BY <1>1 DEF ReadyKey, ReadyLate
<1>6. QED
  BY <1>3, <1>4, <1>5 DEF ReadyKey, h, v

\* After a list the informer has what is stored.
LEMMA ListReady ==
  ASSUME NEW a \in Objects, NEW c \in Objects, NEW w \in Seq(Objects), NEW s, NEW r \in Objects, NEW o,
         KeyInv(a, c, w, s, r), ReadyKey(a, c, w, s, r, o)
  PROVE  ReadyKey(a, a, <<>>, s, r, o)
<1>1. c.rv \in Nat /\ a.rv \in Nat /\ r.rv \in Nat /\ c.rv <= a.rv
  BY CacheIsOlder DEF Objects, KeyInv
<1>2. ReadyHistory(a, a, <<>>)
  BY DEF ReadyKey, ReadyHistory
<1>3. ReadyEarly(a, a, s, r)
  BY <1>1 DEF ReadyKey, ReadyEarly
<1>4. ReadyLate(a, a, <<>>, s, r, o)
  BY DEF ReadyKey, ReadyLate
<1>5. QED
  BY <1>2, <1>3, <1>4 DEF ReadyKey

\* The informer delivers, lists or resyncs.
LEMMA InformerReady ==
  ASSUME IInv, NEW k \in Keys, ReadyAt(k), Informer(k)
  PROVE  ReadyAt(k)'
<1>1. TypeOK /\ KeyInv(api[k], cache[k], watch[k], pc[k], res[k])
  BY DEF IInv
<1>2. CASE WatchEvent(k)
  <2>1. ReadyKey(api[k], Head(watch[k]), Tail(watch[k]), pc[k], res[k], orig[k])
    BY <1>1, <1>2, KeyTyped, WatchReady DEF WatchEvent, ReadyAt
  <2>2. /\ cache'[k] = Head(watch[k]) /\ watch'[k] = Tail(watch[k])
        /\ UNCHANGED <<api, pc, res, orig>>
    BY <1>1, <1>2 DEF WatchEvent, worker, TypeOK
  <2>3. QED
    BY <2>1, <2>2 DEF ReadyAt
<1>3. CASE Relist(k)
  <2>1. ReadyKey(api[k], api[k], <<>>, pc[k], res[k], orig[k])
    BY <1>1, KeyTyped, ListReady DEF ReadyAt
  <2>2. cache'[k] = api[k] /\ watch'[k] = <<>> /\ UNCHANGED <<api, pc, res, orig>>
    BY <1>1, <1>3 DEF Relist, worker, TypeOK
  <2>3. QED
    BY <2>1, <2>2 DEF ReadyAt
<1>4. CASE Resync(k)
  BY <1>4 DEF Resync, objects, worker, ReadyAt
<1>5. QED
  BY <1>2, <1>3, <1>4 DEF Informer

\* A new operator has listed the objects and works on none.
LEMMA RestartReady ==
  ASSUME IInv, NEW k \in Keys, ReadyAt(k), Restart
  PROVE  ReadyAt(k)'
<1>1. TypeOK /\ KeyInv(api[k], cache[k], watch[k], pc[k], res[k])
  BY DEF IInv
<1>2. ReadyKey(api[k], api[k], <<>>, pc[k], res[k], orig[k])
  BY <1>1, KeyTyped, ListReady DEF ReadyAt
<1>3. /\ api'[k] = api[k] /\ cache'[k] = api[k] /\ watch'[k] = <<>> /\ pc'[k] = "idle"
  BY DEF Restart
<1>4. QED
  BY <1>2, <1>3, ReadyAtRest DEF ReadyAt, ReadyKey

-----------------------------------------------------------------------------
(* The worker, from the work queue to ReconcileKind or FinalizeKind.        *)

\* What follows a cached object that does not live is untouched.
LEMMA AllAnew ==
  ASSUME NEW a \in Objects, NEW c \in Objects, NEW w \in Seq(Objects),
         HistoryOrdered(a, c, w), ReadyHistory(a, c, w), c.phase # "live"
  PROVE  Untouched(a) /\ Untouched(c) /\ \A i \in DOMAIN w : Untouched(w[i])
<1>1. Untouched(c) /\ \A i \in DOMAIN w : Untouched(w[i])
  BY DEF ReadyHistory, Anew, Untouched
<1>2. Untouched(a)
  <2>1. CASE Len(w) = 0
    BY <2>1 DEF HistoryOrdered, Untouched
  <2>2. CASE Len(w) # 0
    <3>1. Len(w) \in DOMAIN w /\ w[Len(w)] = a
      BY <2>2 DEF HistoryOrdered
    <3>2. QED
      BY <1>1, <3>1
  <2>3. QED
    BY <2>1, <2>2
<1>3. QED
  BY <1>1, <1>2

\* A worker starts with a copy of the cached object.
LEMMA ReconcileReady ==
  ASSUME IInv, NEW k \in Keys, ReadyAt(k), Reconcile(k)
  PROVE  ReadyAt(k)'
<1> DEFINE a == api[k]  c == cache[k]  w == watch[k]
<1>1. /\ TypeOK /\ HistoryOrdered(a, c, w) /\ ReadyHistory(a, c, w)
      /\ a \in Objects /\ c \in Objects /\ w \in Seq(Objects) /\ c.rv \in Nat
  <2>1. TypeOK /\ HistoryOrdered(a, c, w) /\ ReadyHistory(a, c, w)
    BY DEF IInv, KeyInv, ReadyAt, ReadyKey
  <2>2. QED
    BY <2>1, KeyTyped DEF Objects
<1>2. api'[k] = a /\ cache'[k] = c /\ watch'[k] = w
  BY DEF Reconcile, objects
<1>3. CASE ~Exists(c)
  BY <1>2, <1>3 DEF Reconcile, ReadyAt
<1>4. CASE Exists(c)
  <2>1. /\ pc'[k] = (IF c.phase = "live" THEN "setFinalizer" ELSE "finalizeKind")
        /\ res'[k] = c /\ orig'[k] = c
    BY <1>1, <1>4 DEF Reconcile, Goto, SetRes, TypeOK
  <2> HIDE DEF a, c, w
  <2>2. CASE c.phase = "live"
    <3>1. IsReady(c) => Has(c.fin, ManifestFinalizer)
      BY <1>1, <2>2 DEF ReadyHistory, ReadyKept
    <3>2. ReadyKey(a, c, w, "setFinalizer", c, c)
      BY <1>1, <3>1 DEF ReadyKey, ReadyEarly, ReadyLate, EarlyStages, FinalizeStages
    <3>3. QED
      BY <1>2, <2>1, <2>2, <3>2 DEF ReadyAt
  <2>3. CASE c.phase # "live"
    <3>1. Untouched(a) /\ Untouched(c) /\ \A i \in DOMAIN w : Untouched(w[i])
      BY <1>1, <2>3, AllAnew
    <3>2. ReadyKey(a, c, w, "finalizeKind", c, c)
      BY <1>1, <3>1 DEF ReadyKey, ReadyEarly, ReadyLate, EarlyStages, FinalizeStages
    <3>3. QED
      BY <1>2, <2>1, <2>3, <3>2 DEF ReadyAt
  <2>4. QED
    BY <2>2, <2>3
<1>5. QED
  BY <1>3, <1>4

\* The default finalizer is put on an object that has no manifest finalizer yet ...
LEMMA DefaultPutOn ==
  ASSUME NEW a \in Objects, a.phase = "live", ReadyKept(a), DefaultFirst(a),
         ~Has(a.fin, DefaultFinalizer),
         NEW o \in Objects, o = [a EXCEPT !.fin = Append(a.fin, DefaultFinalizer)]
  PROVE  /\ ~IsReady(Bumped(o)) /\ Has(Bumped(o).fin, DefaultFinalizer)
         /\ Committed(o) = Bumped(o) /\ ReadyKept(Committed(o)) /\ DefaultFirst(Committed(o))
<1>1. /\ a.fin \in Seq(Finalizers) /\ DefaultFinalizer \in Finalizers
  BY DEF Objects, Finalizers
<1>2. o.fin = Append(a.fin, DefaultFinalizer) /\ o.phase = "live" /\ o.status = a.status
  BY DEF Objects
<1>3. ~Has(a.fin, ManifestFinalizer) /\ ~IsReady(a) /\ InOrder(a.fin)
  BY DEF ReadyKept, DefaultFirst
<1>4. InOrder(o.fin) /\ Has(o.fin, DefaultFinalizer)
  BY <1>1, <1>2, <1>3, AppendedFin
<1>5. ReadyKept(o) /\ DefaultFirst(o)
  BY <1>2, <1>3, <1>4 DEF ReadyKept, DefaultFirst, IsReady
<1>6. /\ Bumped(o).status = a.status /\ Bumped(o).fin = o.fin
      /\ Committed(o) = Bumped(o)
  BY <1>2 DEF Bumped, Committed, Objects
<1>7. QED
  BY <1>3, <1>4, <1>5, <1>6, CommittedReady DEF IsReady

\* ... and taken off one that is being deleted, which stays held if it was Ready.
LEMMA DefaultTakenOff ==
  ASSUME NEW a \in Objects, a.phase = "deleting", NEW c \in Objects, c.status = a.status,
         ReadyKept(c), Has(c.fin, DefaultFinalizer),
         NEW o \in Objects,
         o = [a EXCEPT !.fin = SortedList(SetOf(c.fin) \ {DefaultFinalizer})]
  PROVE  /\ Renews(a, Committed(o))
         /\ IsReady(Bumped(o)) => Kept(Committed(o), Bumped(o).inc)
<1> DEFINE S == SetOf(c.fin) \ {DefaultFinalizer}
           fin == SortedList(S)
<1>1. /\ S \in SUBSET Finalizers /\ DefaultFinalizer \notin S
      /\ Has(c.fin, ManifestFinalizer) => ManifestFinalizer \in S
  <2>1. c.fin \in Seq(Finalizers)
    BY DEF Objects
  <2>2. QED
    BY <2>1, FinalizerSets
<1> HIDE DEF S
<1>2. /\ ~Has(fin, DefaultFinalizer) /\ InOrder(fin)
      /\ Has(c.fin, ManifestFinalizer) => Len(fin) > 0 /\ Has(fin, ManifestFinalizer)
  <2>1. SortedList(S) \in Seq(Finalizers)
    BY <1>1, SortedListFacts
  <2>2. QED
    BY <1>1, <2>1, SortedListFacts, SortedListNoDefault, FinalizerSets DEF ManifestFirst
<1> HIDE DEF fin
<1>3. o.fin = fin /\ o.phase = "deleting" /\ o.status = a.status
  BY DEF Objects, fin, S
<1>4. ReadyKept(o) /\ DefaultFirst(o) /\ Untouched(o)
  BY <1>2, <1>3 DEF ReadyKept, DefaultFirst, Untouched
<1>5. ASSUME IsReady(Bumped(o))
      PROVE  Kept(Committed(o), Bumped(o).inc)
  <2>1. /\ Bumped(o).status = a.status /\ Bumped(o).fin = fin
        /\ Bumped(o).phase = "deleting"
    BY <1>3 DEF Bumped, Objects
  <2>2. Has(c.fin, ManifestFinalizer)
    BY <1>5, <2>1 DEF ReadyKept, IsReady
  <2>3. Committed(o) = Bumped(o)
    BY <1>2, <1>3, <2>2 DEF Committed
  <2>4. QED
    BY <1>2, <2>1, <2>2, <2>3 DEF Kept, Exists
<1>6. QED
  BY <1>4, <1>5, CommittedReady DEF Renews

\* The patch of the default finalizer keeps the history good; the worker goes on
\* with the copy it has, with the zero object, or with the patch's reply.
LEMMA FilteredReady ==
  ASSUME IInv, CacheCurrent, NEW k \in Keys, ReadyAt(k), NEW r \in Objects,
         UpdateFinalizersFiltered(k, r),
         Has(r.fin, DefaultFinalizer) \/ Untouched(cache[k])
  PROVE  /\ ReadyHistory(api'[k], cache[k], watch'[k])
         /\ \/ /\ res'[k] = r /\ api'[k] = api[k] /\ watch'[k] = watch[k]
               /\ \/ ~Exists(cache[k])
                  \/ Has(r.fin, DefaultFinalizer) <=> Has(cache[k].fin, DefaultFinalizer)
            \/ res'[k] = Empty
            \/ /\ IsReady(res'[k]) => Kept(api'[k], res'[k].inc) /\ ~Has(r.fin, DefaultFinalizer)
               /\ Has(r.fin, DefaultFinalizer) =>
                    Has(res'[k].fin, DefaultFinalizer) /\ Has(api'[k].fin, DefaultFinalizer)
<1> DEFINE a == api[k]  c == cache[k]  w == watch[k]
           desired == Has(r.fin, DefaultFinalizer)
           fin == IF desired THEN Append(c.fin, DefaultFinalizer)
                  ELSE SortedList(SetOf(c.fin) \ {DefaultFinalizer})
           patched == [a EXCEPT !.fin = fin]
           b == Committed(patched)
<1>1. /\ TypeOK /\ HistoryOrdered(a, c, w) /\ ReadyHistory(a, c, w) /\ Current(a, c, w)
      /\ a \in Objects /\ c \in Objects /\ w \in Seq(Objects) /\ c.fin \in Seq(Finalizers)
  <2>1. TypeOK /\ HistoryOrdered(a, c, w) /\ ReadyHistory(a, c, w) /\ Current(a, c, w)
    BY DEF IInv, KeyInv, ReadyAt, ReadyKey, CacheCurrent
  <2>2. QED
    BY <2>1, KeyTyped DEF Objects
<1>2. patched \in Objects
  <2>1. DefaultFinalizer \in Finalizers /\ SetOf(c.fin) \ {DefaultFinalizer} \in SUBSET Finalizers
    BY <1>1, FinalizerSets
  <2>2. fin \in Seq(Finalizers)
    BY <1>1, <2>1, AppendFacts, SortedListFacts
  <2> HIDE DEF fin
  <2>3. QED
    BY <1>1, <2>2 DEF Objects
<1>3. CASE /\ ~Exists(c) \/ desired = Has(c.fin, DefaultFinalizer)
           /\ SetRes(k, r) /\ UNCHANGED <<api, watch, used>>
  <2>1. res'[k] = r
    BY <1>1, <1>3 DEF SetRes, TypeOK
  <2>2. QED
    BY <1>1, <1>3, <2>1
<1>4. CASE SetRes(k, Empty) /\ UNCHANGED <<api, watch, used>>
  BY <1>1, <1>4 DEF SetRes, TypeOK
<1>5. CASE /\ Exists(c) /\ desired # Has(c.fin, DefaultFinalizer)
           /\ ~(desired /\ a.phase = "deleting")
           /\ \E reply \in {"ok", "conflict", "notfound", "error"} :
                /\ Write(k, c.rv, patched, reply)
                /\ SetRes(k, IF reply = "ok" THEN Bumped(patched) ELSE Empty)
  <2>1. PICK reply \in {"ok", "conflict", "notfound", "error"} :
          /\ Write(k, c.rv, patched, reply)
          /\ SetRes(k, IF reply = "ok" THEN Bumped(patched) ELSE Empty)
    BY <1>5
  <2>2. /\ res'[k] = IF reply = "ok" THEN Bumped(patched) ELSE Empty
        /\ \/ api'[k] = a /\ watch'[k] = w /\ reply # "ok"
           \/ Exists(a) /\ a.rv = c.rv /\ api'[k] = b /\ watch'[k] = Append(w, b)
    BY <1>1, <1>2, <2>1, WriteEffect DEF SetRes, TypeOK
  <2>3. CASE api'[k] = a /\ watch'[k] = w /\ reply # "ok"
    BY <1>1, <2>2, <2>3
  <2>4. CASE Exists(a) /\ a.rv = c.rv /\ api'[k] = b /\ watch'[k] = Append(w, b)
    <3>1. Len(w) = 0 /\ c.phase = a.phase /\ c.status = a.status /\ (c.phase = "live" => c = a)
      BY <1>1, <2>4, CacheIsOlder DEF Current
    <3>2. b \in Objects /\ ReadyKept(a) /\ ReadyKept(c) /\ DefaultFirst(a)
      <4> HIDE DEF patched
      <4>1. QED
        BY <1>1, <1>2, CommittedTyped DEF ReadyHistory
    <3>3. CASE desired
      <4>1. /\ a.phase = "live" /\ c = a /\ ~Has(a.fin, DefaultFinalizer)
            /\ patched = [a EXCEPT !.fin = Append(a.fin, DefaultFinalizer)]
        BY <1>5, <2>4, <3>1, <3>3 DEF Exists
      <4>2. /\ ~IsReady(Bumped(patched)) /\ Has(Bumped(patched).fin, DefaultFinalizer)
            /\ b = Bumped(patched) /\ ReadyKept(b) /\ DefaultFirst(b)
        BY <1>1, <1>2, <3>2, <4>1, DefaultPutOn
      <4> HIDE DEF patched
      <4>3. ReadyHistory(b, c, Append(w, b))
        BY <1>1, <3>1, <3>2, <4>1, <4>2, ReadyGrows
      <4>4. QED
        BY <2>2, <2>4, <4>2, <4>3
    <3>4. CASE ~desired
      <4>1. Has(c.fin, DefaultFinalizer)
        BY <1>5, <3>4 DEF Has
      <4>2. a.phase = "deleting"
        BY <2>4, <3>1, <3>4, <4>1 DEF Untouched, Exists
      <4>3. patched = [a EXCEPT !.fin = SortedList(SetOf(c.fin) \ {DefaultFinalizer})]
        BY <3>4
      <4>4. Renews(a, b) /\ (IsReady(Bumped(patched)) => Kept(b, Bumped(patched).inc))
        BY <1>1, <1>2, <3>1, <3>2, <4>1, <4>2, <4>3, DefaultTakenOff
      <4> HIDE DEF patched
      <4>5. ReadyHistory(b, c, Append(w, b))
        BY <1>1, <3>2, <4>4, ReadyGrows DEF Renews
      <4>6. QED
        BY <2>2, <2>4, <3>4, <4>4, <4>5
    <3>5. QED
      BY <3>3, <3>4
  <2>5. QED
    BY <2>2, <2>3, <2>4
<1>6. QED
  BY <1>3, <1>4, <1>5 DEF UpdateFinalizersFiltered

\* The default finalizer is put on before the manifest one.
LEMMA SetFinalizerReady ==
  ASSUME IInv, CacheCurrent, NEW k \in Keys, ReadyAt(k), SetFinalizer(k)
  PROVE  ReadyAt(k)'
<1> DEFINE S == SetOf(res[k].fin) \cup {DefaultFinalizer}
           q == res[k]
           r == [q EXCEPT !.fin = SortedList(S)]
           a == api[k]  c == cache[k]  w == watch[k]
<1>1. /\ TypeOK /\ pc[k] = "setFinalizer" /\ cache'[k] = c /\ pc'[k] = "reconcileKind"
      /\ EarlyCopy(a, "setFinalizer", q) /\ ReadyEarly(a, c, "setFinalizer", q)
      /\ HistoryOrdered(a, c, w) /\ Current(a, c, w)
  <2>1. TypeOK /\ pc[k] = "setFinalizer" /\ cache'[k] = c /\ Goto(k, "reconcileKind")
    BY DEF SetFinalizer, At, IInv
  <2>2. QED
    BY <2>1 DEF Goto, TypeOK, IInv, KeyInv, ReadyAt, ReadyKey, CacheCurrent
<1>2. /\ q \in Objects /\ q.fin \in Seq(Finalizers) /\ q.rv \in Nat
      /\ a \in Objects /\ c \in Objects /\ w \in Seq(Objects) /\ a.rv \in Nat /\ c.rv \in Nat
  BY <1>1, KeyTyped DEF Objects
<1>3. S \in SUBSET Finalizers /\ DefaultFinalizer \in S
      /\ (ManifestFinalizer \in S <=> Has(q.fin, ManifestFinalizer))
  BY <1>2, FinalizerSets
<1> HIDE DEF S
<1>4. /\ r \in Objects /\ r.phase = q.phase /\ r.rv = q.rv /\ r.status = q.status
      /\ r.fin = SortedList(S)
  BY <1>2, <1>3, SortedListFacts DEF Objects
<1>5. UpdateFinalizersFiltered(k, r)
  BY DEF SetFinalizer, S
<1> HIDE DEF r
<1>6. /\ Has(r.fin, DefaultFinalizer)
      /\ Has(q.fin, ManifestFinalizer) => Has(r.fin, ManifestFinalizer)
  <2>1. SortedList(S) \in Seq(Finalizers)
    BY <1>3, SortedListFacts
  <2>2. QED
    BY <1>3, <1>4, <2>1, SortedListFacts, SortedListDefault, FinalizerSets
<1>7. /\ ReadyHistory(api'[k], c, watch'[k])
      /\ \/ /\ res'[k] = r /\ api'[k] = a /\ watch'[k] = w
            /\ ~Exists(c) \/ Has(c.fin, DefaultFinalizer)
         \/ res'[k] = Empty
         \/ /\ ~IsReady(res'[k])
            /\ Has(res'[k].fin, DefaultFinalizer) /\ Has(api'[k].fin, DefaultFinalizer)
  BY <1>4, <1>5, <1>6, FilteredReady
<1>8. ReadyEarly(api'[k], c, "reconcileKind", res'[k])
  <2>1. CASE /\ res'[k] = r /\ api'[k] = a /\ watch'[k] = w
             /\ ~Exists(c) \/ Has(c.fin, DefaultFinalizer)
    <3>1. IsReady(r) => Has(r.fin, ManifestFinalizer)
      BY <1>1, <1>4, <1>6 DEF ReadyEarly, IsReady, EarlyStages
    <3>2. ASSUME r.phase = "live", r.rv = a.rv
          PROVE  Has(a.fin, DefaultFinalizer)
      <4>1. q.rv <= c.rv /\ c.rv <= a.rv
        BY <1>1, <1>2, CacheIsOlder DEF ReadyEarly
      <4>2. c.rv = a.rv
        BY <1>2, <1>4, <3>2, <4>1
      <4>3. a.phase = "live"
        BY <1>1, <1>4, <3>2 DEF EarlyCopy, EarlyStages
      <4>4. c = a
        BY <1>1, <1>2, <4>2, <4>3, CacheIsOlder DEF Current
      <4>5. QED
        BY <2>1, <4>3, <4>4 DEF Exists
    <3>3. QED
      BY <1>6, <2>1, <3>1, <3>2 DEF ReadyEarly
  <2>2. CASE res'[k] = Empty
    <3>1. Empty.phase = "empty"
      BY DEF Empty
    <3>2. QED
      BY <2>2, <3>1, BlankReady DEF ReadyEarly
  <2>3. CASE /\ ~IsReady(res'[k])
             /\ Has(res'[k].fin, DefaultFinalizer) /\ Has(api'[k].fin, DefaultFinalizer)
    BY <2>3 DEF ReadyEarly
  <2>4. QED
    BY <1>7, <2>1, <2>2, <2>3
<1>9. ReadyKey(api'[k], c, watch'[k], "reconcileKind", res'[k], orig'[k])
  BY <1>7, <1>8 DEF ReadyKey, ReadyLate, FinalizeStages
<1>10. QED
  BY <1>1, <1>9 DEF ReadyAt

\* And taken off when the manifest one is gone.
LEMMA ClearFinalizerReady ==
  ASSUME IInv, CacheCurrent, NEW k \in Keys, ReadyAt(k), ClearFinalizer(k)
  PROVE  ReadyAt(k)'
<1> DEFINE S == SetOf(res[k].fin) \ GivenUp(err[k])
           q == res[k]
           r == [q EXCEPT !.fin = SortedList(S)]
           c == cache[k]
<1>1. /\ TypeOK /\ cache'[k] = c /\ pc'[k] = "syncStatus" /\ orig'[k] = orig[k]
      /\ orig[k].status = q.status /\ Untouched(c)
  <2>1. /\ TypeOK /\ pc[k] = "clearFinalizer" /\ cache'[k] = c /\ Goto(k, "syncStatus")
        /\ orig'[k] = orig[k]
    BY DEF ClearFinalizer, At, IInv
  <2>2. QED
    BY <2>1 DEF Goto, TypeOK, ReadyAt, ReadyKey, ReadyLate, FinalizeStages
<1>2. q \in Objects /\ q.fin \in Seq(Finalizers)
  BY <1>1, KeyTyped DEF Objects
<1>3. S \in SUBSET Finalizers
  BY <1>2, FinalizerSets
<1> HIDE DEF S
<1>4. r \in Objects /\ r.status = q.status
  BY <1>2, <1>3, SortedListFacts DEF Objects
<1>5. UpdateFinalizersFiltered(k, r)
  BY DEF ClearFinalizer, S
<1> HIDE DEF r
<1>6. /\ ReadyHistory(api'[k], c, watch'[k])
      /\ res'[k] = r \/ res'[k] = Empty \/ (IsReady(res'[k]) => Kept(api'[k], res'[k].inc))
  BY <1>1, <1>4, <1>5, FilteredReady
<1>7. IsReady(res'[k]) => orig[k].status = res'[k].status \/ Kept(api'[k], res'[k].inc)
  BY <1>1, <1>4, <1>6, BlankReady
<1>8. QED
  BY <1>1, <1>6, <1>7, ReadyToSync DEF ReadyAt

-----------------------------------------------------------------------------
(* The stages of ReconcileKind.                                             *)

\* The failure marks make the happy condition False, and initializing conditions
\* that are not there makes it Unknown.
LEMMA MarksNotReady ==
  ASSUME NEW c \in Conditions
  PROVE  ~IsTrue(MarkInstallFailed(c), Ready) /\ ~IsTrue(InitializeConditions(NoConditions), Ready)
<1>1. Ready \in ConditionTypes /\ \A t \in ConditionTypes : NoConditions[t] = "none"
  BY DEF ConditionTypes, NoConditions
<1>2. MarkInstallFailed(c)[Ready] = "False"
  BY <1>1 DEF MarkInstallFailed, MarkFalse, Conditions
<1>3. InitializeConditions(NoConditions)[Ready] = "Unknown"
  BY <1>1 DEF InitializeConditions
<1>4. QED
  BY <1>2, <1>3 DEF IsTrue

\* A worker that refuses the object it has found Ready has found it held.
LEMMA ReconcileKindReady ==
  ASSUME IInv, NEW k \in Keys, ReadyAt(k), ReconcileKind(k)
  PROVE  ReadyAt(k)'
<1> DEFINE a == api[k]  c == cache[k]  w == watch[k]  r == res[k]
<1>1. /\ TypeOK /\ ReadyHistory(a, c, w)
      /\ EarlyCopy(a, "reconcileKind", r) /\ ReadyEarly(a, c, "reconcileKind", r)
  BY DEF IInv, KeyInv, ReadyAt, ReadyKey, ReconcileKind, At
<1>2. r \in Objects /\ r.status.cond \in Conditions
  BY <1>1, KeyTyped DEF Objects, Statuses
<1>3. /\ api'[k] = a /\ cache'[k] = c /\ watch'[k] = w /\ orig'[k] = orig[k]
      /\ pc'[k] \in {"syncStatus", "ensureFinalizer"}
      /\ \/ res'[k] = r
         \/ pc'[k] = "syncStatus" /\ SetCond(k, MarkInstallFailed(r.status.cond))
  BY <1>1 DEF ReconcileKind, Goto, objects, TypeOK
<1>4. SetCond(k, MarkInstallFailed(r.status.cond)) => ~IsReady(res'[k])
  <2> DEFINE m == MarkInstallFailed(r.status.cond)
  <2>1. SetCond(k, m) => res'[k] = [r EXCEPT !.status.cond = m]
    BY <1>1 DEF SetCond, SetRes, TypeOK
  <2>2. ~IsTrue(m, Ready)
    BY <1>2, MarksNotReady
  <2> HIDE DEF m
  <2>3. [r EXCEPT !.status.cond = m].status.cond = m
    BY <1>2 DEF Objects, Statuses
  <2>4. QED
    BY <2>1, <2>2, <2>3 DEF IsReady, m
<1>5. IsReady(r) => Kept(a, r.inc)
  BY <1>1 DEF EarlyCopy, ReadyEarly, EarlyStages
<1>6. CASE pc'[k] = "syncStatus"
  BY <1>1, <1>3, <1>4, <1>5, <1>6, ReadyToSync DEF ReadyAt
<1>7. CASE pc'[k] = "ensureFinalizer"
  <2>1. ReadyEarly(a, c, "ensureFinalizer", r)
    BY <1>1 DEF ReadyEarly, EarlyStages
  <2>2. ReadyKey(a, c, w, "ensureFinalizer", r, orig[k])
    BY <1>1, <2>1 DEF ReadyKey, ReadyLate, FinalizeStages
  <2>3. QED
    BY <1>3, <1>7, <2>2 DEF ReadyAt
<1>8. QED
  BY <1>3, <1>6, <1>7

\* The manifest finalizer goes on behind the default finalizer.
LEMMA EnsureFinalizerReady ==
  ASSUME IInv, NEW k \in Keys, ReadyAt(k), EnsureFinalizer(k)
  PROVE  ReadyAt(k)'
<1> DEFINE a == api[k]  c == cache[k]  w == watch[k]  r == res[k]
           fin == Append(r.fin, ManifestFinalizer)
           stored == [a EXCEPT !.fin = fin]
           b == Committed(stored)
           q == [r EXCEPT !.fin = fin]
<1>1. /\ TypeOK /\ HistoryOrdered(a, c, w) /\ ReadyHistory(a, c, w)
      /\ EarlyCopy(a, "ensureFinalizer", r) /\ ReadyEarly(a, c, "ensureFinalizer", r)
  BY DEF IInv, KeyInv, ReadyAt, ReadyKey, EnsureFinalizer, At
<1>2. /\ a \in Objects /\ c \in Objects /\ w \in Seq(Objects) /\ r \in Objects
      /\ r.fin \in Seq(Finalizers)
  BY <1>1, KeyTyped DEF Objects
<1>3. cache'[k] = c /\ orig'[k] = orig[k]
  BY DEF EnsureFinalizer
<1>4. CASE ManifestAttached(r.fin)
  <2>1. api'[k] = a /\ watch'[k] = w /\ pc'[k] = "initStatus"
    BY <1>1, <1>4 DEF EnsureFinalizer, Goto, TypeOK
  <2>2. QED
    BY <1>1, <1>3, <2>1, ReadyAtRest DEF ReadyAt, InstallStages
<1>5. CASE ~ManifestAttached(r.fin)
  <2>1. ~Has(r.fin, ManifestFinalizer) /\ InOrder(r.fin) /\ ~IsReady(r)
    BY <1>1, <1>5 DEF ManifestAttached, Has, InOrder, ReadyEarly, EarlyStages
  <2>2. /\ fin \in Seq(Finalizers) /\ InOrder(fin) /\ Has(fin, ManifestFinalizer)
        /\ Has(r.fin, DefaultFinalizer) => Has(fin, DefaultFinalizer)
    BY <1>2, <2>1, AppendedFin, FinalizerSets DEF Finalizers
  <2>3. /\ SetRes(k, q) /\ pc'[k] \in {"initStatus", "syncStatus"}
        /\ \/ UNCHANGED <<api, watch>>
           \/ r.phase # "empty" /\ \E reply : Write(k, r.rv, stored, reply)
    BY <1>1, <1>5 DEF EnsureFinalizer, Goto, TypeOK
  <2> HIDE DEF fin
  <2>4. ~IsReady(res'[k])
    <3>1. res'[k] = q /\ q.status = r.status
      BY <1>1, <1>2, <2>3 DEF SetRes, TypeOK, Objects
    <3>2. QED
      BY <2>1, <3>1 DEF IsReady
  <2>5. ReadyHistory(api'[k], c, watch'[k])
    <3>1. CASE UNCHANGED <<api, watch>>
      BY <1>1, <3>1
    <3>2. CASE r.phase # "empty" /\ \E reply : Write(k, r.rv, stored, reply)
      <4>1. /\ stored \in Objects /\ stored.fin = fin /\ stored.phase = a.phase
            /\ stored.status = a.status
        BY <1>2, <2>2 DEF Objects
      <4> HIDE DEF stored
      <4>2. \/ api'[k] = a /\ watch'[k] = w
            \/ a.rv = r.rv /\ api'[k] = b /\ watch'[k] = Append(w, b)
        BY <1>1, <3>2, <4>1, WriteEffect
      <4>3. ASSUME a.rv = r.rv
            PROVE  ReadyHistory(b, c, Append(w, b))
        <5>1. r.phase = "live" /\ a.phase = "live"
          BY <1>1, <3>2, <4>3 DEF EarlyCopy, EarlyStages
        <5>2. Has(r.fin, DefaultFinalizer) /\ Has(a.fin, DefaultFinalizer)
          BY <1>1, <4>3, <5>1 DEF ReadyEarly
        <5>3. ReadyKept(stored) /\ DefaultFirst(stored) /\ ~Untouched(a)
          BY <2>2, <4>1, <5>1, <5>2 DEF ReadyKept, DefaultFirst, Untouched
        <5>4. ReadyKept(b) /\ DefaultFirst(b) /\ b \in Objects
          BY <4>1, <5>3, CommittedReady, CommittedTyped
        <5>5. QED
          BY <1>1, <1>2, <5>3, <5>4, ReadyGrows
      <4>4. QED
        BY <1>1, <4>2, <4>3
    <3>3. QED
      BY <2>3, <3>1, <3>2
  <2>6. CASE pc'[k] = "initStatus"
    BY <1>3, <2>5, <2>6, ReadyAtRest DEF ReadyAt, InstallStages
  <2>7. CASE pc'[k] = "syncStatus"
    BY <1>3, <2>4, <2>5, <2>7, ReadyToSync DEF ReadyAt
  <2>8. QED
    BY <2>3, <2>6, <2>7
<1>6. QED
  BY <1>4, <1>5

\* An object with another status, which is not Ready unless the object is held.
LEMMA StatusRenews ==
  ASSUME NEW a \in Objects, ReadyKept(a), DefaultFirst(a), NEW st \in Statuses,
         IsTrue(st.cond, Ready) => Has(a.fin, ManifestFinalizer)
  PROVE  Renews(a, Committed([a EXCEPT !.status = st]))
<1> DEFINE o == [a EXCEPT !.status = st]
<1>1. o \in Objects /\ o.status = st /\ o.fin = a.fin /\ o.phase = a.phase
  BY DEF Objects
<1> HIDE DEF o
<1>2. ReadyKept(o) /\ DefaultFirst(o) /\ (Untouched(a) => Untouched(o))
  BY <1>1 DEF ReadyKept, DefaultFirst, Untouched, IsReady
<1>3. QED
  BY <1>1, <1>2, CommittedReady DEF Renews, o

\* A request to write such a status keeps the history good.
LEMMA StatusReady ==
  ASSUME IInv, NEW k \in Keys, ReadyAt(k), NEW rv, NEW st \in Statuses, NEW reply,
         Write(k, rv, [api[k] EXCEPT !.status = st], reply),
         IsTrue(st.cond, Ready) => Has(api[k].fin, ManifestFinalizer)
  PROVE  ReadyHistory(api'[k], cache[k], watch'[k])
<1> DEFINE a == api[k]  c == cache[k]  w == watch[k]
           o == [a EXCEPT !.status = st]
           b == Committed(o)
<1>1. /\ TypeOK /\ HistoryOrdered(a, c, w) /\ ReadyHistory(a, c, w)
      /\ ReadyKept(a) /\ DefaultFirst(a)
  BY DEF IInv, KeyInv, ReadyAt, ReadyKey, ReadyHistory
<1>2. a \in Objects /\ c \in Objects /\ w \in Seq(Objects) /\ o \in Objects
  BY <1>1, KeyTyped, StatusFollows
<1>3. Renews(a, b)
  BY <1>1, <1>2, StatusRenews
<1>4. Write(k, rv, o, reply)
  OBVIOUS
<1> HIDE DEF o
<1>5. \/ api'[k] = a /\ watch'[k] = w
      \/ api'[k] = b /\ watch'[k] = Append(w, b)
  BY <1>1, <1>2, <1>4, WriteEffect
<1>6. ReadyHistory(b, c, Append(w, b))
  BY <1>1, <1>2, <1>3, CommittedTyped, ReadyGrows DEF Renews
<1>7. QED
  BY <1>1, <1>5, <1>6

\* The first status says Unknown.
LEMMA InitStatusReady ==
  ASSUME IInv, NEW k \in Keys, ReadyAt(k), InitStatus(k)
  PROVE  ReadyAt(k)'
<1> DEFINE status == [res[k].status EXCEPT !.cond = InitializeConditions(@)]
           stored == [api[k] EXCEPT !.status = status]
           kept == [res[k] EXCEPT !.status = status]
<1>1. TypeOK /\ ReadyHistory(api[k], cache[k], watch[k])
  BY DEF IInv, ReadyAt, ReadyKey
<1>2. res[k] \in Objects /\ res[k].status \in Statuses /\ res[k].status.cond \in Conditions
  BY <1>1, KeyTyped DEF Objects, Statuses
<1>3. cache'[k] = cache[k] /\ orig'[k] = orig[k]
  BY DEF InitStatus
<1>4. CASE res[k].status.cond # NoConditions
  <2>1. UNCHANGED <<api, watch>> /\ Goto(k, "install")
    BY <1>4 DEF InitStatus
  <2>2. pc'[k] = "install"
    BY <1>1, <2>1 DEF Goto, TypeOK
  <2>3. QED
    BY <1>1, <1>3, <2>1, <2>2, ReadyAtRest DEF ReadyAt, InstallStages
<1>5. CASE res[k].status.cond = NoConditions
  <2>1. status \in Statuses /\ ~IsTrue(status.cond, Ready)
    <3>1. status.cond = InitializeConditions(NoConditions)
      BY <1>2, <1>5 DEF Statuses
    <3>2. status \in Statuses
      BY <1>2, ConditionsTyped DEF Statuses
    <3>3. QED
      BY <1>2, <3>1, <3>2, MarksNotReady
  <2>2. PICK reply \in {"ok", "conflict", "notfound", "error"} :
          /\ Write(k, res[k].rv, stored, reply)
          /\ IF reply = "ok" THEN Goto(k, "install")
             ELSE SetRes(k, kept) /\ Goto(k, "syncStatus")
    BY <1>5 DEF InitStatus
  <2> HIDE DEF status
  <2>3. ReadyHistory(api'[k], cache[k], watch'[k])
    BY <2>1, <2>2, StatusReady
  <2>4. kept.status = status
    BY <1>2 DEF Objects
  <2>5. \/ pc'[k] = "install"
        \/ pc'[k] = "syncStatus" /\ res'[k] = kept
    BY <1>1, <2>2 DEF Goto, SetRes, TypeOK
  <2> HIDE DEF kept
  <2>6. CASE pc'[k] = "install"
    BY <1>3, <2>3, <2>6, ReadyAtRest DEF ReadyAt, InstallStages
  <2>7. CASE pc'[k] = "syncStatus" /\ res'[k] = kept
    <3>1. ~IsReady(res'[k])
      BY <2>1, <2>4, <2>7 DEF IsReady
    <3>2. QED
      BY <1>3, <2>3, <2>7, <3>1, ReadyToSync DEF ReadyAt
  <2>8. QED
    BY <2>5, <2>6, <2>7
<1>6. QED
  BY <1>4, <1>5

\* What is installed is installed for an object that is held.
LEMMA InstallReady ==
  ASSUME IInv, NEW k \in Keys, ReadyAt(k),
         Install(k) \/ CheckDeployments(k) \/ DeleteObsoleteResources(k)
  PROVE  ReadyAt(k)'
<1>1. TypeOK /\ ReadyHistory(api[k], cache[k], watch[k]) /\ Kept(api[k], res[k].inc)
  <2>1. pc[k] \in InstallStages
    BY DEF Install, CheckDeployments, DeleteObsoleteResources, At, InstallStages
  <2>2. QED
    BY <2>1 DEF IInv, KeyInv, Protected, ReadyAt, ReadyKey
<1>2. UNCHANGED <<api, cache, watch, orig>>
  BY DEF Install, CheckDeployments, DeleteObsoleteResources, objects
<1>3. pc'[k] \in InstallStages \cup {"syncStatus"}
  <2>1. UNCHANGED pc \/ \E s \in InstallStages \cup {"syncStatus"} : Goto(k, s)
    BY DEF Install, CheckDeployments, DeleteObsoleteResources, InstallStages
  <2>2. pc[k] \in InstallStages
    BY DEF Install, CheckDeployments, DeleteObsoleteResources, At, InstallStages
  <2>3. QED
    BY <1>1, <2>1, <2>2 DEF Goto, TypeOK
<1>4. res'[k].inc = res[k].inc
  <2>1. \A o : SetRes(k, o) => res'[k] = o
    BY <1>1 DEF SetRes, TypeOK
  <2>2. [res[k] EXCEPT !.status = Installed(@)].inc = res[k].inc
    BY <1>1, KeyTyped DEF Objects
  <2>3. QED
    BY <1>1, <2>1, <2>2, SetCondEffect DEF Install, CheckDeployments, DeleteObsoleteResources
<1>5. CASE pc'[k] \in InstallStages
  BY <1>1, <1>2, <1>5, ReadyAtRest DEF ReadyAt
<1>6. CASE pc'[k] = "syncStatus"
  BY <1>1, <1>2, <1>4, <1>6, ReadyToSync DEF ReadyAt
<1>7. QED
  BY <1>3, <1>5, <1>6

-----------------------------------------------------------------------------
(* FinalizeKind, delete and updateStatus.                                   *)

\* FinalizeKind and delete touch the cluster only.
LEMMA FinalizeKindReady ==
  ASSUME IInv, NEW k \in Keys, ReadyAt(k), FinalizeKind(k) \/ Delete(k)
  PROVE  ReadyAt(k)'
<1>1. TypeOK /\ pc[k] \in FinalizeStages
  BY DEF IInv, FinalizeKind, Delete, At, FinalizeStages
<1>2. UNCHANGED <<api, cache, watch, res, orig>>
  BY DEF FinalizeKind, Delete, objects
<1>3. pc'[k] \in FinalizeStages
  BY <1>1 DEF FinalizeKind, Delete, Goto, TypeOK, FinalizeStages
<1>4. QED
  BY <1>1, <1>2, <1>3 DEF ReadyAt, ReadyKey, ReadyEarly, ReadyLate, FinalizeStages, EarlyStages

\* The manifest finalizer goes when no default finalizer is behind it, so from an
\* object that the default finalizer has left before.
LEMMA ReleaseReady ==
  ASSUME IInv, NEW k \in Keys, ReadyAt(k), Release(k)
  PROVE  ReadyAt(k)'
<1> DEFINE a == api[k]  c == cache[k]  w == watch[k]
           fin == Tail(c.fin)
           stored == [a EXCEPT !.fin = fin]
           d == [c EXCEPT !.fin = fin]
           b == Committed(stored)
<1>1. /\ TypeOK /\ HistoryOrdered(a, c, w) /\ ReadyHistory(a, c, w) /\ Doomed(c)
      /\ ReadyLate(a, c, w, "release", res[k], orig[k])
  BY DEF Release, At, IInv, KeyInv, Finalizing, ReadyAt, ReadyKey
<1>2. /\ a \in Objects /\ c \in Objects /\ w \in Seq(Objects) /\ c.fin \in Seq(Finalizers)
  BY <1>1, KeyTyped DEF Objects
<1>3. /\ c.phase = "deleting" /\ Exists(c) /\ ManifestFirst(c.fin) /\ Len(c.fin) > 0
      /\ orig[k].status = res[k].status
      /\ Untouched(a) /\ \A i \in DOMAIN w : Untouched(w[i])
  BY <1>1 DEF Doomed, Exists, ManifestFirst, ReadyLate, FinalizeStages
<1>4. fin \in Seq(Finalizers) /\ InOrder(fin) /\ ~Has(fin, DefaultFinalizer)
  <2>1. InOrder(c.fin)
    BY <1>1 DEF ReadyHistory, DefaultFirst
  <2>2. QED
    BY <1>2, <1>3, <2>1, TailFin
<1>5. /\ cache'[k] = d /\ pc'[k] = "clearFinalizer" /\ UNCHANGED <<res, orig>>
      /\ \E reply : Write(k, c.rv, stored, reply)
  BY <1>1, <1>3 DEF Release, Goto, TypeOK
<1> HIDE DEF fin
<1>6. /\ stored \in Objects /\ stored.fin = fin /\ stored.phase = a.phase
      /\ d \in Objects /\ d.fin = fin /\ d.phase = "deleting"
  BY <1>2, <1>3, <1>4 DEF Objects
<1> HIDE DEF stored, d
<1>7. ReadyKept(d) /\ DefaultFirst(d) /\ Untouched(d)
  BY <1>4, <1>6 DEF ReadyKept, DefaultFirst, Untouched
<1>8. \/ api'[k] = a /\ watch'[k] = w
      \/ Exists(a) /\ a.rv = c.rv /\ api'[k] = b /\ watch'[k] = Append(w, b)
  BY <1>1, <1>5, <1>6, WriteEffect
<1>9. /\ ReadyHistory(api'[k], c, watch'[k])
      /\ Untouched(api'[k]) /\ \A i \in DOMAIN watch'[k] : Untouched(watch'[k][i])
  <2>1. CASE api'[k] = a /\ watch'[k] = w
    BY <1>1, <1>3, <2>1
  <2>2. CASE Exists(a) /\ a.rv = c.rv /\ api'[k] = b /\ watch'[k] = Append(w, b)
    <3>1. a.phase = "deleting"
      BY <1>1, <1>2, <1>3, <2>2, CacheIsOlder
    <3>2. ReadyKept(stored) /\ DefaultFirst(stored) /\ Untouched(stored)
      BY <1>4, <1>6, <3>1 DEF ReadyKept, DefaultFirst, Untouched
    <3>3. ReadyKept(b) /\ DefaultFirst(b) /\ Untouched(b) /\ b \in Objects
      BY <1>6, <3>2, CommittedReady, CommittedTyped
    <3>4. ReadyHistory(b, c, Append(w, b))
      BY <1>1, <1>2, <3>3, ReadyGrows
    <3>5. \A i \in DOMAIN Append(w, b) : Untouched(Append(w, b)[i])
      BY <1>2, <1>3, <3>3, AppendChange
    <3>6. QED
      BY <2>2, <3>3, <3>4, <3>5
  <2>3. QED
    BY <1>8, <2>1, <2>2
<1>10. ReadyHistory(api'[k], d, watch'[k])
  BY <1>7, <1>9 DEF ReadyHistory, Anew
<1>11. ReadyKey(api'[k], d, watch'[k], "clearFinalizer", res[k], orig[k])
  BY <1>3, <1>7, <1>9, <1>10 DEF ReadyKey, ReadyEarly, ReadyLate, EarlyStages, FinalizeStages
<1>12. QED
  BY <1>5, <1>11 DEF ReadyAt

\* What is written differs from what the worker started from, so if it is Ready
\* the object is held; and it stays held when the write has to be tried again.
LEMMA SyncStatusReady ==
  ASSUME IInv, NEW k \in Keys, ReadyAt(k), SyncStatus(k)
  PROVE  ReadyAt(k)'
<1> DEFINE a == api[k]  c == cache[k]  w == watch[k]  r == res[k]
           stored == [a EXCEPT !.status = r.status]
<1>1. /\ TypeOK /\ ReadyHistory(a, c, w) /\ cache'[k] = c
      /\ IsReady(r) => orig[k].status = r.status \/ Kept(a, r.inc)
  BY DEF IInv, ReadyAt, ReadyKey, ReadyLate, SyncStatus, At
<1>2. r.status \in Statuses
  BY <1>1, KeyTyped DEF Objects
<1>3. \A failed : Done(k, failed) => pc'[k] = "idle"
  BY <1>1 DEF Done, Goto, TypeOK
<1>4. CASE orig[k].status = r.status
  <2>1. UNCHANGED <<api, watch>> /\ pc'[k] = "idle"
    BY <1>3, <1>4 DEF SyncStatus
  <2>2. QED
    BY <1>1, <2>1, ReadyAtRest DEF ReadyAt
<1>5. CASE orig[k].status # r.status
  <2>1. PICK reply :
          /\ Write(k, orig[k].rv, stored, reply)
          /\ \/ reply = "conflict" /\ Goto(k, "getStatus") /\ UNCHANGED <<orig, res>>
             \/ \E failed : Done(k, failed)
    BY <1>5 DEF SyncStatus
  <2>2. IsReady(r) => Kept(a, r.inc)
    BY <1>1, <1>5
  <2>3. ReadyHistory(api'[k], c, watch'[k])
    BY <1>2, <2>1, <2>2, StatusReady DEF Kept, IsReady
  <2>4. CASE \E failed : Done(k, failed)
    BY <1>1, <1>3, <2>3, <2>4, ReadyAtRest DEF ReadyAt
  <2>5. CASE reply = "conflict" /\ Goto(k, "getStatus") /\ UNCHANGED <<orig, res>>
    <3>1. UNCHANGED <<api, watch>>
      BY <2>1, <2>5 DEF Write
    <3>2. pc'[k] = "getStatus"
      BY <1>1, <2>5 DEF Goto, TypeOK
    <3>3. ReadyKey(a, c, w, "getStatus", r, orig[k])
      BY <1>1, <2>2 DEF ReadyKey, ReadyEarly, ReadyLate, EarlyStages, FinalizeStages
    <3>4. QED
      BY <1>1, <2>5, <3>1, <3>2, <3>3 DEF ReadyAt
  <2>6. QED
    BY <2>1, <2>4, <2>5
<1>6. QED
  BY <1>4, <1>5

\* updateStatus fetches the stored object, whichever it is.
LEMMA GetStatusReady ==
  ASSUME IInv, NEW k \in Keys, ReadyAt(k), GetStatus(k)
  PROVE  ReadyAt(k)'
<1>1. /\ TypeOK /\ ReadyHistory(api[k], cache[k], watch[k])
      /\ IsReady(res[k]) => Kept(api[k], res[k].inc)
  BY DEF IInv, ReadyAt, ReadyKey, ReadyLate, GetStatus, At
<1>2. UNCHANGED <<api, cache, watch>>
  BY DEF GetStatus, objects
<1>3. \/ pc'[k] = "idle"
      \/ pc'[k] = "syncStatus" /\ UNCHANGED res
  BY <1>1 DEF GetStatus, Done, Goto, TypeOK
<1>4. QED
  BY <1>1, <1>2, <1>3, ReadyAtRest, ReadyToSync DEF ReadyAt

-----------------------------------------------------------------------------
(* The theorems.                                                            *)

\* All steps of a worker.
LEMMA WorkerReady ==
  ASSUME IInv, CacheCurrent, NEW k \in Keys, ReadyAt(k), WorkerStep(k)
  PROVE  ReadyAt(k)'
  BY SetFinalizerReady, ReconcileKindReady, EnsureFinalizerReady, InitStatusReady, InstallReady,
     FinalizeKindReady, ReleaseReady, ClearFinalizerReady, SyncStatusReady, GetStatusReady
  DEF WorkerStep

\* Nothing is Ready at first.
LEMMA InitReady == Init => ReadyInv
<1> SUFFICES ASSUME Init, NEW k \in Keys \ LegacyKeys PROVE ReadyAt(k)
  BY DEF ReadyInv, ReadyAt
<1>1. /\ api[k] = Gone(0, 0) /\ cache[k] = Gone(0, 0) /\ watch[k] = <<>> /\ pc[k] = "idle"
  BY DEF Init
<1>2. ReadyHistory(Gone(0, 0), Gone(0, 0), <<>>)
  BY BlankReady DEF ReadyHistory
<1>3. QED
  BY <1>1, <1>2, ReadyAtRest DEF ReadyAt

\* Every step keeps the invariant.
LEMMA StepReady ==
  ASSUME IInv, CacheCurrent, ReadyInv, [Next]_vars
  PROVE  ReadyInv'
<1>1. TypeOK /\ \A k \in Keys \ LegacyKeys : ReadyAt(k)
  BY DEF IInv, ReadyInv, ReadyAt
<1>2. CASE UNCHANGED vars
  BY <1>2 DEF vars, ReadyInv
<1>3. CASE Restart
  <2>1. \A k \in Keys \ LegacyKeys : ReadyAt(k)'
    BY <1>1, <1>3, RestartReady
  <2>2. QED
    BY <2>1 DEF ReadyInv, ReadyAt
<1>4. ASSUME NEW k \in Keys, Environment(k) \/ Informer(k)
      PROVE  ReadyInv'
  BY <1>1, <1>4, OutsideElsewhere, EnvironmentReady, InformerReady, ReadyFrame
<1>5. ASSUME NEW k \in Keys, Reconcile(k) \/ WorkerStep(k)
      PROVE  ReadyInv'
  BY <1>1, <1>5, WorkerElsewhere, ReconcileReady, WorkerReady, ReadyFrame
<1>6. QED
  BY <1>2, <1>3, <1>4, <1>5 DEF Next

\* However stale the copies that workers compute statuses from (reconciler.go,
\* updateStatus), and however finalizers come and go (setFinalizerIfFinalizer,
\* ensureFinalizer, delete, clearFinalizer), ReadyInv holds.
THEOREM ReadyInvariant == Spec => []ReadyInv
<1>1. Init => ReadyInv
  BY InitReady
<1>2. IInv /\ CacheCurrent /\ ReadyInv /\ [Next]_vars => ReadyInv'
  BY StepReady
<1>3. QED
  BY <1>1, <1>2, Invariant, CacheIsCurrent, PTL DEF Spec

\* A KnativeServing that reports Ready, and that no earlier operator left, has the
\* finalizer that makes its deletion go through FinalizeKind (knativeserving.go).
THEOREM ReadyAlwaysProtected == Spec => []ReadyIsProtected
<1>1. ReadyInv => ReadyIsProtected
  BY DEF ReadyInv, ReadyKey, ReadyHistory, ReadyKept, IsReady, ReadyIsProtected
<1>2. QED
  BY <1>1, ReadyInvariant, PTL

-----------------------------------------------------------------------------
(* One KnativeServing: the order of roles and bindings.                      *)

\* The list of install begins with the role, and has all that an uninstall removes;
\* that of delete has the binding before the role.
LEMMA ListsInOrder ==
  /\ Ahead("role", "binding", ApplyOrder) /\ Ahead("binding", "role", DeleteOrder)
  /\ Uninstalled \subseteq {ApplyOrder[i] : i \in DOMAIN ApplyOrder}
<1> DEFINE rbac == <<"role">> \o <<"binding">>
           all == <<"crd", "role", "binding", "deployment", "webhook">>
           others == <<"deployment">> \o <<"webhook", "deployment">>
           last == <<"binding", "role">>
<1>1. /\ rbac \in Seq(Resources) /\ all \in Seq(Resources)
      /\ Len(rbac) = 2 /\ rbac[1] = "role" /\ rbac[2] = "binding"
      /\ Len(all) = 5 /\ all[5] = "webhook"
  BY DEF Resources
<1>2. /\ others \in Seq(Resources) /\ last \in Seq(Resources)
      /\ Len(others) = 3 /\ (\A i \in 1 .. 3 : others[i] # "role")
      /\ Len(last) = 2 /\ last[1] = "binding" /\ last[2] = "role"
  BY DEF Resources
<1>3. ApplyOrder = rbac \o all /\ DeleteOrder = others \o last
  BY DEF ApplyOrder, DeleteOrder
<1> HIDE DEF rbac, all, others, last
<1> DEFINE first == rbac \o all
           reverse == others \o last
<1>4. /\ DOMAIN ApplyOrder = 1 .. 7 /\ ApplyOrder[1] = "role" /\ ApplyOrder[2] = "binding"
      /\ ApplyOrder[7] = "webhook"
  <2>1. /\ first \in Seq(Resources) /\ Len(first) = Len(rbac) + Len(all)
        /\ \A i \in 1 .. Len(rbac) + Len(all) :
             first[i] = IF i <= Len(rbac) THEN rbac[i] ELSE all[i - Len(rbac)]
    BY <1>1, ConcatProperties
  <2> HIDE DEF first
  <2>2. DOMAIN first = 1 .. 7
    BY <1>1, <2>1
  <2>3. first[1] = rbac[1] /\ first[2] = rbac[2] /\ first[7] = all[5]
    BY <1>1, <2>1
  <2>4. ApplyOrder = first
    BY <1>3 DEF first
  <2>5. QED
    BY <1>1, <2>2, <2>3, <2>4
<1>5. /\ DOMAIN DeleteOrder = 1 .. 5 /\ DeleteOrder[4] = "binding"
      /\ \A i \in 1 .. 4 : DeleteOrder[i] # "role"
  <2>1. /\ reverse \in Seq(Resources) /\ Len(reverse) = Len(others) + Len(last)
        /\ \A i \in 1 .. Len(others) + Len(last) :
             reverse[i] = IF i <= Len(others) THEN others[i] ELSE last[i - Len(others)]
    BY <1>2, ConcatProperties
  <2> HIDE DEF reverse
  <2>2. DOMAIN reverse = 1 .. 5 /\ reverse[4] = "binding"
    BY <1>2, <2>1
  <2>3. \A i \in 1 .. 4 : reverse[i] # "role"
    BY <1>2, <2>1
  <2>4. DeleteOrder = reverse
    BY <1>3 DEF reverse
  <2>5. QED
    BY <2>2, <2>3, <2>4
<1>6. Ahead("role", "binding", ApplyOrder)
  BY <1>4 DEF Ahead
<1>7. Ahead("binding", "role", DeleteOrder)
  BY <1>5 DEF Ahead
<1>8. QED
  BY <1>4, <1>6, <1>7 DEF Uninstalled

\* What is done with the head of a list leaves the rest in order.
LEMMA AheadInTail ==
  ASSUME NEW l \in Seq(Resources), Len(l) > 0, NEW r, NEW s, Ahead(r, s, l), Head(l) # r
  PROVE  Head(l) # s /\ Ahead(r, s, Tail(l))
<1> DEFINE t == Tail(l)
<1>1. /\ 1 \in DOMAIN l /\ Head(l) = l[1] /\ \A i \in DOMAIN l : i \in Nat /\ 1 <= i
      /\ \A i \in DOMAIN t : i \in Nat /\ i + 1 \in DOMAIN l /\ t[i] = l[i + 1]
      /\ \A i \in DOMAIN l : i > 1 => i - 1 \in DOMAIN t /\ t[i - 1] = l[i]
  OBVIOUS
<1> HIDE DEF t
<1>2. Head(l) # s
  BY <1>1 DEF Ahead
<1>3. ASSUME NEW i \in DOMAIN t, t[i] = s
      PROVE  \E j \in DOMAIN t : j < i /\ t[j] = r
  <2>1. PICK j \in DOMAIN l : j < i + 1 /\ l[j] = r
    BY <1>1, <1>3 DEF Ahead
  <2>2. j > 1
    BY <1>1, <2>1
  <2>3. j - 1 \in DOMAIN t /\ t[j - 1] = r /\ j - 1 < i
    BY <1>1, <2>1, <2>2
  <2>4. QED
    BY <2>3
<1>4. QED
  BY <1>2, <1>3 DEF Ahead, t

\* Only install and delete work on their lists, and each begins with its order.
LEMMA ListsKept ==
  ASSUME TypeOK, NEW k \in Keys,
         Environment(k) \/ Informer(k) \/ Reconcile(k) \/ WorkerStep(k),
         ~Install(k), ~Delete(k)
  PROVE  /\ pc'[k] = "install" => todo'[k] = ApplyOrder \/ (pc[k] = "install" /\ todo'[k] = todo[k])
         /\ pc'[k] = "delete" => todo'[k] = DeleteOrder \/ (pc[k] = "delete" /\ todo'[k] = todo[k])
         /\ cluster' = cluster \/ DeleteObsoleteResources(k)
<1>1. ASSUME NEW s, Goto(k, s)
      PROVE  pc'[k] = s
  BY <1>1 DEF Goto, TypeOK
<1>2. CASE Environment(k) \/ Informer(k)
  <2>1. UNCHANGED <<cluster, pc, todo>>
    BY <1>2 DEF Environment, CreateCR, EditSpec, DeleteCR, DeploymentUp, CollectDeployment,
        ForegroundDone, DeploymentLost, Informer, WatchEvent, Relist, Resync, worker, manifest
  <2>2. QED
    BY <2>1
<1>3. CASE Reconcile(k) \/ SetFinalizer(k) \/ ClearFinalizer(k) \/ Release(k) \/ EnsureFinalizer(k)
           \/ ReconcileKind(k) \/ CheckDeployments(k) \/ SyncStatus(k) \/ GetStatus(k)
  <2>1. cluster' = cluster
    BY <1>3 DEF Reconcile, SetFinalizer, ClearFinalizer, Release, EnsureFinalizer, ReconcileKind,
        CheckDeployments, SyncStatus, GetStatus, manifest
  <2>2. \/ pc'[k] \notin {"install", "delete"}
        \/ pc'[k] = pc[k] /\ todo'[k] = todo[k]
    <3>1. CASE Reconcile(k)
      BY <1>1, <3>1 DEF Reconcile
    <3>2. CASE SyncStatus(k) \/ GetStatus(k)
      BY <1>1, <3>2 DEF SyncStatus, GetStatus, Done
    <3>3. QED
      BY <1>1, <1>3, <3>1, <3>2 DEF SetFinalizer, ClearFinalizer, Release, EnsureFinalizer, ReconcileKind,
         CheckDeployments
  <2>3. QED
    BY <2>1, <2>2
<1>4. CASE InitStatus(k)
  <2>1. cluster' = cluster
    BY <1>4 DEF InitStatus, manifest
  <2>2. \/ pc'[k] = "install" /\ todo'[k] = ApplyOrder
        \/ pc'[k] = "syncStatus"
    BY <1>1, <1>4 DEF InitStatus, TypeOK
  <2>3. QED
    BY <2>1, <2>2
<1>5. CASE DeleteObsoleteResources(k)
  BY <1>1, <1>5 DEF DeleteObsoleteResources
<1>6. CASE FinalizeKind(k)
  <2>1. cluster' = cluster
    BY <1>6 DEF FinalizeKind, manifest
  <2>2. \/ pc'[k] = "delete" /\ todo'[k] = DeleteOrder
        \/ pc'[k] \in {"release", "clearFinalizer"}
    BY <1>1, <1>6 DEF FinalizeKind, TypeOK
  <2>3. QED
    BY <2>1, <2>2
<1>7. QED
  BY <1>2, <1>3, <1>4, <1>5, <1>6 DEF WorkerStep

\* install applies the first on its list, or fails and goes to updateStatus.
LEMMA InstallEffect ==
  ASSUME IInv, NEW k \in Keys, Install(k)
  PROVE  /\ pc[k] = "install" /\ Len(todo[k]) > 0 /\ todo[k] \in Seq(Resources)
         /\ cluster' \in {cluster, cluster \cup {Head(todo[k])}}
         /\ pc'[k] \in {"install", "checkDeployments"} =>
              Head(todo[k]) \in cluster' \cup {"deployment"} /\ todo'[k] = Tail(todo[k])
         /\ pc'[k] \in {"install", "checkDeployments", "syncStatus"}
         /\ pc'[k] = "checkDeployments" <=> pc'[k] # "syncStatus" /\ Len(todo[k]) = 1
<1>1. TypeOK /\ pc[k] = "install" /\ Len(todo[k]) > 0 /\ todo[k] \in Seq(Resources)
  BY DEF IInv, TodoOK, TypeOK, Install, At
<1>2. \A r : ApplyResource(k, r) =>
        cluster' \in {cluster, cluster \cup {r}} /\ r \in cluster' \cup {"deployment"}
  BY DEF ApplyResource
<1>3. ASSUME NEW s, Goto(k, s)
      PROVE  pc'[k] = s
  BY <1>1, <1>3 DEF Goto, TypeOK
<1> DEFINE r == Head(todo[k])
<1>4. \/ /\ ApplyResource(k, r)
         /\ todo' = [todo EXCEPT ![k] = Tail(@)]
         /\ IF Len(todo[k]) = 1 THEN Goto(k, "checkDeployments") ELSE UNCHANGED pc
      \/ /\ ApplyResource(k, r) \/ UNCHANGED manifest
         /\ Goto(k, "syncStatus")
  BY DEF Install
<1>5. todo' = [todo EXCEPT ![k] = Tail(@)] => todo'[k] = Tail(todo[k])
  BY <1>1 DEF TypeOK
<1> HIDE DEF r
<1>6. CASE /\ ApplyResource(k, r)
           /\ todo' = [todo EXCEPT ![k] = Tail(@)]
           /\ IF Len(todo[k]) = 1 THEN Goto(k, "checkDeployments") ELSE UNCHANGED pc
  BY <1>1, <1>2, <1>3, <1>5, <1>6 DEF r
<1>7. CASE (ApplyResource(k, r) \/ UNCHANGED manifest) /\ Goto(k, "syncStatus")
  BY <1>1, <1>2, <1>3, <1>7 DEF r, manifest
<1>8. QED
  BY <1>4, <1>6, <1>7

\* delete deletes the first on its list, or fails and goes to clearFinalizer.
LEMMA DeleteEffect ==
  ASSUME IInv, NEW k \in Keys, Delete(k)
  PROVE  /\ pc[k] = "delete" /\ Len(todo[k]) > 0 /\ todo[k] \in Seq(Resources)
         /\ cluster' \in {cluster, cluster \ {Head(todo[k])}}
         /\ pc'[k] = "delete" => Head(todo[k]) \notin cluster' /\ todo'[k] = Tail(todo[k])
         /\ pc'[k] \in {"delete", "release", "clearFinalizer"}
<1>1. TypeOK /\ pc[k] = "delete" /\ Len(todo[k]) > 0 /\ todo[k] \in Seq(Resources)
  BY DEF IInv, TodoOK, TypeOK, Delete, At
<1>2. \A r : DeleteResource(r) =>
        cluster' \in {cluster, cluster \ {r}} /\ r \notin cluster'
  <2>1. "deployment" \notin cluster
    BY <1>1 DEF TypeOK, ClusterResources
  <2>2. ASSUME NEW r, DeleteResource(r), r = "deployment"
        PROVE  cluster' = cluster
    BY <2>2 DEF DeleteResource
  <2>3. ASSUME NEW r, DeleteResource(r), r # "deployment"
        PROVE  cluster' = cluster \ {r}
    BY <2>3 DEF DeleteResource
  <2>4. QED
    BY <2>1, <2>2, <2>3
<1>3. ASSUME NEW s, Goto(k, s)
      PROVE  pc'[k] = s
  BY <1>1, <1>3 DEF Goto, TypeOK
<1> DEFINE r == Head(todo[k])
<1>4. \/ /\ DeleteResource(r)
         /\ todo' = [todo EXCEPT ![k] = Tail(@)]
         /\ IF Len(todo[k]) = 1 THEN Goto(k, "release") ELSE UNCHANGED pc
      \/ /\ DeleteResource(r) \/ UNCHANGED manifest
         /\ Goto(k, "clearFinalizer")
  BY DEF Delete
<1>5. todo' = [todo EXCEPT ![k] = Tail(@)] => todo'[k] = Tail(todo[k])
  BY <1>1 DEF TypeOK
<1> HIDE DEF r
<1>6. CASE /\ DeleteResource(r)
           /\ todo' = [todo EXCEPT ![k] = Tail(@)]
           /\ IF Len(todo[k]) = 1 THEN Goto(k, "release") ELSE UNCHANGED pc
  BY <1>1, <1>2, <1>3, <1>5, <1>6 DEF r
<1>7. CASE (DeleteResource(r) \/ UNCHANGED manifest) /\ Goto(k, "clearFinalizer")
  BY <1>1, <1>2, <1>3, <1>7 DEF r, manifest
<1>8. QED
  BY <1>4, <1>6, <1>7

\* The steps of the only key there is.
LEMMA StepRoles ==
  ASSUME IInv, NEW k \in Keys, RolesFirst(k),
         Environment(k) \/ Informer(k) \/ Reconcile(k) \/ WorkerStep(k)
  PROVE  RolesFirst(k)'
<1>1. TypeOK
  BY DEF IInv
<1>2. CASE Install(k)
  <2> DEFINE r == Head(todo[k])
  <2>1. /\ pc[k] = "install" /\ Len(todo[k]) > 0 /\ todo[k] \in Seq(Resources)
        /\ cluster' \in {cluster, cluster \cup {r}}
        /\ pc'[k] = "install" => r \in cluster' \cup {"deployment"} /\ todo'[k] = Tail(todo[k])
        /\ pc'[k] # "delete"
    BY <1>2, InstallEffect
  <2>2. "role" \notin cluster /\ r # "role" => r # "binding" /\ Ahead("role", "binding", Tail(todo[k]))
    BY <2>1, AheadInTail DEF RolesFirst
  <2> HIDE DEF r
  <2>3. QED
    BY <2>1, <2>2 DEF RolesFirst
<1>3. CASE Delete(k)
  <2> DEFINE r == Head(todo[k])
  <2>1. /\ pc[k] = "delete" /\ Len(todo[k]) > 0 /\ todo[k] \in Seq(Resources)
        /\ cluster' \in {cluster, cluster \ {r}}
        /\ pc'[k] = "delete" => r \notin cluster' /\ todo'[k] = Tail(todo[k])
        /\ pc'[k] # "install"
    BY <1>3, DeleteEffect
  <2>2. "binding" \in cluster /\ r # "binding" => r # "role" /\ Ahead("binding", "role", Tail(todo[k]))
    BY <2>1, AheadInTail DEF RolesFirst
  <2> HIDE DEF r
  <2>3. QED
    BY <2>1, <2>2 DEF RolesFirst
<1>4. CASE ~Install(k) /\ ~Delete(k)
  <2>1. cluster' = cluster \/ cluster' = cluster \ {"obsolete"}
    BY <1>1, <1>4, ListsKept DEF DeleteObsoleteResources
  <2>2. ("role" \in cluster' <=> "role" \in cluster) /\ ("binding" \in cluster' <=> "binding" \in cluster)
    BY <2>1
  <2>3. QED
    BY <1>1, <1>4, <2>2, ListsKept, ListsInOrder DEF RolesFirst
<1>5. QED
  BY <1>2, <1>3, <1>4

\* Every step keeps the invariant of the only key, and applies or deletes one resource.
LEMMA RolesKept ==
  ASSUME NEW k \in Keys, Keys = {k}, IInv, RolesFirst(k), [Next]_vars
  PROVE  RolesFirst(k)' /\ \E r : cluster' \subseteq cluster \cup {r}
<1>1. CASE UNCHANGED vars
  BY <1>1 DEF vars, RolesFirst
<1>2. CASE Restart
  BY <1>2 DEF Restart, manifest, RolesFirst
<1>3. CASE Environment(k) \/ Informer(k) \/ Reconcile(k) \/ WorkerStep(k)
  <2>1. \E r : cluster' \subseteq cluster \cup {r}
    <3>1. CASE Install(k)
      BY <3>1, InstallEffect
    <3>2. CASE Delete(k)
      BY <3>2, DeleteEffect
    <3>3. CASE ~Install(k) /\ ~Delete(k)
      BY <1>3, <3>3, ListsKept DEF IInv, DeleteObsoleteResources
    <3>4. QED
      BY <3>1, <3>2, <3>3
  <2>2. QED
    BY <1>3, <2>1, StepRoles
<1>4. QED
  BY <1>1, <1>2, <1>3 DEF Next

\* However install and delete are interrupted (knativeserving.go), what is left of
\* their lists is in order.
THEOREM RolesInvariant ==
  ASSUME NEW only \in Keys, Keys = {only}
  PROVE  Spec => []RolesInv
<1>1. Init => RolesFirst(only)
  <2>1. Init => ("binding" \in cluster => "role" \in cluster) /\ pc[only] = "idle"
    BY DEF Init, ClusterResources, Resources
  <2>2. QED
    BY <2>1 DEF RolesFirst
<1>2. IInv /\ RolesFirst(only) /\ [Next]_vars => RolesFirst(only)'
  BY RolesKept
<1>3. RolesFirst(only) <=> RolesInv
  BY DEF RolesInv
<1>4. QED
  BY <1>1, <1>2, <1>3, Invariant, PTL DEF Spec

\* install applies no binding before its role, and delete no role before its binding
\* goes (knativeserving.go), also when one is cut short and the other follows.
THEOREM RolesAreBound ==
  ASSUME NEW only \in Keys, Keys = {only}
  PROVE  Spec => BindOnlyExistingRoles
<1>1. IInv /\ RolesInv /\ RolesInv' /\ [Next]_vars =>
        [cluster' # cluster /\ "binding" \in cluster' => "role" \in cluster]_vars
  <2>1. SUFFICES ASSUME IInv, RolesInv, RolesInv', [Next]_vars, "binding" \in cluster'
                 PROVE  "role" \in cluster
    OBVIOUS
  <2>2. /\ RolesFirst(only) /\ "role" \in cluster'
        /\ "binding" \in cluster => "role" \in cluster
    BY <2>1 DEF RolesInv, RolesFirst
  <2>3. PICK r : cluster' \subseteq cluster \cup {r}
    BY <2>1, <2>2, RolesKept
  <2>4. "role" # "binding"
    OBVIOUS
  <2>5. QED
    BY <2>1, <2>2, <2>3, <2>4
<1>2. Spec => []RolesInv
  BY RolesInvariant
<1>3. QED
  BY <1>1, <1>2, Invariant, PTL DEF Spec, BindOnlyExistingRoles

-----------------------------------------------------------------------------
(* One KnativeServing: Ready and the manifest.                               *)

\* What is not complete, and what no worker has a right to call so.
Bare(k) == NothingVouches(api[k], cache[k], watch[k]) /\ Unready(k)

\* An object that is Ready and lives vouches for the manifest: it has the manifest
\* finalizer, and before that the default finalizer.
LEMMA LiveVouches ==
  ASSUME NEW o, ReadyKept(o), DefaultFirst(o), o.phase = "live", IsReady(o)
  PROVE  Vouches(o)
  BY DEF ReadyKept, DefaultFirst, Vouches

\* The API server makes no object vouch.
LEMMA CommittedVouches ==
  ASSUME NEW o \in Objects, Vouches(Committed(o))
  PROVE  Vouches(o)
<1>1. Bumped(o).status = o.status /\ Bumped(o).fin = o.fin
  BY DEF Bumped, Objects
<1>2. \A i, v : ~IsReady(Gone(i, v))
  BY DEF Gone, NoStatus, NoConditions, IsReady, IsTrue, ConditionTypes
<1>3. QED
  BY <1>1, <1>2 DEF Committed, Vouches, IsReady

\* A request, or a user, adds to the history an object that does not vouch.
LEMMA NoVoucherStored ==
  ASSUME NEW a, NEW c, NEW w \in Seq(Objects), NEW b \in Objects, NothingVouches(a, c, w), ~Vouches(b)
  PROVE  NothingVouches(b, c, Append(w, b))
  BY AppendChange DEF NothingVouches

\* A request to the API server that comes of nothing that vouches.
LEMMA WriteUnready ==
  ASSUME TypeOK, NEW k \in Keys, NothingVouches(api[k], cache[k], watch[k]),
         NEW rv, NEW o \in Objects, NEW reply, Write(k, rv, o, reply),
         Exists(api[k]) /\ api[k].rv = rv => ~Vouches(o)
  PROVE  NothingVouches(api'[k], cache[k], watch'[k])
<1>1. watch[k] \in Seq(Objects) /\ Committed(o) \in Objects
  BY KeyTyped, CommittedTyped
<1>2. CASE api'[k] = api[k] /\ watch'[k] = watch[k]
  BY <1>2
<1>3. CASE /\ Exists(api[k]) /\ api[k].rv = rv
           /\ api'[k] = Committed(o) /\ watch'[k] = Append(watch[k], Committed(o))
  BY <1>1, <1>3, CommittedVouches, NoVoucherStored
<1>4. QED
  BY <1>2, <1>3, WriteEffect

\* What somebody else than the worker stores.
LEMMA StoreUnready ==
  ASSUME TypeOK, NEW k \in Keys, NothingVouches(api[k], cache[k], watch[k]),
         NEW o \in Objects, ~Vouches(o), Store(k, Committed(o)) \/ Store(k, o), UNCHANGED cache
  PROVE  NothingVouches(api[k], cache[k], watch[k])'
<1>1. \A b : Store(k, b) => api'[k] = b /\ watch'[k] = Append(watch[k], b)
  BY DEF Store, TypeOK
<1>2. watch[k] \in Seq(Objects) /\ Committed(o) \in Objects
  BY KeyTyped, CommittedTyped
<1>3. ~Vouches(Committed(o))
  BY CommittedVouches
<1>4. QED
  BY <1>1, <1>2, <1>3, NoVoucherStored

\* Users and the garbage collector put no status and no default finalizer on.
LEMMA EnvironmentUnready ==
  ASSUME IInv, NEW k \in Keys, NothingVouches(api[k], cache[k], watch[k]), Environment(k)
  PROVE  NothingVouches(api[k], cache[k], watch[k])'
<1> DEFINE a == api[k]
<1>1. /\ TypeOK /\ a \in Objects /\ a.fin \in Seq(Finalizers) /\ ~Vouches(a)
      /\ a.gen + 1 \in Nat /\ a.inc + 1 \in Nat /\ a.rv + 1 \in Nat
  <2>1. TypeOK /\ a \in Objects
    BY KeyTyped DEF IInv
  <2>2. QED
    BY <2>1 DEF Objects, NothingVouches
<1>2. CASE \/ DeploymentUp(k) \/ CollectDeployment(k)
           \/ \E state \in {"absent", "down"} : DeploymentLost(k, state)
  BY <1>2 DEF DeploymentUp, CollectDeployment, DeploymentLost, objects
<1>3. ASSUME NEW spec \in Specs, CreateCR(k, spec)
      PROVE  NothingVouches(api[k], cache[k], watch[k])'
  <2> DEFINE b == Created(a.inc + 1, a.rv + 1, spec)
  <2>1. b \in Objects
    <3>1. <<>> \in Seq(Finalizers) /\ NoStatus \in Statuses /\ "live" \in Phases /\ 1 \in Nat
      BY EmptyTyped DEF Phases
    <3>2. QED
      BY <1>1, <3>1 DEF Created, Objects
  <2>2. ~Vouches(b)
    BY DEF Created, Vouches, Has
  <2>3. Store(k, b) /\ UNCHANGED cache
    BY <1>3 DEF CreateCR
  <2> HIDE DEF b
  <2>4. QED
    BY <1>1, <2>1, <2>2, <2>3, StoreUnready
<1>4. ASSUME NEW spec \in Specs, EditSpec(k, spec)
      PROVE  NothingVouches(api[k], cache[k], watch[k])'
  <2> DEFINE o == Edited(a, spec)
  <2>1. o \in Objects /\ ~Vouches(o)
    BY <1>1 DEF Edited, Objects, Vouches, IsReady
  <2>2. Store(k, Committed(o)) /\ UNCHANGED cache
    BY <1>4 DEF EditSpec
  <2> HIDE DEF o
  <2>3. QED
    BY <1>1, <2>1, <2>2, StoreUnready
<1>5. ASSUME NEW foreground \in BOOLEAN, DeleteCR(k, foreground)
      PROVE  NothingVouches(api[k], cache[k], watch[k])'
  <2> DEFINE fin == IF foreground THEN Append(a.fin, ForegroundFinalizer) ELSE a.fin
             o == Marked(a, fin)
  <2>1. fin \in Seq(Finalizers) /\ (Has(fin, DefaultFinalizer) => Has(a.fin, DefaultFinalizer))
    <3>1. ForegroundFinalizer \in Finalizers /\ ForegroundFinalizer # DefaultFinalizer
      BY DEF Finalizers, ForegroundFinalizer, DefaultFinalizer
    <3>2. QED
      BY <1>1, <3>1, AppendedFin
  <2>2. Store(k, Committed(o)) /\ UNCHANGED cache
    BY <1>5 DEF DeleteCR
  <2> HIDE DEF fin
  <2>3. o \in Objects /\ ~Vouches(o)
    BY <1>1, <2>1 DEF Marked, Objects, Phases, Vouches, IsReady
  <2> HIDE DEF o
  <2>4. QED
    BY <1>1, <2>2, <2>3, StoreUnready
<1>6. CASE ForegroundDone(k)
  <2>1. PICK i \in DOMAIN a.fin :
          /\ a.fin[i] = ForegroundFinalizer
          /\ Store(k, Committed([a EXCEPT !.fin = Without(@, i)]))
    BY <1>6 DEF ForegroundDone
  <2> DEFINE fin == Without(a.fin, i)
             o == [a EXCEPT !.fin = fin]
  <2>2. fin \in Seq(Finalizers) /\ (Has(fin, DefaultFinalizer) => Has(a.fin, DefaultFinalizer))
    BY <1>1, <2>1, WithoutFacts, WithoutFin
  <2>3. Store(k, Committed(o)) /\ UNCHANGED cache
    BY <1>6, <2>1 DEF ForegroundDone
  <2> HIDE DEF fin
  <2>4. o \in Objects /\ ~Vouches(o)
    BY <1>1, <2>2 DEF Objects, Vouches, IsReady
  <2> HIDE DEF o
  <2>5. QED
    BY <1>1, <2>3, <2>4, StoreUnready
<1>7. QED
  BY <1>2, <1>3, <1>4, <1>5, <1>6 DEF Environment

\* The informer shows what is on its way.
LEMMA InformerUnready ==
  ASSUME TypeOK, NEW k \in Keys, NothingVouches(api[k], cache[k], watch[k]), Informer(k)
  PROVE  NothingVouches(api[k], cache[k], watch[k])'
<1>1. watch[k] \in Seq(Objects)
  BY KeyTyped
<1>2. CASE WatchEvent(k)
  <2>1. Len(watch[k]) > 0 /\ cache'[k] = Head(watch[k]) /\ watch'[k] = Tail(watch[k]) /\ api' = api
    BY <1>2 DEF WatchEvent, TypeOK
  <2>2. /\ 1 \in DOMAIN watch[k] /\ Head(watch[k]) = watch[k][1]
        /\ \A i \in DOMAIN Tail(watch[k]) :
             i + 1 \in DOMAIN watch[k] /\ Tail(watch[k])[i] = watch[k][i + 1]
    BY <1>1, <2>1
  <2>3. QED
    BY <2>1, <2>2 DEF NothingVouches
<1>3. CASE Relist(k)
  <2>1. cache'[k] = api[k] /\ watch'[k] = <<>> /\ api' = api
    BY <1>3 DEF Relist, TypeOK
  <2>2. QED
    BY <2>1 DEF NothingVouches
<1>4. CASE Resync(k)
  BY <1>4 DEF Resync, objects
<1>5. QED
  BY <1>2, <1>3, <1>4 DEF Informer

\* Neither has to do with the worker.
LEMMA OutsideUnready ==
  ASSUME IInv, NEW k \in Keys, Bare(k), Environment(k) \/ Informer(k)
  PROVE  Bare(k)'
<1>1. UNCHANGED <<cluster, pc, res, orig, todo>>
  BY DEF Environment, CreateCR, EditSpec, DeleteCR, DeploymentUp, CollectDeployment,
     ForegroundDone, DeploymentLost, Informer, WatchEvent, Relist, Resync, worker, manifest
<1>2. NothingVouches(api[k], cache[k], watch[k])'
  BY EnvironmentUnready, InformerUnready DEF IInv, Bare
<1>3. QED
  BY <1>1, <1>2 DEF Bare, Unready, Listed

\* A worker starts with a copy that does not vouch, so with none that is Ready.
LEMMA ReconcileUnready ==
  ASSUME IInv, NEW k \in Keys, ReadyAt(k), Bare(k), Reconcile(k)
  PROVE  Bare(k)'
<1>1. /\ TypeOK /\ ReadyKept(cache[k]) /\ DefaultFirst(cache[k]) /\ ~Vouches(cache[k])
      /\ UNCHANGED <<objects, cluster, todo>>
  BY DEF IInv, ReadyAt, ReadyKey, ReadyHistory, Bare, NothingVouches, Reconcile, manifest
<1>2. NothingVouches(api[k], cache[k], watch[k])'
  BY <1>1 DEF Bare, objects
<1>3. CASE ~Exists(cache[k])
  BY <1>1, <1>2, <1>3 DEF Reconcile, Bare, Unready, Listed
<1>4. CASE Exists(cache[k])
  <2>1. /\ pc'[k] = (IF cache[k].phase = "live" THEN "setFinalizer" ELSE "finalizeKind")
        /\ res'[k] = cache[k]
    BY <1>1, <1>4 DEF Reconcile, Goto, SetRes, TypeOK
  <2>2. cache[k].phase = "live" => ~IsReady(cache[k])
    BY <1>1, LiveVouches
  <2>3. QED
    BY <1>2, <2>1, <2>2 DEF Bare, Unready, EarlyStages, InstallStages
<1>5. QED
  BY <1>3, <1>4

\* The patch of the default finalizer puts it on an object that is not Ready, and
\* takes it off one that, if it is Ready, has vouched with it.
LEMMA FilteredUnready ==
  ASSUME IInv, CacheCurrent, NEW k \in Keys, ReadyAt(k), NEW r \in Objects,
         NothingVouches(api[k], cache[k], watch[k]), UpdateFinalizersFiltered(k, r)
  PROVE  /\ NothingVouches(api'[k], cache[k], watch'[k])
         /\ res'[k] = r \/ ~IsReady(res'[k])
<1> DEFINE a == api[k]  c == cache[k]  w == watch[k]
           desired == Has(r.fin, DefaultFinalizer)
           fin == IF desired THEN Append(c.fin, DefaultFinalizer)
                  ELSE SortedList(SetOf(c.fin) \ {DefaultFinalizer})
           patched == [a EXCEPT !.fin = fin]
<1>1. /\ TypeOK /\ HistoryOrdered(a, c, w) /\ ReadyHistory(a, c, w) /\ Current(a, c, w)
      /\ a \in Objects /\ c \in Objects /\ w \in Seq(Objects) /\ c.fin \in Seq(Finalizers)
      /\ ~Vouches(a) /\ ~Vouches(c) /\ ReadyKept(a) /\ DefaultFirst(a)
  <2>1. /\ TypeOK /\ HistoryOrdered(a, c, w) /\ ReadyHistory(a, c, w) /\ Current(a, c, w)
        /\ ~Vouches(a) /\ ~Vouches(c)
    BY DEF IInv, KeyInv, ReadyAt, ReadyKey, CacheCurrent, NothingVouches
  <2>2. QED
    BY <2>1, KeyTyped DEF Objects, ReadyHistory
<1>2. fin \in Seq(Finalizers) /\ (~desired => ~Has(fin, DefaultFinalizer))
  <2>1. /\ DefaultFinalizer \in Finalizers
        /\ SetOf(c.fin) \ {DefaultFinalizer} \in SUBSET Finalizers
        /\ DefaultFinalizer \notin SetOf(c.fin) \ {DefaultFinalizer}
    BY <1>1, FinalizerSets
  <2>2. QED
    BY <1>1, <2>1, AppendFacts, SortedListFacts, SortedListNoDefault
<1> HIDE DEF fin
<1>3. patched \in Objects /\ patched.fin = fin /\ patched.status = a.status
      /\ Bumped(patched).status = a.status
  BY <1>1, <1>2 DEF Objects, Bumped
<1>4. CASE SetRes(k, r) /\ UNCHANGED <<api, watch>>
  BY <1>1, <1>4 DEF SetRes, TypeOK
<1>5. CASE SetRes(k, Empty) /\ UNCHANGED <<api, watch>>
  BY <1>1, <1>5, BlankReady DEF SetRes, TypeOK
<1>6. CASE /\ Exists(c) /\ desired # Has(c.fin, DefaultFinalizer)
           /\ ~(desired /\ a.phase = "deleting")
           /\ \E reply \in {"ok", "conflict", "notfound", "error"} :
                /\ Write(k, c.rv, patched, reply)
                /\ SetRes(k, IF reply = "ok" THEN Bumped(patched) ELSE Empty)
  <2>1. PICK reply \in {"ok", "conflict", "notfound", "error"} :
          /\ Write(k, c.rv, patched, reply)
          /\ SetRes(k, IF reply = "ok" THEN Bumped(patched) ELSE Empty)
    BY <1>6
  <2>2. res'[k] = IF reply = "ok" THEN Bumped(patched) ELSE Empty
    BY <1>1, <2>1 DEF SetRes, TypeOK
  <2>3. ASSUME Exists(a), a.rv = c.rv
        PROVE  ~IsReady(a)
    <3>1. c.status = a.status /\ (c.phase = "live" => c = a) /\ c.phase = a.phase
      BY <1>1, <2>3, CacheIsOlder DEF Current
    <3>2. CASE desired
      <4>1. a.phase = "live"
        BY <1>6, <2>3, <3>2 DEF Exists
      <4>2. QED
        BY <1>1, <4>1, LiveVouches
    <3>3. CASE ~desired
      <4>1. Has(c.fin, DefaultFinalizer)
        BY <1>6, <3>3 DEF Has
      <4>2. QED
        BY <1>1, <3>1, <4>1 DEF Vouches, IsReady
    <3>4. QED
      BY <3>2, <3>3
  <2> HIDE DEF patched
  <2>4. Exists(a) /\ a.rv = c.rv => ~Vouches(patched) /\ ~IsReady(Bumped(patched))
    BY <1>3, <2>3 DEF Vouches, IsReady
  <2>5. NothingVouches(api'[k], c, watch'[k])
    BY <1>1, <1>3, <2>1, <2>4, WriteUnready
  <2>6. reply = "ok" => Exists(a) /\ a.rv = c.rv
    BY <2>1 DEF Write
  <2>7. QED
    BY <2>2, <2>4, <2>5, <2>6, BlankReady
<1>7. QED
  BY <1>4, <1>5, <1>6 DEF UpdateFinalizersFiltered, patched, fin

\* Before the stages and after them.
LEMMA FinalizersUnready ==
  ASSUME IInv, CacheCurrent, NEW k \in Keys, ReadyAt(k), Bare(k),
         SetFinalizer(k) \/ ClearFinalizer(k)
  PROVE  Bare(k)'
<1> DEFINE q == res[k]
<1>1. TypeOK /\ NothingVouches(api[k], cache[k], watch[k]) /\ UNCHANGED <<cache, orig>>
  BY DEF IInv, Bare, SetFinalizer, ClearFinalizer
<1>2. q \in Objects /\ q.fin \in Seq(Finalizers)
  BY <1>1, KeyTyped DEF Objects
<1>3. PICK r \in Objects : r.status = q.status /\ UpdateFinalizersFiltered(k, r)
  <2>1. PICK S \in SUBSET Finalizers : UpdateFinalizersFiltered(k, [q EXCEPT !.fin = SortedList(S)])
    <3>1. CASE SetFinalizer(k)
      <4>1. SetOf(q.fin) \cup {DefaultFinalizer} \in SUBSET Finalizers
        BY <1>2, FinalizerSets
      <4>2. QED
        BY <3>1, <4>1 DEF SetFinalizer
    <3>2. CASE ClearFinalizer(k)
      <4>1. SetOf(q.fin) \ GivenUp(err[k]) \in SUBSET Finalizers
        BY <1>2, FinalizerSets
      <4>2. QED
        BY <3>2, <4>1 DEF ClearFinalizer
    <3>3. QED
      BY <3>1, <3>2
  <2>2. SortedList(S) \in Seq(Finalizers)
    BY SortedListFacts
  <2>3. /\ [q EXCEPT !.fin = SortedList(S)] \in Objects
        /\ [q EXCEPT !.fin = SortedList(S)].status = q.status
    BY <1>2, <2>2 DEF Objects
  <2>4. QED
    BY <2>1, <2>3
<1>4. /\ NothingVouches(api'[k], cache[k], watch'[k])
      /\ res'[k] = r \/ ~IsReady(res'[k])
  BY <1>1, <1>3, FilteredUnready
<1>5. CASE SetFinalizer(k)
  <2>1. pc'[k] = "reconcileKind" /\ pc[k] = "setFinalizer"
    BY <1>1, <1>5 DEF SetFinalizer, At, Goto, TypeOK
  <2>2. ~IsReady(q)
    BY <2>1 DEF Bare, Unready, EarlyStages
  <2>3. ~IsReady(res'[k])
    BY <1>3, <1>4, <2>2 DEF IsReady
  <2>4. QED
    BY <1>1, <1>4, <2>1, <2>3 DEF Bare, Unready
<1>6. CASE ClearFinalizer(k)
  <2>1. pc'[k] = "syncStatus" /\ pc[k] = "clearFinalizer"
    BY <1>1, <1>6 DEF ClearFinalizer, At, Goto, TypeOK
  <2>2. orig[k].status = q.status
    BY <2>1 DEF ReadyAt, ReadyKey, ReadyLate, FinalizeStages
  <2>3. IsReady(res'[k]) => orig'[k].status = res'[k].status
    BY <1>1, <1>3, <1>4, <2>2 DEF IsReady
  <2>4. QED
    BY <1>1, <1>4, <2>1, <2>3 DEF Bare, Unready, EarlyStages, InstallStages
<1>7. QED
  BY <1>5, <1>6

\* A worker that refuses the object, or goes on with it.
LEMMA ReconcileKindUnready ==
  ASSUME IInv, NEW k \in Keys, Bare(k), ReconcileKind(k)
  PROVE  Bare(k)'
<1> DEFINE m == MarkInstallFailed(res[k].status.cond)
<1>1. TypeOK /\ res[k] \in Objects /\ res[k].status.cond \in Conditions
  <2>1. TypeOK
    BY DEF IInv
  <2>2. QED
    BY <2>1, KeyTyped, StatusTyped
<1>2. /\ UNCHANGED objects /\ pc[k] = "reconcileKind"
      /\ pc'[k] \in {"syncStatus", "ensureFinalizer"}
      /\ UNCHANGED res \/ SetCond(k, m)
  BY <1>1 DEF ReconcileKind, Goto, At, TypeOK
<1>3. SetCond(k, m) => ~IsReady(res'[k])
  <2>1. SetCond(k, m) => res'[k] = [res[k] EXCEPT !.status.cond = m]
    BY <1>1 DEF SetCond, SetRes, TypeOK
  <2>2. ~IsTrue(m, Ready)
    BY <1>1, MarksNotReady
  <2> HIDE DEF m
  <2>3. [res[k] EXCEPT !.status.cond = m].status.cond = m
    BY <1>1 DEF Objects, Statuses
  <2>4. QED
    BY <2>1, <2>2, <2>3 DEF IsReady
<1> HIDE DEF m
<1>4. ~IsReady(res'[k])
  BY <1>2, <1>3 DEF Bare, Unready, EarlyStages
<1>5. QED
  BY <1>2, <1>4 DEF Bare, Unready, objects

\* The manifest finalizer goes on an object that has the default finalizer.
LEMMA EnsureFinalizerUnready ==
  ASSUME IInv, NEW k \in Keys, ReadyAt(k), Bare(k), EnsureFinalizer(k)
  PROVE  Bare(k)'
<1> DEFINE a == api[k]  r == res[k]
           fin == Append(r.fin, ManifestFinalizer)
           stored == [a EXCEPT !.fin = fin]
           q == [r EXCEPT !.fin = fin]
<1>1. /\ TypeOK /\ NothingVouches(a, cache[k], watch[k]) /\ ~Vouches(a) /\ cache'[k] = cache[k]
      /\ EarlyCopy(a, "ensureFinalizer", r) /\ ReadyEarly(a, cache[k], "ensureFinalizer", r)
      /\ ~IsReady(r)
  BY DEF IInv, KeyInv, ReadyAt, ReadyKey, EnsureFinalizer, At, Bare, NothingVouches, Unready, EarlyStages
<1>2. /\ a \in Objects /\ r \in Objects /\ fin \in Seq(Finalizers)
      /\ pc'[k] \in {"initStatus", "syncStatus"}
  <2>1. a \in Objects /\ r \in Objects /\ r.fin \in Seq(Finalizers) /\ ManifestFinalizer \in Finalizers
    BY <1>1, KeyTyped DEF Objects, Finalizers
  <2>2. QED
    BY <1>1, <2>1, AppendFacts DEF EnsureFinalizer, Goto, TypeOK
<1> HIDE DEF fin
<1>3. CASE UNCHANGED <<api, watch, res>>
  BY <1>1, <1>2, <1>3 DEF Bare, Unready
<1>4. CASE /\ SetRes(k, q)
           /\ \/ UNCHANGED <<api, watch>>
              \/ r.phase # "empty" /\ \E reply : Write(k, r.rv, stored, reply)
  <2>1. ~IsReady(res'[k])
    <3>1. res'[k] = q /\ q.status = r.status
      BY <1>1, <1>2, <1>4 DEF SetRes, TypeOK, Objects
    <3>2. QED
      BY <1>1, <3>1 DEF IsReady
  <2>2. NothingVouches(api'[k], cache[k], watch'[k])
    <3>1. CASE UNCHANGED <<api, watch>>
      BY <1>1, <3>1
    <3>2. CASE r.phase # "empty" /\ \E reply : Write(k, r.rv, stored, reply)
      <4>1. a.rv = r.rv => Has(a.fin, DefaultFinalizer)
        BY <1>1, <3>2 DEF EarlyCopy, ReadyEarly, EarlyStages
      <4>2. stored \in Objects /\ stored.status = a.status
        BY <1>2 DEF Objects
      <4> HIDE DEF stored
      <4>3. a.rv = r.rv => ~Vouches(stored)
        BY <1>1, <4>1, <4>2 DEF Vouches, IsReady
      <4>4. QED
        BY <1>1, <3>2, <4>2, <4>3, WriteUnready
    <3>3. QED
      BY <1>4, <3>1, <3>2
  <2>3. QED
    BY <1>1, <1>2, <2>1, <2>2 DEF Bare, Unready
<1>5. QED
  BY <1>3, <1>4 DEF EnsureFinalizer, fin

\* The first status is not Ready, and the list of install has the whole manifest.
LEMMA InitStatusUnready ==
  ASSUME IInv, NEW k \in Keys, Bare(k), InitStatus(k)
  PROVE  Bare(k)'
<1> DEFINE status == [res[k].status EXCEPT !.cond = InitializeConditions(@)]
           stored == [api[k] EXCEPT !.status = status]
           kept == [res[k] EXCEPT !.status = status]
<1>1. /\ TypeOK /\ NothingVouches(api[k], cache[k], watch[k]) /\ cache'[k] = cache[k]
      /\ ~IsReady(res[k])
  BY DEF IInv, Bare, InitStatus, At, Unready, InstallStages
<1>2. /\ res[k] \in Objects /\ res[k].status \in Statuses /\ res[k].status.cond \in Conditions
      /\ api[k] \in Objects
  BY <1>1, KeyTyped DEF Objects, Statuses
<1>3. todo' = [todo EXCEPT ![k] = ApplyOrder] => Uninstalled \subseteq Listed(k)'
  <2>1. todo' = [todo EXCEPT ![k] = ApplyOrder] => todo'[k] = ApplyOrder
    BY <1>1 DEF TypeOK
  <2>2. QED
    BY <2>1, ListsInOrder DEF Listed
<1>4. CASE res[k].status.cond # NoConditions
  <2>1. /\ UNCHANGED <<api, watch, res>> /\ Goto(k, "install")
        /\ todo' = [todo EXCEPT ![k] = ApplyOrder]
    BY <1>4 DEF InitStatus
  <2>2. pc'[k] = "install"
    BY <1>1, <2>1 DEF Goto, TypeOK
  <2>3. QED
    BY <1>1, <1>3, <2>1, <2>2 DEF Bare, Unready
<1>5. CASE res[k].status.cond = NoConditions
  <2>1. status \in Statuses /\ ~IsTrue(status.cond, Ready)
    <3>1. status.cond = InitializeConditions(NoConditions)
      BY <1>2, <1>5 DEF Statuses
    <3>2. status \in Statuses
      BY <1>2, ConditionsTyped DEF Statuses
    <3>3. QED
      BY <1>2, <3>1, <3>2, MarksNotReady
  <2>2. PICK reply \in {"ok", "conflict", "notfound", "error"} :
          /\ Write(k, res[k].rv, stored, reply)
          /\ IF reply = "ok"
             THEN /\ SetRes(k, Bumped(stored))
                  /\ Goto(k, "install") /\ todo' = [todo EXCEPT ![k] = ApplyOrder]
             ELSE SetRes(k, kept) /\ Goto(k, "syncStatus")
    BY <1>5 DEF InitStatus
  <2> HIDE DEF status
  <2>3. /\ stored \in Objects /\ stored.status = status /\ kept.status = status
        /\ Bumped(stored).status = status
    BY <1>2, <2>1 DEF Objects, Bumped
  <2>4. ~Vouches(stored) /\ ~IsReady(Bumped(stored)) /\ ~IsReady(kept)
    BY <2>1, <2>3 DEF Vouches, IsReady
  <2> HIDE DEF stored, kept
  <2>5. NothingVouches(api'[k], cache[k], watch'[k])
    BY <1>1, <2>2, <2>3, <2>4, WriteUnready
  <2>6. /\ ~IsReady(res'[k]) /\ pc'[k] \in {"install", "syncStatus"}
        /\ pc'[k] = "install" => Uninstalled \subseteq Listed(k)'
    BY <1>1, <1>3, <2>2, <2>4 DEF Goto, SetRes, TypeOK
  <2>7. QED
    BY <1>1, <2>5, <2>6 DEF Bare, Unready
<1>6. QED
  BY <1>4, <1>5

\* What is on a list is its head or on its tail.
LEMMA HeadOrTail ==
  ASSUME NEW l \in Seq(Resources), Len(l) > 0
  PROVE  /\ \A i \in DOMAIN l : l[i] = Head(l) \/ \E j \in DOMAIN Tail(l) : Tail(l)[j] = l[i]
         /\ Len(l) = 1 => DOMAIN Tail(l) = {}
<1> DEFINE t == Tail(l)
<1>1. /\ Head(l) = l[1] /\ \A i \in DOMAIN l : i \in Nat /\ 1 <= i
      /\ \A i \in DOMAIN l : i > 1 => i - 1 \in DOMAIN t /\ t[i - 1] = l[i]
  OBVIOUS
<1>2. Len(l) = 1 => DOMAIN t = {}
  OBVIOUS
<1> HIDE DEF t
<1>3. ASSUME NEW i \in DOMAIN l, i # 1
      PROVE  \E j \in DOMAIN t : t[j] = l[i]
  <2>1. i - 1 \in DOMAIN t /\ t[i - 1] = l[i]
    BY <1>1, <1>3
  <2>2. QED
    BY <2>1
<1>4. QED
  BY <1>1, <1>2, <1>3 DEF t

\* What install has applied is off its list; when nothing is left on that, the
\* manifest is complete.
LEMMA InstallUnready ==
  ASSUME IInv, NEW k \in Keys, Bare(k), Install(k), ~Complete'
  PROVE  Bare(k)'
<1> DEFINE l == todo[k]  m == MarkInstallFailed(res[k].status.cond)
<1>1. /\ TypeOK /\ UNCHANGED objects /\ ~IsReady(res[k])
      /\ Uninstalled \subseteq cluster \cup Listed(k)
      /\ res[k] \in Objects /\ res[k].status.cond \in Conditions
  <2>1. /\ TypeOK /\ UNCHANGED objects /\ ~IsReady(res[k])
        /\ Uninstalled \subseteq cluster \cup Listed(k)
    BY DEF IInv, Bare, Install, At, Unready, InstallStages
  <2>2. QED
    BY <2>1, KeyTyped, StatusTyped
<1>2. /\ pc[k] = "install" /\ Len(l) > 0 /\ l \in Seq(Resources)
      /\ cluster' \in {cluster, cluster \cup {Head(l)}}
      /\ pc'[k] \in {"install", "checkDeployments"} =>
           Head(l) \in cluster' \cup {"deployment"} /\ todo'[k] = Tail(l)
      /\ pc'[k] \in {"install", "checkDeployments", "syncStatus"}
      /\ pc'[k] = "checkDeployments" <=> pc'[k] # "syncStatus" /\ Len(l) = 1
  BY InstallEffect
<1>3. /\ \A i \in DOMAIN l : l[i] = Head(l) \/ \E j \in DOMAIN Tail(l) : Tail(l)[j] = l[i]
      /\ Len(l) = 1 => DOMAIN Tail(l) = {}
  BY <1>2, HeadOrTail
<1>4. pc'[k] \in {"install", "checkDeployments"} => Uninstalled \subseteq cluster' \cup Listed(k)'
  BY <1>1, <1>2, <1>3 DEF Listed, Uninstalled
<1>5. pc'[k] # "checkDeployments"
  <2>1. ASSUME pc'[k] = "checkDeployments"
        PROVE  FALSE
    <3>1. Listed(k)' = {}
      BY <1>2, <1>3, <2>1 DEF Listed
    <3>2. QED
      BY <1>4, <2>1, <3>1 DEF Complete
  <2>2. QED
    BY <2>1
<1>6. ~IsReady(res'[k])
  <2>1. SetCond(k, m) => res'[k] = [res[k] EXCEPT !.status.cond = m]
    BY <1>1 DEF SetCond, SetRes, TypeOK
  <2>2. ~IsTrue(m, Ready)
    BY <1>1, MarksNotReady
  <2>3. UNCHANGED res \/ SetCond(k, m) \/ (Len(l) = 1 /\ Goto(k, "checkDeployments"))
    BY DEF Install
  <2> HIDE DEF m
  <2>4. [res[k] EXCEPT !.status.cond = m].status.cond = m
    BY <1>1 DEF Objects, Statuses
  <2>5. ~Goto(k, "checkDeployments")
    BY <1>1, <1>5 DEF Goto, TypeOK
  <2>6. QED
    BY <1>1, <2>1, <2>2, <2>3, <2>4, <2>5 DEF IsReady
<1>7. QED
  BY <1>1, <1>2, <1>4, <1>5, <1>6 DEF Bare, Unready, objects

\* FinalizeKind does not look at the status.
LEMMA FinalizeUnready ==
  ASSUME TypeOK, NEW k \in Keys, NothingVouches(api[k], cache[k], watch[k]), FinalizeKind(k) \/ Delete(k)
  PROVE  Bare(k)'
<1>1. UNCHANGED objects /\ pc'[k] \in {"delete", "release", "clearFinalizer"}
  BY DEF FinalizeKind, Delete, At, Goto, TypeOK
<1>2. QED
  BY <1>1 DEF Bare, Unready, NothingVouches, objects, EarlyStages, InstallStages

\* Release keeps the default finalizer off, as it finds it.
LEMMA ReleaseUnready ==
  ASSUME IInv, NEW k \in Keys, ReadyAt(k), Bare(k), Release(k)
  PROVE  Bare(k)'
<1> DEFINE a == api[k]  c == cache[k]  fin == Tail(c.fin)
           stored == [a EXCEPT !.fin = fin]
           d == [c EXCEPT !.fin = fin]
<1>1. /\ TypeOK /\ Doomed(c) /\ DefaultFirst(c) /\ NothingVouches(a, c, watch[k])
      /\ pc'[k] = "clearFinalizer"
  BY DEF Release, At, IInv, KeyInv, Finalizing, ReadyAt, ReadyKey, ReadyHistory, Bare, Goto, TypeOK
<1>2. /\ a \in Objects /\ c \in Objects /\ fin \in Seq(Finalizers)
      /\ ~Has(fin, DefaultFinalizer) /\ Exists(c)
  <2>1. a \in Objects /\ c \in Objects /\ c.fin \in Seq(Finalizers)
    BY <1>1, KeyTyped DEF Objects
  <2>2. Len(c.fin) > 0 /\ ManifestFirst(c.fin) /\ InOrder(c.fin) /\ Exists(c)
    BY <1>1 DEF Doomed, ManifestFirst, DefaultFirst, Exists
  <2>3. QED
    BY <2>1, <2>2, TailFin
<1>3. cache'[k] = d /\ \E reply : Write(k, c.rv, stored, reply)
  BY <1>1, <1>2 DEF Release, TypeOK
<1> HIDE DEF fin
<1>4. stored \in Objects /\ stored.fin = fin /\ d.fin = fin
  BY <1>2 DEF Objects
<1> HIDE DEF stored, d
<1>5. ~Vouches(stored) /\ ~Vouches(d)
  BY <1>2, <1>4 DEF Vouches
<1>6. NothingVouches(api'[k], c, watch'[k])
  BY <1>1, <1>3, <1>4, <1>5, WriteUnready
<1>7. QED
  BY <1>1, <1>3, <1>5, <1>6 DEF Bare, Unready, NothingVouches, EarlyStages, InstallStages

\* updateStatus writes no Ready status, and fetches nothing that changes it.
LEMMA UpdateStatusUnready ==
  ASSUME IInv, NEW k \in Keys, Bare(k), SyncStatus(k) \/ GetStatus(k)
  PROVE  Bare(k)'
<1> DEFINE r == res[k]
           stored == [api[k] EXCEPT !.status = r.status]
<1>1. TypeOK /\ NothingVouches(api[k], cache[k], watch[k]) /\ UNCHANGED cache
  BY DEF IInv, Bare, SyncStatus, GetStatus, objects
<1>2. \A failed : Done(k, failed) => pc'[k] = "idle"
  BY <1>1 DEF Done, Goto, TypeOK
<1>3. ASSUME NothingVouches(api'[k], cache[k], watch'[k]), pc'[k] = "idle"
      PROVE  Bare(k)'
  BY <1>1, <1>3 DEF Bare, Unready, EarlyStages, InstallStages
<1>4. CASE SyncStatus(k) /\ orig[k].status = r.status
  <2>1. UNCHANGED <<api, watch>> /\ pc'[k] = "idle"
    BY <1>2, <1>4 DEF SyncStatus
  <2>2. QED
    BY <1>1, <1>3, <2>1
<1>5. CASE SyncStatus(k) /\ orig[k].status # r.status
  <2>1. ~IsReady(r)
    BY <1>5 DEF Bare, Unready, SyncStatus, At
  <2>2. PICK reply :
          /\ Write(k, orig[k].rv, stored, reply)
          /\ \/ Goto(k, "getStatus") /\ UNCHANGED res
             \/ \E failed : Done(k, failed)
    BY <1>5 DEF SyncStatus
  <2>3. stored \in Objects /\ stored.status = r.status
    <3>1. api[k] \in Objects /\ r.status \in Statuses
      BY <1>1, KeyTyped DEF Objects
    <3>2. QED
      BY <3>1 DEF Objects
  <2> HIDE DEF stored
  <2>4. ~Vouches(stored)
    BY <2>1, <2>3 DEF Vouches, IsReady
  <2>5. NothingVouches(api'[k], cache[k], watch'[k])
    BY <1>1, <2>2, <2>3, <2>4, WriteUnready
  <2>6. CASE Goto(k, "getStatus") /\ UNCHANGED res
    <3>1. pc'[k] = "getStatus"
      BY <1>1, <2>6 DEF Goto, TypeOK
    <3>2. QED
      BY <1>1, <2>1, <2>5, <2>6, <3>1 DEF Bare, Unready
  <2>7. QED
    BY <1>2, <1>3, <2>2, <2>5, <2>6
<1>6. CASE GetStatus(k)
  <2>1. UNCHANGED objects /\ ~IsReady(r)
    BY <1>6 DEF Bare, Unready, GetStatus, At
  <2>2. \/ pc'[k] = "idle"
        \/ pc'[k] = "syncStatus" /\ UNCHANGED res
    BY <1>1, <1>2, <1>6 DEF GetStatus, Goto, TypeOK
  <2>3. QED
    BY <1>1, <1>3, <2>1, <2>2 DEF Bare, Unready, objects
<1>7. QED
  BY <1>4, <1>5, <1>6

\* While delete is at work nothing vouches: every object since the one it has found
\* has the manifest finalizer first, and so no default finalizer.
LEMMA DoomedVouchNot ==
  ASSUME IInv, NEW k \in Keys, ReadyAt(k), Doomed(cache[k])
  PROVE  NothingVouches(api[k], cache[k], watch[k])
<1> DEFINE a == api[k]  c == cache[k]  w == watch[k]
<1>1. /\ HistoryOrdered(a, c, w) /\ ReadyHistory(a, c, w)
      /\ a \in Objects /\ c \in Objects /\ w \in Seq(Objects)
  <2>1. TypeOK /\ HistoryOrdered(a, c, w) /\ ReadyHistory(a, c, w)
    BY DEF IInv, KeyInv, ReadyAt, ReadyKey
  <2>2. QED
    BY <2>1, KeyTyped
<1>2. ASSUME NEW o \in Objects, Doomed(o), DefaultFirst(o)
      PROVE  ~Vouches(o)
  <2>1. o.fin \in Seq(Finalizers) /\ Len(o.fin) > 0 /\ ManifestFirst(o.fin) /\ InOrder(o.fin)
    BY <1>2 DEF Objects, Doomed, ManifestFirst, DefaultFirst
  <2>2. QED
    BY <2>1, TailFin DEF Vouches
<1>3. Doomed(a) /\ \A i \in DOMAIN w : Doomed(w[i]) /\ w[i] \in Objects
  BY <1>1, CacheIsOlder DEF HistoryOrdered, Precedes
<1>4. QED
  BY <1>1, <1>2, <1>3 DEF NothingVouches, ReadyHistory

\* Only delete makes the manifest less than complete.
LEMMA CompleteKept ==
  ASSUME IInv, NEW k \in Keys, Environment(k) \/ Informer(k) \/ Reconcile(k) \/ WorkerStep(k),
         ~Delete(k), Complete
  PROVE  Complete'
<1>1. CASE Install(k)
  BY <1>1, InstallEffect DEF Complete, Uninstalled
<1>2. CASE ~Install(k)
  <2>1. cluster' = cluster \/ cluster' = cluster \ {"obsolete"}
    BY <1>2, ListsKept DEF IInv, DeleteObsoleteResources
  <2>2. "obsolete" \notin Uninstalled
    BY DEF Uninstalled
  <2>3. QED
    BY <2>1, <2>2 DEF Complete, Uninstalled
<1>3. QED
  BY <1>1, <1>2

\* The steps of the only key there is.
LEMMA StepInstalled ==
  ASSUME IInv, CacheCurrent, NEW k \in Keys, ReadyAt(k), KeyInstalled(k),
         Environment(k) \/ Informer(k) \/ Reconcile(k) \/ WorkerStep(k)
  PROVE  KeyInstalled(k)'
<1>1. CASE Delete(k)
  <2>1. TypeOK /\ Doomed(cache[k])
    BY <1>1 DEF Delete, At, IInv, KeyInv, Finalizing
  <2>2. Bare(k)'
    BY <1>1, <2>1, DoomedVouchNot, FinalizeUnready
  <2>3. QED
    BY <2>2 DEF KeyInstalled, Bare
<1>2. CASE ~Delete(k) /\ Complete
  BY <1>2, CompleteKept DEF KeyInstalled
<1>3. CASE ~Delete(k) /\ ~Complete /\ ~Complete'
  <2>1. TypeOK /\ Bare(k)
    BY <1>3 DEF IInv, KeyInstalled, Bare
  <2>2. ~CheckDeployments(k) /\ ~DeleteObsoleteResources(k)
    BY <2>1 DEF Bare, Unready, CheckDeployments, DeleteObsoleteResources, At
  <2>3. FinalizeKind(k) => Bare(k)'
    BY <2>1, FinalizeUnready DEF Bare
  <2>4. Bare(k)'
    BY <1>3, <2>1, <2>2, <2>3, OutsideUnready, ReconcileUnready, FinalizersUnready, ReconcileKindUnready,
       EnsureFinalizerUnready, InitStatusUnready, InstallUnready, ReleaseUnready, UpdateStatusUnready
    DEF WorkerStep
  <2>5. QED
    BY <2>4 DEF KeyInstalled, Bare
<1>4. QED
  BY <1>1, <1>2, <1>3 DEF KeyInstalled

\* Every step keeps the invariant of the only key.
LEMMA InstalledKept ==
  ASSUME NEW k \in Keys \ LegacyKeys, Keys = {k}, IInv, CacheCurrent, ReadyInv, KeyInstalled(k),
         [Next]_vars
  PROVE  KeyInstalled(k)'
<1>1. CASE UNCHANGED vars
  BY <1>1 DEF vars, KeyInstalled, Complete, Unready, Listed
<1>2. CASE Restart
  <2>1. /\ cache'[k] = api[k] /\ watch'[k] = <<>> /\ pc'[k] = "idle" /\ UNCHANGED <<api, cluster>>
    BY <1>2 DEF Restart, manifest
  <2>2. QED
    BY <2>1 DEF KeyInstalled, Complete, NothingVouches, Unready, EarlyStages, InstallStages
<1>3. CASE Environment(k) \/ Informer(k) \/ Reconcile(k) \/ WorkerStep(k)
  BY <1>3, StepInstalled DEF ReadyInv, ReadyAt
<1>4. QED
  BY <1>1, <1>2, <1>3 DEF Next

\* However an uninstall for one object and a status for another overlap (delete,
\* updateStatus), InstalledInv holds.
THEOREM InstalledInvariant ==
  ASSUME NEW only \in Keys, Keys = {only}
  PROVE  Spec => []InstalledInv
<1>1. ASSUME only \notin LegacyKeys
      PROVE  Init => KeyInstalled(only)
  <2>1. Init => /\ api[only] = Gone(0, 0) /\ cache[only] = Gone(0, 0) /\ watch[only] = <<>>
                /\ pc[only] = "idle"
    BY <1>1 DEF Init
  <2>2. ~Vouches(Gone(0, 0))
    BY DEF Gone, Vouches, Has
  <2>3. QED
    BY <2>1, <2>2 DEF KeyInstalled, NothingVouches, Unready, EarlyStages, InstallStages
<1>2. Init => InstalledInv
  BY <1>1 DEF InstalledInv
<1>3. IInv /\ CacheCurrent /\ ReadyInv /\ InstalledInv /\ [Next]_vars => InstalledInv'
  <2>1. SUFFICES ASSUME IInv, CacheCurrent, ReadyInv, InstalledInv, [Next]_vars,
                        only \notin LegacyKeys
                 PROVE  KeyInstalled(only)'
    BY DEF InstalledInv
  <2>2. KeyInstalled(only)
    BY <2>1 DEF InstalledInv
  <2>3. QED
    BY <2>1, <2>2, InstalledKept
<1>4. QED
  BY <1>2, <1>3, Invariant, CacheIsCurrent, ReadyInvariant, PTL DEF Spec

\* A KnativeServing that reports Ready and is not being deleted has its manifest in
\* the cluster (install, delete): for the only KnativeServing of the cluster, that
\* no earlier operator has left.
THEOREM ReadyIsInstalled ==
  ASSUME NEW only \in Keys, Keys = {only}, LegacyKeys = {}
  PROVE  Spec => []ReadyMeansInstalled
<1>1. ReadyInv /\ InstalledInv => ReadyMeansInstalled
  <2>1. SUFFICES ASSUME ReadyInv, InstalledInv, api[only].phase = "live", IsReady(api[only])
                 PROVE  Complete
    BY DEF ReadyMeansInstalled, IsReady, Complete
  <2>2. ReadyKept(api[only]) /\ DefaultFirst(api[only]) /\ KeyInstalled(only)
    BY <2>1 DEF ReadyInv, ReadyKey, ReadyHistory, InstalledInv
  <2>3. Vouches(api[only])
    BY <2>1, <2>2, LiveVouches
  <2>4. QED
    BY <2>2, <2>3 DEF KeyInstalled, NothingVouches
<1>2. QED
  BY <1>1, ReadyInvariant, InstalledInvariant, PTL

=============================================================================
