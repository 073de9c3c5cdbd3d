-------------------------- MODULE ReconcilerProofs --------------------------
(***************************************************************************)
(* IInv is an invariant of Spec, for every set of keys and all bounds, and  *)
(* with it type correctness, the protection of what is installed and the    *)
(* safety of the fetch before a release.  The invariant of a key is a       *)
(* formula about five values, so that the steps of the proof that do the    *)
(* work are about values too; Frame carries them over to states.            *)
(* At the end, that the conditions of a KnativeServing always sum up.       *)
(***************************************************************************)
EXTENDS ReconcilerTypeProofs

\* Object b may be stored after object a by anyone but the worker that releases a.
Follows(a, b) ==
  /\ Precedes(a, b)
  /\ Has(b.fin, ManifestFinalizer) => Exists(b)
  /\ Exists(a) /\ Has(a.fin, ManifestFinalizer) => Kept(b, a.inc)

\* The cached object is no newer than the stored one, and if it is as new,
\* there are no changes between them.
LEMMA CacheIsOlder ==
  ASSUME NEW a \in Objects, NEW c \in Objects, NEW w \in Seq(Objects), HistoryOrdered(a, c, w)
  PROVE  /\ c.rv <= a.rv /\ (Doomed(c) => Doomed(a))
         /\ c.rv = a.rv => Len(w) = 0 /\ c.inc = a.inc /\ c.phase = a.phase
<1>1. a.rv \in Nat /\ c.rv \in Nat
  BY DEF Objects
<1>2. CASE Len(w) = 0
  BY <1>1, <1>2 DEF HistoryOrdered
<1>3. CASE Len(w) > 0
  <2>1. Len(w) \in DOMAIN w /\ w[Len(w)] = a
    BY <1>3 DEF HistoryOrdered
  <2>2. Precedes(c, a)
    BY <2>1 DEF HistoryOrdered
  <2>3. QED
    BY <1>1, <2>2 DEF Precedes
<1>4. QED
  BY <1>2, <1>3

\* A change is the last of the history, and the history before it is kept.
LEMMA AppendChange ==
  ASSUME NEW w \in Seq(Objects), NEW b \in Objects
  PROVE  /\ Append(w, b) \in Seq(Objects) /\ Len(Append(w, b)) = Len(w) + 1
         /\ Len(w) \in Nat
         /\ Append(w, b)[Len(w) + 1] = b
         /\ \A i \in DOMAIN w : Append(w, b)[i] = w[i]
         /\ \A i \in DOMAIN Append(w, b) : i \in DOMAIN w \/ i = Len(w) + 1
         /\ \A i \in DOMAIN w : i \in Nat /\ i < Len(w) + 1
  OBVIOUS

\* The history of a key stays one when b is stored.
LEMMA HistoryGrows ==
  ASSUME NEW a \in Objects, NEW c \in Objects, NEW w \in Seq(Objects), NEW b \in Objects,
         HistoryOrdered(a, c, w), HistoryKept(a, c, w), Follows(a, b)
  PROVE  HistoryOrdered(b, c, Append(w, b)) /\ HistoryKept(b, c, Append(w, b))
<1> DEFINE v == Append(w, b)
<1>1. a.rv \in Nat /\ b.rv \in Nat /\ c.rv \in Nat /\ \A i \in DOMAIN w : w[i].rv \in Nat
  <2>1. \A o \in Objects : o.rv \in Nat
    BY DEF Objects
  <2>2. \A i \in DOMAIN w : w[i] \in Objects
    OBVIOUS
  <2>3. QED
    BY <2>1, <2>2
<1>2. /\ Len(v) = Len(w) + 1 /\ v[Len(w) + 1] = b /\ Len(w) \in Nat
      /\ \A i \in DOMAIN w : v[i] = w[i] /\ i < Len(w) + 1
      /\ \A i \in DOMAIN v : i \in DOMAIN w \/ i = Len(w) + 1
  BY AppendChange
<1> HIDE DEF v
<1>3. Precedes(c, b)
  BY <1>1, CacheIsOlder DEF Follows, Precedes
<1>4. ASSUME NEW i \in DOMAIN w
      PROVE  Precedes(w[i], b)
  <2>1. w[Len(w)] = a /\ Len(w) \in DOMAIN w /\ (i = Len(w) \/ i < Len(w))
    BY DEF HistoryOrdered
  <2>2. w[i] = a \/ Precedes(w[i], a)
    BY <2>1 DEF HistoryOrdered
  <2>3. QED
    BY <1>1, <2>2 DEF Follows, Precedes
<1>5. \A i \in DOMAIN v : Precedes(c, v[i])
  BY <1>2, <1>3 DEF HistoryOrdered
<1>6. ASSUME NEW i \in DOMAIN v, NEW j \in DOMAIN v, i < j
      PROVE  Precedes(v[i], v[j])
  <2>1. i \in DOMAIN w
    BY <1>2, <1>6
  <2>2. CASE j \in DOMAIN w
    BY <1>2, <1>6, <2>1, <2>2 DEF HistoryOrdered
  <2>3. CASE j = Len(w) + 1
    BY <1>2, <1>4, <2>1, <2>3
  <2>4. QED
    BY <1>2, <2>2, <2>3
<1>7. HistoryOrdered(b, c, v)
  BY <1>2, <1>5, <1>6 DEF HistoryOrdered
<1>8. \A i : Kept(a, i) => Kept(b, i)
  BY DEF Follows, Kept
<1>9. HistoryKept(b, c, v)
  BY <1>2, <1>8 DEF HistoryKept, Follows, Kept
<1>10. QED
  BY <1>7, <1>9 DEF v

\* A write from the newest version of an object starts a history of its own.
LEMMA HistoryStarts ==
  ASSUME NEW a \in Objects, NEW c \in Objects, NEW w \in Seq(Objects), NEW b \in Objects,
         Len(w) = 0, Precedes(c, b), Has(b.fin, ManifestFinalizer) => Exists(b),
         Has(c.fin, ManifestFinalizer) => Kept(b, c.inc)
  PROVE  HistoryOrdered(b, c, Append(w, b)) /\ HistoryKept(b, c, Append(w, b))
<1> DEFINE v == Append(w, b)
<1>1. Len(v) = 1 /\ v[1] = b /\ \A i \in DOMAIN v : i = 1
  BY AppendChange
<1> HIDE DEF v
<1>2. HistoryOrdered(b, c, v)
  BY <1>1 DEF HistoryOrdered
<1>3. HistoryKept(b, c, v)
  BY <1>1 DEF HistoryKept, Kept
<1>4. QED
  BY <1>2, <1>3 DEF v

\* The invariant of a key survives a change that Follows allows.
LEMMA StoreKeeps ==
  ASSUME NEW a \in Objects, NEW c \in Objects, NEW w \in Seq(Objects), NEW b \in Objects,
         NEW s, NEW r \in Objects, KeyInv(a, c, w, s, r), Follows(a, b)
  PROVE  KeyInv(b, c, Append(w, b), s, r)
<1>1. HistoryOrdered(b, c, Append(w, b)) /\ HistoryKept(b, c, Append(w, b))
  BY HistoryGrows DEF KeyInv
<1>2. a.rv \in Nat /\ b.rv \in Nat /\ r.rv \in Nat /\ a.rv < b.rv
  BY DEF Objects, Follows, Precedes
<1>3. \A i : Kept(a, i) => Kept(b, i)
  BY DEF Follows, Kept
<1>4. EarlyCopy(b, s, r)
  BY <1>2, <1>3 DEF KeyInv, EarlyCopy
<1>5. Protected(b, s, r)
  BY <1>3 DEF KeyInv, Protected
<1>6. QED
  BY <1>1, <1>4, <1>5 DEF KeyInv

\* A write that keeps the identity of an object and its manifest finalizer.
LEMMA CommittedFollows ==
  ASSUME NEW a \in Objects, NEW o \in Objects, Exists(a), Exists(o),
         o.inc = a.inc, o.rv = a.rv,
         Has(a.fin, ManifestFinalizer) => Has(o.fin, ManifestFinalizer),
         Doomed(a) => Doomed(o)
  PROVE  Follows(a, Committed(o))
<1>1. a.rv \in Nat /\ o.rv \in Nat /\ o.fin \in Seq(Finalizers)
  BY DEF Objects
<1>2. CASE o.phase = "deleting" /\ Len(o.fin) = 0
  <2>1. ~Has(o.fin, ManifestFinalizer) /\ ~Doomed(o)
    BY <1>1, <1>2 DEF Has, Doomed, ManifestFirst
  <2>2. Committed(o) = Gone(o.inc, o.rv + 1)
    BY <1>2 DEF Committed
  <2>3. Committed(o).rv = o.rv + 1 /\ ~Has(Committed(o).fin, ManifestFinalizer)
    BY <2>2 DEF Gone, Has
  <2>4. QED
    BY <1>1, <2>1, <2>3 DEF Follows, Precedes
<1>3. CASE ~(o.phase = "deleting" /\ Len(o.fin) = 0)
  <2>1. Committed(o) = Bumped(o)
    BY <1>3 DEF Committed
  <2>2. /\ Bumped(o).rv = o.rv + 1 /\ Bumped(o).fin = o.fin /\ Bumped(o).inc = o.inc
        /\ Bumped(o).phase = o.phase
    BY DEF Bumped, Objects
  <2>3. QED
    BY <1>1, <2>1, <2>2 DEF Follows, Precedes, Kept, Exists, Doomed
<1>4. QED
  BY <1>2, <1>3

\* What a step leaves as it is of the other keys, and does right for its own,
\* it does right.
LEMMA Frame ==
  ASSUME IInv, TypeOK', TodoOK', NEW k \in Keys,
         \A j \in Keys \ {k} : /\ api'[j] = api[j] /\ cache'[j] = cache[j] /\ watch'[j] = watch[j]
                               /\ pc'[j] = pc[j] /\ res'[j] = res[j],
         KeyInv(api'[k], cache'[k], watch'[k], pc'[k], res'[k])
  PROVE  IInv'
  BY DEF IInv

\* The five values of a key have their types.
LEMMA KeyTyped ==
  ASSUME TypeOK, NEW k \in Keys
  PROVE  /\ api[k] \in Objects /\ cache[k] \in Objects /\ res[k] \in Objects /\ orig[k] \in Objects
         /\ watch[k] \in Seq(Objects)
  BY DEF TypeOK

\* Someone else than the worker of the key stores a new version of its object.
LEMMA StoreStep ==
  ASSUME IInv, TypeOK', TodoOK', NEW k \in Keys, NEW b \in Objects, Store(k, b),
         Follows(api[k], b), UNCHANGED <<cache, pc, res>>
  PROVE  IInv'
<1>1. TypeOK /\ KeyInv(api[k], cache[k], watch[k], pc[k], res[k])
  BY DEF IInv
<1>2. KeyInv(b, cache[k], Append(watch[k], b), pc[k], res[k])
  BY <1>1, KeyTyped, StoreKeeps
<1>3. /\ api'[k] = b /\ watch'[k] = Append(watch[k], b)
      /\ \A j \in Keys \ {k} : api'[j] = api[j] /\ watch'[j] = watch[j]
  BY <1>1 DEF Store, TypeOK
<1>4. QED
  BY <1>2, <1>3, Frame

\* A user creates a KnativeServing: there was none, with or without finalizer.
LEMMA CreateKeeps ==
  ASSUME IInv, TypeOK', TodoOK', NEW k \in Keys, NEW spec \in Specs, CreateCR(k, spec)
  PROVE  IInv'
<1> DEFINE b == Created(api[k].inc + 1, api[k].rv + 1, spec)
<1>1. TypeOK /\ api[k] \in Objects /\ api[k].rv \in Nat /\ api[k].inc \in Nat
  BY KeyTyped DEF IInv, Objects
<1>2. b \in Objects
  BY <1>1, EmptyTyped DEF Created, Objects, Phases
<1>3. b.rv = api[k].rv + 1 /\ b.phase = "live" /\ Exists(b) /\ ~Exists(api[k])
  BY DEF Created, CreateCR, Exists
<1>4. ~Doomed(api[k])
  BY <1>3 DEF Doomed, Exists
<1>5. Follows(api[k], b)
  BY <1>1, <1>3, <1>4 DEF Follows, Precedes
<1>6. Store(k, b) /\ UNCHANGED <<cache, pc, res>>
  BY DEF CreateCR, worker
<1> HIDE DEF b
<1>7. QED
  BY <1>2, <1>5, <1>6, StoreStep

\* A user edits the spec: finalizers and identity stay.
LEMMA EditKeeps ==
  ASSUME IInv, TypeOK', TodoOK', NEW k \in Keys, NEW spec \in Specs, EditSpec(k, spec)
  PROVE  IInv'
<1> DEFINE a == api[k]
           o == Edited(a, spec)
<1>1. TypeOK /\ a \in Objects /\ a.gen + 1 \in Nat
  BY KeyTyped DEF IInv, Objects
<1>2. o \in Objects
  BY <1>1 DEF Edited, Objects
<1>3. /\ o.phase = a.phase /\ o.inc = a.inc /\ o.rv = a.rv /\ o.fin = a.fin
      /\ Exists(a) /\ Store(k, Committed(o)) /\ UNCHANGED <<cache, pc, res>>
  BY DEF EditSpec, Edited, worker
<1> HIDE DEF a, o
<1>4. Exists(o) /\ (Doomed(a) => Doomed(o))
  BY <1>3 DEF Exists, Doomed
<1>5. Follows(a, Committed(o)) /\ Committed(o) \in Objects
  BY <1>1, <1>2, <1>3, <1>4, CommittedFollows, CommittedTyped
<1>6. QED
  BY <1>3, <1>5, StoreStep DEF a

\* A user deletes a KnativeServing: it was live, so it was not doomed, and the
\* manifest finalizer holds it.
LEMMA DeleteCRKeeps ==
  ASSUME IInv, TypeOK', TodoOK', NEW k \in Keys, NEW foreground \in BOOLEAN, DeleteCR(k, foreground)
  PROVE  IInv'
<1> DEFINE a == api[k]
           fin == IF foreground THEN Append(a.fin, ForegroundFinalizer) ELSE a.fin
           o == Marked(a, fin)
<1>1. TypeOK /\ a \in Objects /\ a.gen + 1 \in Nat /\ a.fin \in Seq(Finalizers)
  BY KeyTyped DEF IInv, Objects
<1>2. /\ fin \in Seq(Finalizers)
      /\ Has(a.fin, ManifestFinalizer) => Has(fin, ManifestFinalizer)
  <2>1. ForegroundFinalizer \in Finalizers
    BY DEF Finalizers
  <2>2. QED
    BY <1>1, <2>1, AppendFacts
<1>3. /\ a.phase = "live" /\ Store(k, Committed(o)) /\ UNCHANGED <<cache, pc, res>>
  BY DEF DeleteCR, worker
<1> HIDE DEF fin
<1>4. o \in Objects
  BY <1>1, <1>2 DEF Marked, Objects, Phases
<1>5. o.inc = a.inc /\ o.rv = a.rv /\ o.fin = fin /\ Exists(o) /\ Exists(a) /\ ~Doomed(a)
  BY <1>3 DEF Marked, Exists, Doomed
<1> HIDE DEF a, o
<1>6. Follows(a, Committed(o)) /\ Committed(o) \in Objects
  BY <1>1, <1>2, <1>4, <1>5, CommittedFollows, CommittedTyped
<1>7. QED
  BY <1>3, <1>6, StoreStep DEF a

\* The garbage collector takes off its own finalizer and no other.
LEMMA ForegroundKeeps ==
  ASSUME IInv, TypeOK', TodoOK', NEW k \in Keys, ForegroundDone(k)
  PROVE  IInv'
<1> DEFINE a == api[k]
<1>1. TypeOK /\ a \in Objects /\ a.fin \in Seq(Finalizers)
  BY KeyTyped DEF IInv, Objects
<1>2. PICK i \in DOMAIN a.fin :
        /\ a.fin[i] = ForegroundFinalizer
        /\ Store(k, Committed([a EXCEPT !.fin = Without(@, i)]))
  BY DEF ForegroundDone
<1> DEFINE fin == Without(a.fin, i)
           o == [a EXCEPT !.fin = fin]
<1>3. /\ fin \in Seq(Finalizers)
      /\ ManifestFirst(a.fin) => ManifestFirst(fin)
      /\ Has(a.fin, ManifestFinalizer) => Has(fin, ManifestFinalizer)
  BY <1>1, <1>2, WithoutFacts
<1>4. Exists(a) /\ UNCHANGED <<cache, pc, res>> /\ Store(k, Committed(o))
  BY <1>2 DEF ForegroundDone, worker
<1> HIDE DEF fin
<1>5. o \in Objects /\ o.inc = a.inc /\ o.rv = a.rv /\ o.fin = fin /\ o.phase = a.phase
  BY <1>1, <1>3 DEF Objects
<1> HIDE DEF a, o
<1>6. Exists(o) /\ (Doomed(a) => Doomed(o))
  BY <1>3, <1>4, <1>5 DEF Exists, Doomed
<1>7. Follows(a, Committed(o)) /\ Committed(o) \in Objects
  BY <1>1, <1>3, <1>4, <1>5, <1>6, CommittedFollows, CommittedTyped
<1>8. QED
  BY <1>4, <1>7, StoreStep DEF a

\* The informer takes the next change, or the stored object itself, for the
\* cached one.
LEMMA WatchKeeps ==
  ASSUME NEW a \in Objects, NEW c \in Objects, NEW w \in Seq(Objects), NEW s, NEW r \in Objects,
         KeyInv(a, c, w, s, r), Len(w) > 0
  PROVE  KeyInv(a, Head(w), Tail(w), s, r)
<1> DEFINE v == Tail(w)
<1>1. /\ v \in Seq(Objects) /\ Len(v) = Len(w) - 1 /\ Head(w) = w[1] /\ Len(w) \in Nat
      /\ \A i \in DOMAIN v : v[i] = w[i + 1] /\ i + 1 \in DOMAIN w /\ 1 < i + 1
      /\ \A i, j \in DOMAIN v : i < j => i + 1 < j + 1
      /\ 1 \in DOMAIN w /\ Len(v) > 0 => v[Len(v)] = w[Len(w)]
  OBVIOUS
<1> HIDE DEF v
<1>2. 1 \in DOMAIN w
  OBVIOUS
<1>3. HistoryOrdered(a, Head(w), v)
  <2>1. \A i \in DOMAIN v : Precedes(w[1], v[i])
    BY <1>1, <1>2 DEF KeyInv, HistoryOrdered
  <2>2. \A i, j \in DOMAIN v : i < j => Precedes(v[i], v[j])
    BY <1>1 DEF KeyInv, HistoryOrdered
  <2>3. Len(v) > 0 => v[Len(v)] = a
    BY <1>1, <1>2 DEF KeyInv, HistoryOrdered
  <2>4. Len(v) = 0 => w[1] = a
    <3>1. Len(v) = 0 => Len(w) = 1
      BY <1>1
    <3>2. QED
      BY <3>1 DEF KeyInv, HistoryOrdered
  <2>5. QED
    BY <1>1, <2>1, <2>2, <2>3, <2>4 DEF HistoryOrdered
<1>4. HistoryKept(a, Head(w), v)
  BY <1>1, <1>2 DEF KeyInv, HistoryKept
<1>5. Doomed(c) => Doomed(Head(w))
  BY <1>1, <1>2 DEF KeyInv, HistoryOrdered, Precedes
<1>6. QED
  BY <1>3, <1>4, <1>5 DEF KeyInv, Finalizing, v

\* A list makes the cached object the stored one.
LEMMA ListKeeps ==
  ASSUME NEW a \in Objects, NEW c \in Objects, NEW w \in Seq(Objects), NEW s, NEW r \in Objects,
         KeyInv(a, c, w, s, r)
  PROVE  KeyInv(a, a, <<>>, s, r)
<1>1. HistoryOrdered(a, a, <<>>)
  BY DEF HistoryOrdered
<1>2. HistoryKept(a, a, <<>>)
  BY DEF KeyInv, HistoryKept, Kept
<1>3. Doomed(c) => Doomed(a)
  BY CacheIsOlder DEF KeyInv
<1>4. QED
  BY <1>1, <1>2, <1>3 DEF KeyInv, Finalizing

\* What the informer does, to the invariant of the key it does it for.
LEMMA InformerKeeps ==
  ASSUME IInv, TypeOK', TodoOK', NEW k \in Keys, Informer(k)
  PROVE  IInv'
<1>1. TypeOK /\ KeyInv(api[k], cache[k], watch[k], pc[k], res[k])
  BY DEF IInv
<1>2. CASE WatchEvent(k)
  <2>1. KeyInv(api[k], Head(watch[k]), Tail(watch[k]), pc[k], res[k])
    BY <1>1, <1>2, KeyTyped, WatchKeeps DEF WatchEvent
  <2>2. /\ cache'[k] = Head(watch[k]) /\ watch'[k] = Tail(watch[k])
        /\ \A j \in Keys \ {k} : cache'[j] = cache[j] /\ watch'[j] = watch[j]
        /\ UNCHANGED <<api, pc, res>>
    BY <1>1, <1>2 DEF WatchEvent, worker, TypeOK
  <2>3. QED
    BY <2>1, <2>2, Frame
<1>3. CASE Relist(k)
  <2>1. KeyInv(api[k], api[k], <<>>, pc[k], res[k])
    BY <1>1, KeyTyped, ListKeeps
  <2>2. /\ cache'[k] = api[k] /\ watch'[k] = <<>>
        /\ \A j \in Keys \ {k} : cache'[j] = cache[j] /\ watch'[j] = watch[j]
        /\ UNCHANGED <<api, pc, res>>
    BY <1>1, <1>3 DEF Relist, worker, TypeOK
  <2>3. QED
    BY <2>1, <2>2, Frame
<1>4. CASE Resync(k)
  BY <1>4 DEF Resync, objects, worker, IInv
<1>5. QED
  BY <1>2, <1>3, <1>4 DEF Informer

\* A worker that is between two reconciliations, or past the part of one that
\* the invariant is about, may hold any copy.
LEMMA Relaxed ==
  ASSUME NEW a, NEW c, NEW w, NEW s, NEW r, NEW t, NEW q,
         KeyInv(a, c, w, s, r),
         t \in {"idle", "clearFinalizer", "syncStatus", "getStatus"}
  PROVE  KeyInv(a, c, w, t, q)
  BY DEF KeyInv, EarlyCopy, Protected, Finalizing, EarlyStages, InstallStages

\* A new operator has listed the objects and works on none.
LEMMA RestartKeeps ==
  ASSUME IInv, TypeOK', TodoOK', Restart
  PROVE  IInv'
<1>1. ASSUME NEW k \in Keys
      PROVE  KeyInv(api'[k], cache'[k], watch'[k], pc'[k], res'[k])
  <2>1. TypeOK /\ KeyInv(api[k], cache[k], watch[k], pc[k], res[k])
    BY DEF IInv
  <2>2. KeyInv(api[k], api[k], <<>>, pc[k], res[k])
    BY <2>1, KeyTyped, ListKeeps
  <2>3. /\ api'[k] = api[k] /\ cache'[k] = api[k] /\ watch'[k] = <<>> /\ pc'[k] = "idle"
    BY DEF Restart
  <2>4. QED
    BY <2>2, <2>3, Relaxed
<1>2. QED
  BY <1>1 DEF IInv

\* Deployments come and go without touching objects or workers.
LEMMA DeploymentKeeps ==
  ASSUME IInv, TypeOK', TodoOK', NEW k \in Keys,
         \/ DeploymentUp(k) \/ CollectDeployment(k)
         \/ \E state \in {"absent", "down"} : DeploymentLost(k, state)
  PROVE  IInv'
<1>1. UNCHANGED <<api, cache, watch, pc, res>>
  BY DEF DeploymentUp, CollectDeployment, DeploymentLost, objects, worker
<1>2. QED
  BY <1>1 DEF IInv

\* A worker takes a key: its copy is the cached object.
LEMMA ReconcileKeeps ==
  ASSUME IInv, TypeOK', TodoOK', NEW k \in Keys, Reconcile(k)
  PROVE  IInv'
<1> DEFINE a == api[k]
           c == cache[k]
<1>1. TypeOK /\ KeyInv(a, c, watch[k], pc[k], res[k])
  BY DEF IInv
<1>2. a \in Objects /\ c \in Objects /\ watch[k] \in Seq(Objects)
  BY <1>1, KeyTyped
<1>3. CASE ~Exists(c)
  BY <1>3 DEF Reconcile, objects, IInv
<1>4. CASE Exists(c)
  <2>1. /\ pc'[k] = (IF c.phase = "live" THEN "setFinalizer" ELSE "finalizeKind")
        /\ res'[k] = c /\ UNCHANGED <<api, cache, watch>>
        /\ \A j \in Keys \ {k} : pc'[j] = pc[j] /\ res'[j] = res[j]
    BY <1>1, <1>4 DEF Reconcile, Goto, SetRes, objects, TypeOK
  <2>2. /\ c.rv <= a.rv /\ (c.rv = a.rv => c.inc = a.inc /\ c.phase = a.phase)
    BY <1>1, <1>2, CacheIsOlder DEF KeyInv
  <2>3. Has(c.fin, ManifestFinalizer) => Kept(a, c.inc)
    BY <1>1 DEF KeyInv, HistoryKept
  <2>4. CASE c.phase = "live"
    BY <1>1, <2>1, <2>2, <2>3, <2>4, Frame
    DEF KeyInv, EarlyCopy, Protected, Finalizing, EarlyStages, InstallStages
  <2>5. CASE c.phase = "deleting"
    BY <1>1, <2>1, <2>5, Frame
    DEF KeyInv, EarlyCopy, Protected, Finalizing, Doomed, EarlyStages, InstallStages
  <2>6. QED
    BY <1>4, <2>4, <2>5 DEF Exists
<1>5. QED
  BY <1>3, <1>4

\* What a request does to the stored object.
LEMMA WriteEffect ==
  ASSUME TypeOK, NEW k \in Keys, NEW rv, NEW o \in Objects, NEW reply, Write(k, rv, o, reply)
  PROVE  /\ \A j \in Keys \ {k} : api'[j] = api[j] /\ watch'[j] = watch[j]
         /\ \/ api'[k] = api[k] /\ watch'[k] = watch[k] /\ reply # "ok"
            \/ /\ Exists(api[k]) /\ api[k].rv = rv
               /\ api'[k] = Committed(o) /\ watch'[k] = Append(watch[k], Committed(o))
<1>1. Store(k, Committed(o)) =>
        /\ \A j \in Keys \ {k} : api'[j] = api[j] /\ watch'[j] = watch[j]
        /\ api'[k] = Committed(o) /\ watch'[k] = Append(watch[k], Committed(o))
  BY DEF Store, TypeOK
<1>2. CASE Exists(api[k]) /\ api[k].rv = rv /\ Store(k, Committed(o))
  BY <1>1, <1>2
<1>3. CASE UNCHANGED <<api, watch>> /\ reply # "ok"
  BY <1>3
<1>4. QED
  BY <1>2, <1>3 DEF Write

\* A request that keeps identity and manifest finalizer keeps the invariant.
LEMMA WriteKeeps ==
  ASSUME TypeOK, NEW k \in Keys, NEW rv, NEW o \in Objects, NEW reply, Write(k, rv, o, reply),
         KeyInv(api[k], cache[k], watch[k], pc[k], res[k]),
         Exists(api[k]) /\ api[k].rv = rv => Follows(api[k], Committed(o))
  PROVE  KeyInv(api'[k], cache[k], watch'[k], pc[k], res[k])
<1>1. Committed(o) \in Objects
  BY CommittedTyped
<1>2. CASE api'[k] = api[k] /\ watch'[k] = watch[k]
  BY <1>2
<1>3. CASE /\ Exists(api[k]) /\ api[k].rv = rv
           /\ api'[k] = Committed(o) /\ watch'[k] = Append(watch[k], Committed(o))
  <2>1. KeyInv(Committed(o), cache[k], Append(watch[k], Committed(o)), pc[k], res[k])
    BY <1>1, <1>3, KeyTyped, StoreKeeps
  <2>2. QED
    BY <1>3, <2>1
<1>4. QED
  BY <1>2, <1>3, WriteEffect

\* A new status leaves everything else as it is.
LEMMA StatusFollows ==
  ASSUME NEW a \in Objects, NEW st \in Statuses
  PROVE  /\ [a EXCEPT !.status = st] \in Objects
         /\ Exists(a) => Follows(a, Committed([a EXCEPT !.status = st]))
<1> DEFINE o == [a EXCEPT !.status = st]
<1>1. o \in Objects
  BY StatusTyped
<1>2. o.inc = a.inc /\ o.rv = a.rv /\ o.fin = a.fin /\ o.phase = a.phase
  BY DEF Objects
<1> HIDE DEF o
<1>3. (Exists(a) => Exists(o)) /\ (Doomed(a) => Doomed(o))
  BY <1>2 DEF Exists, Doomed
<1>4. Exists(a) => Follows(a, Committed(o))
  BY <1>1, <1>2, <1>3, CommittedFollows
<1>5. QED
  BY <1>1, <1>4 DEF o

\* The default finalizer is in a sorted list of a set it is in.
LEMMA SortedListDefault ==
  ASSUME NEW S \in SUBSET Finalizers, DefaultFinalizer \in S
  PROVE  Has(SortedList(S), DefaultFinalizer)
<1> DEFINE only(f) == IF f \in S THEN <<f>> ELSE <<>>
           front == only(ManifestFinalizer) \o only(ForegroundFinalizer)
<1>1. ASSUME NEW f \in Finalizers
      PROVE  only(f) \in Seq(Finalizers)
  <2>1. CASE f \in S
    BY <2>1
  <2>2. CASE f \notin S
    BY <2>2
  <2>3. QED
    BY <2>1, <2>2
<1>2. front \in Seq(Finalizers)
  <2>1. ManifestFinalizer \in Finalizers /\ ForegroundFinalizer \in Finalizers
    BY DEF Finalizers
  <2>2. only(ManifestFinalizer) \in Seq(Finalizers) /\ only(ForegroundFinalizer) \in Seq(Finalizers)
    BY <1>1, <2>1
  <2> HIDE DEF only
  <2>3. QED
    BY <2>2
<1>3. only(DefaultFinalizer) = <<DefaultFinalizer>>
  OBVIOUS
<1>4. SortedList(S) = front \o <<DefaultFinalizer>>
  BY <1>3 DEF SortedList
<1> HIDE DEF front
<1>5. /\ Len(front) + 1 \in DOMAIN (front \o <<DefaultFinalizer>>)
      /\ (front \o <<DefaultFinalizer>>)[Len(front) + 1] = DefaultFinalizer
  BY <1>2
<1>6. QED
  BY <1>4, <1>5 DEF Has

\* The set of a worker's finalizers with the default finalizer, or without some.
LEMMA FinalizerSets ==
  ASSUME NEW fin \in Seq(Finalizers)
  PROVE  /\ SetOf(fin) \in SUBSET Finalizers
         /\ SetOf(fin) \cup {DefaultFinalizer} \in SUBSET Finalizers
         /\ ManifestFinalizer \in SetOf(fin) <=> Has(fin, ManifestFinalizer)
         /\ ManifestFinalizer # DefaultFinalizer
         /\ ManifestFirst(fin) => Has(fin, ManifestFinalizer)
         /\ DefaultFinalizer \in Finalizers
<1>1. ManifestFinalizer \in Finalizers /\ DefaultFinalizer \in Finalizers
  BY DEF Finalizers
<1>2. ManifestFinalizer # DefaultFinalizer
  BY DEF ManifestFinalizer, DefaultFinalizer
<1>3. ManifestFirst(fin) => Has(fin, ManifestFinalizer)
  BY DEF ManifestFirst, Has
<1>4. QED
  BY <1>1, <1>2, <1>3 DEF SetOf

\* The patch of updateFinalizersFiltered, made from the cached object: if it is
\* carried out, that is as new as the stored one, so that the manifest finalizer
\* it sees is there and is kept.
LEMMA FinalizersPatched ==
  ASSUME TypeOK, NEW k \in Keys, NEW r \in Objects, UpdateFinalizersFiltered(k, r),
         KeyInv(api[k], cache[k], watch[k], pc[k], res[k])
  PROVE  /\ \A j \in Keys \ {k} : api'[j] = api[j] /\ watch'[j] = watch[j] /\ res'[j] = res[j]
         /\ HistoryOrdered(api'[k], cache[k], watch'[k]) /\ HistoryKept(api'[k], cache[k], watch'[k])
         /\ \/ res'[k] = r /\ api'[k] = api[k]
            \/ res'[k] = Empty
            \/ res'[k] = api'[k] /\ (Has(r.fin, DefaultFinalizer) => api'[k].phase = "live")
            \/ ~Has(r.fin, DefaultFinalizer)
<1> DEFINE a == api[k]
           c == cache[k]
           desired == Has(r.fin, DefaultFinalizer)
           fin == IF desired THEN Append(c.fin, DefaultFinalizer)
                  ELSE SortedList(SetOf(c.fin) \ {DefaultFinalizer})
           patched == [a EXCEPT !.fin = fin]
           b == Committed(patched)
<1>1. a \in Objects /\ c \in Objects /\ watch[k] \in Seq(Objects) /\ c.fin \in Seq(Finalizers)
  BY KeyTyped DEF Objects
<1>2. /\ fin \in Seq(Finalizers)
      /\ Has(c.fin, ManifestFinalizer) => Has(fin, ManifestFinalizer)
      /\ desired => Len(fin) > 0
      /\ ~desired /\ ManifestFirst(c.fin) => ManifestFirst(fin)
      /\ desired /\ ManifestFirst(c.fin) => ManifestFirst(fin)
  <2>1. CASE desired
    BY <1>1, <2>1, FinalizerSets, AppendFacts
  <2>2. CASE ~desired
    <3>1. SetOf(c.fin) \ {DefaultFinalizer} \in SUBSET Finalizers
      BY <1>1, FinalizerSets
    <3>2. Has(c.fin, ManifestFinalizer) => ManifestFinalizer \in SetOf(c.fin) \ {DefaultFinalizer}
      BY <1>1, FinalizerSets
    <3>3. ManifestFirst(c.fin) => Has(c.fin, ManifestFinalizer)
      BY <1>1, FinalizerSets
    <3>4. fin = SortedList(SetOf(c.fin) \ {DefaultFinalizer})
      BY <2>2
    <3> HIDE DEF fin
    <3>5. Has(c.fin, ManifestFinalizer) => ManifestFirst(fin)
      BY <3>1, <3>2, <3>4, SortedListFacts
    <3>6. ManifestFirst(fin) => Has(fin, ManifestFinalizer)
      BY <3>1, <3>4, SortedListFacts, FinalizerSets
    <3>7. fin \in Seq(Finalizers)
      BY <3>1, <3>4, SortedListFacts
    <3>8. QED
      BY <2>2, <3>3, <3>5, <3>6, <3>7
  <2>3. QED
    BY <2>1, <2>2
<1> HIDE DEF fin
<1>3. patched \in Objects /\ b \in Objects
  <2>1. patched \in Objects
    BY <1>1, <1>2 DEF Objects
  <2> HIDE DEF patched
  <2>2. b \in Objects
    BY <2>1, CommittedTyped
  <2>3. QED
    BY <2>1, <2>2
<1>4. /\ patched.phase = a.phase /\ patched.inc = a.inc /\ patched.rv = a.rv
      /\ patched.fin = fin
  BY <1>1 DEF Objects
<1> HIDE DEF patched
<1>5. CASE UNCHANGED <<api, watch>> /\ (SetRes(k, r) \/ SetRes(k, Empty))
  BY <1>5 DEF SetRes, TypeOK, KeyInv
<1>6. CASE \E reply \in {"ok", "conflict", "notfound", "error"} :
             /\ Write(k, c.rv, patched, reply)
             /\ SetRes(k, IF reply = "ok" THEN Bumped(patched) ELSE Empty)
             /\ ~(desired /\ a.phase = "deleting")
  <2>1. PICK reply \in {"ok", "conflict", "notfound", "error"} :
          /\ Write(k, c.rv, patched, reply)
          /\ SetRes(k, IF reply = "ok" THEN Bumped(patched) ELSE Empty)
          /\ ~(desired /\ a.phase = "deleting")
    BY <1>6
  <2>2. /\ \A j \in Keys \ {k} : api'[j] = api[j] /\ watch'[j] = watch[j] /\ res'[j] = res[j]
        /\ res'[k] = IF reply = "ok" THEN Bumped(patched) ELSE Empty
        /\ \/ api'[k] = a /\ watch'[k] = watch[k] /\ reply # "ok"
           \/ Exists(a) /\ a.rv = c.rv /\ api'[k] = b /\ watch'[k] = Append(watch[k], b)
    BY <2>1, <1>3, WriteEffect DEF SetRes, TypeOK
  <2>3. CASE api'[k] = a /\ watch'[k] = watch[k] /\ reply # "ok"
    BY <2>2, <2>3 DEF KeyInv
  <2>4. CASE Exists(a) /\ a.rv = c.rv /\ api'[k] = b /\ watch'[k] = Append(watch[k], b)
    <3>1. Len(watch[k]) = 0 /\ c.inc = a.inc /\ c.phase = a.phase
      BY <1>1, <2>4, CacheIsOlder DEF KeyInv
    <3>2. /\ Has(c.fin, ManifestFinalizer) => b = Bumped(patched)
          /\ desired => b = Bumped(patched)
          /\ b = Bumped(patched) \/ b = Gone(patched.inc, patched.rv + 1)
          /\ Doomed(c) => Has(c.fin, ManifestFinalizer)
      <4>1. Has(fin, ManifestFinalizer) => Len(fin) > 0
        BY <1>2 DEF Has
      <4>2. Doomed(c) => Has(c.fin, ManifestFinalizer)
        BY <1>1, FinalizerSets DEF Doomed
      <4>3. QED
        BY <1>2, <1>4, <4>1, <4>2 DEF Committed
    <3>3. /\ Bumped(patched).rv = a.rv + 1 /\ Bumped(patched).inc = a.inc
          /\ Bumped(patched).phase = a.phase /\ Bumped(patched).fin = fin
      BY <1>3, <1>4 DEF Bumped, Objects
    <3>4. b.rv = a.rv + 1 /\ (Has(b.fin, ManifestFinalizer) => Exists(b))
      BY <1>4, <2>4, <3>2, <3>3 DEF Gone, Has, Exists
    <3>5. Doomed(c) => Doomed(b)
      BY <1>2, <3>1, <3>2, <3>3 DEF Doomed
    <3>6. Has(c.fin, ManifestFinalizer) => Kept(b, c.inc)
      BY <1>2, <2>4, <3>1, <3>2, <3>3 DEF Kept, Exists
    <3>7. Precedes(c, b)
      BY <1>1, <2>4, <3>4, <3>5 DEF Precedes, Objects
    <3>8. HistoryOrdered(b, c, Append(watch[k], b)) /\ HistoryKept(b, c, Append(watch[k], b))
      BY <1>1, <1>3, <3>1, <3>4, <3>6, <3>7, HistoryStarts
    <3>9. desired => b.phase = "live"
      BY <2>1, <2>4, <3>2, <3>3 DEF Exists
    <3>10. QED
      BY <2>2, <2>4, <3>2, <3>8, <3>9
  <2>5. QED
    BY <2>2, <2>3, <2>4
<1>7. QED
  BY <1>5, <1>6 DEF UpdateFinalizersFiltered, fin, patched

\* SetFinalizer leaves a copy as new as the stored object, or the zero one, or
\* the one it started from.
LEMMA SetFinalizerKeeps ==
  ASSUME IInv, TypeOK', TodoOK', NEW k \in Keys, SetFinalizer(k)
  PROVE  IInv'
<1> DEFINE S == SetOf(res[k].fin) \cup {DefaultFinalizer}
           r == [res[k] EXCEPT !.fin = SortedList(S)]
<1>1. /\ TypeOK /\ KeyInv(api[k], cache[k], watch[k], pc[k], res[k])
      /\ res[k] \in Objects /\ res[k].fin \in Seq(Finalizers)
  BY KeyTyped DEF IInv, Objects
<1>2. S \in SUBSET Finalizers /\ DefaultFinalizer \in S
      /\ (ManifestFinalizer \in S <=> Has(res[k].fin, ManifestFinalizer))
  BY <1>1, FinalizerSets
<1> HIDE DEF S
<1>3. /\ r \in Objects /\ r.phase = res[k].phase /\ r.rv = res[k].rv /\ r.inc = res[k].inc
      /\ r.fin = SortedList(S)
  BY <1>1, <1>2, SortedListFacts DEF Objects
<1>4. UpdateFinalizersFiltered(k, r)
  BY DEF SetFinalizer, S
<1> HIDE DEF r
<1>5. /\ Has(r.fin, DefaultFinalizer)
      /\ Has(r.fin, ManifestFinalizer) => Has(res[k].fin, ManifestFinalizer)
  BY <1>2, <1>3, SortedListFacts, SortedListDefault
<1>6. /\ \A j \in Keys \ {k} : api'[j] = api[j] /\ watch'[j] = watch[j] /\ res'[j] = res[j]
      /\ HistoryOrdered(api'[k], cache[k], watch'[k]) /\ HistoryKept(api'[k], cache[k], watch'[k])
      /\ \/ res'[k] = r /\ api'[k] = api[k]
         \/ res'[k] = Empty
         \/ res'[k] = api'[k] /\ api'[k].phase = "live"
  BY <1>1, <1>3, <1>4, <1>5, FinalizersPatched
<1>7. /\ pc[k] = "setFinalizer" /\ pc'[k] = "reconcileKind" /\ UNCHANGED cache
      /\ \A j \in Keys \ {k} : pc'[j] = pc[j]
  BY <1>1 DEF SetFinalizer, At, Goto, TypeOK
<1>8. EarlyCopy(api'[k], "reconcileKind", res'[k])
  <2>1. CASE res'[k] = r /\ api'[k] = api[k]
    <3>1. EarlyCopy(api[k], "setFinalizer", res[k])
      BY <1>1, <1>7 DEF KeyInv
    <3>2. QED
      BY <2>1, <3>1, <1>3, <1>5 DEF EarlyCopy, EarlyStages
  <2>2. CASE res'[k] = Empty
    <3>1. Empty.phase = "empty" /\ ~Has(Empty.fin, ManifestFinalizer)
      BY DEF Empty, Has
    <3>2. QED
      BY <2>2, <3>1 DEF EarlyCopy
  <2>3. CASE res'[k] = api'[k] /\ api'[k].phase = "live"
    <3>1. api'[k] \in Objects /\ api'[k].rv \in Nat
      BY DEF TypeOK, Objects
    <3>2. QED
      BY <2>3, <3>1 DEF EarlyCopy, Kept, Exists
  <2>4. QED
    BY <1>6, <2>1, <2>2, <2>3
<1>9. KeyInv(api'[k], cache[k], watch'[k], "reconcileKind", res'[k])
  BY <1>6, <1>8 DEF KeyInv, Protected, Finalizing, InstallStages
<1>10. QED
  BY <1>6, <1>7, <1>9, Frame

\* The default finalizer is given up, or its loss undone, in a patch of the cached
\* object; the worker has finished with its own copy.
LEMMA ClearFinalizerKeeps ==
  ASSUME IInv, TypeOK', TodoOK', NEW k \in Keys, ClearFinalizer(k)
  PROVE  IInv'
<1> DEFINE S == SetOf(res[k].fin) \ GivenUp(err[k])
           r == [res[k] EXCEPT !.fin = SortedList(S)]
<1>1. /\ TypeOK /\ KeyInv(api[k], cache[k], watch[k], pc[k], res[k])
      /\ res[k] \in Objects /\ res[k].fin \in Seq(Finalizers)
  BY KeyTyped DEF IInv, Objects
<1>2. S \in SUBSET Finalizers
  BY <1>1, FinalizerSets
<1> HIDE DEF S
<1>3. r \in Objects
  BY <1>1, <1>2, SortedListFacts DEF Objects
<1>4. UpdateFinalizersFiltered(k, r)
  BY DEF ClearFinalizer, S
<1> HIDE DEF r
<1>5. /\ \A j \in Keys \ {k} : api'[j] = api[j] /\ watch'[j] = watch[j] /\ res'[j] = res[j]
      /\ HistoryOrdered(api'[k], cache[k], watch'[k]) /\ HistoryKept(api'[k], cache[k], watch'[k])
  BY <1>1, <1>3, <1>4, FinalizersPatched
<1>6. /\ pc'[k] = "syncStatus" /\ UNCHANGED cache
      /\ \A j \in Keys \ {k} : pc'[j] = pc[j]
  BY <1>1 DEF ClearFinalizer, At, Goto, TypeOK
<1>7. KeyInv(api'[k], cache[k], watch'[k], "syncStatus", res'[k])
  BY <1>5 DEF KeyInv, EarlyCopy, Protected, Finalizing, InstallStages, EarlyStages
<1>8. QED
  BY <1>5, <1>6, <1>7, Frame

\* The copy of a worker keeps its identity when its conditions change.
LEMMA SetCondEffect ==
  ASSUME TypeOK, NEW k \in Keys, NEW c, SetCond(k, c)
  PROVE  /\ \A j \in Keys \ {k} : res'[j] = res[j]
         /\ res'[k].phase = res[k].phase /\ res'[k].rv = res[k].rv
         /\ res'[k].inc = res[k].inc /\ res'[k].fin = res[k].fin
<1>1. res'[k] = [res[k] EXCEPT !.status.cond = c] /\ \A j \in Keys \ {k} : res'[j] = res[j]
  BY DEF SetCond, SetRes, TypeOK
<1>2. res[k] \in Objects
  BY DEF TypeOK
<1>3. QED
  BY <1>1, <1>2 DEF Objects

\* The generation check and the transform pass the copy on or refuse it.
LEMMA ReconcileKindKeeps ==
  ASSUME IInv, TypeOK', TodoOK', NEW k \in Keys, ReconcileKind(k)
  PROVE  IInv'
<1>1. /\ TypeOK /\ KeyInv(api[k], cache[k], watch[k], pc[k], res[k])
  BY DEF IInv
<1>2. /\ pc[k] = "reconcileKind" /\ UNCHANGED objects
      /\ pc'[k] \in {"syncStatus", "ensureFinalizer"}
      /\ \A j \in Keys \ {k} : pc'[j] = pc[j] /\ res'[j] = res[j]
      /\ pc'[k] = "ensureFinalizer" => res'[k] = res[k]
  BY <1>1, SetCondEffect DEF ReconcileKind, At, Goto, TypeOK
<1>3. KeyInv(api[k], cache[k], watch[k], pc'[k], res'[k])
  <2>1. CASE pc'[k] = "syncStatus"
    BY <1>1, <2>1, Relaxed
  <2>2. CASE pc'[k] = "ensureFinalizer"
    BY <1>1, <1>2, <2>2 DEF KeyInv, EarlyCopy, Protected, Finalizing, EarlyStages, InstallStages
  <2>3. QED
    BY <1>2, <2>1, <2>2
<1>4. QED
  BY <1>2, <1>3, Frame DEF objects

\* The worker is sure of the manifest finalizer when it saw it on its copy, or
\* when the API server took the update that adds it.
LEMMA EnsureFinalizerKeeps ==
  ASSUME IInv, TypeOK', TodoOK', NEW k \in Keys, EnsureFinalizer(k)
  PROVE  IInv'
<1> DEFINE a == api[k]
           r == res[k]
           fin == Append(r.fin, ManifestFinalizer)
           stored == [a EXCEPT !.fin = fin]
<1>1. /\ TypeOK /\ KeyInv(a, cache[k], watch[k], pc[k], r)
      /\ a \in Objects /\ r \in Objects /\ r.fin \in Seq(Finalizers)
      /\ pc[k] = "ensureFinalizer"
  BY KeyTyped DEF IInv, Objects, EnsureFinalizer, At
<1>2. EarlyCopy(a, "ensureFinalizer", r)
  BY <1>1 DEF KeyInv
<1>3. CASE ManifestAttached(r.fin) /\ Goto(k, "initStatus") /\ UNCHANGED <<api, watch, res, err, used>>
  <2>1. Kept(a, r.inc)
    BY <1>2, <1>3 DEF EarlyCopy, EarlyStages, ManifestAttached
  <2>2. /\ pc'[k] = "initStatus" /\ UNCHANGED <<api, cache, watch, res>>
        /\ \A j \in Keys \ {k} : pc'[j] = pc[j]
    BY <1>1, <1>3 DEF EnsureFinalizer, Goto, TypeOK
  <2>3. KeyInv(a, cache[k], watch[k], "initStatus", r)
    BY <1>1, <2>1 DEF KeyInv, EarlyCopy, Protected, Finalizing, EarlyStages, InstallStages
  <2>4. QED
    BY <2>2, <2>3, Frame
<1>4. CASE /\ SetRes(k, [r EXCEPT !.fin = fin])
           /\ \E reply \in {"ok", "conflict", "notfound", "error"} :
                /\ IF r.phase = "empty"
                   THEN reply = "error" /\ UNCHANGED <<api, watch, used>>
                   ELSE Write(k, r.rv, stored, reply)
                /\ SetErr(k, reply # "ok")
                /\ Goto(k, IF reply = "ok" THEN "initStatus" ELSE "syncStatus")
  <2>1. PICK reply \in {"ok", "conflict", "notfound", "error"} :
          /\ IF r.phase = "empty"
             THEN reply = "error" /\ UNCHANGED <<api, watch, used>>
             ELSE Write(k, r.rv, stored, reply)
          /\ Goto(k, IF reply = "ok" THEN "initStatus" ELSE "syncStatus")
    BY <1>4
  <2>2. /\ res'[k] = [r EXCEPT !.fin = fin] /\ UNCHANGED cache
        /\ \A j \in Keys \ {k} : pc'[j] = pc[j] /\ res'[j] = res[j]
        /\ pc'[k] = IF reply = "ok" THEN "initStatus" ELSE "syncStatus"
    BY <1>1, <1>4, <2>1 DEF EnsureFinalizer, SetRes, Goto, TypeOK
  <2>3. res'[k].inc = r.inc
    BY <1>1, <2>2 DEF Objects
  <2>4. CASE r.phase = "empty"
    <3>1. pc'[k] = "syncStatus" /\ UNCHANGED <<api, watch>>
      BY <2>1, <2>2, <2>4
    <3>2. KeyInv(a, cache[k], watch[k], "syncStatus", res'[k])
      BY <1>1, Relaxed
    <3>3. QED
      BY <2>2, <3>1, <3>2, Frame
  <2>5. CASE r.phase # "empty"
    <3>1. /\ fin \in Seq(Finalizers) /\ Has(fin, ManifestFinalizer)
      BY <1>1, AppendFacts DEF Finalizers
    <3> HIDE DEF fin
    <3>2. /\ stored \in Objects /\ stored.inc = a.inc /\ stored.rv = a.rv
          /\ stored.fin = fin /\ stored.phase = a.phase
      BY <1>1, <3>1 DEF Objects
    <3>3. Write(k, r.rv, stored, reply)
      BY <2>1, <2>5 DEF fin
    <3> HIDE DEF stored
    <3>4. Exists(a) /\ a.rv = r.rv => a.phase = "live" /\ a.inc = r.inc
      BY <1>2, <2>5 DEF EarlyCopy, EarlyStages
    <3>5. Exists(a) /\ a.rv = r.rv => Follows(a, Committed(stored))
      <4>1. SUFFICES ASSUME Exists(a), a.rv = r.rv
                     PROVE  Follows(a, Committed(stored))
        OBVIOUS
      <4>2. Exists(stored) /\ ~Doomed(a)
        BY <3>2, <3>4, <4>1 DEF Exists, Doomed
      <4>3. QED
        BY <1>1, <3>1, <3>2, <4>1, <4>2, CommittedFollows
    <3>6. KeyInv(api'[k], cache[k], watch'[k], pc[k], r)
      BY <1>1, <3>2, <3>3, <3>5, WriteKeeps
    <3>7. /\ \A j \in Keys \ {k} : api'[j] = api[j] /\ watch'[j] = watch[j]
          /\ \/ reply # "ok"
             \/ Exists(a) /\ a.rv = r.rv /\ api'[k] = Committed(stored)
      BY <1>1, <3>2, <3>3, WriteEffect
    <3>8. CASE reply # "ok"
      <4>1. pc'[k] = "syncStatus"
        BY <2>2, <3>8
      <4>2. KeyInv(api'[k], cache[k], watch'[k], "syncStatus", res'[k])
        BY <3>6, Relaxed
      <4>3. QED
        BY <2>2, <3>7, <4>1, <4>2, Frame
    <3>9. CASE Exists(a) /\ a.rv = r.rv /\ api'[k] = Committed(stored) /\ reply = "ok"
      <4>1. Committed(stored) = Bumped(stored)
        BY <3>2, <3>4, <3>9 DEF Committed
      <4>2. Bumped(stored).inc = r.inc /\ Bumped(stored).phase = "live" /\ Bumped(stored).fin = fin
        BY <3>2, <3>4, <3>9 DEF Bumped, Objects
      <4>3. Kept(api'[k], r.inc)
        BY <3>1, <3>9, <4>1, <4>2 DEF Kept, Exists
      <4>4. pc'[k] = "initStatus"
        BY <2>2, <3>9
      <4>5. KeyInv(api'[k], cache[k], watch'[k], "initStatus", res'[k])
        BY <2>3, <3>6, <4>3 DEF KeyInv, EarlyCopy, Protected, Finalizing, EarlyStages, InstallStages
      <4>6. QED
        BY <2>2, <3>7, <4>4, <4>5, Frame
    <3>10. QED
      BY <3>7, <3>8, <3>9
  <2>6. QED
    BY <2>4, <2>5
<1>5. QED
  BY <1>3, <1>4 DEF EnsureFinalizer

\* A worker that installs, or goes on to sync the status, with a copy of the
\* same object.
LEMMA InstallingKeeps ==
  ASSUME NEW a, NEW c, NEW w, NEW s, NEW r, NEW t, NEW q,
         KeyInv(a, c, w, s, r), s \in InstallStages,
         t \in InstallStages \cup {"syncStatus"}, q.inc = r.inc
  PROVE  KeyInv(a, c, w, t, q)
  BY DEF KeyInv, EarlyCopy, Protected, Finalizing, EarlyStages, InstallStages

\* The first update of the status is of the object that is protected.
LEMMA InitStatusKeeps ==
  ASSUME IInv, TypeOK', TodoOK', NEW k \in Keys, InitStatus(k)
  PROVE  IInv'
<1> DEFINE status == [res[k].status EXCEPT !.cond = InitializeConditions(@)]
           stored == [api[k] EXCEPT !.status = status]
           kept == [res[k] EXCEPT !.status = status]
<1>1. /\ TypeOK /\ KeyInv(api[k], cache[k], watch[k], pc[k], res[k])
      /\ api[k] \in Objects /\ res[k] \in Objects /\ pc[k] = "initStatus"
      /\ pc[k] \in InstallStages
  BY KeyTyped DEF IInv, InitStatus, At, InstallStages
<1>2. status \in Statuses
  BY <1>1, StatusTyped, ConditionsTyped
<1>3. CASE Goto(k, "install") /\ UNCHANGED <<api, watch, res, err, used>>
  <2>1. /\ pc'[k] = "install" /\ UNCHANGED <<api, cache, watch, res>>
        /\ \A j \in Keys \ {k} : pc'[j] = pc[j]
    BY <1>1, <1>3 DEF InitStatus, Goto, TypeOK
  <2>2. KeyInv(api[k], cache[k], watch[k], "install", res[k])
    BY <1>1, InstallingKeeps DEF InstallStages
  <2>3. QED
    BY <2>1, <2>2, Frame
<1>4. CASE \E reply \in {"ok", "conflict", "notfound", "error"} :
             /\ Write(k, res[k].rv, stored, reply)
             /\ IF reply = "ok"
                THEN SetRes(k, Bumped(stored)) /\ Goto(k, "install")
                ELSE SetRes(k, kept) /\ Goto(k, "syncStatus")
  <2>1. PICK reply \in {"ok", "conflict", "notfound", "error"} :
          /\ Write(k, res[k].rv, stored, reply)
          /\ IF reply = "ok"
             THEN SetRes(k, Bumped(stored)) /\ Goto(k, "install")
             ELSE SetRes(k, kept) /\ Goto(k, "syncStatus")
    BY <1>4
  <2>2. /\ stored \in Objects /\ (Exists(api[k]) => Follows(api[k], Committed(stored)))
        /\ stored.inc = api[k].inc /\ kept.inc = res[k].inc
    BY <1>1, <1>2, StatusFollows DEF Objects
  <2> HIDE DEF stored, kept
  <2>3. KeyInv(api'[k], cache[k], watch'[k], pc[k], res[k])
    BY <1>1, <2>1, <2>2, WriteKeeps
  <2>4. \A j \in Keys \ {k} : api'[j] = api[j] /\ watch'[j] = watch[j]
    BY <1>1, <2>1, <2>2, WriteEffect
  <2>5. Bumped(stored).inc = stored.inc
    BY <2>2 DEF Bumped, Objects
  <2>6. api[k].inc = res[k].inc
    BY <1>1 DEF KeyInv, Protected, Kept
  <2>7. /\ \A j \in Keys \ {k} : pc'[j] = pc[j] /\ res'[j] = res[j]
        /\ pc'[k] \in InstallStages \cup {"syncStatus"} /\ res'[k] \in {Bumped(stored), kept}
        /\ UNCHANGED cache
    BY <1>1, <2>1 DEF InitStatus, SetRes, Goto, InstallStages, TypeOK
  <2>8. KeyInv(api'[k], cache[k], watch'[k], pc'[k], res'[k])
    BY <1>1, <2>2, <2>3, <2>5, <2>6, <2>7, InstallingKeeps
  <2>9. QED
    BY <2>4, <2>7, <2>8, Frame
<1>5. QED
  BY <1>3, <1>4 DEF InitStatus

\* The stages that apply the manifest, which touch neither the object nor the
\* identity of the worker's copy.
LEMMA InstallKeeps ==
  ASSUME IInv, TypeOK', TodoOK', NEW k \in Keys,
         Install(k) \/ CheckDeployments(k) \/ DeleteObsoleteResources(k)
  PROVE  IInv'
<1>1. /\ TypeOK /\ KeyInv(api[k], cache[k], watch[k], pc[k], res[k])
      /\ pc[k] \in InstallStages /\ res[k] \in Objects
  BY KeyTyped DEF IInv, InstallStages, Install, CheckDeployments, DeleteObsoleteResources, At
<1>2. \A o : SetRes(k, o) => res'[k] = o /\ \A j \in Keys \ {k} : res'[j] = res[j]
  BY <1>1 DEF SetRes, TypeOK
<1>3. [res[k] EXCEPT !.status = Installed(@)].inc = res[k].inc
  BY <1>1 DEF Objects
<1>4. \A j \in Keys \ {k} : res'[j] = res[j]
  BY <1>1, <1>2, SetCondEffect DEF Install, CheckDeployments, DeleteObsoleteResources
<1>5. res'[k].inc = res[k].inc
  BY <1>1, <1>2, <1>3, SetCondEffect DEF Install, CheckDeployments, DeleteObsoleteResources
<1>6. /\ UNCHANGED <<api, cache, watch>> /\ \A j \in Keys \ {k} : pc'[j] = pc[j]
      /\ pc'[k] \in InstallStages \cup {"syncStatus"}
  <2>1. UNCHANGED <<api, cache, watch>>
    BY DEF Install, CheckDeployments, DeleteObsoleteResources, objects
  <2>2. UNCHANGED pc \/ \E s \in InstallStages \cup {"syncStatus"} : Goto(k, s)
    BY DEF Install, CheckDeployments, DeleteObsoleteResources, InstallStages
  <2>3. QED
    BY <1>1, <2>1, <2>2 DEF Goto, TypeOK
<1>7. KeyInv(api[k], cache[k], watch[k], pc'[k], res'[k])
  BY <1>1, <1>5, <1>6, InstallingKeeps
<1>8. QED
  BY <1>4, <1>6, <1>7, Frame

\* FinalizeKind goes on to delete only with a copy, and so with a stored object,
\* that has the manifest finalizer first.
LEMMA FinalizeKindKeeps ==
  ASSUME IInv, TypeOK', TodoOK', NEW k \in Keys, FinalizeKind(k) \/ Delete(k)
  PROVE  IInv'
<1>1. /\ TypeOK /\ KeyInv(api[k], cache[k], watch[k], pc[k], res[k])
  BY DEF IInv
<1>2. UNCHANGED <<api, cache, watch, res>> /\ \A j \in Keys \ {k} : pc'[j] = pc[j]
  BY <1>1 DEF FinalizeKind, Delete, objects, Goto, TypeOK
<1>3. /\ pc'[k] \in {"delete", "release", "clearFinalizer"}
      /\ pc'[k] \in {"delete", "release"} => Doomed(cache[k])
  BY <1>1 DEF FinalizeKind, Delete, At, Goto, KeyInv, Finalizing, TypeOK
<1>4. KeyInv(api[k], cache[k], watch[k], pc'[k], res[k])
  BY <1>1, <1>3 DEF KeyInv, EarlyCopy, Protected, Finalizing, EarlyStages, InstallStages
<1>5. QED
  BY <1>2, <1>4, Frame

\* The cached object loses its first finalizer, and the stored one too if the
\* update is carried out.
LEMMA ReleaseKeeps ==
  ASSUME IInv, TypeOK', TodoOK', NEW k \in Keys, Release(k)
  PROVE  IInv'
<1> DEFINE a == api[k]
           c == cache[k]
           w == watch[k]
           fin == Tail(c.fin)
           stored == [a EXCEPT !.fin = fin]
           d == [c EXCEPT !.fin = fin]
           b == Committed(stored)
<1>1. /\ TypeOK /\ KeyInv(a, c, w, pc[k], res[k])
      /\ a \in Objects /\ c \in Objects /\ w \in Seq(Objects) /\ c.fin \in Seq(Finalizers)
  BY KeyTyped DEF IInv, Objects
<1>2. Doomed(c)
  BY <1>1 DEF Release, At, KeyInv, Finalizing
<1>3. Exists(c) /\ c.phase = "deleting" /\ Len(c.fin) > 0 /\ c.fin[1] = ManifestFinalizer
  BY <1>2 DEF Doomed, Exists, ManifestFirst
<1>4. /\ fin \in Seq(Finalizers)
      /\ Has(fin, ManifestFinalizer) => Len(fin) > 0
      /\ Has(c.fin, ManifestFinalizer)
  BY <1>1, <1>3 DEF Has
<1>5. /\ cache' = [cache EXCEPT ![k] = [c EXCEPT !.fin = fin]]
      /\ \E reply \in {"ok", "conflict", "notfound", "error"} :
           Write(k, c.rv, stored, reply)
  BY <1>1, <1>3 DEF Release, TypeOK
<1> HIDE DEF fin
<1>6. /\ stored \in Objects /\ stored.fin = fin /\ stored.inc = a.inc /\ stored.rv = a.rv
      /\ stored.phase = a.phase
      /\ d \in Objects /\ d.fin = fin /\ d.inc = c.inc /\ d.rv = c.rv /\ d.phase = c.phase
  BY <1>1, <1>4 DEF Objects
<1>7. /\ cache'[k] = d /\ pc'[k] = "clearFinalizer" /\ UNCHANGED res
      /\ \A j \in Keys \ {k} : cache'[j] = cache[j] /\ pc'[j] = pc[j]
  BY <1>1, <1>5 DEF Release, Goto, TypeOK
<1> HIDE DEF stored, d
<1>8. b \in Objects
  BY <1>6, CommittedTyped
<1>9. /\ \A j \in Keys \ {k} : api'[j] = api[j] /\ watch'[j] = watch[j]
      /\ \/ api'[k] = a /\ watch'[k] = w
         \/ Exists(a) /\ a.rv = c.rv /\ api'[k] = b /\ watch'[k] = Append(w, b)
  BY <1>1, <1>5, <1>6, WriteEffect
<1>10. HistoryOrdered(api'[k], d, watch'[k]) /\ HistoryKept(api'[k], d, watch'[k])
  <2>1. CASE api'[k] = a /\ watch'[k] = w
    <3>1. \A i \in DOMAIN w : Precedes(d, w[i])
      BY <1>1, <1>2, <1>6 DEF KeyInv, HistoryOrdered, Precedes
    <3>2. HistoryOrdered(a, d, w)
      BY <1>1, <1>2, <1>6, <3>1 DEF KeyInv, HistoryOrdered
    <3>3. HistoryKept(a, d, w)
      BY <1>1, <1>4, <1>6 DEF KeyInv, HistoryKept
    <3>4. QED
      BY <2>1, <3>2, <3>3
  <2>2. CASE Exists(a) /\ a.rv = c.rv /\ api'[k] = b /\ watch'[k] = Append(w, b)
    <3>1. Len(w) = 0 /\ c.inc = a.inc /\ a.phase = "deleting"
      BY <1>1, <1>3, <2>2, CacheIsOlder DEF KeyInv
    <3>2. Len(fin) > 0 => b = Bumped(stored)
      BY <1>6, <3>1 DEF Committed
    <3>3. b = Bumped(stored) \/ b = Gone(stored.inc, stored.rv + 1)
      BY DEF Committed
    <3>4. /\ Bumped(stored).rv = a.rv + 1 /\ Bumped(stored).inc = a.inc
          /\ Bumped(stored).phase = a.phase /\ Bumped(stored).fin = fin
      BY <1>6 DEF Bumped, Objects
    <3>5. b.rv = a.rv + 1 /\ (Has(b.fin, ManifestFinalizer) => Exists(b))
      BY <1>6, <3>1, <3>3, <3>4 DEF Gone, Has, Exists
    <3>6. Doomed(d) => Doomed(b)
      BY <1>6, <3>1, <3>2, <3>4 DEF Doomed, ManifestFirst
    <3>7. Has(d.fin, ManifestFinalizer) => Kept(b, d.inc)
      BY <1>4, <1>6, <3>1, <3>2, <3>4 DEF Kept, Exists
    <3>8. Precedes(d, b)
      BY <1>1, <1>6, <2>2, <3>5, <3>6 DEF Precedes, Objects
    <3>9. HistoryOrdered(b, d, Append(w, b)) /\ HistoryKept(b, d, Append(w, b))
      BY <1>1, <1>6, <1>8, <3>1, <3>5, <3>7, <3>8, HistoryStarts
    <3>10. QED
      BY <2>2, <3>9
  <2>3. QED
    BY <1>9, <2>1, <2>2
<1>11. KeyInv(api'[k], d, watch'[k], "clearFinalizer", res[k])
  BY <1>10 DEF KeyInv, EarlyCopy, Protected, Finalizing, EarlyStages, InstallStages
<1>12. QED
  BY <1>7, <1>9, <1>11, Frame

\* The status is written over that of the stored object, and the worker returns
\* or fetches the object to try again.
LEMMA SyncStatusKeeps ==
  ASSUME IInv, TypeOK', TodoOK', NEW k \in Keys, SyncStatus(k) \/ GetStatus(k)
  PROVE  IInv'
<1>1. /\ TypeOK /\ KeyInv(api[k], cache[k], watch[k], pc[k], res[k])
      /\ api[k] \in Objects /\ res[k] \in Objects
  BY KeyTyped DEF IInv
<1>2. /\ pc'[k] \in {"idle", "syncStatus", "getStatus"} /\ UNCHANGED cache
      /\ \A j \in Keys \ {k} : pc'[j] = pc[j] /\ res'[j] = res[j]
  <2>1. ASSUME NEW failed, Done(k, failed)
        PROVE  /\ pc'[k] = "idle"
               /\ \A j \in Keys \ {k} : pc'[j] = pc[j] /\ res'[j] = res[j]
    BY <1>1, <2>1 DEF Done, SetRes, Goto, TypeOK
  <2>2. \A stage \in {"getStatus", "syncStatus"} : Goto(k, stage) =>
          pc'[k] = stage /\ \A j \in Keys \ {k} : pc'[j] = pc[j]
    BY <1>1 DEF Goto, TypeOK
  <2>3. /\ UNCHANGED cache
        /\ \/ \E failed : Done(k, failed)
           \/ \E stage \in {"getStatus", "syncStatus"} : Goto(k, stage) /\ UNCHANGED res
    <3>1. CASE SyncStatus(k)
      BY <3>1 DEF SyncStatus
    <3>2. CASE GetStatus(k)
      BY <3>2 DEF GetStatus, objects
    <3>3. QED
      BY <3>1, <3>2
  <2>4. QED
    BY <2>1, <2>2, <2>3
<1>3. CASE UNCHANGED <<api, watch>>
  <2>1. KeyInv(api[k], cache[k], watch[k], pc'[k], res'[k])
    BY <1>1, <1>2, Relaxed
  <2>2. QED
    BY <1>2, <1>3, <2>1, Frame
<1>4. CASE \E reply \in {"ok", "conflict", "notfound", "error"} :
             Write(k, orig[k].rv, [api[k] EXCEPT !.status = res[k].status], reply)
  <2> DEFINE stored == [api[k] EXCEPT !.status = res[k].status]
  <2>1. PICK reply \in {"ok", "conflict", "notfound", "error"} : Write(k, orig[k].rv, stored, reply)
    BY <1>4
  <2>2. stored \in Objects /\ (Exists(api[k]) => Follows(api[k], Committed(stored)))
    BY <1>1, StatusTyped, StatusFollows
  <2> HIDE DEF stored
  <2>3. KeyInv(api'[k], cache[k], watch'[k], pc[k], res[k])
    BY <1>1, <2>1, <2>2, WriteKeeps
  <2>4. \A j \in Keys \ {k} : api'[j] = api[j] /\ watch'[j] = watch[j]
    BY <1>1, <2>1, <2>2, WriteEffect
  <2>5. KeyInv(api'[k], cache[k], watch'[k], pc'[k], res'[k])
    BY <1>2, <2>3, Relaxed
  <2>6. QED
    BY <1>2, <2>4, <2>5, Frame
<1>5. QED
  BY <1>3, <1>4 DEF SyncStatus, GetStatus, objects

-----------------------------------------------------------------------------

\* In the initial states the informer is up to date and no worker is at work.
LEMMA InitInvariant == Init => IInv
<1> SUFFICES ASSUME Init PROVE IInv
  OBVIOUS
<1>1. TypeOK /\ TodoOK
  BY InitTyped
<1>2. ASSUME NEW k \in Keys
      PROVE  KeyInv(api[k], cache[k], watch[k], pc[k], res[k])
  <2>1. cache[k] = api[k] /\ watch[k] = <<>> /\ pc[k] = "idle"
    BY DEF Init
  <2>2. Has(api[k].fin, ManifestFinalizer) => Exists(api[k])
    BY DEF Init, LegacyObject, Gone, Exists, Has
  <2>3. HistoryOrdered(api[k], api[k], <<>>) /\ HistoryKept(api[k], api[k], <<>>)
    BY <2>2 DEF HistoryOrdered, HistoryKept, Kept
  <2>4. QED
    BY <2>1, <2>3 DEF KeyInv, EarlyCopy, Protected, Finalizing, EarlyStages, InstallStages
<1>3. QED
  BY <1>1, <1>2 DEF IInv

\* The invariant gives the properties.
LEMMA InvariantGives ==
  ASSUME IInv
  PROVE  TypeOK /\ InstallIsProtected /\ RefetchSafe
<1>1. InstallIsProtected
  BY DEF IInv, KeyInv, Protected, Kept, InstallStages, InstallIsProtected
<1>2. RefetchSafe
  <2>1. ASSUME NEW k \in Keys, pc[k] = "release"
        PROVE  Len(cache[k].fin) > 0 /\ Head(cache[k].fin) = ManifestFinalizer
    <3>1. Len(cache[k].fin) > 0 /\ cache[k].fin[1] = ManifestFinalizer
      BY <2>1 DEF IInv, KeyInv, Finalizing, Doomed, ManifestFirst
    <3>2. cache[k].fin \in Seq(Finalizers)
      BY KeyTyped DEF IInv, Objects
    <3>3. QED
      BY <3>1, <3>2
  <2>2. QED
    BY <2>1 DEF RefetchSafe
<1>3. QED
  BY <1>1, <1>2 DEF IInv

\* Every step of the operator, the informer, the API server and the users keeps
\* the invariant.
LEMMA StepInvariant ==
  ASSUME IInv, [Next]_vars
  PROVE  IInv'
<1>1. TypeOK' /\ TodoOK'
  BY StepTyped, InvariantGives DEF IInv
<1>2. CASE UNCHANGED vars
  BY <1>1, <1>2 DEF vars, IInv
<1>3. CASE Restart
  BY <1>1, <1>3, RestartKeeps
<1>4. ASSUME NEW k \in Keys, Environment(k)
      PROVE  IInv'
  BY <1>1, <1>4, CreateKeeps, EditKeeps, DeleteCRKeeps, DeploymentKeeps, ForegroundKeeps
  DEF Environment
<1>5. ASSUME NEW k \in Keys, Informer(k) \/ Reconcile(k)
      PROVE  IInv'
  BY <1>1, <1>5, InformerKeeps, ReconcileKeeps
<1>6. ASSUME NEW k \in Keys, WorkerStep(k)
      PROVE  IInv'
  BY <1>1, <1>6, SetFinalizerKeeps, ReconcileKindKeeps, EnsureFinalizerKeeps, InitStatusKeeps,
     InstallKeeps, FinalizeKindKeeps, ReleaseKeeps, ClearFinalizerKeeps, SyncStatusKeeps
  DEF WorkerStep
<1>7. QED
  BY <1>2, <1>3, <1>4, <1>5, <1>6 DEF Next

\* The inductive invariant: whatever the informer, the workers and the users do,
\* the cached object of a KnativeServing, the changes in flight and the worker's
\* copy keep to its stored object.
THEOREM Invariant == Spec => []IInv
<1>1. Init => IInv
  BY InitInvariant
<1>2. IInv /\ [Next]_vars => IInv'
  BY StepInvariant
<1>3. QED
  BY <1>1, <1>2, PTL DEF Spec

\* Type correctness; that Tail in Release stays typed rests on RefetchSafe.
THEOREM TypeCorrect == Spec => []TypeOK
<1>1. IInv => TypeOK
  BY InvariantGives
<1>2. QED
  BY <1>1, Invariant, PTL

\* install and what follows it (knativeserving.go, the stages of reconcile) run
\* only for a stored object that has the manifest finalizer.
THEOREM InstallProtected == Spec => []InstallIsProtected
<1>1. IInv => InstallIsProtected
  BY InvariantGives
<1>2. QED
  BY <1>1, Invariant, PTL

\* The refetch in delete (knativeserving.go) finds the manifest finalizer first:
\* Finalizers[1:] neither panics nor drops another finalizer.
THEOREM RefetchIsSafe == Spec => []RefetchSafe
<1>1. IInv => RefetchSafe
  BY InvariantGives
<1>2. QED
  BY <1>1, Invariant, PTL

-----------------------------------------------------------------------------
(* The Ready condition of a KnativeServing sums up the other three, whatever *)
(* mix of workers, retries and generations wrote its status.  Every Mark      *)
(* method leaves a list of conditions that sums up (Lifecycle); all else      *)
(* that happens to a status is that it is copied.                            *)

\* The Mark methods leave conditions that sum up, and so does
\* InitializeConditions, which initStatus calls on an empty list only.
LEMMA MarksSumUp ==
  ASSUME NEW c \in Conditions
  PROVE  /\ \A t \in ConditionTypes : SumsUp(MarkTrue(c, t))
         /\ SumsUp(InitializeConditions(NoConditions))
         /\ SumsUp(MarkInstallFailed(c)) /\ SumsUp(MarkInstallSucceeded(c))
         /\ SumsUp(MarkDeploymentsAvailable(c)) /\ SumsUp(MarkDeploymentsNotReady(c))
<1>1. ASSUME NEW d \in Conditions, NEW t \in ConditionTypes
      PROVE  SumsUp(MarkTrue(d, t))
  <2> DEFINE marked == [d EXCEPT ![t] = "True"]
  <2>1. Happiness([marked EXCEPT ![Ready] = Happiness(marked)]) = Happiness(marked)
    BY <1>1 DEF Happiness, IsUnknown, Dependents, Ready, ConditionTypes, Conditions,
                DependenciesInstalled, DeploymentsAvailable, InstallSucceeded
  <2>2. MarkTrue(d, t)[Ready] = Happiness(marked)
    BY <1>1 DEF MarkTrue, ConditionTypes, Conditions
  <2>3. QED
    BY <2>1, <2>2 DEF MarkTrue, SumsUp
<1>2. ASSUME NEW t \in Dependents
      PROVE  SumsUp(MarkFalse(c, t))
  <2>1. MarkFalse(c, t)[t] = "False" /\ MarkFalse(c, t)[Ready] = "False"
    BY <1>2 DEF MarkFalse, Conditions, ConditionTypes, Dependents, Ready,
                DependenciesInstalled, DeploymentsAvailable, InstallSucceeded
  <2>2. QED
    BY <2>1 DEF SumsUp, Happiness
<1>3. SumsUp(InitializeConditions(NoConditions))
  <2> DEFINE d == InitializeConditions(NoConditions)
  <2>1. \A t \in ConditionTypes : d[t] = "Unknown"
    BY DEF InitializeConditions, NoConditions, ConditionTypes
  <2>2. Happiness(d) = "Unknown"
    BY <2>1 DEF Happiness, IsUnknown, ConditionTypes, Dependents
  <2>3. QED
    BY <2>1, <2>2 DEF SumsUp, ConditionTypes
<1>4. DeploymentsAvailable \in Dependents /\ InstallSucceeded \in Dependents
      /\ DependenciesInstalled \in Dependents /\ Dependents \subseteq ConditionTypes
  BY DEF Dependents, ConditionTypes
<1>5. SumsUp(MarkInstallSucceeded(c))
  BY <1>1, <1>4, ConditionsTyped DEF MarkInstallSucceeded, MarkDependenciesInstalled
<1>6. QED
  BY <1>1, <1>2, <1>3, <1>4, <1>5
  DEF MarkInstallFailed, MarkDeploymentsAvailable, MarkDeploymentsNotReady

\* Objects without a status sum up.
LEMMA EmptySumsUp ==
  SumsUp(Empty.status.cond) /\ \A i, v : SumsUp(Gone(i, v).status.cond)
  BY DEF Empty, Gone, NoStatus, SumsUp

\* Storing an object does not change its status.
LEMMA CommittedSumsUp ==
  ASSUME NEW o \in Objects, SumsUp(o.status.cond)
  PROVE  SumsUp(Committed(o).status.cond) /\ SumsUp(Bumped(o).status.cond)
<1>1. Bumped(o).status = o.status
  BY DEF Bumped, Objects
<1>2. QED
  BY <1>1, EmptySumsUp DEF Committed

\* Taking on other finalizers, or another status, changes only those.
LEMMA UpdatedStatus ==
  ASSUME NEW o \in Objects
  PROVE  /\ \A f : [o EXCEPT !.fin = f].status = o.status
         /\ \A s : [o EXCEPT !.status = s].status = s
         /\ \A c : [o EXCEPT !.status.cond = c].status.cond = c
<1>1. o.status \in Statuses
  BY DEF Objects
<1>2. QED
  BY <1>1 DEF Objects, Statuses

-----------------------------------------------------------------------------

\* A new change on its way to the informer.
LEMMA StoreSums ==
  ASSUME NEW a, NEW c, NEW w \in Seq(Objects), NEW r, NEW b \in Objects,
         KeySums(a, c, w, r), SumsUp(b.status.cond)
  PROVE  KeySums(b, c, Append(w, b), r)
  BY AppendChange DEF KeySums

\* A step that leaves the other keys alone.
LEMMA SumsFrame ==
  ASSUME SumsInv, NEW k \in Keys,
         \A j \in Keys \ {k} : /\ api'[j] = api[j] /\ cache'[j] = cache[j]
                               /\ watch'[j] = watch[j] /\ res'[j] = res[j],
         KeySums(api'[k], cache'[k], watch'[k], res'[k])
  PROVE  SumsInv'
  BY DEF SumsInv

\* A request that stores an object whose conditions sum up.
LEMMA WriteSums ==
  ASSUME TypeOK, NEW k \in Keys, NEW rv, NEW o \in Objects, NEW reply, Write(k, rv, o, reply),
         KeySums(api[k], cache[k], watch[k], res[k]), SumsUp(o.status.cond)
  PROVE  KeySums(api'[k], cache[k], watch'[k], res[k])
<1>1. Committed(o) \in Objects /\ SumsUp(Committed(o).status.cond)
  BY CommittedTyped, CommittedSumsUp
<1>2. KeySums(Committed(o), cache[k], Append(watch[k], Committed(o)), res[k])
  BY <1>1, KeyTyped, StoreSums
<1>3. QED
  BY <1>2, WriteEffect

\* Another object stored by somebody else than the worker of its key.
LEMMA StoreStepSums ==
  ASSUME TypeOK, SumsInv, NEW k \in Keys, NEW b \in Objects, Store(k, b),
         SumsUp(b.status.cond), UNCHANGED <<cache, res>>
  PROVE  SumsInv'
<1>1. KeySums(b, cache[k], Append(watch[k], b), res[k])
  BY KeyTyped, StoreSums DEF SumsInv
<1>2. /\ api'[k] = b /\ watch'[k] = Append(watch[k], b)
      /\ \A j \in Keys \ {k} : api'[j] = api[j] /\ watch'[j] = watch[j]
  BY DEF Store, TypeOK
<1>3. QED
  BY <1>1, <1>2, SumsFrame

\* A worker that changes only its own copy.
LEMMA CopySums ==
  ASSUME TypeOK, SumsInv, NEW k \in Keys, UNCHANGED objects, NEW o,
         res' = [res EXCEPT ![k] = o], SumsUp(o.status.cond)
  PROVE  SumsInv'
<1>1. res'[k] = o /\ \A j \in Keys \ {k} : res'[j] = res[j]
  BY DEF TypeOK
<1>2. QED
  BY <1>1, SumsFrame DEF objects, KeySums, SumsInv

\* A worker that marks a condition of its copy, or takes a new status for it.
LEMMA MarkSums ==
  ASSUME TypeOK, SumsInv, NEW k \in Keys, UNCHANGED objects
  PROVE  /\ \A c : SetCond(k, c) /\ SumsUp(c) => SumsInv'
         /\ \A s : SetRes(k, [res[k] EXCEPT !.status = s]) /\ SumsUp(s.cond) => SumsInv'
<1>1. res[k] \in Objects
  BY KeyTyped
<1>2. ASSUME NEW c, SetCond(k, c), SumsUp(c) PROVE SumsInv'
  <2> DEFINE o == [res[k] EXCEPT !.status.cond = c]
  <2>1. o.status.cond = c
    BY <1>1, UpdatedStatus
  <2>2. res' = [res EXCEPT ![k] = o]
    BY <1>2 DEF SetCond, SetRes
  <2> HIDE DEF o
  <2>3. QED
    BY <1>2, <2>1, <2>2, CopySums
<1>3. ASSUME NEW s, SetRes(k, [res[k] EXCEPT !.status = s]), SumsUp(s.cond) PROVE SumsInv'
  <2> DEFINE o == [res[k] EXCEPT !.status = s]
  <2>1. o.status = s
    BY <1>1, UpdatedStatus
  <2>2. res' = [res EXCEPT ![k] = o]
    BY <1>3 DEF SetRes
  <2> HIDE DEF o
  <2>3. QED
    BY <1>3, <2>1, <2>2, CopySums
<1>4. QED
  BY <1>2, <1>3

-----------------------------------------------------------------------------

\* Users and the garbage collector make new versions of an object with the same
\* status, or a new object with none.
LEMMA UserSums ==
  ASSUME TypeOK, SumsInv, NEW k \in Keys, Environment(k)
  PROVE  SumsInv'
<1>1. api[k] \in Objects /\ SumsUp(api[k].status.cond) /\ api[k].fin \in Seq(Finalizers)
  BY DEF TypeOK, SumsInv, KeySums, Objects
<1>2. ASSUME NEW spec \in Specs, CreateCR(k, spec) PROVE SumsInv'
  <2> DEFINE o == Created(api[k].inc + 1, api[k].rv + 1, spec)
  <2>1. o \in Objects /\ SumsUp(o.status.cond)
    <3>1. api[k].inc + 1 \in Nat /\ api[k].rv + 1 \in Nat
      BY <1>1 DEF Objects
    <3>2. o \in Objects
      <4>1. <<>> \in Seq(Finalizers) /\ NoStatus \in Statuses /\ "live" \in Phases
        BY EmptyTyped DEF Phases
      <4>2. QED
        BY <3>1, <4>1 DEF Created, Objects
    <3>3. SumsUp(o.status.cond)
      BY DEF Created, NoStatus, SumsUp
    <3>4. QED
      BY <3>2, <3>3
  <2>2. Store(k, o) /\ UNCHANGED <<cache, res>>
    BY <1>2 DEF CreateCR, worker
  <2> HIDE DEF o
  <2>3. QED
    BY <2>1, <2>2, StoreStepSums
<1>3. ASSUME NEW spec \in Specs, EditSpec(k, spec) PROVE SumsInv'
  <2> DEFINE o == Edited(api[k], spec)
  <2>1. o \in Objects /\ o.status = api[k].status
    BY <1>1 DEF Edited, Objects
  <2>2. Store(k, Committed(o)) /\ UNCHANGED <<cache, res>>
    BY <1>3 DEF EditSpec, worker
  <2> HIDE DEF o
  <2>3. QED
    BY <1>1, <2>1, <2>2, CommittedTyped, CommittedSumsUp, StoreStepSums
<1>4. ASSUME NEW foreground \in BOOLEAN, DeleteCR(k, foreground) PROVE SumsInv'
  <2> DEFINE fin == IF foreground THEN Append(api[k].fin, ForegroundFinalizer) ELSE api[k].fin
             o == Marked(api[k], fin)
  <2>1. fin \in Seq(Finalizers)
    BY <1>1, AppendFacts DEF Finalizers
  <2>2. o \in Objects /\ o.status = api[k].status
    BY <1>1, <2>1 DEF Marked, Objects, Phases
  <2>3. Store(k, Committed(o)) /\ UNCHANGED <<cache, res>>
    BY <1>4 DEF DeleteCR, worker
  <2> HIDE DEF o
  <2>4. QED
    BY <1>1, <2>2, <2>3, CommittedTyped, CommittedSumsUp, StoreStepSums
<1>5. CASE ForegroundDone(k)
  <2>1. PICK i \in DOMAIN api[k].fin :
          /\ api[k].fin[i] = ForegroundFinalizer
          /\ Store(k, Committed([api[k] EXCEPT !.fin = Without(@, i)]))
    BY <1>5 DEF ForegroundDone
  <2> DEFINE o == [api[k] EXCEPT !.fin = Without(api[k].fin, i)]
  <2>2. o \in Objects /\ o.status = api[k].status
    BY <1>1, <2>1, WithoutFacts DEF Objects
  <2>3. Store(k, Committed(o)) /\ UNCHANGED <<cache, res>>
    BY <1>5, <2>1 DEF ForegroundDone, worker
  <2> HIDE DEF o
  <2>4. QED
    BY <1>1, <2>2, <2>3, CommittedTyped, CommittedSumsUp, StoreStepSums
<1>6. CASE \/ DeploymentUp(k) \/ CollectDeployment(k)
           \/ \E state \in {"absent", "down"} : DeploymentLost(k, state)
  BY <1>6 DEF DeploymentUp, CollectDeployment, DeploymentLost, objects, worker, SumsInv
<1>7. QED
  BY <1>2, <1>3, <1>4, <1>5, <1>6 DEF Environment

\* The informer hands on what was stored.
LEMMA InformerSums ==
  ASSUME TypeOK, SumsInv, NEW k \in Keys, Informer(k)
  PROVE  SumsInv'
<1>1. KeySums(api[k], cache[k], watch[k], res[k]) /\ watch[k] \in Seq(Objects)
  BY DEF TypeOK, SumsInv
<1>2. CASE WatchEvent(k)
  <2>1. /\ Head(watch[k]) = watch[k][1] /\ 1 \in DOMAIN watch[k]
        /\ \A i \in DOMAIN Tail(watch[k]) :
             i + 1 \in DOMAIN watch[k] /\ Tail(watch[k])[i] = watch[k][i + 1]
    BY <1>1, <1>2 DEF WatchEvent
  <2>2. KeySums(api[k], Head(watch[k]), Tail(watch[k]), res[k])
    BY <1>1, <2>1 DEF KeySums
  <2>3. /\ UNCHANGED <<api, res>> /\ cache'[k] = Head(watch[k]) /\ watch'[k] = Tail(watch[k])
        /\ \A j \in Keys \ {k} : cache'[j] = cache[j] /\ watch'[j] = watch[j]
    BY <1>2 DEF WatchEvent, worker, TypeOK
  <2>4. QED
    BY <2>2, <2>3, SumsFrame
<1>3. CASE Relist(k)
  <2>1. KeySums(api[k], api[k], <<>>, res[k])
    BY <1>1 DEF KeySums
  <2>2. /\ UNCHANGED <<api, res>> /\ cache'[k] = api[k] /\ watch'[k] = <<>>
        /\ \A j \in Keys \ {k} : cache'[j] = cache[j] /\ watch'[j] = watch[j]
    BY <1>3 DEF Relist, worker, TypeOK
  <2>3. QED
    BY <2>1, <2>2, SumsFrame
<1>4. CASE Resync(k)
  BY <1>4 DEF Resync, objects, worker, SumsInv
<1>5. QED
  BY <1>2, <1>3, <1>4 DEF Informer

\* A worker takes on a copy of the cached object; a new operator none.
LEMMA ReconcileSums ==
  ASSUME TypeOK, SumsInv, NEW k \in Keys, Reconcile(k)
  PROVE  SumsInv'
<1>1. CASE Exists(cache[k])
  <2>1. UNCHANGED objects /\ res' = [res EXCEPT ![k] = cache[k]]
    BY <1>1 DEF Reconcile, SetRes
  <2>2. QED
    BY <2>1, CopySums DEF SumsInv, KeySums
<1>2. CASE ~Exists(cache[k])
  BY <1>2 DEF Reconcile, objects, SumsInv
<1>3. QED
  BY <1>1, <1>2

\* A crash leaves the stored objects.
LEMMA RestartSums ==
  ASSUME TypeOK, SumsInv, Restart
  PROVE  SumsInv'
<1>1. ASSUME NEW k \in Keys
      PROVE  KeySums(api[k], api[k], <<>>, Empty)
  BY EmptySumsUp DEF SumsInv, KeySums
<1>2. QED
  BY <1>1 DEF Restart, SumsInv

\* A patch of the finalizers keeps the status, in the object and in the copy;
\* a failed one leaves a copy without any.
LEMMA PatchSums ==
  ASSUME TypeOK, SumsInv, NEW k \in Keys, NEW r \in Objects, UpdateFinalizersFiltered(k, r),
         SumsUp(r.status.cond), UNCHANGED cache
  PROVE  SumsInv'
<1> DEFINE fin == IF Has(r.fin, DefaultFinalizer) THEN Append(cache[k].fin, DefaultFinalizer)
                  ELSE SortedList(SetOf(cache[k].fin) \ {DefaultFinalizer})
           patched == [api[k] EXCEPT !.fin = fin]
<1>1. /\ KeySums(api[k], cache[k], watch[k], res[k])
      /\ api[k] \in Objects /\ cache[k] \in Objects /\ cache[k].fin \in Seq(Finalizers)
  BY DEF TypeOK, SumsInv, Objects
<1>2. fin \in Seq(Finalizers)
  BY <1>1, AppendFacts, SortedListFacts, FinalizerSets DEF Finalizers
<1>3. patched \in Objects /\ SumsUp(patched.status.cond)
  BY <1>1, <1>2, UpdatedStatus DEF Objects, KeySums
<1>4. /\ \A o : SetRes(k, o) => res'[k] = o /\ \A j \in Keys \ {k} : res'[j] = res[j]
  BY DEF SetRes, TypeOK
<1>5. \/ SetRes(k, r) /\ UNCHANGED <<api, watch>>
      \/ SetRes(k, Empty) /\ UNCHANGED <<api, watch>>
      \/ \E reply : /\ Write(k, cache[k].rv, patched, reply)
                    /\ SetRes(k, IF reply = "ok" THEN Bumped(patched) ELSE Empty)
  BY DEF UpdateFinalizersFiltered
<1> HIDE DEF patched
<1>6. CASE \E o \in {r, Empty} : SetRes(k, o) /\ UNCHANGED <<api, watch>>
  BY <1>1, <1>4, <1>6, EmptySumsUp, SumsFrame DEF KeySums
<1>7. ASSUME NEW reply, Write(k, cache[k].rv, patched, reply),
             SetRes(k, IF reply = "ok" THEN Bumped(patched) ELSE Empty)
      PROVE  SumsInv'
  <2>1. KeySums(api'[k], cache[k], watch'[k], res[k])
    BY <1>1, <1>3, <1>7, WriteSums
  <2>2. SumsUp(res'[k].status.cond)
    BY <1>3, <1>4, <1>7, CommittedSumsUp, EmptySumsUp
  <2>3. KeySums(api'[k], cache'[k], watch'[k], res'[k])
    BY <2>1, <2>2 DEF KeySums
  <2>4. /\ \A j \in Keys \ {k} : api'[j] = api[j] /\ watch'[j] = watch[j]
    BY <1>3, <1>7, WriteEffect
  <2>5. QED
    BY <1>4, <1>7, <2>3, <2>4, SumsFrame
<1>8. QED
  BY <1>5, <1>6, <1>7

\* The two finalizers of the generated reconciler.
LEMMA FinalizerSums ==
  ASSUME TypeOK, SumsInv, NEW k \in Keys, SetFinalizer(k) \/ ClearFinalizer(k)
  PROVE  SumsInv'
<1>1. res[k] \in Objects /\ res[k].fin \in Seq(Finalizers) /\ SumsUp(res[k].status.cond)
  BY DEF TypeOK, Objects, SumsInv, KeySums
<1>2. PICK S \in SUBSET Finalizers :
        UpdateFinalizersFiltered(k, [res[k] EXCEPT !.fin = SortedList(S)]) /\ UNCHANGED cache
  <2>1. CASE SetFinalizer(k)
    BY <1>1, <2>1, FinalizerSets DEF SetFinalizer
  <2>2. CASE ClearFinalizer(k)
    BY <1>1, <2>2, FinalizerSets DEF ClearFinalizer
  <2>3. QED
    BY <2>1, <2>2
<1> DEFINE r == [res[k] EXCEPT !.fin = SortedList(S)]
<1>3. r \in Objects /\ r.status = res[k].status
  BY <1>1, SortedListFacts DEF Objects
<1> HIDE DEF r
<1>4. UpdateFinalizersFiltered(k, r) /\ UNCHANGED cache
  BY <1>2 DEF r
<1>5. QED
  BY <1>1, <1>3, <1>4, PatchSums

-----------------------------------------------------------------------------

\* A generation check that passes and a transform that does not: MarkInstallFailed.
LEMMA ReconcileKindSums ==
  ASSUME TypeOK, SumsInv, NEW k \in Keys, ReconcileKind(k)
  PROVE  SumsInv'
<1> DEFINE c == MarkInstallFailed(res[k].status.cond)
<1>1. res[k] \in Objects /\ SumsUp(c)
  BY KeyTyped, StatusTyped, MarksSumUp
<1>2. UNCHANGED objects /\ (SetCond(k, c) \/ UNCHANGED res)
  BY DEF ReconcileKind
<1>3. CASE UNCHANGED res
  BY <1>2, <1>3 DEF objects, SumsInv
<1>4. CASE SetCond(k, c)
  BY <1>1, <1>2, <1>4, MarkSums
<1>5. QED
  BY <1>2, <1>3, <1>4

\* ensureFinalizer stores the finalizer and keeps the status of the stored object.
LEMMA EnsureFinalizerSums ==
  ASSUME TypeOK, SumsInv, NEW k \in Keys, EnsureFinalizer(k)
  PROVE  SumsInv'
<1> DEFINE fin == Append(res[k].fin, ManifestFinalizer)
           o == [api[k] EXCEPT !.fin = fin]
           r == [res[k] EXCEPT !.fin = fin]
<1>1. /\ KeySums(api[k], cache[k], watch[k], res[k]) /\ UNCHANGED cache
      /\ api[k] \in Objects /\ res[k] \in Objects /\ res[k].fin \in Seq(Finalizers)
  BY DEF TypeOK, Objects, SumsInv, EnsureFinalizer
<1>2. CASE ManifestAttached(res[k].fin)
  BY <1>2 DEF EnsureFinalizer, SumsInv
<1>3. CASE ~ManifestAttached(res[k].fin)
  <2>1. SetRes(k, r) /\ (UNCHANGED <<api, watch>> \/ \E reply : Write(k, res[k].rv, o, reply))
    BY <1>3 DEF EnsureFinalizer
  <2>2. fin \in Seq(Finalizers)
    BY <1>1, AppendFacts DEF Finalizers
  <2>3. o \in Objects /\ o.status = api[k].status /\ r.status = res[k].status
    BY <1>1, <2>2 DEF Objects
  <2>4. SumsUp(o.status.cond) /\ SumsUp(r.status.cond)
    BY <1>1, <2>3 DEF KeySums
  <2> HIDE DEF o, r
  <2>5. /\ KeySums(api'[k], cache[k], watch'[k], res[k])
        /\ \A j \in Keys \ {k} : api'[j] = api[j] /\ watch'[j] = watch[j]
    BY <1>1, <2>1, <2>3, <2>4, WriteSums, WriteEffect
  <2>6. res'[k] = r /\ \A j \in Keys \ {k} : res'[j] = res[j]
    BY <2>1 DEF SetRes, TypeOK
  <2>7. KeySums(api'[k], cache'[k], watch'[k], res'[k])
    BY <1>1, <2>4, <2>5, <2>6 DEF KeySums
  <2>8. QED
    BY <1>1, <2>5, <2>6, <2>7, SumsFrame
<1>4. QED
  BY <1>2, <1>3

\* initStatus initializes the conditions when there are none.
LEMMA InitStatusSums ==
  ASSUME TypeOK, SumsInv, NEW k \in Keys, InitStatus(k)
  PROVE  SumsInv'
<1> DEFINE status == [res[k].status EXCEPT !.cond = InitializeConditions(@)]
           o == [api[k] EXCEPT !.status = status]
           r == [res[k] EXCEPT !.status = status]
<1>1. /\ KeySums(api[k], cache[k], watch[k], res[k]) /\ UNCHANGED cache
      /\ api[k] \in Objects /\ res[k] \in Objects
      /\ res[k].status \in Statuses /\ res[k].status.cond \in Conditions
  BY KeyTyped, StatusTyped DEF SumsInv, InitStatus
<1>2. CASE res[k].status.cond # NoConditions
  BY <1>2 DEF InitStatus, SumsInv
<1>3. CASE res[k].status.cond = NoConditions
  <2>1. PICK reply : /\ Write(k, res[k].rv, o, reply)
                     /\ SetRes(k, Bumped(o)) \/ SetRes(k, r)
    BY <1>3 DEF InitStatus
  <2>2. status \in Statuses /\ SumsUp(status.cond)
    <3>1. status \in Statuses
      BY <1>1, StatusTyped, ConditionsTyped
    <3>2. status.cond = InitializeConditions(NoConditions)
      BY <1>1, <1>3 DEF Statuses
    <3>3. QED
      BY <1>1, <1>3, <3>1, <3>2, MarksSumUp
  <2> HIDE DEF status
  <2>3. o \in Objects /\ SumsUp(o.status.cond) /\ SumsUp(r.status.cond)
    <3>1. o.status = status /\ r.status = status
      BY <1>1, UpdatedStatus
    <3>2. o \in Objects
      BY <1>1, <2>2, StatusTyped
    <3>3. QED
      BY <2>2, <3>1, <3>2
  <2> HIDE DEF o, r
  <2>4. /\ KeySums(api'[k], cache[k], watch'[k], res[k])
        /\ \A j \in Keys \ {k} : api'[j] = api[j] /\ watch'[j] = watch[j]
    BY <1>1, <2>1, <2>3, WriteSums, WriteEffect
  <2>5. res'[k] \in {Bumped(o), r} /\ \A j \in Keys \ {k} : res'[j] = res[j]
    BY <2>1 DEF SetRes, TypeOK
  <2>6. KeySums(api'[k], cache'[k], watch'[k], res'[k])
    BY <1>1, <2>3, <2>4, <2>5, CommittedSumsUp DEF KeySums
  <2>7. QED
    BY <1>1, <2>4, <2>5, <2>6, SumsFrame
<1>4. QED
  BY <1>2, <1>3

\* install and checkDeployments mark what they have done, or failed to do.
LEMMA InstallSums ==
  ASSUME TypeOK, SumsInv, NEW k \in Keys,
         Install(k) \/ CheckDeployments(k) \/ DeleteObsoleteResources(k)
  PROVE  SumsInv'
<1> DEFINE c == res[k].status.cond
<1>1. res[k] \in Objects /\ c \in Conditions
  BY KeyTyped, StatusTyped
<1>2. UNCHANGED objects
  BY DEF Install, CheckDeployments, DeleteObsoleteResources
<1>3. \/ UNCHANGED res
      \/ SetRes(k, [res[k] EXCEPT !.status = Installed(@)])
      \/ \E d \in {MarkInstallFailed(c), MarkDeploymentsAvailable(c), MarkDeploymentsNotReady(c)} :
           SetCond(k, d)
  BY DEF Install, CheckDeployments, DeleteObsoleteResources
<1>4. CASE UNCHANGED res
  BY <1>2, <1>4 DEF objects, SumsInv
<1>5. CASE SetRes(k, [res[k] EXCEPT !.status = Installed(@)])
  <2>1. Installed(res[k].status).cond = MarkInstallSucceeded(c)
    BY DEF Installed
  <2>2. QED
    BY <1>1, <1>2, <1>5, <2>1, MarksSumUp, MarkSums
<1>6. ASSUME NEW d \in {MarkInstallFailed(c), MarkDeploymentsAvailable(c), MarkDeploymentsNotReady(c)},
             SetCond(k, d)
      PROVE  SumsInv'
  BY <1>1, <1>2, <1>6, MarksSumUp, MarkSums
<1>7. QED
  BY <1>3, <1>4, <1>5, <1>6

\* FinalizeKind and delete leave the status alone; that what delete writes is an
\* object rests on the safety of its refetch.
LEMMA FinalizeSums ==
  ASSUME TypeOK, RefetchSafe, SumsInv, NEW k \in Keys, FinalizeKind(k) \/ Delete(k) \/ Release(k)
  PROVE  SumsInv'
<1>1. CASE FinalizeKind(k) \/ Delete(k)
  BY <1>1 DEF FinalizeKind, Delete, objects, SumsInv
<1>2. CASE Release(k) /\ UNCHANGED objects
  BY <1>2 DEF Release, objects, SumsInv
<1>3. CASE Release(k) /\ Exists(cache[k])
  <2> DEFINE fin == Tail(cache[k].fin)
             o == [api[k] EXCEPT !.fin = fin]
             d == [cache[k] EXCEPT !.fin = fin]
  <2>1. /\ cache' = [cache EXCEPT ![k] = d] /\ UNCHANGED res
        /\ \E reply : Write(k, cache[k].rv, o, reply)
    BY <1>3 DEF Release, TypeOK
  <2>2. /\ KeySums(api[k], cache[k], watch[k], res[k])
        /\ api[k] \in Objects /\ cache[k] \in Objects /\ cache[k].fin \in Seq(Finalizers)
    BY KeyTyped DEF SumsInv, Objects
  <2>3. Len(cache[k].fin) > 0
    BY <1>3 DEF RefetchSafe, Release, At
  <2>4. fin \in Seq(Finalizers)
    BY <2>2, <2>3
  <2>5. o \in Objects /\ o.status = api[k].status /\ d.status = cache[k].status
    BY <2>2, <2>4 DEF Objects
  <2> HIDE DEF o, d
  <2>6. /\ KeySums(api'[k], cache[k], watch'[k], res[k])
        /\ \A j \in Keys \ {k} : api'[j] = api[j] /\ watch'[j] = watch[j]
    <3>1. SumsUp(o.status.cond)
      BY <2>2, <2>5 DEF KeySums
    <3>2. PICK reply : Write(k, cache[k].rv, o, reply)
      BY <2>1
    <3>3. QED
      BY <2>2, <2>5, <3>1, <3>2, WriteSums, WriteEffect
  <2>7. cache'[k] = d /\ \A j \in Keys \ {k} : cache'[j] = cache[j]
    BY <2>1 DEF TypeOK
  <2>8. KeySums(api'[k], cache'[k], watch'[k], res'[k])
    BY <2>1, <2>5, <2>6, <2>7 DEF KeySums
  <2>9. QED
    BY <2>1, <2>6, <2>7, <2>8, SumsFrame
<1>4. QED
  BY <1>1, <1>2, <1>3 DEF Release, objects

\* updateStatus writes the conditions of the worker's copy over those of whatever
\* version of the object it has fetched.
LEMMA SyncStatusSums ==
  ASSUME TypeOK, SumsInv, NEW k \in Keys, SyncStatus(k) \/ GetStatus(k)
  PROVE  SumsInv'
<1> DEFINE o == [api[k] EXCEPT !.status = res[k].status]
<1>1. /\ KeySums(api[k], cache[k], watch[k], res[k]) /\ UNCHANGED cache
      /\ api[k] \in Objects /\ res[k] \in Objects
  BY KeyTyped DEF SumsInv, SyncStatus, GetStatus, objects
<1>2. o \in Objects /\ SumsUp(o.status.cond)
  BY <1>1, StatusTyped, UpdatedStatus DEF KeySums
<1>3. UNCHANGED <<api, watch>> \/ \E reply : Write(k, orig[k].rv, o, reply)
  BY DEF SyncStatus, GetStatus, objects
<1> HIDE DEF o
<1>4. /\ KeySums(api'[k], cache[k], watch'[k], res[k])
      /\ \A j \in Keys \ {k} : api'[j] = api[j] /\ watch'[j] = watch[j]
  BY <1>1, <1>2, <1>3, WriteSums, WriteEffect
<1>5. UNCHANGED res \/ \E failed : Done(k, failed)
  BY DEF SyncStatus, GetStatus
<1>6. res'[k] \in {res[k], Empty} /\ \A j \in Keys \ {k} : res'[j] = res[j]
  BY <1>5 DEF Done, SetRes, TypeOK
<1>7. KeySums(api'[k], cache'[k], watch'[k], res'[k])
  BY <1>1, <1>4, <1>6, EmptySumsUp DEF KeySums
<1>8. QED
  BY <1>1, <1>4, <1>6, <1>7, SumsFrame

-----------------------------------------------------------------------------

\* In the initial states a KnativeServing of an earlier operator is all True.
LEMMA InitSums == Init => SumsInv
<1> SUFFICES ASSUME Init, NEW k \in Keys
             PROVE  KeySums(api[k], cache[k], watch[k], res[k])
  BY DEF SumsInv
<1>1. SumsUp(LegacyObject.status.cond)
  BY DEF LegacyObject, LegacyStatus, SumsUp, Happiness, IsUnknown, ConditionTypes, Dependents
<1>2. api[k] \in {LegacyObject, Gone(0, 0)} /\ cache[k] = api[k] /\ watch[k] = <<>> /\ res[k] = Empty
  BY DEF Init
<1>3. QED
  BY <1>1, <1>2, EmptySumsUp DEF KeySums

\* Every step keeps every list of conditions summed up.
LEMMA StepSums ==
  ASSUME TypeOK, RefetchSafe, SumsInv, [Next]_vars
  PROVE  SumsInv'
<1>1. CASE UNCHANGED vars
  BY <1>1 DEF vars, SumsInv
<1>2. ASSUME NEW k \in Keys, Environment(k) \/ Informer(k) \/ Reconcile(k)
      PROVE  SumsInv'
  BY <1>2, UserSums, InformerSums, ReconcileSums
<1>3. ASSUME NEW k \in Keys, WorkerStep(k)
      PROVE  SumsInv'
  BY <1>3, FinalizerSums, ReconcileKindSums, EnsureFinalizerSums, InitStatusSums, InstallSums,
     FinalizeSums, SyncStatusSums
  DEF WorkerStep
<1>4. QED
  BY <1>1, <1>2, <1>3, RestartSums DEF Next

\* The Ready condition that a KnativeServing reports (knativeserving_lifecycle.go)
\* sums up its other conditions, also after updateStatus has written a status
\* computed for one version of the object over another.
THEOREM ReadyAlwaysSumsUp == Spec => []ReadySumsUp
<1>1. Init => SumsInv
  BY InitSums
<1>2. TypeOK /\ RefetchSafe /\ SumsInv /\ [Next]_vars => SumsInv'
  BY StepSums
<1>3. SumsInv => ReadySumsUp
  BY DEF SumsInv, KeySums, ReadySumsUp
<1>4. QED
  BY <1>1, <1>2, <1>3, TypeCorrect, RefetchIsSafe, PTL DEF Spec

=============================================================================
