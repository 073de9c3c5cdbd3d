------------------------ MODULE ReconcilerInvariant ------------------------
(***************************************************************************)
(* The inductive invariant behind the safety properties of Reconciler: how  *)
(* the informer's view and the copy a worker holds relate to what the API   *)
(* server stores.  It is a conjunction over the keys of a formula about     *)
(* five values: the stored object a, the cached object c, the changes w     *)
(* between them, the stage s of the worker and its copy r.  TLC checks it   *)
(* on small instances, ReconcilerProofs proves it.                          *)
(***************************************************************************)
EXTENDS Reconciler

\* Stages of a worker that found its object live, before and after it has made
\* sure of the manifest finalizer.
EarlyStages == {"setFinalizer", "reconcileKind", "ensureFinalizer"}
InstallStages == {"initStatus", "install", "checkDeployments", "deleteObsoleteResources"}

\* An object that is being deleted, with delete the next to act on it.
Doomed(o) == o.phase = "deleting" /\ ManifestFirst(o.fin)

\* The object is incarnation i of its key and has the manifest finalizer.
Kept(o, i) == Exists(o) /\ o.inc = i /\ Has(o.fin, ManifestFinalizer)

\* Object o was stored before object p: a doomed object stays doomed until the
\* worker of its key releases it.
Precedes(o, p) == o.rv < p.rv /\ (Doomed(o) => Doomed(p))

\* The informer's cache and the changes in flight are the history of the stored
\* object, in order, up to now.
HistoryOrdered(a, c, w) ==
  /\ \A i \in DOMAIN w : Precedes(c, w[i])
  /\ \A i, j \in DOMAIN w : i < j => Precedes(w[i], w[j])
  /\ Len(w) > 0 => w[Len(w)] = a
  /\ Len(w) = 0 => /\ c.rv = a.rv /\ c.inc = a.inc /\ c.phase = a.phase
                   /\ Doomed(c) => Doomed(a)

\* The manifest finalizer, seen on an object of the history, is still there,
\* although Release takes finalizers off the cached object before they are
\* taken off the stored one.
HistoryKept(a, c, w) ==
  /\ Has(a.fin, ManifestFinalizer) => Exists(a)
  /\ Has(c.fin, ManifestFinalizer) => Kept(a, c.inc)
  /\ \A i \in DOMAIN w : Has(w[i].fin, ManifestFinalizer) => Kept(a, w[i].inc)

\* The copy of a worker that has yet to make sure of the manifest finalizer: if
\* the API server takes an update made from it, it is of the stored object.
EarlyCopy(a, s, r) ==
  s \in EarlyStages =>
    /\ r.phase \in {"live", "empty"}
    /\ r.phase = "live" =>
         r.rv <= a.rv /\ (r.rv = a.rv => a.inc = r.inc /\ a.phase = "live")
    /\ Has(r.fin, ManifestFinalizer) => Kept(a, r.inc)

\* What a worker installs is protected by the manifest finalizer.
Protected(a, s, r) == s \in InstallStages => Kept(a, r.inc)

\* A worker that is finalizing: while delete is at work, its object is doomed.
Finalizing(c, s, r) ==
  s \in {"delete", "release"} \/ (s = "finalizeKind" /\ ManifestFirst(r.fin)) => Doomed(c)

KeyInv(a, c, w, s, r) ==
  /\ HistoryOrdered(a, c, w) /\ HistoryKept(a, c, w)
  /\ EarlyCopy(a, s, r) /\ Protected(a, s, r) /\ Finalizing(c, s, r)

\* A worker with something to apply or delete has it.
TodoOK == \A k \in Keys : pc[k] \in {"install", "delete"} => Len(todo[k]) > 0

\* The inductive invariant: however the informer lags, requests fail and workers
\* interleave, the cached object and the worker's copy of a KnativeServing keep
\* to its stored object as KeyInv says.
IInv ==
  /\ TypeOK /\ TodoOK
  /\ \A k \in Keys : KeyInv(api[k], cache[k], watch[k], pc[k], res[k])

-----------------------------------------------------------------------------
(* When nothing is on its way to the informer, it has the stored object, but  *)
(* for finalizers that Release has taken off one that is being deleted; and  *)
(* what is stored is never the zero KnativeServing.                          *)

Current(a, c, w) ==
  /\ a.phase # "empty"
  /\ Len(w) = 0 => c.status = a.status /\ (c.phase = "live" => c = a)

CacheCurrent == \A k \in Keys : Current(api[k], cache[k], watch[k])

-----------------------------------------------------------------------------
(* The status conditions: those stored, those on their way to the informer,  *)
(* those cached and those a worker is about to write all sum up.            *)

KeySums(a, c, w, r) ==
  /\ SumsUp(a.status.cond) /\ SumsUp(c.status.cond) /\ SumsUp(r.status.cond)
  /\ \A i \in DOMAIN w : SumsUp(w[i].status.cond)

SumsInv == \A k \in Keys : KeySums(api[k], cache[k], watch[k], res[k])

-----------------------------------------------------------------------------
(* Ready and the manifest finalizer, for a key that no earlier operator left: *)
(* the default finalizer is put on before the manifest finalizer and taken   *)
(* off before it, and no run of a worker takes off both.                    *)

IsReady(o) == IsTrue(o.status.cond, Ready)

FinalizeStages == {"finalizeKind", "delete", "release", "clearFinalizer"}

\* Ready goes with the manifest finalizer, but for an object on its way out.
ReadyKept(o) ==
  IsReady(o) => \/ Has(o.fin, ManifestFinalizer)
                \/ o.phase = "deleting" /\ ~Has(o.fin, DefaultFinalizer)

\* The default finalizer is ahead of the manifest finalizer, and is there when an
\* object that lives has that.
InOrder(fin) ==
  \A i, j \in DOMAIN fin : fin[i] = ManifestFinalizer /\ fin[j] = DefaultFinalizer => j < i
DefaultFirst(o) ==
  /\ InOrder(o.fin)
  /\ o.phase = "live" /\ Has(o.fin, ManifestFinalizer) => Has(o.fin, DefaultFinalizer)

\* Of an object that follows one that is gone or going, a worker has seen nothing.
Untouched(o) == o.phase = "live" => ~Has(o.fin, DefaultFinalizer)
Anew(o, p) == o.phase # "live" => Untouched(p)

ReadyHistory(a, c, w) ==
  /\ ReadyKept(a) /\ ReadyKept(c) /\ DefaultFirst(a) /\ DefaultFirst(c)
  /\ \A i \in DOMAIN w : ReadyKept(w[i]) /\ DefaultFirst(w[i]) /\ Anew(c, w[i])
  /\ \A i, j \in DOMAIN w : i < j => Anew(w[i], w[j])

\* The copy of a worker that has yet to make sure of the manifest finalizer.
ReadyEarly(a, c, s, r) ==
  /\ s = "setFinalizer" => r.rv <= c.rv
  /\ s \in {"reconcileKind", "ensureFinalizer"} /\ r.phase = "live" =>
       /\ Has(r.fin, DefaultFinalizer)
       /\ r.rv = a.rv => Has(a.fin, DefaultFinalizer)
  /\ s \in EarlyStages /\ IsReady(r) => Has(r.fin, ManifestFinalizer)

\* A worker that finalizes has a status to write only for what it has held.
ReadyLate(a, c, w, s, r, o) ==
  /\ s \in FinalizeStages =>
       /\ o.status = r.status
       /\ Untouched(a) /\ Untouched(c) /\ \A i \in DOMAIN w : Untouched(w[i])
  /\ s = "syncStatus" /\ IsReady(r) => o.status = r.status \/ Kept(a, r.inc)
  /\ s = "getStatus" /\ IsReady(r) => Kept(a, r.inc)

ReadyKey(a, c, w, s, r, o) ==
  ReadyHistory(a, c, w) /\ ReadyEarly(a, c, s, r) /\ ReadyLate(a, c, w, s, r, o)

\* The inductive invariant of ReadyIsProtected, together with IInv and CacheCurrent:
\* no status of Ready is on its way to an object that the manifest finalizer
\* does not hold.
ReadyInv ==
  \A k \in Keys \ LegacyKeys :
    ReadyKey(api[k], cache[k], watch[k], pc[k], res[k], orig[k])

-----------------------------------------------------------------------------
(* The uninstall, of the only KnativeServing there is: what is left to be     *)
(* deleted is on the list of delete, unless delete believes that another     *)
(* KnativeServing is served.                                                *)

Removed == cluster \cap Uninstalled = {}
Believed(k) == \E j \in ServingKeys \ {k} : servings[j] # NotServed
Listed(k) == {todo[k][i] : i \in DOMAIN todo[k]}

\* Release has taken the manifest finalizer off the cached object, but not off the
\* stored one; a patch made from the cached object will.
Slipped(k) ==
  /\ cache[k].rv = api[k].rv
  /\ Has(api[k].fin, ManifestFinalizer) /\ ~Has(cache[k].fin, ManifestFinalizer)

Uninstalling(k) ==
  ~Believed(k) =>
    /\ pc[k] = "delete" => cluster \cap Uninstalled \subseteq Listed(k)
    /\ pc[k] = "release" \/ Slipped(k) => Removed

KeyUninstall(k) ==
  /\ Slipped(k) => pc[k] \notin EarlyStages \cup InstallStages
  /\ Uninstalling(k)

\* The inductive invariant of ReleaseAfterUninstall, for one key: where the manifest
\* finalizer may go, the manifest is gone.
UninstallInv == \A k \in Keys : KeyUninstall(k)

-----------------------------------------------------------------------------
(* Roles and bindings, of the only KnativeServing there is: a binding is      *)
(* applied after its role, and deleted before it.                            *)

Ahead(r, s, list) ==
  \A i \in DOMAIN list : list[i] = s => \E j \in DOMAIN list : j < i /\ list[j] = r

RolesFirst(k) ==
  /\ "binding" \in cluster => "role" \in cluster
  /\ pc[k] = "install" /\ "role" \notin cluster => Ahead("role", "binding", todo[k])
  /\ pc[k] = "delete" /\ "binding" \in cluster => Ahead("binding", "role", todo[k])

\* The inductive invariant of BindOnlyExistingRoles, for one key: what is still to be
\* applied or deleted is in the right order.
RolesInv == \A k \in Keys : RolesFirst(k)

-----------------------------------------------------------------------------
(* Ready and the manifest, of the only KnativeServing there is, when no       *)
(* earlier operator left it.  Delete is at work when the default finalizer    *)
(* has gone, so an object that is Ready and has that finalizer vouches for    *)
(* the manifest.                                                             *)

Complete == Uninstalled \subseteq cluster
Vouches(o) == IsReady(o) /\ Has(o.fin, DefaultFinalizer)

NothingVouches(a, c, w) ==
  ~Vouches(a) /\ ~Vouches(c) /\ \A i \in DOMAIN w : ~Vouches(w[i])

\* While the manifest is not complete, a worker that installs has no Ready status and
\* the rest of the manifest on its list; none has got past install; and a Ready
\* status that is left over from finalizing is not written.
Unready(k) ==
  /\ pc[k] \in EarlyStages \cup InstallStages \cup {"getStatus"} => ~IsReady(res[k])
  /\ pc[k] = "install" => Uninstalled \subseteq cluster \cup Listed(k)
  /\ pc[k] \notin {"checkDeployments", "deleteObsoleteResources"}
  /\ pc[k] = "syncStatus" /\ IsReady(res[k]) => orig[k].status = res[k].status

KeyInstalled(k) ==
  ~Complete => NothingVouches(api[k], cache[k], watch[k]) /\ Unready(k)

\* The inductive invariant of ReadyMeansInstalled, for one key, together with IInv,
\* CacheCurrent and ReadyInv.
InstalledInv == \A k \in Keys \ LegacyKeys : KeyInstalled(k)

=============================================================================
