# Verification of the Knative Serving operator

The operator installs Knative Serving in a cluster and removes it again. Users
create a `KnativeServing` object; the controller applies the resources of a
release manifest, reports on them in the object's status, and removes them when
the object is deleted. This directory holds TLA+ modules of that controller, TLC
configurations that check them on small instances, and proofs for TLAPS.

Run everything in this directory: `tlc -config Recreated.cfg MCReconciler.tla` (and so
on for every `.cfg`; `PROJECT.json` names the module of each), and `tlapm` on each module whose name ends in `Proofs`.
Paths below are relative to the repository. Two names are short for files:
*controller* is `pkg/reconciler/knativeserving/knativeserving.go`, *generated
reconciler* is
`pkg/client/injection/reconciler/serving/v1alpha1/knativeserving/reconciler.go`.

## Inventory

| Component | State | Operations | Interacts with |
|---|---|---|---|
| Controller | `servings` (generation per key), the manifest as read | `ReconcileKind` (generation check, transform, `ensureFinalizer`, `initStatus`, `install`, `checkDeployments`, `deleteObsoleteResources`), `FinalizeKind`, `delete` | called by the generated reconciler; API server through the typed client; lister; manifest client |
| Generated reconciler | none across calls; `original` and `resource` during one | `Reconcile`, `setFinalizerIfFinalizer`, `clearFinalizer`, `updateFinalizersFiltered`, `updateStatus` | lister, API server, controller |
| Status conditions (`knativeserving_lifecycle.go`) | the conditions of one status | `InitializeConditions`, the `Mark*` methods | called by the controller |
| Controller wiring (`controller.go`, and `NewImpl` in the generated one) | event handlers, listers | the constructors; enqueue on events of KnativeServings and, through a filter, of the deployments they control | informers, work queue |
| Informer factory (`pkg/client/informers/externalversions/factory.go`) | one informer for each type, those started, a lock | `InformerFor`, `Start`, `WaitForCacheSync` | the constructors; `knative.dev/pkg`, which runs the informers |
| Types and deep copies (`pkg/apis/serving/v1alpha1`) | - | `DeepCopyInto` of every struct | every reconciler, which may write to copies only |
| Informer and lister (`pkg/client/informers`, `listers`) | cached objects | `Get`; watch, relist, resync | API server; hands out pointers to the cached objects themselves |
| Typed client (`pkg/client/clientset`) | none | `Get`, `Update`, `UpdateStatus`, `Patch`, ... | API server |
| Transforms (`pkg/reconciler/knativeserving/common`) | none | config maps, images, gateways, certificates, replicas, resource requirements | pure functions applied to each resource in turn |
| Metrics reporter (`stats_reporter.go`) | a counter for each key and change | `ReportKnativeservingChange` | called by `ReconcileKind`; no other part reads it |
| Process (`cmd/manager/main.go`) | none | runs the constructors, the informers, then the workers | `knative.dev/pkg` |

Around them, and modelled from how the code uses them: the API server (optimistic
concurrency by resource version, finalizers, generations), the work queue, the
retry helper, the manifest client, the garbage collector, deployments.

What is hard in this system, and what makes each part correct:

* **Stale reads.** A reconciliation reads the object from a cache that lags, twice,
  and writes with the resource version it read. The controller must not install
  for an object that can vanish without `FinalizeKind` seeing it
  (`InstallIsProtected`); the copy it holds must relate to what is stored (`IInv`).
* **Two finalizers.** The generated reconciler keeps `knativeservings.operator.knative.dev`,
  the controller keeps `delete-knative-serving-manifest`. They are written by different
  requests from different copies, and the second counts only in first place.
  Deletion must end (`DeletionCompletes`), must take off only its own finalizer
  (`RefetchSafe`) and only after the uninstall (`ReleaseAfterUninstall`).
* **Partial failure.** Every request may fail, conflict, or succeed and lose its
  reply; some failures are only logged. The status must come to be true all the
  same (`StatusConverges`), `Ready` must sum up the others (`ReadySumsUp`) and mean
  something (`ReadyIsProtected`, `ReadyMeansInstalled`).
* **Memory only.** `servings` decides whether the manifest is deleted, is lost in a
  crash, is shared by the workers and keyed by name rather than by object
  (`UninstallComplete`, `ReadyMeansInstalled`).
* **Order.** RBAC is applied roles first (`BindOnlyExistingRoles`), deleted last.
* **Resources nobody deletes.** Deployments of a KnativeServing outside the
  manifest's namespace are left to the garbage collector (`DeploymentsRemoved`).
* **Transforms.** Eight transformers work on one resource after another, in an order nobody
  states a reason for. The result must be what the spec asks for, of each field exactly
  once (`ResultAsSpecified`), must not hang on the order (`OrderIsIrrelevant`), and a spec
  that cannot be met must be refused before anything is installed (`RefusedForCerts`).
* **Start.** Three listers and handlers must stand on one cache (`OneCachePerType`); no worker may
  look before it is filled (`ExistingIsFound`); no change may be lost between list, watch
  and queue (`NothingOverlooked`, `EverythingReconciled`), but for the one that the filter of the
  deployments drops. The generated factory promises its part of this for any number of goroutines
  (`OneInformer`, `RunsOnce`, `WaitTellsTheTruth`, `CallsReturn`).
* **Shared memory.** The lister hands out the cached objects themselves. A write to a copy must
  not reach them, however deep the map it goes to (`CopiesArePrivate`, `CacheAsDelivered`).
* **Metrics.** What is counted must have happened (`NoPhantomChanges`).

`PROJECT.json` lists each hazard with its line and the properties about it.

## Modules

| Module | What it is |
|---|---|
| `Lifecycle` | the condition set and the `Mark*` methods, as operators on the four condition statuses |
| `Reconciler` | the controller, the generated reconciler, and their environment; the properties |
| `ReconcilerInvariant` | the inductive invariants: `IInv`, `CacheCurrent`, `SumsInv` of the conditions, `ReadyInv`, `UninstallInv`, `RolesInv` and `InstalledInv` |
| `ServingContract` | what the operator promises about the manifest finalizer, without a worker or a cache |
| `ReconcilerRefinement` | the mapping from `Reconciler` to `ServingContract` |
| `ChangeMetrics` | `Reconciler` composed with the metrics of the changes it reports |
| `MetricsInvariant` | the inductive invariant of the metrics, `MetricsInv` |
| `Transforms` | from the shipped manifest and a spec to the manifest that is installed |
| `TransformsInvariant` | the inductive invariant of the transform, `TransformsInv` |
| `Informers` | the shared informer factory and the goroutines that use it |
| `InformersInvariant` | the inductive invariant of the factory, `FactoryInv` |
| `Startup` | `Informers` composed with the process that starts, the watched objects, the work queue and the workers |
| `StartupInvariant` | the inductive invariant of the start, `StartupInv` |
| `SharedObjects` | the references in a KnativeServing, the deep copies of it, and who writes through which |
| `SharedObjectsInvariant` | the inductive invariant of the copies, `SharingInv`; small enough to be run as it is |
| `MCReconciler`, `MCChangeMetrics`, `MCTransforms`, `MCInformers`, `MCStartup` | instances for TLC |
| `ReconcilerTypeProofs` | lemmas on the operators, and that each action keeps the types |
| `ReconcilerProofs` | that each action keeps `IInv`, and `SumsInv`, and the theorems that follow |
| `ContractProofs` | that each action keeps `CacheCurrent`, and maps to a step of `ServingContract` or to none; and the theorem on the uninstall, with `UninstallInv` |
| `ReadyProofs` | that each action keeps `ReadyInv` and, with one key, `RolesInv` and `InstalledInv`; and the theorems on Ready, the manifest finalizer and the manifest |
| `MetricsProofs` | that each action, with what it reports, keeps `MetricsInv`, and the theorems on the metrics |
| `StartupProofs` | that each step of the factory keeps `FactoryInv`, and each step of the process `StartupInv`, and the theorems on both |
| `TransformsProofs` | what each transformer writes, that all of them together make what the spec asks for, that any two commute, and the theorems on the transform |
| `SharedObjectsProofs` | that each copy and each write keeps `SharingInv`, and the theorems on it |

`MCReconciler` extends `ReconcilerRefinement`, which extends `ReconcilerInvariant`, which extends
`Reconciler`, which extends `Lifecycle`. `ChangeMetrics` extends `Reconciler`, `Startup` extends `Informers`, and `StartupInvariant` both
`Startup` and `InformersInvariant`. The proof modules extend `ReconcilerInvariant` in a second chain:
`ReconcilerTypeProofs`, `ReconcilerProofs`, `ContractProofs`, `ReadyProofs`, and `MetricsProofs` with `MetricsInvariant` beside it.
Each of the other proof modules extends the invariant it is about.
The definitions whose name ends in `Mutant` are deliberate mistakes, next to the
definition they would replace; nothing else uses them.

### State and actions

| Variable | In the code |
|---|---|
| `api`, `cache`, `watch` | the stored object of a key, the informer's, and the changes on the way between them |
| `queue` | the work queue: a set, as it deduplicates |
| `pc` | the stage at which the worker of a key stands |
| `orig`, `res` | `original` and `resource` in `Reconcile` (and `instance`, the same pointer, in the controller) |
| `todo` | resources `install` or `delete` still has to go through |
| `err`, `att` | the error returned so far; the attempts of `updateStatus` |
| `servings` | `Reconciler.servings`, with `NoKey` for the key of a zero KnativeServing |
| `cluster`, `dep` | cluster-scoped resources that exist; deployments of a key, with the owner reference |
| `used` | how much of each bound on the environment has been spent |

A worker is the key it works on: the queue never hands one key to two workers, and
at most `Threads` are busy. Each request to the API server is a step, and each
resource that is applied or deleted is one. So `Reconcile(k)` is the head of
`Reconcile`, `SetFinalizer` is `setFinalizerIfFinalizer`, then follow `ReconcileKind`, `EnsureFinalizer`,
`InitStatus`, `Install`, `CheckDeployments` and `DeleteObsoleteResources`; or, for an object with a
deletion timestamp, `FinalizeKind`, `Delete`, `Release` (the end of `delete`) and
`ClearFinalizer`. `SyncStatus` and `GetStatus` are `updateStatus` and its retry. Every early
return goes to `syncStatus` or `clearFinalizer` with `err` set, as the code does.

What a request may answer is in `Write`: carried out, conflict, not found, or an error
after which it may or may not have been carried out. An object is removed when
it has a deletion timestamp and its last finalizer goes (`Committed`).

Details the model keeps on purpose, because behaviour hangs on them:

* a failed `Patch` returns a zero KnativeServing that is reconciled all the same (`Empty`);
* `ensureFinalizer` drops the reply of `Update`, so that the copy keeps its old
  resource version and the next update conflicts;
* `delete` slices the finalizer off the object in the informer's cache, before the
  request that makes it so;
* `ensureFinalizer` looks for the manifest finalizer anywhere in the list (`ManifestAttached`),
  `delete` in first place only (`ManifestFirst`), and the generated reconciler writes the
  list back sorted;
* `updateStatus` writes over a fetched object whatever status was computed before.

### The other modules

**`ServingContract`** knows of a KnativeServing whether it lives, its incarnation and whether it is
held by the manifest finalizer. `Install`, `Adopt` and `Tidy` need a held object, `Uninstall` and
`Release` one that is being deleted too. `ReconcilerRefinement` maps the stored object to it
(`StoredObject`), not what a worker has in hand: `ContractKept` therefore says that however stale the
worker's copy, what it applies is applied for an object that is held at that moment.

**`Transforms`** runs `Manifest.Transform` step by step: `Begin` is `Platforms.Transformers` and the
copy of the manifest, `TransformResource` one transformer on one resource, `TransformForPlatform` a
platform's transformer, of which only the outcome is known, `End` the rest of the
reconciliation. Each operator is a transformer or a helper of `pkg/reconciler/knativeserving/common` under its own
name. `Specified` is the reference: what the spec asks for, written field by field and not
transformer by transformer. `ClusterScoped` lists all kinds that manifestival takes for cluster-scoped; the kinds the run has are those of the shipped manifest, and so are the two
deployments whose containers share a name.

**`Informers`** cuts `InformerFor`, `Start` and `WaitForCacheSync` at every point at which another
goroutine could come in if the lock did not keep it out, so that `lock` does work in the model. It is the
contract of a generated package, and wider than its use here: in this program `main` alone calls
`InformerFor`, and nobody `Start` or `WaitForCacheSync`, as `knative.dev/pkg` runs the informers itself.
Informers are places in `pool`, `holds` is what each goroutine was given, `relies` what it had been
given when it called `Start`, and `checked` whether it has since waited.

**`Startup`** has `main` go through `Script`: what `SetupInformers`, `NewControllerWithConfig` and `NewImpl` ask of
the factory, in their order. Then `RunInformers` and `Started` are `StartInformers`, and `Take`, `Finish` and
`Fail` are a worker. A KnativeServing is a version number, and reconciling is remembering it in `seen`.
`List`, `Observe` and `Deliver` are the three places where a change waits on its way to
the queue. A crash forgets all but `api` and `deployed`. An event is `[type, key, tombstone]`. When a deployment
goes (`DeleteDeployment`), the watch shows it, or the watch is broken and the next list shows that it is not there: the
informer then hands out a `DeletedFinalStateUnknown`, a tombstone. `FilterFunc` is `controller.Filter`, which is in front of the
deployments' handler only (`controller.go`, line 84) and asks for a `metav1.Object`; a tombstone is none and is dropped, although
`EnqueueControllerOf` would know what to do with it. `missed` is a history variable, the keys to whom that has
happened since a worker took them. `Resync` hands out once more what the informer has.

**`SharedObjects`** knows a reference by its path in the struct and gives it a cell. `Copied` is read off
`zz_generated.deepcopy.go`: a path is copied if every reference on the way is. The actions are the
places where the reconcilers copy (`Get`, `UpdateFinalizersFiltered`, `CopyOriginal`), replace (`Reply`, `RetryStatus`),
share (`WithStatus`) and write (`Change`, `Release`).

**`ChangeMetrics`** adds to every step of `Reconciler` what it reports, beside what users have really
done (`made`). Only `ReconcileKind` reports.

### Abstractions and assumptions

* A key has its namespace to itself. `HomeKeys` are those in the namespace the manifest is
  written for, where `delete` finds deployments.
* The manifest is one resource for each way a resource is treated: CRD, role, binding,
  deployment, and `webhook` for the other cluster-scoped ones; `obsolete` stands for what
  `deleteObsoleteResources` removes. A spec is one the transforms accept or not.
* Conditions are their statuses; reasons, messages and times are left out.
* A read of the lister is in the step of the request after it. A cache read early and
  one updated late cannot be told apart by the reader.
* A list that the informer makes is of the stored objects: it never goes back in time.
* Users create, edit and delete. They do not take off finalizers by force.
* A step on `servings` is atomic. The map is shared without a lock; if the Go runtime notices, it
  aborts the process, which is `Restart`.
* `Transforms`: an image is a registry and a name, a quantity a string (`merge` goes by the names of the quantities, whichever they are); conversions between typed
  and untyped resources keep all fields and do not fail, so that the error returns that guard them (`images.go`, lines 61, 65, 120 and 129, `certs.go`, 49 and 55, `ha.go`,
  60, 69, 77 and 84, `resources.go`, 36 and 46) are left out; no resource of the shipped manifest meets one. The environment variable of the certificates goes with
  its mount. DaemonSets are treated as deployments are, and none is shipped.
* `Informers`: resync periods, filters and namespaces of informers are left out.
* `Startup`: one factory stands for the two of the same make; backoff is left out. A key that is on its way
  to a worker is not resynced, which makes no difference to the queue. Whether anything leans on resyncs is said under Fairness.
* `Reconciler`: an event of a deployment goes through `EnqueueControllerOf`, filter included: of one that is lost the
  key is enqueued, or, if the watch was broken, is not.
* `SharedObjects`: the content of a map, slice or struct behind a reference is one bit; all
  elements of a slice, and all entries of a map, share their references.

## Runs

Instances of `Reconciler` have `RetrySteps = 2` (five in the code), one conflict that is retried and one
that is given up, but for `Fresh` and `Upgraded`, the two with a failure and a crash together, which
have the last attempt only. So a status is written over another object than it was computed for in `Recreated` and `Convergence`, and not
in these two. `Threads = 2` is the code's default. `MaxLag` bounds how far the informer
lags, in changes; without it resource versions and the watch would grow for ever,
because a worker with a stale cache can write again and again. A lag of two lets a
worker miss a whole deletion and creation; `Convergence`, with its two objects and three properties, has a lag of one. Budgets (`MaxEdits`, `MaxFaults`, `MaxRestarts`, `MaxFlips`)
are spent by the environment at any moment, so that one is one at every place.

| Run | Instance | Shows |
|---|---|---|
| `Fresh` | one key with its metrics; one creation, edit, failure and crash | `TypeOK`, `InstallIsProtected`, `ReadyIsProtected`, `ReadySumsUp`, `BindOnlyExistingRoles`, `NoPhantomChanges`, `NamedChangesOnly`, the inductive invariant `MetricsInv`; `RolesInv` holds there too, and is left to `RolesInvariant` |
| `Recreated` | one key, created twice; one failure | `RefetchSafe`, `ReadyMeansInstalled`, `ReleaseAfterUninstall`, the inductive invariants `IInv`, `ReadyInv`, `UninstallInv` and `InstalledInv`, and the refinement `ContractKept` |
| `Upgraded` | a KnativeServing of an operator before the generated reconciler, in the home namespace; a failure, a crash, and a deployment that goes down or away, seen or not; resyncs are counted on; 317,590 states, about a minute | `StatusConverges`, version and obsolete resources included, where the manifest finalizer already comes first and a tombstone may be dropped |
| `Convergence` | one key outside the home namespace, created twice; an edit, to a valid or an invalid spec; resyncs are not counted on; 940,864 states, about three minutes | `StatusConverges`, `DeletionCompletes`, `DeploymentsRemoved` |
| `Transform` | 13 resources, every combination of 2 to 4 values of each of 7 fields; the platform does nothing, transforms, or fails | `TypeOK`, `ResultAsSpecified`, `OrderIsIrrelevant`, `RefusedForCerts`, the inductive invariant `TransformsInv` |
| `Factory` | two goroutines, two types | `TypeOK`, `OneInformer`, `RunsOnce`, `WaitTellsTheTruth`, the inductive invariant `FactoryInv`, `CallsReturn` |
| `Startup` | two KnativeServings, one of which changes, and its deployments; two workers; two changes, and one crash or failure; 235,268 states, about two minutes | `StartupTypeOK`, `OneCachePerType`, `ExistingIsFound`, `NothingOverlooked`, the inductive invariant `StartupInv`, `EverythingReconciled` |
| `SharedObjects` | a cached object, what `Reconcile` read, its copy and what `updateStatus` sends; every shape; one write | `CopiesArePrivate`, `CacheAsDelivered`, the inductive invariant `SharingInv` |
| `UninstallLeak`, `StuckDeletion`, `BindingRace`, `ConfigOverridden` | see Findings | each a property that a comment or the README states and the code breaks |

In `Transform` the fields are edited one by one and the transformers look at one resource at a
time, so that pairs of transformers on one resource is all there is to interact: every
resource kind is there, and every value that takes another branch. In `Factory` a third goroutine or type
brings nothing new: what a call can meet is one other in each place, about the same type
or another. In `Startup` two changes let a key change while it is taken, before and after
a list, and let a deployment come and go, or go and come; one fault falls at any step. The key that does not change keeps a worker and the
queue busy beside it. In `SharedObjects` six identities are more than can be in use at once,
and one write is enough: the properties compare every cell.

`DeletionCompletes` and `DeploymentsRemoved` are stated with `[]<>`: that a key is again and again not being deleted says that no
deletion hangs for ever, as nothing but its end takes a deletion back.

Some hazards are out of a run's bounds. `Recreated` has no crash: what crashes do to `ReadyMeansInstalled` and `ReleaseAfterUninstall` is
in the theorems. `Convergence` has no failing request, as with one `DeletionCompletes` is false (`StuckDeletion`); that a finalizer is not
taken off at the first attempt is met through conflicts. `UninstallLeak` has one key: that two KnativeServings leave the uninstall to each other is no part of it.

One key is enough where a property is about one object: keys meet only in `servings`, in
`cluster` and in the number of workers. `ReadyMeansInstalled`, `BindOnlyExistingRoles` and `ReleaseAfterUninstall` hold for one key
and fail for two: `BindingRace` is the run with two keys, in which one KnativeServing harms another.

Deadlock is not checked in `Reconciler`, `ChangeMetrics` and `Startup`. The system may really stop: with no object left, an empty queue
and nobody who creates one, it is finished. It is checked in the other modules.

### Fairness

`FairSpec` assumes weak fairness of the workers and of the work queue (a goroutine that can
run does), of the watch, of deployments coming up, and of the garbage collector.
Nothing is assumed of users, failures, crashes, relists or resyncs. That is enough for `Convergence`, where no deployment is lost: what happens
to a KnativeServing, or to a request for it, brings it to a worker without the ten-hour resync. It is not enough when a deployment goes
while its watch is broken. The tombstone is dropped and nothing is enqueued; the status says Ready and the deployment is not there until the key comes to a worker for
another reason. `Upgraded` therefore uses `ResyncSpec`, which adds weak fairness of the resync; under `FairSpec` it is violated. So does `StuckDeletion`, to show
that there even a resync does not help. The convergence properties speak of objects
that are left alone from some point on, and the number of failures is bounded.

`Factory` assumes that a goroutine in a call goes on and that an informer that runs comes to
list its objects. It does not assume that anyone calls `Start`, which is why waiting for an informer
nobody has started would be seen. `Startup` assumes weak fairness of `main`, of lists, watches and their delivery and of
workers that have taken a key, and strong fairness of taking a key: the work queue is first in,
first out, so a key is taken in the end although others keep the workers busy in
between. Nothing is assumed of changes, failures and crashes but that the bounds end them, and nothing of resyncs: the first part of
`EverythingReconciled`, on every KnativeServing and every change of a deployment that the watch has shown, holds without them. The second part, on
the dropped tombstones, has them as its hypothesis, and is false without it.

### Findings

Each of these is a run whose expected outcome is a violation.

1. **`UninstallLeak`.** A conflicting finalizer patch yields a zero KnativeServing, which `ReconcileKind`
   enters in `servings` under the empty name. The entry is never removed; from then on
   deleting the last KnativeServing leaves the manifest in the cluster.
2. **`StuckDeletion`.** `delete` changes the informer's object before `Update`. If that fails, the
   next attempt finds no manifest finalizer in the cache and does nothing, and the
   object stays until something else changes it.
3. **`BindingRace`.** The check in `delete` and its deletions are not atomic with the install of
   another worker, whose binding then refers to a role that is gone.
4. **`ConfigOverridden`.** `config_maps.go`, line 27, says "Let any config in instance override everything else", and the
   repository's README, line 93, that `spec.config` sets the entries. With `spec.high-availability` too, `HighAvailabilityTransform` comes later and
   writes its own `enabledComponents` over the user's (`ha.go`, line 59). `SpecifiedData`, the reference that `ResultAsSpecified` compares with,
   follows the code there and says so; `ConfigOverridesAll` is the comment, and is violated. It is also the one exception that
   `OrderIsIrrelevant` needs, `Contested`.

### What the properties leave room for

The modules follow the code in these as well. No property is stated that forbids them; where one would be false of them, it names them as
its exception.

* `servings` may keep the generation of an object that is gone, and a successor of a lower generation is refused as obsolete
  until the entry goes or its own generation grows (controller, line 111). No failure is needed: create an object and edit it; a worker
  reads generation 2; the object is deleted before it has a finalizer, and the informer sees that; `updateFinalizersFiltered` finds nothing to
  patch, `ReconcileKind` sets `servings[key]` to 2, `ensureFinalizer` is told that there is no such object, and so is the next
  reconciliation. A successor of generation 1 is refused from then on, and its status stays empty. This is the exception `NotOutdated` of
  `StatusConverges`, which `Convergence`, with two objects under one name, would otherwise violate. Other properties have no such exception:
  the successor's deletion completes, and its status is not its predecessor's.
* A deployment that goes while its watch is broken enqueues nothing (`controller.go`, line 84, and `FilterGroupVersionKind` in the vendored
  `knative.dev/pkg/controller/controller.go`): see `Startup` above. It is the exception of `NothingOverlooked`, and why `Upgraded` counts on resyncs.
* `updateStatus` fetches the object again by name, and does not look whether it is the one the status was computed for (generated
  reconciler, line 216). Under a name that an earlier operator used, the manifest finalizer comes first, one
  reconciliation takes off both finalizers, and if a successor is created before the status is written, it inherits `Ready` and the version of
  an object that is gone, with nothing installed for it. So `ReadyMeansInstalled` is false of `Recreated` with `LegacyKeys <- OneKey` in place of
  `NoKeys`, and `ReadyIsProtected` leaves such keys out. With the finalizers in the order of this operator that cannot be.
* After a start `servings` is empty. If the first key is of an object being deleted, the resources of
  another that is Ready are removed (line 275): `ReadyMeansInstalled` is of one key only.
* A KnativeServing counts in `servings` before it has the manifest finalizer. Two that are deleted together may
  leave the uninstall to each other (lines 120, 270, 275): `ReleaseAfterUninstall` is of one key only. The shortest
  way there begins with an installed KnativeServing that is deleted while another is created and deleted at once.
* An image override is by container name, and the deployments `webhook` and `istio-webhook` share theirs (`images.go`, line 151).
* `high-availability: {}` means 0 replicas, and `minReplicas` of an autoscaler may be raised above
  its `maxReplicas` (`ha.go`, lines 65 and 84).
* The RoleBinding shipped for `kube-system` is moved to the namespace of the KnativeServing, where its role is not
  (`extensions.go`, line 38).
* `delete` writes to the finalizers of the object in the informer's cache: `CacheAsDelivered` leaves them
  out, and `StuckDeletion` is what comes of it.
* A new operator reports the creation of a KnativeServing that was never edited once more (`NoPhantomChanges` counts
  the one it found in), and deletions are never reported.

## Proofs

The theorems hold for every set of keys (but for the six marked "one key" below, which are of a cluster
with one KnativeServing, as they are false of two), every number of workers, goroutines, types and attempts, and
all values of the bounds. They rest on the assumptions named in `Reconciler` (`KeysAssumption`, `BoundsAssumption`),
`Informers` (`CallersAssumption`, `TypesAssumption`), `Startup` (`MainAssumption`, `BoundsAssumption`), `SharedObjects`
(`IdsAssumption`, `WritesAssumption`) and `Transforms` (`PlatformAssumption`, `ManifestAssumption`, `FieldsAssumption`), and on nothing
else. But for those of `Transforms` none of them says more than that a bound is a number, that names differ
or, of `Ids`, that memory has room for one object more than are in use.

`ManifestAssumption` is about the manifest that comes with the operator, in `cmd/manager/kodata/knative-serving`, and allows any other of
the same kind: a list of resources with the fields their kinds have, with a deployment `controller`, no DaemonSet, and no Gateway
but `knative-ingress-gateway` and `cluster-local-gateway`; every container has a name and an image, as Kubernetes demands. `FieldsAssumption` is what the schema in
`config/300-serving-v1alpha1-knativeserving-crd.yaml` lets in: replicas are no negative number (the schema says one or more, and a field left out is zero),
resources are a list, selectors are maps, a default image is an image. Which images, names, entries and quantities there are, and how many, is left open,
as is what `Cut` makes of a name.

| Theorem | Says |
|---|---|
| `Invariant` | `Spec => []IInv` |
| `TypeCorrect` | `Spec => []TypeOK` |
| `InstallProtected` | `Spec => []InstallIsProtected` |
| `RefetchIsSafe` | `Spec => []RefetchSafe` |
| `ReadyAlwaysSumsUp` | `Spec => []ReadySumsUp` |
| `CacheIsCurrent` | `Spec => []CacheCurrent` |
| `ContractIsKept` | `Spec => ContractKept`, the refinement |
| `ReadyInvariant` | `Spec => []ReadyInv` |
| `ReadyAlwaysProtected` | `Spec => []ReadyIsProtected` |
| `UninstallInvariant` | `Spec => []UninstallInv`, one key |
| `ReleasedLast` | `Spec => ReleaseAfterUninstall`, one key |
| `RolesInvariant` | `Spec => []RolesInv`, one key |
| `RolesAreBound` | `Spec => BindOnlyExistingRoles`, one key |
| `InstalledInvariant` | `Spec => []InstalledInv`, one key |
| `ReadyIsInstalled` | `Spec => []ReadyMeansInstalled`, one key, which no earlier operator left |
| `ReportsAreAccountedFor` | `MetricsSpec => []MetricsInv`, of `ChangeMetrics` like the two below |
| `ReportsHaveHappened`, `ReportsHaveNames` | `NoPhantomChanges`, `NamedChangesOnly` |
| `TransformInvariant` | `Spec => []TransformsInv`, of `Transforms` like the four below |
| `ContainersHaveImages`, `InstalledAsSpecified`, `BadCertsAreRefused`, `OrderDecidesNothing` | `TypeOK`, `ResultAsSpecified`, `RefusedForCerts`, `OrderIsIrrelevant` |
| `FactoryInvariant` | `Spec => []FactoryInv`, of `Informers` like the four below |
| `FactoryTypeCorrect`, `OneInformerPerType`, `InformersRunOnce`, `WaitIsTruthful` | `TypeOK`, `OneInformer`, `RunsOnce`, `WaitTellsTheTruth` |
| `StartupInvariant` | `StartupSpec => []StartupInv`, of `Startup` like the four below |
| `StartupTypeCorrect`, `OneCacheForAll`, `ExistingAreFound`, `NothingIsOverlooked` | `StartupTypeOK`, `OneCachePerType`, `ExistingIsFound`, `NothingOverlooked` |
| `SharingInvariant` | `Spec => []SharingInv`, of `SharedObjects` like the two below |
| `CopiesStayPrivate`, `CacheStaysAsDelivered` | `CopiesArePrivate`, `CacheAsDelivered` |

### Types, install and refetch: `IInv`

None of these properties is inductive by itself. `TypeOK` needs `RefetchSafe`, since `Release` takes the tail of the
cached finalizers, and that is a list only when there is one. `RefetchSafe` needs to know that an
object that is doomed (being deleted, manifest finalizer first) stays so in everything the informer may
still deliver, and who may end it. `InstallIsProtected` needs to know what a stale copy is worth: that an update the API
server takes is of the stored object, and that a manifest finalizer seen anywhere in the
history is still there. `IInv` says this of each key in `KeyInv(a, c, w, s, r)`, a formula on
five values: the stored object, the cached one, the changes between, the stage
and the worker's copy.

* `HistoryOrdered`: cache and changes are in the order of their versions, end in the stored
  object, and a doomed object is followed by doomed ones only.
* `HistoryKept`: whoever has seen the manifest finalizer on an incarnation knows that the stored object
  is that incarnation and has it. (`Release` is the one writer that takes it off, and takes it off the
  cached object in the same step.)
* `EarlyCopy`: a copy that has the stored resource version is of the stored object.
* `Protected` and `Finalizing`: the stages that install, and those that delete, have what they need.

A step concerns one key, so the proofs first show that `KeyInv` is kept for the five values
of that key and then, by the lemma `Frame`, for all. There is one lemma for the types
and one for the invariant of each action; `Write` has its own, used by the five actions
that write.

### Ready sums up: `SumsInv`

`ReadySumsUp` rests on an invariant of its own. The stored status is what some worker had in hand, and
that is a copy of what the informer had, marked. So `SumsInv` says of every status, stored, on its
way, cached or held, that it sums up: `MarksSumUp` shows it of what the Mark methods
return, and the actions only copy. That `delete` writes an object at all needs `TypeOK` and
`RefetchSafe`, which are proved before. TLC agrees that `SumsInv` is an invariant of `Fresh`.

### The refinement: `CacheCurrent`

Most steps map to a step of `ServingContract` by `IInv` alone: what a worker installs or takes off is of an object
it has seen the manifest finalizer on. One does not. `FinalizerRequest` patches the finalizers as they are in the
cache, and a patch that wrote a list without the manifest finalizer over one that has it would let go of an object
that lives. The patch carries the cached resource version, so it is enough that under one version there is
one list. `IInv` does not say so, and as `delete` writes to the cache it is not quite true. `CacheCurrent` says what is: with
nothing on its way to the informer, cached and stored object are equal, but for the finalizers of
one that is being deleted. `StepCurrent` shows that every step keeps it. Then `StepContract` goes through the actions: a step
sends one object from `a` to `b`, and `ObjectStep` says which step of the contract that is.

### Ready and the finalizer: `ReadyInv`

The difficulty is `updateStatus`, which may write a Ready status over an object that is another one by now.
`ReadyInv` says, of the stored object, the cached one and all between, that Ready goes with the manifest finalizer or
with an object on its way out (`ReadyHistory`), and of a worker that has a Ready status to write that the
incarnation it is of is gone or is still held (`ReadyLate`). What keeps this up is the order of the finalizers
(`DefaultFirst`): the default one is put on before the manifest one and is first in the list, so that one pass of
`FinalizeKind` and `clearFinalizer` never takes off both, and an object that a worker has let go of is not
written to by the same pass. A worker that holds a stale copy writes with a stale resource version, and after an object that
is gone the informer sees one that no worker has touched (`Anew`).

The order does not hold for an object that an earlier operator left, whose only finalizer is the manifest's. Then the property is
false: its successor may inherit a Ready status (see "What the properties leave room for"). So `ReadyIsProtected` speaks of
`Keys \ LegacyKeys`; other keys may be legacy ones, and do not get in the way.

### Uninstall and release: `UninstallInv`

The stored object loses the manifest finalizer in one of two ways, and `LetsGo` shows, for every set of keys, that there is no
third. One is `Release`. The other comes of its writing to the cache first: if the request fails, the finalizer is off the
cached object and on the stored one (`Slipped`), and the next patch of the generated reconciler, made from the cached object, takes it
off there. So it is not enough that the manifest is gone when `delete` comes to `Release`: it must be gone as long as the
finalizer has slipped. `SlipsInRelease` shows that nothing else makes it slip, and `SlippedStage` that no worker installs meanwhile, since what
the informer has is being deleted. `Uninstalling` says the rest: what `delete` has left is on its list.

With one key, only `NoKey` can make the operator believe that it serves another KnativeServing, and that is for good, until a restart.
With two keys it may stop to believe so between `FinalizeKind` and `Release`, and the property fails. The theorems therefore assume
that there is one key. The lemmas are of the steps of one key; that no other key takes any is used in `UninstallKept` and `UninstallReleases` only.

### Roles and bindings: `RolesInv`

`BindOnlyExistingRoles` is about one run of `install`, but that begins where another run, of `install` or `delete`, was cut short. So
`RolesInv` says that there is never a binding without its role, and of a worker in between that its list has the role ahead of the
binding as long as the role is missing, and while it deletes the binding ahead of the role as long as the binding is there (`Ahead`). The order of
the two lists is read off in `ListsInOrder`, and `AheadInTail` goes through them one resource at a time. With two keys
`BindingRace` breaks it.

### Ready and the manifest: `InstalledInv`

That an object is Ready does not mean that its manifest is there: one that is being deleted stays Ready while `delete` is at work. What
does is Ready together with the default finalizer (`Vouches`), as the first run of `FinalizeKind` and `clearFinalizer` takes that off and
only a later one comes to `delete`. `InstalledInv` says what there is not while the manifest is less than complete: no object, stored, cached or on
its way, that vouches, and no worker past `install`, nor one with a Ready status that it will write (`Unready`). A run that
finalizes may hold a Ready status and go to `syncStatus` with it, but started from that very status and so has nothing to write. When the worker deletes,
`DoomedVouchNot` shows that nothing vouches, from the order of the finalizers (`DefaultFirst`) and from what is
doomed staying so. No other step takes from the manifest (`CompleteKept`). What is left is that no step makes an object vouch, which is one lemma for each action: a
status that is not Ready is the only one to be written, and the default finalizer goes on to objects that are not Ready. An object that lives and is Ready vouches, by
`ReadyInv` (`LiveVouches`), and `ReadyIsInstalled` follows.

Under a key that an earlier operator left one run takes off both finalizers, and the theorem is false there, as is said under "What the
properties leave room for".

### What is reported: `MetricsInv`

A worker reports a change when the generation it sees is newer than the one in `servings`, and sees whatever the
informer has by then. So the counters cannot be compared with the stored object. `MetricsInv` compares them with every object
`InSight`: the stored one, the cached one, all between, and the one a worker has read and not yet acted on. `made[k].before`, a
history variable, says how many edits there had been when each incarnation was created; so generation `v` of incarnation `i` is made of
at most `before[i] + v - 1` edits (`GenerationsCount`). While generation `v` is in `servings`, no more than these may have been reported
(`ReportedUpTo`), whichever object in sight `v` is compared with next; while nothing is, no more than were made before that
object (`Unreported`). Two facts keep this up. Nothing in sight comes back to life but as the next incarnation (`Succession`), so between
two reports of creations there is either a creation or a deletion that `FinalizeKind` or the next `Reconcile` has seen; and
the zero object has generation 0, which is older than all (`Handed`). The proof needs `IInv` and `CacheCurrent`: a worker's request is carried out
on the object it was made for or not at all. A restart forgets `servings` and the counters together.

### The transform: `TransformsInv`

`ResultAsSpecified` compares what eight transformers have done with `Specified`, which looks at the spec once. That is no invariant by itself: `ResultAt` says
of every step that the resources before `at.resource` are as specified, that the one at hand is `Turned(n, u, s)`, the shipped one after the first `n`
transformers, and that the others are as shipped. That the loop keeps this is easy (`NextPlace`); the work is `TurnedAsSpecified`, that `Turned(8, u, s)` is `Specified(u, s)`, for every
resource and spec. It goes in two steps.

* *What a transformer may touch.* `Writes(fn, kind)` lists the fields a transformer writes of a kind, and one lemma for each transformer shows that it
  leaves all others (`OwnerWrites` to `RequirementsWrites`) and keeps the shape of the resource (`OwnerKeeps` to `RequirementsKeep`). `StepKept` puts them together.
* *What it writes.* For each kind one lemma follows the fields through those transformers that write them, where the helpers are related to what the spec asks for: an image to
  `SpecifiedImage`, the overlays of a ConfigMap to `SpecifiedData`, and `find`, which takes the first of several overrides, to
  `SpecifiedAmounts` (`LeastMember`: a set of numbers that is not empty has a least).

A refused deployment is as far as `CustomCerts` like all others, fails there (`RefusedFails`), and takes everything with it; so of those the loop has passed none is refused.

`OrderIsIrrelevant` follows from the same lists. Where two transformers write different fields, it is enough that what one writes in a field depends on that field, the kind and the name alone (`OwnFieldOnly`).
There are only two places where both write (`BothWrite`): the entries of a ConfigMap, which commute as long as they have no key in common (`DataCommutes`), and this is where `Contested` comes in, and
the containers, where image, mounts and amounts are fields of their own (`ContainerCommutes`). A refused deployment fails in either order.

### The informer factory: `FactoryInv`

`LockHeld` says that the goroutine inside a call is the one that holds `f.lock`, and so that nobody else is. Without it a second `Create`
could come between `Lookup` and `Create`. `Registry` says that pool and `f.informers` are inverse to each other, which
makes `OneInformer` a matter of what each goroutine holds (`Holding`). `Running` ties `startedInformers` to how often each informer has
run. `WaitTellsTheTruth` is about three calls in a row with others in between: `Relying` and `Waiting` carry what a
goroutine relies on from `Start` through the snapshot to the answer. `WaitForCacheSync` waits
outside the lock, so the proof uses that an informer, once synced, stays so.

### The start: `StartupInv`

Up to `RunInformers` the process does nothing with the factory but what `Informers` allows, so `FactoryInv` and its lemmas carry
over. From then on they do not: `StartInformers` runs the informers itself and never calls `Start`, so that `startedInformers` stays empty and
only `Registry` is left (`RunAndSynced`). `SetUpSoFar` says that what `main` has set up until now stands on the registered informer of its
type, from which `OneCachePerType` follows when the script is through. `Phases` says what the caches and workers can hold by then: an
informer that does not run has an empty cache, and workers read only after both have synced, which is all of `ExistingIsFound`.
`NothingOverlooked` is inductive beside that, as each of list, watch, delivery and `Take` hands a change on before it lets go of it, unless it is
a tombstone that the filter drops: an event counts as on its way (`Coming`) only if it passes. It
needs `Phases` for the first list: until then, deployments nobody has attended to exist, so that the list shows them.

### The copies: `SharingInv`

The heart is one fact on data: every path of `KnativeServing` is a copied path (`AllCopied`). So a copy has cells of its own at all its
references, and `AtHome` says so of every object in use, but for the conditions of `existing`, which `updateStatus` shares with `resource` on purpose.
`Apart` keeps the identities apart, for which there must be room for one object more than the four in hand. A write then changes one cell, which is of one
object or of these two, and `WriteKeeps` concludes that spec and status of the others stay.

### What is only model-checked

Liveness: `StatusConverges`, `DeletionCompletes`, `DeploymentsRemoved`, `CallsReturn`, `EverythingReconciled`. Fairness is out of the prover's reach.
All the invariants and action properties of the passing runs are theorems.

## Not modelled

* The fake clients, which only tests use; the OpenAPI definitions, which are data; clientset, scheme and
  registration, which build values once.
* The panic of the injection getters when the context lacks an informer: it happens at the first start or never.
* Events and log lines; views and tags of the metrics.
* Reasons and messages of conditions; the two `Mark` methods without a caller.
* Listing by selector, `DeleteCollection`, `ForResource`, option functions of the wiring, leader election of the operator itself.
* Update of a resource by the manifest client beyond "it exists and is owned by".
* A ConfigMap whose name does not start with `config-`: none is shipped.
* Exhaustive runs of `Reconciler` with two keys: they have too many states to be finished. The run with two
  keys looks for a violation.

## Plan

What is left is *conditions with reasons*, and the `Mark*` methods against the properties of the condition set.
