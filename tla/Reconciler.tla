----------------------------- MODULE Reconciler -----------------------------
(***************************************************************************)
(* The KnativeServing controller of the serving operator: the generated    *)
(* reconciler (pkg/client/injection/reconciler/.../reconciler.go), the      *)
(* operator's ReconcileKind and FinalizeKind                                *)
(* (pkg/reconciler/knativeserving/knativeserving.go), and what they talk    *)
(* to: the API server with its optimistic concurrency and finalizers, the   *)
(* informer whose cache lags behind it, the work queue, the resources of    *)
(* the release manifest, and the users.                                     *)
(*                                                                         *)
(* A key is the namespace/name of a KnativeServing, each in a namespace of  *)
(* its own.  A worker is identified with the key it works on: the work      *)
(* queue never hands one key to two workers.  Every request to the API      *)
(* server is one step; a read of the informer cache is taken in the step of *)
(* the request that follows it, because a cache that is read early and one  *)
(* that is updated late cannot be told apart.                               *)
(***************************************************************************)
EXTENDS Integers, Sequences, FiniteSets, Lifecycle

CONSTANTS
  Keys,         \* the namespace/name keys of the KnativeServings
  HomeKeys,     \* those in the namespace the release manifest is written for
  LegacyKeys,   \* those an earlier operator, without the generated reconciler, left
  NoKey,        \* the key of a KnativeServing without namespace and name
  Threads,      \* workers of the controller (DefaultThreadsPerController)
  RetrySteps,   \* attempts of RetryUpdateConflicts (retry.DefaultRetry.Steps)
  \* Bounds on what the environment does.
  MaxCreates,   \* incarnations of each key, the legacy one included
  MaxEdits,     \* edits of a spec
  MaxFaults,    \* requests that fail or lose their reply
  MaxRestarts,  \* crashes of the operator
  MaxFlips,     \* deployments that go down or are deleted
  MaxLag        \* changes of a key that the informer has yet to see

ASSUME KeysAssumption == NoKey \notin Keys /\ HomeKeys \subseteq Keys /\ LegacyKeys \subseteq Keys
ASSUME BoundsAssumption ==
  /\ Threads \in Nat \ {0} /\ RetrySteps \in Nat \ {0}
  /\ MaxCreates \in Nat /\ MaxEdits \in Nat /\ MaxFaults \in Nat
  /\ MaxRestarts \in Nat /\ MaxFlips \in Nat /\ MaxLag \in Nat \ {0}

-----------------------------------------------------------------------------
(* Finalizers.  The names sort as Manifest < Foreground < Default.          *)

ManifestFinalizer   == "delete-knative-serving-manifest"
ForegroundFinalizer == "foregroundDeletion"
DefaultFinalizer    == "knativeservings.operator.knative.dev"
Finalizers == {ManifestFinalizer, ForegroundFinalizer, DefaultFinalizer}

Has(fin, f) == \E i \in DOMAIN fin : fin[i] = f

\* sets.String.List(): the members of a set of finalizers in sorted order.
SortedList(S) ==
  LET only(f) == IF f \in S THEN <<f>> ELSE <<>>
  IN  only(ManifestFinalizer) \o only(ForegroundFinalizer) \o only(DefaultFinalizer)

SetOf(fin) == {f \in Finalizers : Has(fin, f)}

\* fin without its i-th member.
Without(fin, i) == [j \in 1 .. Len(fin) - 1 |-> IF j < i THEN fin[j] ELSE fin[j + 1]]

\* ensureFinalizer looks for its finalizer anywhere in the list ...
AnyFinalizerMutant(fin) == Len(fin) > 0
ManifestAttached(fin) == Has(fin, ManifestFinalizer)

\* ... delete acts only when it comes first.
ManifestAnywhereMutant(fin) == Has(fin, ManifestFinalizer)
ManifestFirst(fin) == Len(fin) > 0 /\ fin[1] = ManifestFinalizer

-----------------------------------------------------------------------------
(* KnativeServing objects, as stored by the API server, cached by the       *)
(* informer and held by a worker.  rv is the resource version, gen the      *)
(* generation, inc tells apart the objects that succeed each other under    *)
(* one key (their UIDs).                                                    *)

Phases == {"absent",     \* no object
           "live",       \* without a deletion timestamp
           "deleting",   \* with one
           "empty"}      \* the zero KnativeServing a failed Patch returns

Specs == {"valid", "invalid"}    \* whether the manifest transforms accept it
Versions == {"none", "old", "current"}

Statuses == [cond : Conditions, version : Versions]
NoStatus == [cond |-> NoConditions, version |-> "none"]

Objects == [phase : Phases, inc : Nat, rv : Nat, gen : Nat,
            fin : Seq(Finalizers), spec : Specs, status : Statuses]

Empty == [phase |-> "empty", inc |-> 0, rv |-> 0, gen |-> 0,
          fin |-> <<>>, spec |-> "valid", status |-> NoStatus]

\* What is left of an object when it is removed.
Gone(inc, rv) ==
  [phase |-> "absent", inc |-> inc, rv |-> rv, gen |-> 0,
   fin |-> <<>>, spec |-> "valid", status |-> NoStatus]

\* A new object, and one that is edited or marked for deletion: a change of the
\* spec and a deletion timestamp each make a new generation.
Created(inc, rv, spec) ==
  [phase |-> "live", inc |-> inc, rv |-> rv, gen |-> 1,
   fin |-> <<>>, spec |-> spec, status |-> NoStatus]

Edited(o, spec) ==
  [phase |-> o.phase, inc |-> o.inc, rv |-> o.rv, gen |-> o.gen + 1,
   fin |-> o.fin, spec |-> spec, status |-> o.status]

Marked(o, fin) ==
  [phase |-> "deleting", inc |-> o.inc, rv |-> o.rv, gen |-> o.gen + 1,
   fin |-> fin, spec |-> o.spec, status |-> o.status]

Exists(o) == o.phase \in {"live", "deleting"}

Bumped(o) == [o EXCEPT !.rv = @ + 1]

\* An object after a write: it gets a new resource version, and is removed
\* when it is being deleted and no finalizer is left.
Committed(o) ==
  IF o.phase = "deleting" /\ Len(o.fin) = 0
  THEN Gone(o.inc, o.rv + 1) ELSE Bumped(o)

LegacyStatus == [cond |-> [t \in ConditionTypes |-> "True"], version |-> "old"]
LegacyObject == [phase |-> "live", inc |-> 1, rv |-> 1, gen |-> 1,
                 fin |-> <<ManifestFinalizer>>, spec |-> "valid", status |-> LegacyStatus]

-----------------------------------------------------------------------------
(* The release manifest, one resource for each way a resource is treated,   *)
(* and the order in which resources are applied and deleted.  Deployments   *)
(* live in the namespace of the key and have the KnativeServing as their    *)
(* controller; the others are cluster-scoped and have no owner.             *)

Resources == {"crd", "role", "binding", "deployment", "webhook"}
ClusterResources == (Resources \ {"deployment"}) \cup {"obsolete"}

\* Resources of the manifest that an uninstall removes from the cluster.
Uninstalled == {"role", "binding", "webhook"}

BindingsFirstMutant == <<"binding">> \o <<"role">>
                       \o <<"crd", "role", "binding", "deployment", "webhook">>

\* Filter(role), Filter(rolebinding), then the whole manifest.
ApplyOrder == <<"role">> \o <<"binding">>
              \o <<"crd", "role", "binding", "deployment", "webhook">>

DeleteNoRBACMutant == <<"deployment">> \o <<"webhook", "deployment">>

\* Deployments, then what is neither a CRD nor RBAC, then RBAC; each in
\* reverse manifest order, and the deployments a second time.
DeleteOrder == <<"deployment">> \o <<"webhook", "deployment">> \o <<"binding", "role">>

DepStates == {"absent", "down", "up"}
NoOwner == 0

-----------------------------------------------------------------------------
VARIABLES
  api,       \* the API server's object of each key
  cache,     \* the informer's object of each key
  watch,     \* the changes of each key the informer has yet to see, in order
  queue,     \* the keys in the work queue
  pc,        \* where the worker of a key is
  orig,      \* its "original": the object as read from the lister
  res,       \* its "resource": the copy it reconciles
  todo,      \* the resources it still has to apply or delete
  err,       \* whether ReconcileKind or FinalizeKind has returned an error
  att,       \* attempts made at updating the status
  servings,  \* Reconciler.servings: the generation last reconciled of each key
  cluster,   \* the cluster-scoped resources that exist
  dep,       \* the deployments of each key and the incarnation owning them
  used       \* how much of each bound on the environment is used up

vars == <<api, cache, watch, queue, pc, orig, res, todo, err, att,
          servings, cluster, dep, used>>

worker  == <<pc, orig, res, todo, err, att>>
objects == <<api, cache, watch>>
manifest == <<cluster, dep>>

Stages == {"idle", "setFinalizer", "reconcileKind", "ensureFinalizer", "initStatus",
           "install", "checkDeployments", "deleteObsoleteResources",
           "finalizeKind", "delete", "release", "clearFinalizer",
           "syncStatus", "getStatus"}

NotServed == -1
ServingKeys == Keys \cup {NoKey}

Limit == [edit |-> MaxEdits, fault |-> MaxFaults,
          restart |-> MaxRestarts, flip |-> MaxFlips]
Spend(b) == used[b] < Limit[b] /\ used' = [used EXCEPT ![b] = @ + 1]

Init ==
  /\ api = [k \in Keys |-> IF k \in LegacyKeys THEN LegacyObject ELSE Gone(0, 0)]
  /\ cache = api
  /\ watch = [k \in Keys |-> <<>>]
  /\ queue = LegacyKeys
  /\ pc = [k \in Keys |-> "idle"]
  /\ orig = [k \in Keys |-> Empty]
  /\ res = [k \in Keys |-> Empty]
  /\ todo = [k \in Keys |-> <<>>]
  /\ err = [k \in Keys |-> FALSE]
  /\ att = [k \in Keys |-> 0]
  /\ servings = [k \in ServingKeys |-> NotServed]
  /\ cluster = IF LegacyKeys = {} THEN {} ELSE ClusterResources
  /\ dep = [k \in Keys |-> IF k \in LegacyKeys THEN [state |-> "up", owner |-> 1]
                                               ELSE [state |-> "absent", owner |-> NoOwner]]
  /\ used = [b \in DOMAIN Limit |-> 0]

-----------------------------------------------------------------------------
(* The API server.                                                          *)

\* The informer may lag behind, but only MaxLag changes.
Store(k, o) ==
  /\ Len(watch[k]) < MaxLag
  /\ api' = [api EXCEPT ![k] = o]
  /\ watch' = [watch EXCEPT ![k] = Append(@, o)]

\* A write of object o, made from a copy with resource version rv, and its
\* reply.  A failed request may have been carried out.
Write(k, rv, o, reply) ==
  \/ /\ reply = "ok"
     /\ Exists(api[k]) /\ api[k].rv = rv
     /\ Store(k, Committed(o))
     /\ UNCHANGED used
  \/ /\ reply = "conflict"
     /\ Exists(api[k]) /\ api[k].rv # rv
     /\ UNCHANGED <<api, watch, used>>
  \/ /\ reply = "notfound"
     /\ ~Exists(api[k])
     /\ UNCHANGED <<api, watch, used>>
  \/ /\ reply = "error"
     /\ Spend("fault")
     /\ \/ UNCHANGED <<api, watch>>
        \/ Exists(api[k]) /\ api[k].rv = rv /\ Store(k, Committed(o))

\* Users.
CreateCR(k, spec) ==
  /\ ~Exists(api[k]) /\ api[k].inc < MaxCreates
  /\ Store(k, Created(api[k].inc + 1, api[k].rv + 1, spec))
  /\ UNCHANGED <<cache, queue, worker, servings, manifest, used>>

EditSpec(k, spec) ==
  /\ Exists(api[k])
  /\ Spend("edit")
  /\ Store(k, Committed(Edited(api[k], spec)))
  /\ UNCHANGED <<cache, queue, worker, servings, manifest>>

\* With foreground propagation the object waits for its dependents.
DeleteCR(k, foreground) ==
  /\ api[k].phase = "live"
  /\ LET fin == IF foreground THEN Append(api[k].fin, ForegroundFinalizer) ELSE api[k].fin
     IN  Store(k, Committed(Marked(api[k], fin)))
  /\ UNCHANGED <<cache, queue, worker, servings, manifest, used>>

-----------------------------------------------------------------------------
(* Deployments and the garbage collector.                                   *)

\* A change of a deployment enqueues the KnativeServing that controls it, if it
\* passes the filter in front of EnqueueControllerOf.  That does not know the
\* DeletedFinalStateUnknown which the informer makes of a deployment that went
\* while its watch was broken: of those that are gone any may go unnoticed.
EnqueueControllerOf(keys, gone) ==
  \E noticed \in SUBSET keys :
    /\ gone \/ noticed = keys
    /\ queue' = queue \cup noticed

SetDeployment(k, state) ==
  /\ dep' = [dep EXCEPT ![k].state = state]
  /\ EnqueueControllerOf({k}, state = "absent")

DeploymentUp(k) ==
  /\ dep[k].state = "down"
  /\ SetDeployment(k, "up")
  /\ UNCHANGED <<objects, worker, servings, cluster, used>>

DeploymentLost(k, state) ==
  /\ dep[k].state # "absent" /\ dep[k].state # state
  /\ Spend("flip")
  /\ SetDeployment(k, state)
  /\ UNCHANGED <<objects, worker, servings, cluster>>

OwnedBy(d, o) == Exists(o) /\ d.owner = o.inc

CollectDeployment(k) ==
  /\ dep[k].state # "absent" /\ dep[k].owner # NoOwner
  /\ OwnedBy(dep[k], api[k]) => Has(api[k].fin, ForegroundFinalizer)
  /\ SetDeployment(k, "absent")
  /\ UNCHANGED <<objects, worker, servings, cluster, used>>

ForegroundDone(k) ==
  /\ Exists(api[k])
  /\ dep[k].state = "absent" \/ ~OwnedBy(dep[k], api[k])
  /\ \E i \in DOMAIN api[k].fin :
       /\ api[k].fin[i] = ForegroundFinalizer
       /\ Store(k, Committed([api[k] EXCEPT !.fin = Without(@, i)]))
  /\ UNCHANGED <<cache, queue, worker, servings, manifest, used>>

-----------------------------------------------------------------------------
(* The informer.                                                            *)

WatchEvent(k) ==
  /\ Len(watch[k]) > 0
  /\ cache' = [cache EXCEPT ![k] = Head(watch[k])]
  /\ watch' = [watch EXCEPT ![k] = Tail(@)]
  /\ queue' = queue \cup {k}
  /\ UNCHANGED <<api, worker, servings, manifest, used>>

\* A watch that broke off: the informer lists and misses what was in between.
Relist(k) ==
  /\ cache[k] # api[k]
  /\ cache' = [cache EXCEPT ![k] = api[k]]
  /\ watch' = [watch EXCEPT ![k] = <<>>]
  /\ queue' = queue \cup {k}
  /\ UNCHANGED <<api, worker, servings, manifest, used>>

\* Every resync period the cached objects are handed to the event handlers.
Resync(k) ==
  /\ Exists(cache[k]) /\ k \notin queue
  /\ queue' = queue \cup {k}
  /\ UNCHANGED <<objects, worker, servings, manifest, used>>

-----------------------------------------------------------------------------
(* The generated reconciler: from the work queue to ReconcileKind or         *)
(* FinalizeKind.                                                            *)

At(k, stage) == pc[k] = stage
Goto(k, stage) == pc' = [pc EXCEPT ![k] = stage]
SetRes(k, o) == res' = [res EXCEPT ![k] = o]
SetErr(k, e) == err' = [err EXCEPT ![k] = e]

Requeue(k, failed) == IF failed THEN queue \cup {k} ELSE queue

\* The worker returns; handleErr puts a key that failed back into the queue.
Done(k, failed) ==
  /\ Goto(k, "idle")
  /\ orig' = [orig EXCEPT ![k] = Empty]
  /\ SetRes(k, Empty)
  /\ todo' = [todo EXCEPT ![k] = <<>>]
  /\ SetErr(k, FALSE)
  /\ att' = [att EXCEPT ![k] = 0]
  /\ queue' = Requeue(k, failed)

Busy == {k \in Keys : pc[k] # "idle"}

Reconcile(k) ==
  /\ At(k, "idle") /\ k \in queue /\ Cardinality(Busy) < Threads
  /\ queue' = queue \ {k}
  /\ IF Exists(cache[k])
     THEN /\ Goto(k, IF cache[k].phase = "live" THEN "setFinalizer" ELSE "finalizeKind")
          /\ orig' = [orig EXCEPT ![k] = cache[k]]
          /\ SetRes(k, cache[k])
     ELSE UNCHANGED <<pc, orig, res>>
  /\ UNCHANGED <<objects, todo, err, att, servings, manifest, used>>

\* Brings the default finalizer of the stored object in line with that of
\* resource (desired), by a patch of what the lister has.  The patch's reply
\* replaces resource; if it fails that is the zero KnativeServing, and a new
\* finalizer on an object being deleted is refused.
UpdateFinalizersFiltered(k, resource) ==
  LET existing == cache[k]
      desired  == Has(resource.fin, DefaultFinalizer)
      fin == IF desired THEN Append(existing.fin, DefaultFinalizer)
             ELSE SortedList(SetOf(existing.fin) \ {DefaultFinalizer})
      patched == [api[k] EXCEPT !.fin = fin]
  IN  \/ /\ ~Exists(existing) \/ desired = Has(existing.fin, DefaultFinalizer)
         /\ SetRes(k, resource)
         /\ UNCHANGED <<api, watch, used>>
      \/ /\ Exists(existing) /\ desired # Has(existing.fin, DefaultFinalizer)
         /\ \/ /\ ~(desired /\ api[k].phase = "deleting")
               /\ \E reply \in {"ok", "conflict", "notfound", "error"} :
                    /\ Write(k, existing.rv, patched, reply)
                    /\ SetRes(k, IF reply = "ok" THEN Bumped(patched) ELSE Empty)
            \/ /\ desired /\ api[k].phase = "deleting"
               /\ SetRes(k, Empty)
               /\ UNCHANGED <<api, watch, used>>

\* A failure is only logged: ReconcileKind runs on whatever came back.
SetFinalizer(k) ==
  /\ At(k, "setFinalizer")
  /\ LET marked == SortedList(SetOf(res[k].fin) \cup {DefaultFinalizer})
     IN  UpdateFinalizersFiltered(k, [res[k] EXCEPT !.fin = marked])
  /\ Goto(k, "reconcileKind")
  /\ UNCHANGED <<cache, queue, orig, todo, err, att, servings, manifest>>

-----------------------------------------------------------------------------
(* ReconcileKind and its stages.                                            *)

KeyOf(k) == IF res[k].phase = "empty" THEN NoKey ELSE k

SetCond(k, c) == SetRes(k, [res[k] EXCEPT !.status.cond = c])

NotNewerMutant(gen, served) == gen <= served

\* The generation of an object against the one remembered under its name.
Outdated(gen, served) == gen < served

\* The generation check, then the transform of the manifest.
ReconcileKind(k) ==
  /\ At(k, "reconcileKind")
  /\ LET obsolete == Outdated(res[k].gen, servings[KeyOf(k)])
         refused  == obsolete \/ res[k].spec = "invalid"
     IN  /\ servings' = IF obsolete THEN servings
                        ELSE [servings EXCEPT ![KeyOf(k)] = res[k].gen]
         /\ IF ~obsolete /\ res[k].spec = "invalid"
            THEN SetCond(k, MarkInstallFailed(res[k].status.cond)) ELSE UNCHANGED res
         /\ SetErr(k, refused)
         /\ Goto(k, IF refused THEN "syncStatus" ELSE "ensureFinalizer")
  /\ UNCHANGED <<objects, queue, orig, todo, att, manifest, used>>

\* The reply of Update is dropped: res keeps its old resource version.  A
\* client without a name to update fails before it sends the request.
EnsureFinalizer(k) ==
  /\ At(k, "ensureFinalizer")
  /\ \/ /\ ManifestAttached(res[k].fin)
        /\ Goto(k, "initStatus")
        /\ UNCHANGED <<api, watch, res, err, used>>
     \/ /\ ~ManifestAttached(res[k].fin)
        /\ LET fin == Append(res[k].fin, ManifestFinalizer)
           IN  /\ SetRes(k, [res[k] EXCEPT !.fin = fin])
               /\ \E reply \in {"ok", "conflict", "notfound", "error"} :
                    /\ IF res[k].phase = "empty"
                       THEN reply = "error" /\ UNCHANGED <<api, watch, used>>
                       ELSE Write(k, res[k].rv, [api[k] EXCEPT !.fin = fin], reply)
                    /\ SetErr(k, reply # "ok")
                    /\ Goto(k, IF reply = "ok" THEN "initStatus" ELSE "syncStatus")
  /\ UNCHANGED <<cache, queue, orig, todo, att, servings, manifest>>

\* The conditions are initialized in res before the update is tried.
InitStatus(k) ==
  /\ At(k, "initStatus")
  /\ LET status == [res[k].status EXCEPT !.cond = InitializeConditions(@)]
         stored == [api[k] EXCEPT !.status = status]
     IN  \/ /\ res[k].status.cond # NoConditions
            /\ Goto(k, "install") /\ todo' = [todo EXCEPT ![k] = ApplyOrder]
            /\ UNCHANGED <<api, watch, res, err, used>>
         \/ /\ res[k].status.cond = NoConditions
            /\ \E reply \in {"ok", "conflict", "notfound", "error"} :
                 /\ Write(k, res[k].rv, stored, reply)
                 /\ SetErr(k, reply # "ok")
                 /\ IF reply = "ok"
                    THEN /\ SetRes(k, Bumped(stored))
                         /\ Goto(k, "install") /\ todo' = [todo EXCEPT ![k] = ApplyOrder]
                    ELSE /\ SetRes(k, [res[k] EXCEPT !.status = status])
                         /\ Goto(k, "syncStatus") /\ UNCHANGED todo
  /\ UNCHANGED <<cache, queue, orig, att, servings, manifest>>

ApplyUnownedMutant(k, r) ==
  IF r = "deployment"
  THEN /\ dep' = [dep EXCEPT ![k].state = IF @ = "absent" THEN "down" ELSE @]
       /\ UNCHANGED <<cluster, queue>>
  ELSE cluster' = cluster \cup {r} /\ UNCHANGED <<dep, queue>>

ApplyClusterScopedMutant(k, r) == cluster' = cluster \cup {r} /\ UNCHANGED <<dep, queue>>

\* manifestival creates or updates one resource; InjectOwner makes the
\* KnativeServing the controller of its deployments.
ApplyResource(k, r) ==
  IF r = "deployment"
  THEN /\ dep' = [dep EXCEPT ![k] = [state |-> IF @.state = "absent" THEN "down" ELSE @.state,
                                     owner |-> res[k].inc]]
       /\ queue' = IF dep' = dep THEN queue ELSE queue \cup {k}
       /\ UNCHANGED cluster
  ELSE cluster' = cluster \cup {r} /\ UNCHANGED <<dep, queue>>

Installed(status) == [cond |-> MarkInstallSucceeded(status.cond), version |-> "current"]

Install(k) ==
  /\ At(k, "install")
  /\ \/ /\ ApplyResource(k, Head(todo[k]))
        /\ todo' = [todo EXCEPT ![k] = Tail(@)]
        /\ IF Len(todo[k]) = 1
           THEN /\ SetRes(k, [res[k] EXCEPT !.status = Installed(@)])
                /\ Goto(k, "checkDeployments")
           ELSE UNCHANGED <<res, pc>>
        /\ UNCHANGED <<err, used>>
     \/ /\ Spend("fault")
        /\ ApplyResource(k, Head(todo[k])) \/ UNCHANGED <<manifest, queue>>
        /\ SetCond(k, MarkInstallFailed(res[k].status.cond))
        /\ todo' = [todo EXCEPT ![k] = <<>>]
        /\ SetErr(k, TRUE) /\ Goto(k, "syncStatus")
  /\ UNCHANGED <<objects, orig, att, servings>>

CheckDeployments(k) ==
  /\ At(k, "checkDeployments")
  /\ \/ /\ SetCond(k, IF dep[k].state = "up"
                      THEN MarkDeploymentsAvailable(res[k].status.cond)
                      ELSE MarkDeploymentsNotReady(res[k].status.cond))
        /\ Goto(k, "deleteObsoleteResources")
        /\ UNCHANGED <<err, used>>
     \/ /\ Spend("fault")
        /\ SetCond(k, MarkDeploymentsNotReady(res[k].status.cond))
        /\ SetErr(k, TRUE) /\ Goto(k, "syncStatus")
  /\ UNCHANGED <<objects, queue, orig, todo, att, servings, manifest>>

DeleteObsoleteResources(k) ==
  /\ At(k, "deleteObsoleteResources")
  /\ \/ /\ cluster' = cluster \ {"obsolete"}
        /\ UNCHANGED <<err, used>>
     \/ /\ Spend("fault")
        /\ cluster' \in {cluster, cluster \ {"obsolete"}}
        /\ SetErr(k, TRUE)
  /\ Goto(k, "syncStatus")
  /\ UNCHANGED <<objects, queue, orig, res, todo, att, servings, dep>>

-----------------------------------------------------------------------------
(* FinalizeKind and delete.                                                 *)

Unserve(s, k) == [s EXCEPT ![k] = NotServed]

\* The manifest is deleted when no other KnativeServing is being served.
FinalizeKind(k) ==
  /\ At(k, "finalizeKind")
  /\ servings' = Unserve(servings, k)
  /\ IF ManifestFirst(res[k].fin)
     THEN IF \A j \in ServingKeys : servings'[j] = NotServed
          THEN Goto(k, "delete") /\ todo' = [todo EXCEPT ![k] = DeleteOrder]
          ELSE Goto(k, "release") /\ UNCHANGED todo
     ELSE Goto(k, "clearFinalizer") /\ UNCHANGED todo
  /\ UNCHANGED <<objects, queue, orig, res, err, att, manifest, used>>

\* The manifest is deleted as it was read: its deployments are those of the
\* home namespace.
DeleteResource(r) ==
  IF r = "deployment"
  THEN /\ dep' = [j \in Keys |-> IF j \in HomeKeys THEN [dep[j] EXCEPT !.state = "absent"]
                                                   ELSE dep[j]]
       /\ EnqueueControllerOf({j \in HomeKeys : dep[j].state # "absent"}, TRUE)
       /\ UNCHANGED cluster
  ELSE cluster' = cluster \ {r} /\ UNCHANGED <<dep, queue>>

Delete(k) ==
  /\ At(k, "delete")
  /\ \/ /\ DeleteResource(Head(todo[k]))
        /\ todo' = [todo EXCEPT ![k] = Tail(@)]
        /\ IF Len(todo[k]) = 1 THEN Goto(k, "release") ELSE UNCHANGED pc
        /\ UNCHANGED <<err, used>>
     \/ /\ Spend("fault")
        /\ DeleteResource(Head(todo[k])) \/ UNCHANGED <<manifest, queue>>
        /\ todo' = [todo EXCEPT ![k] = <<>>]
        /\ SetErr(k, TRUE) /\ Goto(k, "clearFinalizer")
  /\ UNCHANGED <<objects, orig, res, att, servings>>

\* delete fetches the object again, from the lister, and takes off its first
\* finalizer: in the lister's own copy.
Release(k) ==
  /\ At(k, "release")
  /\ \/ /\ ~Exists(cache[k])
        /\ SetErr(k, TRUE)
        /\ UNCHANGED <<objects, used>>
     \/ /\ Exists(cache[k])
        /\ LET fin == Tail(cache[k].fin)
           IN  /\ cache' = [cache EXCEPT ![k].fin = fin]
               /\ \E reply \in {"ok", "conflict", "notfound", "error"} :
                    /\ Write(k, cache[k].rv, [api[k] EXCEPT !.fin = fin], reply)
                    /\ SetErr(k, reply # "ok")
  /\ Goto(k, "clearFinalizer")
  /\ UNCHANGED <<queue, orig, res, todo, att, servings, manifest>>

GivenUpMutant(failed) == IF failed THEN {DefaultFinalizer} ELSE {}
GivenUp(failed) == IF failed THEN {} ELSE {DefaultFinalizer}

\* The default finalizer is given up unless FinalizeKind failed.
ClearFinalizer(k) ==
  /\ At(k, "clearFinalizer")
  /\ LET kept == SortedList(SetOf(res[k].fin) \ GivenUp(err[k]))
     IN  UpdateFinalizersFiltered(k, [res[k] EXCEPT !.fin = kept])
  /\ Goto(k, "syncStatus")
  /\ UNCHANGED <<cache, queue, orig, todo, err, att, servings, manifest>>

-----------------------------------------------------------------------------
(* The generated reconciler: updateStatus.                                  *)

\* Writes the status of res over that of orig, which the first time is the
\* lister's object and afterwards the one GetStatus fetched.
SyncStatus(k) ==
  /\ At(k, "syncStatus")
  /\ \/ /\ orig[k].status = res[k].status
        /\ Done(k, err[k])
        /\ UNCHANGED <<api, watch, used>>
     \/ /\ orig[k].status # res[k].status
        /\ \E reply \in {"ok", "conflict", "notfound", "error"} :
             /\ Write(k, orig[k].rv, [api[k] EXCEPT !.status = res[k].status], reply)
             /\ IF reply = "conflict" /\ att[k] + 1 < RetrySteps
                THEN /\ Goto(k, "getStatus")
                     /\ att' = [att EXCEPT ![k] = @ + 1]
                     /\ UNCHANGED <<queue, orig, res, todo, err>>
                ELSE Done(k, err[k] \/ reply # "ok")
  /\ UNCHANGED <<cache, servings, manifest>>

\* Gets the object by the name of res.
GetStatus(k) ==
  /\ At(k, "getStatus")
  /\ \/ /\ res[k].phase # "empty" /\ Exists(api[k])
        /\ orig' = [orig EXCEPT ![k] = api[k]]
        /\ Goto(k, "syncStatus")
        /\ UNCHANGED <<queue, res, todo, err, att, used>>
     \/ /\ res[k].phase = "empty" \/ ~Exists(api[k])
        /\ Done(k, TRUE)
        /\ UNCHANGED used
     \/ /\ res[k].phase # "empty" /\ Spend("fault")
        /\ Done(k, TRUE)
  /\ UNCHANGED <<objects, servings, manifest>>

-----------------------------------------------------------------------------
(* A crash: what the operator keeps in memory is lost; the new one lists    *)
(* the objects and enqueues them.                                           *)

Restart ==
  /\ Spend("restart")
  /\ cache' = api
  /\ watch' = [k \in Keys |-> <<>>]
  /\ queue' = {k \in Keys : Exists(api[k])}
  /\ pc' = [k \in Keys |-> "idle"]
  /\ orig' = [k \in Keys |-> Empty]
  /\ res' = [k \in Keys |-> Empty]
  /\ todo' = [k \in Keys |-> <<>>]
  /\ err' = [k \in Keys |-> FALSE]
  /\ att' = [k \in Keys |-> 0]
  /\ servings' = [k \in ServingKeys |-> NotServed]
  /\ UNCHANGED <<api, manifest>>

-----------------------------------------------------------------------------
WorkerStep(k) ==
  \/ SetFinalizer(k) \/ ReconcileKind(k) \/ EnsureFinalizer(k) \/ InitStatus(k)
  \/ Install(k) \/ CheckDeployments(k) \/ DeleteObsoleteResources(k)
  \/ FinalizeKind(k) \/ Delete(k) \/ Release(k) \/ ClearFinalizer(k)
  \/ SyncStatus(k) \/ GetStatus(k)

Environment(k) ==
  \/ \E spec \in Specs : CreateCR(k, spec) \/ EditSpec(k, spec)
  \/ \E foreground \in BOOLEAN : DeleteCR(k, foreground)
  \/ DeploymentUp(k) \/ CollectDeployment(k) \/ ForegroundDone(k)
  \/ \E state \in {"absent", "down"} : DeploymentLost(k, state)

Informer(k) == WatchEvent(k) \/ Relist(k) \/ Resync(k)

Next ==
  \/ \E k \in Keys : Environment(k) \/ Informer(k) \/ Reconcile(k) \/ WorkerStep(k)
  \/ Restart

Spec == Init /\ [][Next]_vars

\* The workers run, the watch delivers, the cluster brings deployments up and
\* its garbage collector works; nobody is bound to act, and nothing to fail.
FairSpec ==
  /\ Spec
  /\ \A k \in Keys :
       /\ WF_vars(Reconcile(k)) /\ WF_vars(WorkerStep(k)) /\ WF_vars(WatchEvent(k))
       /\ WF_vars(DeploymentUp(k)) /\ WF_vars(CollectDeployment(k)) /\ WF_vars(ForegroundDone(k))

\* The same, with the informer's periodic resync counted on.
ResyncSpec == FairSpec /\ \A k \in Keys : WF_vars(Resync(k))

-----------------------------------------------------------------------------
(* Properties.                                                              *)

\* The variables have their types; the copies a worker holds are those of an
\* object, or of the zero KnativeServing of a failed Patch.
TypeOK ==
  /\ api \in [Keys -> Objects] /\ cache \in [Keys -> Objects]
  /\ watch \in [Keys -> Seq(Objects)]
  /\ queue \subseteq Keys
  /\ pc \in [Keys -> Stages]
  /\ orig \in [Keys -> Objects] /\ res \in [Keys -> Objects]
  /\ todo \in [Keys -> Seq(Resources)]
  /\ err \in [Keys -> BOOLEAN] /\ att \in [Keys -> Nat]
  /\ servings \in [ServingKeys -> Int]
  /\ cluster \subseteq ClusterResources
  /\ dep \in [Keys -> [state : DepStates, owner : Nat]]
  /\ used \in [DOMAIN Limit -> Nat]

\* Nothing of the manifest is applied, and no obsolete resource deleted, for a
\* KnativeServing that could vanish before FinalizeKind has seen it: whenever a
\* worker is past ensureFinalizer, the stored object is still the one it works
\* on and carries the manifest finalizer, however stale the worker's copy is.
InstallIsProtected ==
  \A k \in Keys :
    pc[k] \in {"initStatus", "install", "checkDeployments", "deleteObsoleteResources"} =>
      Exists(api[k]) /\ api[k].inc = res[k].inc /\ Has(api[k].fin, ManifestFinalizer)

\* The Ready condition of a stored KnativeServing sums up the other three, however
\* many workers, attempts and generations its conditions have come from.
SumsUp(c) == c # NoConditions => c[Ready] = Happiness(c)
ReadySumsUp == \A k \in Keys : SumsUp(api[k].status.cond)

\* A KnativeServing that reports Ready has the manifest finalizer: deleting it
\* goes through FinalizeKind.  Under a key that an earlier operator left this
\* may fail as ReadyMeansInstalled does.
ReadyIsProtected ==
  \A k \in Keys \ LegacyKeys : api[k].phase = "live" /\ IsTrue(api[k].status.cond, Ready) =>
    Has(api[k].fin, ManifestFinalizer)

\* A KnativeServing that reports Ready, and is not being deleted, has its
\* manifest in the cluster: no uninstall for an earlier object of that name,
\* and no status computed for one, outlives it.
ReadyMeansInstalled ==
  \A k \in Keys : api[k].phase = "live" /\ IsTrue(api[k].status.cond, Ready) =>
    Uninstalled \subseteq cluster

\* When delete fetches the object again it still has the manifest finalizer, and
\* has it first: slicing off the first finalizer neither panics on an empty
\* list nor takes away somebody else's.
RefetchSafe ==
  \A k \in Keys : pc[k] = "release" /\ Exists(cache[k]) =>
    Len(cache[k].fin) > 0 /\ Head(cache[k].fin) = ManifestFinalizer

\* A KnativeServing is let go, by taking off its manifest finalizer, only when
\* the manifest has been removed or the operator believes that it still serves
\* another KnativeServing.
ReleaseAfterUninstall ==
  [][\A k \in Keys :
       Has(api[k].fin, ManifestFinalizer) /\ ~Has(api'[k].fin, ManifestFinalizer) =>
         cluster \cap Uninstalled = {} \/ \E j \in ServingKeys \ {k} : servings[j] # NotServed]_vars

\* install binds no role that does not exist.
BindOnlyExistingRoles ==
  [][cluster' # cluster /\ "binding" \in cluster' => "role" \in cluster]_vars

LeftAlone(k, spec) == api[k].phase = "live" /\ api[k].spec = spec

\* Not refused for the generation of a predecessor that servings still has.
NotOutdated(k) == servings[k] <= api[k].gen

SaysReady(k) ==
  /\ IsTrue(api[k].status.cond, Ready) /\ api[k].status.version = "current"
  /\ dep[k].state = "up" /\ "obsolete" \notin cluster

SaysFailed(k) == api[k].status.cond[InstallSucceeded] = "False" /\ api[k].status.cond[Ready] = "False"

\* A KnativeServing that is left alone comes to say how it is: Ready, of this
\* operator's version, with its deployments up and rid of obsolete resources if
\* its spec is valid, failed if it is not.  The exception is the successor of an
\* object whose generation servings has not forgotten: it is refused as obsolete.
StatusConverges ==
  \A k \in Keys :
    /\ <>[](LeftAlone(k, "valid") /\ NotOutdated(k)) => <>[]SaysReady(k)
    /\ <>[](LeftAlone(k, "invalid") /\ NotOutdated(k)) => <>[]SaysFailed(k)

\* A KnativeServing that is being deleted goes away, as it can do nothing else
\* once it is no longer being deleted: no deletion hangs for ever.
DeletionCompletes == \A k \in Keys : []<>(api[k].phase # "deleting")

\* The deployments of a KnativeServing that is gone go too, those of a namespace
\* that delete does not look at included.
DeploymentsRemoved ==
  \A k \in Keys : []<>(Exists(api[k]) \/ dep[k].state = "absent")

\* Once the last KnativeServing is gone, so are its cluster-scoped resources.
UninstallComplete ==
  (\A k \in Keys : ~Exists(api[k])) => cluster \cap Uninstalled = {}

=============================================================================
