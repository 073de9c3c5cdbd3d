------------------------------- MODULE Startup -------------------------------
(***************************************************************************)
(* How the process comes up: main in cmd/manager/main.go, the constructors  *)
(* NewControllerWithConfig (pkg/reconciler/knativeserving/controller.go)    *)
(* and NewImpl (the generated controller.go), which take informers and      *)
(* listers from the informer factory and register event handlers, and what  *)
(* knative.dev/pkg does with them: it runs the informers, waits until they  *)
(* have synced and runs the workers.                                        *)
(*                                                                         *)
(* The informer factory is that of Informers, with main as its only caller; *)
(* it stands for two, as deployments have their informer from a factory of   *)
(* the same make in knative.dev/pkg.                                        *)
(* A KnativeServing is its version, a number that grows with every change,  *)
(* or Missing.  The informer of KnativeServings has them in store, and      *)
(* hands changes to its handlers by way of pending.  Deployments are those  *)
(* a KnativeServing controls, taken together.                               *)
(***************************************************************************)
EXTENDS Informers, Integers, FiniteSets

CONSTANTS
  Keys,        \* the namespace/name keys of the KnativeServings
  Main,        \* the goroutine of main
  Serving, Deployment,  \* the two types of which there are informers
  Threads,     \* workers of the controller
  \* Bounds on the environment.
  Changing,    \* the keys whose KnativeServing or deployments change
  MaxChanges,  \* changes of KnativeServings and of deployments
  MaxFaults    \* reconciliations that fail, and crashes

ASSUME MainAssumption == Main \in Callers /\ Types = {Serving, Deployment} /\ Serving # Deployment
ASSUME BoundsAssumption ==
  /\ Threads \in Nat \ {0}
  /\ Changing \subseteq Keys /\ MaxChanges \in Nat /\ MaxFaults \in Nat

VARIABLES
  api,        \* the KnativeServings stored
  deployed,   \* the keys that have deployments
  changes, faults, \* used up of the bounds
  lasting,    \* the keys whose KnativeServing is as old as this process, or older
  store,      \* the KnativeServings the informer has cached
  pending,    \* changes on their way to the handlers: [type, key, tombstone]
  stage,      \* how far main is
  holder,     \* the informers behind what main has set up, by role
  queue,      \* the keys in the work queue
  reading,    \* of each key the version its worker has read, or NotTaken
  seen,       \* the version last reconciled by this process
  unattended, \* the keys whose deployments changed since a worker took them
  missed      \* those whose deployments went while their watch was broken

world == <<api, deployed, changes, faults, lasting>>
watched == <<store, pending>>
main == <<stage, holder>>
workers == <<queue, reading, seen, unattended, missed>>
vars == <<informerVars, world, watched, main, workers>>

Missing == 0
NotTaken == -1

-----------------------------------------------------------------------------
(* What main asks of the factory, in order, and what for.                   *)

Use(role, type) == [role |-> role, type |-> type]

SetupInformers == <<Use("setup", Serving), Use("setupDeployments", Deployment)>>

NewControllerWithConfig ==
  <<Use("knativeServingLister", Serving),  \* of Reconciler
    Use("Lister", Serving),                \* NewImpl: of reconcilerImpl
    Use("handler", Serving),               \* AddEventHandler
    Use("deploymentHandler", Deployment)>>

Script == SetupInformers \o NewControllerWithConfig
Roles == {Script[i].role : i \in DOMAIN Script}

StartInformers == Len(Script) + 1
WaitForSync == Len(Script) + 2
StartAll == Len(Script) + 3

Nowhere == [r \in Roles |-> None]
NoVersions == [k \in Keys |-> Missing]
NothingTaken == [k \in Keys |-> NotTaken]
Stored == {k \in Keys : api[k] # Missing}

StartupInit ==
  /\ Init
  /\ api \in [Keys -> {Missing, 1}] /\ deployed \in SUBSET Keys
  /\ changes = 0 /\ faults = 0
  /\ lasting = Stored
  /\ store = NoVersions /\ pending = {}
  /\ stage = 1 /\ holder = Nowhere
  /\ queue = {} /\ reading = NothingTaken /\ seen = NoVersions
  /\ unattended = deployed /\ missed = {}

-----------------------------------------------------------------------------
(* The cluster.                                                             *)

ChangeServing(k, v) ==
  /\ changes < MaxChanges /\ changes' = changes + 1
  /\ api[k] # v
  /\ api' = [api EXCEPT ![k] = v]
  /\ lasting' = IF v = Missing THEN lasting \ {k} ELSE lasting
  /\ UNCHANGED <<informerVars, deployed, faults, watched, main, workers>>

\* A change an informer sees goes to the handler registered with it.  The object
\* of a deletion that the watch did not show is not known: what the handler gets
\* in its place, a DeletedFinalStateUnknown, is the tombstone.
Handled(i, type, keys, tombstone) ==
  LET role == IF type = Serving THEN "handler" ELSE "deploymentHandler"
  IN  IF holder[role] = i THEN [type : {type}, key : keys, tombstone : {tombstone}] ELSE {}

SyncedOf(type) == {i \in DOMAIN pool : pool[i].type = type /\ pool[i].synced}

Told(type, k, tombstone) == UNION {Handled(i, type, {k}, tombstone) : i \in SyncedOf(type)}

ChangeDeployment(k) ==
  /\ changes < MaxChanges /\ changes' = changes + 1
  /\ deployed' = deployed \cup {k}
  /\ unattended' = unattended \cup {k}
  /\ pending' = pending \cup Told(Deployment, k, FALSE)
  /\ UNCHANGED <<informerVars, api, faults, lasting, store, main, queue, reading, seen, missed>>

\* Before the informer has listed the deployments it will never know of one that
\* goes; afterwards the watch shows that it has gone, or the list made anew.
DeleteDeployment(k) ==
  /\ changes < MaxChanges /\ changes' = changes + 1
  /\ k \in deployed /\ deployed' = deployed \ {k}
  /\ \/ /\ SyncedOf(Deployment) = {}
        /\ unattended' = unattended \ {k}
        /\ UNCHANGED <<pending, missed>>
     \/ /\ SyncedOf(Deployment) # {}
        /\ unattended' = unattended \cup {k}
        /\ pending' = pending \cup Told(Deployment, k, FALSE)
        /\ UNCHANGED missed
     \/ /\ SyncedOf(Deployment) # {}
        /\ missed' = missed \cup {k}
        /\ pending' = pending \cup Told(Deployment, k, TRUE)
        /\ UNCHANGED unattended
  /\ UNCHANGED <<informerVars, api, faults, lasting, store, main, queue, reading, seen>>

-----------------------------------------------------------------------------
(* main.                                                                    *)

\* Get(ctx), then Informer() or Lister(): either asks the factory.
Ask ==
  /\ stage <= Len(Script)
  /\ InformerFor(Main, Script[stage].type)
  /\ UNCHANGED <<world, watched, main, workers>>

\* The factory answers; a handler is registered with the informer it gave.
Answer ==
  /\ Lookup(Main) \/ Create(Main)
  /\ IF pc'[Main] = "idle"
     THEN /\ holder' = [holder EXCEPT ![Script[stage].role] = holds'[Main][Script[stage].type]]
          /\ stage' = stage + 1
     ELSE UNCHANGED main
  /\ UNCHANGED <<world, watched, workers>>

SetUp == {holder["setup"], holder["setupDeployments"]}

\* StartInformers of knative.dev/pkg runs those of SetupInformers itself ...
RunInformers ==
  /\ stage = StartInformers /\ stage' = WaitForSync
  /\ pool' = [i \in DOMAIN pool |->
                IF i \in SetUp THEN [pool[i] EXCEPT !.runs = @ + 1] ELSE pool[i]]
  /\ UNCHANGED <<lock, informers, startedInformers, stopped, caller,
                 world, watched, holder, workers>>

AnySyncedMutant == \E i \in SetUp : pool[i].synced
AllSynced == \A i \in SetUp : pool[i].synced

\* ... and waits for all of them; then StartAll runs the workers.
Started ==
  /\ stage = WaitForSync /\ AllSynced
  /\ stage' = StartAll
  /\ UNCHANGED <<informerVars, world, watched, holder, workers>>

-----------------------------------------------------------------------------
(* The informers.                                                           *)

\* The first list fills the cache; every object in it is an Add event.
List(i) ==
  /\ Sync(i)
  /\ \/ /\ pool[i].type = Serving
        /\ store' = api
        /\ pending' = pending \cup Handled(i, Serving, Stored, FALSE)
     \/ /\ pool[i].type = Deployment
        /\ pending' = pending \cup Handled(i, Deployment, deployed, FALSE)
        /\ UNCHANGED store
  /\ UNCHANGED <<world, main, workers>>

\* The watch of the KnativeServings; what changes twice may be seen once.
Observe(k) ==
  /\ SyncedOf(Serving) # {} /\ store[k] # api[k]
  /\ store' = [store EXCEPT ![k] = api[k]]
  /\ pending' = pending \cup Told(Serving, k, FALSE)
  /\ UNCHANGED <<informerVars, world, main, workers>>

\* controller.Filter, which only the deployments have in front of their handler,
\* lets through what a KnativeServing controls, but no tombstone.
FilterFunc(e) == e.type = Serving \/ ~e.tombstone

\* On its way to a worker, as a tombstone of a deployment is not.
Coming(k) == k \in queue \/ \E e \in pending : e.key = k /\ FilterFunc(e)

\* Every resync period what an informer has goes to the handlers once more; for a key
\* that is on its way anyhow it makes no difference.
Resync(type, k) ==
  /\ IF type = Serving THEN store[k] # Missing ELSE k \in deployed
  /\ SyncedOf(type) # {} /\ ~Coming(k)
  /\ pending' = pending \cup Told(type, k, FALSE)
  /\ UNCHANGED <<informerVars, world, store, main, workers>>

ServingsOnlyMutant(e) == IF e.type = Serving THEN {e.key} ELSE {}
UpdatesIgnoredMutant(e) ==
  IF ~FilterFunc(e) \/ (e.type = Serving /\ seen[e.key] # Missing) THEN {} ELSE {e.key}

\* HandleAll(impl.Enqueue), of additions, updates and deletions alike; and, for
\* deployments, EnqueueControllerOf.
Enqueued(e) == IF FilterFunc(e) THEN {e.key} ELSE {}

Deliver(e) ==
  /\ e \in pending
  /\ pending' = pending \ {e}
  /\ queue' = queue \cup Enqueued(e)
  /\ UNCHANGED <<informerVars, world, store, main, reading, seen, unattended, missed>>

-----------------------------------------------------------------------------
(* The workers.                                                             *)

Busy == {k \in Keys : reading[k] # NotTaken}

\* Reconcile gets the object from the lister of reconcilerImpl.
Read(k) == IF pool[holder["Lister"]].synced THEN store[k] ELSE Missing

Take(k) ==
  /\ stage = StartAll
  /\ k \in queue \ Busy /\ Cardinality(Busy) < Threads
  /\ queue' = queue \ {k}
  /\ reading' = [reading EXCEPT ![k] = Read(k)]
  /\ unattended' = unattended \ {k} /\ missed' = missed \ {k}
  /\ UNCHANGED <<informerVars, world, watched, main, seen>>

PutDown(k) == reading' = [reading EXCEPT ![k] = NotTaken]

Finish(k) ==
  /\ k \in Busy /\ PutDown(k)
  /\ seen' = [seen EXCEPT ![k] = reading[k]]
  /\ UNCHANGED <<informerVars, world, watched, main, queue, unattended, missed>>

\* handleErr puts the key back.
Fail(k) ==
  /\ k \in Busy /\ PutDown(k)
  /\ faults < MaxFaults /\ faults' = faults + 1
  /\ queue' = queue \cup {k}
  /\ UNCHANGED <<informerVars, api, deployed, changes, lasting, watched, main, seen, unattended, missed>>

\* A crash, os.Exit or Fatal on the way up included; the pod starts again.
Crash ==
  /\ faults < MaxFaults /\ faults' = faults + 1
  /\ Forget
  /\ lasting' = Stored
  /\ store' = NoVersions /\ pending' = {}
  /\ stage' = 1 /\ holder' = Nowhere
  /\ queue' = {} /\ reading' = NothingTaken /\ seen' = NoVersions
  /\ unattended' = deployed /\ missed' = {}
  /\ UNCHANGED <<api, deployed, changes>>

-----------------------------------------------------------------------------
MainStep == Ask \/ Answer \/ RunInformers \/ Started

StartupNext ==
  \/ \E k \in Changing : \E v \in {Missing, changes + 2} : ChangeServing(k, v)
  \/ \E k \in Changing : ChangeDeployment(k) \/ DeleteDeployment(k)
  \/ MainStep
  \/ \E i \in DOMAIN pool : List(i)
  \/ \E k \in Keys : Observe(k) \/ Take(k) \/ Finish(k) \/ Fail(k)
  \/ \E type \in Types, k \in Keys : Resync(type, k)
  \/ \E e \in pending : Deliver(e)
  \/ Crash

StartupSpec == StartupInit /\ [][StartupNext]_vars

\* main runs, informers list and watch, their events are delivered and the workers
\* work.  The work queue is first in, first out: a key in it is taken though others come.
\* Resyncs, hours apart, are not counted on.
FairStartup ==
  /\ StartupSpec
  /\ WF_vars(MainStep)
  /\ WF_vars(\E i \in DOMAIN pool : List(i))
  /\ \A k \in Keys : /\ WF_vars(Observe(k)) /\ WF_vars(\E e \in pending : e.key = k /\ Deliver(e))
                     /\ SF_vars(Take(k)) /\ WF_vars(Finish(k))

-----------------------------------------------------------------------------
(* Properties.                                                              *)

\* The variables have their types.
StartupTypeOK ==
  /\ TypeOK
  /\ api \in [Keys -> Nat] /\ store \in [Keys -> Nat] /\ seen \in [Keys -> Nat]
  /\ reading \in [Keys -> Nat \cup {NotTaken}]
  /\ changes \in Nat /\ faults \in Nat
  /\ deployed \subseteq Keys /\ lasting \subseteq Keys /\ unattended \subseteq Keys
  /\ missed \subseteq Keys
  /\ queue \subseteq Keys
  /\ pending \subseteq [type : Types, key : Keys, tombstone : BOOLEAN]
  /\ stage \in 1 .. StartAll
  /\ holder \in [Roles -> {None} \cup DOMAIN pool]

\* The informer that main runs is the one behind both listers (of which delete
\* refetches from one what Reconcile read from the other) and behind the handler:
\* no cache stays empty because nobody runs its informer.
OneCachePerType ==
  stage >= StartInformers =>
    /\ \A r \in {"knativeServingLister", "Lister", "handler"} : holder[r] = holder["setup"]
    /\ holder["deploymentHandler"] = holder["setupDeployments"]

\* No worker takes a KnativeServing for gone that has been there ever since the
\* process started, whichever informer lists first and whatever enqueued it.
ExistingIsFound == \A k \in Keys : reading[k] = Missing => k \notin lasting

\* A change that the informers have seen, of a KnativeServing or of its deployments,
\* and no worker yet, is on its way to one.  Those in missed are the exception: the
\* filter drops the tombstone of a deployment that went while its watch was broken.
NothingOverlooked ==
  \A k \in Keys :
    /\ store[k] # (IF k \in Busy THEN reading[k] ELSE seen[k]) => Coming(k)
    /\ k \in unattended /\ SyncedOf(Deployment) # {} => Coming(k)

\* When the changes have come to an end, this process has reconciled every
\* KnativeServing as it is, and after the last change of its deployments that its
\* watch showed, however often it had to start again; after one that it did not
\* show only if there are resyncs.
EverythingReconciled ==
  /\ <>[](seen = api /\ unattended = {})
  /\ (\A k \in Keys : WF_vars(Resync(Serving, k))) =>
       \A k \in Keys : <>[](k \in missed => api[k] = Missing)

=============================================================================
