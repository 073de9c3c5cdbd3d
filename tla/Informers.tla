------------------------------ MODULE Informers ------------------------------
(***************************************************************************)
(* The shared informer factory of                                          *)
(* pkg/client/informers/externalversions/factory.go: goroutines that ask it *)
(* for informers, start those it has and wait until the started ones have   *)
(* listed their objects.  An informer is known by its place in pool.        *)
(*                                                                         *)
(* f.lock is held over each call but the waiting in WaitForCacheSync.  The  *)
(* calls are nevertheless cut into steps, so that it matters that it is.    *)
(***************************************************************************)
EXTENDS Naturals, Sequences

CONSTANTS
  Types,      \* the types informers are asked for
  Callers,    \* the goroutines that use the factory
  NoCaller,   \* nobody
  NoType      \* no type

ASSUME CallersAssumption == NoCaller \notin Callers
ASSUME TypesAssumption == NoType \notin Types

VARIABLES
  lock,             \* who holds f.lock
  informers,        \* f.informers: of each type the informer, or None
  startedInformers, \* f.startedInformers: the types started
  pool,             \* all informers ever made
  stopped,          \* whether stopCh is closed
  pc,               \* where each caller is
  asked,            \* the type it is in InformerFor with
  left,             \* the types its loop has yet to visit
  result,           \* what WaitForCacheSync has found so far
  holds,            \* the informer of each type a caller was given
  relies,           \* the types it was given before it last called Start
  checked           \* whether the last WaitForCacheSync since then has returned

factory == <<lock, informers, startedInformers, pool>>
caller == <<pc, asked, left, result, holds, relies, checked>>
informerVars == <<factory, stopped, caller>>

None == 0
NoResult == [t \in {} |-> TRUE]
Outcomes == UNION {[D -> BOOLEAN] : D \in SUBSET Types}
Infos == [type : Types, runs : Nat, synced : BOOLEAN]
Places == {"idle", "lookup", "create", "start", "snapshot", "wait"}

NoTypes == [c \in Callers |-> NoType]
Nothing == [c \in Callers |-> {}]
Idle == [c \in Callers |-> "idle"]
Unregistered == [t \in Types |-> None]

Init ==
  /\ lock = NoCaller /\ stopped = FALSE
  /\ informers = Unregistered /\ startedInformers = {} /\ pool = <<>>
  /\ pc = Idle /\ asked = NoTypes /\ left = Nothing
  /\ result = [c \in Callers |-> NoResult]
  /\ holds = [c \in Callers |-> Unregistered]
  /\ relies = Nothing /\ checked = [c \in Callers |-> FALSE]

\* The process is gone, and a new one has a new factory.
Forget ==
  /\ lock' = NoCaller /\ stopped' = FALSE
  /\ informers' = Unregistered /\ startedInformers' = {} /\ pool' = <<>>
  /\ pc' = Idle /\ asked' = NoTypes /\ left' = Nothing
  /\ result' = [c \in Callers |-> NoResult]
  /\ holds' = [c \in Callers |-> Unregistered]
  /\ relies' = Nothing /\ checked' = [c \in Callers |-> FALSE]

At(c, place) == pc[c] = place
Goto(c, place) == pc' = [pc EXCEPT ![c] = place]

LockIgnoredMutant(c) == lock' = c
Lock(c) == lock = NoCaller /\ lock' = c
Unlock == lock' = NoCaller

Registered == {t \in Types : informers[t] # None}

-----------------------------------------------------------------------------
(* InformerFor.                                                             *)

InformerFor(c, t) ==
  /\ At(c, "idle") /\ Lock(c)
  /\ asked' = [asked EXCEPT ![c] = t]
  /\ Goto(c, "lookup")
  /\ UNCHANGED <<informers, startedInformers, pool, stopped,
                 left, result, holds, relies, checked>>

\* The caller gets informer i.
Return(c, i) ==
  /\ holds' = [holds EXCEPT ![c][asked[c]] = i]
  /\ asked' = [asked EXCEPT ![c] = NoType]
  /\ Goto(c, "idle") /\ Unlock

NeverFoundMutant(t) == None
Found(t) == informers[t]

Lookup(c) ==
  /\ At(c, "lookup")
  /\ LET i == Found(asked[c])
     IN  \/ i # None /\ Return(c, i)
         \/ i = None /\ Goto(c, "create") /\ UNCHANGED <<lock, asked, holds>>
  /\ UNCHANGED <<informers, startedInformers, pool, stopped,
                 left, result, relies, checked>>

NextPlaceMutant == Len(pool) + 2
NewPlace == Len(pool) + 1

Create(c) ==
  /\ At(c, "create")
  /\ pool' = Append(pool, [type |-> asked[c], runs |-> 0, synced |-> FALSE])
  /\ informers' = [informers EXCEPT ![asked[c]] = NewPlace]
  /\ Return(c, NewPlace)
  /\ UNCHANGED <<startedInformers, stopped, left, result, relies, checked>>

-----------------------------------------------------------------------------
(* Start.                                                                   *)

Start(c) ==
  /\ At(c, "idle") /\ Lock(c)
  /\ left' = [left EXCEPT ![c] = Registered]
  /\ relies' = [relies EXCEPT ![c] = {t \in Types : holds[c][t] # None}]
  /\ checked' = [checked EXCEPT ![c] = FALSE]
  /\ Goto(c, "start")
  /\ UNCHANGED <<informers, startedInformers, pool, stopped, asked, result, holds>>

\* go informer.Run(stopCh)
Run(i) == [pool EXCEPT ![i].runs = @ + 1]

RunAgainMutant(t) == pool' = Run(informers[t])
RunUnlessStarted(t) ==
  pool' = IF t \in startedInformers THEN pool ELSE Run(informers[t])

StartOne(c) ==
  /\ At(c, "start")
  /\ \E t \in left[c] :
       /\ RunUnlessStarted(t)
       /\ startedInformers' = startedInformers \cup {t}
       /\ left' = [left EXCEPT ![c] = @ \ {t}]
  /\ UNCHANGED <<lock, informers, stopped, pc, asked, result, holds, relies, checked>>

StartReturns(c) ==
  /\ At(c, "start") /\ left[c] = {}
  /\ Goto(c, "idle") /\ Unlock
  /\ UNCHANGED <<informers, startedInformers, pool, stopped,
                 asked, left, result, holds, relies, checked>>

-----------------------------------------------------------------------------
(* WaitForCacheSync.                                                        *)

WaitForCacheSync(c) ==
  /\ At(c, "idle") /\ Lock(c)
  /\ Goto(c, "snapshot")
  /\ UNCHANGED <<informers, startedInformers, pool, stopped,
                 asked, left, result, holds, relies, checked>>

WaitForAllMutant == Registered
StartedOnes == Registered \cap startedInformers

Snapshot(c) ==
  /\ At(c, "snapshot")
  /\ left' = [left EXCEPT ![c] = StartedOnes]
  /\ result' = [result EXCEPT ![c] = NoResult]
  /\ checked' = [checked EXCEPT ![c] = FALSE]
  /\ Goto(c, "wait") /\ Unlock
  /\ UNCHANGED <<informers, startedInformers, pool, stopped, asked, holds, relies>>

StopCountsAsSyncedMutant(t) == {ok \in BOOLEAN : ok /\ (pool[informers[t]].synced \/ stopped)}

\* What cache.WaitForCacheSync may answer: it polls, and looks at stopCh.
Answers(t) == {ok \in BOOLEAN : IF ok THEN pool[informers[t]].synced ELSE stopped}

WaitOne(c) ==
  /\ At(c, "wait")
  /\ \E t \in left[c], ok \in BOOLEAN :
       /\ ok \in Answers(t)
       /\ result' = [result EXCEPT ![c] =
                       [u \in DOMAIN @ \cup {t} |-> IF u = t THEN ok ELSE @[u]]]
       /\ left' = [left EXCEPT ![c] = @ \ {t}]
  /\ UNCHANGED <<factory, stopped, pc, asked, holds, relies, checked>>

WaitReturns(c) ==
  /\ At(c, "wait") /\ left[c] = {}
  /\ checked' = [checked EXCEPT ![c] = TRUE]
  /\ Goto(c, "idle")
  /\ UNCHANGED <<factory, stopped, asked, left, result, holds, relies>>

-----------------------------------------------------------------------------
(* The goroutine of an informer has listed its objects; stopCh is closed.   *)

Sync(i) ==
  /\ pool[i].runs > 0 /\ ~pool[i].synced
  /\ pool' = [pool EXCEPT ![i].synced = TRUE]
  /\ UNCHANGED <<lock, informers, startedInformers, stopped, caller>>

Stop ==
  /\ ~stopped /\ stopped' = TRUE
  /\ UNCHANGED <<factory, caller>>

Calling(c) ==
  \/ Lookup(c) \/ Create(c) \/ StartOne(c) \/ StartReturns(c)
  \/ Snapshot(c) \/ WaitOne(c) \/ WaitReturns(c)

Call(c) == (\E t \in Types : InformerFor(c, t)) \/ Start(c) \/ WaitForCacheSync(c)

Next ==
  \/ \E c \in Callers : Call(c) \/ Calling(c)
  \/ \E i \in DOMAIN pool : Sync(i)
  \/ Stop

Spec == Init /\ [][Next]_informerVars

\* Goroutines run, and an informer that runs comes to list its objects.
FairSpec ==
  /\ Spec
  /\ \A c \in Callers : WF_informerVars(Calling(c))
  /\ WF_informerVars(\E i \in DOMAIN pool : Sync(i))

-----------------------------------------------------------------------------
(* Properties.                                                              *)

\* The variables have their types.
TypeOK ==
  /\ lock \in Callers \cup {NoCaller}
  /\ pool \in Seq(Infos)
  /\ informers \in [Types -> {None} \cup DOMAIN pool]
  /\ startedInformers \subseteq Types
  /\ stopped \in BOOLEAN
  /\ pc \in [Callers -> Places] /\ asked \in [Callers -> Types \cup {NoType}]
  /\ left \in [Callers -> SUBSET Types]
  /\ result \in [Callers -> Outcomes]
  /\ holds \in [Callers -> [Types -> {None} \cup DOMAIN pool]]
  /\ relies \in [Callers -> SUBSET Types] /\ checked \in [Callers -> BOOLEAN]

\* Whoever asks InformerFor for a type gets the same informer, and so reads
\* the same cache: handlers and listers of one type never part.
OneInformer ==
  \A c, d \in Callers, t \in Types :
    holds[c][t] # None /\ holds[d][t] # None => holds[c][t] = holds[d][t]

\* However often and by however many Start is called, no informer is run twice.
RunsOnce == \A i \in DOMAIN pool : pool[i].runs <= 1

\* A goroutine that asked for informers, called Start and was told TRUE of all
\* by WaitForCacheSync has informers that have listed their objects, whatever
\* others did to the factory meanwhile.
WaitTellsTheTruth ==
  \A c \in Callers :
    checked[c] /\ (\A t \in DOMAIN result[c] : result[c][t]) =>
      \A t \in relies[c] : pool[holds[c][t]].synced

\* A call of the factory returns: WaitForCacheSync does not wait for informers
\* that nobody has started.
CallsReturn == \A c \in Callers : pc[c] # "idle" ~> pc[c] = "idle"

=============================================================================
