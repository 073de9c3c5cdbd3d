---------------------------- MODULE StartupProofs ----------------------------
(***************************************************************************)
(* Proofs about the informer factory, for any number of goroutines and      *)
(* types: that FactoryInv is an invariant, and with it the safety           *)
(* properties of Informers.  Then about the start of the process, for any   *)
(* KnativeServings, number of workers and bounds: that StartupInv is an     *)
(* invariant, and with it the safety properties of Startup.  While main     *)
(* sets up, the factory is that of Informers and what is proved of it is    *)
(* used as it is.                                                           *)
(***************************************************************************)
EXTENDS StartupInvariant, TLAPS

-----------------------------------------------------------------------------
(* Lemmas about sequences of informers and about what WaitForCacheSync found. *)

\* The places of a sequence of informers, and what is found there.
LEMMA PoolFacts ==
  ASSUME NEW s \in Seq(Infos)
  PROVE  /\ Len(s) \in Nat /\ DOMAIN s = 1 .. Len(s)
         /\ None \notin DOMAIN s
         /\ \A i \in DOMAIN s : s[i] \in Infos
  BY DEF None

\* A new informer comes last.
LEMMA AppendFacts ==
  ASSUME NEW s \in Seq(Infos), NEW e \in Infos
  PROVE  /\ Append(s, e) \in Seq(Infos)
         /\ DOMAIN Append(s, e) = DOMAIN s \cup {Len(s) + 1}
         /\ Len(s) + 1 \notin DOMAIN s
         /\ Append(s, e)[Len(s) + 1] = e
         /\ \A i \in DOMAIN s : Append(s, e)[i] = s[i]
  OBVIOUS

\* An informer that changes stays where it is.
LEMMA ReplaceFacts ==
  ASSUME NEW s \in Seq(Infos), NEW i \in DOMAIN s, NEW e \in Infos
  PROVE  /\ [s EXCEPT ![i] = e] \in Seq(Infos)
         /\ DOMAIN [s EXCEPT ![i] = e] = DOMAIN s
         /\ [s EXCEPT ![i] = e][i] = e
         /\ \A j \in DOMAIN s \ {i} : [s EXCEPT ![i] = e][j] = s[j]
  OBVIOUS

\* Running an informer counts a run of it, and of it alone.
LEMMA RunFacts ==
  ASSUME pool \in Seq(Infos), NEW i \in DOMAIN pool
  PROVE  /\ Run(i) \in Seq(Infos) /\ DOMAIN Run(i) = DOMAIN pool
         /\ Run(i)[i].runs = pool[i].runs + 1
         /\ \A j \in DOMAIN pool \ {i} : Run(i)[j].runs = pool[j].runs
         /\ \A j \in DOMAIN pool : /\ Run(i)[j].type = pool[j].type
                                   /\ Run(i)[j].synced = pool[j].synced
<1> DEFINE e == [pool[i] EXCEPT !.runs = @ + 1]
<1>1. pool[i] \in Infos
  BY PoolFacts
<1>2. e \in Infos /\ e.runs = pool[i].runs + 1
      /\ e.type = pool[i].type /\ e.synced = pool[i].synced
  BY <1>1 DEF Infos
<1>3. Run(i) = [pool EXCEPT ![i] = e]
  BY DEF Run
<1> HIDE DEF e
<1>4. QED
  BY <1>2, <1>3, ReplaceFacts

\* The results found so far are those of a set of types.
LEMMA OutcomeFacts ==
  ASSUME NEW r \in Outcomes
  PROVE  DOMAIN r \subseteq Types /\ \A t \in DOMAIN r : r[t] \in BOOLEAN
  BY DEF Outcomes

\* One more of them.
LEMMA AddOutcome ==
  ASSUME NEW r \in Outcomes, NEW t \in Types, NEW ok \in BOOLEAN
  PROVE  [u \in DOMAIN r \cup {t} |-> IF u = t THEN ok ELSE r[u]] \in Outcomes
<1> DEFINE D == DOMAIN r \cup {t}
           n == [u \in D |-> IF u = t THEN ok ELSE r[u]]
<1>1. D \in SUBSET Types
  BY OutcomeFacts
<1>2. n \in [D -> BOOLEAN]
  BY OutcomeFacts
<1>3. QED
  BY <1>1, <1>2 DEF Outcomes

\* No outcome yet is an outcome.
LEMMA NoOutcome == NoResult \in Outcomes
<1>1. NoResult \in [{} -> BOOLEAN]
  BY DEF NoResult
<1>2. QED
  BY <1>1 DEF Outcomes


-----------------------------------------------------------------------------
(* The invariant.                                                           *)

\* At first nothing is registered and nobody is in a call.
LEMMA FactoryInit == Init => FactoryInv
<1> SUFFICES ASSUME Init PROVE FactoryInv
  OBVIOUS
<1> USE DEF Init
<1>1. TypeOK
  <2>1. pool \in Seq(Infos) /\ informers \in [Types -> {None} \cup DOMAIN pool]
    BY DEF Unregistered
  <2>2. holds \in [Callers -> [Types -> {None} \cup DOMAIN pool]]
    BY DEF Unregistered
  <2>3. lock \in Callers \cup {NoCaller} /\ startedInformers \subseteq Types
    OBVIOUS
  <2>4. pc \in [Callers -> Places] /\ asked \in [Callers -> Types \cup {NoType}]
    BY DEF Idle, NoTypes, Places
  <2>5. left \in [Callers -> SUBSET Types] /\ relies \in [Callers -> SUBSET Types]
    BY DEF Nothing
  <2>6. stopped \in BOOLEAN /\ checked \in [Callers -> BOOLEAN]
    OBVIOUS
  <2>7. result \in [Callers -> Outcomes]
    BY NoOutcome
  <2>8. QED
    BY <2>1, <2>2, <2>3, <2>4, <2>5, <2>6, <2>7 DEF TypeOK
<1>2. LockHeld
  BY CallersAssumption DEF LockHeld, Idle, Inside
<1>3. Registry /\ Running
  BY DEF Registry, Running, Unregistered, Registered, None
<1>4. ASSUME NEW c \in Callers
      PROVE  Asking(c) /\ Holding(c) /\ Relying(c) /\ Waiting(c)
  BY DEF Asking, Holding, Relying, Waiting, At, Idle, Nothing, Unregistered, NoResult, None
<1>5. QED
  BY <1>1, <1>2, <1>3, <1>4 DEF FactoryInv

\* A step that leaves the factory alone leaves alone what is said of it.
LEMMA FactoryUnchanged ==
  ASSUME UNCHANGED <<informers, startedInformers, pool>>, Registry, Running
  PROVE  Registry' /\ Running'
BY DEF Registry, Running, Registered

\* InformerFor takes the lock.
LEMMA InformerForStep ==
  ASSUME FactoryInv, NEW c \in Callers, NEW t \in Types, InformerFor(c, t)
  PROVE  FactoryInv'
<1> USE DEF FactoryInv, InformerFor, Lock, Goto, At
<1>1. TypeOK'
  BY DEF TypeOK, Places
<1>2. LockHeld'
  BY CallersAssumption DEF LockHeld, TypeOK, Inside
<1>3. Registry' /\ Running'
  BY FactoryUnchanged
<1>4. ASSUME NEW d \in Callers
      PROVE  (Asking(d) /\ Holding(d) /\ Relying(d) /\ Waiting(d))'
  BY DEF Asking, Holding, Relying, Waiting, Registered, TypeOK
<1>5. QED
  BY <1>1, <1>2, <1>3, <1>4

\* The caller of InformerFor holds what it was given; nothing else changes hands.
LEMMA ReturnFacts ==
  ASSUME TypeOK, NEW c \in Callers, asked[c] \in Types,
         NEW P, DOMAIN pool \subseteq P, NEW i \in {None} \cup P, Return(c, i)
  PROVE  /\ holds' \in [Callers -> [Types -> {None} \cup P]]
         /\ holds'[c][asked[c]] = i
         /\ \A t \in Types : t # asked[c] => holds'[c][t] = holds[c][t]
         /\ \A d \in Callers : d # c => holds'[d] = holds[d]
<1> DEFINE h == [holds[c] EXCEPT ![asked[c]] = i]
           T == {None} \cup P
<1>1. holds \in [Callers -> [Types -> {None} \cup DOMAIN pool]]
  BY DEF TypeOK
<1>2. {None} \cup DOMAIN pool \subseteq T
  OBVIOUS
<1>3. holds \in [Callers -> [Types -> T]]
  BY <1>1, <1>2
<1>4. h \in [Types -> T] /\ h[asked[c]] = i
      /\ \A t \in Types : t # asked[c] => h[t] = holds[c][t]
  BY <1>3
<1>5. holds' = [holds EXCEPT ![c] = h]
  BY DEF Return
<1> HIDE DEF h, T
<1>6. holds' \in [Callers -> [Types -> T]] /\ holds'[c] = h
      /\ \A d \in Callers : d # c => holds'[d] = holds[d]
  BY <1>3, <1>4, <1>5
<1>7. QED
  BY <1>4, <1>6 DEF T

\* InformerFor finds the informer of its type, and lets go of the lock.
LEMMA LookupStep ==
  ASSUME FactoryInv, NEW c \in Callers, Lookup(c)
  PROVE  FactoryInv'
<1> USE DEF FactoryInv, Lookup, Found, Unlock, Goto, At
<1>0. asked[c] \in Types
  BY DEF Asking
<1>1. Registry' /\ Running'
  BY FactoryUnchanged
<1>2. CASE informers[asked[c]] # None
  <2> DEFINE i == informers[asked[c]]
  <2>1. Return(c, i)
    BY <1>2
  <2>2. i \in {None} \cup DOMAIN pool
    BY <1>0 DEF TypeOK
  <2>3. /\ holds' \in [Callers -> [Types -> {None} \cup DOMAIN pool]]
        /\ holds'[c][asked[c]] = i
        /\ \A t \in Types : t # asked[c] => holds'[c][t] = holds[c][t]
        /\ \A d \in Callers : d # c => holds'[d] = holds[d]
    BY <1>0, <2>1, <2>2, ReturnFacts
  <2>4. TypeOK'
    BY <2>1, <2>3 DEF TypeOK, Places, Return
  <2>5. LockHeld'
    BY <2>1, CallersAssumption DEF LockHeld, TypeOK, Inside, Return
  <2>6. ASSUME NEW d \in Callers
        PROVE  (Asking(d) /\ Holding(d) /\ Relying(d) /\ Waiting(d))'
    <3>1. Asking(d)' /\ Waiting(d)'
      BY <2>1 DEF Asking, Waiting, TypeOK, Return
    <3>2. Holding(d)'
      BY <2>3 DEF Holding, Registered
    <3>3. Relying(d)'
      BY <1>2, <2>1, <2>3 DEF Relying, TypeOK, Return
    <3>4. QED
      BY <3>1, <3>2, <3>3
  <2>7. QED
    BY <1>1, <2>4, <2>5, <2>6
<1>3. CASE informers[asked[c]] = None
  <2>1. UNCHANGED <<lock, asked, holds>> /\ pc' = [pc EXCEPT ![c] = "create"]
    BY <1>3 DEF Return, None
  <2>2. TypeOK'
    BY <2>1 DEF TypeOK, Places
  <2>3. LockHeld'
    BY <2>1 DEF LockHeld, TypeOK, Inside
  <2>4. ASSUME NEW d \in Callers
        PROVE  (Asking(d) /\ Holding(d) /\ Relying(d) /\ Waiting(d))'
    BY <1>0, <1>3, <2>1 DEF Asking, Holding, Relying, Waiting, Registered, TypeOK
  <2>5. QED
    BY <1>1, <2>2, <2>3, <2>4
<1>4. QED
  BY <1>2, <1>3

\* Or makes one, which is the only one of that type.
LEMMA CreateStep ==
  ASSUME FactoryInv, NEW c \in Callers, Create(c)
  PROVE  FactoryInv'
<1> USE DEF FactoryInv, Create, Unlock, Goto, At
<1> DEFINE n == Len(pool) + 1
           e == [type |-> asked[c], runs |-> 0, synced |-> FALSE]
<1>1. asked[c] \in Types /\ informers[asked[c]] = None
  BY DEF Asking
<1>2. pool \in Seq(Infos) /\ e \in Infos
  BY <1>1 DEF TypeOK, Infos
<1>3. /\ pool' \in Seq(Infos) /\ DOMAIN pool' = DOMAIN pool \cup {n}
      /\ n \notin DOMAIN pool /\ n # None /\ pool'[n] = e
      /\ \A i \in DOMAIN pool : pool'[i] = pool[i] /\ pool[i] \in Infos
  <2> HIDE DEF e
  <2>1. pool' = Append(pool, e)
    BY DEF e
  <2>2. QED
    BY <1>2, <2>1, AppendFacts, PoolFacts DEF None
<1>4. /\ informers' \in [Types -> {None} \cup DOMAIN pool']
      /\ informers'[asked[c]] = n
      /\ \A t \in Types : t # asked[c] => informers'[t] = informers[t]
  BY <1>1, <1>3 DEF TypeOK, NewPlace
<1>5. Return(c, n) /\ n \in {None} \cup DOMAIN pool'
  BY <1>3 DEF NewPlace
<1>6. /\ holds' \in [Callers -> [Types -> {None} \cup DOMAIN pool']]
      /\ holds'[c][asked[c]] = n
      /\ \A t \in Types : t # asked[c] => holds'[c][t] = holds[c][t]
      /\ \A d \in Callers : d # c => holds'[d] = holds[d]
  <2> HIDE DEF n, e
  <2>1. QED
    BY <1>1, <1>3, <1>5, ReturnFacts
<1> HIDE DEF n
<1>7. TypeOK'
  BY <1>3, <1>4, <1>5, <1>6 DEF TypeOK, Places, Return
<1>8. LockHeld'
  BY <1>5, CallersAssumption DEF LockHeld, TypeOK, Inside, Return
<1>9. Registry'
  <2>1. \A i \in DOMAIN pool : pool[i].type \in Types /\ pool[i].type # asked[c]
    <3>1. None \notin DOMAIN pool
      BY <1>2, PoolFacts
    <3>2. \A i \in DOMAIN pool : pool[i].type \in Types
      BY <1>3 DEF Infos
    <3>3. QED
      BY <1>1, <3>1, <3>2 DEF Registry
  <2>2. \A i \in DOMAIN pool' : informers'[pool'[i].type] = i
    BY <1>3, <1>4, <2>1 DEF Registry
  <2>3. \A t \in Types : informers'[t] # None => pool'[informers'[t]].type = t
    BY <1>3, <1>4 DEF Registry, TypeOK
  <2>4. QED
    BY <2>2, <2>3 DEF Registry
<1>10. Registered \subseteq Registered'
  BY <1>1, <1>3, <1>4 DEF Registered
<1>11. Running'
  <2>1. asked[c] \notin startedInformers
    BY <1>1 DEF Running, Registered
  <2>2. startedInformers' = startedInformers
    OBVIOUS
  <2>3. \A i \in DOMAIN pool' :
          pool'[i].runs = IF pool'[i].type \in startedInformers THEN 1 ELSE 0
    BY <1>3, <2>1 DEF Running
  <2>4. QED
    BY <1>10, <2>2, <2>3 DEF Running
<1>12. ASSUME NEW d \in Callers
       PROVE  (Asking(d) /\ Holding(d) /\ Relying(d) /\ Waiting(d))'
  <2>1. Asking(d)'
    BY <1>1, <1>4, <1>5 DEF Asking, TypeOK, Return, LockHeld, Inside
  <2>2. Holding(d)'
    <3>1. Holding(d) /\ left' = left
      OBVIOUS
    <3>2. asked[c] \in Types => holds[d][asked[c]] = None
      BY <1>1, <3>1 DEF Holding
    <3>3. \A t \in Types : holds'[d][t] # None => holds'[d][t] = informers'[t]
      BY <1>1, <1>4, <1>6, <3>1, <3>2 DEF Holding
    <3>4. QED
      BY <1>10, <3>1, <3>3 DEF Holding
  <2>3. Relying(d)'
    BY <1>3, <1>5, <1>6 DEF Relying, TypeOK, Return
  <2>4. Waiting(d)'
    BY <1>1, <1>3, <1>4, <1>5, OutcomeFacts DEF Waiting, TypeOK, Return
  <2>5. QED
    BY <2>1, <2>2, <2>3, <2>4
<1>13. QED
  BY <1>7, <1>8, <1>9, <1>11, <1>12

\* Start takes the lock.
LEMMA StartStep ==
  ASSUME FactoryInv, NEW c \in Callers, Start(c)
  PROVE  FactoryInv'
<1> USE DEF FactoryInv, Start, Lock, Goto, At
<1>1. TypeOK'
  BY DEF TypeOK, Places, Registered
<1>2. LockHeld'
  BY CallersAssumption DEF LockHeld, TypeOK, Inside
<1>3. Registry' /\ Running'
  BY FactoryUnchanged
<1>4. ASSUME NEW d \in Callers
      PROVE  (Asking(d) /\ Holding(d) /\ Relying(d) /\ Waiting(d))'
  BY DEF Asking, Holding, Relying, Waiting, Registered, TypeOK
<1>5. QED
  BY <1>1, <1>2, <1>3, <1>4

\* Start runs an informer that it has not run before.
LEMMA StartOneStep ==
  ASSUME FactoryInv, NEW c \in Callers, StartOne(c)
  PROVE  FactoryInv'
<1> USE DEF FactoryInv, At
<1>1. PICK t \in left[c] : /\ RunUnlessStarted(t)
                           /\ startedInformers' = startedInformers \cup {t}
                           /\ left' = [left EXCEPT ![c] = @ \ {t}]
  BY DEF StartOne
<1>2. /\ pc[c] = "start"
      /\ UNCHANGED <<lock, informers, stopped, pc, asked, result, holds, relies, checked>>
  BY DEF StartOne
<1>3. t \in Types /\ informers[t] \in DOMAIN pool /\ pool[informers[t]].type = t
  BY DEF Holding, Registered, TypeOK, Registry
<1>4. /\ pool' \in Seq(Infos) /\ DOMAIN pool' = DOMAIN pool
      /\ \A i \in DOMAIN pool : /\ pool'[i].type = pool[i].type
                                /\ pool'[i].synced = pool[i].synced
                                /\ pool'[i].runs = IF pool[i].type \in startedInformers \cup {t}
                                                   THEN 1 ELSE 0
  <2>1. pool \in Seq(Infos)
    BY DEF TypeOK
  <2>2. \A i \in DOMAIN pool : pool[i].type = t <=> i = informers[t]
    BY <1>3 DEF Registry
  <2>3. \A i \in DOMAIN pool :
          pool[i].runs = IF pool[i].type \in startedInformers THEN 1 ELSE 0
    BY DEF Running
  <2>4. CASE t \in startedInformers
    BY <1>1, <2>1, <2>3, <2>4 DEF RunUnlessStarted
  <2>5. CASE t \notin startedInformers
    <3>1. pool' = Run(informers[t])
      BY <1>1, <2>5 DEF RunUnlessStarted
    <3>2. \A i \in DOMAIN pool : i # informers[t] => Run(informers[t])[i].runs = pool[i].runs
      BY <1>3, <2>1, RunFacts
    <3>3. Run(informers[t])[informers[t]].runs = 1
      BY <1>3, <2>1, <2>3, <2>5, RunFacts
    <3>4. QED
      BY <1>3, <2>1, <2>2, <2>3, <2>5, <3>1, <3>2, <3>3, RunFacts
  <2>6. QED
    BY <2>4, <2>5
<1>5. TypeOK'
  BY <1>1, <1>2, <1>3, <1>4 DEF TypeOK
<1>6. LockHeld'
  BY <1>2 DEF LockHeld
<1>7. Registry'
  BY <1>2, <1>4 DEF Registry, TypeOK
<1>8. Running'
  <2>1. Registered' = Registered /\ t \in Registered
    BY <1>2, <1>3, PoolFacts DEF Registered, Holding
  <2>2. QED
    BY <1>1, <1>4, <2>1 DEF Running
<1>9. ASSUME NEW d \in Callers
      PROVE  (Asking(d) /\ Holding(d) /\ Relying(d) /\ Waiting(d))'
  <2>1. Asking(d)'
    BY <1>2 DEF Asking
  <2>2. Holding(d)'
    BY <1>1, <1>2 DEF Holding, Registered, TypeOK
  <2>3. Relying(d)'
    BY <1>1, <1>2 DEF Relying, TypeOK
  <2>4. Waiting(d)'
    <3>1. d # c => left'[d] = left[d]
      BY <1>1 DEF TypeOK
    <3>2. \A u \in DOMAIN result[d] : informers[u] # None => informers[u] \in DOMAIN pool
      BY OutcomeFacts DEF TypeOK
    <3>3. QED
      BY <1>2, <1>4, <3>1, <3>2 DEF Waiting
  <2>5. QED
    BY <2>1, <2>2, <2>3, <2>4
<1>10. QED
  BY <1>5, <1>6, <1>7, <1>8, <1>9

\* Start has gone through all types, and lets go of the lock.
LEMMA StartReturnsStep ==
  ASSUME FactoryInv, NEW c \in Callers, StartReturns(c)
  PROVE  FactoryInv'
<1> USE DEF FactoryInv, StartReturns, Unlock, Goto, At
<1>1. TypeOK'
  BY DEF TypeOK, Places
<1>2. LockHeld'
  BY CallersAssumption DEF LockHeld, TypeOK, Inside
<1>3. Registry' /\ Running'
  BY FactoryUnchanged
<1>4. ASSUME NEW d \in Callers
      PROVE  (Asking(d) /\ Holding(d) /\ Relying(d) /\ Waiting(d))'
  BY DEF Asking, Holding, Relying, Waiting, Registered, TypeOK
<1>5. QED
  BY <1>1, <1>2, <1>3, <1>4

\* WaitForCacheSync takes the lock.
LEMMA WaitForCacheSyncStep ==
  ASSUME FactoryInv, NEW c \in Callers, WaitForCacheSync(c)
  PROVE  FactoryInv'
<1> USE DEF FactoryInv, WaitForCacheSync, Lock, Goto, At
<1>1. TypeOK'
  BY DEF TypeOK, Places
<1>2. LockHeld'
  BY CallersAssumption DEF LockHeld, TypeOK, Inside
<1>3. Registry' /\ Running'
  BY FactoryUnchanged
<1>4. ASSUME NEW d \in Callers
      PROVE  (Asking(d) /\ Holding(d) /\ Relying(d) /\ Waiting(d))'
  BY DEF Asking, Holding, Relying, Waiting, Registered, TypeOK
<1>5. QED
  BY <1>1, <1>2, <1>3, <1>4

\* WaitForCacheSync notes the informers that are started, and lets go of the lock.
LEMMA SnapshotStep ==
  ASSUME FactoryInv, NEW c \in Callers, Snapshot(c)
  PROVE  FactoryInv'
<1> USE DEF FactoryInv, Snapshot, StartedOnes, Unlock, Goto, At
<1>1. TypeOK'
  BY NoOutcome DEF TypeOK, Places, Registered
<1>2. LockHeld'
  BY CallersAssumption DEF LockHeld, TypeOK, Inside
<1>3. Registry' /\ Running'
  BY FactoryUnchanged
<1>4. ASSUME NEW d \in Callers
      PROVE  (Asking(d) /\ Holding(d) /\ Relying(d) /\ Waiting(d))'
  <2>1. Asking(d)' /\ Holding(d)' /\ Relying(d)'
    BY DEF Asking, Holding, Relying, Registered, TypeOK
  <2>2. Waiting(d)'
    BY DEF Waiting, Relying, Running, NoResult, TypeOK
  <2>3. QED
    BY <2>1, <2>2
<1>5. QED
  BY <1>1, <1>2, <1>3, <1>4

\* It waits for one of them.
LEMMA WaitOneStep ==
  ASSUME FactoryInv, NEW c \in Callers, WaitOne(c)
  PROVE  FactoryInv'
<1> USE DEF FactoryInv, At
<1>1. PICK t \in left[c], ok \in BOOLEAN :
        /\ ok \in Answers(t)
        /\ result' = [result EXCEPT ![c] =
                        [u \in DOMAIN @ \cup {t} |-> IF u = t THEN ok ELSE @[u]]]
        /\ left' = [left EXCEPT ![c] = @ \ {t}]
  BY DEF WaitOne
<1>2. UNCHANGED <<factory, stopped, pc, asked, holds, relies, checked>>
  BY DEF WaitOne
<1>3. t \in Types /\ informers[t] # None /\ (ok => pool[informers[t]].synced)
  BY <1>1 DEF Holding, Registered, Answers, TypeOK
<1> DEFINE r == [u \in DOMAIN result[c] \cup {t} |-> IF u = t THEN ok ELSE result[c][u]]
<1>4. r \in Outcomes /\ DOMAIN r = DOMAIN result[c] \cup {t}
  <2>1. result[c] \in Outcomes
    BY DEF TypeOK
  <2>2. QED
    BY <1>3, <2>1, AddOutcome
<1>5. \A u \in DOMAIN r : r[u] => informers[u] # None /\ pool[informers[u]].synced
  <2>1. \A u \in DOMAIN result[c] :
          result[c][u] => informers[u] # None /\ pool[informers[u]].synced
    BY DEF Waiting
  <2>2. \A u \in DOMAIN r : r[u] = IF u = t THEN ok ELSE result[c][u]
    OBVIOUS
  <2>3. SUFFICES ASSUME NEW u \in DOMAIN r, r[u]
                 PROVE  informers[u] # None /\ pool[informers[u]].synced
    OBVIOUS
  <2>4. CASE u = t
    BY <1>3, <2>2, <2>3, <2>4
  <2>5. CASE u # t
    <3>1. u \in DOMAIN result[c] /\ result[c][u]
      BY <1>4, <2>2, <2>3, <2>5
    <3>2. QED
      BY <2>1, <3>1
  <2>6. QED
    BY <2>4, <2>5
<1>6. result' = [result EXCEPT ![c] = r]
  BY <1>1
<1> HIDE DEF r
<1>0. left' = [left EXCEPT ![c] = @ \ {t}]
  BY <1>1
<1>7. TypeOK'
  <2>1. result' \in [Callers -> Outcomes]
    BY <1>4, <1>6 DEF TypeOK
  <2>2. left' \in [Callers -> SUBSET Types]
    BY <1>0 DEF TypeOK
  <2>3. QED
    BY <1>2, <2>1, <2>2 DEF TypeOK, factory
<1>8. LockHeld'
  BY <1>2 DEF LockHeld, factory
<1>9. Registry' /\ Running'
  BY <1>2, FactoryUnchanged DEF factory
<1>10. ASSUME NEW d \in Callers
       PROVE  (Asking(d) /\ Holding(d) /\ Relying(d) /\ Waiting(d))'
  <2>1. Asking(d)' /\ Holding(d)' /\ Relying(d)'
    <3>1. pc[c] = "wait"
      BY DEF WaitOne
    <3>2. QED
      BY <1>0, <1>2, <3>1 DEF Asking, Holding, Relying, Registered, TypeOK, factory
  <2>2. Waiting(d)'
    BY <1>0, <1>2, <1>4, <1>5, <1>6 DEF Waiting, TypeOK, factory
  <2>3. QED
    BY <2>1, <2>2
<1>11. QED
  BY <1>7, <1>8, <1>9, <1>10

\* It has waited for all of them.
LEMMA WaitReturnsStep ==
  ASSUME FactoryInv, NEW c \in Callers, WaitReturns(c)
  PROVE  FactoryInv'
<1> USE DEF FactoryInv, WaitReturns, Goto, At, factory
<1>1. TypeOK'
  BY DEF TypeOK, Places
<1>2. LockHeld'
  BY CallersAssumption DEF LockHeld, TypeOK, Inside
<1>3. Registry' /\ Running'
  BY FactoryUnchanged
<1>4. ASSUME NEW d \in Callers
      PROVE  (Asking(d) /\ Holding(d) /\ Relying(d) /\ Waiting(d))'
  BY DEF Asking, Holding, Relying, Waiting, Registered, TypeOK
<1>5. QED
  BY <1>1, <1>2, <1>3, <1>4

\* An informer that runs has listed its objects.
LEMMA SyncStep ==
  ASSUME FactoryInv, NEW i \in DOMAIN pool, Sync(i)
  PROVE  FactoryInv'
<1> USE DEF FactoryInv, Sync, caller
<1> DEFINE e == [pool[i] EXCEPT !.synced = TRUE]
<1>1. pool \in Seq(Infos) /\ pool[i] \in Infos
  BY PoolFacts DEF TypeOK
<1>2. e \in Infos /\ e.type = pool[i].type /\ e.runs = pool[i].runs /\ e.synced
  BY <1>1 DEF Infos
<1>3. pool' = [pool EXCEPT ![i] = e]
  OBVIOUS
<1>4. /\ pool' \in Seq(Infos) /\ DOMAIN pool' = DOMAIN pool
      /\ \A j \in DOMAIN pool : /\ pool'[j].type = pool[j].type
                                /\ pool'[j].runs = pool[j].runs
                                /\ pool[j].synced => pool'[j].synced
  <2> HIDE DEF e
  <2>1. /\ pool' \in Seq(Infos) /\ DOMAIN pool' = DOMAIN pool /\ pool'[i] = e
        /\ \A j \in DOMAIN pool : j # i => pool'[j] = pool[j]
    <3>1. pool \in Seq(Infos) /\ e \in Infos
      BY <1>1, <1>2
    <3> HIDE DEF Sync
    <3>2. QED
      BY <1>3, <3>1, ReplaceFacts
  <2>2. \A j \in DOMAIN pool : pool'[j].type = pool[j].type /\ pool'[j].runs = pool[j].runs
    BY <1>2, <2>1
  <2>3. \A j \in DOMAIN pool : pool[j].synced => pool'[j].synced
    BY <1>2, <2>1, Zenon
  <2>4. QED
    BY <2>1, <2>2, <2>3
<1> HIDE DEF e
<1>5. TypeOK'
  BY <1>4 DEF TypeOK
<1>6. LockHeld'
  BY DEF LockHeld
<1>7. Registry' /\ Running'
  BY <1>4 DEF Registry, Running, Registered, TypeOK
<1>8. ASSUME NEW d \in Callers
      PROVE  (Asking(d) /\ Holding(d) /\ Relying(d) /\ Waiting(d))'
  <2>1. Asking(d)' /\ Holding(d)' /\ Relying(d)'
    BY DEF Asking, Holding, Relying, Registered, At
  <2>2. Waiting(d)'
    <3>1. \A u \in DOMAIN result[d] : informers[u] # None => informers[u] \in DOMAIN pool
      BY OutcomeFacts DEF TypeOK
    <3>2. QED
      BY <1>4, <3>1 DEF Waiting, At
  <2>3. QED
    BY <2>1, <2>2
<1>9. QED
  BY <1>5, <1>6, <1>7, <1>8

\* The stop channel is closed.
LEMMA StopStep ==
  ASSUME FactoryInv, Stop
  PROVE  FactoryInv'
<1> USE DEF FactoryInv, Stop, factory, caller
<1>1. TypeOK' /\ LockHeld'
  BY DEF TypeOK, LockHeld
<1>2. Registry' /\ Running'
  BY FactoryUnchanged
<1>3. ASSUME NEW d \in Callers
      PROVE  (Asking(d) /\ Holding(d) /\ Relying(d) /\ Waiting(d))'
  BY DEF Asking, Holding, Relying, Waiting, Registered, At
<1>4. QED
  BY <1>1, <1>2, <1>3

\* Every step of the factory keeps the invariant.
LEMMA FactoryNext == FactoryInv /\ [Next]_informerVars => FactoryInv'
<1> SUFFICES ASSUME FactoryInv, [Next]_informerVars PROVE FactoryInv'
  OBVIOUS
<1>1. ASSUME NEW c \in Callers, Call(c) \/ Calling(c)
      PROVE  FactoryInv'
  BY <1>1, InformerForStep, StartStep, WaitForCacheSyncStep, LookupStep, CreateStep,
     StartOneStep, StartReturnsStep, SnapshotStep, WaitOneStep, WaitReturnsStep
     DEF Call, Calling
<1>2. ASSUME NEW i \in DOMAIN pool, Sync(i)
      PROVE  FactoryInv'
  BY <1>2, SyncStep
<1>3. CASE Stop
  BY <1>3, StopStep
<1>4. CASE UNCHANGED informerVars
  BY <1>4 DEF informerVars, factory, caller, FactoryInv, TypeOK, LockHeld, Inside, Registry,
              Running, Registered, Asking, Holding, Relying, Waiting, At
<1>5. QED
  BY <1>1, <1>2, <1>3, <1>4 DEF Next

-----------------------------------------------------------------------------
(* The theorems.                                                            *)

\* FactoryInv holds in every reachable state of the informer factory.
THEOREM FactoryInvariant == Spec => []FactoryInv
<1>1. QED
  BY FactoryInit, FactoryNext, PTL DEF Spec

\* The variables of the informer factory keep their types.
THEOREM FactoryTypeCorrect == Spec => []TypeOK
<1>1. FactoryInv => TypeOK
  BY DEF FactoryInv
<1>2. QED
  BY <1>1, FactoryInvariant, PTL

\* InformerFor gives every goroutine the same informer of a type, because
\* f.lock is held from the lookup to the creation.
THEOREM OneInformerPerType == Spec => []OneInformer
<1>1. FactoryInv => OneInformer
  BY DEF FactoryInv, Holding, OneInformer
<1>2. QED
  BY <1>1, FactoryInvariant, PTL

\* Start runs no informer twice, by however many goroutines it is called.
THEOREM InformersRunOnce == Spec => []RunsOnce
<1>1. FactoryInv => RunsOnce
  BY DEF FactoryInv, Running, RunsOnce
<1>2. QED
  BY <1>1, FactoryInvariant, PTL

\* WaitForCacheSync says TRUE only of informers that have listed their objects,
\* and leaves none out that its caller asked for before it called Start.
THEOREM WaitIsTruthful == Spec => []WaitTellsTheTruth
<1>1. FactoryInv => WaitTellsTheTruth
  <2> SUFFICES ASSUME FactoryInv, NEW c \in Callers, checked[c],
                      \A t \in DOMAIN result[c] : result[c][t],
                      NEW t \in relies[c]
               PROVE  pool[holds[c][t]].synced
    BY DEF WaitTellsTheTruth
  <2>1. t \in Types /\ t \in DOMAIN result[c]
    BY DEF FactoryInv, TypeOK, Waiting
  <2>2. holds[c][t] = informers[t]
    BY <2>1 DEF FactoryInv, Holding, Relying
  <2>3. pool[informers[t]].synced
    BY <2>1 DEF FactoryInv, Waiting
  <2>4. QED
    BY <2>2, <2>3
<1>2. QED
  BY <1>1, FactoryInvariant, PTL

-----------------------------------------------------------------------------
(* What main asks for.                                                      *)

\* Two entries and four are six.
LEMMA Joined ==
  ASSUME NEW a, NEW b, NEW c, NEW d, NEW e, NEW f
  PROVE  LET s == <<a, b>> \o <<c, d, e, f>>
         IN  /\ Len(s) = 6 /\ DOMAIN s = 1 .. 6
             /\ s[1] = a /\ s[2] = b /\ s[3] = c /\ s[4] = d /\ s[5] = e /\ s[6] = f
<1> DEFINE U == {a, b, c, d, e, f}
           s == <<a, b>>
           t == <<c, d, e, f>>
<1>1. s \in Seq(U) /\ Len(s) = 2 /\ s[1] = a /\ s[2] = b
  OBVIOUS
<1>2. t \in Seq(U) /\ Len(t) = 4 /\ t[1] = c /\ t[2] = d /\ t[3] = e /\ t[4] = f
  OBVIOUS
<1> HIDE DEF s, t, U
<1>3. QED
  BY <1>1, <1>2

\* The script, entry by entry.
LEMMA ScriptFacts ==
  /\ Len(Script) = 6 /\ DOMAIN Script = 1 .. 6
  /\ Script[1] = Use("setup", Serving) /\ Script[2] = Use("setupDeployments", Deployment)
  /\ Script[3] = Use("knativeServingLister", Serving) /\ Script[4] = Use("Lister", Serving)
  /\ Script[5] = Use("handler", Serving) /\ Script[6] = Use("deploymentHandler", Deployment)
BY Joined DEF Script, SetupInformers, NewControllerWithConfig

\* Its types are those of the informers, and no role comes twice.
LEMMA ScriptTypes ==
  /\ StartInformers = 7 /\ WaitForSync = 8 /\ StartAll = 9
  /\ \A i \in DOMAIN Script : /\ Script[i].type \in Types
                              /\ Script[i].role \in Roles
                              /\ \A j \in DOMAIN Script : Script[i].role = Script[j].role => i = j
<1>1. StartInformers = 7 /\ WaitForSync = 8 /\ StartAll = 9
  BY ScriptFacts DEF StartInformers, WaitForSync, StartAll
<1>2. ASSUME NEW i \in DOMAIN Script
      PROVE  Script[i].type \in Types /\ Script[i].role \in Roles
  <2>1. i \in {1, 2, 3, 4, 5, 6}
    BY <1>2, ScriptFacts
  <2>2. QED
    BY <2>1, ScriptFacts, MainAssumption DEF Use, Roles
<1>3. ASSUME NEW i \in DOMAIN Script, NEW j \in DOMAIN Script, Script[i].role = Script[j].role
      PROVE  i = j
  <2>1. i \in {1, 2, 3, 4, 5, 6} /\ j \in {1, 2, 3, 4, 5, 6}
    BY <1>3, ScriptFacts
  <2>2. QED
    BY <1>3, <2>1, ScriptFacts DEF Use
<1>4. QED
  BY <1>1, <1>2, <1>3

-----------------------------------------------------------------------------
(* The two halves of the invariant: main and its informers, and the objects  *)
(* with those who work on them.                                             *)

MainInv ==
  /\ TypeOK /\ stage \in 1 .. StartAll /\ holder \in [Roles -> {None} \cup DOMAIN pool]
  /\ Registry /\ Asks /\ SetUpSoFar /\ RunAndSynced

WorkTyped ==
  /\ api \in [Keys -> Nat] /\ store \in [Keys -> Nat] /\ seen \in [Keys -> Nat]
  /\ reading \in [Keys -> Nat \cup {NotTaken}]
  /\ changes \in Nat /\ faults \in Nat
  /\ deployed \subseteq Keys /\ lasting \subseteq Keys /\ unattended \subseteq Keys
  /\ missed \subseteq Keys
  /\ queue \subseteq Keys
  /\ pending \subseteq [type : Types, key : Keys, tombstone : BOOLEAN]

WorkInv ==
  /\ WorkTyped /\ Phases
  /\ lasting \subseteq Stored
  /\ ExistingIsFound /\ NothingOverlooked

\* The invariant is one half on main and one on the workers.
LEMMA Halves == StartupInv <=> MainInv /\ WorkInv
BY DEF StartupInv, StartupTypeOK, MainInv, WorkInv, WorkTyped

\* A process that has just started satisfies both.
NewProcess ==
  /\ Init
  /\ api \in [Keys -> Nat] /\ deployed \subseteq Keys /\ changes \in Nat /\ faults \in Nat
  /\ lasting = Stored /\ store = NoVersions /\ pending = {}
  /\ stage = 1 /\ holder = Nowhere
  /\ queue = {} /\ reading = NothingTaken /\ seen = NoVersions
  /\ unattended = deployed /\ missed = {}

\* A process that has just started satisfies the invariant.
LEMMA NewProcessInv == NewProcess => StartupInv
<1> SUFFICES ASSUME NewProcess PROVE StartupInv
  OBVIOUS
<1> USE DEF NewProcess
<1>1. FactoryInv
  BY FactoryInit
<1>2. pool = <<>> /\ pc[Main] = "idle" /\ startedInformers = {}
  BY MainAssumption DEF Init, Idle
<1>3. DOMAIN pool = {}
  BY <1>2
<1>4. SyncedOf(Serving) = {} /\ SyncedOf(Deployment) = {}
  BY <1>3 DEF SyncedOf
<1>5. MainInv
  <2>1. TypeOK /\ Registry
    BY <1>1 DEF FactoryInv
  <2>2. stage \in 1 .. StartAll /\ holder \in [Roles -> {None} \cup DOMAIN pool]
    BY ScriptTypes DEF Nowhere
  <2>3. Asks /\ SetUpSoFar /\ RunAndSynced
    BY <1>1, <1>2, <1>3, ScriptTypes, ScriptFacts DEF Asks, SetUpSoFar, RunAndSynced
  <2>4. QED
    BY <2>1, <2>2, <2>3 DEF MainInv
<1>6. WorkInv
  <2>1. WorkTyped
    BY DEF WorkTyped, NoVersions, NothingTaken, NotTaken, Missing, Stored
  <2>2. Phases /\ lasting \subseteq Stored
    BY <1>4 DEF Phases
  <2>3. ExistingIsFound
    BY DEF ExistingIsFound, NothingTaken, NotTaken, Missing
  <2>4. NothingOverlooked
    BY <1>4 DEF NothingOverlooked, Busy, NothingTaken, NoVersions
  <2>5. QED
    BY <2>1, <2>2, <2>3, <2>4 DEF WorkInv
<1>7. QED
  BY <1>5, <1>6, Halves

\* So does the first one.
LEMMA StartupInitInv == StartupInit => StartupInv
<1>1. StartupInit => NewProcess
  <2>1. {Missing, 1} \subseteq Nat
    BY DEF Missing
  <2>2. QED
    BY <2>1 DEF StartupInit, NewProcess
<1>2. QED
  BY <1>1, NewProcessInv

\* A crash leaves a process that starts again.
LEMMA CrashInv == StartupInv /\ Crash => StartupInv'
<1>1. StartupInv /\ Crash => NewProcess'
  <2> SUFFICES ASSUME StartupInv, Crash PROVE NewProcess'
    OBVIOUS
  <2>1. Init'
    BY DEF Crash, Forget, Init
  <2>2. (/\ api \in [Keys -> Nat] /\ deployed \subseteq Keys /\ changes \in Nat /\ faults \in Nat
         /\ lasting = Stored /\ unattended = deployed /\ missed = {})'
    BY DEF Crash, StartupInv, StartupTypeOK, Stored
  <2>3. QED
    BY <2>1, <2>2 DEF Crash, NewProcess
<1>2. NewProcess' => StartupInv'
  BY NewProcessInv, PTL
<1>3. QED
  BY <1>1, <1>2

-----------------------------------------------------------------------------
(* main.                                                                    *)

\* An informer that has synced is the registered one of its type, and main has run it.
LEMMA SyncedFacts ==
  ASSUME MainInv, NEW i \in DOMAIN pool, pool[i].synced
  PROVE  /\ pool[i].type \in Types /\ informers[pool[i].type] = i
         /\ stage > StartInformers
<1>1. pool[i].type \in Types
  BY PoolFacts DEF MainInv, TypeOK, Infos
<1>2. QED
  BY <1>1 DEF MainInv, Registry, RunAndSynced

\* From RunInformers on, everything is set up, on one informer for each type.
LEMMA SetUpFacts ==
  ASSUME MainInv, stage > Len(Script)
  PROVE  /\ holder["setup"] = informers[Serving]
         /\ holder["setupDeployments"] = informers[Deployment]
         /\ \A r \in {"knativeServingLister", "Lister", "handler"} : holder[r] = informers[Serving]
         /\ holder["deploymentHandler"] = informers[Deployment]
         /\ SetUp = {informers[Serving], informers[Deployment]}
         /\ \A t \in Types : informers[t] \in DOMAIN pool /\ pool[informers[t]].type = t
<1>1. /\ stage \in Nat /\ stage > 6
      /\ \A i \in 1 .. 6 : /\ holder[Script[i].role] = informers[Script[i].type]
                           /\ informers[Script[i].type] # None
  BY ScriptFacts, ScriptTypes DEF MainInv, SetUpSoFar
<1>2. /\ holder["setup"] = informers[Serving] /\ informers[Serving] # None
      /\ holder["setupDeployments"] = informers[Deployment] /\ informers[Deployment] # None
  BY <1>1, ScriptFacts DEF Use
<1>3. /\ holder["knativeServingLister"] = informers[Serving]
      /\ holder["Lister"] = informers[Serving] /\ holder["handler"] = informers[Serving]
      /\ holder["deploymentHandler"] = informers[Deployment]
  BY <1>1, ScriptFacts DEF Use
<1>4. \A t \in Types : informers[t] \in DOMAIN pool /\ pool[informers[t]].type = t
  BY <1>2, MainAssumption DEF MainInv, TypeOK, Registry
<1>5. QED
  BY <1>2, <1>3, <1>4 DEF SetUp

\* Until main runs its informers, none has synced.
LEMMA NoneSynced ==
  ASSUME MainInv, stage <= StartInformers, NEW t
  PROVE  SyncedOf(t) = {}
<1>1. \A i \in DOMAIN pool : ~pool[i].synced
  BY ScriptTypes DEF MainInv, RunAndSynced
<1>2. QED
  BY <1>1 DEF SyncedOf

\* What is said of the objects and the workers does not change while main goes on.
LEMMA WorkUnchanged ==
  ASSUME WorkInv, UNCHANGED <<world, watched, workers>>,
         \A t \in Types : SyncedOf(t)' = SyncedOf(t),
         stage' # StartAll => stage # StartAll
  PROVE  WorkInv'
<1> USE DEF world, watched, workers
<1>1. WorkTyped'
  BY DEF WorkInv, WorkTyped
<1>2. Phases'
  BY MainAssumption DEF WorkInv, Phases
<1>3. (lasting \subseteq Stored)'
  BY DEF WorkInv, Stored
<1>4. ExistingIsFound' /\ NothingOverlooked'
  BY MainAssumption DEF WorkInv, ExistingIsFound, NothingOverlooked, Coming, FilterFunc, Busy
<1>5. QED
  BY <1>1, <1>2, <1>3, <1>4 DEF WorkInv

\* main asks the factory for an informer.
LEMMA AskStep ==
  ASSUME MainInv, Ask
  PROVE  MainInv' /\ \A t \in Types : SyncedOf(t)' = SyncedOf(t)
<1> DEFINE t == Script[stage].type
<1>1. stage \in DOMAIN Script /\ stage <= 6 /\ t \in Types /\ Main \in Callers
  BY ScriptFacts, ScriptTypes, MainAssumption DEF MainInv, Ask
<1>2. InformerFor(Main, t) /\ FactoryInv /\ UNCHANGED <<stage, holder>>
  BY <1>1, ScriptTypes DEF Ask, MainInv, RunAndSynced, main
<1>3. FactoryInv'
  BY <1>1, <1>2, InformerForStep
<1>4. UNCHANGED <<informers, startedInformers, pool>>
      /\ pc'[Main] = "lookup" /\ asked'[Main] = t
  BY <1>1, <1>2 DEF InformerFor, Goto, FactoryInv, TypeOK
<1>5. TypeOK' /\ Registry'
  BY <1>3 DEF FactoryInv
<1>6. Asks'
  BY <1>1, <1>2, <1>4, ScriptFacts DEF Asks
<1>7. SetUpSoFar' /\ RunAndSynced'
  BY <1>1, <1>2, <1>3, <1>4, ScriptTypes DEF MainInv, SetUpSoFar, RunAndSynced
<1>8. (stage \in 1 .. StartAll /\ holder \in [Roles -> {None} \cup DOMAIN pool])'
  BY <1>2, <1>4 DEF MainInv
<1>9. QED
  BY <1>4, <1>5, <1>6, <1>7, <1>8 DEF MainInv, SyncedOf

\* What InformerFor answers: the registered informer of the type, old or new.
LEMMA AnswerFacts ==
  ASSUME FactoryInv, Main \in Callers, Lookup(Main) \/ Create(Main), startedInformers = {}
  PROVE  /\ FactoryInv' /\ UNCHANGED startedInformers
         /\ asked[Main] \in Types
         /\ \A t \in Types : informers[t] # None => informers'[t] = informers[t]
         /\ pc'[Main] # "idle" => /\ pc'[Main] = "create"
                                  /\ asked' = asked
         /\ pc'[Main] = "idle" =>
              /\ holds'[Main][asked[Main]] = informers'[asked[Main]]
              /\ informers'[asked[Main]] # None
         /\ DOMAIN pool \subseteq DOMAIN pool'
         /\ \A i \in DOMAIN pool' : pool'[i].synced => i \in DOMAIN pool /\ pool[i].synced
<1>1. FactoryInv' /\ UNCHANGED startedInformers /\ asked[Main] \in Types
  BY LookupStep, CreateStep DEF Lookup, Create, FactoryInv, Asking, At
<1>2. CASE Lookup(Main)
  <2>1. UNCHANGED <<informers, pool>>
    BY <1>2 DEF Lookup
  <2>2. CASE informers[asked[Main]] # None
    <3>1. Return(Main, informers[asked[Main]])
      BY <1>2, <2>2 DEF Lookup, Found
    <3>2. pc'[Main] = "idle" /\ holds'[Main][asked[Main]] = informers[asked[Main]]
      BY <1>1, <3>1 DEF Return, Goto, FactoryInv, TypeOK
    <3>3. QED
      BY <1>1, <2>1, <2>2, <3>2
  <2>3. CASE informers[asked[Main]] = None
    <3>1. pc'[Main] = "create" /\ asked' = asked
      BY <1>2, <2>3 DEF Lookup, Found, Return, Goto, FactoryInv, TypeOK
    <3>2. QED
      BY <1>1, <2>1, <3>1
  <2>4. QED
    BY <2>2, <2>3
<1>3. CASE Create(Main)
  <2> DEFINE n == Len(pool) + 1
             e == [type |-> asked[Main], runs |-> 0, synced |-> FALSE]
  <2>1. informers[asked[Main]] = None
    BY <1>3 DEF Create, FactoryInv, Asking, At
  <2>2. pool \in Seq(Infos) /\ e \in Infos /\ ~e.synced
    BY <1>1 DEF FactoryInv, TypeOK, Infos
  <2>3. pool' = Append(pool, e)
    BY <1>3 DEF Create
  <2> HIDE DEF e
  <2>4. /\ DOMAIN pool' = DOMAIN pool \cup {n} /\ pool'[n] = e /\ n # None
        /\ \A i \in DOMAIN pool : pool'[i] = pool[i]
    BY <2>2, <2>3, AppendFacts, PoolFacts DEF None
  <2>5. Return(Main, n) /\ informers' = [informers EXCEPT ![asked[Main]] = n]
    BY <1>3 DEF Create, NewPlace
  <2> HIDE DEF n
  <2>6. /\ informers'[asked[Main]] = n
        /\ \A t \in Types : informers[t] # None => informers'[t] = informers[t]
    BY <1>1, <2>1, <2>5 DEF FactoryInv, TypeOK
  <2>7. pc'[Main] = "idle" /\ holds'[Main][asked[Main]] = n
    BY <1>1, <2>5 DEF Return, Goto, FactoryInv, TypeOK
  <2>8. DOMAIN pool \subseteq DOMAIN pool'
    BY <2>4
  <2>9. \A i \in DOMAIN pool' : pool'[i].synced => i \in DOMAIN pool /\ pool[i].synced
    BY <2>2, <2>4
  <2>10. QED
    BY <1>1, <2>4, <2>6, <2>7, <2>8, <2>9
<1>4. QED
  BY <1>2, <1>3

\* The factory gives main the informer of the type.
LEMMA AnswerStep ==
  ASSUME MainInv, Answer
  PROVE  MainInv' /\ (\A t \in Types : SyncedOf(t)' = SyncedOf(t))
                  /\ stage # StartAll
<1> DEFINE t == Script[stage].type
           r == Script[stage].role
<1>1. Main \in Callers /\ pc[Main] # "idle"
  BY MainAssumption DEF Answer, Lookup, Create, At
<1>2. stage \in DOMAIN Script /\ stage \in 1 .. 6 /\ t \in Types /\ r \in Roles /\ asked[Main] = t
  BY <1>1, ScriptFacts, ScriptTypes DEF MainInv, Asks
<1>3. FactoryInv /\ startedInformers = {}
  BY <1>2, ScriptTypes DEF MainInv, RunAndSynced
<1>4. /\ FactoryInv' /\ UNCHANGED startedInformers
      /\ \A u \in Types : informers[u] # None => informers'[u] = informers[u]
      /\ pc'[Main] # "idle" => pc'[Main] = "create" /\ asked' = asked
      /\ pc'[Main] = "idle" => holds'[Main][t] = informers'[t] /\ informers'[t] # None
      /\ DOMAIN pool \subseteq DOMAIN pool'
      /\ \A i \in DOMAIN pool' : pool'[i].synced => i \in DOMAIN pool /\ pool[i].synced
  BY <1>1, <1>2, <1>3, AnswerFacts DEF Answer
<1>5. \A i \in DOMAIN pool' : ~pool'[i].synced
  BY <1>2, <1>4, ScriptTypes DEF MainInv, RunAndSynced
<1>6. TypeOK' /\ Registry'
  BY <1>4 DEF FactoryInv
<1>7. stage' \in 1 .. 7 /\ Asks' /\ SetUpSoFar' /\ (holder \in [Roles -> {None} \cup DOMAIN pool])'
  <2>1. CASE pc'[Main] = "idle"
    <3>1. stage' = stage + 1 /\ holder' = [holder EXCEPT ![r] = informers'[t]]
      BY <1>4, <2>1 DEF Answer
    <3>2. informers'[t] \in {None} \cup DOMAIN pool'
      BY <1>2, <1>6 DEF TypeOK
    <3>3. holder \in [Roles -> {None} \cup DOMAIN pool']
      BY <1>4 DEF MainInv
    <3> HIDE DEF r, t
    <3>4. /\ holder' \in [Roles -> {None} \cup DOMAIN pool'] /\ holder'[r] = informers'[t]
          /\ \A s \in Roles : s # r => holder'[s] = holder[s]
      BY <1>2, <3>1, <3>2, <3>3
    <3>5. ASSUME NEW i \in DOMAIN Script, i < stage'
          PROVE  holder'[Script[i].role] = informers'[Script[i].type]
                 /\ informers'[Script[i].type] # None
      <4>1. CASE i = stage
        BY <1>4, <2>1, <3>4, <4>1 DEF r, t
      <4>2. CASE i # stage
        <5>1. i < stage /\ Script[i].role # r /\ Script[i].role \in Roles
              /\ Script[i].type \in Types
          BY <1>2, <3>1, <3>5, <4>2, ScriptFacts, ScriptTypes DEF r
        <5>2. QED
          BY <1>4, <3>4, <5>1 DEF MainInv, SetUpSoFar
      <4>3. QED
        BY <4>1, <4>2
    <3>6. SetUpSoFar'
      BY <3>5 DEF SetUpSoFar
    <3>7. stage' \in 1 .. 7 /\ Asks'
      BY <1>2, <2>1, <3>1 DEF Asks
    <3>8. QED
      BY <3>4, <3>6, <3>7
  <2>2. CASE pc'[Main] # "idle"
    <3>1. UNCHANGED <<stage, holder, asked>> /\ pc'[Main] = "create"
      BY <1>4, <2>2 DEF Answer, main
    <3>2. stage' \in 1 .. 7 /\ Asks'
      BY <1>2, <3>1, ScriptFacts DEF Asks
    <3>3. SetUpSoFar'
      BY <1>2, <1>4, <3>1, ScriptTypes DEF MainInv, SetUpSoFar
    <3>4. holder' \in [Roles -> {None} \cup DOMAIN pool']
      BY <1>4, <3>1 DEF MainInv
    <3>5. QED
      BY <3>2, <3>3, <3>4
  <2>3. QED
    BY <2>1, <2>2
<1>8. RunAndSynced'
  BY <1>3, <1>4, <1>5, <1>7, ScriptTypes DEF RunAndSynced
<1>9. \A u \in Types : SyncedOf(u)' = SyncedOf(u)
  BY <1>2, <1>5, ScriptTypes, NoneSynced DEF SyncedOf
<1>10. stage' \in 1 .. StartAll /\ stage # StartAll
  BY <1>2, <1>7, ScriptTypes
<1>11. QED
  BY <1>6, <1>7, <1>8, <1>9, <1>10 DEF MainInv

\* A pool in which informers have run or synced: each is still where it was.
LEMMA SamePlaces ==
  ASSUME MainInv, UNCHANGED <<lock, informers, startedInformers, stopped, caller, holder>>,
         pool' \in Seq(Infos), DOMAIN pool' = DOMAIN pool,
         \A i \in DOMAIN pool : pool'[i].type = pool[i].type
  PROVE  TypeOK' /\ Registry' /\ (holder \in [Roles -> {None} \cup DOMAIN pool])'
<1> USE DEF caller
<1>1. TypeOK'
  BY DEF MainInv, TypeOK
<1>2. Registry'
  BY DEF MainInv, TypeOK, Registry
<1>3. (holder \in [Roles -> {None} \cup DOMAIN pool])'
  BY DEF MainInv
<1>4. QED
  BY <1>1, <1>2, <1>3

\* StartInformers runs all that main has set up.
LEMMA RunInformersStep ==
  ASSUME MainInv, RunInformers
  PROVE  MainInv' /\ (\A t \in Types : SyncedOf(t)' = SyncedOf(t)) /\ stage # StartAll
<1> DEFINE e(i) == IF i \in SetUp THEN [pool[i] EXCEPT !.runs = @ + 1] ELSE pool[i]
<1>1. pool \in Seq(Infos) /\ pool' = [i \in DOMAIN pool |-> e(i)]
  BY DEF MainInv, TypeOK, RunInformers
<1>2. \A i \in DOMAIN pool : /\ e(i) \in Infos /\ e(i).type = pool[i].type
                             /\ e(i).synced = pool[i].synced
  <2> SUFFICES ASSUME NEW i \in DOMAIN pool
               PROVE  e(i) \in Infos /\ e(i).type = pool[i].type /\ e(i).synced = pool[i].synced
    OBVIOUS
  <2> DEFINE f == [pool[i] EXCEPT !.runs = @ + 1]
  <2>1. pool[i] \in Infos
    BY <1>1, PoolFacts
  <2>2. f \in Infos /\ f.type = pool[i].type /\ f.synced = pool[i].synced
    BY <2>1 DEF Infos
  <2>3. e(i) = IF i \in SetUp THEN f ELSE pool[i]
    OBVIOUS
  <2> HIDE DEF e, f
  <2>4. QED
    BY <2>1, <2>2, <2>3, Zenon
<1> HIDE DEF e
<1>3. /\ pool' \in Seq(Infos) /\ DOMAIN pool' = DOMAIN pool
      /\ \A i \in DOMAIN pool : pool'[i] = e(i)
  <2>1. DOMAIN pool = 1 .. Len(pool) /\ Len(pool) \in Nat
    BY <1>1
  <2>2. pool' \in [1 .. Len(pool) -> Infos]
    BY <1>1, <1>2, <2>1
  <2>3. QED
    BY <1>1, <2>1, <2>2
<1>4. \A i \in DOMAIN pool : pool'[i].type = pool[i].type /\ pool'[i].synced = pool[i].synced
  BY <1>2, <1>3, Zenon
<1>5. stage = 7 /\ stage' = 8
      /\ UNCHANGED <<lock, informers, startedInformers, stopped, caller, holder>>
  BY ScriptTypes DEF RunInformers
<1>6. TypeOK' /\ Registry' /\ (holder \in [Roles -> {None} \cup DOMAIN pool])'
  BY <1>3, <1>4, <1>5, SamePlaces
<1>7. Asks' /\ SetUpSoFar'
  <2>1. pc' = pc /\ asked' = asked
    BY <1>5 DEF caller
  <2>2. pc[Main] = "idle"
    BY <1>5, ScriptFacts DEF MainInv, Asks
  <2>3. Asks'
    BY <2>1, <2>2 DEF Asks
  <2>4. SetUpSoFar'
    BY <1>5, ScriptFacts DEF MainInv, SetUpSoFar
  <2>5. QED
    BY <2>3, <2>4
<1>8. RunAndSynced'
  BY <1>3, <1>4, <1>5, ScriptTypes DEF MainInv, RunAndSynced
<1>9. \A t \in Types : SyncedOf(t)' = SyncedOf(t)
  BY <1>3, <1>4 DEF SyncedOf
<1>10. QED
  BY <1>5, <1>6, <1>7, <1>8, <1>9, ScriptTypes DEF MainInv

\* StartInformers has waited for all of them.
LEMMA StartedStep ==
  ASSUME MainInv, Started
  PROVE  MainInv' /\ \A t \in Types : SyncedOf(t)' = SyncedOf(t)
<1>1. stage = 8 /\ stage' = 9 /\ AllSynced /\ UNCHANGED <<informerVars, holder>>
  BY ScriptTypes DEF Started
<1> USE DEF informerVars, factory, caller
<1>2. TypeOK' /\ Registry'
  BY <1>1 DEF MainInv, TypeOK, Registry
<1>3. Asks' /\ SetUpSoFar'
  BY <1>1, ScriptFacts DEF MainInv, Asks, SetUpSoFar
<1>4. RunAndSynced'
  BY <1>1, ScriptTypes DEF MainInv, RunAndSynced, AllSynced, SetUp
<1>5. QED
  BY <1>1, <1>2, <1>3, <1>4, ScriptTypes DEF MainInv, SyncedOf

\* What main has set up is not touched by the cluster and the workers.
LEMMA MainUnchanged ==
  ASSUME MainInv, UNCHANGED <<informerVars, main>>
  PROVE  MainInv' /\ (\A t \in Types : SyncedOf(t)' = SyncedOf(t)) /\ stage' = stage
<1> USE DEF informerVars, factory, caller, main
<1>1. TypeOK' /\ Registry'
  BY DEF MainInv, TypeOK, Registry
<1>2. Asks' /\ SetUpSoFar'
  BY DEF MainInv, Asks, SetUpSoFar
<1>3. FactoryInv => FactoryInv'
  BY DEF FactoryInv, TypeOK, LockHeld, Inside, Registry, Running, Registered,
         Asking, Holding, Relying, Waiting, At
<1>4. RunAndSynced'
  BY <1>3 DEF MainInv, RunAndSynced, AllSynced, SetUp
<1>5. QED
  BY <1>1, <1>2, <1>4 DEF MainInv, SyncedOf

\* A list changes what the informer has, and that it has synced.
LEMMA SyncsOne ==
  ASSUME MainInv, NEW i \in DOMAIN pool, Sync(i), UNCHANGED main
  PROVE  /\ MainInv' /\ stage' = stage
         /\ pool[i].type \in Types /\ informers[pool[i].type] = i
         /\ stage > StartInformers /\ stage # StartAll
         /\ \A t \in Types : IF t = pool[i].type
                             THEN SyncedOf(t) = {} /\ SyncedOf(t)' # {}
                             ELSE SyncedOf(t)' = SyncedOf(t)
<1> DEFINE e == [pool[i] EXCEPT !.synced = TRUE]
<1>1. pool \in Seq(Infos) /\ pool[i] \in Infos /\ pool[i].runs > 0 /\ ~pool[i].synced
  BY PoolFacts DEF MainInv, TypeOK, Sync
<1>2. e \in Infos /\ e.type = pool[i].type /\ e.synced
  BY <1>1 DEF Infos
<1>3. pool' = [pool EXCEPT ![i] = e]
      /\ UNCHANGED <<lock, informers, startedInformers, stopped, caller, holder, stage>>
  BY DEF Sync, main
<1> HIDE DEF e
<1>4. /\ pool' \in Seq(Infos) /\ DOMAIN pool' = DOMAIN pool /\ pool'[i] = e
      /\ \A j \in DOMAIN pool : j # i => pool'[j] = pool[j]
  BY <1>1, <1>2, <1>3, ReplaceFacts
<1>5. \A j \in DOMAIN pool : pool'[j].type = pool[j].type
  BY <1>2, <1>4
<1>6. \A j \in DOMAIN pool : pool[j].synced => pool'[j].synced
  BY <1>2, <1>4, Zenon
<1>7. TypeOK' /\ Registry' /\ (holder \in [Roles -> {None} \cup DOMAIN pool])'
  BY <1>3, <1>4, <1>5, SamePlaces
<1>8. pool[i].type \in Types /\ informers[pool[i].type] = i
  BY <1>1 DEF MainInv, Registry, Infos
<1>9. stage > StartInformers /\ stage \in Nat
  <2>1. ASSUME stage <= StartInformers PROVE FALSE
    BY <1>1, <2>1 DEF MainInv, RunAndSynced, FactoryInv, Running
  <2>2. QED
    BY <2>1, ScriptTypes DEF MainInv
<1>10. SetUp = {informers[Serving], informers[Deployment]}
       /\ \A t \in Types : informers[t] \in DOMAIN pool
  BY <1>9, SetUpFacts, ScriptFacts, ScriptTypes
<1>11. stage # StartAll
  <2>1. i \in SetUp
    BY <1>8, <1>10, MainAssumption
  <2>2. ~AllSynced
    BY <1>1, <2>1 DEF AllSynced
  <2>3. QED
    BY <2>2 DEF MainInv, RunAndSynced
<1>12. Asks' /\ SetUpSoFar' /\ RunAndSynced'
  <2>1. Asks' /\ SetUpSoFar'
    BY <1>3 DEF MainInv, Asks, SetUpSoFar, caller
  <2>2. RunAndSynced'
    BY <1>3, <1>4, <1>9, <1>11, ScriptTypes DEF MainInv, RunAndSynced
  <2>3. QED
    BY <2>1, <2>2
<1>13. SyncedOf(pool[i].type) = {}
  <2>1. ASSUME NEW j \in SyncedOf(pool[i].type) PROVE FALSE
    <3>1. j \in DOMAIN pool /\ pool[j].type = pool[i].type /\ pool[j].synced
      BY <2>1 DEF SyncedOf
    <3>2. j = i
      BY <1>8, <3>1 DEF MainInv, Registry
    <3>3. QED
      BY <1>1, <3>1, <3>2
  <2>2. QED
    BY <2>1
<1>14. ASSUME NEW t \in Types, t = pool[i].type PROVE SyncedOf(t)' # {}
  <2>1. i \in DOMAIN pool' /\ pool'[i].type = t /\ pool'[i].synced
    BY <1>2, <1>4, <1>5, <1>14
  <2>2. i \in SyncedOf(t)'
    BY <2>1 DEF SyncedOf
  <2>3. QED
    BY <2>2
<1>15. ASSUME NEW t \in Types, t # pool[i].type PROVE SyncedOf(t)' = SyncedOf(t)
  BY <1>4, <1>5, <1>15 DEF SyncedOf
<1>16. QED
  BY <1>3, <1>7, <1>8, <1>9, <1>11, <1>12, <1>13, <1>14, <1>15 DEF MainInv

\* All steps of main.
LEMMA MainStepInv ==
  ASSUME MainInv, WorkInv, MainStep
  PROVE  MainInv' /\ WorkInv'
<1>1. CASE Ask
  BY <1>1, AskStep, WorkUnchanged DEF Ask, main
<1>2. CASE Answer
  BY <1>2, AnswerStep, WorkUnchanged DEF Answer
<1>3. CASE RunInformers
  BY <1>3, RunInformersStep, WorkUnchanged DEF RunInformers
<1>4. CASE Started
  <2>1. stage # StartAll
    BY <1>4, ScriptTypes DEF Started
  <2>2. QED
    BY <1>4, <2>1, StartedStep, WorkUnchanged DEF Started
<1>5. QED
  BY <1>1, <1>2, <1>3, <1>4 DEF MainStep

-----------------------------------------------------------------------------
(* The cluster, the informers and the workers.                              *)

\* An informer of KnativeServings that has synced hands its changes to the handler,
\* and one of deployments to theirs.
LEMMA HandledFacts ==
  ASSUME MainInv, stage > StartInformers, NEW t \in Types, NEW keys, NEW d \in BOOLEAN
  PROVE  Handled(informers[t], t, keys, d) = [type : {t}, key : keys, tombstone : {d}]
<1>1. stage > Len(Script)
  BY ScriptFacts, ScriptTypes DEF MainInv
<1>2. QED
  BY <1>1, SetUpFacts, MainAssumption DEF Handled

\* What happens to an object reaches the handler if the informer of its type has synced.
LEMMA SyncedTold ==
  ASSUME MainInv, NEW t \in Types, SyncedOf(t) # {}, NEW k, NEW d \in BOOLEAN
  PROVE  [type |-> t, key |-> k, tombstone |-> d] \in Told(t, k, d)
<1>1. PICK i \in SyncedOf(t) : TRUE
  OBVIOUS
<1>2. \A j \in SyncedOf(t) : j = informers[t] /\ stage > StartInformers
  BY SyncedFacts DEF SyncedOf
<1>3. \A j \in SyncedOf(t) : Handled(j, t, {k}, d) = [type : {t}, key : {k}, tombstone : {d}]
  BY <1>2, HandledFacts
<1> DEFINE S == [type : {t}, key : {k}, tombstone : {d}]
<1>4. \A j \in SyncedOf(t) : Handled(j, t, {k}, d) = S
  BY <1>3
<1> HIDE DEF S
<1>5. UNION {Handled(j, t, {k}, d) : j \in SyncedOf(t)} = S
  BY <1>1, <1>4
<1>6. [type |-> t, key |-> k, tombstone |-> d] \in S
  BY DEF S
<1>7. QED
  BY <1>5, <1>6 DEF Told

\* What reaches a handler is an event.
LEMMA ToldTyped ==
  ASSUME NEW t \in Types, NEW k \in Keys, NEW d \in BOOLEAN
  PROVE  Told(t, k, d) \subseteq [type : Types, key : Keys, tombstone : BOOLEAN]
<1>1. ASSUME NEW i
      PROVE  Handled(i, t, {k}, d) \subseteq [type : Types, key : Keys, tombstone : BOOLEAN]
  BY DEF Handled
<1>2. QED
  BY <1>1 DEF Told

\* A key stays on its way to a worker until one takes it, and a new event is one.
LEMMA StillComing ==
  ASSUME pending \subseteq pending', queue \subseteq queue', NEW k, Coming(k)
  PROVE  Coming(k)'
BY DEF Coming, FilterFunc

\* A key with an event that is no tombstone is on its way.
LEMMA NowComing ==
  ASSUME NEW t, NEW k, [type |-> t, key |-> k, tombstone |-> FALSE] \in pending'
  PROVE  Coming(k)'
<1> DEFINE e == [type |-> t, key |-> k, tombstone |-> FALSE]
<1>1. e.key = k /\ ~e.tombstone
  OBVIOUS
<1> HIDE DEF e
<1>2. e \in pending'
  BY DEF e
<1>3. QED
  BY <1>1, <1>2 DEF Coming, FilterFunc

\* A KnativeServing is created, changed or deleted.
LEMMA ChangeServingStep ==
  ASSUME WorkInv, NEW k \in Keys, NEW v \in {Missing, changes + 2}, ChangeServing(k, v)
  PROVE  WorkInv'
<1> USE DEF WorkInv, ChangeServing, watched, main, workers, informerVars, factory
<1>1. WorkTyped'
  BY DEF WorkTyped, Missing
<1>2. Phases'
  BY DEF Phases, SyncedOf
<1>3. (lasting \subseteq Stored)'
  BY DEF WorkTyped, Stored, Missing
<1>4. ExistingIsFound' /\ NothingOverlooked'
  BY DEF ExistingIsFound, NothingOverlooked, Coming, FilterFunc, Busy, SyncedOf
<1>5. QED
  BY <1>1, <1>2, <1>3, <1>4

\* A deployment changes.
LEMMA ChangeDeploymentStep ==
  ASSUME MainInv, WorkInv, NEW k \in Keys, ChangeDeployment(k)
  PROVE  WorkInv'
<1> USE DEF WorkInv, ChangeDeployment, main, informerVars, factory
<1> DEFINE new == Told(Deployment, k, FALSE)
<1>1. new \subseteq [type : Types, key : Keys, tombstone : BOOLEAN]
  BY ToldTyped, MainAssumption
<1>2. SyncedOf(Deployment) # {} => [type |-> Deployment, key |-> k, tombstone |-> FALSE] \in new
  BY SyncedTold, MainAssumption
<1>3. pending' = pending \cup new
  OBVIOUS
<1> HIDE DEF new
<1>4. WorkTyped'
  <2>1. pending' \subseteq [type : Types, key : Keys, tombstone : BOOLEAN]
    BY <1>1, <1>3 DEF WorkTyped
  <2>2. deployed' \subseteq Keys /\ unattended' \subseteq Keys /\ changes' \in Nat
    BY DEF WorkTyped
  <2>3. QED
    BY <2>1, <2>2 DEF WorkTyped
<1>5. Phases'
  BY DEF Phases, SyncedOf
<1>6. (lasting \subseteq Stored)'
  BY DEF Stored
<1>7. ExistingIsFound'
  BY DEF ExistingIsFound
<1>8. NothingOverlooked'
  <2>1. SyncedOf(Deployment)' = SyncedOf(Deployment)
    BY DEF SyncedOf
  <2>2. \A j \in Keys : Coming(j) => Coming(j)'
    BY <1>3, StillComing
  <2>3. SyncedOf(Deployment) # {} => Coming(k)'
    BY <1>2, <1>3, NowComing
  <2>4. QED
    BY <2>1, <2>2, <2>3 DEF NothingOverlooked, Busy
<1>9. QED
  BY <1>4, <1>5, <1>6, <1>7, <1>8

\* A deployment is deleted, before its informer has listed, seen or unseen.
LEMMA DeleteDeploymentStep ==
  ASSUME MainInv, WorkInv, NEW k \in Keys, DeleteDeployment(k)
  PROVE  WorkInv'
<1> USE DEF WorkInv, DeleteDeployment, main, informerVars, factory
<1>1. SyncedOf(Deployment)' = SyncedOf(Deployment) /\ SyncedOf(Serving)' = SyncedOf(Serving)
  BY DEF SyncedOf
<1>2. pending \subseteq pending' /\ pending' \subseteq [type : Types, key : Keys, tombstone : BOOLEAN]
  <2>1. \A d \in BOOLEAN :
          Told(Deployment, k, d) \subseteq [type : Types, key : Keys, tombstone : BOOLEAN]
    BY ToldTyped, MainAssumption
  <2>2. \/ pending' = pending
        \/ \E d \in BOOLEAN : pending' = pending \cup Told(Deployment, k, d)
    OBVIOUS
  <2>3. QED
    BY <2>1, <2>2 DEF WorkTyped
<1>3. WorkTyped'
  <2>1. deployed' \subseteq Keys /\ unattended' \subseteq Keys /\ missed' \subseteq Keys /\ changes' \in Nat
    <3>1. deployed' \subseteq Keys /\ unattended' \subseteq Keys /\ missed' \subseteq Keys
      BY DEF WorkTyped
    <3>2. changes' \in Nat
      BY DEF WorkTyped
    <3>3. QED
      BY <3>1, <3>2
  <2>2. UNCHANGED <<api, store, seen, reading, faults, lasting, queue>>
    OBVIOUS
  <2>3. QED
    BY <1>2, <2>1, <2>2 DEF WorkTyped
<1>4. Phases'
  BY <1>1 DEF Phases
<1>5. (lasting \subseteq Stored)' /\ ExistingIsFound'
  BY DEF Stored, ExistingIsFound
<1>6. NothingOverlooked'
  <2>1. \A j \in Keys : Coming(j) => Coming(j)'
    BY <1>2, StillComing
  <2>2. ASSUME NEW j \in unattended', SyncedOf(Deployment) # {}, j \notin unattended
        PROVE  Coming(j)'
    <3>1. j = k /\ pending' = pending \cup Told(Deployment, k, FALSE)
      BY <2>2
    <3>2. [type |-> Deployment, key |-> k, tombstone |-> FALSE] \in pending'
      BY <2>2, <3>1, SyncedTold, MainAssumption
    <3>3. QED
      BY <3>1, <3>2, NowComing
  <2>3. QED
    BY <1>1, <2>1, <2>2 DEF NothingOverlooked, Busy
<1>7. QED
  BY <1>3, <1>4, <1>5, <1>6

\* An informer hands out again what it has.
LEMMA ResyncStep ==
  ASSUME WorkInv, NEW t \in Types, NEW k \in Keys, Resync(t, k)
  PROVE  WorkInv'
<1> USE DEF WorkInv, Resync, main, informerVars, factory, world, workers
<1>1. Told(t, k, FALSE) \subseteq [type : Types, key : Keys, tombstone : BOOLEAN]
  BY ToldTyped
<1>2. SyncedOf(Deployment)' = SyncedOf(Deployment) /\ SyncedOf(Serving)' = SyncedOf(Serving)
  BY DEF SyncedOf
<1>3. WorkTyped'
  BY <1>1 DEF WorkTyped
<1>4. Phases' /\ (lasting \subseteq Stored)' /\ ExistingIsFound'
  BY <1>2 DEF Phases, Stored, ExistingIsFound
<1>5. NothingOverlooked'
  <2>1. \A j \in Keys : Coming(j) => Coming(j)'
    BY StillComing
  <2>2. QED
    BY <1>2, <2>1 DEF NothingOverlooked, Busy
<1>6. QED
  BY <1>3, <1>4, <1>5

\* The watch tells the informer.
LEMMA ObserveStep ==
  ASSUME MainInv, WorkInv, NEW k \in Keys, Observe(k)
  PROVE  WorkInv'
<1> USE DEF WorkInv, Observe, main, informerVars, factory, world, workers
<1> DEFINE new == Told(Serving, k, FALSE)
<1>1. /\ new \subseteq [type : Types, key : Keys, tombstone : BOOLEAN]
      /\ [type |-> Serving, key |-> k, tombstone |-> FALSE] \in new
  BY ToldTyped, SyncedTold, MainAssumption
<1>2. pending' = pending \cup new
  OBVIOUS
<1> HIDE DEF new
<1>3. WorkTyped'
  BY <1>1, <1>2 DEF WorkTyped
<1>4. Phases'
  BY DEF Phases, SyncedOf, WorkTyped, Stored
<1>5. (lasting \subseteq Stored)'
  BY DEF Stored
<1>6. ExistingIsFound'
  BY DEF ExistingIsFound
<1>7. NothingOverlooked'
  <2>1. SyncedOf(Deployment)' = SyncedOf(Deployment)
    BY DEF SyncedOf
  <2>2. (\A j \in Keys : Coming(j) => Coming(j)') /\ Coming(k)'
    BY <1>1, <1>2, StillComing, NowComing
  <2>3. \A j \in Keys : j # k => store'[j] = store[j]
    BY DEF WorkTyped
  <2>4. QED
    BY <2>1, <2>2, <2>3 DEF NothingOverlooked, Busy
<1>8. QED
  BY <1>3, <1>4, <1>5, <1>6, <1>7

\* A handler puts a key in the queue.
LEMMA DeliverStep ==
  ASSUME WorkInv, NEW e \in pending, Deliver(e)
  PROVE  WorkInv'
<1> USE DEF WorkInv, Deliver, main, informerVars, factory, world
<1>1. e.key \in Keys
  BY DEF WorkTyped
<1>2. WorkTyped'
  BY <1>1 DEF WorkTyped, Enqueued
<1>3. Phases'
  BY DEF Phases, SyncedOf
<1>4. (lasting \subseteq Stored)' /\ ExistingIsFound'
  BY DEF Stored, ExistingIsFound
<1>5. NothingOverlooked'
  <2>1. SyncedOf(Deployment)' = SyncedOf(Deployment)
    BY DEF SyncedOf
  <2>2. \A j \in Keys : Coming(j) => Coming(j)'
    BY DEF Coming, Enqueued
  <2>3. QED
    BY <2>1, <2>2 DEF NothingOverlooked, Busy
<1>6. QED
  BY <1>2, <1>3, <1>4, <1>5

\* A worker reads what the informer has, as that has synced by then.
LEMMA ReadFacts ==
  ASSUME MainInv, stage = StartAll
  PROVE  /\ SyncedOf(Serving) # {}
         /\ \A k : Read(k) = store[k]
<1>1. stage > Len(Script)
  BY ScriptFacts, ScriptTypes
<1>2. /\ informers[Serving] \in SetUp /\ holder["Lister"] = informers[Serving]
      /\ informers[Serving] \in DOMAIN pool /\ pool[informers[Serving]].type = Serving
  BY <1>1, SetUpFacts, MainAssumption
<1>3. pool[informers[Serving]].synced
  BY <1>2 DEF MainInv, RunAndSynced, AllSynced
<1>4. QED
  BY <1>2, <1>3 DEF SyncedOf, Read

\* A worker takes a key and reads the cache.
LEMMA TakeStep ==
  ASSUME MainInv, WorkInv, NEW k \in Keys, Take(k)
  PROVE  WorkInv'
<1> USE DEF WorkInv, Take, main, informerVars, factory, world, watched
<1>1. Read(k) = store[k] /\ SyncedOf(Serving) # {}
  BY ReadFacts
<1>2. store[k] \in Nat /\ store[k] # NotTaken
  BY DEF WorkTyped, NotTaken
<1>3. reading' = [reading EXCEPT ![k] = store[k]]
  BY <1>1
<1>4. WorkTyped'
  BY <1>2, <1>3 DEF WorkTyped
<1>5. Phases'
  BY DEF Phases, SyncedOf
<1>6. (lasting \subseteq Stored)'
  BY DEF Stored
<1>7. ExistingIsFound'
  BY <1>1, <1>3 DEF Phases, ExistingIsFound, WorkTyped
<1>8. NothingOverlooked'
  <2>1. SyncedOf(Deployment)' = SyncedOf(Deployment)
    BY DEF SyncedOf
  <2>2. k \in Busy' /\ reading'[k] = store[k]
    BY <1>2, <1>3 DEF Busy, WorkTyped
  <2>3. \A j \in Keys : j # k => /\ Coming(j) => Coming(j)'
                                 /\ j \in Busy' <=> j \in Busy
                                 /\ reading'[j] = reading[j]
    BY <1>3 DEF Coming, Busy, WorkTyped
  <2>4. QED
    BY <2>1, <2>2, <2>3 DEF NothingOverlooked
<1>9. QED
  BY <1>4, <1>5, <1>6, <1>7, <1>8

\* A worker is done with a key.
LEMMA FinishStep ==
  ASSUME MainInv, WorkInv, NEW k \in Keys, Finish(k)
  PROVE  WorkInv'
<1> USE DEF WorkInv, Finish, PutDown, main, informerVars, factory, world, watched
<1>1. reading[k] \in Nat /\ reading[k] # NotTaken
  BY DEF WorkTyped, Busy
<1>2. WorkTyped'
  BY <1>1 DEF WorkTyped
<1>3. stage = StartAll
  BY <1>1 DEF Phases, NothingTaken
<1>4. Phases'
  BY <1>3 DEF Phases, SyncedOf
<1>5. (lasting \subseteq Stored)'
  BY DEF Stored
<1>6. ExistingIsFound'
  BY DEF ExistingIsFound, WorkTyped, NotTaken, Missing
<1>7. NothingOverlooked'
  <2>1. SyncedOf(Deployment)' = SyncedOf(Deployment)
    BY DEF SyncedOf
  <2>2. k \in Busy /\ k \notin Busy' /\ seen'[k] = reading[k]
    BY DEF Busy, WorkTyped
  <2>3. \A j \in Keys : j # k => /\ j \in Busy' <=> j \in Busy
                                 /\ reading'[j] = reading[j] /\ seen'[j] = seen[j]
    BY DEF Busy, WorkTyped
  <2>4. \A j \in Keys : Coming(j)' <=> Coming(j)
    BY DEF Coming
  <2>5. QED
    BY <2>1, <2>2, <2>3, <2>4 DEF NothingOverlooked
<1>8. QED
  BY <1>2, <1>4, <1>5, <1>6, <1>7

\* A worker fails and the key is queued again.
LEMMA FailStep ==
  ASSUME MainInv, WorkInv, NEW k \in Keys, Fail(k)
  PROVE  WorkInv'
<1> USE DEF WorkInv, Fail, PutDown, main, informerVars, factory, watched
<1>1. reading[k] # NotTaken
  BY DEF Busy
<1>2. WorkTyped'
  BY DEF WorkTyped
<1>3. stage = StartAll
  BY <1>1 DEF Phases, NothingTaken
<1>4. Phases'
  BY <1>3 DEF Phases, SyncedOf
<1>5. (lasting \subseteq Stored)'
  BY DEF Stored
<1>6. ExistingIsFound'
  BY DEF ExistingIsFound, WorkTyped, NotTaken, Missing
<1>7. NothingOverlooked'
  <2>1. SyncedOf(Deployment)' = SyncedOf(Deployment)
    BY DEF SyncedOf
  <2>2. Coming(k)'
    BY DEF Coming
  <2>3. \A j \in Keys : j # k => /\ j \in Busy' <=> j \in Busy
                                 /\ reading'[j] = reading[j]
                                 /\ Coming(j) => Coming(j)'
    BY DEF Busy, WorkTyped, Coming
  <2>4. QED
    BY <2>1, <2>2, <2>3 DEF NothingOverlooked
<1>8. QED
  BY <1>2, <1>4, <1>5, <1>6, <1>7

\* The first list of KnativeServings finds those that last, and announces all it finds.
LEMMA ListServings ==
  ASSUME MainInv, WorkInv, NEW i \in DOMAIN pool, List(i), pool[i].type = Serving
  PROVE  WorkInv'
<1> USE DEF WorkInv, List, main, world, workers
<1>1. /\ stage' = stage /\ informers[Serving] = i
      /\ stage > StartInformers /\ stage # StartAll
      /\ SyncedOf(Serving) = {} /\ SyncedOf(Serving)' # {}
      /\ SyncedOf(Deployment)' = SyncedOf(Deployment)
  BY SyncsOne, MainAssumption
<1>2. /\ store' = api
      /\ pending' = pending \cup [type : {Serving}, key : Stored, tombstone : {FALSE}]
  <2>1. Handled(i, Serving, Stored, FALSE) = [type : {Serving}, key : Stored, tombstone : {FALSE}]
    BY <1>1, HandledFacts, MainAssumption
  <2>2. QED
    BY <2>1, MainAssumption DEF Stored
<1>3. store = NoVersions /\ reading = NothingTaken /\ seen = NoVersions
  BY <1>1 DEF Phases
<1> HIDE DEF List
<1>4. UNCHANGED <<world, main, workers>>
  BY DEF List
<1>5. WorkTyped'
  BY <1>2, <1>4, MainAssumption DEF WorkTyped, Stored
<1>6. Phases'
  BY <1>1, <1>2, <1>4 DEF Phases, Stored
<1>7. (lasting \subseteq Stored)' /\ ExistingIsFound'
  BY <1>4 DEF Stored, ExistingIsFound
<1>8. NothingOverlooked'
  <2>1. \A j \in Keys : Coming(j) => Coming(j)'
    BY <1>2, <1>4, StillComing
  <2>2. ASSUME NEW j \in Keys, store'[j] # (IF j \in Busy' THEN reading'[j] ELSE seen'[j])
        PROVE  Coming(j)'
    <3>1. j \notin Busy' /\ seen'[j] = Missing
      BY <1>3, <1>4 DEF Busy, NothingTaken, NoVersions
    <3>2. j \in Stored
      BY <1>2, <2>2, <3>1 DEF Stored
    <3>3. QED
      BY <1>2, <3>2, NowComing
  <2>3. QED
    BY <1>1, <1>4, <2>1, <2>2 DEF NothingOverlooked
<1>9. QED
  BY <1>5, <1>6, <1>7, <1>8

\* The first list of deployments announces those of every KnativeServing.
LEMMA ListDeployments ==
  ASSUME MainInv, WorkInv, NEW i \in DOMAIN pool, List(i), pool[i].type = Deployment
  PROVE  WorkInv'
<1> USE DEF WorkInv, List, main, world, workers
<1>1. /\ stage' = stage /\ informers[Deployment] = i
      /\ stage > StartInformers
      /\ SyncedOf(Deployment) = {} /\ SyncedOf(Deployment)' # {}
      /\ SyncedOf(Serving)' = SyncedOf(Serving)
  BY SyncsOne, MainAssumption
<1>2. /\ store' = store
      /\ pending' = pending \cup [type : {Deployment}, key : deployed, tombstone : {FALSE}]
  <2>1. Handled(i, Deployment, deployed, FALSE) = [type : {Deployment}, key : deployed, tombstone : {FALSE}]
    BY <1>1, HandledFacts, MainAssumption
  <2>2. QED
    BY <2>1, MainAssumption
<1> HIDE DEF List
<1>3. UNCHANGED <<world, main, workers>>
  BY DEF List
<1>4. WorkTyped'
  BY <1>2, <1>3, MainAssumption DEF WorkTyped
<1>5. Phases'
  BY <1>1, <1>2, <1>3 DEF Phases
<1>6. (lasting \subseteq Stored)' /\ ExistingIsFound'
  BY <1>3 DEF Stored, ExistingIsFound
<1>7. NothingOverlooked'
  <2>1. \A j \in Keys : Coming(j) => Coming(j)'
    BY <1>2, <1>3, StillComing
  <2>2. \A j \in unattended : Coming(j)'
    BY <1>1, <1>2, NowComing DEF Phases
  <2>3. QED
    BY <1>2, <1>3, <2>1, <2>2 DEF NothingOverlooked, Busy
<1>8. QED
  BY <1>4, <1>5, <1>6, <1>7

\* An informer lists its objects.
LEMMA ListStep ==
  ASSUME MainInv, WorkInv, NEW i \in DOMAIN pool, List(i)
  PROVE  MainInv' /\ WorkInv'
<1>1. MainInv' /\ pool[i].type \in Types
  BY SyncsOne DEF List
<1>2. QED
  BY <1>1, ListServings, ListDeployments, MainAssumption

-----------------------------------------------------------------------------
(* The theorems.                                                            *)

\* Every step of the process keeps the invariant.
LEMMA StartupStep == StartupInv /\ [StartupNext]_vars => StartupInv'
<1> SUFFICES ASSUME MainInv, WorkInv, [StartupNext]_vars PROVE StartupInv'
  BY Halves
<1>1. (MainInv' /\ WorkInv') => StartupInv'
  BY Halves, PTL
<1>2. ASSUME NEW k \in Keys,
             \/ ChangeDeployment(k) \/ DeleteDeployment(k)
             \/ \E t \in Types : Resync(t, k)
             \/ \E v \in {Missing, changes + 2} : ChangeServing(k, v)
             \/ Observe(k) \/ Take(k) \/ Finish(k) \/ Fail(k)
      PROVE  MainInv' /\ WorkInv'
  <2>1. UNCHANGED <<informerVars, main>>
    BY <1>2 DEF ChangeDeployment, DeleteDeployment, ChangeServing, Resync, Observe, Take, Finish, Fail
  <2>2. MainInv'
    BY <2>1, MainUnchanged
  <2>3. WorkInv'
    BY <1>2, ChangeDeploymentStep, DeleteDeploymentStep, ChangeServingStep, ResyncStep,
       ObserveStep, TakeStep, FinishStep, FailStep
  <2>4. QED
    BY <2>2, <2>3
<1>3. ASSUME NEW e \in pending, Deliver(e)
      PROVE  MainInv' /\ WorkInv'
  BY <1>3, MainUnchanged, DeliverStep DEF Deliver
<1>4. ASSUME NEW i \in DOMAIN pool, List(i)
      PROVE  MainInv' /\ WorkInv'
  BY <1>4, ListStep
<1>5. CASE MainStep
  BY <1>1, <1>5, MainStepInv
<1>6. CASE Crash
  BY <1>6, CrashInv, Halves
<1>7. CASE UNCHANGED vars
  <2>1. UNCHANGED <<informerVars, world, watched, main, workers>>
    BY <1>7 DEF vars
  <2>2. QED
    BY <1>1, <2>1, MainUnchanged, WorkUnchanged
<1>8. QED
  BY <1>1, <1>2, <1>3, <1>4, <1>5, <1>6, <1>7, BoundsAssumption DEF StartupNext

\* StartupInv holds in every reachable state of the process and its environment:
\* one informer of each type behind all that main has set up, and no change that it
\* has seen lost, but for the tombstones that the filter of the deployments drops.
THEOREM StartupInvariant == StartupSpec => []StartupInv
<1>1. QED
  BY StartupInitInv, StartupStep, PTL DEF StartupSpec

\* The variables of the process keep their types: no lister or handler stands on
\* an informer that is not there.
THEOREM StartupTypeCorrect == StartupSpec => []StartupTypeOK
<1>1. StartupInv => StartupTypeOK
  BY DEF StartupInv
<1>2. QED
  BY <1>1, StartupInvariant, PTL

\* Both listers and the handlers stand on the informers that main runs, because
\* InformerFor gives the constructors the one SetupInformers has asked for.
THEOREM OneCacheForAll == StartupSpec => []OneCachePerType
<1>1. StartupInv => OneCachePerType
  <2> SUFFICES ASSUME MainInv, stage >= StartInformers
               PROVE  /\ \A r \in {"knativeServingLister", "Lister", "handler"} :
                           holder[r] = holder["setup"]
                      /\ holder["deploymentHandler"] = holder["setupDeployments"]
    BY Halves DEF OneCachePerType
  <2>1. stage > Len(Script)
    BY ScriptFacts, ScriptTypes DEF MainInv
  <2>2. QED
    BY <2>1, SetUpFacts
<1>2. QED
  BY <1>1, StartupInvariant, PTL

\* A worker takes no KnativeServing for gone that was there when the process
\* started, because the workers wait for the first list.
THEOREM ExistingAreFound == StartupSpec => []ExistingIsFound
<1>1. StartupInv => ExistingIsFound
  BY DEF StartupInv
<1>2. QED
  BY <1>1, StartupInvariant, PTL

\* No change of a KnativeServing or its deployments is lost between the informers,
\* their handlers, the work queue and the workers, but for a deployment that went
\* while its watch was broken: its tombstone does not pass the filter.
THEOREM NothingIsOverlooked == StartupSpec => []NothingOverlooked
<1>1. StartupInv => NothingOverlooked
  BY DEF StartupInv
<1>2. QED
  BY <1>1, StartupInvariant, PTL

=============================================================================
