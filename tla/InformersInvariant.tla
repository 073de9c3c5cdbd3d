------------------------- MODULE InformersInvariant -------------------------
(***************************************************************************)
(* The inductive invariant behind the safety properties of the informer     *)
(* factory: what f.lock protects, how the maps of the factory and the       *)
(* informers belong together, and what a goroutine may conclude from where  *)
(* it is.  TLC checks it on a small instance, StartupProofs proves it.      *)
(***************************************************************************)
EXTENDS Informers

\* The places where a goroutine holds f.lock.
Inside == {"lookup", "create", "start", "snapshot"}

\* f.lock is held by the goroutine that is inside, and by no other.
LockHeld == \A c \in Callers : pc[c] \in Inside <=> lock = c

\* InformerFor has a type to look up, and creates an informer only if there is none.
Asking(c) ==
  /\ At(c, "lookup") \/ At(c, "create") => asked[c] \in Types
  /\ At(c, "create") => informers[asked[c]] = None

\* Every informer ever made is the one registered for its type.
Registry ==
  /\ \A i \in DOMAIN pool : informers[pool[i].type] = i
  /\ \A t \in Types : informers[t] # None => pool[informers[t]].type = t

\* An informer runs once if its type is marked started, and otherwise not.
Running ==
  /\ startedInformers \subseteq Registered
  /\ \A i \in DOMAIN pool :
       pool[i].runs = IF pool[i].type \in startedInformers THEN 1 ELSE 0

\* A goroutine holds registered informers only, and a loop over the factory's
\* informers visits registered ones.
Holding(c) ==
  /\ \A t \in Types : holds[c][t] # None => holds[c][t] = informers[t]
  /\ left[c] \subseteq Registered

\* What a goroutine relies on it holds; once Start has returned it is started.
Relying(c) ==
  /\ \A t \in relies[c] : holds[c][t] # None
  /\ relies[c] \subseteq startedInformers \cup (IF At(c, "start") THEN left[c] ELSE {})

\* WaitForCacheSync passes over none of them, and an informer it found synced
\* is synced.
Waiting(c) ==
  /\ At(c, "wait") => relies[c] \subseteq left[c] \cup DOMAIN result[c]
  /\ checked[c] => relies[c] \subseteq DOMAIN result[c]
  /\ \A t \in DOMAIN result[c] :
       result[c][t] => informers[t] # None /\ pool[informers[t]].synced

\* The inductive invariant: however the calls of any number of goroutines
\* interleave, the factory's maps agree with the informers there are, and each
\* goroutine's view of them with the maps.
FactoryInv ==
  /\ TypeOK /\ LockHeld /\ Registry /\ Running
  /\ \A c \in Callers : Asking(c) /\ Holding(c) /\ Relying(c) /\ Waiting(c)

=============================================================================
