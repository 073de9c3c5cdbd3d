-------------------------- MODULE StartupInvariant --------------------------
(***************************************************************************)
(* The inductive invariant behind the safety properties of Startup: how far *)
(* main is, which informers stand behind what it has set up, and what the   *)
(* informers have delivered.  TLC checks it on a small instance,            *)
(* StartupProofs proves it.                                                 *)
(***************************************************************************)
EXTENDS Startup, InformersInvariant

\* main is in a call only while it sets up, and then asks for what the script says.
Asks ==
  /\ pc[Main] \in {"idle", "lookup", "create"}
  /\ pc[Main] # "idle" => stage <= Len(Script) /\ asked[Main] = Script[stage].type

\* Behind all that main has set up stands the registered informer of the type.
SetUpSoFar ==
  \A i \in DOMAIN Script : i < stage =>
    /\ holder[Script[i].role] = informers[Script[i].type]
    /\ informers[Script[i].type] # None

\* Nobody calls Start: until RunInformers runs those of main, none runs, and one
\* that does not run has not synced.  The workers come when both have.
RunAndSynced ==
  /\ startedInformers = {}
  /\ stage <= StartInformers => FactoryInv
  /\ \A i \in DOMAIN pool : pool[i].synced => stage > StartInformers
  /\ stage = StartAll => AllSynced

\* What the caches and the workers hold in each phase.
Phases ==
  /\ stage # StartAll => reading = NothingTaken /\ seen = NoVersions
  /\ SyncedOf(Serving) = {} => store = NoVersions
  /\ SyncedOf(Serving) # {} => \A k \in lasting : store[k] # Missing
  /\ SyncedOf(Deployment) = {} => unattended \subseteq deployed

\* The inductive invariant: from the order in which main sets up, runs and waits
\* for the informers, every object and every change that they have seen of it or of
\* its deployments reaches the workers, but for a deployment's tombstone.
StartupInv ==
  /\ StartupTypeOK /\ Registry
  /\ Asks /\ SetUpSoFar /\ RunAndSynced /\ Phases
  /\ lasting \subseteq Stored
  /\ ExistingIsFound /\ NothingOverlooked

=============================================================================
