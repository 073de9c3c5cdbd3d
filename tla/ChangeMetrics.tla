---------------------------- MODULE ChangeMetrics ----------------------------
(***************************************************************************)
(* The metrics of pkg/reconciler/stats_reporter.go, composed with the       *)
(* controller: what ReconcileKind reports of changes of KnativeServings     *)
(* (knativeserving.go, lines 105-120), counted beside the changes that users *)
(* have made.  The counters are in the memory of the process.               *)
(***************************************************************************)
EXTENDS Reconciler

VARIABLES
  reported,  \* the reports of this process, by key and change
  made       \* by key: creations since it started, edits, whether the object was
             \* there when it started, and the edits before each incarnation

metricsVars == <<vars, reported, made>>

Changes == {"creation", "edit", "deletion"}

NoReports == [c \in Changes |-> 0]

MetricsInit ==
  /\ Init
  /\ reported = [k \in ServingKeys |-> NoReports]
  /\ made = [k \in Keys |-> [creations |-> 0, edits |-> 0, there |-> Exists(api[k]),
                              before |-> [i \in 1 .. api[k].inc |-> 0]]]

-----------------------------------------------------------------------------
FirstIsCreationMutant(new, old) ==
  IF old = NotServed THEN {"creation"} ELSE IF new > old THEN {"edit"} ELSE {}

NotOlderIsEditMutant(new, old) ==
  IF old = NotServed THEN {c \in {"creation"} : new = 1} ELSE {c \in {"edit"} : new >= old}

\* The change generation new tells of when old is what servings has.  Nothing is
\* reported as a deletion.
ChangeOf(new, old) ==
  IF old = NotServed THEN {c \in {"creation"} : new = 1} ELSE {c \in {"edit"} : new > old}

\* ReportKnativeservingChange(key, change)
ReportKnativeservingChange(key, changes) ==
  reported' = [reported EXCEPT ![key] = [c \in Changes |-> IF c \in changes THEN @[c] + 1 ELSE @[c]]]

Report(k) == ReportKnativeservingChange(KeyOf(k), ChangeOf(res[k].gen, servings[KeyOf(k)]))

\* Counts a creation, which makes a new incarnation, and an edit, which makes a
\* new generation of one.
Count ==
  made' = [k \in Keys |->
    [made[k] EXCEPT
       !.creations = IF api'[k].inc > api[k].inc THEN @ + 1 ELSE @,
       !.before = IF api'[k].inc > api[k].inc THEN Append(@, made[k].edits) ELSE @,
       !.edits = IF /\ api'[k].inc = api[k].inc /\ api'[k].phase = api[k].phase
                    /\ api'[k].gen > api[k].gen
                 THEN @ + 1 ELSE @]]

\* Everything else that happens reports nothing.
OtherSteps ==
  \E k \in Keys :
    \/ Environment(k) \/ Informer(k) \/ Reconcile(k)
    \/ WorkerStep(k) /\ ~At(k, "reconcileKind")

MetricsNext ==
  \/ \E k \in Keys : ReconcileKind(k) /\ Report(k) /\ UNCHANGED made
  \/ OtherSteps /\ Count /\ UNCHANGED reported
  \/ /\ Restart
     /\ reported' = [k \in ServingKeys |-> NoReports]
     /\ made' = [k \in Keys |-> [made[k] EXCEPT !.creations = 0, !.there = Exists(api[k])]]

MetricsSpec == MetricsInit /\ [][MetricsNext]_metricsVars

-----------------------------------------------------------------------------
(* Properties.                                                              *)

There(k) == IF made[k].there THEN 1 ELSE 0

\* What is reported has happened: no more creations of a KnativeServing than there
\* were, the one it found counted in, and no more edits; though a deletion makes a
\* new generation too, FinalizeKind forgets the generation and comes again when it
\* fails, and workers see objects that are no more.
NoPhantomChanges ==
  \A k \in Keys :
    /\ reported[k]["creation"] <= made[k].creations + There(k)
    /\ reported[k]["edit"] <= made[k].edits

\* Nothing is reported of a KnativeServing without a name.
NamedChangesOnly == reported[NoKey] = NoReports

=============================================================================
