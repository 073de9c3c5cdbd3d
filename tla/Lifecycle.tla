----------------------------- MODULE Lifecycle -----------------------------
(***************************************************************************)
(* The status conditions of a KnativeServing: the knative "living"         *)
(* condition set (vendor/knative.dev/pkg/apis/condition_set.go) with the    *)
(* three dependents that pkg/apis/serving/v1alpha1/                         *)
(* knativeserving_lifecycle.go declares, and the Mark* methods of           *)
(* KnativeServingStatus.  Only the status of a condition is kept; reasons,  *)
(* messages and transition times are left out.  A condition that is not in  *)
(* the list of conditions has the status "none".                            *)
(***************************************************************************)

Ready == "Ready"
DependenciesInstalled == "DependenciesInstalled"
DeploymentsAvailable  == "DeploymentsAvailable"
InstallSucceeded      == "InstallSucceeded"

\* The dependents of the living condition set; Ready is its happy condition.
Dependents == {DependenciesInstalled, DeploymentsAvailable, InstallSucceeded}

ConditionTypes == Dependents \cup {Ready}
ConditionStatus == {"none", "Unknown", "True", "False"}
Conditions == [ConditionTypes -> ConditionStatus]

NoConditions == [t \in ConditionTypes |-> "none"]

\* GetCondition(t).IsTrue(), .IsUnknown(); a missing condition is unknown.
IsTrue(c, t) == c[t] = "True"
IsUnknown(c, t) == c[t] \in {"none", "Unknown"}

\* findUnhappyDependent: a False dependent trumps an Unknown or missing one.
Happiness(c) ==
  IF \E t \in Dependents : c[t] = "False" THEN "False"
  ELSE IF \E t \in Dependents : IsUnknown(c, t) THEN "Unknown"
  ELSE "True"

MarkTrueNoRecomputeMutant(c, t) == [c EXCEPT ![t] = "True"]

\* MarkTrue sets t and recomputes the happy condition from the dependents.
MarkTrue(c, t) ==
  LET marked == [c EXCEPT ![t] = "True"]
  IN  [marked EXCEPT ![Ready] = Happiness(marked)]

\* MarkFalse on a dependent sets it and the happy condition to False.
MarkFalse(c, t) == [c EXCEPT ![t] = "False", ![Ready] = "False"]

InitializeHappyMutant(c) == [t \in ConditionTypes |-> IF c[t] = "none" THEN "True" ELSE c[t]]

\* InitializeConditions: unset conditions become Unknown, or True when the
\* happy condition is already True.
InitializeConditions(c) ==
  LET happy == IF c[Ready] = "none" THEN "Unknown" ELSE c[Ready]
      unset == IF happy = "True" THEN "True" ELSE "Unknown"
  IN  [t \in ConditionTypes |->
         IF t = Ready THEN happy ELSE IF c[t] = "none" THEN unset ELSE c[t]]

MarkInstallFailed(c) == MarkFalse(c, InstallSucceeded)
MarkDependenciesInstalled(c) == MarkTrue(c, DependenciesInstalled)

\* "Assume deps are installed if we're not sure".
MarkInstallSucceeded(c) ==
  LET marked == MarkTrue(c, InstallSucceeded)
  IN  IF IsUnknown(marked, DependenciesInstalled)
      THEN MarkDependenciesInstalled(marked) ELSE marked

MarkDeploymentsAvailable(c) == MarkTrue(c, DeploymentsAvailable)
MarkDeploymentsNotReady(c) == MarkFalse(c, DeploymentsAvailable)

=============================================================================
