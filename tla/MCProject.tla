----------------------------- MODULE MCProject -----------------------------
(***************************************************************************)
(* What happens around one project, checked in one run: one audit from the *)
(* safety gate to the exit code, several audits that share a directory,    *)
(* the choice of modules and specs by a git diff, and the events of real   *)
(* users that become runs of their own.  The four share nothing; the run   *)
(* chooses one of them at the start and the others stay as they begin.     *)
(***************************************************************************)
EXTENDS MCRunLifecycle, Workspace, ModuleSelection, RumPipeline

MCConfigs == {Optional, {"functional", "api"}, {"accessibility", "performance"}}
MCSuite ==
  {[title |-> "checkout", priority |-> p, module |-> m] :
     p \in {"@p0", "@p1", "@p2"}, m \in {"@module:functional", "@module:api"}}

VARIABLE component

projectVars == <<component, vars, wsVars, selectionVars, rumVars>>

\* The variables of a component that was not chosen: one fixed beginning.
LifecycleRest == Init /\ ~dryRun /\ target = "allowed" /\ threads = 1
WorkspaceRest == WsInit /\ ci = [r \in Run |-> "ci"]
SelectionRest == SelectionInit /\ kind = [f \in File |-> "prose"] /\ repo = [f \in File |-> Clean]
RumRest == RumInit

\* Up to the names of runs and plans: one plan for all runs, or one run with
\* a plan of its own.
TwoPlans ==
  LET other == CHOOSE r \in Run : TRUE
  IN \A r \in Run \ {other} : ci[r] = "ci"

ProjectInit ==
  \/ component = "lifecycle" /\ Init /\ WorkspaceRest /\ SelectionRest /\ RumRest
  \/ component = "workspace" /\ WsInit /\ TwoPlans /\ LifecycleRest /\ SelectionRest /\ RumRest
  \/ component = "selection" /\ SelectionInit /\ LifecycleRest /\ WorkspaceRest /\ RumRest
  \/ component = "rum" /\ RumInit /\ LifecycleRest /\ WorkspaceRest /\ SelectionRest

ProjectNext ==
  \/ component = "lifecycle" /\ Next /\ UNCHANGED <<component, wsVars, selectionVars, rumVars>>
  \/ component = "workspace" /\ WsNext /\ UNCHANGED <<component, vars, selectionVars, rumVars>>
  \/ component = "selection" /\ SelectionNext /\ UNCHANGED <<component, vars, wsVars, rumVars>>
  \/ component = "rum" /\ RumNext /\ UNCHANGED <<component, vars, wsVars, selectionVars>>

\* The fairness of RunLifecycle's LiveSpec.
ProjectFairness ==
  component = "lifecycle" =>
    /\ WF_vars(MainStep)
    /\ \A i \in Index : WF_vars(StartModule(i)) /\ WF_vars(FinishModule(i))

ProjectSpec == ProjectInit /\ [][ProjectNext]_projectVars /\ ProjectFairness

\* Every variable of the four components has its type.
ProjectTypeOK == TypeOK /\ WsTypeOK /\ SelectionTypeOK /\ RumTypeOK

\* The audit that was chosen ends.
AuditEnds == component = "lifecycle" => RunEnds
=============================================================================
