--------------------------- MODULE MCSharedArtifacts ---------------------------
(***************************************************************************)
(* What outlives a run and is written by others too, checked in one run:   *)
(* the summary comment of a request, the issues of a repository, the specs *)
(* in the tree; and the analysis that decides which spec may be healed.    *)
(* The components share nothing: the run chooses one of them at the start, *)
(* the others stay as they begin.                                          *)
(***************************************************************************)
EXTENDS PrComment, IssueLifecycle, SpecTree, FailureAnalysis

MCPath == {<<"a">>, <<"a", 2>>}
MCPlan == {<<<<"a">>, <<"a">>>>}

VARIABLE component

sharedVars == <<component, prVars, isVars, spVars, faVars>>

\* The variables of a component that was not chosen: one fixed beginning.
CommentRest == PrInit /\ platform = "github"
IssuesRest == IsInit /\ findings = [j \in Tracker |-> {}]
SpecsRest == SpInit
AnalysisRest ==
  /\ FaInit
  /\ signal = [status |-> "failed", alternated |-> FALSE, marks |-> {}, network |-> {},
               module |-> "functional", fixtureFailed |-> FALSE, retries |-> 0,
               failsOften |-> FALSE]

SharedInit ==
  \/ component = "comment" /\ PrInit /\ IssuesRest /\ SpecsRest /\ AnalysisRest
  \/ component = "issues" /\ IsInit /\ CommentRest /\ SpecsRest /\ AnalysisRest
  \/ component = "specs" /\ SpInit /\ CommentRest /\ IssuesRest /\ AnalysisRest
  \/ component = "analysis" /\ FaInit /\ CommentRest /\ IssuesRest /\ SpecsRest

SharedNext ==
  \/ component = "comment" /\ PrNext /\ UNCHANGED <<component, isVars, spVars, faVars>>
  \/ component = "issues" /\ IsNext /\ UNCHANGED <<component, prVars, spVars, faVars>>
  \/ component = "specs" /\ SpNext /\ UNCHANGED <<component, prVars, isVars, faVars>>
  \/ component = "analysis" /\ AnalyzeOne /\ UNCHANGED <<component, prVars, isVars, spVars>>

SharedSpec == SharedInit /\ [][SharedNext]_sharedVars

\* Every variable of the component that is checked has its type; the others
\* keep their first value.
SharedTypeOK ==
  /\ component = "comment" => PrTypeOK
  /\ component = "issues" => IsTypeOK
  /\ component = "specs" => SpTypeOK
  /\ component = "analysis" => FaTypeOK
=============================================================================
