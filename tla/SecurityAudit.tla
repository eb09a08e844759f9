---------------------------- MODULE SecurityAudit ---------------------------
(***************************************************************************)
(* The security audit: the enabled checks run one after another, each over *)
(* the same routes, against a target that may stop answering and come back.*)
(*                                                                         *)
(* modules/security/module.py and its checks, by their control only.       *)
(* "headers" stands for the checks with one request a route (headers,      *)
(* cookies, cors, csrf, xss_reflected, frontend_secrets); "xss_stored" and *)
(* "sqli" for those with several, which run only when they are authorised. *)
(* A request that is lost ends the route for that check and nothing more.  *)
(***************************************************************************)
EXTENDS Naturals, Sequences, FiniteSets, SequencesExt

CONSTANTS
  Path,          \* routes
  RouteLists,    \* the lists of routes the options, discovery or the config may give
  Selections,    \* sets of checks the config or the options may name
  Severities,    \* of the issues a check may report
  MaxFlips       \* bound: how often the target stops or resumes answering

ASSUME FlipsAreCounted == MaxFlips \in Nat
ASSUME RoutesAreListed == RouteLists \subseteq Seq(Path)

\* The canonical order of the checks.
Order == <<"headers", "xss_stored", "sqli", "dependency_scan", "sast">>
Checks == ToSet(Order)
HttpChecks == {"headers", "xss_stored", "sqli"}
Gated == {"xss_stored", "sqli"}

\* How many requests a route takes, and the answer after which it counts.
Requests(check) == IF check \in Gated THEN 3 ELSE 1
CountedAt(check) == IF check = "xss_stored" THEN 2 ELSE 1

SecurityIssue == Checks \X (Path \cup {"project"}) \X Severities
CheckResult == [check : Checks, scanned : Nat, issues : SUBSET SecurityIssue, skipped : BOOLEAN]

VARIABLES
  saEnabled,     \* the checks to run, in canonical order
  saRoutes,      \* the routes, "none" of them or some
  saGranted,     \* the gated checks that are authorised
  saUp,          \* the target answers
  saFlips,
  saStage,       \* "start", "run", "done"
  saCurrent,     \* the result of the running check, so far
  saLeft,        \* the routes it has not begun with, this one first
  saRequest,     \* the request of this route that comes next
  saResults,     \* the results of the checks before
  saTold,        \* every issue an answer showed
  saAnswers,     \* <<check, position of the route, request>> answered
  saFiles,       \* what security/<check>.json and the index hold
  saStatus

saVars == <<saEnabled, saRoutes, saGranted, saUp, saFlips, saStage, saCurrent, saLeft,
            saRequest, saResults, saTold, saAnswers, saFiles, saStatus>>
saFixed == <<saEnabled, saRoutes, saGranted>>
saTarget == <<saUp, saFlips>>
saOutcome == <<saFiles, saStatus>>

Empty(check) == [check |-> check, scanned |-> 0, issues |-> {}, skipped |-> FALSE]

SaTypeOK ==
  /\ saEnabled \in Seq(Checks) /\ saRoutes \in Seq(Path) /\ saGranted \subseteq Gated
  /\ saUp \in BOOLEAN /\ saFlips \in 0..MaxFlips
  /\ saStage \in {"start", "run", "done"}
  /\ saCurrent \in CheckResult /\ saLeft \in Seq(Path) /\ saRequest \in 1..3
  /\ saResults \in Seq(CheckResult)
  /\ saTold \subseteq SecurityIssue /\ saAnswers \subseteq Checks \X (1..Len(saRoutes)) \X (1..3)
  /\ \A n \in DOMAIN saFiles : n \in Checks \cup {"index"} /\ saFiles[n] \subseteq CheckResult
  /\ saStatus \in {"none", "passed", "failed", "skipped", "incomplete", "errored"}

Place(check) == CHOOSE i \in DOMAIN Order : Order[i] = check

\* _resolve_enabled_checks: options only restrict what the config turns on; the
\* one list that names the rest in canonical order.
EnabledChecks(configured, restriction) ==
  {list \in SeqOf(Checks, Len(Order)) :
     /\ ToSet(list) = {c \in Checks \cap configured : restriction = {} \/ c \in restriction}
     /\ \A i, j \in DOMAIN list : i < j => Place(list[i]) < Place(list[j])}

SaInit ==
  /\ \E configured, restriction \in Selections : saEnabled \in EnabledChecks(configured, restriction)
  /\ saRoutes \in RouteLists
  /\ saGranted \in SUBSET Gated
  /\ saUp \in BOOLEAN /\ saFlips = 0
  /\ saStage = "start" /\ saCurrent = Empty("headers") /\ saLeft = <<>> /\ saRequest = 1
  /\ saResults = <<>> /\ saTold = {} /\ saAnswers = {}
  /\ saFiles = [n \in {} |-> {}] /\ saStatus = "none"

\* The target stops answering, or answers again.
Flip ==
  /\ saFlips < MaxFlips /\ saStage # "done"
  /\ saFlips' = saFlips + 1 /\ saUp' = ~saUp
  /\ UNCHANGED <<saFixed, saStage, saCurrent, saLeft, saRequest, saResults, saTold, saAnswers, saOutcome>>

\* The policy denies the target, a document of authorisation disappears
\* between two checks: the exception leaves the module.
SaRaises ==
  /\ saStage # "done"
  /\ saStage' = "done" /\ saStatus' = "errored"
  /\ UNCHANGED <<saFixed, saTarget, saCurrent, saLeft, saRequest, saResults, saTold, saAnswers, saFiles>>

Begin(number) ==
  /\ saCurrent' = Empty(saEnabled[number])
  /\ saLeft' = saRoutes /\ saRequest' = 1

\* _run_audit: without a route nothing is checked, not even the project.
Start ==
  /\ saStage = "start"
  /\ saStage' = "run"
  /\ IF saRoutes # <<>> /\ saEnabled # <<>>
     THEN Begin(1) ELSE UNCHANGED <<saCurrent, saLeft, saRequest>>
  /\ UNCHANGED <<saFixed, saTarget, saResults, saTold, saAnswers, saOutcome>>

Planned == IF saRoutes = <<>> THEN 0 ELSE Len(saEnabled)
CheckRuns == saStage = "run" /\ Len(saResults) < Planned
CheckNow == saCurrent.check

\* The check returns; the next one begins.
Returns(result) ==
  /\ saResults' = Append(saResults, result)
  /\ IF Len(saResults) + 1 < Planned
     THEN Begin(Len(saResults) + 2) ELSE UNCHANGED <<saCurrent, saLeft, saRequest>>

NextRoute == saLeft' = Tail(saLeft) /\ saRequest' = 1

Allowed == CheckNow \in Gated => CheckNow \in saGranted

\* _allowed_to_run says no: the check is skipped, no request is made.
Refuse ==
  /\ CheckRuns /\ CheckNow \in HttpChecks /\ ~Allowed
  /\ Returns([saCurrent EXCEPT !.skipped = TRUE])
  /\ UNCHANGED <<saFixed, saTarget, saStage, saTold, saAnswers, saOutcome>>

Position == Len(saRoutes) - Len(saLeft) + 1

Counted ==
  IF saRequest = CountedAt(CheckNow) THEN [saCurrent EXCEPT !.scanned = @ + 1] ELSE saCurrent

\* One issue at most is told apart in an answer.
Shown == {{}} \cup {{s} : s \in Severities}

\* One request is answered.  The last answer of a route may show an issue.
Answered ==
  /\ CheckRuns /\ CheckNow \in HttpChecks /\ Allowed /\ saLeft # <<>> /\ saUp
  /\ saAnswers' = saAnswers \cup {<<CheckNow, Position, saRequest>>}
  /\ IF saRequest < Requests(CheckNow)
     THEN /\ saCurrent' = Counted
          /\ UNCHANGED saTold
          /\ \/ saRequest' = saRequest + 1 /\ UNCHANGED saLeft
             \/ saRequest = 1 /\ NextRoute        \* the page has nothing to probe
     ELSE \E shown \in Shown :
            LET found == {<<CheckNow, Head(saLeft), s>> : s \in shown}
            IN  /\ saCurrent' = [Counted EXCEPT !.issues = @ \cup found]
                /\ saTold' = saTold \cup found
                /\ NextRoute
  /\ UNCHANGED <<saFixed, saTarget, saStage, saResults, saOutcome>>

Unanswered_DropsCheck_Mutant ==
  /\ CheckRuns /\ CheckNow \in HttpChecks /\ Allowed /\ saLeft # <<>> /\ ~saUp
  /\ saCurrent' = Empty(CheckNow)
  /\ NextRoute
  /\ UNCHANGED <<saFixed, saTarget, saStage, saResults, saTold, saAnswers, saOutcome>>

\* A request is lost: on to the next route, with what was found kept.
Unanswered ==
  /\ CheckRuns /\ CheckNow \in HttpChecks /\ Allowed /\ saLeft # <<>> /\ ~saUp
  /\ NextRoute
  /\ UNCHANGED <<saFixed, saTarget, saStage, saCurrent, saResults, saTold, saAnswers, saOutcome>>

RoutesDone ==
  /\ CheckRuns /\ CheckNow \in HttpChecks /\ Allowed /\ saLeft = <<>>
  /\ Returns(saCurrent)
  /\ UNCHANGED <<saFixed, saTarget, saStage, saTold, saAnswers, saOutcome>>

\* A scanner of the project: dependency_scan counts it whether it is there or
\* not, sast is skipped without it.
Scan ==
  /\ CheckRuns /\ CheckNow \notin HttpChecks
  /\ \/ \E shown \in Shown :
          LET found == {<<CheckNow, "project", s>> : s \in shown}
          IN  Returns([saCurrent EXCEPT !.scanned = 1, !.issues = found])
              /\ saTold' = saTold \cup found
     \/ /\ Returns(IF CheckNow = "dependency_scan" THEN [saCurrent EXCEPT !.scanned = 1]
                   ELSE [saCurrent EXCEPT !.skipped = TRUE])
        /\ UNCHANGED saTold
  /\ UNCHANGED <<saFixed, saTarget, saStage, saAnswers, saOutcome>>

\* emit_findings
SaFindings == UNION {r.issues : r \in ToSet(saResults)}

\* collect_evidence writes a file per check and the index; summarize judges.
\* The run's flag "incomplete" is never set.
SaJudge ==
  /\ saStage = "run" /\ Len(saResults) = Planned
  /\ saStage' = "done"
  /\ saFiles' = [n \in {r.check : r \in ToSet(saResults)} \cup {"index"} |->
                   {r \in ToSet(saResults) : n = "index" \/ r.check = n}]
  /\ saStatus' = IF \A r \in ToSet(saResults) : r.skipped THEN "skipped"
                 ELSE IF \E f \in SaFindings : f[3] \in {"critical", "high"}
                 THEN "failed" ELSE "passed"
  /\ UNCHANGED <<saFixed, saTarget, saCurrent, saLeft, saRequest, saResults, saTold, saAnswers>>

SaNext ==
  \/ Flip \/ SaRaises \/ Start \/ Refuse \/ Answered \/ Unanswered \/ RoutesDone \/ Scan \/ SaJudge

SaSpec == SaInit /\ [][SaNext]_saVars

-----------------------------------------------------------------------------

\* However the target came and went, every issue one of its answers showed is
\* a finding, and the file that finding names holds it; the module is failed
\* exactly if one of them is serious, and skipped only if nothing showed any.
NothingShownIsLost ==
  saStatus \in {"passed", "failed", "skipped"} =>
    /\ saTold = SaFindings
    /\ \A f \in saTold : \E r \in saFiles[f[1]] : f \in r.issues
    /\ saStatus = "failed" <=> \E f \in saTold : f[3] \in {"critical", "high"}

\* The count of the targets is that of the answers that complete a probe: a
\* module that passes though the target was silent says so in its metrics.
TargetsAreCounted ==
  \A r \in ToSet(saResults) : r.check \in HttpChecks =>
    r.scanned = Cardinality({i \in DOMAIN saRoutes : <<r.check, i, CountedAt(r.check)>> \in saAnswers})

\* A gated check that is not authorised has sent nothing, ever.
RefusedStaysSilent == \A a \in saAnswers : a[1] \in Gated => a[1] \in saGranted

SecurityVerdictIsEarned == NothingShownIsLost /\ TargetsAreCounted /\ RefusedStaysSilent
=============================================================================
