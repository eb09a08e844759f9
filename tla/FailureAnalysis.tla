-------------------------- MODULE FailureAnalysis --------------------------
(***************************************************************************)
(* What the analyzer makes of one failed test: engine/analyzer, categorize,*)
(* should_retry and is_healer_candidate, as analyze_one chains them.       *)
(*                                                                         *)
(* Eleven rules look at the same evidence and each may claim it with a     *)
(* confidence; the surest claim wins, the first one among equals.  What a  *)
(* text says is the set of the marks some rule looks for.                  *)
(***************************************************************************)
EXTENDS Naturals, FiniteSetsExt, Sequences

CONSTANT MaxMarks      \* bound on the marks one text carries

VARIABLES
  signal,        \* FailureSignal, with the history of the test
  analysis       \* AnalyzerResult

faVars == <<signal, analysis>>

\* crash       a crash marker in the message
\* navigation  a time-out error whose message speaks of the navigation
\* auth        login or auth; credential: sign-in, credential or token
\* locator     a locator marker in the message
\* axe, budget, seed: the words the last three rules look for
Mark == {"crash", "navigation", "auth", "credential", "locator", "axe", "budget", "seed"}

\* What the requests of the test were answered.
Answer == {"ok", "401", "4xx", "5xx"}

Signal ==
  [status : {"failed", "timed_out", "errored", "flaky"}, alternated : BOOLEAN,
   marks : {m \in SUBSET Mark : Cardinality(m) <= MaxMarks}, network : SUBSET Answer,
   module : {"functional", "a11y", "security", "performance"}, fixtureFailed : BOOLEAN,
   retries : 0..2, failsOften : BOOLEAN]

Claim(category, confidence) == [category |-> category, confidence |-> confidence]

None == Claim("none", 0)

-----------------------------------------------------------------------------
\* The rules, in the order of _RULES.
Flake(s) ==
  IF s.status = "flaky" THEN Claim("flake", 92)
  ELSE IF s.alternated THEN Claim("flake", 80) ELSE None

BrowserCrash(s) ==
  IF "crash" \in s.marks THEN Claim("environment_failure", 90)
  ELSE IF "navigation" \in s.marks /\ "5xx" \notin s.network
  THEN Claim("environment_failure", 70) ELSE None

FixtureFailure(s) ==
  IF ~s.fixtureFailed THEN None
  ELSE IF s.marks \cap {"auth", "credential"} # {} THEN Claim("auth_failure", 90)
  ELSE Claim("data_setup_failure", 80)

AppFault(s) ==
  IF "5xx" \in s.network /\ s.status \in {"failed", "timed_out"} THEN Claim("app_bug", 93) ELSE None

ApiFault(s) == IF "4xx" \in s.network THEN Claim("api_failure", 78) ELSE None

AuthDenied(s) == IF "401" \in s.network THEN Claim("auth_failure", 82) ELSE None

LocatorTimeout(s) ==
  IF "locator" \notin s.marks THEN None
  ELSE Claim("test_bug", IF s.network # {} /\ "5xx" \notin s.network THEN 78 ELSE 60)

Accessibility(s) ==
  IF s.module = "a11y" THEN Claim("accessibility_violation", 95)
  ELSE IF "axe" \in s.marks THEN Claim("accessibility_violation", 70) ELSE None

Security(s) == IF s.module = "security" THEN Claim("security_finding", 90) ELSE None

Performance(s) ==
  IF s.module = "performance" THEN Claim("performance_regression", 90)
  ELSE IF "budget" \in s.marks THEN Claim("performance_regression", 70) ELSE None

DataSetup(s) ==
  IF "seed" \in s.marks /\ "auth" \notin s.marks THEN Claim("data_setup_failure", 72) ELSE None

Claims_LocatorFirst_Mutant(s) ==
  <<Flake(s), BrowserCrash(s), FixtureFailure(s), AppFault(s), LocatorTimeout(s), ApiFault(s),
    AuthDenied(s), Accessibility(s), Security(s), Performance(s), DataSetup(s)>>

Claims(s) ==
  <<Flake(s), BrowserCrash(s), FixtureFailure(s), AppFault(s), ApiFault(s), AuthDenied(s),
    LocatorTimeout(s), Accessibility(s), Security(s), Performance(s), DataSetup(s)>>

\* categorize: a stable sort by confidence.
Categorize(s) ==
  LET claims == Claims(s)
      made == {i \in DOMAIN claims : claims[i] # None}
      surest == {i \in made : \A k \in made : claims[k].confidence <= claims[i].confidence}
  IN  IF made = {} THEN Claim("unknown", 30) ELSE claims[Min(surest)]

\* should_retry.  failsOften: at least three of the recent runs failed, and all
\* of them but at most one.
ShouldRetry(s, category) ==
  IF s.retries >= 2 THEN "no_action"
  ELSE IF category \in {"flake", "environment_failure"} THEN "retry"
  ELSE IF category = "auth_failure" /\ ~s.fixtureFailed THEN "retry"
  ELSE IF category = "test_bug" /\ (s.failsOften \/ s.retries >= 1) THEN "quarantine_candidate"
  ELSE "no_action"

\* is_healer_candidate
HealerCandidate(claim) == claim.category = "test_bug" /\ claim.confidence >= 50

-----------------------------------------------------------------------------
Unanalyzed == [claim |-> None, retry |-> "none", heal |-> FALSE]

Category ==
  {"none", "flake", "environment_failure", "auth_failure", "data_setup_failure", "app_bug",
   "api_failure", "test_bug", "accessibility_violation", "security_finding",
   "performance_regression", "unknown"}

FaTypeOK ==
  /\ signal \in Signal
  /\ analysis.claim \in [category : Category, confidence : 0..100]
  /\ analysis.retry \in {"none", "retry", "no_action", "quarantine_candidate"}
  /\ analysis.heal \in BOOLEAN

FaInit == signal \in Signal /\ analysis = Unanalyzed

\* Analyzer.analyze_one.  The language model may only add a text; what it
\* raises is swallowed.
AnalyzeOne ==
  /\ analysis = Unanalyzed
  /\ LET claim == Categorize(signal)
     IN  analysis' = [claim |-> claim, retry |-> ShouldRetry(signal, claim.category),
                      heal |-> HealerCandidate(claim)]
  /\ UNCHANGED signal

FaSpec == FaInit /\ [][AnalyzeOne]_faVars

\* "App bugs, environment failures, flake, security/perf/a11y findings are out
\* of scope (the Healer must not paper over them)" (pipeline.py:112): whatever
\* else a signal carries, no test is healed that passed on another attempt,
\* whose browser crashed, whose application failed or refused a request, whose
\* fixture failed, or that another module's check made fail.
HealsOnlyTestBugs ==
  analysis.heal =>
    /\ signal.status # "flaky" /\ ~signal.alternated
    /\ "crash" \notin signal.marks /\ ~signal.fixtureFailed
    /\ signal.network \cap {"401", "4xx"} = {}
    /\ "5xx" \in signal.network => signal.status = "errored"
    /\ signal.module = "functional"

\* A retry is advised neither a third time nor where it can change nothing: when
\* the application failed in a failing test, when the fixture of the sign-in
\* failed, or for an accessibility finding.
RetryMayHelp ==
  analysis.retry = "retry" =>
    /\ signal.retries < 2
    /\ "5xx" \in signal.network => signal.status \in {"errored", "flaky"}
    /\ signal.module # "a11y"
    /\ signal.fixtureFailed => analysis.claim.category # "auth_failure"

\* What is done about a failure follows from the evidence.
ActionsFollowEvidence == HealsOnlyTestBugs /\ RetryMayHelp
=============================================================================
