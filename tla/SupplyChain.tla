---------------------------- MODULE SupplyChain ----------------------------
(***************************************************************************)
(* The supply-chain audit: it reads the lockfiles, asks OSV about what they *)
(* name batch by batch, runs four more checks one after another, and turns  *)
(* what they reported into findings, a module status and an exit code.      *)
(*                                                                         *)
(* modules/supply_chain and the command sentinel supply-chain.  A check can *)
(* find something, find nothing, skip itself, or raise; OSV can stop        *)
(* answering between two batches.                                           *)
(***************************************************************************)
EXTENDS Naturals, FiniteSets, FiniteSetsExt

CONSTANTS
  Lockfile,      \* the lockfile names the project root may hold
  Component,     \* what a lockfile may name: (ecosystem, name, version)
  Vuln,          \* what an image scan may report: [id, severity]
  BatchSize,     \* OSV_MAX_PER_BATCH
  MaxFindings    \* policy.supply_chain.container.max_findings

ASSUME BatchesAdvance == BatchSize \in Nat \ {0}
ASSUME CapIsNumber == MaxFindings \in Nat

Check == {"sbom", "osv", "freshness", "postinstall", "container", "licenses"}
Severity == {"critical", "high", "medium", "low", "info"}
Blocking == {"critical", "high"}

\* A scanner reports finitely many, and _map_severity gives each a severity.
ASSUME ScansAreFinite == IsFiniteSet(Vuln) /\ \A v \in Vuln : v.severity \in Severity

VARIABLES
  checks,        \* the checks that are enabled
  lock,          \* the components each lockfile names; none if there is no such file
  damaged,       \* the lockfiles that cannot be parsed
  scStage,       \* the next check, "verdict", "done" or "raised"
  unasked,       \* components OSV has not been asked about yet
  told,          \* <<component, severity>> of OSV's well-formed answers
  osvDown,       \* OSV stopped answering
  reports,       \* the checks that left a report
  issues         \* <<check, severity>> in the reports of the other checks

scVars == <<checks, lock, damaged, scStage, unasked, told, osvDown, reports, issues>>

ScTypeOK ==
  /\ checks \subseteq Check
  /\ lock \in [Lockfile -> SUBSET Component]
  /\ damaged \subseteq Lockfile
  /\ scStage \in Check \cup {"verdict", "done", "raised"}
  /\ unasked \subseteq Component
  /\ told \subseteq Component \X Severity
  /\ osvDown \in BOOLEAN
  /\ reports \subseteq checks \cup {"sbom"}
  /\ issues \subseteq Check \X Severity

ScInit ==
  /\ checks \in SUBSET Check
  /\ lock \in [Lockfile -> SUBSET Component]
  /\ damaged \in SUBSET Lockfile
  /\ scStage = "sbom"
  /\ unasked = {} /\ told = {} /\ osvDown = FALSE
  /\ reports = {} /\ issues = {}

\* build_sbom: a lockfile that cannot be parsed has no components and stops
\* nothing.
Named == UNION {lock[l] : l \in Lockfile \ damaged}

Skip(check) == scStage = check /\ check \notin checks
Report(check) == reports' = reports \cup {check}

BuildSbom ==
  /\ scStage = "sbom"
  /\ scStage' = "osv"
  /\ IF checks \cap {"sbom", "osv", "freshness", "licenses"} # {}
     THEN Report("sbom") /\ unasked' = Named
     ELSE UNCHANGED <<reports, unasked>>
  /\ UNCHANGED <<checks, lock, damaged, told, osvDown, issues>>

SkipOsv ==
  /\ Skip("osv")
  /\ scStage' = "freshness"
  /\ UNCHANGED <<checks, lock, damaged, unasked, told, osvDown, reports, issues>>

\* One batch is answered.  A body without a list of results, and a list that
\* is shorter than the batch, tell nothing of what they leave out.
AskOsv ==
  /\ scStage = "osv" /\ "osv" \in checks /\ unasked # {}
  /\ \E batch \in kSubset(Min({BatchSize, Cardinality(unasked)}), unasked) :
       /\ \E answer \in SUBSET (batch \X {"critical", "medium"}) : told' = told \cup answer
       /\ unasked' = unasked \ batch
  /\ UNCHANGED <<checks, lock, damaged, scStage, osvDown, reports, issues>>

\* A request that fails, or is refused, ends the questions; what was told
\* before stays in the report.
LoseOsv ==
  /\ scStage = "osv" /\ "osv" \in checks /\ unasked # {}
  /\ osvDown' = TRUE
  /\ Report("osv")
  /\ scStage' = "freshness"
  /\ UNCHANGED <<checks, lock, damaged, unasked, told, issues>>

EndOsv ==
  /\ scStage = "osv" /\ "osv" \in checks /\ unasked = {}
  /\ Report("osv")
  /\ scStage' = "freshness"
  /\ UNCHANGED <<checks, lock, damaged, unasked, told, osvDown, issues>>

After(check) ==
  [freshness |-> "postinstall", postinstall |-> "container", container |-> "licenses",
   licenses |-> "verdict"][check]

\* One of the later checks reports issues of these severities.
RunCheck(check, severities) ==
  /\ scStage = check
  /\ IF check \in checks
     THEN Report(check) /\ issues' = issues \cup ({check} \X severities)
     ELSE UNCHANGED <<reports, issues>>
  /\ scStage' = After(check)
  /\ UNCHANGED <<checks, lock, damaged, unasked, told, osvDown>>

Freshness == \E found \in SUBSET {"medium"} : RunCheck("freshness", found)

Postinstall == \E found \in SUBSET {"high", "medium"} : RunCheck("postinstall", found)

Rank(severity) ==
  [critical |-> 0, high |-> 1, medium |-> 2, low |-> 3, info |-> 4][severity]

Cap_Lenient_Mutant(found) ==
  LET before(u, v) == \/ Rank(u.severity) > Rank(v.severity)
                      \/ Rank(u.severity) = Rank(v.severity) /\ u.id < v.id
  IN  IF MaxFindings = 0 THEN found
      ELSE {v \in found : Cardinality({u \in found : before(u, v)}) < MaxFindings}

\* _cap: the most severe first; zero means no limit.
Cap(found) ==
  LET before(u, v) == \/ Rank(u.severity) < Rank(v.severity)
                      \/ Rank(u.severity) = Rank(v.severity) /\ u.id < v.id
  IN  IF MaxFindings = 0 THEN found
      ELSE {v \in found : Cardinality({u \in found : before(u, v)}) < MaxFindings}

\* scan_container: no image or no scanner is worth a note, a scanner that does
\* not start or prints no JSON is skipped without one.
Container ==
  \/ RunCheck("container", {"info"})
  \/ \E found \in SUBSET Vuln : RunCheck("container", {v.severity : v \in Cap(found)})

\* audit_licenses: a denied licence blocks; one that is not declared has the
\* severity the policy gives it.
Licenses ==
  \E found \in SUBSET {"high", "low"} :
    /\ Named = {} => found = {}
    /\ RunCheck("licenses", found)

\* A file that is no text, a scanner that outlasts its time-out, an answer of
\* OSV that is no JSON: the module ends as errored, and with it every report.
Raise ==
  /\ scStage \in checks \ {"sbom", "licenses"}
  /\ scStage = "osv" => unasked # {}
  /\ scStage' = "raised"
  /\ reports' = {} /\ issues' = {}
  /\ UNCHANGED <<checks, lock, damaged, unasked, told, osvDown>>

Judge ==
  /\ scStage = "verdict"
  /\ scStage' = "done"
  /\ UNCHANGED <<checks, lock, damaged, unasked, told, osvDown, reports, issues>>

ScNext ==
  \/ BuildSbom \/ SkipOsv \/ AskOsv \/ LoseOsv \/ EndOsv
  \/ Freshness \/ Postinstall \/ Container \/ Licenses \/ Raise \/ Judge

ScSpec == ScInit /\ [][ScNext]_scVars

Findings_OnlyWholeReports_Mutant ==
  issues \cup {<<"osv", t[2]>> : t \in {u \in told : "osv" \in reports /\ ~osvDown}}

\* emit_findings: every advisory of the OSV report, whole or not, and every
\* issue of the others.
Findings == issues \cup {<<"osv", t[2]>> : t \in {u \in told : "osv" \in reports}}

Blocked == \E f \in Findings : f[2] \in Blocking

\* summarize, and the outcome of a module that raised.
ModuleStatus ==
  IF scStage = "raised" THEN "errored"
  ELSE IF reports = {} THEN "skipped"
  ELSE IF osvDown THEN "incomplete"
  ELSE IF Blocked THEN "failed" ELSE "passed"

ExitCode_FindingsOnly_Mutant ==
  IF ModuleStatus = "errored" THEN "test_execution_failed"
  ELSE IF Blocked THEN "quality_gate_failed" ELSE "success"

\* supply_chain_cmd
ExitCode ==
  IF ModuleStatus = "errored" THEN "test_execution_failed"
  ELSE IF ModuleStatus = "incomplete" \/ Blocked THEN "quality_gate_failed" ELSE "success"

\* The command succeeds only if OSV, where it was to be asked, answered for
\* every component of every lockfile that can be read, and nothing it or the
\* other checks told is critical or high; no check that raises and no network
\* that fails half-way turns into a success.
SuccessIsEarned ==
  (scStage = "done" \/ scStage = "raised") /\ ExitCode = "success" =>
    /\ "osv" \in checks => unasked = {} /\ \A t \in told : t[2] \notin Blocking
    /\ \A f \in issues : f[2] \notin Blocking

\* What OSV told before it stopped answering is reported, whatever the status.
NothingToldIsLost ==
  scStage = "done" => \A t \in told : <<"osv", t[2]>> \in Findings

\* A list of image findings that is cut keeps the worst: it drops a blocking
\* one only if everything it keeps is blocking.
CapKeepsTheWorst ==
  \A found \in SUBSET Vuln : \A v \in found \ Cap(found) :
    v.severity \in Blocking => \A u \in Cap(found) : u.severity \in Blocking

SupplyVerdictIsEarned == SuccessIsEarned /\ NothingToldIsLost /\ CapKeepsTheWorst
=============================================================================
