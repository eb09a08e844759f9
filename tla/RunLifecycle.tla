---------------------------- MODULE RunLifecycle ----------------------------
(***************************************************************************)
(* One audit run, engine/orchestrator/run_lifecycle.py: safety gate, plan, *)
(* modules on a thread pool, scoring and gate hooks, reporter hook, latest *)
(* pointer, exit code.  The main thread merges the futures in the order    *)
(* the modules were requested in; the pool finishes them in any order.     *)
(* The caches the run reads are in Workspace.                              *)
(***************************************************************************)
EXTENDS Scoring

CONSTANTS
  Requested,   \* the modules to run, in the order of the request
  Registered,  \* the modules that have a factory
  MaxThreads,  \* bound: module_concurrency
  Outcomes,    \* per module, what its runner may hand back: [status, findings, flake]
  Formats,     \* the report formats besides run.json, in the order of emit
  Policy       \* ctx.config.policy

ModuleStatus == {"passed", "failed", "errored", "incomplete", "skipped"}
NoRate == -1
NoExit == -1

ASSUME LifecycleAssumption ==
  /\ Requested \in Seq(Registered \cup STRING) /\ MaxThreads \in Nat \ {0}
  /\ Formats \in Seq({"findings", "score", "junit", "sarif", "markdown", "html"})
  /\ \A m \in Registered : \A o \in Outcomes[m] :
       o.status \in ModuleStatus /\ o.flake \in Nat \cup {NoRate}

Index == DOMAIN Requested

VARIABLES
  phase,    \* where the main thread is
  dryRun, target, threads,  \* the request, fixed for the run
  future,   \* per module: the state of its future and what its thread returned
  outcomes, \* ctx.module_outcomes
  typed,    \* ctx.typed_module_results
  findings, \* ctx.typed_findings
  decision, \* ctx.typed_policy.release_decision
  gatePassed, status, \* ctx.quality_gate_passed, ctx.status
  audit,    \* the events in audit.log
  files,    \* the files of the run directory, run.json excepted
  runJson,  \* the status and the decision run.json carries
  latest,   \* .sentinel/runs/latest points at this run
  exitCode

ctx == <<outcomes, typed, findings, decision, gatePassed, status>>
disk == <<audit, files, runJson, latest>>
vars == <<phase, dryRun, target, threads, future, ctx, disk, exitCode>>

None == "none"
Decisions == {"pass", "pass_with_warnings", "blocked", "inconclusive"}
Statuses == {"unsafe_blocked", "dry_run", "passed", "failed", "incomplete"}

Pending(state) == [state |-> state, outcome |-> None, results |-> <<>>]
NoRun == [status |-> None, decision |-> None]

(* Steps 1 to 5: nothing is decided before the run directory exists.       *)
Init ==
  /\ phase = "enforce"
  /\ dryRun \in BOOLEAN /\ target \in {"allowed", "unknown_host", "no_proof"}
  /\ threads \in 1..MaxThreads
  /\ future = [i \in Index |-> Pending("none")]
  /\ outcomes = <<>> /\ typed = <<>> /\ findings = {}
  /\ decision = None /\ gatePassed = TRUE /\ status = "incomplete"
  /\ audit = {} /\ files = {} /\ runJson = NoRun /\ latest = FALSE
  /\ exitCode = NoExit

----------------------------------------------------------------------------
(* What one module yields.                                                 *)

(* derive_module_status: the runner's own verdict comes first, then the    *)
(* severity of the findings.                                               *)
DeriveModuleStatus(o) ==
  IF o.status \in {"incomplete", "errored", "skipped"} THEN o.status
  ELSE IF \E f \in o.findings : f.severity \in {"critical", "high"} THEN "failed"
  ELSE o.status

Ended(outcome, results) == [state |-> "done", outcome |-> outcome, results |-> results]
Succeeded(o) ==
  Ended("succeeded", <<[status |-> DeriveModuleStatus(o), findings |-> o.findings, flake |-> o.flake]>>)

Product_NoFactoryHangs_Mutant(i) ==
  IF Requested[i] \notin Registered THEN {} ELSE {Succeeded(o) : o \in Outcomes[Requested[i]]}

(* _execute_one_module: an exception of any kind is an errored outcome     *)
(* without a result; a ModuleResult is a success whatever its status.      *)
Product(i) ==
  IF Requested[i] \notin Registered THEN {Ended("skipped", <<>>)}
  ELSE {Ended("errored", <<>>)} \cup {Succeeded(o) : o \in Outcomes[Requested[i]]}

Done(i) == future[i].state = "done"

----------------------------------------------------------------------------
(* The main thread.                                                        *)

Goto(p) == phase = p
Local == UNCHANGED <<dryRun, target, threads>>

(* Step 6: enforce() writes its decision before it raises, except when the *)
(* proof of authorization is missing; _finalize_unsafe ends the run.       *)
EnforceSafety ==
  /\ Goto("enforce")
  /\ IF target = "allowed"
     THEN /\ audit' = audit \cup {"allowed"} /\ phase' = "prepare"
          /\ UNCHANGED <<status, files, runJson, exitCode>>
     ELSE /\ audit' = audit \cup {"safety_block"}
                            \cup (IF target = "unknown_host" THEN {"refused"} ELSE {})
          /\ status' = "unsafe_blocked"
          /\ runJson' = [status |-> "unsafe_blocked", decision |-> None]
          /\ phase' = "returned" /\ exitCode' = 4
          /\ UNCHANGED files
  /\ Local /\ UNCHANGED <<future, outcomes, typed, findings, decision, gatePassed, latest>>

(* Steps 7 to 9, then a dry run stops with a short run.json.               *)
Prepare ==
  /\ Goto("prepare")
  /\ IF dryRun
     THEN /\ status' = "dry_run" /\ phase' = "returned" /\ exitCode' = 0
          /\ runJson' = [status |-> "dry_run", decision |-> None]
          /\ files' = files \cup {"config.snapshot", "plan", "cache"} /\ latest' = TRUE
     ELSE /\ files' = files \cup {"config.snapshot", "plan"} /\ phase' = "modules"
          /\ UNCHANGED <<status, runJson, latest, exitCode>>
  /\ Local /\ UNCHANGED <<future, outcomes, typed, findings, decision, gatePassed, audit>>

(* Step 10: the parallel path submits everything at once, the sequential   *)
(* one when the previous result has been merged.                           *)
Submit ==
  /\ Goto("modules")
  /\ future' = [i \in Index |-> Pending("queued")]
  /\ phase' = IF Requested = <<>> THEN "score" ELSE "merge"
  /\ Local /\ UNCHANGED <<ctx, disk, exitCode>>

Running == {i \in Index : future[i].state = "running"}

MayStart(i) ==
  /\ future[i].state = "queued"
  /\ \A j \in 1..(i - 1) : future[j].state # "queued"
  /\ Cardinality(Running) < threads
  /\ threads = 1 \/ Len(Requested) = 1 => Len(outcomes) = i - 1

StartModule(i) ==
  /\ MayStart(i)
  /\ future' = [future EXCEPT ![i] = Pending("running")]
  /\ Local /\ UNCHANGED <<phase, ctx, disk, exitCode>>

FinishModule(i) ==
  /\ future[i].state = "running"
  /\ \E p \in Product(i) : future' = [future EXCEPT ![i] = p]
  /\ Local /\ UNCHANGED <<phase, ctx, disk, exitCode>>

NextFuture_NoWait_Mutant(i) == i = Len(outcomes) + 1

NextFuture_AsCompleted_Mutant(i) ==
  Done(i) /\ \A k \in DOMAIN outcomes : outcomes[k].name # Requested[i]

(* The main thread waits for the futures in the order of the request.      *)
NextFuture(i) == i = Len(outcomes) + 1 /\ Done(i)

FindingsOf(i) == UNION {res.findings : res \in ToSet(future[i].results)}

(* _merge_module_result.                                                   *)
MergeModule(i) ==
  /\ Goto("merge") /\ NextFuture(i)
  /\ outcomes' = Append(outcomes, [name |-> Requested[i], status |-> future[i].outcome])
  /\ typed' = typed \o [k \in DOMAIN future[i].results |->
                          [name |-> Requested[i], result |-> future[i].results[k]]]
  /\ findings' = findings \cup FindingsOf(i)
  /\ phase' = IF Len(outcomes') = Len(Requested) THEN "score" ELSE phase
  /\ Local /\ UNCHANGED <<future, decision, gatePassed, status, disk, exitCode>>

AnyErrored == \E k \in DOMAIN outcomes : outcomes[k].status = "errored"
Rates ==
  LET reported == SelectSeq(typed, LAMBDA t : t.result.flake # NoRate)
  IN  [k \in DOMAIN reported |-> reported[k].result.flake]

EffectiveStatus_Typed_Mutant ==
  IF \E k \in DOMAIN typed : typed[k].result.status = "errored" THEN "incomplete" ELSE "passed"

(* _score_hook: the status is not final yet, so the gate presumes one.     *)
EffectiveStatus == IF AnyErrored THEN "incomplete" ELSE "passed"

(* Steps 11 to 13; collect and normalise have no hooks of the engine.      *)
ScoreRun ==
  /\ Goto("score") /\ phase' = "gate"
  /\ decision' = ApplyPolicyGate(findings, Rates, Policy, EffectiveStatus)
  /\ Local /\ UNCHANGED <<future, outcomes, typed, findings, gatePassed, status, disk, exitCode>>

GateFails == decision = "blocked"

(* Step 14.                                                                *)
ApplyGate ==
  /\ Goto("gate") /\ phase' = "report"
  /\ gatePassed' = (gatePassed /\ ~GateFails)
  /\ Local /\ UNCHANGED <<future, outcomes, typed, findings, decision, status, disk, exitCode>>

(* _finalize_status: a failed gate outranks an errored module.             *)
FinalStatus ==
  IF ~gatePassed THEN "failed" ELSE IF AnyErrored THEN "incomplete" ELSE "passed"

(* Step 15: the status is final before the reporter runs, and run.json is  *)
(* its first file.                                                         *)
WriteRunJson ==
  /\ Goto("report") /\ phase' = "emit"
  /\ status' = FinalStatus
  /\ runJson' = [status |-> FinalStatus, decision |-> decision]
  /\ Local /\ UNCHANGED <<future, outcomes, typed, findings, decision, gatePassed, audit, files, latest, exitCode>>

Wanted == {f \in ToSet(Formats) : f = "findings" => findings # {}}
Owed == {f \in Wanted : f \notin files}

EmitDone_Early_Mutant == Cardinality(Owed) <= 1

EmitDone == Owed = {}

(* Reporter.emit: one file after the other, findings.json only if there    *)
(* are any.                                                                *)
WriteReport ==
  /\ Goto("emit")
  /\ \E k \in DOMAIN Formats :
       /\ Formats[k] \in Owed /\ \A j \in 1..(k - 1) : Formats[j] \notin Owed
       /\ files' = files \cup {Formats[k]}
  /\ Local /\ UNCHANGED <<phase, future, ctx, audit, runJson, latest, exitCode>>

StatusToExitCode(s) ==
  CASE s = "failed"         -> 1
    [] s = "unsafe_blocked" -> 4
    [] s = "incomplete"     -> 6
    [] OTHER                -> 0

(* The audit entries of the reporter, then steps 16 and 17.                *)
Persist ==
  /\ Goto("emit") /\ EmitDone
  /\ audit' = audit \cup {"artifact_emitted"}
  /\ files' = files \cup {"cache"}
  /\ latest' = TRUE
  /\ phase' = "returned" /\ exitCode' = StatusToExitCode(status)
  /\ Local /\ UNCHANGED <<future, ctx, runJson>>

(* An I/O error on the main thread escapes execute(): the CLI exits with 7 *)
(* and what is on disk stays.                                              *)
Raise ==
  /\ phase \in {"enforce", "prepare", "report", "emit"}
  /\ phase' = "raised" /\ exitCode' = 7
  /\ Local /\ UNCHANGED <<future, ctx, disk>>

MainStep ==
  \/ EnforceSafety \/ Prepare \/ Submit \/ (\E i \in Index : MergeModule(i))
  \/ ScoreRun \/ ApplyGate \/ WriteRunJson \/ WriteReport \/ Persist

Next ==
  \/ MainStep \/ Raise
  \/ \E i \in Index : StartModule(i) \/ FinishModule(i)

Spec == Init /\ [][Next]_vars

(* A module ends: every runner call the modules make is bounded by its     *)
(* child process.  The pool and the main thread are scheduled.             *)
LiveSpec ==
  /\ Spec /\ WF_vars(MainStep)
  /\ \A i \in Index : WF_vars(StartModule(i)) /\ WF_vars(FinishModule(i))

----------------------------------------------------------------------------
Products == UNION {Product(i) : i \in Index}

TypeOK ==
  /\ phase \in {"enforce", "prepare", "modules", "merge", "score", "gate",
                "report", "emit", "returned", "raised"}
  /\ dryRun \in BOOLEAN /\ target \in {"allowed", "unknown_host", "no_proof"}
  /\ threads \in 1..MaxThreads
  /\ DOMAIN future = Index
  /\ \A i \in Index : future[i] \in {Pending(st) : st \in {"none", "queued", "running"}} \cup Product(i)
  /\ outcomes \in Seq([name: ToSet(Requested), status: {"succeeded", "errored", "skipped"}])
  /\ Len(outcomes) <= Len(Requested)
  /\ typed \in Seq([name: ToSet(Requested), result: UNION {ToSet(p.results) : p \in Products}])
  /\ decision \in Decisions \cup {None} /\ gatePassed \in BOOLEAN /\ status \in Statuses
  /\ audit \subseteq {"allowed", "refused", "safety_block", "artifact_emitted"}
  /\ files \subseteq {"config.snapshot", "plan", "cache"} \cup ToSet(Formats)
  /\ runJson \in [status: Statuses \cup {None}, decision: Decisions \cup {None}]
  /\ latest \in BOOLEAN /\ exitCode \in {NoExit, 0, 1, 4, 6, 7}

(* Whatever order the threads finish in, what has been merged is what a    *)
(* sequential run would have merged: the results of the first modules, in  *)
(* the order of the request (run_modules, _merge_module_result).           *)
MergedLikeSequential ==
  /\ \A k \in DOMAIN outcomes :
       /\ outcomes[k].name = Requested[k] /\ Done(k)
       /\ outcomes[k].status = future[k].outcome
  /\ findings = UNION {FindingsOf(k) : k \in DOMAIN outcomes}
  /\ \A a, b \in DOMAIN typed : a < b =>
       \E j, k \in DOMAIN outcomes : j < k /\ Requested[j] = typed[a].name /\ Requested[k] = typed[b].name

(* No module starts, and nothing but run.json and the audit log is left on *)
(* disk, unless the safety policy has written that it allows the target;   *)
(* such a run ends with exit code 4 (enforce_safety_policy).               *)
NothingBeforeSafety ==
  /\ (\E i \in Index : future[i].state \in {"running", "done"}) => "allowed" \in audit /\ target = "allowed"
  /\ target # "allowed" => files = {} /\ ~latest /\ exitCode \in {NoExit, 4, 7}

(* The status that run.json and the exit code carry is the one the release *)
(* decision was made for, although the decision is made first, from a      *)
(* presumed status (_score_hook, _gate_hook, _finalize_status).            *)
StatusAgreesWithDecision ==
  runJson.status \in {"passed", "failed", "incomplete"} =>
    /\ runJson = [status |-> status, decision |-> decision]
    /\ status = "incomplete" <=> decision = "inconclusive"
    /\ status = "failed" <=> decision = "blocked"
    /\ exitCode \in {NoExit, 7, StatusToExitCode(status)}

(* If the policy blocks critical findings, no run in which a module ended  *)
(* with one exits with 0 (the whole path from module to exit code).        *)
CriticalNeverExitsZero ==
  /\ exitCode = 0 /\ Policy.blockCritical
  => \A i \in Index : Done(i) =>
       \A f \in FindingsOf(i) : f.severity # "critical"

(* Decision, status, record and exit code agree with each other, and with  *)
(* the worst that a module has found.                                      *)
VerdictIsTrue == StatusAgreesWithDecision /\ CriticalNeverExitsZero

(* The latest pointer only ever names a run whose record is complete: the  *)
(* final run.json, cache.json and every report that was asked for          *)
(* (generate_reports before persist_artifacts).                            *)
LatestIsComplete ==
  latest => /\ runJson.status = status /\ "cache" \in files
            /\ ~dryRun => Wanted \subseteq files

(* execute() ends: it returns or raises.                                   *)
RunEnds == <>(phase \in {"returned", "raised"})

(* Stated by run_lifecycle.py:698-699 and architecture.md:56: a run in     *)
(* which a module did not complete its checks is not stamped passed.       *)
PassedMeansComplete ==
  phase = "returned" /\ status = "passed" =>
    \A k \in DOMAIN typed : typed[k].result.status \notin {"errored", "incomplete"}
=============================================================================
