----------------------------- MODULE AgentServer -----------------------------
(***************************************************************************)
(* What coding agents are told about their fixes: the tools verify_fix and *)
(* compare_runs of the MCP server (packages/mcp-server), over the audits   *)
(* of the SDK facade and the comparison in engine/runs.                    *)
(*                                                                         *)
(* Connections over loopback HTTP are served at the same time, and each    *)
(* audit and each look-up of a run directory is a thread of its own, so    *)
(* that the working tree is edited and other runs begin and end while a    *)
(* call is under way.                                                      *)
(***************************************************************************)
EXTENDS Naturals, FiniteSets, Sequences

CONSTANTS
  Connection,  \* one call each at a time
  Fault,       \* what can be wrong, by fingerprint
  ModuleOf,    \* the module that finds each
  None,        \* Python's None
  MaxRuns,     \* bound on the audits
  MaxEdits     \* bound on the edits of the working tree

ASSUME FaultsHaveModules == None \notin Fault /\ DOMAIN ModuleOf = Fault
ASSUME OneRunAtLeast == MaxRuns \in Nat \ {0} /\ MaxEdits \in Nat

Grade == {"low", "high"}
FindingSets == UNION {[s -> Grade] : s \in SUBSET Fault}
AuditModule == {ModuleOf[f] : f \in Fault}
Nobody == [kind |-> "none"]

VARIABLES
  asTree,     \* what is wrong in the working tree, and how badly
  asRuns,     \* the runs: [todo, seen, stage, file]; file is findings.json
  asLatest,   \* the run the latest pointer names, 0 before the first
  asCall,     \* the call of each connection, or Nobody
  asEdits     \* edits so far

asVars == <<asTree, asRuns, asLatest, asCall, asEdits>>

RunRecord ==
  [todo : SUBSET AuditModule, done : SUBSET AuditModule, seen : FindingSets,
   stage : {"running", "written", "over", "failed"}]

AsTypeOK ==
  /\ asTree \in FindingSets
  /\ asRuns \in Seq(RunRecord) /\ Len(asRuns) <= MaxRuns
  /\ asLatest \in 0..Len(asRuns)
  /\ DOMAIN asCall = Connection
  /\ asEdits \in 0..MaxEdits

\* A project that was audited once.
AsInit ==
  /\ asTree \in FindingSets
  /\ asRuns = <<[todo |-> {}, done |-> AuditModule, seen |-> asTree, stage |-> "over"]>>
  /\ asLatest = 1
  /\ asCall = [c \in Connection |-> Nobody]
  /\ asEdits = 0

-----------------------------------------------------------------------------
\* Runs (Sentinel._run_audit_sync, RunLifecycle.execute).

NewRun(modules) == [todo |-> modules, done |-> {}, seen |-> <<>>, stage |-> "running"]

\* What the reports of a run directory hold: nothing before they are written.
WrittenFindings(i) ==
  IF asRuns[i].stage \in {"written", "over"} THEN asRuns[i].seen ELSE <<>>

Restricted(findings, modules) ==
  [f \in {f \in DOMAIN findings : ModuleOf[f] \in modules} |-> findings[f]]

Union(one, other) ==
  [f \in DOMAIN one \cup DOMAIN other |-> IF f \in DOMAIN one THEN one[f] ELSE other[f]]

\* A module sees its part of the tree, or errs and reports nothing.
ModuleRuns(i, errs) ==
  /\ asRuns[i].stage = "running" /\ asRuns[i].todo # {}
  /\ \E m \in asRuns[i].todo :
       asRuns' = [asRuns EXCEPT ![i].todo = @ \ {m},
                                ![i].done = IF errs THEN @ ELSE @ \cup {m},
                                ![i].seen = IF errs THEN @ ELSE Union(@, Restricted(asTree, {m}))]
  /\ UNCHANGED <<asTree, asLatest, asCall, asEdits>>

WriteReports(i) ==
  /\ asRuns[i].stage = "running" /\ asRuns[i].todo = {}
  /\ asRuns' = [asRuns EXCEPT ![i].stage = "written"]
  /\ UNCHANGED <<asTree, asLatest, asCall, asEdits>>

MovePointer(i) ==
  /\ asRuns[i].stage = "written"
  /\ asRuns' = [asRuns EXCEPT ![i].stage = "over"]
  /\ asLatest' = i
  /\ UNCHANGED <<asTree, asCall, asEdits>>

\* The audit raises: no reports, and the call is answered with a failure.
RunRaises(i) ==
  /\ asRuns[i].stage = "running"
  /\ asRuns' = [asRuns EXCEPT ![i].stage = "failed", ![i].todo = {}]
  /\ UNCHANGED <<asTree, asLatest, asCall, asEdits>>

\* An agent or a developer changes the tree.
EditTree ==
  /\ asEdits < MaxEdits
  /\ \E f \in Fault :
       \/ f \in DOMAIN asTree /\ asTree' = [g \in DOMAIN asTree \ {f} |-> asTree[g]]
       \/ \E s \in Grade : /\ asTree' = [g \in DOMAIN asTree \cup {f} |->
                                             IF g = f THEN s ELSE asTree[g]]
                              /\ asTree' # asTree
  /\ asEdits' = asEdits + 1
  /\ asCall' = [c \in Connection |-> IF asCall[c].kind = "verify"
                                     THEN [asCall[c] EXCEPT !.moved = TRUE] ELSE asCall[c]]
  /\ UNCHANGED <<asRuns, asLatest>>

-----------------------------------------------------------------------------
\* verify_fix (run_verify_fix).

\* The prior findings are read once, now; a target they do not hold is none.  A
\* prior run that is still under way has no findings and no failure is reported.
StartVerify(c, prior, target, modules) ==
  /\ asCall[c] = Nobody /\ Len(asRuns) < MaxRuns
  /\ asCall' = [asCall EXCEPT ![c] =
       [kind |-> "verify", stage |-> "audit",
        target |-> IF target \in DOMAIN WrittenFindings(prior) THEN target ELSE None,
        old |-> WrittenFindings(prior), run |-> Len(asRuns) + 1,
        moved |-> FALSE, decision |-> "none"]]
  /\ asRuns' = Append(asRuns, NewRun(modules))
  /\ UNCHANGED <<asTree, asLatest, asEdits>>

Decide_AnyClear_Mutant(target, old, new) ==
  IF target # None /\ target \in new
  THEN IF new \ old # {} THEN "regressed" ELSE "still_failing"
  ELSE IF new \ old = {} THEN "fix_verified" ELSE "partial"

\* _decide
Decide(target, old, new) ==
  IF target # None /\ target \in new
  THEN IF new \ old # {} THEN "regressed" ELSE "still_failing"
  ELSE IF new = {} THEN "fix_verified" ELSE "partial"

\* The audit of the call has returned or raised (_handle_tools_call).
AnswerVerify(c) ==
  /\ asCall[c].kind = "verify" /\ asCall[c].stage = "audit"
  /\ LET run == asRuns[asCall[c].run]
     IN  \/ /\ run.stage = "over"
            /\ asCall' = [asCall EXCEPT ![c].stage = "answered", ![c].decision =
                 Decide(asCall[c].target, DOMAIN asCall[c].old, DOMAIN run.seen)]
         \/ /\ run.stage = "failed"
            /\ asCall' = [asCall EXCEPT ![c].stage = "answered", ![c].decision = "failure"]
  /\ UNCHANGED <<asTree, asRuns, asLatest, asEdits>>

-----------------------------------------------------------------------------
\* compare_runs (CompareRunsTool.invoke, compare_runs in engine/runs).

\* The directory of the earlier run is looked up first.
StartCompare(c, before) ==
  /\ asCall[c] = Nobody
  /\ asCall' = [asCall EXCEPT ![c] =
       [kind |-> "compare", stage |-> "after", before |-> before, after |-> 0, latest |-> FALSE,
        old |-> <<>>, new |-> <<>>]]
  /\ UNCHANGED <<asTree, asRuns, asLatest, asEdits>>

\* The later run is named, or the pointer is followed.
LookUpAfter(c, latest) ==
  /\ asCall[c].kind = "compare" /\ asCall[c].stage = "after"
  /\ \E after \in IF latest THEN {asLatest} ELSE 1..Len(asRuns) :
       asCall' = [asCall EXCEPT ![c].stage = "load_before", ![c].after = after,
                                ![c].latest = latest]
  /\ UNCHANGED <<asTree, asRuns, asLatest, asEdits>>

\* load_run_summary takes a file that is not there for an empty one.
LoadBefore(c) ==
  /\ asCall[c].kind = "compare" /\ asCall[c].stage = "load_before"
  /\ asCall' = [asCall EXCEPT ![c].stage = "load_after", ![c].before = 0,
                              ![c].old = WrittenFindings(asCall[c].before)]
  /\ UNCHANGED <<asTree, asRuns, asLatest, asEdits>>

LoadAfter(c) ==
  /\ asCall[c].kind = "compare" /\ asCall[c].stage = "load_after"
  /\ asCall' = [asCall EXCEPT ![c].stage = "answered",
                              ![c].new = WrittenFindings(asCall[c].after)]
  /\ UNCHANGED <<asTree, asRuns, asLatest, asEdits>>

SeverityRank(severity) == [low |-> 1, high |-> 3][severity]

Appeared(call) == DOMAIN call.new \ DOMAIN call.old
Persistent(call) == DOMAIN call.new \cap DOMAIN call.old

Worsened_AnyChange_Mutant(call) == {f \in Persistent(call) : call.new[f] # call.old[f]}

Worsened(call) == {f \in Persistent(call) : SeverityRank(call.new[f]) > SeverityRank(call.old[f])}

\* RunComparison.has_regressions
HasRegressions(call) == Appeared(call) # {} \/ Worsened(call) # {}

\* The client has its answer and may call again.
TakeAnswer(c) ==
  /\ asCall[c] # Nobody /\ asCall[c].stage = "answered"
  /\ asCall' = [asCall EXCEPT ![c] = Nobody]
  /\ UNCHANGED <<asTree, asRuns, asLatest, asEdits>>

AsNext ==
  \/ \E i \in DOMAIN asRuns :
       \/ \E errs \in BOOLEAN : ModuleRuns(i, errs)
       \/ WriteReports(i) \/ MovePointer(i) \/ RunRaises(i)
  \/ EditTree
  \/ \E c \in Connection :
       \/ \E i \in DOMAIN asRuns :
            \/ \E target \in Fault \cup {None}, modules \in (SUBSET AuditModule) \ {{}} :
                 StartVerify(c, i, target, modules)
            \/ StartCompare(c, i)
       \/ AnswerVerify(c)
       \/ \E latest \in BOOLEAN : LookUpAfter(c, latest)
       \/ LoadBefore(c) \/ LoadAfter(c) \/ TakeAnswer(c)

AsSpec == AsInit /\ [][AsNext]_asVars

-----------------------------------------------------------------------------
\* The answers of verify_fix say what the tree is like: a fix is verified only
\* when the modules that could look found nothing at all, and nothing wrong of
\* theirs was there unless the tree was edited meanwhile; a target is called
\* failing only when the prior run named it and it is still there; and
\* "regressed" only when there is something the prior run did not name.  A
\* module that erred did not look: the decision does not tell (_decide).
VerdictsAreHonest ==
  \A c \in Connection :
    LET call == asCall[c]
    IN  call.kind = "verify" /\ call.stage = "answered" =>
          LET run == asRuns[call.run]
              wrong == {f \in DOMAIN asTree : ModuleOf[f] \in run.done}
          IN  /\ call.decision = "fix_verified" /\ ~call.moved => wrong = {}
              /\ call.decision \in {"still_failing", "regressed"} =>
                   /\ call.target \in DOMAIN call.old
                   /\ ~call.moved => call.target \in DOMAIN asTree
              /\ call.decision \in {"still_failing", "partial"} /\ ~call.moved => wrong # {}
              /\ call.decision = "regressed" => ~(DOMAIN run.seen \subseteq DOMAIN call.old)

\* A comparison with the latest run is never with one that is still under way,
\* whatever moves the pointer between the two look-ups; and one that reports no
\* regression has found nothing in the later run that is new or worse, while one
\* that reports any can name it (the pointer moves after the reports are written,
\* compare_runs).
ComparisonsAreWhole ==
  \A c \in Connection :
    LET call == asCall[c]
    IN  call.kind = "compare" /\ call.stage = "answered" =>
          /\ call.latest => call.new = asRuns[call.after].seen /\ asRuns[call.after].stage = "over"
          /\ ~HasRegressions(call) <=>
               \A f \in DOMAIN call.new : f \in DOMAIN call.old /\ SeverityRank(call.new[f]) <= SeverityRank(call.old[f])

AnswersAreHonest == VerdictsAreHonest /\ ComparisonsAreWhole
=============================================================================
