--------------------------- MODULE ProjectProofs ---------------------------
(***************************************************************************)
(* Proofs about the components of MCProject: one run of the auditor, any   *)
(* number of runs that share a directory, the choice of modules and specs  *)
(* by a diff while somebody works in it, and the runs the events of real   *)
(* users become; at the end, all of them together.                         *)
(***************************************************************************)
EXTENDS MCProject, FiniteSetTheorems, SequenceTheorems, TLAPS

(***************************************************************************)
(* One run, for any modules, thread count, runner outcomes, report formats *)
(* and policy.                                                             *)
(***************************************************************************)
(* Only a presumed status of incomplete makes the gate inconclusive.       *)
LEMMA GateIsConclusive ==
  ASSUME NEW problems, NEW rates, NEW policy, NEW presumed \in {"passed", "incomplete"}
  PROVE  /\ ApplyPolicyGate(problems, rates, policy, presumed) \in Decisions
         /\ ApplyPolicyGate(problems, rates, policy, presumed) = "inconclusive" <=> presumed = "incomplete"
<1> DEFINE score == Score(problems, rates, policy)
           blockers == Blockers(problems, policy)
<1>1. CASE presumed = "incomplete"
  BY <1>1 DEF ApplyPolicyGate, SelectDecision, Decisions
<1>2. CASE presumed = "passed"
  <2> HIDE DEF score, blockers
  <2>1. SelectDecision(score, blockers, problems, policy, presumed)
          \in {"blocked", "pass_with_warnings", "pass"}
    BY <1>2 DEF SelectDecision
  <2> QED BY <1>2, <2>1 DEF ApplyPolicyGate, Decisions, score, blockers
<1> QED BY <1>1, <1>2

----------------------------------------------------------------------------
(* What the main thread knows about the verdict at each of its steps: the  *)
(* outcomes do not change any more once the decision has been made.        *)
Undecided == runJson = NoRun /\ exitCode = NoExit /\ gatePassed = TRUE

Decided == decision \in Decisions /\ (decision = "inconclusive" <=> AnyErrored)

VerdictRecorded == StatusAgreesWithDecision

VerdictInv ==
  /\ phase \in {"enforce", "prepare", "modules", "merge", "score", "gate",
                "report", "emit", "returned", "raised"}
  /\ phase \in {"enforce", "prepare", "modules", "merge", "score"} => Undecided
  /\ phase = "gate" => Undecided /\ Decided
  /\ phase = "report" => /\ Decided /\ runJson = NoRun /\ exitCode = NoExit
                         /\ gatePassed = (decision # "blocked")
  /\ phase = "emit" => /\ runJson.status = status /\ exitCode = NoExit
  /\ VerdictRecorded

LEMMA VerdictInit == Init => VerdictInv
BY DEF Init, VerdictInv, Undecided, VerdictRecorded, StatusAgreesWithDecision, NoRun, None

LEMMA VerdictStep == VerdictInv /\ [Next]_vars => VerdictInv'
<1> SUFFICES ASSUME VerdictInv, [Next]_vars
             PROVE  VerdictInv'
  OBVIOUS
<1> USE DEF VerdictInv, Undecided, VerdictRecorded
<1>1. CASE EnforceSafety
  <2>1. CASE target = "allowed"
    BY <1>1, <2>1 DEF EnforceSafety, Goto, StatusAgreesWithDecision, NoRun, None
  <2>2. CASE target # "allowed"
    BY <1>1, <2>2 DEF EnforceSafety, Goto, StatusAgreesWithDecision, NoRun, None
  <2> QED BY <2>1, <2>2
<1>2. CASE Prepare
  <2>1. CASE dryRun
    BY <1>2, <2>1 DEF Prepare, Goto, StatusAgreesWithDecision, NoRun, None
  <2>2. CASE ~dryRun
    BY <1>2, <2>2 DEF Prepare, Goto, StatusAgreesWithDecision, NoRun, None
  <2> QED BY <2>1, <2>2
<1>3. CASE Submit
  BY <1>3 DEF Submit, Goto, ctx, disk, StatusAgreesWithDecision, NoRun, None
<1>4. ASSUME NEW i \in Index, MergeModule(i)
      PROVE  VerdictInv'
  BY <1>4 DEF MergeModule, Goto, disk, StatusAgreesWithDecision, NoRun, None
<1>5. CASE ScoreRun
  <2>1. EffectiveStatus \in {"passed", "incomplete"} /\ (EffectiveStatus = "incomplete" <=> AnyErrored)
    BY DEF EffectiveStatus
  <2>2. decision' \in Decisions /\ (decision' = "inconclusive" <=> AnyErrored)
    BY <1>5, <2>1, GateIsConclusive DEF ScoreRun
  <2>3. AnyErrored' = AnyErrored
    BY <1>5 DEF ScoreRun, AnyErrored
  <2> QED BY <1>5, <2>2, <2>3 DEF ScoreRun, Goto, disk, Decided, StatusAgreesWithDecision, NoRun, None
<1>6. CASE ApplyGate
  <2>1. AnyErrored' = AnyErrored
    BY <1>6 DEF ApplyGate, AnyErrored
  <2> QED BY <1>6, <2>1 DEF ApplyGate, Goto, GateFails, disk, Decided, StatusAgreesWithDecision, NoRun, None
<1>7. CASE WriteRunJson
  <2>1. /\ FinalStatus \in {"failed", "incomplete", "passed"}
        /\ FinalStatus = "failed" <=> decision = "blocked"
        /\ FinalStatus = "incomplete" <=> decision = "inconclusive"
    BY <1>7 DEF WriteRunJson, Goto, FinalStatus, Decided
  <2> QED BY <1>7, <2>1 DEF WriteRunJson, Goto, StatusAgreesWithDecision
<1>8. CASE WriteReport
  BY <1>8 DEF WriteReport, Goto, ctx, StatusAgreesWithDecision
<1>9. CASE Persist
  <2>1. exitCode' = StatusToExitCode(status)
    BY <1>9 DEF Persist
  <2>2. UNCHANGED <<runJson, status, decision>> /\ phase' = "returned"
    BY <1>9 DEF Persist, ctx
  <2>3. StatusToExitCode(status') = StatusToExitCode(status)
    BY <2>2
  <2> QED BY <2>1, <2>2, <2>3 DEF StatusAgreesWithDecision
<1>10. CASE Raise
  BY <1>10 DEF Raise, ctx, disk, StatusAgreesWithDecision
<1>11. ASSUME NEW i \in Index, StartModule(i) \/ FinishModule(i)
       PROVE  VerdictInv'
  BY <1>11 DEF StartModule, FinishModule, ctx, disk, Decided, AnyErrored, StatusAgreesWithDecision, StatusToExitCode
<1>12. CASE UNCHANGED vars
  BY <1>12 DEF vars, ctx, disk, Decided, AnyErrored, StatusAgreesWithDecision, StatusToExitCode
<1> QED BY <1>1, <1>2, <1>3, <1>4, <1>5, <1>6, <1>7, <1>8, <1>9, <1>10, <1>11, <1>12 DEF Next, MainStep

(* The status of run.json and of the exit code is the one the release      *)
(* decision was made for, whatever the modules did and in whatever order   *)
(* they finished (_score_hook, _gate_hook, _finalize_status).              *)
THEOREM VerdictIsConsistent == Spec => []StatusAgreesWithDecision
<1>1. VerdictInv => StatusAgreesWithDecision
  BY DEF VerdictInv, VerdictRecorded
<1> QED BY VerdictInit, VerdictStep, <1>1, PTL DEF Spec

----------------------------------------------------------------------------
LEMMA FutureShape ==
  ASSUME NEW i \in Index, NEW p \in Product(i)
  PROVE  /\ p.state = "done" /\ p.outcome \in {"succeeded", "errored", "skipped"}
         /\ p.results = <<>> \/ p.results = <<p.results[1]>>
         /\ p.results \in Seq(ToSet(p.results))
<1>1. CASE p \in {Ended("skipped", <<>>), Ended("errored", <<>>)}
  <2>1. p.state = "done" /\ p.outcome \in {"skipped", "errored"} /\ p.results = <<>>
    BY <1>1 DEF Ended
  <2> QED BY <2>1
<1>2. CASE \E o \in Outcomes[Requested[i]] : p = Succeeded(o)
  <2>1. PICK o \in Outcomes[Requested[i]] : p = Succeeded(o)
    BY <1>2
  <2> DEFINE r == [status |-> DeriveModuleStatus(o), findings |-> o.findings, flake |-> o.flake]
  <2>2. p.state = "done" /\ p.outcome = "succeeded" /\ p.results = <<r>>
    BY <2>1 DEF Succeeded, Ended
  <2> HIDE DEF r
  <2>3. r \in ToSet(<<r>>)
    BY DEF ToSet
  <2> QED BY <2>2, <2>3
<1> QED BY <1>1, <1>2 DEF Product

LEMMA DoneHasProduct ==
  ASSUME TypeOK, NEW i \in Index, Done(i)
  PROVE  future[i] \in Product(i)
<1>1. future[i] \in {Pending(st) : st \in {"none", "queued", "running"}} \cup Product(i)
  BY DEF TypeOK
<1>2. \A st : Pending(st).state = st
  BY DEF Pending
<1>3. future[i].state = "done"
  BY DEF Done
<1> QED BY <1>1, <1>2, <1>3

LEMMA AppendOne ==
  ASSUME NEW S, NEW s \in Seq(S), NEW t \in Seq(S), Len(t) = 1
  PROVE  /\ DOMAIN (s \o t) = 1..(Len(s) + 1) /\ Len(s) \in Nat /\ DOMAIN s = 1..Len(s)
         /\ \A a \in DOMAIN s : (s \o t)[a] = s[a]
         /\ (s \o t)[Len(s) + 1] = t[1]
<1>1. /\ s \o t \in Seq(S) /\ Len(s \o t) = Len(s) + Len(t)
      /\ \A a \in 1..(Len(s) + Len(t)) :
           (s \o t)[a] = IF a <= Len(s) THEN s[a] ELSE t[a - Len(s)]
  BY ConcatProperties
<1>2. PICK u : u = s \o t
  OBVIOUS
<1>3. /\ u \in Seq(S) /\ Len(u) = Len(s) + 1
      /\ \A a \in 1..(Len(s) + 1) : u[a] = IF a <= Len(s) THEN s[a] ELSE t[a - Len(s)]
  BY <1>1, <1>2
<1>4. Len(s) \in Nat /\ DOMAIN s = 1..Len(s) /\ DOMAIN u = 1..(Len(s) + 1)
  BY <1>3
<1>5. u[Len(s) + 1] = t[1] /\ \A a \in DOMAIN s : u[a] = s[a]
  BY <1>3, <1>4
<1> QED BY <1>2, <1>4, <1>5

(* What a merge adds to the typed results: nothing, or one entry.          *)
LEMMA MergedEntries ==
  ASSUME TypeOK, NEW i \in Index, MergeModule(i)
  PROVE  LET new == [k \in DOMAIN future[i].results |->
                       [name |-> Requested[i], result |-> future[i].results[k]]]
         IN  /\ typed' = typed \o new
             /\ new \in Seq([name: ToSet(Requested), result: UNION {ToSet(p.results) : p \in Products}])
             /\ new = <<>> \/ (Len(new) = 1 /\ new[1].name = Requested[i])
<1> DEFINE new == [k \in DOMAIN future[i].results |->
                     [name |-> Requested[i], result |-> future[i].results[k]]]
           R == UNION {ToSet(p.results) : p \in Products}
<1>1. future[i] \in Product(i)
  BY DoneHasProduct DEF MergeModule, NextFuture
<1>2. ToSet(future[i].results) \subseteq R
  BY <1>1 DEF Products
<1>3. future[i].results \in Seq(R)
  BY <1>1, <1>2, FutureShape
<1>4. Requested[i] \in ToSet(Requested)
  BY DEF Index, ToSet
<1>5. new \in Seq([name: ToSet(Requested), result: R])
  <2> DEFINE n == Len(future[i].results)
  <2>1. n \in Nat /\ new = [k \in 1..n |-> [name |-> Requested[i], result |-> future[i].results[k]]]
    BY <1>3
  <2>2. \A k \in 1..n : future[i].results[k] \in R
    BY <1>3
  <2> DEFINE S == [name: ToSet(Requested), result: R]
             pair(k) == [name |-> Requested[i], result |-> future[i].results[k]]
  <2>3. \A k \in 1..n : pair(k) \in S
    BY <2>2, <1>4
  <2>4. new = [k \in 1..n |-> pair(k)]
    BY <2>1
  <2> HIDE DEF S, pair, new
  <2>5. new \in Seq(S)
    BY <2>1, <2>3, <2>4
  <2> QED BY <2>5 DEF S
<1>6. new = <<>> \/ (Len(new) = 1 /\ new[1].name = Requested[i])
  <2>1. CASE future[i].results = <<>>
    BY <2>1
  <2>2. CASE future[i].results = <<future[i].results[1]>>
    <3>1. DOMAIN future[i].results = 1..1
      BY <2>2
    <3> QED BY <3>1
  <2> QED BY <2>1, <2>2, <1>1, FutureShape
<1> QED BY <1>5, <1>6 DEF MergeModule

LEMMA TypeInit == Init => TypeOK
<1> SUFFICES ASSUME Init
             PROVE  TypeOK
  OBVIOUS
<1>1. outcomes = <<>> /\ typed = <<>> /\ Len(outcomes) <= Len(Requested)
  BY LifecycleAssumption DEF Init
<1>2. runJson \in [status: Statuses \cup {None}, decision: Decisions \cup {None}]
  BY DEF Init, NoRun
<1>3. \A i \in Index : future[i] \in {Pending(st) : st \in {"none", "queued", "running"}}
  BY DEF Init
<1>4. DOMAIN future = Index
  BY DEF Init
<1>5. /\ outcomes \in Seq([name: ToSet(Requested), status: {"succeeded", "errored", "skipped"}])
      /\ typed \in Seq([name: ToSet(Requested), result: UNION {ToSet(p.results) : p \in Products}])
  <2>1. \A S : <<>> \in Seq(S)
    OBVIOUS
  <2> QED BY <1>1, <2>1
<1>6. /\ phase = "enforce" /\ dryRun \in BOOLEAN /\ target \in {"allowed", "unknown_host", "no_proof"}
      /\ threads \in 1..MaxThreads
  BY DEF Init
<1>7. decision \in Decisions \cup {None} /\ gatePassed \in BOOLEAN /\ status \in Statuses
  BY DEF Init, Statuses
<1>8. audit = {} /\ files = {} /\ latest \in BOOLEAN /\ exitCode = NoExit
  BY DEF Init
<1> QED BY <1>1, <1>2, <1>3, <1>4, <1>5, <1>6, <1>7, <1>8 DEF TypeOK

LEMMA TypeStep == TypeOK /\ [Next]_vars => TypeOK'
<1> SUFFICES ASSUME TypeOK, [Next]_vars
             PROVE  TypeOK'
  OBVIOUS
<1> USE LifecycleAssumption
<1>1. CASE EnforceSafety
  <2>1. audit' \subseteq {"allowed", "refused", "safety_block", "artifact_emitted"}
    BY <1>1 DEF EnforceSafety, TypeOK
  <2>2. /\ phase' \in {"prepare", "returned"} /\ status' \in Statuses /\ exitCode' \in {NoExit, 0, 1, 4, 6, 7}
        /\ runJson' \in [status: Statuses \cup {None}, decision: Decisions \cup {None}]
    BY <1>1 DEF EnforceSafety, TypeOK, Statuses
  <2>3. UNCHANGED <<dryRun, target, threads, future, outcomes, typed, findings, decision, gatePassed, files, latest>>
    BY <1>1 DEF EnforceSafety, Local
  <2> QED BY <2>1, <2>2, <2>3 DEF TypeOK
<1>2. CASE Prepare
  <2>1. files' \subseteq {"config.snapshot", "plan", "cache"} \cup ToSet(Formats)
    BY <1>2 DEF Prepare, TypeOK
  <2>2. /\ phase' \in {"modules", "returned"} /\ status' \in Statuses /\ exitCode' \in {NoExit, 0, 1, 4, 6, 7}
        /\ runJson' \in [status: Statuses \cup {None}, decision: Decisions \cup {None}]
        /\ latest' \in BOOLEAN
    <3>1. CASE dryRun
      BY <1>2, <3>1 DEF Prepare, Statuses
    <3>2. CASE ~dryRun
      BY <1>2, <3>2 DEF Prepare, TypeOK
    <3> QED BY <3>1, <3>2
  <2>3. UNCHANGED <<dryRun, target, threads, future, outcomes, typed, findings, decision, gatePassed, audit>>
    BY <1>2 DEF Prepare, Local
  <2> QED BY <2>1, <2>2, <2>3 DEF TypeOK
<1>3. CASE Submit
  BY <1>3 DEF Submit, Goto, Local, ctx, disk, TypeOK
<1>4. ASSUME NEW i \in Index, MergeModule(i)
      PROVE  TypeOK'
  <2>1. future[i] \in Product(i)
    BY <1>4, DoneHasProduct DEF MergeModule, NextFuture
  <2>2. future[i].outcome \in {"succeeded", "errored", "skipped"}
    BY <2>1, FutureShape
  <2>3. Requested[i] \in ToSet(Requested) /\ i \in 1..Len(Requested)
    BY DEF Index, ToSet
  <2>4. /\ outcomes' \in Seq([name: ToSet(Requested), status: {"succeeded", "errored", "skipped"}])
        /\ Len(outcomes') <= Len(Requested)
    BY <1>4, <2>2, <2>3 DEF MergeModule, NextFuture, TypeOK
  <2>5. typed' \in Seq([name: ToSet(Requested), result: UNION {ToSet(p.results) : p \in Products}])
    <3> DEFINE S == [name: ToSet(Requested), result: UNION {ToSet(p.results) : p \in Products}]
    <3>1. PICK new : typed' = typed \o new /\ new \in Seq(S)
      BY <1>4, MergedEntries
    <3>2. typed \in Seq(S)
      BY DEF TypeOK
    <3> HIDE DEF S
    <3>3. typed' \in Seq(S)
      BY <3>1, <3>2
    <3> QED BY <3>3 DEF S
  <2>6. phase' \in {"merge", "score"}
    BY <1>4 DEF MergeModule, Goto
  <2> QED BY <1>4, <2>4, <2>5, <2>6 DEF MergeModule, Local, disk, TypeOK
<1>5. CASE ScoreRun
  <2>1. EffectiveStatus \in {"passed", "incomplete"}
    BY DEF EffectiveStatus
  <2>2. decision' \in Decisions
    BY <1>5, <2>1, GateIsConclusive DEF ScoreRun
  <2> QED BY <1>5, <2>2 DEF ScoreRun, Local, disk, TypeOK
<1>6. CASE ApplyGate
  BY <1>6 DEF ApplyGate, Local, disk, TypeOK, GateFails
<1>7. CASE WriteRunJson
  <2>1. FinalStatus \in Statuses
    BY DEF FinalStatus, Statuses
  <2> QED BY <1>7, <2>1 DEF WriteRunJson, Local, TypeOK
<1>8. CASE WriteReport
  <2>1. files' \subseteq {"config.snapshot", "plan", "cache"} \cup ToSet(Formats)
    BY <1>8 DEF WriteReport, TypeOK, ToSet
  <2> QED BY <1>8, <2>1 DEF WriteReport, Local, ctx, TypeOK
<1>9. CASE Persist
  BY <1>9 DEF Persist, Local, ctx, TypeOK, StatusToExitCode
<1>10. CASE Raise
  BY <1>10 DEF Raise, Local, ctx, disk, TypeOK
<1>11. ASSUME NEW i \in Index, StartModule(i)
       PROVE  TypeOK'
  BY <1>11 DEF StartModule, Local, ctx, disk, TypeOK
<1>12. ASSUME NEW i \in Index, FinishModule(i)
       PROVE  TypeOK'
  BY <1>12 DEF FinishModule, Local, ctx, disk, TypeOK
<1>13. CASE UNCHANGED vars
  BY <1>13 DEF vars, ctx, disk, TypeOK
<1> QED BY <1>1, <1>2, <1>3, <1>4, <1>5, <1>6, <1>7, <1>8, <1>9, <1>10, <1>11, <1>12, <1>13 DEF Next, MainStep

(* The variables of a run have the types RunLifecycle gives them.          *)
THEOREM LifecycleTypeCorrect == Spec => []TypeOK
<1> QED BY TypeInit, TypeStep, PTL DEF Spec

----------------------------------------------------------------------------
Cleared == target = "allowed" /\ "allowed" \in audit

SafetyInv ==
  /\ phase \notin {"enforce", "returned", "raised"} => Cleared
  /\ \A i \in Index : future[i].state # "none" => Cleared
  /\ target # "allowed" => files = {} /\ ~latest /\ exitCode \in {NoExit, 4, 7}

LEMMA SafetyStep == TypeOK /\ SafetyInv /\ [Next]_vars => SafetyInv'
<1> SUFFICES ASSUME TypeOK, SafetyInv, [Next]_vars
             PROVE  SafetyInv'
  OBVIOUS
<1> USE DEF SafetyInv, Cleared
<1>1. CASE EnforceSafety
  BY <1>1 DEF EnforceSafety, Goto, Local
<1>2. CASE Prepare
  BY <1>2 DEF Prepare, Goto, Local
<1>3. CASE Submit
  BY <1>3 DEF Submit, Goto, Local, ctx, disk
<1>4. ASSUME NEW i \in Index, MergeModule(i)
      PROVE  SafetyInv'
  BY <1>4 DEF MergeModule, Goto, Local, disk
<1>5. CASE ScoreRun
  BY <1>5 DEF ScoreRun, Goto, Local, disk
<1>6. CASE ApplyGate
  BY <1>6 DEF ApplyGate, Goto, Local, disk
<1>7. CASE WriteRunJson
  BY <1>7 DEF WriteRunJson, Goto, Local
<1>8. CASE WriteReport
  BY <1>8 DEF WriteReport, Goto, Local, ctx
<1>9. CASE Persist
  BY <1>9 DEF Persist, Goto, Local, ctx
<1>10. CASE Raise
  BY <1>10 DEF Raise, Local, ctx, disk
<1>11. ASSUME NEW i \in Index, StartModule(i) \/ FinishModule(i)
       PROVE  SafetyInv'
  <2>1. future[i].state # "none" /\ \A j \in Index \ {i} : future'[j] = future[j]
    <3>1. CASE StartModule(i)
      BY <3>1 DEF StartModule, MayStart, TypeOK
    <3>2. CASE FinishModule(i)
      BY <3>2 DEF FinishModule, TypeOK
    <3> QED BY <1>11, <3>1, <3>2
  <2>2. UNCHANGED <<phase, dryRun, target, threads, audit, files, latest, exitCode>>
    BY <1>11 DEF StartModule, FinishModule, Local, disk
  <2> QED BY <2>1, <2>2
<1>12. CASE UNCHANGED vars
  BY <1>12 DEF vars, ctx, disk
<1> QED BY <1>1, <1>2, <1>3, <1>4, <1>5, <1>6, <1>7, <1>8, <1>9, <1>10, <1>11, <1>12 DEF Next, MainStep

(* No module runs and nothing but run.json and the audit log is written    *)
(* for a target that the safety policy has not allowed.                    *)
THEOREM SafetyComesFirst == Spec => []NothingBeforeSafety
<1>1. Init => SafetyInv
  BY DEF Init, SafetyInv, Pending
<1>2. SafetyInv => NothingBeforeSafety
  BY DEF SafetyInv, Cleared, NothingBeforeSafety
<1> QED BY TypeInit, TypeStep, SafetyStep, <1>1, <1>2, PTL DEF Spec

----------------------------------------------------------------------------
(* Merging in the order of the request: nothing is merged before the       *)
(* modules are submitted, and a future that has been merged is final.      *)
MergeInv ==
  /\ phase \in {"enforce", "prepare", "modules"} => outcomes = <<>> /\ typed = <<>> /\ findings = {}
  /\ \A a \in DOMAIN typed : \E j \in DOMAIN outcomes : Requested[j] = typed[a].name
  /\ MergedLikeSequential

LEMMA MergeOfOne ==
  ASSUME TypeOK, MergeInv, NEW i \in Index, MergeModule(i)
  PROVE  MergeInv'
<1>1. /\ i = Len(outcomes) + 1 /\ Done(i)
      /\ outcomes' = Append(outcomes, [name |-> Requested[i], status |-> future[i].outcome])
      /\ findings' = findings \cup FindingsOf(i)
      /\ future' = future
      /\ phase' \in {"merge", "score"}
  BY DEF MergeModule, NextFuture, Goto
<1>2. /\ DOMAIN outcomes = 1..Len(outcomes) /\ DOMAIN outcomes' = DOMAIN outcomes \cup {i}
      /\ \A k \in DOMAIN outcomes : outcomes'[k] = outcomes[k] /\ k < i
      /\ outcomes'[i] = [name |-> Requested[i], status |-> future[i].outcome]
  BY <1>1 DEF TypeOK
<1>3. \A k \in DOMAIN outcomes' :
        outcomes'[k].name = Requested[k] /\ Done(k)' /\ outcomes'[k].status = future'[k].outcome
  BY <1>1, <1>2 DEF MergeInv, MergedLikeSequential, Done
<1>4. findings' = UNION {FindingsOf(k)' : k \in DOMAIN outcomes'}
  BY <1>1, <1>2 DEF MergeInv, MergedLikeSequential, FindingsOf
<1>5. \A a, b \in DOMAIN typed' : a < b =>
        \E j, k \in DOMAIN outcomes' : j < k /\ Requested[j] = typed'[a].name /\ Requested[k] = typed'[b].name
  <2>1. PICK new : /\ typed' = typed \o new
                   /\ new \in Seq([name: ToSet(Requested), result: UNION {ToSet(p.results) : p \in Products}])
                   /\ new = <<>> \/ (Len(new) = 1 /\ new[1].name = Requested[i])
    BY MergedEntries
  <2>2. typed \in Seq([name: ToSet(Requested), result: UNION {ToSet(p.results) : p \in Products}])
    BY DEF TypeOK
  <2>3. \A a \in DOMAIN typed : \E j \in DOMAIN outcomes : Requested[j] = typed[a].name
    BY DEF MergeInv
  <2>4. CASE new = <<>>
    <3>1. typed' = typed
      BY <2>1, <2>2, <2>4
    <3> QED BY <3>1, <1>2 DEF MergeInv, MergedLikeSequential
  <2>5. CASE Len(new) = 1 /\ new[1].name = Requested[i]
    <3>1. /\ DOMAIN typed' = 1..(Len(typed) + 1) /\ Len(typed) \in Nat /\ DOMAIN typed = 1..Len(typed)
          /\ \A a \in DOMAIN typed : typed'[a] = typed[a]
          /\ typed'[Len(typed) + 1] = new[1]
      <4> DEFINE S == [name: ToSet(Requested), result: UNION {ToSet(p.results) : p \in Products}]
      <4>1. typed \in Seq(S) /\ new \in Seq(S) /\ typed' = typed \o new /\ Len(new) = 1
        BY <2>1, <2>2, <2>5
      <4> HIDE DEF S
      <4>2. PICK all : all = typed'
        OBVIOUS
      <4>3. all = typed \o new
        BY <4>1, <4>2
      <4>4. /\ DOMAIN all = 1..(Len(typed) + 1) /\ Len(typed) \in Nat
            /\ DOMAIN typed = 1..Len(typed)
            /\ \A a \in DOMAIN typed : all[a] = typed[a]
            /\ all[Len(typed) + 1] = new[1]
        BY <4>1, <4>3, AppendOne
      <4> QED BY <4>2, <4>4
    <3> SUFFICES ASSUME NEW a \in DOMAIN typed', NEW b \in DOMAIN typed', a < b
                 PROVE  \E j, k \in DOMAIN outcomes' :
                          j < k /\ Requested[j] = typed'[a].name /\ Requested[k] = typed'[b].name
      OBVIOUS
    <3>2. a \in DOMAIN typed
      BY <3>1
    <3>3. CASE b \in DOMAIN typed
      <4>1. PICK j, k \in DOMAIN outcomes :
              j < k /\ Requested[j] = typed[a].name /\ Requested[k] = typed[b].name
        BY <3>2, <3>3 DEF MergeInv, MergedLikeSequential
      <4>2. typed'[a] = typed[a] /\ typed'[b] = typed[b]
        BY <3>1, <3>2, <3>3
      <4>3. j \in DOMAIN outcomes' /\ k \in DOMAIN outcomes'
        BY <1>2
      <4> QED BY <4>1, <4>2, <4>3
    <3>4. CASE b = Len(typed) + 1
      <4>1. typed'[b].name = Requested[i] /\ typed'[a] = typed[a]
        BY <3>1, <3>2, <3>4, <2>5
      <4>2. PICK j \in DOMAIN outcomes : Requested[j] = typed[a].name
        BY <3>2, <2>3
      <4>3. j \in DOMAIN outcomes' /\ i \in DOMAIN outcomes' /\ j < i
        BY <1>2
      <4> QED BY <4>1, <4>2, <4>3
    <3> QED BY <3>1, <3>3, <3>4
  <2> QED BY <2>1, <2>4, <2>5
<1>6. \A a \in DOMAIN typed' : \E j \in DOMAIN outcomes' : Requested[j] = typed'[a].name
  <2>1. PICK new : /\ typed' = typed \o new
                   /\ new \in Seq([name: ToSet(Requested), result: UNION {ToSet(p.results) : p \in Products}])
                   /\ new = <<>> \/ (Len(new) = 1 /\ new[1].name = Requested[i])
    BY MergedEntries
  <2>2. typed \in Seq([name: ToSet(Requested), result: UNION {ToSet(p.results) : p \in Products}])
    BY DEF TypeOK
  <2> DEFINE S == [name: ToSet(Requested), result: UNION {ToSet(p.results) : p \in Products}]
  <2>3. typed \in Seq(S) /\ new \in Seq(S)
    BY <2>1, <2>2
  <2> HIDE DEF S
  <2>4. \A a \in DOMAIN typed' : \/ a \in DOMAIN typed /\ typed'[a] = typed[a]
                                \/ (new # <<>> /\ typed'[a] = new[1])
    <3>1. CASE new = <<>>
      BY <2>1, <2>3, <3>1
    <3>2. CASE Len(new) = 1 /\ new # <<>>
      <4>1. PICK all : all = typed'
        OBVIOUS
      <4>2. all = typed \o new
        BY <2>1, <4>1
      <4>3. /\ DOMAIN all = 1..(Len(typed) + 1) /\ DOMAIN typed = 1..Len(typed) /\ Len(typed) \in Nat
            /\ \A a \in DOMAIN typed : all[a] = typed[a]
            /\ all[Len(typed) + 1] = new[1]
        BY <2>3, <3>2, <4>2, AppendOne
      <4>4. \A a \in DOMAIN all : a \in DOMAIN typed \/ a = Len(typed) + 1
        BY <4>3
      <4> QED BY <3>2, <4>1, <4>3, <4>4
    <3> QED BY <2>1, <3>1, <3>2
  <2>5. ASSUME NEW a \in DOMAIN typed, typed'[a] = typed[a]
        PROVE  \E j \in DOMAIN outcomes' : Requested[j] = typed'[a].name
    BY <2>5, <1>2 DEF MergeInv
  <2>6. ASSUME NEW a \in DOMAIN typed', new # <<>>, typed'[a] = new[1]
        PROVE  \E j \in DOMAIN outcomes' : Requested[j] = typed'[a].name
    BY <2>1, <2>6, <1>2
  <2> QED BY <2>4, <2>5, <2>6
<1> QED BY <1>1, <1>3, <1>4, <1>5, <1>6 DEF MergeInv, MergedLikeSequential

LEMMA MergeStep == TypeOK /\ MergeInv /\ [Next]_vars => MergeInv'
<1> SUFFICES ASSUME TypeOK, MergeInv, [Next]_vars
             PROVE  MergeInv'
  OBVIOUS
<1>1. ASSUME NEW i \in Index, MergeModule(i)
      PROVE  MergeInv'
  BY <1>1, MergeOfOne
<1>2. ASSUME NEW i \in Index, StartModule(i) \/ FinishModule(i)
      PROVE  MergeInv'
  <2>1. ~Done(i) /\ \A j \in Index \ {i} : future'[j] = future[j]
    <3>1. CASE StartModule(i)
      BY <3>1 DEF StartModule, MayStart, Done, TypeOK
    <3>2. CASE FinishModule(i)
      BY <3>2 DEF FinishModule, Done, TypeOK
    <3> QED BY <1>2, <3>1, <3>2
  <2>2. UNCHANGED <<phase, outcomes, typed, findings>>
    BY <1>2 DEF StartModule, FinishModule, ctx
  <2>3. DOMAIN outcomes \subseteq Index
    BY LifecycleAssumption DEF TypeOK, Index
  <2>4. \A k \in DOMAIN outcomes : future'[k] = future[k] /\ FindingsOf(k)' = FindingsOf(k) /\ (Done(k)' <=> Done(k))
    BY <2>1, <2>3 DEF MergeInv, MergedLikeSequential, FindingsOf, Done
  <2> QED BY <2>2, <2>4 DEF MergeInv, MergedLikeSequential
<1>3. CASE Submit
  BY <1>3 DEF Submit, Goto, ctx, MergeInv, MergedLikeSequential
<1>4. ASSUME UNCHANGED <<future, outcomes, typed, findings>>,
             phase' \in {"enforce", "prepare", "modules"} => phase \in {"enforce", "prepare", "modules"}
      PROVE  MergeInv'
  BY <1>4 DEF MergeInv, MergedLikeSequential, FindingsOf, Done
<1>5. CASE EnforceSafety
  BY <1>4, <1>5 DEF EnforceSafety, Goto
<1>6. CASE Prepare
  BY <1>4, <1>6 DEF Prepare, Goto
<1>7. CASE ScoreRun \/ ApplyGate \/ WriteRunJson
  BY <1>4, <1>7 DEF ScoreRun, ApplyGate, WriteRunJson
<1>8. CASE WriteReport \/ Persist \/ Raise
  BY <1>4, <1>8 DEF WriteReport, Persist, Raise, ctx
<1>9. CASE UNCHANGED vars
  BY <1>4, <1>9 DEF vars, ctx
<1> QED BY <1>1, <1>2, <1>3, <1>5, <1>6, <1>7, <1>8, <1>9 DEF Next, MainStep

(* Whatever order the threads finish in, the merged outcomes, results and  *)
(* findings are those of the first modules of the request (run_modules).   *)
THEOREM MergeIsSequential == Spec => []MergedLikeSequential
<1>1. Init => MergeInv
  BY DEF Init, MergeInv, MergedLikeSequential
<1>2. MergeInv => MergedLikeSequential
  BY DEF MergeInv
<1> QED BY TypeInit, TypeStep, MergeStep, <1>1, <1>2, PTL DEF Spec

----------------------------------------------------------------------------
(* From a critical finding to the exit code: what the thread of a module   *)
(* returned is merged before anything is scored, and a step of the verdict *)
(* never forgets a reason to block.                                        *)
AllMerged == Len(outcomes) = Len(Requested)
MustBlock == Policy.blockCritical /\ HasCritical(findings)
NotStarted == \A i \in Index : future[i].state = "none"

CriticalInv ==
  /\ phase \in {"enforce", "prepare", "modules"} => NotStarted
  /\ phase \in {"score", "gate", "report", "emit"} => AllMerged
  /\ phase \in {"gate", "report"} /\ MustBlock => decision \in {"blocked", "inconclusive"}
  /\ phase = "emit" => /\ status \in {"passed", "failed", "incomplete"}
                       /\ MustBlock => status # "passed"
  /\ exitCode = 0 => phase = "returned" /\ (NotStarted \/ (AllMerged /\ ~MustBlock))

(* A decision that is conclusive blocks a critical finding.                *)
LEMMA CriticalBlocks ==
  ASSUME NEW rates, NEW presumed \in {"passed", "incomplete"}, MustBlock
  PROVE  ApplyPolicyGate(findings, rates, Policy, presumed) \in {"blocked", "inconclusive"}
<1>1. "critical_finding" \in Blockers(findings, Policy)
  BY DEF Blockers, MustBlock
<1>2. CASE presumed = "incomplete"
  BY <1>2 DEF ApplyPolicyGate, SelectDecision
<1>3. CASE presumed = "passed"
  <2> DEFINE score == Score(findings, rates, Policy)
             blockers == Blockers(findings, Policy)
  <2>1. blockers # {}
    BY <1>1
  <2> HIDE DEF score, blockers
  <2>2. SelectDecision(score, blockers, findings, Policy, presumed) = "blocked"
    BY <1>3, <2>1 DEF SelectDecision
  <2> QED BY <2>2 DEF ApplyPolicyGate, score, blockers
<1> QED BY <1>2, <1>3

LEMMA CriticalStep ==
  TypeOK /\ MergeInv /\ VerdictInv /\ CriticalInv /\ [Next]_vars => CriticalInv'
<1> SUFFICES ASSUME TypeOK, MergeInv, VerdictInv, CriticalInv, [Next]_vars
             PROVE  CriticalInv'
  OBVIOUS
<1> USE DEF CriticalInv, MustBlock, NotStarted, AllMerged
<1>1. CASE EnforceSafety
  <2>1. exitCode # 0
    BY <1>1 DEF EnforceSafety, Goto
  <2> QED BY <1>1, <2>1 DEF EnforceSafety, Goto, HasCritical
<1>2. CASE Prepare
  <2>1. exitCode # 0
    BY <1>2 DEF Prepare, Goto
  <2> QED BY <1>2, <2>1 DEF Prepare, Goto, HasCritical
<1>3. CASE Submit
  <2>1. exitCode # 0 /\ outcomes = <<>>
    BY <1>3 DEF Submit, Goto, MergeInv
  <2> QED BY <1>3, <2>1 DEF Submit, Goto, ctx, disk
<1>4. ASSUME NEW i \in Index, MergeModule(i)
      PROVE  CriticalInv'
  <2>1. exitCode # 0
    BY <1>4 DEF MergeModule, Goto
  <2> QED BY <1>4, <2>1 DEF MergeModule, Goto, disk
<1>5. CASE ScoreRun
  <2>1. EffectiveStatus \in {"passed", "incomplete"}
    BY DEF EffectiveStatus
  <2>2. MustBlock => decision' \in {"blocked", "inconclusive"}
    BY <1>5, <2>1, CriticalBlocks DEF ScoreRun
  <2> QED BY <1>5, <2>2 DEF ScoreRun, Goto, disk, HasCritical
<1>6. CASE ApplyGate
  BY <1>6 DEF ApplyGate, Goto, disk, HasCritical
<1>7. CASE WriteRunJson
  <2>1. FinalStatus \in {"passed", "failed", "incomplete"}
    BY DEF FinalStatus
  <2>2. MustBlock => FinalStatus # "passed"
    BY <1>7 DEF WriteRunJson, Goto, FinalStatus, VerdictInv, Decided
  <2> QED BY <1>7, <2>1, <2>2 DEF WriteRunJson, Goto, HasCritical
<1>8. CASE WriteReport
  BY <1>8 DEF WriteReport, Goto, ctx, HasCritical
<1>9. CASE Persist
  <2>1. StatusToExitCode(status) = 0 => status = "passed"
    BY <1>9 DEF Persist, Goto, StatusToExitCode
  <2> QED BY <1>9, <2>1 DEF Persist, Goto, ctx, HasCritical
<1>10. CASE Raise
  BY <1>10 DEF Raise, ctx, disk, HasCritical
<1>11. ASSUME NEW i \in Index, StartModule(i) \/ FinishModule(i)
       PROVE  CriticalInv'
  <2>1. future[i].state \in {"queued", "running"}
    BY <1>11 DEF StartModule, MayStart, FinishModule
  <2>2. UNCHANGED <<phase, ctx, disk, exitCode>>
    BY <1>11 DEF StartModule, FinishModule
  <2>3. ~NotStarted
    BY <2>1
  <2>4. phase \notin {"enforce", "prepare", "modules"}
    BY <2>3
  <2>5. ~AllMerged
    <3> SUFFICES ASSUME AllMerged PROVE FALSE
      OBVIOUS
    <3>1. DOMAIN outcomes = Index
      BY LifecycleAssumption DEF TypeOK, Index
    <3>2. Done(i)
      BY <3>1 DEF MergeInv, MergedLikeSequential
    <3> QED BY <2>1, <3>2 DEF Done
  <2> QED BY <2>2, <2>3, <2>4, <2>5 DEF ctx, HasCritical
<1>12. CASE UNCHANGED vars
  BY <1>12 DEF vars, ctx, disk, HasCritical
<1> QED BY <1>1, <1>2, <1>3, <1>4, <1>5, <1>6, <1>7, <1>8, <1>9, <1>10, <1>11, <1>12 DEF Next, MainStep

(* Decision, status, run.json and exit code agree, and no run in which a   *)
(* module has found something critical exits with 0 if the policy blocks   *)
(* that (from _execute_one_module to _STATUS_TO_EXIT_CODE).                *)
THEOREM VerdictStaysTrue == Spec => []VerdictIsTrue
<1>1. Init => MergeInv
  BY DEF Init, MergeInv, MergedLikeSequential
<1>2. Init => CriticalInv
  BY DEF Init, CriticalInv, NotStarted, Pending, NoExit
<1>3. TypeOK /\ MergeInv /\ VerdictInv /\ CriticalInv => VerdictIsTrue
  <2> SUFFICES ASSUME TypeOK, MergeInv, VerdictInv, CriticalInv
               PROVE  VerdictIsTrue
    OBVIOUS
  <2>1. StatusAgreesWithDecision
    BY DEF VerdictInv, VerdictRecorded
  <2>2. CriticalNeverExitsZero
    <3> SUFFICES ASSUME exitCode = 0, Policy.blockCritical,
                        NEW i \in Index, Done(i), NEW f \in FindingsOf(i)
                 PROVE  f.severity # "critical"
      BY DEF CriticalNeverExitsZero
    <3>1. ~NotStarted
      BY DEF NotStarted, Done
    <3>2. AllMerged /\ ~HasCritical(findings)
      BY <3>1 DEF CriticalInv, MustBlock
    <3>3. DOMAIN outcomes = Index
      BY <3>2, LifecycleAssumption DEF TypeOK, Index, AllMerged
    <3>4. f \in findings
      BY <3>3 DEF MergeInv, MergedLikeSequential
    <3> QED BY <3>2, <3>4 DEF HasCritical
  <2> QED BY <2>1, <2>2 DEF VerdictIsTrue
<1> QED BY TypeInit, TypeStep, MergeStep, VerdictInit, VerdictStep, CriticalStep, <1>1, <1>2, <1>3, PTL
        DEF Spec

----------------------------------------------------------------------------
(* The pointer moves in the last step of the main thread.                  *)
LatestInv == latest => phase = "returned" /\ LatestIsComplete

(* The latest pointer only ever names a run whose record is complete       *)
(* (generate_reports before persist_artifacts).                            *)
THEOREM LatestStaysComplete == Spec => []LatestIsComplete
<1>1. Init => LatestInv
  BY DEF Init, LatestInv
<1>2. VerdictInv /\ LatestInv /\ [Next]_vars => LatestInv'
  <2> SUFFICES ASSUME VerdictInv, LatestInv, [Next]_vars
               PROVE  LatestInv'
    OBVIOUS
  <2> USE DEF LatestInv, LatestIsComplete
  <2>1. CASE EnforceSafety
    BY <2>1 DEF EnforceSafety, Goto
  <2>2. CASE Prepare
    <3>1. CASE dryRun
      <4>1. /\ phase' = "returned" /\ dryRun' = dryRun
            /\ runJson'.status = status' /\ "cache" \in files'
        BY <2>2, <3>1 DEF Prepare, Local
      <4> QED BY <3>1, <4>1
    <3>2. CASE ~dryRun
      BY <2>2, <3>2 DEF Prepare, Goto
    <3> QED BY <3>1, <3>2
  <2>3. CASE Submit
    BY <2>3 DEF Submit, Goto, disk
  <2>4. ASSUME NEW i \in Index, MergeModule(i)
        PROVE  LatestInv'
    BY <2>4 DEF MergeModule, Goto, disk
  <2>5. CASE ScoreRun \/ ApplyGate \/ WriteRunJson
    BY <2>5 DEF ScoreRun, ApplyGate, WriteRunJson, Goto, disk
  <2>6. CASE WriteReport
    BY <2>6 DEF WriteReport, Goto
  <2>7. CASE Persist
    <3>1. Wanted \subseteq files /\ Wanted' = Wanted
      BY <2>7 DEF Persist, EmitDone, Owed, Wanted, ctx
    <3>2. runJson'.status = status' /\ "cache" \in files' /\ files \subseteq files'
      BY <2>7 DEF Persist, Goto, ctx, VerdictInv
    <3>3. phase' = "returned"
      BY <2>7 DEF Persist
    <3> QED BY <3>1, <3>2, <3>3
  <2>8. CASE Raise
    BY <2>8 DEF Raise, disk
  <2>9. CASE (\E i \in Index : StartModule(i) \/ FinishModule(i)) \/ UNCHANGED vars
    <3>1. UNCHANGED <<phase, dryRun, findings, status, files, runJson, latest>>
      BY <2>9 DEF StartModule, FinishModule, Local, ctx, disk, vars
    <3> QED BY <3>1 DEF Wanted
  <2> QED BY <2>1, <2>2, <2>3, <2>4, <2>5, <2>6, <2>7, <2>8, <2>9 DEF Next, MainStep
<1>3. LatestInv => LatestIsComplete
  BY DEF LatestInv, LatestIsComplete
<1> QED BY VerdictInit, VerdictStep, <1>1, <1>2, <1>3, PTL DEF Spec

(***************************************************************************)
(* The runs that share a directory.                                        *)
(***************************************************************************)
LEMMA WorkspaceTypeInit == WsInit => WsTypeOK
<1> SUFFICES ASSUME WsInit
             PROVE  WsTypeOK
  OBVIOUS
<1>1. pc \in [Run -> {"lookup"}] /\ fd \in [Run -> {NoFile}] /\ content \in [Inode -> {Empty}]
      /\ plan \in [Run -> {"none"}]
  BY DEF WsInit
<1>2. killed \in 0..MaxKilled
  BY WorkspaceAssumption DEF WsInit
<1>3. \A r \in Run : ~Putting(r) /\ fd[r] = NoFile
  BY <1>1 DEF Putting
<1> QED BY <1>1, <1>2, <1>3 DEF WsInit, WsTypeOK

LEMMA WorkspaceTypeStep == WsTypeOK /\ [WsNext]_wsVars => WsTypeOK'
<1> SUFFICES ASSUME WsTypeOK, [WsNext]_wsVars
             PROVE  WsTypeOK'
  OBVIOUS
<1> USE WorkspaceAssumption DEF WsTypeOK, Putting, Go, Keep, cache, Steps
<1>0. \A i \in Inode : i # NoFile
  BY DEF Inode, NoFile
<1>1. ASSUME NEW r \in Run, Lookup(r)
      PROVE  WsTypeOK'
  <2>1. plan'[r] \in Plans \cup {"none", Empty} /\ plan' \in [Run -> Plans \cup {"none", Empty}]
    BY <1>1 DEF Lookup
  <2>2. met' \subseteq Run
    BY <1>1 DEF Lookup
  <2>3. /\ pc' = [pc EXCEPT ![r] = pc'[r]] /\ pc'[r] \in {"open", "raised", "audit"} /\ pc[r] = "lookup"
    BY <1>1 DEF Lookup
  <2>4. UNCHANGED <<ci, fd, entry, tmp, content, pointer, complete, killed, collided>>
    BY <1>1 DEF Lookup
  <2> QED BY <2>1, <2>2, <2>3, <2>4
<1>2. ASSUME NEW r \in Run, Open(r)
      PROVE  WsTypeOK'
  <2>1. PICK i \in Inode : /\ tmp' = i /\ content' = [content EXCEPT ![i] = Empty]
                           /\ fd' = [fd EXCEPT ![r] = i]
    BY <1>2 DEF Open, Unused
  <2>2. collided' \in BOOLEAN /\ pc' = [pc EXCEPT ![r] = "write"]
    BY <1>2 DEF Open
  <2>3. UNCHANGED <<ci, plan, pointer, entry, complete, killed, met>>
    BY <1>2 DEF Open
  <2> QED BY <1>0, <2>1, <2>2, <2>3
<1>3. ASSUME NEW r \in Run, Write(r)
      PROVE  WsTypeOK'
  BY <1>3 DEF Write
<1>4. ASSUME NEW r \in Run, Replace(r)
      PROVE  WsTypeOK'
  BY <1>4 DEF Replace
<1>5. ASSUME NEW r \in Run, CheckTmp(r) \/ UnlinkTmp(r) \/ Audit(r)
      PROVE  WsTypeOK'
  BY <1>5 DEF CheckTmp, UnlinkTmp, Audit
<1>6. ASSUME NEW r \in Run, LinkCheck(r) \/ LinkRemove(r) \/ Link(r)
      PROVE  WsTypeOK'
  BY <1>6 DEF LinkCheck, LinkRemove, Link
<1>7. ASSUME NEW r \in Run, Kill(r)
      PROVE  WsTypeOK'
  BY <1>7 DEF Kill
<1>8. CASE UNCHANGED wsVars
  BY <1>8 DEF wsVars
<1> QED BY <1>1, <1>2, <1>3, <1>4, <1>5, <1>6, <1>7, <1>8 DEF WsNext

(* Every run is at a step the code has, and holds a file open exactly      *)
(* between the open and the replace of its put.                            *)
THEOREM WorkspaceTypeCorrect == WsSpec => []WsTypeOK
<1> QED BY WorkspaceTypeInit, WorkspaceTypeStep, PTL DEF WsSpec

----------------------------------------------------------------------------
(* As long as no two puts have overlapped: one run at most writes to the   *)
(* temporary file, nobody else renames it, and what has been renamed is    *)
(* whole and is not written to any more.                                   *)
WholeEntry == entry # NoFile => content[entry] \in Plans

PutInv ==
  /\ tmp # NoFile => tmp # entry
  /\ ~collided =>
       /\ WholeEntry
       /\ \A q, r \in Run : Putting(q) /\ Putting(r) => q = r
       /\ \A r \in Run : Putting(r) => tmp \in {NoFile, fd[r]} /\ fd[r] # entry
       /\ \A r \in Run : pc[r] = "replace" => content[fd[r]] \in Plans
       /\ \A r \in Run : plan[r] # Empty

LEMMA PutStep == WsTypeOK /\ PutInv /\ [WsNext]_wsVars => PutInv'
<1> SUFFICES ASSUME WsTypeOK, PutInv, [WsNext]_wsVars
             PROVE  PutInv'
  OBVIOUS
<1> USE DEF PutInv, WholeEntry
<1>0. \A i \in Inode : i # NoFile
  BY DEF Inode, NoFile
<1>1. ASSUME NEW r \in Run, Lookup(r)
      PROVE  PutInv'
  <2>1. UNCHANGED <<fd, entry, tmp, content, collided>>
    BY <1>1 DEF Lookup, cache
  <2>2. \A q \in Run : (Putting(q)' <=> Putting(q)) /\ (pc'[q] = "replace" <=> pc[q] = "replace")
    BY <1>1 DEF Lookup, Go, WsTypeOK, Putting
  <2>3. plan' = [plan EXCEPT ![r] = IF entry = NoFile THEN ci[r] ELSE content[entry]]
    BY <1>1 DEF Lookup
  <2>4. ~collided => \A q \in Run : plan'[q] # Empty
    <3>1. Empty \notin Plans /\ ci[r] \in Plans
      BY DEF WsTypeOK, Plans, Empty
    <3> QED BY <2>3, <3>1 DEF WsTypeOK
  <2> QED BY <2>1, <2>2, <2>4
<1>2. ASSUME NEW r \in Run, Open(r)
      PROVE  PutInv'
  <2>1. PICK i \in Inode : /\ tmp' = i /\ content' = [content EXCEPT ![i] = Empty]
                           /\ fd' = [fd EXCEPT ![r] = i] /\ i # entry
    <3>1. CASE tmp # NoFile
      BY <1>2, <3>1 DEF Open, WsTypeOK
    <3>2. CASE tmp = NoFile
      BY <1>2, <3>2 DEF Open, Unused
    <3> QED BY <3>1, <3>2
  <2>2. /\ UNCHANGED <<entry, plan>> /\ pc' = [pc EXCEPT ![r] = "write"]
        /\ collided' = (collided \/ \E q \in Run \ {r} : Putting(q))
    BY <1>2 DEF Open, Go
  <2>3. ~collided' => \A q \in Run \ {r} : ~Putting(q)' /\ pc'[q] # "replace"
    <3>1. ~collided' => \A q \in Run \ {r} : ~Putting(q)
      BY <2>2
    <3>2. \A q \in Run \ {r} : pc'[q] = pc[q]
      BY <2>2 DEF WsTypeOK
    <3> QED BY <3>1, <3>2 DEF Putting
  <2> QED BY <1>0, <2>1, <2>2, <2>3 DEF WsTypeOK, Putting
<1>3. ASSUME NEW r \in Run, Write(r)
      PROVE  PutInv'
  <2>1. /\ UNCHANGED <<fd, entry, tmp, plan, collided>> /\ pc' = [pc EXCEPT ![r] = "replace"] /\ pc[r] = "write"
        /\ content' = [content EXCEPT ![fd[r]] = ci[r]]
    BY <1>3 DEF Write, Go
  <2>2. Putting(r) /\ fd[r] \in Inode /\ ci[r] \in Plans
    BY <2>1 DEF Putting, WsTypeOK
  <2>3. \A q \in Run : Putting(q)' <=> Putting(q)
    BY <2>1 DEF Putting, WsTypeOK
  <2> QED BY <2>1, <2>2, <2>3 DEF WsTypeOK, Putting
<1>4. ASSUME NEW r \in Run, Replace(r)
      PROVE  PutInv'
  <2>1. /\ UNCHANGED <<content, plan, collided>> /\ pc' = [pc EXCEPT ![r] = "check"] /\ pc[r] = "replace"
        /\ fd' = [fd EXCEPT ![r] = NoFile]
        /\ IF tmp # NoFile THEN entry' = tmp /\ tmp' = NoFile ELSE UNCHANGED <<entry, tmp>>
    BY <1>4 DEF Replace, Go
  <2>2. ~collided => \A q \in Run : ~Putting(q)'
    BY <2>1 DEF Putting, WsTypeOK
  <2> QED BY <2>1, <2>2 DEF WsTypeOK, Putting
<1>5. ASSUME NEW r \in Run,
             UNCHANGED <<entry, content, plan, collided>>, tmp' \in {tmp, NoFile},
             \A q \in Run : Putting(q)' => Putting(q) /\ fd'[q] = fd[q] /\ pc'[q] = pc[q]
      PROVE  PutInv'
  BY <1>5 DEF Putting
<1>6. ASSUME NEW r \in Run, CheckTmp(r) \/ UnlinkTmp(r) \/ Audit(r) \/ LinkCheck(r) \/ LinkRemove(r) \/ Link(r) \/ Kill(r)
      PROVE  PutInv'
  <2>1. /\ UNCHANGED <<entry, content, plan, collided>> /\ tmp' \in {tmp, NoFile}
        /\ \E p \in {"unlink", "audit", "linkCheck", "linkRemove", "link", "done", "raised", "crashed"} :
             pc' = [pc EXCEPT ![r] = p]
        /\ fd' = fd \/ fd' = [fd EXCEPT ![r] = NoFile]
    BY <1>6 DEF CheckTmp, UnlinkTmp, Audit, LinkCheck, LinkRemove, Link, Kill, Go, cache
  <2>2. \A q \in Run : Putting(q)' => Putting(q) /\ fd'[q] = fd[q] /\ pc'[q] = pc[q]
    BY <2>1 DEF Putting, WsTypeOK
  <2> QED BY <1>5, <2>1, <2>2
<1>7. CASE UNCHANGED wsVars
  BY <1>7 DEF wsVars, cache, Putting
<1> QED BY <1>1, <1>2, <1>3, <1>4, <1>6, <1>7 DEF WsNext

(* A run reads a plan that is not whole only if two puts have overlapped,  *)
(* however many runs there are and however many of them were killed.       *)
THEOREM TornReadsNeedCollision == WsSpec => []TornOnlyAfterCollision
<1>1. WsInit => PutInv
  BY DEF WsInit, PutInv, WholeEntry, Putting, Empty
<1>2. PutInv => TornOnlyAfterCollision
  BY DEF PutInv, TornOnlyAfterCollision
<1> QED BY WorkspaceTypeInit, WorkspaceTypeStep, PutStep, <1>1, <1>2, PTL DEF WsSpec

----------------------------------------------------------------------------
LinkSteps == {"linkCheck", "linkRemove", "link"}

(* A run comes to the pointer with its reports written.                    *)
ReportedInv ==
  /\ \A r \in Run : pc[r] \in LinkSteps => r \in complete
  /\ LatestIsReported

LEMMA ReportedStep == WsTypeOK /\ ReportedInv /\ [WsNext]_wsVars => ReportedInv'
<1> SUFFICES ASSUME WsTypeOK, ReportedInv, [WsNext]_wsVars
             PROVE  ReportedInv'
  OBVIOUS
<1> USE DEF ReportedInv, LatestIsReported, LinkSteps
<1>1. ASSUME NEW r \in Run, pc' = [pc EXCEPT ![r] = pc'[r]],
             pc'[r] \in LinkSteps => pc[r] \in LinkSteps, pointer' = pointer, complete' = complete
      PROVE  ReportedInv'
  BY <1>1 DEF WsTypeOK
<1>2. ASSUME NEW r \in Run, Lookup(r) \/ Open(r) \/ Write(r) \/ Replace(r) \/ CheckTmp(r) \/ UnlinkTmp(r) \/ Kill(r)
      PROVE  ReportedInv'
  <2>1. /\ pc'[r] \notin LinkSteps /\ pointer' = pointer /\ complete' = complete
        /\ pc' = [pc EXCEPT ![r] = pc'[r]]
    BY <1>2 DEF Lookup, Open, Write, Replace, CheckTmp, UnlinkTmp, Kill, Go, Keep, WsTypeOK
  <2> QED BY <1>1, <2>1
<1>3. ASSUME NEW r \in Run, Audit(r)
      PROVE  ReportedInv'
  BY <1>3 DEF Audit, Go, WsTypeOK
<1>4. ASSUME NEW r \in Run, LinkCheck(r) \/ LinkRemove(r) \/ Link(r)
      PROVE  ReportedInv'
  BY <1>4 DEF LinkCheck, LinkRemove, Link, Go, Keep, WsTypeOK
<1>5. CASE UNCHANGED wsVars
  BY <1>5 DEF wsVars
<1> QED BY <1>2, <1>3, <1>4, <1>5 DEF WsNext

(* The pointer pointer names only runs whose reports are written, for any   *)
(* number of runs that write it and are killed at any step.                *)
THEOREM LatestNamesReportedRuns == WsSpec => []LatestIsReported
<1>1. WsInit => ReportedInv
  BY DEF WsInit, ReportedInv, LatestIsReported, LinkSteps
<1>2. ReportedInv => LatestIsReported
  BY DEF ReportedInv
<1> QED BY WorkspaceTypeInit, WorkspaceTypeStep, ReportedStep, <1>1, <1>2, PTL DEF WsSpec

----------------------------------------------------------------------------
(* While the pointer is missing somebody is about to create it: a run that *)
(* has still to look for it or that has removed it.  A run that is about   *)
(* to remove it does not count, it will fail.                              *)
PointerInv ==
  pointer = Nobody /\ complete # {} /\ killed = 0
    => \E r \in Run : pc[r] \in {"linkCheck", "link"}

LEMMA PointerStep == WsTypeOK /\ PointerInv /\ [WsNext]_wsVars => PointerInv'
<1> SUFFICES ASSUME WsTypeOK, PointerInv, [WsNext]_wsVars
             PROVE  PointerInv'
  OBVIOUS
<1> USE DEF PointerInv
<1>1. ASSUME NEW r \in Run, pc' = [pc EXCEPT ![r] = pc'[r]],
             pc[r] \notin {"linkCheck", "link"}, pointer' = pointer, complete' = complete, killed' = killed
      PROVE  PointerInv'
  BY <1>1 DEF WsTypeOK
<1>2. ASSUME NEW r \in Run, Lookup(r) \/ Open(r) \/ Write(r) \/ Replace(r) \/ CheckTmp(r) \/ UnlinkTmp(r)
      PROVE  PointerInv'
  <2>1. /\ pc[r] \notin {"linkCheck", "link"} /\ UNCHANGED <<pointer, complete, killed>>
        /\ pc' = [pc EXCEPT ![r] = pc'[r]]
    BY <1>2 DEF Lookup, Open, Write, Replace, CheckTmp, UnlinkTmp, Go, Keep, WsTypeOK
  <2> QED BY <1>1, <2>1
<1>3. ASSUME NEW r \in Run, Kill(r)
      PROVE  PointerInv'
  <2>1. killed' # 0
    BY <1>3 DEF Kill, WsTypeOK
  <2> QED BY <2>1
<1>4. ASSUME NEW r \in Run, Audit(r) \/ LinkCheck(r)
      PROVE  PointerInv'
  BY <1>4 DEF Audit, LinkCheck, Go, Keep, WsTypeOK
<1>5. ASSUME NEW r \in Run, LinkRemove(r)
      PROVE  PointerInv'
  BY <1>5 DEF LinkRemove, Go, Keep, WsTypeOK
<1>6. ASSUME NEW r \in Run, Link(r)
      PROVE  PointerInv'
  BY <1>6, WorkspaceAssumption DEF Link
<1>7. CASE UNCHANGED wsVars
  BY <1>7 DEF wsVars
<1> QED BY <1>2, <1>3, <1>4, <1>5, <1>6, <1>7 DEF WsNext

(* Runs that race for the pointer leave one behind together, however many  *)
(* they are: when none is at work on it, it exists.                        *)
THEOREM RacesLeaveAPointer == WsSpec => []PointerSurvivesRaces
<1>1. WsInit => PointerInv
  BY DEF WsInit, PointerInv
<1>2. PointerInv => PointerSurvivesRaces
  BY DEF PointerInv, PointerSurvivesRaces
<1> QED BY WorkspaceTypeInit, WorkspaceTypeStep, PointerStep, <1>1, <1>2, PTL DEF WsSpec

----------------------------------------------------------------------------
(* A run that has met no other one is alone, so what it found out about    *)
(* the pointer still holds when it acts on it.                             *)
LoneInv ==
  \A r \in Run \ met :
    /\ Active(r) => \A q \in Run \ {r} : ~Active(q)
    /\ pc[r] = "linkRemove" => pointer # Nobody
    /\ pc[r] = "link" => pointer = Nobody
    /\ pc[r] = "raised" => collided

LEMMA LoneStep == WsTypeOK /\ PutInv /\ LoneInv /\ [WsNext]_wsVars => LoneInv'
<1> SUFFICES ASSUME WsTypeOK, PutInv, LoneInv, [WsNext]_wsVars
             PROVE  LoneInv'
  OBVIOUS
<1> USE DEF LoneInv, Active, Steps
<1>1. ASSUME NEW r \in Run, Lookup(r)
      PROVE  LoneInv'
  <2>1. /\ pc[r] = "lookup" /\ pc' = [pc EXCEPT ![r] = pc'[r]] /\ UNCHANGED <<pointer, collided>>
        /\ pc'[r] \in {"open", "raised", "audit"}
    BY <1>1 DEF Lookup, Go, WsTypeOK
  <2>2. pc'[r] = "raised" => collided
    <3>1. pc'[r] = "raised" => entry # NoFile /\ content[entry] = Empty
      BY <1>1 DEF Lookup, Go, WsTypeOK
    <3> QED BY <3>1 DEF PutInv, WholeEntry, Plans, Empty
  <2> DEFINE others == {q \in Run \ {r} : Active(q)}
  <2>3. met' = met \cup others \cup (IF others = {} THEN {} ELSE {r})
    BY <1>1 DEF Lookup
  <2>4. ASSUME NEW q \in Run \ met'
        PROVE  Active(q)' => \A p \in Run \ {q} : ~Active(p)'
    <3>1. CASE q = r
      BY <2>1, <2>3, <3>1 DEF WsTypeOK
    <3>2. CASE q # r
      <4>1. ~Active(q)'
        BY <2>1, <2>3, <3>2 DEF WsTypeOK
      <4> QED BY <4>1
    <3> QED BY <3>1, <3>2
  <2>5. met \subseteq met'
    BY <2>3
  <2> QED BY <2>1, <2>2, <2>4, <2>5 DEF WsTypeOK
<1>2. ASSUME NEW r \in Run, Open(r) \/ Write(r) \/ Replace(r) \/ CheckTmp(r) \/ UnlinkTmp(r) \/ Audit(r)
      PROVE  LoneInv'
  <2>1. /\ Active(r) /\ pc' = [pc EXCEPT ![r] = pc'[r]] /\ UNCHANGED <<pointer, met>>
        /\ pc'[r] \in Steps \ {"linkRemove", "link"}
        /\ collided => collided'
    BY <1>2 DEF Open, Write, Replace, CheckTmp, UnlinkTmp, Audit, Go, Keep, WsTypeOK
  <2>2. \A q \in Run \ met : q # r => ~Active(q)
    BY <2>1
  <2> QED BY <2>1, <2>2 DEF WsTypeOK
<1>3. ASSUME NEW r \in Run, LinkCheck(r) \/ LinkRemove(r) \/ Link(r)
      PROVE  LoneInv'
  <2>1. Active(r) /\ pc' = [pc EXCEPT ![r] = pc'[r]] /\ UNCHANGED <<collided, met>>
    BY <1>3 DEF LinkCheck, LinkRemove, Link, Go, Keep, WsTypeOK
  <2>2. /\ pc'[r] = "linkRemove" => pointer' # Nobody
        /\ pc'[r] = "link" => pointer' = Nobody
        /\ pc'[r] = "raised" /\ r \notin met => collided
    BY <1>3 DEF LinkCheck, LinkRemove, Link, Go, Keep, WsTypeOK
  <2>3. ASSUME NEW q \in Run \ met', q # r
        PROVE  ~Active(q)'
    BY <2>1, <2>3 DEF WsTypeOK
  <2>4. \A q \in Run \ {r} : pc'[q] = pc[q]
    BY <2>1 DEF WsTypeOK
  <2>5. ASSUME NEW q \in Run \ met', q # r
        PROVE  pc'[q] \notin {"linkRemove", "link"} /\ (pc'[q] = "raised" => collided')
    BY <2>1, <2>3, <2>4, <2>5
  <2>6. r \notin met' => \A q \in Run \ {r} : ~Active(q)'
    BY <2>1, <2>4
  <2>7. ASSUME NEW q \in Run \ met'
        PROVE  /\ Active(q)' => \A p \in Run \ {q} : ~Active(p)'
               /\ pc'[q] = "linkRemove" => pointer' # Nobody
               /\ pc'[q] = "link" => pointer' = Nobody
               /\ pc'[q] = "raised" => collided'
    <3>1. CASE q = r
      <4>1. q \notin met
        BY <2>1
      <4> QED BY <2>1, <2>2, <2>6, <3>1, <4>1
    <3>2. CASE q # r
      BY <2>3, <2>5, <3>2
    <3> QED BY <3>1, <3>2
  <2> QED BY <2>7
<1>4. ASSUME NEW r \in Run, Kill(r)
      PROVE  LoneInv'
  BY <1>4 DEF Kill, Go, WsTypeOK
<1>5. CASE UNCHANGED wsVars
  BY <1>5 DEF wsVars
<1> QED BY <1>1, <1>2, <1>3, <1>4, <1>5 DEF WsNext

(* A run that no other run overlaps succeeds whatever earlier runs left    *)
(* behind, unless two puts have collided in the workspace before.          *)
THEOREM LoneRunsSucceed == WsSpec => []LoneRunSucceeds
<1>1. WsInit => PutInv /\ LoneInv
  BY DEF WsInit, PutInv, WholeEntry, Putting, Empty, LoneInv, Active, Steps
<1>2. LoneInv => LoneRunSucceeds
  BY DEF LoneInv, LoneRunSucceeds
<1> QED BY WorkspaceTypeInit, WorkspaceTypeStep, PutStep, LoneStep, <1>1, <1>2, PTL DEF WsSpec

(* No run fails on the plan cache, or reads a plan that is not whole,      *)
(* before two puts have collided: both halves of CacheIsSafe.              *)
THEOREM CacheStaysSafe == WsSpec => []CacheIsSafe
<1>1. TornOnlyAfterCollision /\ LoneRunSucceeds => CacheIsSafe
  BY DEF CacheIsSafe
<1> QED BY TornReadsNeedCollision, LoneRunsSucceed, <1>1, PTL

(* The latest pointer names a reported run, and survives any race.         *)
THEOREM PointerStaysSound == WsSpec => []PointerIsSound
<1>1. LatestIsReported /\ PointerSurvivesRaces => PointerIsSound
  BY DEF PointerIsSound
<1> QED BY LatestNamesReportedRuns, RacesLeaveAPointer, <1>1, PTL
(***************************************************************************)
(* ModuleSelection.  The listing: what the commands of git have named so   *)
(* far is every file they were to name, but for those somebody touched     *)
(* meanwhile, and nothing that neither differs nor was touched.            *)
(***************************************************************************)
Named ==
  \A f \in File \ touched :
    /\ step \in {"work", "others", "chosen"} /\ repo[f].ahead => f \in found
    /\ step \in {"others", "chosen"} /\ repo[f].dirty => f \in found
    /\ step = "chosen" /\ repo[f].untracked => f \in found

Backed == Listing \/ step = "chosen" => found \subseteq {f \in File : Differs(f)} \cup touched

\* What sentinel ci may make of the repository as it is.
Invocation ==
  [mode : Mode, enabled : Configs, floor : {85, 95}, failUnder : {0, 70},
   user : {NoUser, "@p1", "checkout"}, withDiff : BOOLEAN]

CiOutcomes ==
  {CiOutcome(i.mode, i.enabled, i.floor, i.failUnder, i.user, i.withDiff,
             {f \in File : repo[f].ahead}) : i \in Invocation}

Combined == step = "ci" => outcome \in CiOutcomes

SelectionInv ==
  /\ SelectionTypeOK /\ Named /\ Backed /\ Combined
  /\ step = "chosen" => outcome.modules = Impacted(found) \cap asked

\* What a kind of file concerns are modules.
LEMMA ImpactsAreModules ==
  ASSUME NEW k \in Kind
  PROVE  Impacts[k] \subseteq AllModules
  BY DEF Kind, Impacts, AllModules, Interface

LEMMA ImpactedIsUnion ==
  ASSUME NEW paths, NEW m
  PROVE  m \in Impacted(paths) <=> \E f \in paths : m \in Impacts[kind[f]]
  BY DEF Impacted

LEMMA PlansAreModules ==
  ASSUME NEW mode \in Mode, NEW enabled \in Configs
  PROVE  /\ PlanModules(mode, enabled) \subseteq enabled \cup Forced(mode)
         /\ mode \in {"fast", "standard"} => PlanModules(mode, enabled) \subseteq enabled
  BY DEF PlanModules, Forced, Mode

\* The outcome of sentinel ci names modules.
LEMMA OutcomesAreModules ==
  ASSUME NEW mode \in Mode, NEW enabled \in Configs, NEW floor, NEW failUnder, NEW user,
         NEW withDiff \in BOOLEAN, NEW paths
  PROVE  CiOutcome(mode, enabled, floor, failUnder, user, withDiff, paths).modules
           \subseteq AllModules \cup WithFactory
  <1>1. enabled \subseteq WithFactory
    BY ConfigsEnable DEF WithFactory
  <1>2. PlanModules(mode, enabled) \subseteq enabled \cup Forced(mode)
    BY PlansAreModules
  <1>3. Forced(mode) \subseteq WithFactory
    BY DEF Forced, WithFactory, Optional
  <1>4. PICK modules : modules = IF withDiff /\ Broad(paths) THEN enabled ELSE PlanModules(mode, enabled)
    OBVIOUS
  <1>5. CiOutcome(mode, enabled, floor, failUnder, user, withDiff, paths).modules = modules
    BY <1>4 DEF CiOutcome
  <1> QED BY <1>1, <1>2, <1>3, <1>4, <1>5

LEMMA SelectionStarts == SelectionInit => SelectionInv
  <1> SUFFICES ASSUME SelectionInit PROVE SelectionInv
    OBVIOUS
  <1>1. \A f \in File : repo[f] = Clean \/ repo[f] = [Clean EXCEPT !.ahead = TRUE]
    BY DEF SelectionInit
  <1>2. repo \in [File -> [ahead : BOOLEAN, staged : BOOLEAN, dirty : BOOLEAN, untracked : BOOLEAN]]
    <2> DEFINE State == [ahead : BOOLEAN, staged : BOOLEAN, dirty : BOOLEAN, untracked : BOOLEAN]
    <2>1. Clean \in State /\ [Clean EXCEPT !.ahead = TRUE] \in State
      BY DEF Clean
    <2> HIDE DEF State
    <2>2. repo \in [File -> State]
      BY <2>1 DEF SelectionInit
    <2> QED BY <2>2 DEF State
  <1>3. \A f \in File : ~repo[f].untracked
    BY <1>1 DEF Clean
  <1>4. SelectionTypeOK
    BY <1>2, <1>3 DEF SelectionInit, SelectionTypeOK, NoOutcome
  <1> QED BY <1>4 DEF SelectionInit, SelectionInv, Named, Backed, Combined, Listing

\* A change of the repository during the listing is one of the touched files.
LEMMA ChangeKeeps ==
  ASSUME SelectionInv, NEW f \in File,
         NEW state \in [ahead : BOOLEAN, staged : BOOLEAN, dirty : BOOLEAN, untracked : BOOLEAN],
         state.untracked => state = [Clean EXCEPT !.untracked = TRUE],
         Change(f, state)
  PROVE  SelectionInv'
  <1>1. /\ step = "idle" \/ Listing
        /\ repo' = [repo EXCEPT ![f] = state]
        /\ touched' = IF Listing THEN touched \cup {f} ELSE {}
        /\ UNCHANGED <<kind, step, found, asked, outcome>>
    BY DEF Change
  <1>2. repo \in [File -> [ahead : BOOLEAN, staged : BOOLEAN, dirty : BOOLEAN, untracked : BOOLEAN]]
    BY DEF SelectionInv, SelectionTypeOK
  <1>3. repo'[f] = state /\ \A g \in File \ {f} : repo'[g] = repo[g]
    BY <1>1, <1>2
  <1>4. SelectionTypeOK'
    <2>1. repo' \in [File -> [ahead : BOOLEAN, staged : BOOLEAN, dirty : BOOLEAN, untracked : BOOLEAN]]
      BY <1>1, <1>2
    <2>2. ASSUME NEW g \in File, repo'[g].untracked PROVE repo'[g] = [Clean EXCEPT !.untracked = TRUE]
      BY <1>3, <2>2 DEF SelectionInv, SelectionTypeOK
    <2>3. touched' \subseteq File
      BY <1>1 DEF SelectionInv, SelectionTypeOK
    <2> QED BY <1>1, <2>1, <2>2, <2>3 DEF SelectionInv, SelectionTypeOK
  <1>5. step # "chosen" /\ step # "ci"
    BY <1>1 DEF Listing
  <1>6. Named'
    BY <1>1, <1>3, <1>5 DEF SelectionInv, Named, Listing
  <1>7. Backed'
    <2>1. CASE Listing
      <3>1. \A g \in File \ {f} : Differs(g)' <=> Differs(g)
        BY <1>3 DEF Differs
      <3>2. found \subseteq {g \in File : Differs(g)} \cup touched
        BY <2>1 DEF SelectionInv, Backed
      <3>3. touched' = touched \cup {f} /\ found' = found
        BY <1>1, <2>1
      <3> QED BY <3>1, <3>2, <3>3 DEF Backed
    <2>2. CASE ~Listing
      BY <1>1, <1>5, <2>2 DEF Backed, Listing
    <2> QED BY <2>1, <2>2
  <1> QED BY <1>1, <1>4, <1>5, <1>6, <1>7 DEF SelectionInv, Combined

LEMMA DeveloperKeeps ==
  ASSUME SelectionInv, NEW f \in File,
         Edit(f) \/ Create(f) \/ Checkout(f) \/ GitAdd(f) \/ GitCommit(f)
  PROVE  SelectionInv'
  <1> DEFINE State == [ahead : BOOLEAN, staged : BOOLEAN, dirty : BOOLEAN, untracked : BOOLEAN]
  <1>1. repo[f] \in State /\ (repo[f].untracked => repo[f] = [Clean EXCEPT !.untracked = TRUE])
    BY DEF SelectionInv, SelectionTypeOK
  <1>2. CASE Edit(f)
    <2>1. PICK s : s = [repo[f] EXCEPT !.dirty = TRUE]
      OBVIOUS
    <2>2. Change(f, s) /\ s \in State /\ s.untracked = repo[f].untracked /\ ~s.untracked
      BY <1>1, <1>2, <2>1 DEF Edit
    <2> QED BY <2>2, ChangeKeeps
  <1>3. CASE Create(f)
    <2>1. PICK s : s = [Clean EXCEPT !.untracked = TRUE]
      OBVIOUS
    <2>2. Change(f, s) /\ s \in State
      BY <1>3, <2>1 DEF Create, Clean
    <2> QED BY <2>1, <2>2, ChangeKeeps
  <1>4. CASE Checkout(f)
    <2>1. PICK s : s = [repo[f] EXCEPT !.dirty = FALSE]
      OBVIOUS
    <2>2. Change(f, s) /\ s \in State /\ s.untracked = repo[f].untracked
      BY <1>1, <1>4, <2>1 DEF Checkout
    <2>3. repo[f].untracked => s = [Clean EXCEPT !.untracked = TRUE]
      BY <1>1, <2>1 DEF Clean
    <2> QED BY <2>2, <2>3, ChangeKeeps
  <1>5. CASE GitAdd(f)
    <2>1. PICK s : s = [repo[f] EXCEPT !.dirty = FALSE, !.untracked = FALSE, !.staged = TRUE]
      OBVIOUS
    <2>2. Change(f, s) /\ s \in State /\ ~s.untracked
      BY <1>1, <1>5, <2>1 DEF GitAdd
    <2> QED BY <2>2, ChangeKeeps
  <1>6. CASE GitCommit(f)
    <2>1. PICK s : s = [repo[f] EXCEPT !.staged = FALSE, !.ahead = TRUE]
      OBVIOUS
    <2>2. Change(f, s) /\ s \in State /\ s.untracked = repo[f].untracked /\ repo[f].staged
      BY <1>1, <1>6, <2>1 DEF GitCommit
    <2>3. ~repo[f].untracked
      BY <1>1, <2>2 DEF Clean
    <2> QED BY <2>2, <2>3, ChangeKeeps
  <1> QED BY <1>2, <1>3, <1>4, <1>5, <1>6

LEMMA OutcomesStay ==
  ASSUME UNCHANGED <<kind, repo>>
  PROVE  CiOutcomes' = CiOutcomes
  BY DEF CiOutcomes, CiOutcome, DiffGrep, Broad

LEMMA StartKeeps ==
  ASSUME SelectionInv, NEW modules, Start(modules)
  PROVE  SelectionInv'
  <1>1. /\ step = "idle" /\ step' = "head" /\ found' = {} /\ touched' = {}
        /\ UNCHANGED <<kind, repo, outcome>>
    BY DEF Start
  <1>2. SelectionTypeOK'
    BY <1>1 DEF SelectionInv, SelectionTypeOK
  <1> QED BY <1>1, <1>2 DEF SelectionInv, Named, Backed, Combined

LEMMA GitKeeps ==
  ASSUME SelectionInv, DiffHead \/ DiffWork
  PROVE  SelectionInv'
  <1>1. PICK paths :
          /\ found' = found \cup paths /\ UNCHANGED <<kind, repo, touched, asked, outcome>>
          /\ paths \subseteq {f \in File : Differs(f)}
          /\ \/ step = "head" /\ step' = "work" /\ paths = {f \in File : repo[f].ahead}
             \/ step = "work" /\ step' = "others" /\ paths = {f \in File : repo[f].dirty}
    <2>1. CASE DiffHead
      <3>1. /\ step = "head" /\ step' = "work" /\ found' = found \cup {f \in File : repo[f].ahead}
            /\ UNCHANGED <<kind, repo, touched, asked, outcome>>
        BY <2>1 DEF DiffHead, Git
      <3>2. {f \in File : repo[f].ahead} \subseteq {f \in File : Differs(f)}
        BY DEF Differs
      <3> QED BY <3>1, <3>2
    <2>2. CASE DiffWork
      <3>1. /\ step = "work" /\ step' = "others" /\ found' = found \cup {f \in File : repo[f].dirty}
            /\ UNCHANGED <<kind, repo, touched, asked, outcome>>
        BY <2>2 DEF DiffWork, Git
      <3>2. {f \in File : repo[f].dirty} \subseteq {f \in File : Differs(f)}
        BY DEF Differs
      <3> QED BY <3>1, <3>2
    <2> QED BY <2>1, <2>2
  <1>2. \A f \in File : Differs(f)' <=> Differs(f)
    BY <1>1 DEF Differs
  <1>3. SelectionTypeOK'
    BY <1>1 DEF SelectionInv, SelectionTypeOK
  <1>4. Named'
    BY <1>1 DEF SelectionInv, Named
  <1>5. Backed'
    <2>1. found \subseteq {f \in File : Differs(f)} \cup touched
      BY <1>1 DEF SelectionInv, Backed, Listing
    <2> QED BY <1>1, <1>2, <2>1 DEF Backed
  <1> QED BY <1>1, <1>3, <1>4, <1>5 DEF SelectionInv, Combined

LEMMA OthersKeeps ==
  ASSUME SelectionInv, Others
  PROVE  SelectionInv'
  <1>1. PICK paths : paths = found \cup {f \in File : repo[f].untracked}
    OBVIOUS
  <1>2. /\ step = "others" /\ step' = "chosen" /\ found' = paths
        /\ outcome' = [modules |-> Impacted(paths) \cap asked]
        /\ UNCHANGED <<kind, repo, touched, asked>>
    BY <1>1 DEF Others
  <1>3. paths \subseteq File
    BY <1>1 DEF SelectionInv, SelectionTypeOK
  <1>4. Impacted(paths) \subseteq AllModules
    BY <1>3, ImpactedIsUnion, ImpactsAreModules DEF SelectionInv, SelectionTypeOK
  <1>5. SelectionTypeOK'
    BY <1>2, <1>3, <1>4 DEF SelectionInv, SelectionTypeOK
  <1>6. Named'
    BY <1>1, <1>2 DEF SelectionInv, Named
  <1>7. Backed'
    <2>1. found \subseteq {f \in File : Differs(f)} \cup touched
      BY <1>2 DEF SelectionInv, Backed, Listing
    <2>2. {f \in File : repo[f].untracked} \subseteq {f \in File : Differs(f)}
      BY DEF Differs
    <2>3. \A f \in File : Differs(f)' <=> Differs(f)
      BY <1>2 DEF Differs
    <2> QED BY <1>1, <1>2, <2>1, <2>2, <2>3 DEF Backed
  <1>8. Impacted(paths)' = Impacted(paths)
    BY <1>2, <1>1 DEF Impacted
  <1>9. outcome'.modules = Impacted(found)' \cap asked'
    BY <1>2 DEF Impacted
  <1> QED BY <1>2, <1>5, <1>6, <1>7, <1>9 DEF SelectionInv, Combined

LEMMA CiKeeps ==
  ASSUME SelectionInv, NEW mode \in Mode, NEW enabled \in Configs, NEW floor \in {85, 95},
         NEW failUnder \in {0, 70}, NEW user \in {NoUser, "@p1", "checkout"}, NEW withDiff \in BOOLEAN,
         Ci(mode, enabled, floor, failUnder, user, withDiff)
  PROVE  SelectionInv'
  <1>1. PICK paths : paths = {f \in File : repo[f].ahead}
    OBVIOUS
  <1>2. /\ step = "idle" /\ step' = "ci" /\ UNCHANGED <<kind, repo, found, touched, asked>>
        /\ outcome' = CiOutcome(mode, enabled, floor, failUnder, user, withDiff, paths)
    BY <1>1 DEF Ci
  <1>3. outcome'.modules \subseteq AllModules \cup WithFactory
    BY <1>2, OutcomesAreModules
  <1>4. SelectionTypeOK'
    BY <1>2, <1>3 DEF SelectionInv, SelectionTypeOK
  <1>5. outcome' \in CiOutcomes
    <2>1. PICK i : i = [mode |-> mode, enabled |-> enabled, floor |-> floor, failUnder |-> failUnder,
                        user |-> user, withDiff |-> withDiff]
      OBVIOUS
    <2>2. i \in Invocation
      BY <2>1 DEF Invocation
    <2>3. outcome' = CiOutcome(i.mode, i.enabled, i.floor, i.failUnder, i.user, i.withDiff, paths)
      BY <1>2, <2>1
    <2> QED BY <1>1, <2>2, <2>3 DEF CiOutcomes
  <1>6. Combined'
    BY <1>2, <1>5, OutcomesStay DEF Combined
  <1> QED BY <1>2, <1>4, <1>6 DEF SelectionInv, Named, Backed, Listing

LEMMA SelectionSteps == SelectionInv /\ [SelectionNext]_selectionVars => SelectionInv'
  <1> SUFFICES ASSUME SelectionInv, [SelectionNext]_selectionVars PROVE SelectionInv'
    OBVIOUS
  <1>1. ASSUME NEW f \in File, Edit(f) \/ Create(f) \/ Checkout(f) \/ GitAdd(f) \/ GitCommit(f)
        PROVE  SelectionInv'
    BY <1>1, DeveloperKeeps
  <1>2. ASSUME NEW modules \in {NotAsked, {"functional", "accessibility"}}, Start(modules)
        PROVE  SelectionInv'
    BY <1>2, StartKeeps
  <1>3. CASE DiffHead \/ DiffWork
    BY <1>3, GitKeeps
  <1>4. CASE Others
    BY <1>4, OthersKeeps
  <1>5. ASSUME NEW mode \in Mode, NEW enabled \in Configs, NEW floor \in {85, 95},
               NEW failUnder \in {0, 70}, NEW user \in {NoUser, "@p1", "checkout"},
               NEW withDiff \in BOOLEAN, Ci(mode, enabled, floor, failUnder, user, withDiff)
        PROVE  SelectionInv'
    BY <1>5, CiKeeps
  <1>6. CASE UNCHANGED selectionVars
    <2>1. UNCHANGED <<kind, repo, step, found, touched, asked, outcome>>
      BY <1>6 DEF selectionVars
    <2>2. SelectionTypeOK' /\ Named' /\ Backed'
      BY <2>1 DEF SelectionInv, SelectionTypeOK, Named, Backed, Differs, Listing
    <2>3. Impacted(found)' = Impacted(found)
      BY <2>1 DEF Impacted
    <2>4. Combined'
      BY <2>1, OutcomesStay DEF SelectionInv, Combined
    <2> QED BY <2>1, <2>2, <2>3, <2>4 DEF SelectionInv
  <1> QED BY <1>1, <1>2, <1>3, <1>4, <1>5, <1>6 DEF SelectionNext
\* The filter of a diff names the smoke tag, or is none.
LEMMA DiffKeepsSmoke ==
  ASSUME NEW paths \in SUBSET File
  PROVE  /\ DiffGrep(paths).length \in Nat
         /\ "@p0" \in DiffGrep(paths).tags \/ DiffGrep(paths).length = 0
  <1> DEFINE of(kinds) == {f \in paths : kind[f] \in kinds}
  <1>1. PICK tags : tags = {"@p0"}
              \cup (IF of({"page", "handler", "schema", "spec"}) # {} THEN {"@p1"} ELSE {})
              \cup (IF of({"schema"}) # {} THEN {"@module:api"} ELSE {})
    OBVIOUS
  <1>2. tags \subseteq {"@p0", "@p1", "@module:api"} /\ "@p0" \in tags
    BY <1>1
  <1>3. IsFiniteSet(tags)
    <2>1. IsFiniteSet({"@p0"}) /\ IsFiniteSet({"@p1"}) /\ IsFiniteSet({"@module:api"})
      BY FS_Singleton
    <2>2. IsFiniteSet({"@p0"} \cup {"@p1"})
      BY <2>1, FS_Union
    <2>3. PICK all : all = ({"@p0"} \cup {"@p1"}) \cup {"@module:api"}
      OBVIOUS
    <2>4. IsFiniteSet(all)
      BY <2>1, <2>2, <2>3, FS_Union
    <2>5. tags \in SUBSET all
      BY <1>2, <2>3
    <2> QED BY <2>4, <2>5, FS_Subset
  <1>4. IsFiniteSet(paths)
    BY SelectionAssumption, FS_Subset
  <1>5. \A kinds : IsFiniteSet(of(kinds))
    BY <1>4, FS_Subset
  <1>6. PICK n : n = Cardinality(tags) + Cardinality(of({"page", "handler"}))
                       + Cardinality(of({"handler"}))
    OBVIOUS
  <1>7. n \in Nat
    <2> HIDE DEF of
    <2>1. Cardinality(tags) \in Nat /\ \A kinds : Cardinality(of(kinds)) \in Nat
      BY <1>3, <1>5, FS_CardinalityType
    <2> QED BY <1>6, <2>1
  <1>8. DiffGrep(paths) = IF Broad(paths) THEN NoGrep ELSE [tags |-> tags, length |-> n]
    BY <1>1, <1>6 DEF DiffGrep
  <1> QED BY <1>2, <1>7, <1>8 DEF NoGrep

\* The same of the filter of a run.
LEMMA GrepKeepsSmoke ==
  ASSUME NEW mode \in Mode, NEW withDiff \in BOOLEAN, NEW paths \in SUBSET File,
         NEW diff, diff = IF withDiff THEN DiffGrep(paths) ELSE NoGrep,
         NEW grep, grep = OrGrep(ModeGrep(mode), diff)
  PROVE  /\ grep.length \in Nat
         /\ "@p0" \in grep.tags \/ grep.length = 0
         /\ ModeGrep(mode).tags \subseteq grep.tags /\ ModeGrep(mode).length <= grep.length
         /\ ModeGrep(mode).length \in Nat
         /\ mode \in {"fast", "standard"} => ModeGrep(mode).length > 0
  <1>1. diff.length \in Nat /\ ("@p0" \in diff.tags \/ diff.length = 0)
    BY DiffKeepsSmoke DEF NoGrep
  <1>2. /\ ModeGrep(mode).length \in Nat
        /\ "@p0" \in ModeGrep(mode).tags \/ ModeGrep(mode).length = 0
        /\ mode \in {"fast", "standard"} => ModeGrep(mode).length > 0
    BY DEF ModeGrep, Mode, NoGrep
  <1>3. grep.tags = ModeGrep(mode).tags \cup diff.tags /\ grep.length = ModeGrep(mode).length + diff.length
    BY DEF OrGrep
  <1> QED BY <1>1, <1>2, <1>3

\* More tags match more, a user's filter matches less, and a spec of the first
\* priority matches whatever names the smoke tag.
LEMMA MatchesFacts ==
  ASSUME NEW spec, NEW a, NEW b, NEW user,
         a.tags \subseteq b.tags, a.length # 0, b.length # 0, NEW g
  PROVE  /\ Matches(spec, a, user) => Matches(spec, b, user)
         /\ Matches(spec, g, user) => Matches(spec, g, NoUser)
  <1> DEFINE byTag(x) == {i \in DOMAIN Text(spec) : Text(spec)[i] \in x.tags}
             byUser == {i \in DOMAIN Text(spec) : Text(spec)[i] = user}
  <1>1. byTag(a) \subseteq byTag(b)
    OBVIOUS
  <1>2. \A x : Matches(spec, x, user) <=>
               IF user = NoUser THEN x.length = 0 \/ byTag(x) # {}
               ELSE IF x.length = 0 THEN byUser # {}
               ELSE \E i \in byTag(x), j \in byUser : i < j
    BY DEF Matches
  <1>3. Matches(spec, g, NoUser) <=> g.length = 0 \/ byTag(g) # {}
    BY DEF Matches
  <1>4. Matches(spec, a, user) => Matches(spec, b, user)
    <2> HIDE DEF byTag, byUser
    <2> QED BY <1>1, <1>2
  <1>5. Matches(spec, g, user) => Matches(spec, g, NoUser)
    <2> HIDE DEF byTag, byUser
    <2> QED BY <1>2, <1>3
  <1> QED BY <1>4, <1>5

LEMMA SmokeMatches ==
  ASSUME NEW spec, spec.priority = "@p0", NEW g, "@p0" \in g.tags \/ g.length = 0
  PROVE  Matches(spec, g, NoUser)
  <1>1. 2 \in DOMAIN Text(spec) /\ Text(spec)[2] = spec.priority
    BY DEF Text
  <1> QED BY <1>1 DEF Matches

LEMMA ChangesServe == SelectionInv => ChangesAreAudited
  <1> SUFFICES ASSUME SelectionInv, step = "chosen" PROVE ChangesAreAudited
    BY DEF ChangesAreAudited
  <1>1. outcome.modules = Impacted(found) \cap asked /\ found \subseteq File /\ kind \in [File -> Kind]
    BY DEF SelectionInv, SelectionTypeOK
  <1>2. ASSUME NEW f \in File \ touched, Differs(f), ~OnlyStaged(f)
        PROVE  f \in found /\ (Impacts[kind[f]] \ Misnamed) \cap asked \subseteq Ran
    <2>1. repo[f].ahead \/ repo[f].dirty \/ repo[f].untracked
      BY <1>2 DEF Differs, OnlyStaged
    <2>2. f \in found
      BY <2>1 DEF SelectionInv, Named
    <2>3. Impacts[kind[f]] \subseteq AllModules
      BY <1>1, ImpactsAreModules
    <2>4. Impacts[kind[f]] \subseteq Impacted(found)
      BY <2>2, ImpactedIsUnion
    <2> QED BY <1>1, <2>2, <2>3, <2>4 DEF Misnamed, Ran
  <1>3. found \subseteq {f \in File : Differs(f)} \cup touched
    BY DEF SelectionInv, Backed
  <1>4. \A m \in Ran : \E f \in found : m \in Impacts[kind[f]]
    BY <1>1, ImpactedIsUnion DEF Ran
  <1> QED BY <1>2, <1>3, <1>4 DEF ChangesAreAudited

LEMMA CiServes == SelectionInv => CiKeepsGates
  <1> SUFFICES ASSUME SelectionInv, step = "ci" PROVE CiKeepsGates
    BY DEF CiKeepsGates
  <1>1. PICK paths : paths = {f \in File : repo[f].ahead}
    OBVIOUS
  <1>2. PICK mode \in Mode, enabled \in Configs, floor \in {85, 95}, failUnder \in {0, 70},
             user \in {NoUser, "@p1", "checkout"}, withDiff \in BOOLEAN :
          outcome = CiOutcome(mode, enabled, floor, failUnder, user, withDiff, paths)
    <2>1. outcome \in CiOutcomes
      BY DEF SelectionInv, Combined
    <2>2. PICK ahead : ahead = {f \in File : repo[f].ahead}
      OBVIOUS
    <2>3. PICK i \in Invocation :
            outcome = CiOutcome(i.mode, i.enabled, i.floor, i.failUnder, i.user, i.withDiff, ahead)
      BY <2>1, <2>2 DEF CiOutcomes
    <2>4. /\ i.mode \in Mode /\ i.enabled \in Configs /\ i.floor \in {85, 95}
          /\ i.failUnder \in {0, 70} /\ i.user \in {NoUser, "@p1", "checkout"}
          /\ i.withDiff \in BOOLEAN
      BY DEF Invocation
    <2> QED BY <1>1, <2>2, <2>3, <2>4
  <1>3. PICK diff : diff = IF withDiff THEN DiffGrep(paths) ELSE NoGrep
    OBVIOUS
  <1>4. PICK grep : grep = OrGrep(ModeGrep(mode), diff)
    OBVIOUS
  <1>5. PICK modules : modules = IF withDiff /\ Broad(paths) THEN enabled ELSE PlanModules(mode, enabled)
    OBVIOUS
  <1>6. /\ outcome.mode = mode /\ outcome.enabled = enabled /\ outcome.failUnder = failUnder
        /\ outcome.user = user /\ outcome.withDiff = withDiff /\ outcome.modules = modules
        /\ outcome.floor = EffectiveFloor(mode, floor, failUnder)
        /\ outcome.accepted = (grep.length <= GrepLimit)
        /\ outcome.specs = IF "functional" \in modules /\ outcome.accepted
                           THEN {s \in Suite : Matches(s, grep, user)} ELSE {}
    BY <1>2, <1>3, <1>4, <1>5 DEF CiOutcome
  <1>7. paths \in SUBSET File
    BY <1>1
  <1>8. /\ grep.length \in Nat /\ ("@p0" \in grep.tags \/ grep.length = 0)
        /\ ModeGrep(mode).tags \subseteq grep.tags /\ ModeGrep(mode).length <= grep.length
        /\ ModeGrep(mode).length \in Nat
        /\ mode \in {"fast", "standard"} => ModeGrep(mode).length > 0
    BY <1>3, <1>4, <1>7, GrepKeepsSmoke
  <1>9. modules \subseteq enabled \cup Forced(mode)
    BY <1>5, PlansAreModules
  <1>10. /\ mode = "release" /\ failUnder = 0 => EffectiveFloor(mode, floor, failUnder) >= 90
         /\ failUnder # 0 => EffectiveFloor(mode, floor, failUnder) = failUnder
    BY DEF EffectiveFloor
  <1>11. ASSUME outcome.accepted, "functional" \in modules, user = NoUser
         PROVE  {s \in Suite : s.priority = "@p0"} \subseteq outcome.specs
    BY <1>6, <1>8, <1>11, SmokeMatches
  <1>12. ASSUME outcome.accepted, mode \in {"fast", "standard"}
         PROVE  WithoutDiff.specs \subseteq outcome.specs /\ WithoutDiff.modules \subseteq outcome.modules
    <2>1. PICK plain : plain = OrGrep(ModeGrep(mode), NoGrep)
      OBVIOUS
    <2>2. PICK planned : planned = PlanModules(mode, enabled)
      OBVIOUS
    <2>3. /\ WithoutDiff.modules = planned
          /\ WithoutDiff.specs \subseteq
               IF "functional" \in planned THEN {s \in Suite : Matches(s, plain, user)} ELSE {}
      <3>1. WithoutDiff = CiOutcome(mode, enabled, outcome.floor, failUnder, user, FALSE, {})
        BY <1>6 DEF WithoutDiff
      <3>2. WithoutDiff.modules = planned
        BY <2>2, <3>1 DEF CiOutcome
      <3>3. WithoutDiff.specs = IF "functional" \in planned /\ plain.length <= GrepLimit
                                THEN {s \in Suite : Matches(s, plain, user)} ELSE {}
        BY <2>1, <2>2, <3>1 DEF CiOutcome
      <3> QED BY <3>2, <3>3
    <2>4. planned \subseteq modules
      BY <1>5, <1>12, <2>2, PlansAreModules
    <2>5. plain.tags = ModeGrep(mode).tags /\ plain.length = ModeGrep(mode).length
      BY <1>8, <2>1 DEF OrGrep, NoGrep
    <2>6. plain.tags \subseteq grep.tags /\ plain.length # 0 /\ grep.length # 0
      BY <1>8, <1>12, <2>5
    <2>7. \A s : Matches(s, plain, user) => Matches(s, grep, user)
      BY <2>6, MatchesFacts
    <2> QED BY <1>6, <1>12, <2>3, <2>4, <2>7
  <1>13. ASSUME outcome.accepted PROVE outcome.specs \subseteq WithoutUser.specs
    <2>1. WithoutUser = CiOutcome(mode, enabled, outcome.floor, failUnder, NoUser, withDiff, paths)
      BY <1>1, <1>6 DEF WithoutUser
    <2>2. WithoutUser.specs = IF "functional" \in modules /\ grep.length <= GrepLimit
                              THEN {s \in Suite : Matches(s, grep, NoUser)} ELSE {}
      BY <1>3, <1>4, <1>5, <2>1 DEF CiOutcome
    <2>3. \A s : Matches(s, grep, user) => Matches(s, grep, NoUser)
      <3>1. PICK x : x = [tags |-> {}, length |-> 1]
        OBVIOUS
      <3>2. x.tags \subseteq x.tags /\ x.length # 0
        BY <3>1
      <3> QED BY <3>2, MatchesFacts
    <2> QED BY <1>6, <2>2, <2>3
  <1> QED BY <1>6, <1>9, <1>10, <1>11, <1>12, <1>13 DEF CiKeepsGates

\* The listing and the combination name modules of the product, and a file is
\* untracked or in one of the other states of git.
THEOREM SelectionTyped == SelectionSpec => []SelectionTypeOK
  <1>1. SelectionInv => SelectionTypeOK
    BY DEF SelectionInv
  <1> QED BY <1>1, SelectionStarts, SelectionSteps, PTL DEF SelectionSpec

\* For any files, suites and configs: no change that nobody touched while git
\* was asked is left out, and no mode, config, diff or filter undoes what
\* another requires (changed_files_against and select_modules, mode_plan,
\* apply_mode, _or_grep and _combine_grep).
THEOREM SelectionStaysSound == SelectionSpec => []SelectionIsSound
  <1>1. SelectionInv => SelectionIsSound
    BY ChangesServe, CiServes DEF SelectionIsSound
  <1> QED BY <1>1, SelectionStarts, SelectionSteps, PTL DEF SelectionSpec

----------------------------------------------------------------------------
(***************************************************************************)
(* RumPipeline.  An event waits in one place, a buffer or a batch, until   *)
(* the receiver knows its id; from then on the id says which event it is,  *)
(* wherever it is kept.  What was counted and is kept nowhere was glued to *)
(* half a line, and each half line takes a kill.                           *)
(***************************************************************************)
\* The inbox is its lines and perhaps half a line.
Line == Parsed(inbox)
Half == inbox # Line
Dirs == DOMAIN runDirs
EventsOf(d) == runDirs[d].events
Baked == UNION {IdsIn(EventsOf(d)) : d \in {d \in Dirs : Complete(d)}}

\* An id the receiver has seen, and an event it still holds.
Known(x) == x \in IdsIn(Line) \/ x \in acknowledged \/ \E d \in Dirs : x \in IdsIn(EventsOf(d))
Keeps(e) == e \in ToSet(Line) \/ \E d \in Dirs : e \in ToSet(EventsOf(d))

\* No id twice; no id in common; events that nobody but a page has seen.
Told(s) == \A i, j \in DOMAIN s : s[i].id = s[j].id => i = j
Apart(s, t) == \A x \in IdsIn(s) : x \notin IdsIn(t)
Fresh(s) == s \in Seq(Event) /\ Told(s) /\ \A x \in IdsIn(s) : x \in 1..made /\ ~Known(x)

RumTyped ==
  /\ millis \in 0..MaxMillis /\ made \in 0..MaxEvents
  /\ DOMAIN buffer \subseteq Tab /\ <<>> \notin transit
  /\ \E p \in Seq(Event) : inbox \in {p, Append(p, Torn)}
  /\ counted \in Nat
  /\ receiver \in Baking \cup {"serve", "down"} /\ closing \in BOOLEAN
  /\ kills \in 0..MaxKills
  /\ \A d \in Dirs : runDirs[d] \in [events : Seq(Event), run : [count : Nat, failed : BOOLEAN]]

\* Every event waits in one place.
Waiting ==
  /\ \A t \in DOMAIN buffer : Fresh(buffer[t])
  /\ \A b \in transit : Fresh(b)
  /\ \A t, u \in DOMAIN buffer : t # u => Apart(buffer[t], buffer[u])
  /\ \A b, c \in transit : b # c => Apart(b, c)
  /\ \A t \in DOMAIN buffer, b \in transit : Apart(buffer[t], b)

\* The id says which event it is and, with the length, the run where it is.
Recorded ==
  /\ \A x : Known(x) \/ x \in replaced => x \in 1..made
  /\ Told(Line)
  /\ \A d \in Dirs : EventsOf(d) # <<>> /\ Told(EventsOf(d)) /\ d = RunId(EventsOf(d))
  /\ \A e, f : Keeps(e) /\ Keeps(f) /\ e.id = f.id => e = f

FitsRun(d) ==
  /\ runDirs[d].run.count = Len(EventsOf(d))
  /\ runDirs[d].run.failed <=> \E e \in ToSet(EventsOf(d)) : e.error

\* How far bake() has come.
Proceeds ==
  /\ receiver \in {"events", "run", "unlink"} => ~AnySloppy /\ Line # <<>>
  /\ receiver \in {"run", "unlink"} => RunId(Line) \in Dirs /\ EventsOf(RunId(Line)) = Line
  /\ receiver = "unlink" => Complete(RunId(Line)) /\ FitsRun(RunId(Line))

Lost == acknowledged \ (IdsIn(inbox) \cup Baked \cup replaced)

\* Half a line is the kill that has not cost an event yet.
Accounted ==
  /\ Cardinality(Lost) + (IF Half THEN 1 ELSE 0) <= kills
  /\ counted <= Cardinality(acknowledged)

\* The run that bake() is about to write, again or for the first time.
Rebakes(d) == Underway(d) /\ ~AnySloppy

Unique ==
  kills = 0 =>
    /\ \A c, d \in Dirs : c # d => Apart(EventsOf(c), EventsOf(d))
    /\ \A d \in Dirs : Apart(EventsOf(d), Line) \/ Rebakes(d)

Summed ==
  \A d \in Dirs : Complete(d) =>
    /\ replaced = {} => FitsRun(d)
    /\ kills = 0 => FitsRun(d) \/ Rebakes(d)

Drains ==
  /\ closing => receiver \in Baking \cup {"down"}
  /\ kills = 0 /\ receiver = "down" => closing
  /\ ~AnySloppy =>
       /\ receiver = "serve" => counted < Threshold
       /\ kills = 0 /\ ~closing /\ receiver # "down" => counted = Len(inbox)
       /\ receiver = "down" /\ closing => inbox = <<>>

RumInv ==
  RumTyped /\ Waiting /\ Recorded /\ Proceeds /\ Accounted /\ Unique /\ Summed /\ Drains

LEMMA TornIsNone == Torn \notin Event /\ ~Torn.sloppy
  BY DEF Torn, Event

LEMMA SetOfSeq ==
  ASSUME NEW S, NEW s \in Seq(S)
  PROVE  /\ Len(s) \in Nat /\ DOMAIN s = 1..Len(s) /\ ToSet(s) \subseteq S
         /\ s = <<>> <=> Len(s) = 0
         /\ \A e : e \in ToSet(s) <=> \E i \in 1..Len(s) : s[i] = e
  <1>1. Len(s) \in Nat /\ DOMAIN s = 1..Len(s) /\ \A i \in 1..Len(s) : s[i] \in S
    BY LenProperties
  <1>2. s = <<>> <=> Len(s) = 0
    OBVIOUS
  <1> QED BY <1>1, <1>2 DEF ToSet

LEMMA PushedSet ==
  ASSUME NEW S, NEW s \in Seq(S), NEW e
  PROVE  ToSet(Append(s, e)) = ToSet(s) \cup {e}
  <1>1. PICK q : q = Append(s, e)
    OBVIOUS
  <1>2. /\ s \in Seq(S \cup {e}) /\ q \in Seq(S \cup {e}) /\ Len(q) = Len(s) + 1
        /\ \A i \in 1..Len(s) : q[i] = s[i]
        /\ q[Len(s) + 1] = e
    BY <1>1, AppendProperties, SeqMonotonic
  <1>3. Len(s) \in Nat /\ \A i \in 1..(Len(s) + 1) : i \in 1..Len(s) \/ i = Len(s) + 1
    BY SetOfSeq
  <1>4. \A x : x \in ToSet(q) <=> \E i \in 1..(Len(s) + 1) : q[i] = x
    BY <1>2, SetOfSeq
  <1>5. \A x : x \in ToSet(s) <=> \E i \in 1..Len(s) : s[i] = x
    BY SetOfSeq
  <1>6. \A x : x \in ToSet(q) <=> x \in ToSet(s) \/ x = e
    BY <1>2, <1>3, <1>4, <1>5
  <1> QED BY <1>1, <1>6

\* Two sequences in a row.
LEMMA JoinedSet ==
  ASSUME NEW S, NEW s \in Seq(S), NEW t \in Seq(S)
  PROVE  /\ s \o t \in Seq(S) /\ Len(s \o t) = Len(s) + Len(t)
         /\ \A i \in 1..Len(s) : (s \o t)[i] = s[i]
         /\ \A j \in 1..Len(t) : (s \o t)[Len(s) + j] = t[j]
         /\ ToSet(s \o t) = ToSet(s) \cup ToSet(t)
  <1> PICK u : u = s \o t
    OBVIOUS
  <1>1. /\ u \in Seq(S) /\ Len(u) = Len(s) + Len(t)
        /\ \A i \in 1..(Len(s) + Len(t)) : u[i] = IF i <= Len(s) THEN s[i] ELSE t[i - Len(s)]
    BY ConcatProperties
  <1>2. Len(s) \in Nat /\ Len(t) \in Nat
    BY SetOfSeq
  <1>3. /\ \A i \in 1..Len(s) : u[i] = s[i]
        /\ \A j \in 1..Len(t) : u[Len(s) + j] = t[j]
    BY <1>1, <1>2
  <1>4. \A i \in 1..(Len(s) + Len(t)) : i \in 1..Len(s) \/ \E j \in 1..Len(t) : i = Len(s) + j
    <2> TAKE i \in 1..(Len(s) + Len(t))
    <2>1. CASE i <= Len(s)
      BY <2>1, <1>2
    <2>2. CASE i > Len(s)
      <3>1. i - Len(s) \in 1..Len(t) /\ i = Len(s) + (i - Len(s))
        BY <2>2, <1>2
      <3> QED BY <3>1
    <2> QED BY <2>1, <2>2, <1>2
  <1>5. /\ \A i \in 1..Len(s) : i \in 1..(Len(s) + Len(t))
        /\ \A j \in 1..Len(t) : Len(s) + j \in 1..(Len(s) + Len(t))
    BY <1>2
  <1>6. \A x : x \in ToSet(u) <=> \E i \in 1..(Len(s) + Len(t)) : u[i] = x
    <2>1. u \in Seq(S) /\ Len(u) = Len(s) + Len(t)
      BY <1>1
    <2>2. \A x : x \in ToSet(u) <=> \E i \in 1..Len(u) : u[i] = x
      BY <2>1, SetOfSeq
    <2> QED BY <2>1, <2>2
  <1>7. /\ \A x : x \in ToSet(s) <=> \E i \in 1..Len(s) : s[i] = x
        /\ \A x : x \in ToSet(t) <=> \E j \in 1..Len(t) : t[j] = x
    BY SetOfSeq
  <1>8. ASSUME NEW x PROVE x \in ToSet(u) <=> x \in ToSet(s) \/ x \in ToSet(t)
    <2>1. ASSUME x \in ToSet(u) PROVE x \in ToSet(s) \/ x \in ToSet(t)
      <3>1. PICK i \in 1..(Len(s) + Len(t)) : u[i] = x
        BY <2>1, <1>6
      <3>2. CASE i \in 1..Len(s)
        BY <3>1, <3>2, <1>3, <1>7
      <3>3. CASE \E j \in 1..Len(t) : i = Len(s) + j
        BY <3>1, <3>3, <1>3, <1>7
      <3> QED BY <3>2, <3>3, <1>4
    <2>2. ASSUME x \in ToSet(s) PROVE x \in ToSet(u)
      <3>1. PICK i \in 1..Len(s) : s[i] = x
        BY <2>2, <1>7
      <3> QED BY <3>1, <1>3, <1>5, <1>6
    <2>3. ASSUME x \in ToSet(t) PROVE x \in ToSet(u)
      <3>1. PICK j \in 1..Len(t) : t[j] = x
        BY <2>3, <1>7
      <3> QED BY <3>1, <1>3, <1>5, <1>6
    <2> QED BY <2>1, <2>2, <2>3
  <1> QED BY <1>1, <1>3, <1>8

LEMMA ParsedIs ==
  ASSUME NEW p \in Seq(Event)
  PROVE  Parsed(p) = p /\ Parsed(Append(p, Torn)) = p /\ p # Append(p, Torn)
  <1>1. p # <<>> => Last(p) \in Event
    BY DEF Last
  <1>2. Append(p, Torn) # <<>> /\ Last(Append(p, Torn)) = Torn
    BY DEF Last
  <1>3. Front(Append(p, Torn)) = p
    <2> DEFINE q == Append(p, Torn)
    <2>1. q \in Seq(Event \cup {Torn}) /\ Len(p) \in Nat /\ Len(q) - 1 = Len(p)
          /\ \A i \in 1..Len(p) : q[i] = p[i]
      BY LenProperties, AppendProperties
    <2> HIDE DEF q
    <2>2. Front(q) = [i \in 1..Len(p) |-> q[i]]
      BY <2>1, SubSeqProperties DEF Front
    <2>3. p = [i \in 1..Len(p) |-> p[i]]
      BY LenProperties
    <2> QED BY <2>1, <2>2, <2>3 DEF q
  <1>4. p # Append(p, Torn)
    BY LenProperties, AppendProperties
  <1> QED BY <1>1, <1>2, <1>3, <1>4, TornIsNone DEF Parsed

\* What the shape of the inbox says of its lines.
LEMMA InboxFacts ==
  ASSUME RumTyped
  PROVE  /\ Line \in Seq(Event) /\ Torn \notin ToSet(Line)
         /\ Half \in BOOLEAN
         /\ inbox = IF Half THEN Append(Line, Torn) ELSE Line
         /\ AnySloppy <=> \E e \in ToSet(Line) : e.sloppy
         /\ IdsIn(Line) \subseteq IdsIn(inbox) /\ IdsIn(inbox) \subseteq IdsIn(Line) \cup {0}
  <1>1. PICK p \in Seq(Event) : inbox \in {p, Append(p, Torn)}
    BY DEF RumTyped
  <1>2. Line = p /\ (Half <=> inbox = Append(p, Torn))
    BY <1>1, ParsedIs DEF Line, Half
  <1>3. ToSet(p) \subseteq Event /\ ToSet(Append(p, Torn)) = ToSet(p) \cup {Torn}
    BY PushedSet, SetOfSeq
  <1>4. Torn.id = 0 /\ Torn.sloppy = FALSE
    BY DEF Torn
  <1>5. Line \in Seq(Event) /\ Torn \notin ToSet(Line) /\ Half \in BOOLEAN
    BY <1>2, <1>3, TornIsNone DEF Half
  <1>6. inbox = IF Half THEN Append(Line, Torn) ELSE Line
    BY <1>1, <1>2
  <1>7. ToSet(inbox) = ToSet(Line) \cup (IF Half THEN {Torn} ELSE {})
    BY <1>6, <1>3, <1>2
  <1> QED BY <1>4, <1>5, <1>6, <1>7 DEF IdsIn, AnySloppy
\* The ids of events in a row.
LEMMA IdsOf ==
  ASSUME NEW s \in Seq(Event)
  PROVE  /\ \A x : x \in IdsIn(s) <=> \E i \in 1..Len(s) : s[i].id = x
         /\ IdsIn(s) \subseteq 1..MaxEvents
         /\ Told(s) <=> \A i, j \in 1..Len(s) : s[i].id = s[j].id => i = j
  <1>1. \A e : e \in ToSet(s) <=> \E i \in 1..Len(s) : s[i] = e
    BY SetOfSeq
  <1>2. DOMAIN s = 1..Len(s) /\ ToSet(s) \subseteq Event
    BY SetOfSeq
  <1>3. \A e \in Event : e.id \in 1..MaxEvents
    BY DEF Event
  <1> QED BY <1>1, <1>2, <1>3 DEF IdsIn, Told

LEMMA JoinedTold ==
  ASSUME NEW s \in Seq(Event), NEW t \in Seq(Event), NEW u, u = s \o t
  PROVE  /\ IdsIn(u) = IdsIn(s) \cup IdsIn(t)
         /\ Told(s) /\ Told(t) /\ Apart(s, t) => Told(u)
  <1>1. /\ u \in Seq(Event) /\ Len(u) = Len(s) + Len(t)
        /\ \A i \in 1..Len(s) : u[i] = s[i]
        /\ \A j \in 1..Len(t) : u[Len(s) + j] = t[j]
        /\ ToSet(u) = ToSet(s) \cup ToSet(t)
    BY JoinedSet
  <1>2. IdsIn(u) = IdsIn(s) \cup IdsIn(t)
    BY <1>1 DEF IdsIn
  <1>3. ASSUME Told(s), Told(t), Apart(s, t) PROVE Told(u)
    <2>1. Len(s) \in Nat /\ Len(t) \in Nat
      BY SetOfSeq
    <2>2. \A i \in 1..Len(u) : i \in 1..Len(s) \/ \E k \in 1..Len(t) : i = Len(s) + k
      <3> TAKE i \in 1..Len(u)
      <3>1. i \notin 1..Len(s) => i - Len(s) \in 1..Len(t) /\ i = Len(s) + (i - Len(s))
        BY <1>1, <2>1
      <3> QED BY <3>1
    <2>3. /\ \A i, j \in 1..Len(s) : s[i].id = s[j].id => i = j
          /\ \A i, j \in 1..Len(t) : t[i].id = t[j].id => i = j
          /\ \A i \in 1..Len(s), j \in 1..Len(t) : s[i].id # t[j].id
      BY <1>3, IdsOf DEF Apart
    <2>4. ASSUME NEW i \in 1..Len(u), NEW j \in 1..Len(u), u[i].id = u[j].id PROVE i = j
      <3>1. CASE i \in 1..Len(s) /\ j \in 1..Len(s)
        BY <3>1, <2>3, <2>4, <1>1
      <3>2. CASE i \in 1..Len(s) /\ \E k \in 1..Len(t) : j = Len(s) + k
        BY <3>2, <2>3, <2>4, <1>1
      <3>3. CASE j \in 1..Len(s) /\ \E k \in 1..Len(t) : i = Len(s) + k
        BY <3>3, <2>3, <2>4, <1>1
      <3>4. ASSUME NEW k \in 1..Len(t), NEW m \in 1..Len(t), i = Len(s) + k, j = Len(s) + m
            PROVE  i = j
        BY <3>4, <2>3, <2>4, <1>1
      <3> QED BY <3>1, <3>2, <3>3, <3>4, <2>2
    <2> QED BY <1>1, <2>4, IdsOf
  <1> QED BY <1>2, <1>3

\* What is left of a batch whose first events did not make it, or whose last.
LEMMA TailTold ==
  ASSUME NEW s \in Seq(Event), s # <<>>
  PROVE  /\ Tail(s) \in Seq(Event) /\ s[1] \in Event
         /\ IdsIn(s) = IdsIn(Tail(s)) \cup {s[1].id}
         /\ Told(s) => Told(Tail(s))
  <1>1. PICK t : t = Tail(s)
    OBVIOUS
  <1>2. /\ t \in Seq(Event) /\ Len(t) = Len(s) - 1 /\ Len(s) \in Nat \ {0}
        /\ \A i \in 1..Len(t) : t[i] = s[i + 1]
    BY <1>1, HeadTailProperties, SetOfSeq
  <1>3. /\ 1 \in 1..Len(s)
        /\ \A i \in 1..Len(t) : i + 1 \in 1..Len(s)
        /\ \A i \in 1..Len(s) : i # 1 => i - 1 \in 1..Len(t) /\ t[i - 1] = s[i]
    BY <1>2
  <1>4. s[1] \in Event
    BY <1>3, LenProperties
  <1>5. ASSUME NEW x PROVE x \in IdsIn(s) <=> x \in IdsIn(t) \cup {s[1].id}
    <2>1. /\ x \in IdsIn(s) <=> \E i \in 1..Len(s) : s[i].id = x
          /\ x \in IdsIn(t) <=> \E i \in 1..Len(t) : t[i].id = x
      BY <1>2, IdsOf
    <2>2. (\E i \in 1..Len(t) : t[i].id = x) => \E i \in 1..Len(s) : s[i].id = x
      BY <1>2, <1>3
    <2>3. ASSUME NEW i \in 1..Len(s), s[i].id = x, i # 1 PROVE \E j \in 1..Len(t) : t[j].id = x
      BY <2>3, <1>3
    <2> QED BY <2>1, <2>2, <2>3, <1>3
  <1>6. ASSUME Told(s) PROVE Told(t)
    <2>1. \A i, j \in 1..Len(s) : s[i].id = s[j].id => i = j
      BY <1>6, IdsOf
    <2>2. \A i, j \in 1..Len(t) : t[i].id = t[j].id => i + 1 = j + 1
      BY <1>2, <1>3, <2>1
    <2>3. \A i, j \in 1..Len(t) : i + 1 = j + 1 => i = j
      BY <1>2
    <2> QED BY <1>2, <2>2, <2>3, IdsOf
  <1> QED BY <1>1, <1>2, <1>4, <1>5, <1>6

LEMMA PrefixTold ==
  ASSUME NEW s \in Seq(Event), NEW n \in 0..Len(s)
  PROVE  /\ SubSeq(s, 1, n) \in Seq(Event)
         /\ IdsIn(SubSeq(s, 1, n)) \subseteq IdsIn(s)
         /\ Told(s) => Told(SubSeq(s, 1, n))
  <1>1. PICK t : t = SubSeq(s, 1, n)
    OBVIOUS
  <1>2. Len(s) \in Nat /\ n \in Nat /\ \A i \in 1..n : i \in 1..Len(s) /\ s[i] \in Event
    BY LenProperties
  <1>3. t \in Seq(Event) /\ Len(t) = n /\ \A i \in 1..n : t[i] = s[i]
    BY <1>1, <1>2, SubSeqProperties
  <1>4. ASSUME NEW x \in IdsIn(t) PROVE x \in IdsIn(s)
    <2>1. PICK i \in 1..n : t[i].id = x
      BY <1>3, IdsOf
    <2> QED BY <2>1, <1>2, <1>3, IdsOf
  <1>5. ASSUME Told(s) PROVE Told(t)
    <2>1. \A i, j \in 1..Len(s) : s[i].id = s[j].id => i = j
      BY <1>5, IdsOf
    <2>2. \A i, j \in 1..Len(t) : t[i].id = t[j].id => i = j
      BY <1>2, <1>3, <2>1
    <2> QED BY <1>3, <2>2, IdsOf
  <1> QED BY <1>1, <1>3, <1>4, <1>5

LEMMA Counting ==
  ASSUME NEW s \in Seq(Event), Told(s)
  PROVE  IsFiniteSet(IdsIn(s)) /\ Cardinality(IdsIn(s)) = Len(s)
  <1> DEFINE f == [i \in 1..Len(s) |-> s[i].id]
  <1>1. Len(s) \in Nat
    BY SetOfSeq
  <1>2. f \in Bijection(1..Len(s), IdsIn(s))
    BY IdsOf DEF Bijection, Injection, Surjection, IsInjective
  <1>3. ExistsBijection(1..Len(s), IdsIn(s))
    BY <1>2 DEF ExistsBijection
  <1> QED BY <1>1, <1>3, FS_CountingElements, FS_NatBijection

\* The events a page records carry the next numbers.
LEMMA StampedIs ==
  ASSUME NEW t, NEW errors \in Seq(BOOLEAN), made \in Nat, made + Len(errors) <= MaxEvents,
         millis \in 0..MaxMillis
  PROVE  /\ Stamped(t, errors) \in Seq(Event) /\ Len(Stamped(t, errors)) = Len(errors)
         /\ Told(Stamped(t, errors))
         /\ \A x \in IdsIn(Stamped(t, errors)) : x \in (made + 1)..(made + Len(errors))
  <1>1. PICK s : s = Stamped(t, errors)
    OBVIOUS
  <1>2. Len(errors) \in Nat /\ DOMAIN errors = 1..Len(errors) /\ \A i \in 1..Len(errors) : errors[i] \in BOOLEAN
    BY LenProperties
  <1>3. s = [i \in 1..Len(errors) |-> [id |-> made + i, ts |-> millis, error |-> errors[i],
                                       sloppy |-> t \in SloppyTab]]
    BY <1>1, <1>2 DEF Stamped
  <1>4. \A i \in 1..Len(errors) : s[i] \in Event /\ s[i].id = made + i
    BY <1>2, <1>3, RumAssumption DEF Event, RumAssumption
  <1>5. s \in Seq(Event) /\ Len(s) = Len(errors)
    BY <1>2, <1>3, <1>4
  <1>6. \A i, j \in 1..Len(s) : s[i].id = s[j].id => i = j
    BY <1>2, <1>4, <1>5
  <1>7. ASSUME NEW x \in IdsIn(s) PROVE x \in (made + 1)..(made + Len(errors))
    <2>1. PICK i \in 1..Len(s) : s[i].id = x
      BY <1>5, IdsOf
    <2> QED BY <2>1, <1>2, <1>4, <1>5
  <1> QED BY <1>1, <1>5, <1>6, <1>7, IdsOf

\* What is put at the end of the inbox: the first line is lost to half a line
\* it meets.
LEMMA AfterIs ==
  ASSUME RumTyped, NEW lines \in Seq(Event), NEW half \in BOOLEAN,
         inbox' = After(inbox, lines \o IF half THEN <<Torn>> ELSE <<>>)
  PROVE  \E kept \in Seq(Event) :
           /\ Line' = Line \o kept
           /\ inbox' = IF Half' THEN Append(Line', Torn) ELSE Line'
           /\ Half' <=> half \/ (Half /\ lines = <<>>)
           /\ kept = lines \/ (Half /\ lines # <<>> /\ kept = Tail(lines))
  <1>1. /\ Line \in Seq(Event) /\ inbox = (IF Half THEN Append(Line, Torn) ELSE Line)
    BY InboxFacts
  <1> DEFINE put == lines \o IF half THEN <<Torn>> ELSE <<>>
  <1>2. put = IF half THEN Append(lines, Torn) ELSE lines
    BY AppendIsConcat, ConcatEmptySeq, SeqMonotonic
  <1>3. put = <<>> <=> ~half /\ lines = <<>>
    BY <1>2
  <1>4. put = <<Torn>> <=> half /\ lines = <<>>
    <2>1. <<Torn>>[1] = Torn /\ Len(<<Torn>>) = 1 /\ Append(<<>>, Torn) = <<Torn>>
      OBVIOUS
    <2>2. Len(lines) \in Nat /\ (lines = <<>> <=> Len(lines) = 0)
          /\ \A i \in 1..Len(lines) : lines[i] \in Event
      BY LenProperties, SetOfSeq
    <2>3. Len(Append(lines, Torn)) = Len(lines) + 1
      BY <2>2
    <2>4. lines # <<Torn>>
      <3>1. lines = <<Torn>> => lines[1] = Torn /\ 1 \in 1..Len(lines)
        BY <2>1
      <3> QED BY <3>1, <2>2, TornIsNone
    <2>5. CASE half
      <3>1. put = Append(lines, Torn)
        BY <2>5, <1>2
      <3>2. lines # <<>> => put # <<Torn>>
        BY <3>1, <2>1, <2>2, <2>3
      <3> QED BY <2>5, <3>1, <3>2, <2>1
    <2>6. CASE ~half
      BY <2>6, <1>2, <2>4
    <2> QED BY <2>5, <2>6
  <1>5. inbox = <<>> \/ Last(inbox) # Torn <=> ~Half
    <2>1. CASE Half
      <3>1. inbox = Append(Line, Torn)
        BY <2>1, <1>1
      <3>2. Line \in Seq(Event \cup {Torn})
        BY <1>1, SeqMonotonic
      <3>3. Torn \in Event \cup {Torn}
        OBVIOUS
      <3>4. /\ Append(Line, Torn) # <<>>
            /\ Len(Append(Line, Torn)) = Len(Line) + 1
            /\ Append(Line, Torn)[Len(Line) + 1] = Torn
        BY <3>2, <3>3, AppendProperties
      <3>5. inbox # <<>> /\ Last(inbox) = Torn
        BY <3>1, <3>4, Zenon DEF Last
      <3> QED BY <2>1, <3>5
    <2>2. ~Half => inbox = <<>> \/ Last(inbox) # Torn
      BY <1>1, LenProperties, TornIsNone DEF Last
    <2> QED BY <2>1, <2>2
  <1>6. Half => Front(inbox) = Line
    BY <1>1 DEF Line, Parsed, Half
  <1>7. CASE ~Half \/ put = <<>>
    <2>1. inbox' = inbox \o put
      BY <1>7, <1>5 DEF After
    <2>2. CASE put = <<>>
      <3>1. inbox' = inbox
        <4>1. inbox \in Seq(Event \cup {Torn})
          BY <1>1, SeqMonotonic, AppendProperties
        <4> QED BY <2>1, <2>2, <4>1, ConcatEmptySeq
      <3>2. Line' = Line /\ Half' = Half /\ Line \o <<>> = Line
        BY <3>1, <1>1, ConcatEmptySeq DEF Line, Half
      <3>3. lines = <<>> /\ ~half
        BY <2>2, <1>3
      <3> QED BY <3>1, <3>2, <3>3, <1>1
    <2>3. CASE ~Half
      <3> DEFINE all == Line \o lines
      <3>1. all \in Seq(Event)
        BY <1>1, ConcatProperties
      <3>2. inbox' = IF half THEN Append(all, Torn) ELSE all
        <4>1. CASE ~half
          BY <4>1, <2>1, <2>3, <1>1, <1>2
        <4>2. CASE half
          <5>1. inbox' = Line \o Append(lines, Torn)
            BY <4>2, <2>1, <2>3, <1>1, <1>2
          <5>2. /\ Line \in Seq(Event \cup {Torn}) /\ lines \in Seq(Event \cup {Torn})
                /\ <<Torn>> \in Seq(Event \cup {Torn}) /\ all \in Seq(Event \cup {Torn})
            BY <1>1, <3>1, SeqMonotonic
          <5>3. Append(lines, Torn) = lines \o <<Torn>> /\ Append(all, Torn) = all \o <<Torn>>
            BY <5>2, AppendIsConcat
          <5>4. Line \o (lines \o <<Torn>>) = (Line \o lines) \o <<Torn>>
            BY <5>2, ConcatAssociative
          <5> QED BY <4>2, <5>1, <5>3, <5>4
        <4> QED BY <4>1, <4>2
      <3> HIDE DEF all
      <3>3. Line' = all /\ (Half' <=> half)
        BY <3>1, <3>2, ParsedIs DEF Line, Half
      <3> QED BY <3>2, <3>3, <2>3 DEF all
    <2> QED BY <1>7, <2>2, <2>3
  <1>8. CASE Half /\ put = <<Torn>>
    <2>1. inbox' = inbox
      BY <1>8, <1>3, <1>4, <1>5 DEF After
    <2>2. Line' = Line /\ Half' = Half /\ Line \o <<>> = Line
      BY <2>1, <1>1, ConcatEmptySeq DEF Line, Half
    <2> QED BY <2>1, <2>2, <1>1, <1>4, <1>8
  <1>9. CASE Half /\ lines # <<>>
    <2> DEFINE all == Line \o Tail(lines)
    <2>1. inbox' = Line \o Tail(put)
      BY <1>9, <1>3, <1>4, <1>5, <1>6 DEF After
    <2>2. Tail(lines) \in Seq(Event)
      BY <1>9, HeadTailProperties
    <2>3. Tail(put) = IF half THEN Append(Tail(lines), Torn) ELSE Tail(lines)
      BY <1>9, <1>2, HeadTailAppend
    <2>4. all \in Seq(Event)
      BY <1>1, <2>2, ConcatProperties
    <2>5. inbox' = IF half THEN Append(all, Torn) ELSE all
      <3>1. CASE ~half
        BY <3>1, <2>1, <2>3
      <3>2. CASE half
        <4>1. /\ Line \in Seq(Event \cup {Torn}) /\ Tail(lines) \in Seq(Event \cup {Torn})
              /\ <<Torn>> \in Seq(Event \cup {Torn}) /\ all \in Seq(Event \cup {Torn})
          BY <1>1, <2>2, <2>4, SeqMonotonic
        <4>2. Append(Tail(lines), Torn) = Tail(lines) \o <<Torn>> /\ Append(all, Torn) = all \o <<Torn>>
          BY <4>1, AppendIsConcat
        <4>3. Line \o (Tail(lines) \o <<Torn>>) = (Line \o Tail(lines)) \o <<Torn>>
          BY <4>1, ConcatAssociative
        <4> QED BY <3>2, <2>1, <2>3, <4>2, <4>3
      <3> QED BY <3>1, <3>2
    <2> HIDE DEF all
    <2>6. Line' = all /\ (Half' <=> half)
      BY <2>4, <2>5, ParsedIs DEF Line, Half
    <2> QED BY <2>2, <2>5, <2>6, <1>9 DEF all
  <1> QED BY <1>3, <1>4, <1>7, <1>8, <1>9
LEMMA NothingIn == IdsIn(<<>>) = {} /\ ToSet(<<>>) = {} /\ Told(<<>>) /\ <<>> \in Seq(Event)
  BY DEF IdsIn, ToSet, Told

\* A step of the pages: what the receiver keeps is as it was.
LEMMA StoreStays ==
  ASSUME RumInv, ReceiverStays, made' \in 0..MaxEvents, made <= made', millis' \in 0..MaxMillis,
         DOMAIN buffer' \subseteq Tab, <<>> \notin transit', Waiting'
  PROVE  RumInv'
  <1>1. UNCHANGED <<inbox, counted, receiver, closing, runDirs, kills, acknowledged, replaced>>
    BY DEF ReceiverStays
  <1>2. RumTyped'
    BY <1>1 DEF RumInv, RumTyped, Dirs
  <1>3. made \in Nat /\ \A x \in 1..made : x \in 1..made'
    BY DEF RumInv, RumTyped
  <1>4. Recorded'
    BY <1>1, <1>3 DEF RumInv, Recorded, Known, Keeps, Line, Dirs, EventsOf
  <1>5. Proceeds' /\ Accounted'
    BY <1>1 DEF RumInv, Proceeds, Accounted, AnySloppy, Line, Dirs, EventsOf, Complete, FitsRun,
                Lost, Half, Baked
  <1>6. Unique' /\ Summed' /\ Drains'
    BY <1>1 DEF RumInv, Unique, Summed, Drains, Rebakes, Underway, AnySloppy, Line, Dirs, EventsOf,
                Complete, FitsRun
  <1> QED BY <1>2, <1>4, <1>5, <1>6 DEF RumInv

\* Fresh, of a sequence of the next state.
FreshNext(s) == s \in Seq(Event) /\ Told(s) /\ \A x \in IdsIn(s) : x \in 1..made' /\ ~Known(x)'

LEMMA WaitingNext ==
  ASSUME \A t \in DOMAIN buffer' : FreshNext(buffer'[t]),
         \A b \in transit' : FreshNext(b),
         \A t, u \in DOMAIN buffer' : t # u => Apart(buffer'[t], buffer'[u]),
         \A b, c \in transit' : b # c => Apart(b, c),
         \A t \in DOMAIN buffer', b \in transit' : Apart(buffer'[t], b)
  PROVE  Waiting'
  BY DEF Waiting, Fresh, FreshNext, Told, Apart, IdsIn

\* A page turns what it has buffered, and the events it records, into a new
\* buffer or a batch.
LEMMA PageStep ==
  ASSUME RumInv, ReceiverStays, NEW t \in Tab, NEW old, NEW new \in Seq(Event),
         old = (IF t \in DOMAIN buffer THEN buffer[t] ELSE <<>>), Told(new),
         made' \in 0..MaxEvents, made <= made', millis' \in 0..MaxMillis,
         \A x \in IdsIn(new) : x \in IdsIn(old) \/ x \in (made + 1)..made',
         DOMAIN buffer' \subseteq DOMAIN buffer \cup {t},
         \A u \in DOMAIN buffer' : u # t => buffer'[u] = buffer[u],
         t \in DOMAIN buffer' => buffer'[t] \in {<<>>, new},
         \/ transit' = transit
         \/ /\ transit' = transit \cup {new} /\ new # <<>>
            /\ t \in DOMAIN buffer' => buffer'[t] = <<>>
  PROVE  RumInv'
  <1>1. Waiting /\ Recorded /\ RumTyped /\ made \in Nat
    BY DEF RumInv, RumTyped
  <1>2. \A x : Known(x)' <=> Known(x)
    BY DEF ReceiverStays, Known, Line, Dirs, EventsOf
  <1>3. \A x \in 1..made : x \in 1..made'
    BY <1>1
  <1>4. ASSUME NEW s, Fresh(s) PROVE FreshNext(s)
    BY <1>2, <1>3, <1>4 DEF Fresh, FreshNext
  <1>5. Fresh(old) /\ old \in Seq(Event)
    BY <1>1, NothingIn DEF Waiting, Fresh
  <1>6. FreshNext(new)
    <2>1. ASSUME NEW x \in IdsIn(new) PROVE x \in 1..made' /\ ~Known(x)
      <3>1. CASE x \in IdsIn(old)
        BY <3>1, <1>3, <1>5 DEF Fresh
      <3>2. CASE x \in (made + 1)..made'
        <4>1. x \in 1..made' /\ x \notin 1..made
          BY <3>2, <1>1
        <4> QED BY <4>1, <1>1 DEF Recorded
      <3> QED BY <3>1, <3>2
    <2> QED BY <2>1, <1>2 DEF FreshNext
  <1>7. FreshNext(<<>>)
    BY NothingIn DEF FreshNext
  <1>8. ASSUME NEW s, Fresh(s), Apart(old, s) PROVE Apart(new, s)
    <2>1. ASSUME NEW x \in IdsIn(new), x \in IdsIn(s) PROVE FALSE
      <3>1. x \in 1..made
        BY <2>1, <1>8 DEF Fresh
      <3>2. x \in (made + 1)..made' => x \notin 1..made
        BY <1>1
      <3> QED BY <2>1, <1>8, <3>1, <3>2 DEF Apart
    <2> QED BY <2>1 DEF Apart
  <1>9. \A s : Apart(<<>>, s) /\ Apart(s, <<>>)
    BY NothingIn DEF Apart
  <1>10. /\ \A u \in DOMAIN buffer : u # t => Fresh(buffer[u]) /\ Apart(old, buffer[u])
         /\ \A b \in transit : Fresh(b) /\ Apart(old, b)
    BY <1>1, <1>9 DEF Waiting
  <1>11. /\ \A u \in DOMAIN buffer : u # t => Apart(new, buffer[u]) /\ Apart(buffer[u], new)
         /\ \A b \in transit : Apart(new, b) /\ Apart(b, new)
    <2>1. \A s : Fresh(s) /\ Apart(old, s) => Apart(new, s) /\ Apart(s, new)
      BY <1>8 DEF Apart
    <2> QED BY <2>1, <1>10
  <1>13. /\ \A u \in DOMAIN buffer' : FreshNext(buffer'[u])
         /\ \A b \in transit' : FreshNext(b)
    BY <1>1, <1>4, <1>6, <1>7 DEF Waiting
  <1>14. \A u, v \in DOMAIN buffer' : u # v => Apart(buffer'[u], buffer'[v])
    BY <1>1, <1>9, <1>11 DEF Waiting
  <1>15. \A b, c \in transit' : b # c => Apart(b, c)
    BY <1>1, <1>11 DEF Waiting
  <1>16. \A u \in DOMAIN buffer', b \in transit' : Apart(buffer'[u], b)
    BY <1>1, <1>9, <1>11 DEF Waiting
  <1>17. Waiting'
    BY <1>13, <1>14, <1>15, <1>16, WaitingNext
  <1>18. <<>> \notin transit' /\ DOMAIN buffer' \subseteq Tab
    BY <1>1 DEF RumTyped
  <1> QED BY <1>17, <1>18, StoreStays
LEMMA EmitSteps ==
  ASSUME RumInv, ReceiverStays, NEW t \in Tab, NEW old, NEW errors \in Seq(BOOLEAN), errors # <<>>,
         old = (IF t \in DOMAIN buffer THEN buffer[t] ELSE <<>>), Emit(t, old, errors)
  PROVE  RumInv'
  <1>1. made \in Nat /\ millis \in 0..MaxMillis /\ Len(errors) \in Nat \ {0}
    BY SetOfSeq DEF RumInv, RumTyped
  <1>2. made' = made + Len(errors) /\ made' \in 0..MaxEvents /\ made <= made' /\ millis' = millis
    BY <1>1 DEF Emit
  <1>3. old \in Seq(Event) /\ Told(old) /\ \A x \in IdsIn(old) : x \in 1..made
    BY NothingIn DEF RumInv, Waiting, Fresh
  <1> PICK end : end = Stamped(t, errors)
    OBVIOUS
  <1> PICK new : new = old \o end
    OBVIOUS
  <1>4. /\ end \in Seq(Event) /\ Told(end)
        /\ Len(end) = Len(errors)
        /\ \A x \in IdsIn(end) : x \in (made + 1)..made'
    BY <1>1, <1>2, StampedIs
  <1>5. Apart(old, end)
    <2>1. \A x : x \in 1..made => x \notin (made + 1)..made'
      BY <1>1
    <2> QED BY <2>1, <1>3, <1>4 DEF Apart
  <1>6. new \in Seq(Event) /\ new # <<>>
    <2>1. new \in Seq(Event) /\ Len(new) = Len(old) + Len(errors) /\ Len(old) \in Nat
      BY <1>3, <1>4, JoinedSet, SetOfSeq
    <2> QED BY <2>1, <1>1
  <1>7. Told(new) /\ \A x \in IdsIn(new) : x \in IdsIn(old) \/ x \in (made + 1)..made'
    <2>1. IdsIn(new) = IdsIn(old) \cup IdsIn(end)
      BY <1>3, <1>4, JoinedTold
    <2>2. Told(new)
      BY <1>3, <1>4, <1>5, JoinedTold
    <2> QED BY <2>1, <2>2, <1>4
  <1>8. \/ buffer' = Put(buffer, t, <<>>) /\ transit' = transit \cup {new}
        \/ buffer' = Put(buffer, t, new) /\ transit' = transit
    BY DEF Emit
  <1>9. /\ DOMAIN buffer' \subseteq DOMAIN buffer \cup {t}
        /\ \A u \in DOMAIN buffer' : u # t => buffer'[u] = buffer[u]
        /\ t \in DOMAIN buffer' => buffer'[t] \in {<<>>, new}
        /\ \/ transit' = transit
           \/ /\ transit' = transit \cup {new} /\ new # <<>>
              /\ t \in DOMAIN buffer' => buffer'[t] = <<>>
    BY <1>6, <1>8 DEF Put
  <1> QED BY <1>1, <1>2, <1>6, <1>7, <1>9, PageStep

LEMMA FlushSteps ==
  ASSUME RumInv, NEW t \in Tab, Flush(t)
  PROVE  RumInv'
  <1>1. made \in 0..MaxEvents /\ made <= made /\ millis \in 0..MaxMillis /\ t \in DOMAIN buffer
    BY DEF RumInv, RumTyped, Flush
  <1> PICK old : old = buffer[t]
    OBVIOUS
  <1>2. old \in Seq(Event) /\ Told(old) /\ old # <<>>
    BY <1>1 DEF RumInv, Waiting, Fresh, Flush
  <1>3. /\ DOMAIN buffer' = DOMAIN buffer /\ buffer'[t] = <<>>
        /\ \A u \in DOMAIN buffer' : u # t => buffer'[u] = buffer[u]
        /\ transit' = transit \cup {old} /\ made' = made /\ millis' = millis
        /\ ReceiverStays
    BY <1>1 DEF Flush
  <1> QED BY <1>1, <1>2, <1>3, PageStep

LEMMA VanishSteps ==
  ASSUME RumInv, NEW t \in Tab, Vanish(t)
  PROVE  RumInv'
  <1>1. made \in 0..MaxEvents /\ made <= made /\ millis \in 0..MaxMillis /\ t \in DOMAIN buffer
    BY DEF RumInv, RumTyped, Vanish
  <1> PICK old : old = buffer[t]
    OBVIOUS
  <1>2. old \in Seq(Event) /\ Told(old)
    BY <1>1 DEF RumInv, Waiting, Fresh, Vanish
  <1>3. /\ DOMAIN buffer' = DOMAIN buffer \ {t}
        /\ \A u \in DOMAIN buffer' : u # t => buffer'[u] = buffer[u]
        /\ transit' = transit /\ made' = made /\ millis' = millis
        /\ ReceiverStays
    BY <1>1 DEF Vanish, Restrict
  <1> QED BY <1>1, <1>2, <1>3, PageStep

LEMMA ShutdownSteps ==
  ASSUME RumInv, NEW t \in Tab, Shutdown(t)
  PROVE  RumInv'
  <1>1. made \in 0..MaxEvents /\ made < MaxEvents /\ millis \in 0..MaxMillis /\ t \in DOMAIN buffer
    BY DEF RumInv, RumTyped, Shutdown
  <1> PICK old : old = buffer[t]
    OBVIOUS
  <1> PICK end : end = Stamped(t, <<FALSE>>)
    OBVIOUS
  <1> PICK new : new = old \o end
    OBVIOUS
  <1>2. old \in Seq(Event) /\ Told(old) /\ \A x \in IdsIn(old) : x \in 1..made
    BY <1>1 DEF RumInv, Waiting, Fresh
  <1>3. made' = made + 1 /\ made' \in 0..MaxEvents /\ made <= made' /\ millis' = millis
    BY <1>1, RumAssumption DEF Shutdown, RumAssumption
  <1>4. end \in Seq(Event) /\ Len(end) = 1 /\ Told(end) /\ \A x \in IdsIn(end) : x \in (made + 1)..made'
    <2>1. <<FALSE>> \in Seq(BOOLEAN) /\ Len(<<FALSE>>) = 1
      OBVIOUS
    <2>2. made \in Nat /\ made + Len(<<FALSE>>) <= MaxEvents
      BY <1>1, <2>1, RumAssumption DEF RumAssumption
    <2> QED BY <1>1, <1>3, <2>1, <2>2, StampedIs
  <1>5. Apart(old, end)
    <2>1. \A x : x \in 1..made => x \notin (made + 1)..made'
      BY <1>1
    <2> QED BY <2>1, <1>2, <1>4 DEF Apart
  <1>6. new \in Seq(Event) /\ new # <<>>
    <2>1. new \in Seq(Event) /\ Len(new) = Len(old) + 1 /\ Len(old) \in Nat
      <3>1. Len(old) \in Nat
        BY <1>2
      <3>2. old \o end \in Seq(Event) /\ Len(old \o end) = Len(old) + Len(end)
        BY <1>2, <1>4, ConcatProperties
      <3> QED BY <1>4, <3>1, <3>2
    <2> QED BY <2>1
  <1>7. Told(new) /\ \A x \in IdsIn(new) : x \in IdsIn(old) \/ x \in (made + 1)..made'
    <2>1. IdsIn(new) = IdsIn(old) \cup IdsIn(end)
      BY <1>2, <1>4, JoinedTold
    <2>2. Told(new)
      BY <1>2, <1>4, <1>5, JoinedTold
    <2> QED BY <2>1, <2>2, <1>4
  <1>8. /\ DOMAIN buffer' = DOMAIN buffer \ {t}
        /\ \A u \in DOMAIN buffer' : u # t => buffer'[u] = buffer[u]
        /\ transit' = transit \cup {new}
        /\ ReceiverStays
    BY <1>1 DEF Shutdown, Restrict
  <1> QED BY <1>1, <1>3, <1>6, <1>7, <1>8, PageStep

LEMMA PagesStep ==
  ASSUME RumInv
  PROVE  /\ Tick => RumInv'
         /\ \A t \in Tab : InitRum(t) \/ (\E error \in BOOLEAN : Record1(t, error)) => RumInv'
         /\ \A b \in transit : Lose(b) => RumInv'
  <1>1. made \in 0..MaxEvents /\ made <= made /\ millis \in 0..MaxMillis /\ MaxMillis \in Nat
        /\ DOMAIN buffer \subseteq Tab /\ <<>> \notin transit
    BY RumAssumption DEF RumInv, RumTyped, RumAssumption
  <1>2. ASSUME made' = made, buffer' = buffer, transit' \subseteq transit, ReceiverStays PROVE Waiting'
    <2>1. \A x : Known(x)' <=> Known(x)
      BY <1>2 DEF ReceiverStays, Known, Line, Dirs, EventsOf
    <2>2. \A s : Fresh(s) => FreshNext(s)
      BY <1>2, <2>1 DEF Fresh, FreshNext
    <2> QED BY <1>2, <2>2, WaitingNext DEF RumInv, Waiting
  <1>3. ASSUME Tick PROVE RumInv'
    <2>1. millis' \in 0..MaxMillis /\ made' = made /\ buffer' = buffer /\ transit' = transit /\ ReceiverStays
      BY <1>1, <1>3 DEF Tick
    <2> QED BY <1>1, <1>2, <2>1, StoreStays
  <1>4. ASSUME NEW b, Lose(b) PROVE RumInv'
    <2>1. millis' = millis /\ made' = made /\ buffer' = buffer /\ transit' \subseteq transit /\ ReceiverStays
      BY <1>4 DEF Lose
    <2> QED BY <1>1, <1>2, <2>1, StoreStays
  <1>5. ASSUME NEW t \in Tab, InitRum(t) PROVE RumInv'
    <2>1. <<FALSE, FALSE>> \in Seq(BOOLEAN) /\ <<FALSE, FALSE>> # <<>>
      OBVIOUS
    <2>2. t \notin DOMAIN buffer /\ Emit(t, <<>>, <<FALSE, FALSE>>) /\ ReceiverStays
      BY <1>5 DEF InitRum
    <2> QED BY <2>1, <2>2, EmitSteps
  <1>6. ASSUME NEW t \in Tab, NEW error \in BOOLEAN, Record1(t, error) PROVE RumInv'
    <2>1. <<error>> \in Seq(BOOLEAN) /\ <<error>> # <<>>
      OBVIOUS
    <2>2. t \in DOMAIN buffer /\ Emit(t, buffer[t], <<error>>) /\ ReceiverStays
      BY <1>6 DEF Record1
    <2> QED BY <2>1, <2>2, EmitSteps
  <1> QED BY <1>3, <1>4, <1>5, <1>6
\* A step of the receiver: what waits goes on waiting.
LEMMA WaitingOn ==
  ASSUME RumInv, PagesStay, transit' \subseteq transit, NEW gone,
         \A x : Known(x)' => Known(x) \/ x \in gone,
         \A t \in DOMAIN buffer : \A x \in IdsIn(buffer[t]) : x \notin gone,
         \A b \in transit' : \A x \in IdsIn(b) : x \notin gone
  PROVE  Waiting'
  <1>1. buffer' = buffer /\ made' = made /\ Waiting
    BY DEF PagesStay, RumInv
  <1>2. ASSUME NEW s, Fresh(s), \A x \in IdsIn(s) : x \notin gone PROVE FreshNext(s)
    BY <1>1, <1>2 DEF Fresh, FreshNext
  <1>3. /\ \A t \in DOMAIN buffer' : FreshNext(buffer'[t])
        /\ \A b \in transit' : FreshNext(b)
    BY <1>1, <1>2 DEF Waiting
  <1> QED BY <1>1, <1>3, WaitingNext DEF Waiting

LEMMA AckFinite ==
  ASSUME RumInv
  PROVE  IsFiniteSet(acknowledged) /\ IsFiniteSet(Lost) /\ Cardinality(Lost) \in Nat
         /\ Cardinality(acknowledged) \in Nat /\ Cardinality(acknowledged) <= made
         /\ Lost = acknowledged \ (IdsIn(Line) \cup Baked \cup replaced)
  <1>1. made \in Nat /\ acknowledged \subseteq 1..made
    BY DEF RumInv, RumTyped, Recorded, Known
  <1>2. IsFiniteSet(1..made) /\ Cardinality(1..made) = made
    BY <1>1, FS_Interval
  <1>3. IsFiniteSet(acknowledged) /\ Cardinality(acknowledged) <= made
    BY <1>1, <1>2, FS_Subset
  <1>4. IsFiniteSet(Lost)
    BY <1>3, FS_Subset DEF Lost
  <1>5. 0 \notin acknowledged
    BY <1>1
  <1>6. Lost = acknowledged \ (IdsIn(Line) \cup Baked \cup replaced)
    BY <1>5, InboxFacts DEF RumInv, Lost
  <1> QED BY <1>3, <1>4, <1>6, FS_CardinalityType

\* A set that gains no element, or just one.
LEMMA AtMostOneMore ==
  ASSUME NEW S, IsFiniteSet(S), NEW T, NEW one, \A x \in T : x \in S \/ x = one
  PROVE  /\ IsFiniteSet(T) /\ Cardinality(T) \in Nat /\ Cardinality(S) \in Nat
         /\ Cardinality(T) <= Cardinality(S) + 1
         /\ (\A x \in T : x \in S) => Cardinality(T) <= Cardinality(S)
  <1>1. IsFiniteSet(S \cup {one}) /\ Cardinality(S) \in Nat
        /\ Cardinality(S \cup {one}) \in {Cardinality(S), Cardinality(S) + 1}
    BY FS_AddElement, FS_CardinalityType
  <1>2. T \subseteq S \cup {one}
    OBVIOUS
  <1>3. IsFiniteSet(T) /\ Cardinality(T) <= Cardinality(S \cup {one})
    BY <1>1, <1>2, FS_Subset
  <1>4. Cardinality(T) \in Nat
    BY <1>3, FS_CardinalityType
  <1>5. ASSUME \A x \in T : x \in S PROVE Cardinality(T) <= Cardinality(S)
    <2>1. T \subseteq S
      BY <1>5
    <2> QED BY <2>1, FS_Subset
  <1> QED BY <1>1, <1>3, <1>4, <1>5

\* What a run's directory holds is what was known.
LEMMA DirsTyped ==
  ASSUME RumInv
  PROVE  \A d \in Dirs : EventsOf(d) \in Seq(Event) /\ (Rebakes(d) => d = RunId(Line))
  BY DEF RumInv, RumTyped, EventsOf, Rebakes, Underway, Line

\* The receiver turns to something else.
LEMMA TurnSteps ==
  ASSUME RumInv, PagesStay, UNCHANGED <<transit, inbox, runDirs, acknowledged, replaced>>,
         counted' \in Nat, counted' <= counted, kills' \in {kills, kills + 1}, kills' <= MaxKills,
         receiver' \in Baking \cup {"serve", "down"}, closing' \in BOOLEAN,
         kills' = 0 => \A d : Rebakes(d) => Rebakes(d)',
         Proceeds', Drains'
  PROVE  RumInv'
  <1>1. /\ \A x : Known(x)' <=> Known(x)
        /\ \A e : Keeps(e)' <=> Keeps(e)
        /\ Line' = Line /\ Half' = Half /\ AnySloppy' = AnySloppy
    BY DEF Known, Keeps, Line, Half, Dirs, EventsOf, AnySloppy
  <1>2. kills \in Nat /\ counted \in Nat /\ kills \in 0..MaxKills /\ MaxKills \in Nat
    BY RumAssumption DEF RumInv, RumTyped, RumAssumption
  <1>3. kills' \in 0..MaxKills /\ kills <= kills' /\ (kills' = 0 => kills = 0)
    BY <1>2
  <1>4. RumTyped'
    BY <1>3 DEF RumInv, RumTyped, Dirs, PagesStay
  <1>5. Waiting'
    <2> PICK none : none = {}
      OBVIOUS
    <2>1. /\ \A x : Known(x)' => Known(x) \/ x \in none
          /\ \A t \in DOMAIN buffer : \A x \in IdsIn(buffer[t]) : x \notin none
          /\ \A b \in transit' : \A x \in IdsIn(b) : x \notin none
          /\ transit' \subseteq transit
      BY <1>1
    <2> QED BY <2>1, WaitingOn
  <1>6. Recorded'
    BY <1>1 DEF RumInv, Recorded, Dirs, EventsOf, PagesStay
  <1>7. Accounted'
    <2>1. Lost' = Lost /\ Cardinality(Lost) \in Nat /\ Cardinality(acknowledged) \in Nat
      BY AckFinite DEF Lost, Baked, Dirs, EventsOf, Complete
    <2>2. Cardinality(Lost) + (IF Half THEN 1 ELSE 0) <= kills /\ counted <= Cardinality(acknowledged)
      BY DEF RumInv, Accounted
    <2>3. Cardinality(Lost) + (IF Half THEN 1 ELSE 0) <= kills'
      BY <2>1, <2>2, <1>2, <1>3
    <2>4. counted' <= Cardinality(acknowledged)
      BY <2>1, <2>2, <1>2
    <2> QED BY <2>1, <2>3, <2>4, <1>1 DEF Accounted
  <1>8. Dirs' = Dirs /\ \A d : EventsOf(d)' = EventsOf(d) /\ (Complete(d)' <=> Complete(d))
                            /\ (FitsRun(d)' <=> FitsRun(d))
    BY DEF Dirs, EventsOf, Complete, FitsRun
  <1>9. Unique'
    BY <1>1, <1>3, <1>8 DEF RumInv, Unique, Apart, IdsIn
  <1>10. Summed'
    BY <1>3, <1>8 DEF RumInv, Summed
  <1> QED BY <1>4, <1>5, <1>6, <1>7, <1>9, <1>10 DEF RumInv

LEMMA TurnsStep ==
  ASSUME RumInv
  PROVE  AskBake \/ Serve => RumInv'
  <1>1. counted \in Nat /\ 0 \in Nat /\ 0 <= counted /\ kills \in Nat /\ kills <= MaxKills
        /\ Threshold \in Nat \ {0}
    BY RumAssumption DEF RumInv, RumTyped, RumAssumption
  <1>2. ASSUME AskBake PROVE RumInv'
    <2>1. /\ PagesStay /\ UNCHANGED <<transit, inbox, counted, closing, runDirs, kills, acknowledged, replaced>>
          /\ receiver = "serve" /\ receiver' = "bake"
      BY <1>2 DEF AskBake
    <2>2. Proceeds' /\ receiver' \in Baking \cup {"serve", "down"} /\ closing' \in BOOLEAN
      BY <2>1 DEF Proceeds, Baking, RumInv, RumTyped
    <2>3. \A d : ~Rebakes(d)
      BY <2>1 DEF Rebakes, Underway, Baking
    <2>4. Drains'
      BY <2>1 DEF RumInv, Drains, AnySloppy, Baking
    <2> QED BY <1>1, <2>1, <2>2, <2>3, <2>4, TurnSteps
  <1>3. ASSUME Serve PROVE RumInv'
    <2>1. /\ PagesStay /\ UNCHANGED <<transit, inbox, runDirs, kills, acknowledged, replaced>>
          /\ receiver = "down" /\ receiver' = "serve" /\ closing' = FALSE /\ counted' = 0
      BY <1>3 DEF Serve
    <2>2. Proceeds' /\ receiver' \in Baking \cup {"serve", "down"} /\ closing' \in BOOLEAN
      BY <2>1 DEF Proceeds, Baking, RumInv, RumTyped
    <2>3. \A d : ~Rebakes(d)
      BY <2>1 DEF Rebakes, Underway, Baking
    <2>4. Drains'
      <3>1. kills = 0 /\ ~AnySloppy => inbox = <<>>
        BY <2>1 DEF RumInv, Drains
      <3>2. Len(<<>>) = 0 /\ 0 < Threshold
        BY <1>1
      <3>3. kills = 0 /\ ~AnySloppy => 0 = Len(inbox)
        BY <3>1, <3>2
      <3> QED BY <2>1, <3>2, <3>3 DEF Drains, AnySloppy, Baking
    <2> QED BY <1>1, <2>1, <2>2, <2>3, <2>4, TurnSteps
  <1> QED BY <1>2, <1>3
\* The receiver puts events of a batch, all or the first, into the inbox.
LEMMA BatchSteps ==
  ASSUME RumInv, PagesStay, receiver = "serve", NEW b \in transit, transit' = transit \ {b},
         NEW lines \in Seq(Event), NEW half \in BOOLEAN, Told(lines), \A x \in IdsIn(lines) : x \in IdsIn(b),
         inbox' = After(inbox, lines \o IF half THEN <<Torn>> ELSE <<>>),
         UNCHANGED <<runDirs, replaced>>, counted' \in Nat, counted' <= Cardinality(acknowledged'),
         \A x \in acknowledged : x \in acknowledged',
         \A x \in acknowledged' : x \in acknowledged \/ x \in IdsIn(lines),
         kills' = kills + (IF half THEN 1 ELSE 0), kills' <= MaxKills,
         receiver' \in {"serve", "bake", "down"}, closing' \in BOOLEAN
  PROVE  /\ Drains' => RumInv'
         /\ AnySloppy => AnySloppy'
         /\ kills' = 0 => inbox' = inbox \o lines /\ inbox \in Seq(Event)
  <1>1. /\ Line \in Seq(Event) /\ Told(Line) /\ RumTyped /\ Waiting /\ Recorded /\ Half \in BOOLEAN
        /\ kills \in 0..MaxKills /\ MaxKills \in Nat
    BY InboxFacts, RumAssumption DEF RumInv, RumTyped, Recorded, RumAssumption
  <1>2. PICK kept \in Seq(Event) :
           /\ Line' = Line \o kept
           /\ inbox' = IF Half' THEN Append(Line', Torn) ELSE Line'
           /\ Half' <=> half \/ (Half /\ lines = <<>>)
           /\ kept = lines \/ (Half /\ lines # <<>> /\ kept = Tail(lines))
    BY <1>1, AfterIs
  <1>3. /\ Told(kept) /\ \A x \in IdsIn(kept) : x \in IdsIn(lines)
        /\ lines # <<>> => IdsIn(lines) = IdsIn(Tail(lines)) \cup {lines[1].id}
    BY <1>2, TailTold
  <1>4. Fresh(b) /\ \A x \in IdsIn(b) : x \in 1..made /\ ~Known(x)
    BY <1>1 DEF Waiting, Fresh
  <1>5. \A x \in IdsIn(lines) : x \in 1..made /\ ~Known(x)
    BY <1>4
  <1>6. Apart(Line, kept)
    BY <1>3, <1>5 DEF Apart, Known
  <1>7. /\ Line' \in Seq(Event) /\ Told(Line')
        /\ IdsIn(Line') = IdsIn(Line) \cup IdsIn(kept)
        /\ ToSet(Line') = ToSet(Line) \cup ToSet(kept)
    <2>1. Line \o kept \in Seq(Event) /\ ToSet(Line \o kept) = ToSet(Line) \cup ToSet(kept)
      BY <1>1, JoinedSet
    <2> PICK all : all = Line \o kept
      OBVIOUS
    <2>2. IdsIn(all) = IdsIn(Line) \cup IdsIn(kept)
      BY <1>1, JoinedTold
    <2>3. Told(all)
      BY <1>1, <1>3, <1>6, JoinedTold
    <2> QED BY <1>2, <2>1, <2>2, <2>3
  <1>8. /\ Dirs' = Dirs /\ \A d : EventsOf(d)' = EventsOf(d) /\ (Complete(d)' <=> Complete(d))
                            /\ (FitsRun(d)' <=> FitsRun(d))
        /\ Baked' = Baked
    BY DEF Dirs, EventsOf, Complete, FitsRun, Baked
  <1>9. Told(Line)' /\ IdsIn(Line)' = IdsIn(Line') /\ ToSet(Line)' = ToSet(Line')
    BY <1>7 DEF Told, IdsIn
  <1>10. ToSet(Line') \subseteq ToSet(inbox')
    <2> PICK all \in Seq(Event) : all = Line'
      BY <1>7
    <2>1. ToSet(Append(all, Torn)) = ToSet(all) \cup {Torn}
      BY PushedSet
    <2> QED BY <2>1, <1>2
  <1>11. \A x : Known(x)' => Known(x) \/ x \in IdsIn(lines)
    BY <1>3, <1>7, <1>8, <1>9 DEF Known
  <1>12. Waiting'
    <2>1. transit' \subseteq transit
      OBVIOUS
    <2>2. /\ \A t \in DOMAIN buffer : \A x \in IdsIn(buffer[t]) : x \notin IdsIn(lines)
          /\ \A c \in transit' : \A x \in IdsIn(c) : x \notin IdsIn(lines)
      BY <1>1 DEF Waiting, Apart
    <2> PICK gone : gone = IdsIn(lines)
      OBVIOUS
    <2> QED BY <2>1, <2>2, <1>11, WaitingOn
  <1>13. RumTyped'
    <2>1. \E p \in Seq(Event) : inbox' \in {p, Append(p, Torn)}
      BY <1>2, <1>7
    <2>2. kills' \in 0..MaxKills
      BY <1>1
    <2> QED BY <1>1, <2>1, <2>2 DEF RumTyped, PagesStay, Dirs, Baking
  <1>14. Recorded'
    <2>1. \A x : (Known(x) \/ x \in replaced)' => x \in 1..made
      BY <1>1, <1>5, <1>11 DEF Recorded
    <2>2. \A e : Keeps(e)' => Keeps(e) \/ e \in ToSet(kept)
      BY <1>7, <1>8, <1>9 DEF Keeps
    <2>3. \A e : Keeps(e) => Known(e.id)
      BY DEF Keeps, Known, IdsIn
    <2>4. \A e \in ToSet(kept) : e.id \in IdsIn(kept)
      BY DEF IdsIn
    <2>5. \A e, f \in ToSet(kept) : e.id = f.id => e = f
      <3>1. \A e : e \in ToSet(kept) <=> \E i \in 1..Len(kept) : kept[i] = e
        BY SetOfSeq
      <3>2. \A i, j \in 1..Len(kept) : kept[i].id = kept[j].id => i = j
        BY <1>3, IdsOf
      <3> QED BY <3>1, <3>2
    <2>6. ASSUME NEW e, NEW f, Keeps(e)', Keeps(f)', e.id = f.id PROVE e = f
      <3>1. CASE Keeps(e) /\ Keeps(f)
        BY <3>1, <2>6, <1>1 DEF Recorded
      <3>2. CASE e \in ToSet(kept) /\ f \in ToSet(kept)
        BY <3>2, <2>5, <2>6
      <3>3. \A h, g : h \in ToSet(kept) /\ Keeps(g) => h.id # g.id
        BY <2>3, <2>4, <1>3, <1>5
      <3> QED BY <3>1, <3>2, <3>3, <2>2, <2>6
    <2>7. \A d \in Dirs' : EventsOf(d)' # <<>> /\ Told(EventsOf(d))' /\ d = RunId(EventsOf(d))'
      BY <1>1, <1>8 DEF Recorded, Told, RunId
    <2>8. made' = made
      BY DEF PagesStay
    <2> QED BY <1>7, <1>9, <2>1, <2>6, <2>7, <2>8 DEF Recorded
  <1>15. Proceeds'
    BY DEF Proceeds
  <1>16. Accounted'
    <2>1. /\ IsFiniteSet(Lost) /\ Cardinality(Lost) \in Nat
          /\ Lost = acknowledged \ (IdsIn(Line) \cup Baked \cup replaced)
      BY AckFinite
    <2>2. \A x \in Lost' : x \in Lost \/ (x \in IdsIn(lines) /\ x \notin IdsIn(kept))
      <3> TAKE x \in Lost'
      <3>1. x \in acknowledged' /\ x \notin IdsIn(inbox') /\ x \notin Baked /\ x \notin replaced
        BY <1>8 DEF Lost, IdsIn
      <3>2. \A y \in IdsIn(Line') : y \in IdsIn(inbox')
        BY <1>10 DEF IdsIn
      <3>3. x \notin IdsIn(Line) /\ x \notin IdsIn(kept)
        BY <3>1, <3>2, <1>7
      <3> QED BY <2>1, <3>1, <3>3
    <2>3. Cardinality(Lost) + (IF Half THEN 1 ELSE 0) <= kills
      BY DEF RumInv, Accounted
    <2>4. CASE kept = lines
      <3>1. \A x \in Lost' : x \in Lost
        BY <2>2, <2>4
      <3>2. Cardinality(Lost') <= Cardinality(Lost) /\ Cardinality(Lost') \in Nat
        BY <2>1, <3>1, AtMostOneMore
      <3>3. Cardinality(Lost') + (IF Half' THEN 1 ELSE 0) <= kills'
        BY <3>2, <2>1, <2>3, <1>1, <1>2
      <3> QED BY <3>3 DEF Accounted
    <2>5. CASE Half /\ lines # <<>> /\ kept = Tail(lines)
      <3> PICK one : one = lines[1].id
        OBVIOUS
      <3>1. \A x \in Lost' : x \in Lost \/ x = one
        BY <2>2, <2>5, <1>3
      <3>2. Cardinality(Lost') <= Cardinality(Lost) + 1 /\ Cardinality(Lost') \in Nat
        BY <2>1, <3>1, AtMostOneMore
      <3>3. Cardinality(Lost') + (IF Half' THEN 1 ELSE 0) <= kills'
        BY <3>2, <2>1, <2>3, <2>5, <1>1, <1>2
      <3> QED BY <3>3 DEF Accounted
    <2> QED BY <2>4, <2>5, <1>2
  <1>17. \A d : ~Rebakes(d)
    BY DEF Rebakes, Underway, Baking
  <1>18. kills' = 0 => kills = 0
    BY <1>1
  <1>19. Unique'
    <2>1. ASSUME kills = 0, NEW d \in Dirs PROVE Apart(EventsOf(d), Line')
      <3>1. Apart(EventsOf(d), Line)
        BY <2>1, <1>17 DEF RumInv, Unique
      <3>2. \A x \in IdsIn(EventsOf(d)) : x \notin IdsIn(kept)
        BY <1>3, <1>5 DEF Known
      <3> QED BY <3>1, <3>2, <1>7 DEF Apart
    <2>2. \A s, t : Apart(s, t)' <=> Apart(s, t)
      BY DEF Apart, IdsIn
    <2>3. kills = 0 => \A c, d \in Dirs : c # d => Apart(EventsOf(c), EventsOf(d))
      BY DEF RumInv, Unique
    <2> QED BY <1>8, <1>18, <2>1, <2>3 DEF Unique, Apart, IdsIn
  <1>20. Summed'
    BY <1>8, <1>17, <1>18 DEF RumInv, Summed
  <1>21. AnySloppy => AnySloppy'
    <2>1. AnySloppy <=> \E e \in ToSet(Line) : e.sloppy
      BY <1>1, InboxFacts
    <2> QED BY <1>7, <1>10, <2>1 DEF AnySloppy
  <1>22. kills' = 0 => inbox' = inbox \o lines /\ inbox \in Seq(Event)
    <2>1. kills = 0 => ~Half
      <3>1. Cardinality(Lost) + (IF Half THEN 1 ELSE 0) <= kills /\ Cardinality(Lost) \in Nat
        BY AckFinite DEF RumInv, Accounted
      <3> QED BY <3>1, <1>1
    <2>2. kills' = 0 => ~half
      BY <1>1
    <2>3. ~Half => inbox = Line
      BY DEF Half
    <2> QED BY <1>1, <1>2, <1>18, <2>1, <2>2, <2>3
  <1> QED BY <1>12, <1>13, <1>14, <1>15, <1>16, <1>19, <1>20, <1>21, <1>22 DEF RumInv
LEMMA ReceiveSteps ==
  ASSUME RumInv, NEW b \in transit, Receive(b)
  PROVE  RumInv'
  <1>1. Waiting /\ RumTyped /\ Accounted /\ Drains /\ counted \in Nat
        /\ kills \in 0..MaxKills /\ MaxKills \in Nat
    BY RumAssumption DEF RumInv, RumTyped, RumAssumption
  <1>2. /\ receiver = "serve" /\ transit' = transit \ {b} /\ inbox' = After(inbox, b)
        /\ counted' = counted + Len(b) /\ acknowledged' = acknowledged \cup IdsIn(b)
        /\ receiver' = IF counted' >= Threshold THEN "bake" ELSE "serve"
        /\ PagesStay /\ UNCHANGED <<closing, runDirs, kills, replaced>>
    BY DEF Receive, IdsIn
  <1>3. b \in Seq(Event) /\ Told(b) /\ \A x \in IdsIn(b) : x \notin acknowledged
    BY <1>1 DEF Waiting, Fresh, Known
  <1>4. Len(b) \in Nat /\ counted' \in Nat
    BY <1>1, <1>2, <1>3, SetOfSeq
  <1>5. counted' <= Cardinality(acknowledged')
    <2>1. IsFiniteSet(acknowledged) /\ Cardinality(acknowledged) \in Nat
      BY AckFinite
    <2>2. IsFiniteSet(IdsIn(b)) /\ Cardinality(IdsIn(b)) = Len(b)
      BY <1>3, Counting
    <2>3. acknowledged \cap IdsIn(b) = {}
      BY <1>3
    <2>4. Cardinality(acknowledged \cup IdsIn(b)) = Cardinality(acknowledged) + Len(b)
      <3>1. Cardinality(acknowledged \cup IdsIn(b)) =
              Cardinality(acknowledged) + Cardinality(IdsIn(b)) - Cardinality(acknowledged \cap IdsIn(b))
        BY <2>1, <2>2, FS_Union
      <3>2. Cardinality(acknowledged \cap IdsIn(b)) = 0
        BY <2>3, FS_EmptySet
      <3> QED BY <3>1, <3>2, <2>1, <2>2, <1>4
    <2>5. counted <= Cardinality(acknowledged)
      BY <1>1 DEF Accounted
    <2> QED BY <2>1, <2>4, <2>5, <1>1, <1>2, <1>4
  <1> PICK half : half = FALSE
    OBVIOUS
  <1>6. inbox' = After(inbox, b \o IF half THEN <<Torn>> ELSE <<>>)
    BY <1>2, <1>3, ConcatEmptySeq
  <1>7. /\ kills' = kills + (IF half THEN 1 ELSE 0) /\ kills' <= MaxKills
        /\ receiver' \in {"serve", "bake", "down"} /\ closing' \in BOOLEAN
    BY <1>1, <1>2 DEF RumTyped
  <1>8. /\ Drains' => RumInv'
        /\ AnySloppy => AnySloppy'
        /\ kills' = 0 => inbox' = inbox \o b /\ inbox \in Seq(Event)
    <2>1. /\ \A x \in IdsIn(b) : x \in IdsIn(b)
          /\ \A x \in acknowledged : x \in acknowledged'
          /\ \A x \in acknowledged' : x \in acknowledged \/ x \in IdsIn(b)
          /\ half \in BOOLEAN
      BY <1>2
    <2> QED BY <1>2, <1>3, <1>4, <1>5, <1>6, <1>7, <2>1, BatchSteps
  <1>9. Drains'
    <2>1. kills' = 0 => Len(inbox') = Len(inbox) + Len(b)
      BY <1>3, <1>8, JoinedSet
    <2>2. closing = FALSE
      BY <1>1, <1>2 DEF Drains, Baking, RumTyped
    <2>3. receiver' = "serve" => counted' < Threshold
      BY <1>2, <1>4, RumAssumption DEF RumAssumption
    <2>4. ~AnySloppy' /\ kills' = 0 => counted' = Len(inbox')
      BY <1>1, <1>2, <1>8, <2>1, <2>2 DEF Drains
    <2> QED BY <1>2, <2>2, <2>3, <2>4 DEF Drains
  <1> QED BY <1>8, <1>9

LEMMA StopSteps ==
  ASSUME RumInv
  PROVE  Interrupt \/ KillReceiver => RumInv'
  <1>1. /\ Waiting /\ RumTyped /\ Drains /\ counted \in Nat
        /\ counted <= counted /\ counted <= Cardinality(acknowledged)
        /\ kills \in 0..MaxKills /\ MaxKills \in Nat
    BY RumAssumption DEF RumInv, RumTyped, RumAssumption, Accounted
  <1>2. ASSUME Interrupt \/ KillReceiver, NEW half \in BOOLEAN, half <=> ~Interrupt
        PROVE  /\ CutOff(IF half THEN <<Torn>> ELSE <<>>)
               /\ kills' = kills + (IF half THEN 1 ELSE 0) /\ kills' \in {kills, kills + 1} /\ kills' <= MaxKills
               /\ receiver' = (IF half THEN "down" ELSE "bake") /\ closing' = ~half
               /\ PagesStay /\ UNCHANGED <<counted, runDirs, acknowledged, replaced>>
    <2>1. CASE Interrupt
      <3>1. half = FALSE /\ kills' = kills /\ kills + 0 = kills
        BY <1>1, <1>2, <2>1 DEF Interrupt
      <3>2. kills <= MaxKills
        BY <1>1
      <3>3. /\ CutOff(<<>>) /\ receiver' = "bake" /\ closing' = TRUE
            /\ PagesStay /\ UNCHANGED <<counted, runDirs, acknowledged, replaced>>
        BY <2>1 DEF Interrupt
      <3>4. CutOff(IF half THEN <<Torn>> ELSE <<>>)
        BY <3>1, <3>3
      <3> QED BY <3>1, <3>2, <3>3, <3>4
    <2>2. CASE ~Interrupt /\ KillReceiver
      <3>1. half = TRUE /\ kills' = kills + 1 /\ kills < MaxKills
        BY <1>2, <2>2 DEF KillReceiver
      <3>2. kills + 1 <= MaxKills
        BY <1>1, <3>1
      <3> QED BY <2>2, <3>1, <3>2 DEF KillReceiver
    <2> QED BY <1>2, <2>1, <2>2
  <1>3. ASSUME Interrupt \/ KillReceiver PROVE RumInv'
    <2> PICK half \in BOOLEAN : half <=> ~Interrupt
      OBVIOUS
    <2>1. /\ CutOff(IF half THEN <<Torn>> ELSE <<>>)
          /\ kills' = kills + (IF half THEN 1 ELSE 0) /\ kills' \in {kills, kills + 1} /\ kills' <= MaxKills
          /\ receiver' = (IF half THEN "down" ELSE "bake") /\ closing' = ~half
          /\ PagesStay /\ UNCHANGED <<counted, runDirs, acknowledged, replaced>>
      BY <1>2, <1>3
    <2>2. Proceeds' /\ receiver' \in Baking \cup {"serve", "down"} /\ closing' \in BOOLEAN
          /\ receiver' \in {"serve", "bake", "down"}
      BY <2>1 DEF Proceeds, Baking
    <2>3. Drains'
      <3>1. kills' = 0 => ~half
        BY <1>1, <2>1
      <3> QED BY <2>1, <3>1 DEF Drains, Baking
    <2>4. CASE UNCHANGED <<transit, inbox>>
      <3>1. kills' = 0 => ~half
        BY <1>1, <2>1
      <3>2. kills' = 0 => \A d : Rebakes(d) => Rebakes(d)'
        BY <2>1, <2>4, <3>1 DEF Rebakes, Underway, Baking, AnySloppy
      <3> QED BY <1>1, <2>1, <2>2, <2>3, <2>4, <3>2, TurnSteps
    <2>5. ASSUME receiver = "serve", NEW b \in transit, NEW n \in 0..(Len(b) - 1), transit' = transit \ {b},
                 inbox' = After(inbox, SubSeq(b, 1, n) \o (IF half THEN <<Torn>> ELSE <<>>))
          PROVE  RumInv'
      <3>1. b \in Seq(Event) /\ Told(b)
        BY <1>1 DEF Waiting, Fresh
      <3>2. n \in 0..Len(b)
        BY <3>1, SetOfSeq
      <3> PICK lines : lines = SubSeq(b, 1, n)
        OBVIOUS
      <3>3. lines \in Seq(Event) /\ Told(lines) /\ \A x \in IdsIn(lines) : x \in IdsIn(b)
        BY <3>1, <3>2, PrefixTold
      <3>4. inbox' = After(inbox, lines \o IF half THEN <<Torn>> ELSE <<>>)
        BY <2>5
      <3>5. /\ \A x \in acknowledged : x \in acknowledged'
            /\ \A x \in acknowledged' : x \in acknowledged \/ x \in IdsIn(lines)
            /\ counted' \in Nat /\ counted' <= Cardinality(acknowledged')
        BY <1>1, <2>1
      <3> QED BY <2>1, <2>2, <2>3, <2>5, <3>3, <3>4, <3>5, BatchSteps
    <2> QED BY <2>1, <2>4, <2>5 DEF CutOff
  <1> QED BY <1>3
\* The inbox is unlinked: what it held is in a run, or there was nothing.
LEMMA EmptiedSteps ==
  ASSUME RumInv, PagesStay, Emptied, UNCHANGED <<transit, closing, runDirs, kills, acknowledged, replaced>>,
         \A d \in Dirs : Rebakes(d) => FitsRun(d), \A x \in IdsIn(Line) : x \in Baked
  PROVE  RumInv'
  <1>1. /\ inbox' = <<>> /\ counted' = 0 /\ receiver' = IF closing THEN "down" ELSE "serve"
        /\ closing \in BOOLEAN /\ Half \in BOOLEAN /\ kills \in 0..MaxKills /\ MaxKills \in Nat
        /\ 0 < Threshold
    BY InboxFacts, RumAssumption DEF RumInv, RumTyped, Emptied, Finished, RumAssumption
  <1>2. Line' = <<>> /\ IdsIn(Line)' = {} /\ ToSet(Line)' = {} /\ Half' = FALSE /\ ~AnySloppy'
    BY <1>1, NothingIn DEF Line, Parsed, Half, AnySloppy, IdsIn
  <1>3. /\ Dirs' = Dirs /\ \A d : EventsOf(d)' = EventsOf(d) /\ (Complete(d)' <=> Complete(d))
                            /\ (FitsRun(d)' <=> FitsRun(d))
        /\ Baked' = Baked
    BY DEF Dirs, EventsOf, Complete, FitsRun, Baked
  <1>4. \A x : Known(x)' => Known(x)
    BY <1>2, <1>3 DEF Known
  <1>5. \A e : Keeps(e)' => Keeps(e)
    BY <1>2, <1>3 DEF Keeps
  <1>6. Waiting'
    <2> PICK none : none = {}
      OBVIOUS
    <2>1. /\ \A x : Known(x)' => Known(x) \/ x \in none
          /\ \A t \in DOMAIN buffer : \A x \in IdsIn(buffer[t]) : x \notin none
          /\ \A b \in transit' : \A x \in IdsIn(b) : x \notin none
          /\ transit' \subseteq transit
      BY <1>4
    <2> QED BY <2>1, WaitingOn
  <1>7. RumTyped'
    BY <1>1, NothingIn DEF RumInv, RumTyped, PagesStay, Dirs
  <1>8. Recorded'
    <2>1. made' = made /\ Recorded
      BY DEF PagesStay, RumInv
    <2>2. \A d \in Dirs' : EventsOf(d)' # <<>> /\ Told(EventsOf(d))' /\ d = RunId(EventsOf(d))'
      BY <2>1, <1>3 DEF Recorded, Told, RunId
    <2>3. Told(Line)'
      BY <1>2, NothingIn DEF Told
    <2> QED BY <1>4, <1>5, <2>1, <2>2, <2>3 DEF Recorded
  <1>9. Proceeds' /\ Drains'
    <2>1. 0 = Len(<<>>)
      OBVIOUS
    <2> QED BY <1>1, <2>1 DEF Proceeds, Drains, Baking
  <1>10. Accounted'
    <2>1. /\ IsFiniteSet(Lost) /\ Cardinality(Lost) \in Nat /\ Cardinality(acknowledged) \in Nat
          /\ Lost = acknowledged \ (IdsIn(Line) \cup Baked \cup replaced)
      BY AckFinite
    <2>2. \A x \in Lost' : x \in Lost
      BY <2>1, <1>3 DEF Lost, IdsIn
    <2>3. Cardinality(Lost') <= Cardinality(Lost) /\ Cardinality(Lost') \in Nat
      BY <2>1, <2>2, AtMostOneMore
    <2>4. Cardinality(Lost) + (IF Half THEN 1 ELSE 0) <= kills
      BY DEF RumInv, Accounted
    <2> QED BY <1>1, <1>2, <2>1, <2>3, <2>4 DEF Accounted
  <1>11. Unique'
    <2>1. kills = 0 => \A c, d \in Dirs : c # d => Apart(EventsOf(c), EventsOf(d))
      BY DEF RumInv, Unique
    <2> QED BY <1>2, <1>3, <2>1 DEF Unique, Apart, IdsIn
  <1>12. Summed'
    BY <1>3 DEF RumInv, Summed
  <1> QED BY <1>6, <1>7, <1>8, <1>9, <1>10, <1>11, <1>12 DEF RumInv

LEMMA ReadInboxSteps ==
  ASSUME RumInv, ReadInbox
  PROVE  RumInv'
  <1>1. /\ receiver = "bake" /\ PagesStay
        /\ UNCHANGED <<transit, closing, runDirs, kills, acknowledged, replaced>>
    BY DEF ReadInbox
  <1>2. /\ RumTyped /\ Drains /\ counted \in Nat /\ counted <= counted /\ closing \in BOOLEAN
        /\ kills \in Nat /\ kills <= MaxKills /\ kills' \in {kills, kills + 1}
    BY <1>1, RumAssumption DEF RumInv, RumTyped, RumAssumption
  <1>3. CASE Line = <<>> /\ Emptied
    <2>1. \A d \in Dirs : ~Rebakes(d)
      BY <1>3 DEF Rebakes, Underway, Line
    <2>2. \A x \in IdsIn(Line) : x \in Baked
      BY <1>3, NothingIn
    <2> QED BY <1>1, <1>3, <2>1, <2>2, EmptiedSteps
  <1>4. CASE AnySloppy /\ Finished /\ UNCHANGED <<inbox, counted>>
    <2>1. receiver' \in Baking \cup {"serve", "down"} /\ Proceeds' /\ Drains'
      BY <1>1, <1>2, <1>4 DEF Finished, Proceeds, Drains, AnySloppy, Baking
    <2>2. \A d : ~Rebakes(d)
      BY <1>4 DEF Rebakes
    <2> QED BY <1>1, <1>2, <1>4, <2>1, <2>2, TurnSteps
  <1>5. CASE Line # <<>> /\ ~AnySloppy /\ receiver' = "events" /\ UNCHANGED <<inbox, counted>>
    <2>1. Proceeds' /\ receiver' \in Baking \cup {"serve", "down"}
      BY <1>5 DEF Proceeds, AnySloppy, Line, Baking
    <2>2. Drains'
      BY <1>1, <1>2, <1>5 DEF Drains, AnySloppy, Baking
    <2>3. \A d : Rebakes(d) => Rebakes(d)'
      BY <1>1, <1>5 DEF Rebakes, Underway, AnySloppy, Baking
    <2> QED BY <1>1, <1>2, <1>5, <2>1, <2>2, <2>3, TurnSteps
  <1> QED BY <1>3, <1>4, <1>5 DEF ReadInbox, Line

LEMMA UnlinkSteps ==
  ASSUME RumInv, Unlink
  PROVE  RumInv'
  <1>1. /\ receiver = "unlink" /\ Emptied /\ PagesStay
        /\ UNCHANGED <<transit, closing, runDirs, kills, acknowledged, replaced>>
    BY DEF Unlink
  <1> PICK dir : dir = RunId(Line)
    OBVIOUS
  <1>2. dir \in Dirs /\ EventsOf(dir) = Line /\ Complete(dir) /\ FitsRun(dir)
    BY <1>1 DEF RumInv, Proceeds
  <1>3. \A d \in Dirs : Rebakes(d) => FitsRun(d)
    BY <1>2, DirsTyped
  <1>4. \A x \in IdsIn(Line) : x \in Baked
    BY <1>2 DEF Baked
  <1> QED BY <1>1, <1>3, <1>4, EmptiedSteps
\* Two runs with the same id and no event of the one that the other lacks
\* have the same events.
LEMMA SameEvents ==
  ASSUME NEW s \in Seq(Event), NEW t \in Seq(Event), Told(s), Told(t), Len(s) = Len(t),
         \A x \in IdsIn(s) : x \in IdsIn(t),
         \A e \in ToSet(s), f \in ToSet(t) : e.id = f.id => e = f
  PROVE  ToSet(s) = ToSet(t)
  <1>1. /\ IsFiniteSet(IdsIn(s)) /\ Cardinality(IdsIn(s)) = Len(s)
        /\ IsFiniteSet(IdsIn(t)) /\ Cardinality(IdsIn(t)) = Len(t)
    BY Counting
  <1>2. IdsIn(s) \subseteq IdsIn(t)
    OBVIOUS
  <1>3. IdsIn(s) = IdsIn(t)
    BY <1>1, <1>2, FS_Subset
  <1>4. ASSUME NEW e \in ToSet(s) PROVE e \in ToSet(t)
    <2>1. PICK f \in ToSet(t) : f.id = e.id
      BY <1>3 DEF IdsIn
    <2> QED BY <2>1
  <1>5. ASSUME NEW f \in ToSet(t) PROVE f \in ToSet(s)
    <2>1. PICK e \in ToSet(s) : e.id = f.id
      BY <1>3 DEF IdsIn
    <2> QED BY <2>1
  <1> QED BY <1>4, <1>5

LEMMA WriteEventsSteps ==
  ASSUME RumInv, WriteEvents
  PROVE  RumInv'
  <1> PICK dir : dir = RunId(Line)
    OBVIOUS
  <1> DEFINE old == IF dir \in Dirs THEN runDirs[dir] ELSE [events |-> <<>>, run |-> NoJson]
  <1>1. /\ receiver = "events" /\ receiver' = "run" /\ PagesStay
        /\ runDirs' = Put(runDirs, dir, [old EXCEPT !.events = Line])
        /\ replaced' = replaced \cup (IdsIn(old.events) \ IdsIn(Line))
        /\ UNCHANGED <<transit, inbox, counted, closing, kills, acknowledged>>
    BY DEF WriteEvents, Line, Dirs, IdsIn
  <1>2. /\ Line \in Seq(Event) /\ Line # <<>> /\ ~AnySloppy /\ Told(Line)
        /\ RumTyped /\ Recorded /\ kills \in Nat
    BY <1>1, InboxFacts DEF RumInv, RumTyped, Recorded, Proceeds
  <1>3. old \in [events : Seq(Event), run : [count : Nat, failed : BOOLEAN]]
        /\ (dir \notin Dirs => old.events = <<>> /\ old.run = NoJson)
        /\ (dir \in Dirs => old = runDirs[dir])
    BY <1>2, NothingIn DEF RumTyped, NoJson
  <1>4. /\ Line' = Line /\ Half' = Half /\ AnySloppy' = AnySloppy /\ inbox' = inbox
    BY <1>1 DEF Line, Half, AnySloppy
  <1>5. /\ Dirs' = Dirs \cup {dir} /\ EventsOf(dir)' = Line /\ runDirs'[dir].run = old.run
        /\ \A d \in Dirs : d # dir => runDirs'[d] = runDirs[d]
    BY <1>1, <1>3 DEF Put, Dirs, EventsOf
  <1>6. /\ \A d \in Dirs : d # dir => /\ EventsOf(d)' = EventsOf(d)
                                      /\ (Complete(d)' <=> Complete(d))
                                      /\ (FitsRun(d)' <=> FitsRun(d))
    BY <1>5 DEF EventsOf, Complete, FitsRun
  <1>7. dir \in Dirs => (Complete(dir)' <=> Complete(dir)) /\ EventsOf(dir) = old.events
    BY <1>3, <1>5 DEF Complete, EventsOf
  <1>8. dir \notin Dirs => ~Complete(dir)' /\ IdsIn(old.events) = {}
    BY <1>3, <1>5, NothingIn DEF Complete
  <1>9. IdsIn(Line)' = IdsIn(Line) /\ ToSet(Line)' = ToSet(Line)
        /\ IdsIn(EventsOf(dir))' = IdsIn(Line) /\ ToSet(EventsOf(dir))' = ToSet(Line)
        /\ \A d \in Dirs : d # dir => /\ IdsIn(EventsOf(d))' = IdsIn(EventsOf(d))
                                      /\ ToSet(EventsOf(d))' = ToSet(EventsOf(d))
    BY <1>4, <1>5, <1>6 DEF IdsIn
  <1>10. /\ \A x : Known(x)' => Known(x)
         /\ \A e : Keeps(e)' => Keeps(e)
    BY <1>1, <1>5, <1>9 DEF Known, Keeps
  <1>11. Waiting'
    <2> PICK none : none = {}
      OBVIOUS
    <2>1. /\ \A x : Known(x)' => Known(x) \/ x \in none
          /\ \A t \in DOMAIN buffer : \A x \in IdsIn(buffer[t]) : x \notin none
          /\ \A b \in transit' : \A x \in IdsIn(b) : x \notin none
          /\ transit' \subseteq transit
      BY <1>1, <1>10
    <2> QED BY <1>1, <2>1, WaitingOn
  <1>12. RumTyped'
    <2>1. \A d \in Dirs' : runDirs'[d] \in [events : Seq(Event), run : [count : Nat, failed : BOOLEAN]]
      <3> TAKE d \in Dirs'
      <3>1. CASE d = dir
        BY <3>1, <1>1, <1>2, <1>3 DEF Put, Dirs
      <3>2. CASE d # dir
        BY <3>2, <1>2, <1>5 DEF RumTyped
      <3> QED BY <3>1, <3>2
    <2> QED BY <1>1, <1>2, <2>1 DEF RumTyped, PagesStay, Baking, Dirs
  <1>13. Recorded'
    <2>1. \A x \in replaced' : x \in replaced \/ Known(x)
      <3> TAKE x \in replaced'
      <3>1. CASE x \in IdsIn(old.events)
        BY <3>1, <1>7, <1>8 DEF Known
      <3> QED BY <3>1, <1>1
    <2>2. \A x : (Known(x) \/ x \in replaced)' => (x \in 1..made)'
      BY <1>1, <1>2, <1>10, <2>1 DEF Recorded, PagesStay
    <2>3. \A d \in Dirs' : EventsOf(d)' # <<>> /\ Told(EventsOf(d))' /\ d = RunId(EventsOf(d))'
      <3> TAKE d \in Dirs'
      <3>1. CASE d = dir
        <4>1. EventsOf(d)' = Line /\ d = RunId(Line)
          BY <3>1, <1>5
        <4>2. Told(EventsOf(d))'
          BY <4>1, <1>2 DEF Told
        <4>3. d = RunId(EventsOf(d))'
          BY <4>1 DEF RunId
        <4> QED BY <4>1, <4>2, <4>3, <1>2
      <3>2. CASE d # dir
        <4>1. d \in Dirs /\ EventsOf(d)' = EventsOf(d)
          BY <3>2, <1>5, <1>6
        <4>2. EventsOf(d) # <<>> /\ Told(EventsOf(d)) /\ d = RunId(EventsOf(d))
          BY <4>1, <1>2 DEF Recorded
        <4>3. Told(EventsOf(d))'
          BY <4>1, <4>2 DEF Told
        <4>4. d = RunId(EventsOf(d))'
          BY <4>1, <4>2 DEF RunId
        <4> QED BY <4>1, <4>2, <4>3, <4>4
      <3> QED BY <3>1, <3>2
    <2>4. Told(Line)'
      BY <1>2, <1>4 DEF Told
    <2>5. \A e, f : (Keeps(e) /\ Keeps(f) /\ e.id = f.id)' => e = f
      BY <1>2, <1>10 DEF Recorded
    <2> QED BY <2>2, <2>3, <2>4, <2>5 DEF Recorded
  <1>14. Proceeds'
    BY <1>1, <1>2, <1>4, <1>5 DEF Proceeds, RunId
  <1>15. Accounted'
    <2>1. /\ IsFiniteSet(Lost) /\ Cardinality(Lost) \in Nat /\ Cardinality(acknowledged) \in Nat
          /\ Lost = acknowledged \ (IdsIn(Line) \cup Baked \cup replaced)
      BY AckFinite
    <2>2. \A x \in Baked : x \in Baked' \/ x \in IdsIn(Line) \/ x \in replaced'
      <3> TAKE x \in Baked
      <3>1. PICK d \in Dirs : Complete(d) /\ x \in IdsIn(EventsOf(d))
        BY DEF Baked
      <3>2. CASE d # dir
        BY <3>1, <3>2, <1>5, <1>6, <1>9 DEF Baked, IdsIn
      <3>3. CASE d = dir
        BY <3>1, <3>3, <1>1, <1>7
      <3> QED BY <3>2, <3>3
    <2>3. \A x \in Lost' : x \in Lost
      <3> TAKE x \in Lost'
      <3>1. x \in acknowledged /\ x \notin IdsIn(inbox) /\ x \notin Baked' /\ x \notin replaced'
        BY <1>1 DEF Lost, IdsIn
      <3>2. x \notin IdsIn(Line)
        BY <3>1, <1>2, InboxFacts
      <3> QED BY <3>1, <3>2, <2>1, <2>2, <1>1
    <2>4. Cardinality(Lost') <= Cardinality(Lost) /\ Cardinality(Lost') \in Nat
      BY <2>1, <2>3, AtMostOneMore
    <2>5. Cardinality(Lost) + (IF Half THEN 1 ELSE 0) <= kills /\ counted <= Cardinality(acknowledged)
      BY DEF RumInv, Accounted
    <2>6. Cardinality(Lost') + (IF Half THEN 1 ELSE 0) <= kills
      BY <2>1, <2>4, <2>5, <1>2
    <2> QED BY <1>1, <1>4, <2>5, <2>6 DEF Accounted
  <1>16. \A d \in Dirs : Rebakes(d) => d = dir
    BY DirsTyped
  <1>17. Rebakes(dir)'
    BY <1>1, <1>2, <1>4 DEF Rebakes, Underway, Line, Baking, AnySloppy
  <1>18. Unique'
    <2> SUFFICES ASSUME kills = 0 PROVE Unique'
      BY <1>1 DEF Unique
    <2>1. \A c, d \in Dirs : c # d => Apart(EventsOf(c), EventsOf(d))
      BY DEF RumInv, Unique
    <2>2. \A d \in Dirs : d # dir => Apart(EventsOf(d), Line) /\ Apart(Line, EventsOf(d))
      BY <1>16 DEF RumInv, Unique, Apart
    <2>3. \A c, d \in Dirs' : c # d => Apart(EventsOf(c), EventsOf(d))'
      <3> TAKE c, d \in Dirs'
      <3>1. CASE c = dir /\ d # dir
        BY <3>1, <2>2, <1>5, <1>9 DEF Apart
      <3>2. CASE c # dir /\ d = dir
        BY <3>2, <2>2, <1>5, <1>9 DEF Apart
      <3>3. CASE c # dir /\ d # dir
        BY <3>3, <2>1, <1>5, <1>9 DEF Apart
      <3> QED BY <3>1, <3>2, <3>3
    <2>4. \A d \in Dirs' : d # dir => Apart(EventsOf(d), Line)'
      BY <2>2, <1>5, <1>9 DEF Apart
    <2> QED BY <2>3, <2>4, <1>17 DEF Unique
  <1>19. Summed'
    <2>1. ASSUME NEW d \in Dirs, d # dir, Complete(d)
          PROVE  (replaced' = {} => FitsRun(d)) /\ (kills = 0 => FitsRun(d))
      BY <2>1, <1>1, <1>16 DEF RumInv, Summed
    <2>2. ASSUME replaced' = {}, dir \in Dirs, Complete(dir) PROVE FitsRun(dir)'
      <3>1. FitsRun(dir)
        BY <2>2, <1>1 DEF RumInv, Summed
      <3>2. \A x \in IdsIn(EventsOf(dir)) : x \in IdsIn(Line)
        BY <2>2, <1>1, <1>7
      <3>3. /\ EventsOf(dir) \in Seq(Event) /\ Told(EventsOf(dir)) /\ RunId(EventsOf(dir)) = RunId(Line)
        BY <2>2, <1>2, DirsTyped DEF Recorded
      <3>4. Len(EventsOf(dir)) = Len(Line)
        BY <3>3 DEF RunId
      <3>5. \A e \in ToSet(EventsOf(dir)), f \in ToSet(Line) : e.id = f.id => e = f
        BY <2>2, <1>2 DEF Recorded, Keeps
      <3>6. ToSet(EventsOf(dir)) = ToSet(Line)
        BY <1>2, <3>2, <3>3, <3>4, <3>5, SameEvents
      <3>7. runDirs'[dir].run = runDirs[dir].run
        BY <2>2, <1>3, <1>5
      <3> QED BY <3>1, <3>4, <3>6, <3>7, <1>5, <1>9 DEF FitsRun
    <2>3. ASSUME NEW d \in Dirs', Complete(d)'
          PROVE  (replaced' = {} => FitsRun(d)') /\ (kills' = 0 => FitsRun(d)' \/ Rebakes(d)')
      <3>1. CASE d = dir
        BY <3>1, <2>2, <2>3, <1>7, <1>8, <1>17
      <3>2. CASE d # dir
        BY <3>2, <2>1, <2>3, <1>1, <1>5, <1>6
      <3> QED BY <3>1, <3>2
    <2> QED BY <2>3 DEF Summed
  <1>20. Drains'
    BY <1>1, <1>4 DEF RumInv, Drains, Baking
  <1> QED BY <1>11, <1>12, <1>13, <1>14, <1>15, <1>18, <1>19, <1>20 DEF RumInv
LEMMA WriteRunSteps ==
  ASSUME RumInv, WriteRun
  PROVE  RumInv'
  <1> PICK dir : dir = RunId(Line)
    OBVIOUS
  <1>1. /\ receiver = "run" /\ receiver' = "unlink" /\ PagesStay
        /\ runDirs' = [runDirs EXCEPT ![dir].run =
                         [count |-> Len(Line), failed |-> \E e \in ToSet(Line) : e.error]]
        /\ UNCHANGED <<transit, inbox, counted, closing, kills, acknowledged, replaced>>
    BY DEF WriteRun, Line
  <1>2. /\ Line \in Seq(Event) /\ Line # <<>> /\ ~AnySloppy /\ Len(Line) \in Nat \ {0}
        /\ dir \in Dirs /\ EventsOf(dir) = Line
        /\ RumTyped /\ Recorded
    <2>1. Line \in Seq(Event) /\ Line # <<>>
      BY <1>1, InboxFacts DEF RumInv, Proceeds
    <2>2. Len(Line) \in Nat \ {0}
      BY <2>1, SetOfSeq
    <2> QED BY <1>1, <2>1, <2>2 DEF RumInv, Proceeds
  <1>3. /\ Line' = Line /\ Half' = Half /\ AnySloppy' = AnySloppy
    BY <1>1 DEF Line, Half, AnySloppy
  <1>4. /\ Dirs' = Dirs
        /\ \A d \in Dirs : EventsOf(d)' = EventsOf(d)
        /\ runDirs'[dir].run = [count |-> Len(Line), failed |-> \E e \in ToSet(Line) : e.error]
        /\ \A d \in Dirs : d # dir => runDirs'[d] = runDirs[d]
    BY <1>1, <1>2 DEF RumTyped, Dirs, EventsOf
  <1>5. /\ \A d \in Dirs : IdsIn(EventsOf(d))' = IdsIn(EventsOf(d)) /\ ToSet(EventsOf(d))' = ToSet(EventsOf(d))
        /\ IdsIn(Line)' = IdsIn(Line) /\ ToSet(Line)' = ToSet(Line)
    BY <1>3, <1>4 DEF IdsIn
  <1>6. /\ \A x : Known(x)' => Known(x)
        /\ \A e : Keeps(e)' => Keeps(e)
    BY <1>1, <1>4, <1>5 DEF Known, Keeps
  <1>7. Complete(dir)' /\ FitsRun(dir)'
    <2>1. runDirs'[dir].run.count = Len(Line) /\ NoJson.count = 0
          /\ runDirs'[dir].run.failed = \E e \in ToSet(Line) : e.error
      BY <1>4 DEF NoJson
    <2>2. Complete(dir)'
      BY <2>1, <1>2 DEF Complete
    <2>3. EventsOf(dir)' = Line
      BY <1>2, <1>4
    <2> QED BY <2>1, <2>2, <2>3 DEF FitsRun
  <1>8. \A d \in Dirs : d # dir => (Complete(d)' <=> Complete(d)) /\ (FitsRun(d)' <=> FitsRun(d))
    BY <1>4 DEF Complete, FitsRun, EventsOf
  <1>9. Waiting'
    <2> PICK none : none = {}
      OBVIOUS
    <2>1. /\ \A x : Known(x)' => Known(x) \/ x \in none
          /\ \A t \in DOMAIN buffer : \A x \in IdsIn(buffer[t]) : x \notin none
          /\ \A b \in transit' : \A x \in IdsIn(b) : x \notin none
          /\ transit' \subseteq transit
      BY <1>1, <1>6
    <2> QED BY <1>1, <2>1, WaitingOn
  <1>10. RumTyped'
    <2>1. [count |-> Len(Line), failed |-> \E e \in ToSet(Line) : e.error] \in [count : Nat, failed : BOOLEAN]
      BY <1>2
    <2>2. \A d \in Dirs' : runDirs'[d] \in [events : Seq(Event), run : [count : Nat, failed : BOOLEAN]]
      <3> TAKE d \in Dirs'
      <3>1. CASE d = dir
        BY <3>1, <2>1, <1>1, <1>2 DEF RumTyped, Dirs
      <3>2. CASE d # dir
        BY <3>2, <1>2, <1>4 DEF RumTyped
      <3> QED BY <3>1, <3>2
    <2> QED BY <1>1, <1>2, <2>2 DEF RumTyped, PagesStay, Baking, Dirs
  <1>11. Recorded'
    <2>1. \A x : (Known(x) \/ x \in replaced)' => (x \in 1..made)'
      BY <1>1, <1>2, <1>6 DEF Recorded, PagesStay
    <2>2. \A d \in Dirs' : EventsOf(d)' # <<>> /\ Told(EventsOf(d))' /\ d = RunId(EventsOf(d))'
      <3> TAKE d \in Dirs'
      <3>1. EventsOf(d)' = EventsOf(d)
        BY <1>4
      <3>2. EventsOf(d) # <<>> /\ Told(EventsOf(d)) /\ d = RunId(EventsOf(d))
        BY <1>2, <1>4 DEF Recorded
      <3>3. Told(EventsOf(d))'
        BY <3>1, <3>2 DEF Told
      <3>4. d = RunId(EventsOf(d))'
        BY <3>1, <3>2 DEF RunId
      <3> QED BY <3>1, <3>2, <3>3, <3>4
    <2>3. Told(Line)'
      BY <1>2, <1>3 DEF Recorded, Told
    <2>4. \A e, f : (Keeps(e) /\ Keeps(f) /\ e.id = f.id)' => e = f
      BY <1>2, <1>6 DEF Recorded
    <2> QED BY <2>1, <2>2, <2>3, <2>4 DEF Recorded
  <1>12. Proceeds'
    <2>1. RunId(Line)' = dir
      BY <1>3 DEF RunId
    <2> QED BY <1>1, <1>2, <1>3, <1>4, <1>7, <2>1 DEF Proceeds
  <1>13. Accounted'
    <2>1. /\ IsFiniteSet(Lost) /\ Cardinality(Lost) \in Nat /\ Cardinality(acknowledged) \in Nat
      BY AckFinite
    <2>2. \A x \in Baked : x \in Baked'
      <3> TAKE x \in Baked
      <3>1. PICK d \in Dirs : Complete(d) /\ x \in IdsIn(EventsOf(d))
        BY DEF Baked
      <3>2. Complete(d)' /\ x \in IdsIn(EventsOf(d))' /\ d \in Dirs'
        BY <3>1, <1>4, <1>5, <1>7, <1>8
      <3> QED BY <3>2 DEF Baked
    <2>3. \A x \in Lost' : x \in Lost
      BY <2>2, <1>1 DEF Lost, IdsIn
    <2>4. Cardinality(Lost') <= Cardinality(Lost) /\ Cardinality(Lost') \in Nat
      BY <2>1, <2>3, AtMostOneMore
    <2>5. /\ Cardinality(Lost) + (IF Half THEN 1 ELSE 0) <= kills /\ counted <= Cardinality(acknowledged)
          /\ kills \in Nat
      BY DEF RumInv, Accounted, RumTyped
    <2>6. Cardinality(Lost') + (IF Half THEN 1 ELSE 0) <= kills
      BY <2>1, <2>4, <2>5
    <2> QED BY <1>1, <1>3, <2>5, <2>6 DEF Accounted
  <1>14. \A d \in Dirs : Rebakes(d) => d = dir
    BY DirsTyped
  <1>15. Rebakes(dir)'
    BY <1>1, <1>2, <1>3 DEF Rebakes, Underway, Line, Baking, AnySloppy
  <1>16. Unique'
    <2> SUFFICES ASSUME kills = 0 PROVE Unique'
      BY <1>1 DEF Unique
    <2>1. \A c, d \in Dirs : c # d => Apart(EventsOf(c), EventsOf(d))
      BY DEF RumInv, Unique
    <2>2. \A d \in Dirs : d # dir => Apart(EventsOf(d), Line)
      BY <1>14 DEF RumInv, Unique
    <2>3. \A c, d \in Dirs' : c # d => Apart(EventsOf(c), EventsOf(d))'
      BY <2>1, <1>4, <1>5 DEF Apart
    <2>4. \A d \in Dirs' : d # dir => Apart(EventsOf(d), Line)'
      BY <2>2, <1>4, <1>5 DEF Apart
    <2> QED BY <2>3, <2>4, <1>15 DEF Unique
  <1>17. Summed'
    <2>1. ASSUME NEW d \in Dirs', Complete(d)'
          PROVE  (replaced' = {} => FitsRun(d)') /\ (kills' = 0 => FitsRun(d)' \/ Rebakes(d)')
      <3>1. CASE d = dir
        BY <3>1, <1>7
      <3>2. CASE d # dir
        BY <3>2, <2>1, <1>1, <1>4, <1>8, <1>14 DEF RumInv, Summed
      <3> QED BY <3>1, <3>2
    <2> QED BY <2>1 DEF Summed
  <1>18. Drains'
    BY <1>1, <1>3 DEF RumInv, Drains, Baking
  <1> QED BY <1>9, <1>10, <1>11, <1>12, <1>13, <1>16, <1>17, <1>18 DEF RumInv
LEMMA RumStarts ==
  ASSUME RumInit
  PROVE  RumInv
  <1>1. /\ DOMAIN buffer = {} /\ transit = {} /\ Dirs = {} /\ inbox = <<>> /\ counted = 0
        /\ receiver = "serve" /\ closing = FALSE /\ kills = 0 /\ acknowledged = {} /\ replaced = {}
        /\ millis = 0 /\ made = 0
    BY DEF RumInit, Dirs
  <1>2. Line = <<>> /\ ~Half /\ ~AnySloppy /\ Len(<<>>) = 0
    BY <1>1, NothingIn DEF Line, Parsed, Half, AnySloppy
  <1>3. \A x : ~Known(x)
    BY <1>1, <1>2, NothingIn DEF Known
  <1>4. \A e : ~Keeps(e)
    BY <1>1, <1>2, NothingIn DEF Keeps
  <1>5. RumTyped
    <2>1. \E p \in Seq(Event) : inbox \in {p, Append(p, Torn)}
      BY <1>1, NothingIn
    <2>2. 0 \in 0..MaxMillis /\ 0 \in 0..MaxEvents /\ 0 \in 0..MaxKills
      BY RumAssumption DEF RumAssumption
    <2> QED BY <1>1, <2>1, <2>2 DEF RumTyped
  <1>6. Waiting /\ Proceeds
    BY <1>1 DEF Waiting, Proceeds
  <1>7. Recorded
    BY <1>1, <1>2, <1>3, <1>4, NothingIn DEF Recorded
  <1>8. Accounted
    <2>1. Lost = {} /\ Cardinality({}) = 0
      BY <1>1, FS_EmptySet DEF Lost
    <2>2. Cardinality(Lost) = 0 /\ Cardinality(acknowledged) = 0
      BY <2>1, <1>1
    <2> QED BY <2>2, <1>1, <1>2 DEF Accounted
  <1>9. Unique /\ Summed
    BY <1>1 DEF Unique, Summed
  <1>10. Drains
    BY <1>1, <1>2, RumAssumption DEF Drains, RumAssumption
  <1> QED BY <1>5, <1>6, <1>7, <1>8, <1>9, <1>10 DEF RumInv

LEMMA RumStep ==
  ASSUME RumInv, [RumNext]_rumVars
  PROVE  RumInv'
  <1>1. CASE Tick
    BY <1>1, PagesStep
  <1>2. ASSUME NEW t \in Tab, InitRum(t) \/ \E error \in BOOLEAN : Record1(t, error) PROVE RumInv'
    BY <1>2, PagesStep
  <1>3. ASSUME NEW t \in Tab, Flush(t) PROVE RumInv'
    BY <1>3, FlushSteps
  <1>4. ASSUME NEW t \in Tab, Shutdown(t) PROVE RumInv'
    BY <1>4, ShutdownSteps
  <1>5. ASSUME NEW t \in Tab, Vanish(t) PROVE RumInv'
    BY <1>5, VanishSteps
  <1>6. ASSUME NEW b \in transit, Lose(b) PROVE RumInv'
    BY <1>6, PagesStep
  <1>7. ASSUME NEW b \in transit, Receive(b) PROVE RumInv'
    BY <1>7, ReceiveSteps
  <1>8. CASE AskBake \/ Serve
    BY <1>8, TurnsStep
  <1>9. CASE ReadInbox
    BY <1>9, ReadInboxSteps
  <1>10. CASE WriteEvents
    BY <1>10, WriteEventsSteps
  <1>11. CASE WriteRun
    BY <1>11, WriteRunSteps
  <1>12. CASE Unlink
    BY <1>12, UnlinkSteps
  <1>13. CASE Interrupt \/ KillReceiver
    BY <1>13, StopSteps
  <1>14. CASE UNCHANGED rumVars
    <2>1. /\ PagesStay /\ UNCHANGED <<transit, inbox, counted, receiver, closing, runDirs, kills,
                                      acknowledged, replaced>>
      BY <1>14 DEF rumVars, PagesStay
    <2>2. /\ counted \in Nat /\ counted <= counted /\ kills <= MaxKills
          /\ receiver' \in Baking \cup {"serve", "down"} /\ closing' \in BOOLEAN
      BY <2>1, RumAssumption DEF RumInv, RumTyped, RumAssumption
    <2>3. \A d : Rebakes(d) => Rebakes(d)'
      BY <2>1 DEF Rebakes, Underway, AnySloppy
    <2>4. Proceeds'
      BY <2>1 DEF RumInv, Proceeds, AnySloppy, Line, Dirs, EventsOf, Complete, FitsRun
    <2>5. Drains'
      BY <2>1 DEF RumInv, Drains, AnySloppy
    <2> QED BY <2>1, <2>2, <2>3, <2>4, <2>5, TurnSteps
  <1> QED BY <1>1, <1>2, <1>3, <1>4, <1>5, <1>6, <1>7, <1>8, <1>9, <1>10, <1>11, <1>12, <1>13, <1>14
          DEF RumNext

LEMMA RumInvariant == RumSpec => []RumInv
  <1>1. RumInit => RumInv
    BY RumStarts
  <1>2. RumInv /\ [RumNext]_rumVars => RumInv'
    BY RumStep
  <1> QED BY <1>1, <1>2, PTL DEF RumSpec

LEMMA RumIsTyped ==
  ASSUME RumInv
  PROVE  RumTypeOK
  <1>1. RumTyped /\ Waiting /\ Recorded /\ made \in Nat /\ MaxEvents \in Nat /\ made <= MaxEvents
    BY RumAssumption DEF RumInv, RumTyped, RumAssumption
  <1>2. counted \in 0..MaxEvents
    <2>1. /\ Cardinality(acknowledged) <= made /\ Cardinality(acknowledged) \in Nat
          /\ counted <= Cardinality(acknowledged) /\ counted \in Nat
      BY AckFinite DEF RumInv, Accounted, RumTyped
    <2> QED BY <2>1, <1>1
  <1>3. acknowledged \cup replaced \subseteq 1..made
    BY <1>1 DEF Recorded, Known
  <1>4. ToSet(inbox) \subseteq Event \cup {Torn}
    <2>1. /\ Line \in Seq(Event) /\ inbox = IF Half THEN Append(Line, Torn) ELSE Line
      BY <1>1, InboxFacts
    <2> PICK p \in Seq(Event) : p = Line
      BY <2>1
    <2>2. ToSet(Append(p, Torn)) = ToSet(p) \cup {Torn} /\ ToSet(p) \subseteq Event
      BY PushedSet, SetOfSeq
    <2> QED BY <2>1, <2>2
  <1>5. \A s \in Seq(Event) : ToSet(s) \subseteq Event
    BY SetOfSeq
  <1>6. /\ \A t \in DOMAIN buffer : ToSet(buffer[t]) \subseteq Event
        /\ \A b \in transit : b # <<>> /\ ToSet(b) \subseteq Event
    BY <1>1, <1>5 DEF Waiting, Fresh, RumTyped
  <1> QED BY <1>1, <1>2, <1>3, <1>4, <1>6 DEF RumTyped, RumTypeOK

LEMMA RumKeeps ==
  ASSUME RumInv
  PROVE  RumKeepsEvents
  <1>1. RumTyped /\ kills \in Nat
    BY DEF RumInv, RumTyped
  <1>2. Cardinality(Lost) + (IF Half THEN 1 ELSE 0) <= kills /\ Cardinality(Lost) \in Nat /\ Half \in BOOLEAN
    BY <1>1, AckFinite, InboxFacts DEF RumInv, Accounted
  <1>3. EventsConserved
    <2>1. Cardinality(Lost) <= kills
      BY <1>1, <1>2
    <2> QED BY <2>1 DEF EventsConserved, Lost, Baked, Dirs, EventsOf
  <1>4. kills = 0 => inbox = Line
    BY <1>1, <1>2 DEF Half
  <1>5. ReportedOnce
    <2> SUFFICES ASSUME kills = 0 PROVE ReportedOnce
      BY DEF ReportedOnce
    <2>1. \A s, t : Apart(s, t) => IdsIn(s) \cap IdsIn(t) = {}
      BY DEF Apart
    <2>2. \A c, d \in Dirs : c # d => Apart(EventsOf(c), EventsOf(d))
      BY DEF RumInv, Unique
    <2>3. \A d \in Dirs : Apart(EventsOf(d), inbox) \/ Underway(d)
      BY <1>4 DEF RumInv, Unique, Rebakes
    <2> QED BY <2>1, <2>2, <2>3 DEF ReportedOnce, Dirs, EventsOf
  <1>6. SummaryAgrees
    BY DEF RumInv, Summed, SummaryAgrees, Rebakes, FitsRun, Dirs, EventsOf
  <1>7. InboxDrains
    BY DEF RumInv, Drains, InboxDrains, Baking
  <1> QED BY <1>3, <1>5, <1>6, <1>7 DEF RumKeepsEvents

\* RumKeepsEvents, for every number of pages, events and kills: what
\* RumServerApp has counted is in the inbox or in a run but for one event a
\* kill, is reported once, and is summed up and drained (serve_forever).
THEOREM RumStaysKept == RumSpec => []RumKeepsEvents
  <1>1. RumInv => RumKeepsEvents
    BY RumKeeps
  <1> QED BY <1>1, RumInvariant, PTL

----------------------------------------------------------------------------
(* The four together: a step of one leaves the others alone.               *)
ProjectInv == TypeOK /\ WsTypeOK /\ SelectionInv /\ RumInv

LEMMA ProjectStarts == ProjectInit => ProjectInv
  <1>1. ProjectInit => Init /\ WsInit /\ SelectionInit /\ RumInit
    BY DEF ProjectInit, LifecycleRest, WorkspaceRest, SelectionRest, RumRest
  <1> QED BY <1>1, TypeInit, WorkspaceTypeInit, SelectionStarts, RumStarts DEF ProjectInv

LEMMA ProjectSteps == ProjectInv /\ [ProjectNext]_projectVars => ProjectInv'
  <1> SUFFICES ASSUME ProjectInv, [ProjectNext]_projectVars
               PROVE  ProjectInv'
    OBVIOUS
  <1>1. [Next]_vars /\ [WsNext]_wsVars /\ [SelectionNext]_selectionVars /\ [RumNext]_rumVars
    BY DEF ProjectNext, projectVars
  <1>2. TypeOK'
    BY <1>1, TypeStep DEF ProjectInv
  <1>3. WsTypeOK'
    BY <1>1, WorkspaceTypeStep DEF ProjectInv
  <1>4. SelectionInv'
    BY <1>1, SelectionSteps DEF ProjectInv
  <1>5. RumInv'
    BY <1>1, RumStep DEF ProjectInv
  <1> QED BY <1>2, <1>3, <1>4, <1>5 DEF ProjectInv

(* Every variable of the run, the workspace, the selection and the pipeline *)
(* of real users keeps its type; counted stays within the events recorded. *)
THEOREM ProjectTyped == ProjectSpec => []ProjectTypeOK
  <1>1. ProjectInv => ProjectTypeOK
    BY RumIsTyped DEF ProjectInv, ProjectTypeOK, SelectionInv
  <1> QED BY <1>1, ProjectStarts, ProjectSteps, PTL DEF ProjectSpec
=============================================================================
