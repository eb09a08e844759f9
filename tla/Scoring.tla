------------------------------ MODULE Scoring ------------------------------
(***************************************************************************)
(* The policy gate of engine/scoring: the quality score, the release       *)
(* blockers and the release decision of a set of findings.  A finding is a *)
(* record [id, module, severity, priority], priority being the @p0..@p3    *)
(* tag of its title or "none".  A policy is a record of the fields of      *)
(* PolicyConfig that the gate reads.                                       *)
(*                                                                         *)
(* Units: penalties are in half points (17.5 is 35), weights in twentieths *)
(* (0.30 is 6), so a score is in fortieths of a point and 100 is 4000.     *)
(***************************************************************************)
EXTENDS Integers, Sequences, FiniteSets, FiniteSetsExt, SequencesExt

FullMark == 200

Weight ==
  [functional |-> 6, security |-> 4, performance |-> 3, accessibility |-> 2,
   api |-> 2, visual |-> 1, llm_audit |-> 1]
FlakeWeight == 1

Penalty(severity, policy) ==
  CASE severity = "critical" -> 60
    [] severity = "high"     -> policy.penaltyHigh
    [] severity = "medium"   -> policy.penaltyMedium
    [] severity = "low"      -> policy.penaltyLow
    [] OTHER                 -> 0

OfModule(name, findings) == {f \in findings : f.module = name}

ComponentScore(axis, findings, policy) ==
  LET total == MapThenSumSet(LAMBDA f : Penalty(f.severity, policy), OfModule(axis, findings))
  IN  IF total > FullMark THEN 0 ELSE FullMark - total

(* The average of the flake rates the modules reported, against the        *)
(* largest one the policy accepts.                                         *)
FlakeScore(rates, policy) ==
  LET sum == FoldLeft(+, 0, rates)
      cap == Len(rates) * policy.maxFlake
  IN  CASE rates = <<>>        -> FullMark
        [] policy.maxFlake = 0 -> IF sum > 0 THEN 0 ELSE FullMark
        [] sum >= cap          -> 0
        [] OTHER               -> (FullMark * (cap - sum)) \div cap

Score(findings, rates, policy) ==
    MapThenSumSet(LAMBDA a : Weight[a] * ComponentScore(a, findings, policy), DOMAIN Weight)
  + FlakeWeight * FlakeScore(rates, policy)

P1Failures(findings) == {f \in OfModule("functional", findings) : f.priority = "p1"}

HasCritical_Functional_Mutant(findings) ==
  \E f \in OfModule("functional", findings) : f.severity = "critical"

HasCritical(findings) == \E f \in findings : f.severity = "critical"

(* compute_blockers: the rules that fired.                                 *)
Blockers(findings, policy) ==
  {r \in {"critical_finding", "security_high", "p0_flow_failed", "too_many_p1_failures"} :
    \/ /\ r = "critical_finding" /\ policy.blockCritical
       /\ HasCritical(findings)
    \/ /\ r = "security_high" /\ policy.blockHighSecurity
       /\ \E f \in OfModule("security", findings) : f.severity = "high"
    \/ /\ r = "p0_flow_failed"
       /\ \E f \in OfModule("functional", findings) : f.priority = "p0"
    \/ /\ r = "too_many_p1_failures"
       /\ Cardinality(P1Failures(findings)) > policy.maxP1}

BelowThreshold(score, policy) == score < 40 * policy.minScore

(* The release decision; run_status is the status the caller presumes.     *)
SelectDecision(score, blockers, findings, policy, run_status) ==
  CASE run_status = "unsafe_blocked"            -> "unsafe_target_rejected"
    [] run_status \in {"incomplete", "dry_run"} -> "inconclusive"
    [] OTHER ->
       IF blockers # {} \/ BelowThreshold(score, policy) THEN "blocked"
       ELSE IF \E f \in findings : f.severity = "medium" THEN "pass_with_warnings"
       ELSE "pass"

ApplyPolicyGate(findings, rates, policy, run_status) ==
  SelectDecision(Score(findings, rates, policy), Blockers(findings, policy),
                 findings, policy, run_status)
=============================================================================
