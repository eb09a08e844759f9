--------------------------- MODULE IssueLifecycle ---------------------------
(***************************************************************************)
(* The issues of a repository kept in step with the findings of a run:     *)
(* integrations/github/issue_lifecycle.py.                                 *)
(*                                                                         *)
(* A run hands each of its findings to upsert_issue, which searches an     *)
(* open issue by the fingerprint in the title and updates or creates it,   *)
(* and then calls close_resolved_issues, which closes every open issue     *)
(* found whose fingerprint is not among the findings.  The search reads an *)
(* index that follows the issues with a delay.                             *)
(***************************************************************************)
EXTENDS HttpRetry, FiniteSetsExt, Sequences

CONSTANTS
  Tracker,       \* the runs that keep the issues
  NoTracker,
  Fingerprint,   \* FindingFingerprint.digest
  SearchPage     \* items in one answer of the search, 30 on GitHub

ASSUME SearchPageIsPositive == SearchPage \in Nat \ {0}
ASSUME NoTrackerIsNone == NoTracker \notin Tracker

VARIABLES
  findings,      \* what each run reports
  issues,        \* number -> fingerprint in the title, open or closed
  shown,         \* the numbers the search index gives as open
  tracker,       \* stage of each run
  settled,       \* history: the run that ended last, nobody having begun since
  clean,         \* history: runs that were alone, saw a fresh index, and closed
  calmIssues     \* history: nothing has happened that excuses a twin

isVars == <<findings, issues, shown, tracker, settled, clean, calmIssues>>

TrackerStage == {"waiting", "search", "write", "sweep", "close", "remark",
                 "done", "refused", "crashed"}

Trackers == [stage : TrackerStage, attempt : 1..MaxAttempts, left : SUBSET Fingerprint,
             target : Nat, doomed : SUBSET Nat]

IsTypeOK ==
  /\ findings \in [Tracker -> SUBSET Fingerprint]
  /\ issues \in Seq([fp : Fingerprint, open : BOOLEAN])
  /\ shown \subseteq DOMAIN issues
  /\ tracker \in [Tracker -> Trackers]
  /\ settled \in Tracker \cup {NoTracker}
  /\ clean \subseteq Tracker
  /\ calmIssues \in BOOLEAN

\* A run at rest.
At(stage) ==
  [stage |-> stage, attempt |-> 1, left |-> {}, target |-> 0, doomed |-> {}]

IsInit ==
  /\ findings \in [Tracker -> SUBSET Fingerprint]
  /\ issues = <<>>
  /\ shown = {}
  /\ tracker = [j \in Tracker |-> At("waiting")]
  /\ settled = NoTracker
  /\ clean = Tracker
  /\ calmIssues = TRUE

Tracking(j) == tracker[j].stage \notin {"waiting", "done", "refused", "crashed"}

Stale == shown # {n \in DOMAIN issues : issues[n].open}

\* The finding upsert_issue is called with; the order is the caller's.
Current(j) == CHOOSE f \in tracker[j].left : TRUE

FoundByFingerprint_TopOnly_Mutant(f) ==
  IF shown # {} /\ issues[Max(shown)].fp = f THEN Max(shown) ELSE 0

\* find_issue_by_fingerprint: an open issue with the anchor, 0 for None.
FoundByFingerprint(f) ==
  LET hits == {n \in shown : issues[n].fp = f}
  IN  IF hits = {} THEN 0 ELSE Max(hits)

\* What the first page of the search for open lifecycle issues may hold.
Pages == IF Cardinality(shown) <= SearchPage THEN {shown} ELSE kSubset(SearchPage, shown)

NextDoomed_SkipLast_Mutant(t, doomed) ==
  [t EXCEPT !.doomed = doomed, !.attempt = 1,
            !.stage = IF Cardinality(doomed) <= 1 THEN "done" ELSE "close"]

\* What follows an upsert, or a closed issue.
NextFinding(t, left) ==
  [t EXCEPT !.left = left, !.attempt = 1, !.target = 0,
            !.stage = IF left = {} THEN "sweep" ELSE "search"]
NextDoomed(t, doomed) ==
  [t EXCEPT !.doomed = doomed, !.attempt = 1,
            !.stage = IF doomed = {} THEN "done" ELSE "close"]

\* One attempt of a request of run j: answered, or failed with next; sent
\* again; or the exception of the socket, which no caller catches.
Attempt(j, verdict, answered, failed) ==
  /\ tracker' = [tracker EXCEPT ![j] =
                   CASE verdict = "answered" -> answered
                     [] verdict = "failed"   -> failed
                     [] verdict = "again"    -> [@ EXCEPT !.attempt = @ + 1]
                     [] verdict = "crashed"  -> At("crashed")]
  /\ settled' = IF tracker'[j].stage = "done" THEN j ELSE settled

\* upsert_issue refuses without auto_create; a run without findings only closes.
StartTracker(j, autoCreate) ==
  LET goes == autoCreate \/ findings[j] = {}
      others == {k \in Tracker : Tracking(k)}
  IN  /\ tracker[j].stage = "waiting"
      /\ tracker' = [tracker EXCEPT ![j] = IF goes THEN NextFinding(@, findings[j])
                                           ELSE At("refused")]
      /\ settled' = IF goes THEN NoTracker ELSE settled
      /\ clean' = IF goes /\ others # {} THEN clean \ (others \cup {j}) ELSE clean
      /\ calmIssues' = (calmIssues /\ ~(goes /\ others # {}))
      /\ UNCHANGED <<findings, issues, shown>>

\* One attempt at the search for the issue of the current finding.
SearchIssue(j, reply) ==
  LET verdict == Verdict("github", reply, tracker[j].attempt)
      blind == verdict = "answered" /\ Stale
  IN  /\ tracker[j].stage = "search"
      /\ Attempt(j, verdict,
                 [tracker[j] EXCEPT !.stage = "write", !.attempt = 1,
                                    !.target = FoundByFingerprint(Current(j))],
                 At("refused"))
      /\ clean' = IF blind THEN clean \ {j} ELSE clean
      /\ calmIssues' = (calmIssues /\ ~blind)
      /\ UNCHANGED <<findings, issues, shown>>

\* One attempt at updating (and opening) the issue found, or at creating one.
WriteIssue(j, reply) ==
  LET t == tracker[j]
      f == Current(j)
      verdict == Verdict("github", reply, t.attempt)
      creates == t.target = 0 /\ Applied(reply)
  IN  /\ t.stage = "write"
      /\ Attempt(j, verdict, NextFinding(t, t.left \ {f}), At("refused"))
      /\ issues' = CASE ~Applied(reply) -> issues
                     [] creates         -> Append(issues, [fp |-> f, open |-> TRUE])
                     [] OTHER           -> [issues EXCEPT ![t.target].open = TRUE]
      /\ calmIssues' = (calmIssues /\ ~(creates /\ verdict = "again"))
      /\ UNCHANGED <<findings, shown, clean>>

\* One attempt at the search of close_resolved_issues; only the first page of
\* its answer is read.
Sweep(j, reply) ==
  LET verdict == Verdict("github", reply, tracker[j].attempt)
      blind == verdict = "answered" /\ (Stale \/ shown \notin Pages)
  IN  /\ tracker[j].stage = "sweep"
      /\ \E page \in Pages :
           LET doomed == {n \in page : issues[n].fp \notin findings[j]}
           IN  Attempt(j, verdict, NextDoomed(tracker[j], doomed), At("refused"))
      /\ clean' = IF blind THEN clean \ {j} ELSE clean
      /\ UNCHANGED <<findings, issues, shown, calmIssues>>

\* One attempt at closing an issue; a failure is logged and the issue skipped.
CloseIssue(j, reply) ==
  LET t == tracker[j]
      n == Min(t.doomed)
      verdict == Verdict("github", reply, t.attempt)
  IN  /\ t.stage = "close"
      /\ Attempt(j, verdict, [t EXCEPT !.stage = "remark", !.attempt = 1],
                 NextDoomed(t, t.doomed \ {n}))
      /\ issues' = IF Applied(reply) THEN [issues EXCEPT ![n].open = FALSE] ELSE issues
      /\ clean' = IF verdict = "failed" THEN clean \ {j} ELSE clean
      /\ UNCHANGED <<findings, shown, calmIssues>>

\* One attempt at the comment that names the run; its failure is only logged.
RemarkClosed(j, reply) ==
  LET t == tracker[j]
      n == Min(t.doomed)
      verdict == Verdict("github", reply, t.attempt)
      next == NextDoomed(t, t.doomed \ {n})
  IN  /\ t.stage = "remark"
      /\ Attempt(j, verdict, next, next)
      /\ UNCHANGED <<findings, issues, shown, clean, calmIssues>>

\* The search index catches up with an issue.
Reindex(n) ==
  /\ issues[n].open # (n \in shown)
  /\ shown' = IF issues[n].open THEN shown \cup {n} ELSE shown \ {n}
  /\ UNCHANGED <<findings, issues, tracker, settled, clean, calmIssues>>

TrackerStep(j) ==
  \/ \E autoCreate \in BOOLEAN : StartTracker(j, autoCreate)
  \/ \E reply \in Reply :
       \/ SearchIssue(j, reply) \/ WriteIssue(j, reply)
       \/ Sweep(j, reply) \/ CloseIssue(j, reply) \/ RemarkClosed(j, reply)

IsNext ==
  \/ \E j \in Tracker : TrackerStep(j)
  \/ \E n \in DOMAIN issues : Reindex(n)

IsSpec == IsInit /\ [][IsNext]_isVars

-----------------------------------------------------------------------------
OpenIssues(f) == {n \in DOMAIN issues : issues[n].fp = f /\ issues[n].open}

\* "A re-issued finding lands on the same issue" (module docstring, 9-14): no
\* two issues are open for one fingerprint, unless runs overlapped, the index
\* was behind when a run searched, or a creation was sent again after its
\* answer was lost (upsert_issue).
OneOpenIssue == calmIssues => \A f \in Fingerprint : Cardinality(OpenIssues(f)) <= 1

\* When a run has ended that was alone, saw a fresh index on one page and could
\* close, the open issues are those of its findings, whatever failed runs, stale
\* searches and twins came before it (upsert_issue, close_resolved_issues).
TrackerAgrees ==
  settled \in clean
    => {f \in Fingerprint : OpenIssues(f) # {}} = findings[settled]

\* The issues of the platform follow the findings of the runs.
IssuesFollowFindings == OneOpenIssue /\ TrackerAgrees
=============================================================================
