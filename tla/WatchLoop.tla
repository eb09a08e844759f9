----------------------------- MODULE WatchLoop -----------------------------
(***************************************************************************)
(* `sentinel audit --watch`: sentinel_cli/watch.py, called by run_audit.   *)
(*                                                                         *)
(* The loop compares snapshots of the modification times and audits when   *)
(* they differ and have then rested for the debounce time.  A developer    *)
(* edits at any moment: while a snapshot is taken, file after file, while  *)
(* the loop sleeps, and while an audit runs.                               *)
(***************************************************************************)
EXTENDS Naturals, FiniteSets

CONSTANTS
  File,          \* the files iter_files yields
  Polls,         \* polls that fit into the debounce time
  MaxEdits       \* bound on the edits

ASSUME PollsArePositive == Polls \in Nat \ {0}

VARIABLES
  mtime,         \* the tree: modification time of each file, 0 if it is gone
  edits,         \* how many edits: the clock the times are taken from
  loop,          \* what the loop is doing
  snapshot,      \* the last complete snapshot
  walk,          \* the snapshot being taken: the files visited so far
  deadline,      \* polls left until the debounce deadline
  audited        \* history: the tree as it was when the last audit started

waVars == <<mtime, edits, loop, snapshot, walk, deadline, audited>>

Stage == {"first", "poll", "debounce", "audit", "raised"}

WaTypeOK ==
  /\ mtime \in [File -> Nat] /\ edits \in Nat
  /\ loop \in Stage
  /\ snapshot \in [File -> Nat]
  /\ DOMAIN walk \subseteq File
  /\ deadline \in 0..Polls
  /\ audited \in [File -> Nat]

WaInit ==
  /\ mtime = [f \in File |-> 1] /\ edits = 1
  /\ loop = "first"
  /\ snapshot = [f \in File |-> 0]
  /\ walk = << >>
  /\ deadline = 0
  /\ audited = [f \in File |-> 0]

Walking == loop \in {"first", "poll", "debounce"}

\* A file is created, changed or removed.  Two changes within one tick of the
\* file system's clock are not distinguished here, nor by the program.
Edit(f, gone) ==
  /\ edits < MaxEdits /\ (gone => mtime[f] # 0)
  /\ edits' = edits + 1
  /\ mtime' = [mtime EXCEPT ![f] = IF gone THEN 0 ELSE edits + 1]
  /\ UNCHANGED <<loop, snapshot, walk, deadline, audited>>

\* iter_files comes to a file, and _snapshot reads its time.
Visit(f) ==
  /\ Walking /\ f \notin DOMAIN walk
  /\ walk' = [g \in DOMAIN walk \cup {f} |-> IF g = f THEN mtime[f] ELSE walk[g]]
  /\ UNCHANGED <<mtime, edits, loop, snapshot, deadline, audited>>

\* _snapshot returns; what follows up to the next sleep or audit.
Taken == Walking /\ DOMAIN walk = File /\ snapshot' = walk /\ walk' = << >>

StartAudit == loop' = "audit" /\ audited' = mtime

\* The snapshot before the first audit.
FirstSnapshot ==
  /\ Taken /\ loop = "first"
  /\ StartAudit
  /\ UNCHANGED <<mtime, edits, deadline>>

\* The snapshot of a poll: a difference opens the debounce.
Poll ==
  /\ Taken /\ loop = "poll"
  /\ IF walk # snapshot THEN loop' = "debounce" /\ deadline' = Polls
                        ELSE UNCHANGED <<loop, deadline>>
  /\ UNCHANGED <<mtime, edits, audited>>

Debounce_AlwaysPush_Mutant ==
  /\ Taken /\ loop = "debounce" /\ deadline' = Polls
  /\ UNCHANGED <<loop, audited, mtime, edits>>

\* A snapshot of the debounce: another difference pushes the deadline.  Each
\* poll takes at least its sleep, so any number of polls may have fitted.
Debounce ==
  /\ Taken /\ loop = "debounce"
  /\ IF walk # snapshot
     THEN deadline' = Polls /\ UNCHANGED <<loop, audited>>
     ELSE \E left \in 0..(deadline - 1) :
            /\ deadline' = left
            /\ IF left = 0 THEN StartAudit ELSE UNCHANGED <<loop, audited>>
  /\ UNCHANGED <<mtime, edits>>

AuditReturns_SnapshotAfter_Mutant ==
  /\ loop = "audit"
  /\ loop' = "poll" /\ snapshot' = mtime
  /\ UNCHANGED <<mtime, edits, walk, deadline, audited>>

\* run_audit returns, or raises through the loop: config, safety and runner
\* errors are caught by nobody.
AuditReturns ==
  /\ loop = "audit"
  /\ loop' = "poll"
  /\ UNCHANGED <<mtime, edits, snapshot, walk, deadline, audited>>
AuditRaises ==
  /\ loop = "audit"
  /\ loop' = "raised"
  /\ UNCHANGED <<mtime, edits, snapshot, walk, deadline, audited>>

WatchStep ==
  \/ \E f \in File : Visit(f)
  \/ FirstSnapshot \/ Poll \/ Debounce \/ AuditReturns \/ AuditRaises

WaNext == WatchStep \/ \E f \in File, gone \in BOOLEAN : Edit(f, gone)

-----------------------------------------------------------------------------
\* The loop runs on: its sleeps are short and an audit ends.
WaFairness == WF_waVars(WatchStep)

WaSpec == WaInit /\ [][WaNext]_waVars /\ WaFairness

\* An edit of a file the next poll will not notice was there when the last audit
\* started, wherever in a snapshot, a sleep or an audit it was made.  (A file
\* that was absent, comes and goes again between two snapshots is not noticed.)
\* watch_loop goes on with the snapshot it took before the audit.
NoEditForgotten ==
  loop \in {"poll", "audit"} =>
    \A f \in File : (snapshot[f] = mtime[f] /\ mtime[f] # 0) => audited[f] = mtime[f]

\* When the developer rests, every file there is gets audited as it is, unless
\* an audit raises: finitely many edits do not push the deadline for ever.
EditsAudited ==
  <>(loop = "raised" \/ [](\A f \in File : mtime[f] # 0 => audited[f] = mtime[f]))
=============================================================================
