---------------------------- MODULE AuditTrail ----------------------------
(***************************************************************************)
(* The audit log of one run and the compliance module that judges it while *)
(* the other modules of the run still write.                               *)
(*                                                                         *)
(* Every writer stamps its entry first and appends it afterwards, without a *)
(* lock (engine/policy/audit_log.py); the SOC 2 trail check reads the file  *)
(* once, in the middle of the run (modules/compliance).  Only the order of  *)
(* the stamps and the kinds of the entries matter here.                     *)
(***************************************************************************)
EXTENDS Naturals, FiniteSets, Sequences

CONSTANTS
  Module,        \* the modules of the run that write a first and a last entry
  Compliance,    \* the module that reads the log
  Threads,       \* the size of the pool
  MaxTime,       \* bound on the clock
  MaxStepsBack   \* bound on the corrections of the clock

ASSUME ComplianceIsModule == Compliance \in Module /\ "lifecycle" \notin Module
ASSUME PoolIsNotEmpty == Threads \in Nat \ {0}
ASSUME ClockIsBounded == MaxTime \in Nat /\ MaxStepsBack \in Nat

VARIABLES
  clock,         \* the wall clock
  stepsBack,     \* how often it was put back
  trail,         \* audit.log
  thread,        \* what each module is doing
  gates,         \* the gates that failed, once the log was read
  overlapped     \* history: an entry was stamped while another was on its way

atVars == <<clock, stepsBack, trail, thread, gates, overlapped>>

Gate == {"trail-exists", "trail-monotonic", "trail-safety-decisions", "trail-module-events",
         "trail-artifact-events"}

Kind == {"decision", "first", "last", "artifact_emitted"}
TrailEntry == [ts : 0..MaxTime, kind : Kind, by : Module \cup {"lifecycle"}]

\* first and last: the entry is stamped next; then it is appended.
ThreadStage == {"waiting", "first", "appendFirst", "work", "last", "appendLast", "done"}

AtTypeOK ==
  /\ clock \in 0..MaxTime
  /\ stepsBack \in 0..MaxStepsBack
  /\ trail \in Seq(TrailEntry)
  /\ \A m \in Module : thread[m].stage \in ThreadStage /\ thread[m].ts \in 0..MaxTime
  /\ gates \subseteq Gate \cup {"unread"}
  /\ overlapped \in BOOLEAN

\* The lifecycle has written the safety decision before it starts the pool.
AtInit ==
  /\ clock = 0 /\ stepsBack = 0
  /\ trail = <<[ts |-> 0, kind |-> "decision", by |-> "lifecycle"]>>
  /\ thread = [m \in Module |-> [stage |-> "waiting", ts |-> 0]]
  /\ gates = {"unread"}
  /\ overlapped = FALSE

Carrying == {m \in Module : thread[m].stage \in {"appendFirst", "appendLast"}}
Running == {m \in Module : thread[m].stage \notin {"waiting", "done"}}

Tick == clock < MaxTime /\ clock' = clock + 1 /\ UNCHANGED <<stepsBack, trail, thread, gates, overlapped>>

StepBack ==
  /\ clock > 0 /\ stepsBack < MaxStepsBack
  /\ clock' = clock - 1 /\ stepsBack' = stepsBack + 1
  /\ UNCHANGED <<trail, thread, gates, overlapped>>

StartThread(m) ==
  /\ thread[m].stage = "waiting"
  /\ Cardinality(Running) < Threads
  /\ thread' = [thread EXCEPT ![m].stage = "first"]
  /\ UNCHANGED <<clock, stepsBack, trail, gates, overlapped>>

\* write_audit_entry: the time is taken ...
Stamp(m) ==
  /\ thread[m].stage \in {"first", "last"}
  /\ thread' = [thread EXCEPT ![m] =
       [stage |-> IF @.stage = "first" THEN "appendFirst" ELSE "appendLast", ts |-> clock]]
  /\ overlapped' = (overlapped \/ Carrying # {})
  /\ UNCHANGED <<clock, stepsBack, trail, gates>>

\* ... and the line goes to the end of the file.
AppendEntry(m) ==
  /\ m \in Carrying
  /\ LET first == thread[m].stage = "appendFirst"
     IN  /\ trail' = Append(trail, [ts |-> thread[m].ts, kind |-> IF first THEN "first" ELSE "last",
                                    by |-> m])
         /\ thread' = [thread EXCEPT ![m] =
              [stage |-> IF ~first THEN "done" ELSE IF m = Compliance THEN "work" ELSE "last",
               ts |-> 0]]
  /\ UNCHANGED <<clock, stepsBack, gates, overlapped>>

Monotonic_Strict_Mutant(log) == \A i \in 2..Len(log) : log[i].ts > log[i - 1].ts

\* _gate_trail_monotonic: equal stamps are in order.
Monotonic(log) == \A i \in 2..Len(log) : log[i].ts >= log[i - 1].ts

\* audit_soc2_trail.  No code writes the module_start and module_end entries
\* that the gate trail-module-events asks for.
FailedGates(log) ==
  IF log = <<>> THEN {"trail-exists"}
  ELSE {"trail-module-events"}
    \cup {g \in {"trail-monotonic"} : ~Monotonic(log)}
    \cup {g \in {"trail-safety-decisions"} : \A i \in DOMAIN log : log[i].kind # "decision"}
    \cup {g \in {"trail-artifact-events"} : \A i \in DOMAIN log : log[i].kind # "artifact_emitted"}

ReadTrail ==
  /\ thread[Compliance].stage = "work"
  /\ gates' = FailedGates(trail)
  /\ thread' = [thread EXCEPT ![Compliance].stage = "last"]
  /\ UNCHANGED <<clock, stepsBack, trail, overlapped>>

\* The reporter writes its artifacts once every module has ended.
EmitArtifacts ==
  /\ \A m \in Module : thread[m].stage = "done"
  /\ \A i \in DOMAIN trail : trail[i].kind # "artifact_emitted"
  /\ trail' = Append(trail, [ts |-> clock, kind |-> "artifact_emitted", by |-> "lifecycle"])
  /\ UNCHANGED <<clock, stepsBack, thread, gates, overlapped>>

AtNext ==
  \/ Tick \/ StepBack \/ ReadTrail \/ EmitArtifacts
  \/ \E m \in Module : StartThread(m) \/ Stamp(m) \/ AppendEntry(m)

AtSpec == AtInit /\ [][AtNext]_atVars

SeverityOf(gate) ==
  IF gate \in {"trail-exists", "trail-monotonic"} THEN "high" ELSE "medium"

\* summarize
ComplianceStatus ==
  IF gates = {"unread"} THEN "running"
  ELSE IF \E g \in gates : SeverityOf(g) = "high" THEN "failed" ELSE "passed"

\* The module fails over the trail only if two threads were about to write at
\* once or the clock was put back: modules that run one after another, and a
\* clock that stands still between two entries, never fail it.
OnlyRacesFailTheTrail ==
  ComplianceStatus = "failed" => overlapped \/ stepsBack > 0

\* The places of a writer's entries in the log.
EntriesOf(m) == {i \in DOMAIN trail : trail[i].by = m}

\* The entries of one writer stay in the order it wrote them, none is lost
\* or written twice, and they are in order of time unless the clock was put
\* back.
EachWriterIsInOrder ==
  \A m \in Module :
    /\ \A i, k \in EntriesOf(m) : i < k =>
         /\ trail[i].kind = "first" /\ trail[k].kind = "last"
         /\ stepsBack = 0 => trail[i].ts <= trail[k].ts
    /\ \A k \in EntriesOf(m) : trail[k].kind # "first" => \E i \in EntriesOf(m) : i < k
    /\ thread[m].stage = "done" => \E k \in EntriesOf(m) : trail[k].kind = "last"

TrailVerdictIsFair == OnlyRacesFailTheTrail /\ EachWriterIsInOrder
=============================================================================
