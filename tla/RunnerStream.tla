---------------------------- MODULE RunnerStream ----------------------------
(***************************************************************************)
(* One module run: Playwright with the reporter of ts-runtime writes a     *)
(* stream of events, sentinel-ts (the wrapper) waits for it, and the local *)
(* runner of the engine reads the stream and derives the module status.    *)
(* Both processes may die at any moment and the caller may cancel.         *)
(***************************************************************************)
EXTENDS Naturals, FiniteSets, Sequences, SequencesExt

CONSTANTS Test,
          Workers,    \* tests Playwright runs at a time
          MaxRetries, \* runner.retries.max
          Capacity,   \* bound: lines the pipe and the reader's buffer take
          ErrorSizes, \* lengths of an error message the run may produce
          Quarantined \* ids of tests/sentinel/.quarantine.yaml

ASSUME RunnerAssumption ==
  /\ Workers \in Nat \ {0} /\ MaxRetries \in Nat /\ Capacity \in Nat \ {0}
  /\ ErrorSizes \subseteq {"short", "long", "huge"} /\ Quarantined \subseteq Test

(* "long": more than the 2048 characters of TestExecution.error_message,   *)
(* "huge": a line of more than the 64 KiB of asyncio's StreamReader.       *)
Failing == {"failed", "timed_out"}
Attempts == [status : {"passed", "skipped"}, error : {"none"}]
              \cup [status : Failing, error : ErrorSizes]

NoTest == "no test"
Line(type, t, a, n) == [type |-> type, test |-> t, attempt |-> a, retry |-> n]
NoAttempt == [status |-> "none", error |-> "none"]
Verdicts == {"passed", "failed", "timed_out", "interrupted"}

VARIABLES
  playwright, wrapper, \* the two processes
  stop,                \* why Playwright leaves tests out, if it does
  phase, results,      \* of each test: where it is, its attempts so far
  verdict,             \* the status in the run.end Playwright has sent
  pipe,                \* stdout, with the buffer of the reader
  stderrFull,          \* the wrapper writes more than the stderr pipe takes
  reader, fate,        \* of _consume: where it is, and how it will end
  heard, runStatus,    \* the accumulators, by test, and run_status
  status               \* of the module result

child == <<playwright, wrapper, stop, phase, results, verdict, stderrFull>>
engine == <<reader, fate, heard, runStatus, status>>
vars == <<child, pipe, engine>>

Over == reader \in {"returned", "raised"}
Running == {t \in Test : phase[t] = "running"}

TypeOK ==
  /\ playwright \in {"starting", "testing", "exited"}
  /\ wrapper \in {"waiting", "forwarding", "gone"}
  /\ stop \in {"no"} \cup Verdicts
  /\ phase \in [Test -> {"todo", "running", "over"}]
  /\ \A t \in Test : results[t] \in Seq(Attempts) /\ Len(results[t]) <= MaxRetries + 1
  /\ verdict \in Verdicts \cup {"none"}
  /\ Len(pipe) <= Capacity
  /\ stderrFull \in BOOLEAN
  /\ reader \in {"reading", "draining", "SIGINT", "SIGTERM", "SIGKILL", "returned", "raised"}
  /\ fate \in {"none", "returned", "raised"}
  /\ DOMAIN heard \subseteq Test /\ \A t \in DOMAIN heard : heard[t] \in Seq(Attempts)
  /\ runStatus \in Verdicts \cup {"none"}
  /\ status \in {"none", "passed", "failed", "skipped", "incomplete"}

Init ==
  /\ playwright = "starting" /\ wrapper = "waiting"
  /\ stop = "no" /\ verdict = "none"
  /\ phase = [t \in Test |-> "todo"] /\ results = [t \in Test |-> <<>>]
  /\ pipe = <<>> /\ stderrFull = FALSE
  /\ reader = "reading" /\ fate = "none"
  /\ heard = <<>> /\ runStatus = "none" /\ status = "none"

----------------------------------------------------------------------------
(* The reporter: emit() writes one line, and blocks while stdout is full.  *)
Say(line) ==
  /\ Len(pipe) < Capacity
  /\ pipe' = Append(pipe, line)
  /\ UNCHANGED <<wrapper, stderrFull, engine>>

(* onBegin; a spec file that does not load leaves every test out.          *)
Begin ==
  /\ playwright = "starting" /\ playwright' = "testing"
  /\ stop' \in {"no", "failed"}
  /\ Say(Line("run.start", NoTest, NoAttempt, 0))
  /\ UNCHANGED <<phase, results, verdict>>

StartTest(t) ==
  /\ playwright = "testing" /\ stop = "no"
  /\ phase[t] = "todo" /\ Cardinality(Running) < Workers
  /\ phase' = [phase EXCEPT ![t] = "running"]
  /\ Say(Line("test.start", t, NoAttempt, 0))
  /\ UNCHANGED <<playwright, stop, results, verdict>>

EndTest_ExtraRetry_Mutant(t) ==
  /\ playwright = "testing" /\ phase[t] = "running"
  /\ \E a \in Attempts :
       /\ results' = [results EXCEPT ![t] = Append(@, a)]
       /\ phase' = [phase EXCEPT ![t] =
            IF a.status \in Failing /\ Len(results[t]) <= MaxRetries /\ stop = "no" THEN "todo" ELSE "over"]
       /\ Say(Line("test.end", t, a, Len(results[t])))
  /\ UNCHANGED <<playwright, stop, verdict>>

(* onTestEnd, once for every attempt; --retries decides on another one.    *)
EndTest(t) ==
  /\ playwright = "testing" /\ phase[t] = "running"
  /\ \E a \in Attempts :
       /\ results' = [results EXCEPT ![t] = Append(@, a)]
       /\ phase' = [phase EXCEPT ![t] =
            IF a.status \in Failing /\ Len(results[t]) < MaxRetries /\ stop = "no" THEN "todo" ELSE "over"]
       /\ Say(Line("test.end", t, a, Len(results[t])))
  /\ UNCHANGED <<playwright, stop, verdict>>

(* Playwright reaches its own time limit, or is interrupted.               *)
StopEarly ==
  /\ playwright = "testing" /\ stop = "no" /\ verdict = "none"
  /\ stop' \in {"timed_out", "interrupted"}
  /\ UNCHANGED <<playwright, wrapper, phase, results, verdict, stderrFull, pipe, engine>>

(* onEnd, with Playwright's own status.                                    *)
EndRun ==
  /\ playwright = "testing" /\ verdict = "none"
  /\ IF stop = "no" THEN \A t \in Test : phase[t] = "over" ELSE Running = {}
  /\ verdict' = IF stop # "no" THEN stop
                ELSE IF \E t \in Test : Last(results[t]).status \in Failing THEN "failed"
                ELSE "passed"
  /\ Say(Line("run.end", NoTest, [NoAttempt EXCEPT !.status = verdict'], 0))
  /\ UNCHANGED <<playwright, stop, phase, results>>

Exit ==
  /\ playwright = "testing" /\ verdict # "none" /\ playwright' = "exited"
  /\ UNCHANGED <<wrapper, stop, phase, results, verdict, stderrFull, pipe, engine>>

(* Playwright dies, perhaps in the middle of a line; an attempt counts as  *)
(* ended once its line is written.                                         *)
Die ==
  /\ playwright # "exited" /\ playwright' = "exited"
  /\ \/ UNCHANGED pipe
     \/ Len(pipe) < Capacity /\ pipe' = Append(pipe, Line("cut", NoTest, NoAttempt, 0))
  /\ UNCHANGED <<wrapper, stop, phase, results, verdict, stderrFull, engine>>

(* runPlaywright: after a run that has not passed, the wrapper forwards    *)
(* what Playwright wrote to stderr, then it exits.                         *)
Forward ==
  /\ wrapper = "waiting" /\ playwright = "exited" /\ verdict # "passed"
  /\ wrapper' = "forwarding" /\ stderrFull' = TRUE
  /\ UNCHANGED <<playwright, stop, phase, results, verdict, pipe, engine>>

Close ==
  /\ \/ wrapper = "waiting" /\ playwright = "exited"
     \/ wrapper = "forwarding" /\ ~stderrFull
  /\ wrapper' = "gone"
  /\ UNCHANGED <<playwright, stop, phase, results, verdict, stderrFull, pipe, engine>>

(* The wrapper dies of a signal or for want of memory; Playwright goes on. *)
WrapperDies ==
  /\ wrapper # "gone" /\ wrapper' = "gone" /\ stderrFull' = FALSE
  /\ UNCHANGED <<playwright, stop, phase, results, verdict, pipe, engine>>

----------------------------------------------------------------------------
DrainStderr_Sequential_Mutant ==
  /\ stderrFull /\ reader = "draining" /\ stderrFull' = FALSE
  /\ UNCHANGED <<playwright, wrapper, stop, phase, results, verdict, pipe, engine>>

(* _drain_stream, a task of its own, until it is cancelled with the run.   *)
DrainStderr ==
  /\ stderrFull /\ reader \in {"reading", "draining"} /\ stderrFull' = FALSE
  /\ UNCHANGED <<playwright, wrapper, stop, phase, results, verdict, pipe, engine>>

Accumulated(t) == IF t \in DOMAIN heard THEN heard[t] ELSE <<>>
Heard(t, attempts) == heard' = [u \in DOMAIN heard \cup {t} |-> IF u = t THEN attempts ELSE heard[u]]

Take_Restart_Mutant(line) ==
  CASE line.type = "test.start" -> Heard(line.test, <<>>) /\ UNCHANGED runStatus
    [] line.type = "test.end" -> Heard(line.test, Append(Accumulated(line.test), line.attempt)) /\ UNCHANGED runStatus
    [] line.type = "run.end" -> runStatus' = line.attempt.status /\ UNCHANGED heard
    [] OTHER -> UNCHANGED <<heard, runStatus>>

(* The body of aggregate's loop; a line that does not parse is passed over *)
(* by _stream_or_partial, run.start only sets started_at.                  *)
Take(line) ==
  CASE line.type = "test.start" -> Heard(line.test, Accumulated(line.test)) /\ UNCHANGED runStatus
    [] line.type = "test.end" -> Heard(line.test, Append(Accumulated(line.test), line.attempt)) /\ UNCHANGED runStatus
    [] line.type = "run.end" -> runStatus' = line.attempt.status /\ UNCHANGED heard
    [] OTHER -> UNCHANGED <<heard, runStatus>>

(* StreamReader raises ValueError on a line beyond its limit, and nothing  *)
(* between it and the finally clause of _consume catches that.             *)
ReadLine ==
  /\ reader = "reading" /\ pipe # <<>> /\ pipe' = Tail(pipe)
  /\ IF Head(pipe).attempt.error = "huge"
       THEN reader' = "draining" /\ fate' = "raised" /\ UNCHANGED <<heard, runStatus>>
       ELSE Take(Head(pipe)) /\ UNCHANGED <<reader, fate>>
  /\ UNCHANGED <<child, status>>

Reported_AnyFailure_Mutant(t) ==
  LET as == heard[t] IN
  IF as = <<>> THEN "skipped" ELSE IF \E i \in DOMAIN as : as[i].status \in Failing THEN "failed" ELSE Last(as).status

(* _TestAccumulator.finalize: passed after a failed attempt is flaky.      *)
Reported(t) ==
  LET as == heard[t] IN
  IF as = <<>> THEN "skipped"
  ELSE IF Last(as).status = "passed" /\ \E i \in DOMAIN as : as[i].status \in Failing THEN "flaky"
  ELSE Last(as).status

(* The message of the last attempt that had an error; TestExecution        *)
(* rejects it when it is longer than its field.                            *)
Rejected(t) ==
  LET errors == SelectSeq(heard[t], LAMBDA a : a.error # "none")
  IN  errors # <<>> /\ Last(errors).error = "long"

BlockingFailure == \E t \in DOMAIN heard \ Quarantined : Reported(t) \in Failing

DeriveModuleStatus_EndOptional_Mutant ==
  IF runStatus = "interrupted" THEN "incomplete"
  ELSE IF BlockingFailure THEN "failed"
  ELSE IF DOMAIN heard # {} /\ \A t \in DOMAIN heard : Reported(t) = "skipped" THEN "skipped"
  ELSE "passed"

DeriveModuleStatus_TimeoutPasses_Mutant ==
  IF runStatus \in {"none", "interrupted"} THEN "incomplete"
  ELSE IF \E t \in DOMAIN heard \ Quarantined : Reported(t) = "failed" THEN "failed"
  ELSE IF DOMAIN heard # {} /\ \A t \in DOMAIN heard : Reported(t) = "skipped" THEN "skipped"
  ELSE "passed"

(* _derive_module_status.  The findings of derive_module_status are made   *)
(* from the same blocking failures and change nothing any more; a run      *)
(* status of timed_out or failed is not looked at.                         *)
DeriveModuleStatus ==
  IF runStatus \in {"none", "interrupted"} THEN "incomplete"
  ELSE IF BlockingFailure THEN "failed"
  ELSE IF DOMAIN heard # {} /\ \A t \in DOMAIN heard : Reported(t) = "skipped" THEN "skipped"
  ELSE "passed"

(* stdout is closed when both processes that hold it are gone.             *)
EndOfStream ==
  /\ reader = "reading" /\ pipe = <<>> /\ playwright = "exited" /\ wrapper = "gone"
  /\ reader' = "draining"
  /\ IF \E t \in DOMAIN heard : Rejected(t)
       THEN fate' = "raised" /\ UNCHANGED status
       ELSE fate' = "returned" /\ status' = DeriveModuleStatus
  /\ UNCHANGED <<child, pipe, heard, runStatus>>

(* The finally clause waits for the end of stderr, hence for the wrapper,  *)
(* without a limit; then for the exit of the process, within its grace.    *)
Finish ==
  /\ reader = "draining" /\ wrapper = "gone" /\ reader' = fate
  /\ UNCHANGED <<child, pipe, fate, heard, runStatus, status>>

(* The caller cancels: in the loop the signals of _terminate begin; in the *)
(* finally clause _safe_await_bytes swallows the cancellation, the wait    *)
(* after it does not.                                                      *)
Cancel ==
  /\ \/ reader = "reading" /\ reader' = IF wrapper = "gone" THEN "raised" ELSE "SIGINT"
     \/ reader = "draining" /\ reader' \in {fate, "raised"}
  /\ UNCHANGED <<child, pipe, fate, heard, runStatus, status>>

(* The wrapper ends of a signal; it may ignore the first two.              *)
Obey ==
  /\ reader \in {"SIGINT", "SIGTERM", "SIGKILL"} /\ wrapper # "gone"
  /\ wrapper' = "gone" /\ stderrFull' = FALSE
  /\ UNCHANGED <<playwright, stop, phase, results, verdict, pipe, engine>>

(* wait_for(proc.wait(), grace): the next signal when time is up.          *)
Escalate ==
  /\ \/ reader = "SIGINT" /\ wrapper # "gone" /\ reader' = "SIGTERM"
     \/ reader = "SIGTERM" /\ wrapper # "gone" /\ reader' = "SIGKILL"
     \/ reader \in {"SIGINT", "SIGTERM", "SIGKILL"} /\ wrapper = "gone" /\ reader' = "raised"
  /\ UNCHANGED <<child, pipe, fate, heard, runStatus, status>>

PlaywrightStep == Begin \/ (\E t \in Test : StartTest(t) \/ EndTest(t)) \/ EndRun \/ Exit
EngineStep == ReadLine \/ EndOfStream \/ Finish \/ Escalate

Next ==
  \/ PlaywrightStep \/ StopEarly \/ Die
  \/ Forward \/ Close \/ WrapperDies \/ Obey
  \/ EngineStep \/ DrainStderr \/ Cancel

(* A test ends within its timeout, a process that has nothing left to do   *)
(* exits, the kernel delivers SIGKILL, the event loop runs its tasks.      *)
Fairness ==
  /\ WF_vars(PlaywrightStep) /\ WF_vars(Close) /\ WF_vars(Obey /\ reader = "SIGKILL")
  /\ WF_vars(EngineStep) /\ WF_vars(DrainStderr)

Spec == Init /\ [][Next]_vars
FairSpec == Spec /\ Fairness

----------------------------------------------------------------------------
LastStatus(t) == Last(results[t]).status

(* What the engine aggregates is what Playwright did, every attempt of     *)
(* every test in its order, up to the end of the stream (aggregate).       *)
StreamIsFaithful ==
  reader = "returned" =>
    /\ runStatus = verdict
    /\ \A t \in Test : Accumulated(t) = results[t]

(* A stream that stops short is reported incomplete, whatever has been     *)
(* heard of it (results.py:12).                                            *)
PartialIsIncomplete ==
  reader = "returned" /\ verdict = "none" => status = "incomplete"

(* A module only passes when the run came to its end, every test that ran  *)
(* ended well or is quarantined, and no test was left out except by a spec *)
(* that does not load or by Playwright's own time limit.                   *)
PassedMeansRan ==
  status = "passed" =>
    /\ verdict # "none"
    /\ \A t \in Test \ Quarantined : results[t] # <<>> => LastStatus(t) \notin Failing
    /\ \A t \in Test : results[t] = <<>> => stop # "no"

(* When every test ran and no quarantined one failed, the engine's verdict *)
(* is Playwright's own: a flaky test passes, a test that failed all its    *)
(* attempts fails (finalize, _derive_module_status).                       *)
AgreesWithPlaywright ==
  /\ reader = "returned" /\ stop = "no" /\ verdict # "none"
  /\ \A t \in Quarantined : LastStatus(t) \notin Failing
  => status = IF \A t \in Test : LastStatus(t) = "skipped" THEN "skipped" ELSE verdict

(* The status of the module tells what Playwright did, also of a stream    *)
(* that stops short.                                                       *)
StatusIsTrue == PartialIsIncomplete /\ PassedMeansRan /\ AgreesWithPlaywright

(* _consume always comes to an end, however the processes die and whatever *)
(* they write to stderr, unless it has given up a stream with a huge line  *)
(* while the writer still waits for room in it.                            *)
Jammed == reader = "draining" /\ fate = "raised" /\ Len(pipe) = Capacity
EndsOrIsJammed == <>(Over \/ Jammed)

(* Stated by local.py:248: the runner does not deadlock on a full pipe.    *)
RunReturns == <>Over
=============================================================================
