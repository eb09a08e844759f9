------------------------- MODULE RunnerStreamProofs -------------------------
(***************************************************************************)
(* Proofs about one module run, for any tests, workers, retries, buffer    *)
(* sizes and lengths of error messages.                                    *)
(***************************************************************************)
EXTENDS RunnerStream, TLAPS

LineTypes == {"run.start", "test.start", "test.end", "run.end", "cut"}
Carried == Attempts \cup [status : Verdicts \cup {"none"}, error : {"none"}]
Lines == [type : LineTypes, test : Test \cup {NoTest}, attempt : Carried, retry : Nat]

(* What each kind of line carries; run.end carries the verdict sent.       *)
WellFormed(line, sent) ==
  /\ line.type \in {"test.start", "test.end"} => line.test \in Test
  /\ line.type = "test.end" => line.attempt \in Attempts
  /\ line.type = "run.end" => line.attempt.status = sent /\ sent \in Verdicts

PipeOK ==
  /\ pipe \in Seq(Lines) /\ Len(pipe) <= Capacity
  /\ \A i \in 1..Len(pipe) : WellFormed(pipe[i], verdict)

ChildOK ==
  /\ playwright \in {"starting", "testing", "exited"}
  /\ wrapper \in {"waiting", "forwarding", "gone"}
  /\ stop \in {"no"} \cup Verdicts
  /\ phase \in [Test -> {"todo", "running", "over"}]
  /\ verdict \in Verdicts \cup {"none"}
  /\ stderrFull \in BOOLEAN

(* A test that may still run has attempts left.                            *)
ResultsOK ==
  /\ results \in [Test -> Seq(Attempts)]
  /\ \A t \in Test : Len(results[t]) <= MaxRetries + 1
                     /\ (phase[t] # "over" => Len(results[t]) <= MaxRetries)

EngineOK ==
  /\ reader \in {"reading", "draining", "SIGINT", "SIGTERM", "SIGKILL", "returned", "raised"}
  /\ fate \in {"none", "returned", "raised"}
  /\ (reader = "draining" => fate # "none")
  /\ status \in {"none", "passed", "failed", "skipped", "incomplete"}

(* The run status the engine knows is the one that Playwright sent.        *)
HeardOK ==
  /\ DOMAIN heard \subseteq Test /\ \A t \in DOMAIN heard : heard[t] \in Seq(Attempts)
  /\ runStatus \in {"none", verdict}

TypeInv == ChildOK /\ ResultsOK /\ PipeOK /\ EngineOK /\ HeardOK

----------------------------------------------------------------------------
(* How a line is appended to a sequence, and how the first one leaves it.  *)
LEMMA AppendFacts ==
  ASSUME NEW S, NEW s \in Seq(S), NEW e \in S
  PROVE  /\ Append(s, e) \in Seq(S)
         /\ Len(s) \in Nat
         /\ Len(Append(s, e)) = Len(s) + 1
         /\ \A i \in 1..Len(s) : Append(s, e)[i] = s[i]
         /\ Append(s, e)[Len(s) + 1] = e
  OBVIOUS

(* How the first line leaves a sequence.                                   *)
LEMMA TailFacts ==
  ASSUME NEW S, NEW s \in Seq(S), s # <<>>
  PROVE  /\ Tail(s) \in Seq(S) /\ Head(s) = s[1] /\ Head(s) \in S
         /\ Len(s) \in Nat \ {0}
         /\ Len(Tail(s)) = Len(s) - 1
         /\ \A i \in 1..(Len(s) - 1) : Tail(s)[i] = s[i + 1]
  OBVIOUS

(* The inductive invariant contains the type invariant of the module.      *)
LEMMA TypeInvImpliesTypeOK == TypeInv => TypeOK
  BY DEF TypeInv, TypeOK, ChildOK, ResultsOK, PipeOK, EngineOK, HeardOK

(* The invariant holds when run_async has spawned the child.               *)
LEMMA RunnerTypeInit == Init => TypeInv
<1> SUFFICES ASSUME Init
             PROVE  TypeInv
  OBVIOUS
<1>1. ChildOK
  BY DEF Init, ChildOK
<1>2. PipeOK
  BY RunnerAssumption DEF Init, PipeOK
<1>3. \A t \in Test : results[t] = <<>>
  BY DEF Init
<1>4. ResultsOK
  BY <1>3, RunnerAssumption DEF Init, ResultsOK
<1>5. DOMAIN heard = {}
  BY DEF Init
<1>6. HeardOK /\ EngineOK
  BY <1>5 DEF Init, HeardOK, EngineOK
<1> QED BY <1>1, <1>2, <1>4, <1>6 DEF TypeInv

(* What the reporter may put into a line.                                  *)
LEMMA LinesFacts ==
  /\ \A type \in LineTypes, t \in Test \cup {NoTest}, a \in Carried, n \in Nat :
       /\ Line(type, t, a, n) \in Lines
       /\ Line(type, t, a, n).type = type /\ Line(type, t, a, n).test = t
       /\ Line(type, t, a, n).attempt = a /\ Line(type, t, a, n).retry = n
  /\ NoAttempt \in Carried
  /\ Attempts \subseteq Carried
<1>1. ASSUME NEW type \in LineTypes, NEW t \in Test \cup {NoTest}, NEW a \in Carried, NEW n \in Nat
      PROVE  /\ Line(type, t, a, n) \in Lines
             /\ Line(type, t, a, n).type = type /\ Line(type, t, a, n).test = t
             /\ Line(type, t, a, n).attempt = a /\ Line(type, t, a, n).retry = n
  BY DEF Line, Lines
<1>2. NoAttempt \in Carried /\ Attempts \subseteq Carried
  BY DEF NoAttempt, Carried
<1> QED BY <1>1, <1>2

(* A line of the reporter leaves the stream well formed.                   *)
LEMMA SayKeepsPipe ==
  ASSUME PipeOK, NEW line \in Lines, Say(line),
         WellFormed(line, verdict'), verdict' = verdict \/ verdict = "none"
  PROVE  PipeOK'
<1>1. /\ pipe' \in Seq(Lines) /\ Len(pipe') = Len(pipe) + 1 /\ pipe'[Len(pipe) + 1] = line
      /\ \A i \in 1..Len(pipe) : pipe'[i] = pipe[i]
      /\ Len(pipe) \in Nat
  BY AppendFacts DEF PipeOK, Say
<1>2. Len(pipe') <= Capacity
  BY <1>1, RunnerAssumption DEF Say
<1>3. ASSUME NEW i \in 1..Len(pipe)
      PROVE  WellFormed(pipe'[i], verdict')
  <2>1. WellFormed(pipe[i], verdict)
    BY DEF PipeOK
  <2> QED BY <1>1, <2>1 DEF WellFormed, Verdicts
<1>4. ASSUME NEW i \in 1..Len(pipe')
      PROVE  WellFormed(pipe'[i], verdict')
  BY <1>1, <1>3
<1> QED BY <1>1, <1>2, <1>4 DEF PipeOK

(* run.start keeps the types.                                              *)
LEMMA TypeBegin == TypeInv /\ Begin => TypeInv'
<1> SUFFICES ASSUME TypeInv, Begin
             PROVE  TypeInv'
  OBVIOUS
<1> DEFINE line == Line("run.start", NoTest, NoAttempt, 0)
<1>1. line \in Lines /\ WellFormed(line, verdict') /\ Say(line)
  BY LinesFacts DEF Begin, WellFormed, LineTypes
<1>2. PipeOK'
  BY <1>1, SayKeepsPipe DEF Begin, TypeInv
<1>3. ChildOK' /\ ResultsOK'
  BY DEF Begin, Say, TypeInv, ChildOK, ResultsOK, Verdicts, engine
<1>4. EngineOK' /\ HeardOK'
  BY DEF Begin, Say, TypeInv, EngineOK, HeardOK, engine
<1> QED BY <1>2, <1>3, <1>4 DEF TypeInv

(* test.start keeps the types.                                             *)
LEMMA TypeStartTest ==
  ASSUME NEW t \in Test, TypeInv, StartTest(t)
  PROVE  TypeInv'
<1> DEFINE line == Line("test.start", t, NoAttempt, 0)
<1>1. line \in Lines /\ WellFormed(line, verdict') /\ Say(line)
  BY LinesFacts DEF StartTest, WellFormed, LineTypes
<1>2. PipeOK'
  BY <1>1, SayKeepsPipe DEF StartTest, TypeInv
<1>3. ChildOK'
  BY DEF StartTest, Say, TypeInv, ChildOK
<1>4. ResultsOK'
  BY DEF StartTest, TypeInv, ChildOK, ResultsOK
<1>5. EngineOK' /\ HeardOK'
  BY DEF StartTest, Say, TypeInv, EngineOK, HeardOK, engine
<1> QED BY <1>2, <1>3, <1>4, <1>5 DEF TypeInv

(* test.end keeps the types: a retry only follows while some are left.     *)
LEMMA TypeEndTest ==
  ASSUME NEW t \in Test, TypeInv, EndTest(t)
  PROVE  TypeInv'
<1>1. PICK a \in Attempts :
        /\ results' = [results EXCEPT ![t] = Append(@, a)]
        /\ phase' = [phase EXCEPT ![t] =
             IF a.status \in Failing /\ Len(results[t]) < MaxRetries /\ stop = "no" THEN "todo" ELSE "over"]
        /\ Say(Line("test.end", t, a, Len(results[t])))
  BY DEF EndTest
<1> DEFINE line == Line("test.end", t, a, Len(results[t]))
<1>2. /\ results[t] \in Seq(Attempts) /\ Len(results[t]) \in Nat /\ Len(results[t]) <= MaxRetries
      /\ results \in [Test -> Seq(Attempts)] /\ phase \in [Test -> {"todo", "running", "over"}]
  BY DEF EndTest, TypeInv, ChildOK, ResultsOK
<1>3. a \in Carried
  BY LinesFacts
<1>4. line \in Lines /\ WellFormed(line, verdict') /\ Say(line)
  BY <1>1, <1>2, <1>3, LinesFacts DEF WellFormed, LineTypes
<1>5. PipeOK'
  BY <1>4, SayKeepsPipe DEF EndTest, TypeInv
<1>6. ChildOK'
  BY <1>1, <1>2 DEF EndTest, Say, TypeInv, ChildOK
<1>7. Append(results[t], a) \in Seq(Attempts) /\ Len(Append(results[t], a)) = Len(results[t]) + 1
  BY <1>2, AppendFacts
<1>8. results' \in [Test -> Seq(Attempts)]
  BY <1>1, <1>2, <1>7
<1>9. ASSUME NEW u \in Test
      PROVE  Len(results'[u]) <= MaxRetries + 1 /\ (phase'[u] # "over" => Len(results'[u]) <= MaxRetries)
  <2>1. CASE u = t
    <3>1. results'[u] = Append(results[t], a)
      BY <1>1, <1>2, <2>1
    <3>2. phase'[u] = "over" \/ Len(results[t]) < MaxRetries
      BY <1>1, <1>2, <2>1
    <3> QED BY <3>1, <3>2, <1>2, <1>7, RunnerAssumption
  <2>2. CASE u # t
    <3>1. results'[u] = results[u] /\ phase'[u] = phase[u]
      BY <1>1, <1>2, <2>2
    <3> QED BY <3>1 DEF TypeInv, ResultsOK
  <2> QED BY <2>1, <2>2
<1>10. ResultsOK'
  BY <1>8, <1>9 DEF ResultsOK
<1>11. EngineOK' /\ HeardOK'
  BY <1>1 DEF EndTest, Say, TypeInv, EngineOK, HeardOK, engine
<1> QED BY <1>5, <1>6, <1>10, <1>11 DEF TypeInv

(* run.end keeps the types: the verdict is sent once.                      *)
LEMMA TypeEndRun == TypeInv /\ EndRun => TypeInv'
<1> SUFFICES ASSUME TypeInv, EndRun
             PROVE  TypeInv'
  OBVIOUS
<1> DEFINE a == [NoAttempt EXCEPT !.status = verdict']
           line == Line("run.end", NoTest, a, 0)
<1>1. verdict' \in Verdicts /\ verdict = "none"
  BY DEF EndRun, TypeInv, ChildOK, Verdicts
<1>2. line \in Lines /\ WellFormed(line, verdict') /\ Say(line)
  <2>1. a \in Carried /\ a.status = verdict'
    BY <1>1 DEF NoAttempt, Carried, Verdicts
  <2>2. Say(line)
    BY DEF EndRun
  <2> HIDE DEF a
  <2>3. line \in Lines /\ line.type = "run.end" /\ line.attempt = a
    BY <2>1, LinesFacts DEF LineTypes
  <2> QED BY <1>1, <2>1, <2>2, <2>3 DEF WellFormed
<1>3. PipeOK'
  BY <1>1, <1>2, SayKeepsPipe DEF TypeInv
<1>4. ChildOK' /\ ResultsOK'
  BY <1>1, <1>2 DEF EndRun, Say, TypeInv, ChildOK, ResultsOK
<1>5. EngineOK' /\ HeardOK'
  BY <1>1, <1>2 DEF EndRun, Say, TypeInv, EngineOK, HeardOK, engine
<1> QED BY <1>3, <1>4, <1>5 DEF TypeInv

(* Playwright dies, perhaps after a line that is cut.                      *)
LEMMA TypeDie == TypeInv /\ Die => TypeInv'
<1> SUFFICES ASSUME TypeInv, Die
             PROVE  TypeInv'
  OBVIOUS
<1> DEFINE line == Line("cut", NoTest, NoAttempt, 0)
<1>1. line \in Lines /\ WellFormed(line, verdict')
  BY LinesFacts DEF WellFormed, LineTypes
<1>2. PipeOK'
  <2>1. CASE UNCHANGED pipe
    BY <2>1 DEF Die, TypeInv, PipeOK
  <2>2. CASE Len(pipe) < Capacity /\ pipe' = Append(pipe, line)
    <3>1. Say(line) /\ verdict' = verdict
      BY <2>2 DEF Die, Say
    <3> QED BY <1>1, <3>1, SayKeepsPipe DEF TypeInv
  <2> QED BY <2>1, <2>2 DEF Die
<1>3. ChildOK' /\ ResultsOK'
  BY DEF Die, TypeInv, ChildOK, ResultsOK
<1>4. EngineOK' /\ HeardOK'
  BY DEF Die, TypeInv, EngineOK, HeardOK, engine
<1> QED BY <1>2, <1>3, <1>4 DEF TypeInv

(* The steps that neither write nor read the stream.                       *)
QuietStep == StopEarly \/ Exit \/ Forward \/ Close \/ WrapperDies \/ Obey \/ DrainStderr
               \/ Finish \/ Cancel \/ Escalate

(* Exits, signals, stderr and cancellation keep the types.                 *)
LEMMA TypeQuiet == TypeInv /\ QuietStep => TypeInv'
<1> SUFFICES ASSUME TypeInv, QuietStep
             PROVE  TypeInv'
  OBVIOUS
<1>1. UNCHANGED <<phase, results, verdict, pipe, fate, heard, runStatus, status>>
  BY DEF QuietStep, StopEarly, Exit, Forward, Close, WrapperDies, Obey, DrainStderr, Finish, Cancel,
         Escalate, engine, child
<1>2. PipeOK' /\ ResultsOK' /\ HeardOK'
  BY <1>1 DEF TypeInv, PipeOK, ResultsOK, HeardOK
<1>3. ChildOK'
  BY DEF QuietStep, StopEarly, Exit, Forward, Close, WrapperDies, Obey, DrainStderr, Finish, Cancel,
         Escalate, child, TypeInv, ChildOK, Verdicts
<1>4. EngineOK'
  BY DEF QuietStep, StopEarly, Exit, Forward, Close, WrapperDies, Obey, DrainStderr, Finish, Cancel,
         Escalate, engine, TypeInv, EngineOK
<1> QED BY <1>2, <1>3, <1>4 DEF TypeInv
(* What the engine has heard after a line of each kind.                    *)
LEMMA TakeFacts ==
  ASSUME TypeInv, NEW line \in Lines, WellFormed(line, verdict), Take(line), verdict' = verdict
  PROVE  HeardOK'
<1>1. CASE line.type \in {"test.start", "test.end"}
  <2> DEFINE t == line.test
             attempts == IF line.type = "test.start" THEN Accumulated(t) ELSE Append(Accumulated(t), line.attempt)
  <2>1. t \in Test /\ Accumulated(t) \in Seq(Attempts)
    BY <1>1 DEF WellFormed, TypeInv, HeardOK, Accumulated
  <2>2. attempts \in Seq(Attempts)
    BY <1>1, <2>1, AppendFacts DEF WellFormed
  <2>3. Heard(t, attempts) /\ runStatus' = runStatus
    BY <1>1 DEF Take
  <2> HIDE DEF t, attempts
  <2> QED BY <2>1, <2>2, <2>3 DEF Heard, TypeInv, HeardOK
<1>2. CASE line.type = "run.end"
  <2>1. runStatus' = verdict /\ heard' = heard
    BY <1>2 DEF Take, WellFormed
  <2> QED BY <2>1 DEF TypeInv, HeardOK
<1>3. CASE line.type \notin {"test.start", "test.end", "run.end"}
  BY <1>3 DEF Take, TypeInv, HeardOK
<1> QED BY <1>1, <1>2, <1>3

(* Reading a line keeps the types.                                         *)
LEMMA TypeReadLine == TypeInv /\ ReadLine => TypeInv'
<1> SUFFICES ASSUME TypeInv, ReadLine
             PROVE  TypeInv'
  OBVIOUS
<1>1. ChildOK' /\ ResultsOK' /\ verdict' = verdict
  BY DEF ReadLine, child, TypeInv, ChildOK, ResultsOK
<1>2. /\ pipe' \in Seq(Lines) /\ Head(pipe) = pipe[1] /\ Head(pipe) \in Lines
      /\ Len(pipe) \in Nat \ {0} /\ Len(pipe') = Len(pipe) - 1
      /\ \A i \in 1..(Len(pipe) - 1) : pipe'[i] = pipe[i + 1]
  BY TailFacts DEF ReadLine, TypeInv, PipeOK
<1>3. PipeOK'
  <2>1. Len(pipe') <= Capacity
    BY <1>2, RunnerAssumption DEF TypeInv, PipeOK
  <2>2. ASSUME NEW i \in 1..Len(pipe')
        PROVE  WellFormed(pipe'[i], verdict')
    <3>1. i + 1 \in 1..Len(pipe) /\ pipe'[i] = pipe[i + 1]
      BY <1>2
    <3> QED BY <1>1, <3>1 DEF TypeInv, PipeOK
  <2> QED BY <1>2, <2>1, <2>2 DEF PipeOK
<1>4. WellFormed(Head(pipe), verdict)
  BY <1>2 DEF TypeInv, PipeOK
<1>5. EngineOK'
  BY DEF ReadLine, TypeInv, EngineOK
<1>6. HeardOK'
  <2>1. CASE UNCHANGED <<heard, runStatus>>
    BY <1>1, <2>1 DEF TypeInv, HeardOK
  <2>2. CASE Take(Head(pipe))
    BY <1>1, <1>2, <1>4, <2>2, TakeFacts
  <2> QED BY <2>1, <2>2 DEF ReadLine
<1> QED BY <1>1, <1>3, <1>5, <1>6 DEF TypeInv

(* Deriving the module status keeps the types.                             *)
LEMMA TypeEndOfStream == TypeInv /\ EndOfStream => TypeInv'
<1> SUFFICES ASSUME TypeInv, EndOfStream
             PROVE  TypeInv'
  OBVIOUS
<1>1. ChildOK' /\ ResultsOK' /\ PipeOK' /\ HeardOK'
  BY DEF EndOfStream, child, TypeInv, ChildOK, ResultsOK, PipeOK, HeardOK
<1>2. DeriveModuleStatus \in {"incomplete", "failed", "skipped", "passed"}
  BY DEF DeriveModuleStatus
<1>3. EngineOK'
  BY <1>2 DEF EndOfStream, TypeInv, EngineOK
<1> QED BY <1>1, <1>3 DEF TypeInv

(* The types hold after every step.                                        *)
LEMMA TypeNext ==
  ASSUME TypeInv, Next
  PROVE  TypeInv'
<1>1. CASE Begin
  BY <1>1, TypeBegin
<1>2. CASE \E t \in Test : StartTest(t) \/ EndTest(t)
  BY <1>2, TypeStartTest, TypeEndTest
<1>3. CASE EndRun
  BY <1>3, TypeEndRun
<1>4. CASE Die
  BY <1>4, TypeDie
<1>5. CASE QuietStep
  BY <1>5, TypeQuiet
<1>6. CASE ReadLine \/ EndOfStream
  BY <1>6, TypeReadLine, TypeEndOfStream
<1> QED BY <1>1, <1>2, <1>3, <1>4, <1>5, <1>6 DEF Next, PlaywrightStep, EngineStep, QuietStep

----------------------------------------------------------------------------
(* The line of an attempt of t.                                            *)
Ends(line, t) == line.type = "test.end" /\ line.test = t

(* The attempts of t that were heard are the first ones of its results,    *)
(* and the stream p holds the others, each once and in their order.        *)
Faithful(t, acc, res, p) ==
  /\ Len(acc) <= Len(res) /\ \A i \in 1..Len(acc) : acc[i] = res[i]
  /\ \A j \in 1..Len(p) : Ends(p[j], t) =>
       Len(acc) <= p[j].retry /\ p[j].retry < Len(res) /\ p[j].attempt = res[p[j].retry + 1]
  /\ \A i, j \in 1..Len(p) : i < j /\ Ends(p[i], t) /\ Ends(p[j], t) => p[i].retry < p[j].retry
  /\ \A n \in Len(acc)..(Len(res) - 1) : \E j \in 1..Len(p) : Ends(p[j], t) /\ p[j].retry = n

(* Every line has a number of retries.                                     *)
LEMMA RetryFacts ==
  ASSUME NEW p \in Seq(Lines)
  PROVE  \A j \in 1..Len(p) : p[j].retry \in Nat
<1>1. \A j \in 1..Len(p) : p[j] \in Lines
  OBVIOUS
<1>2. \A line \in Lines : line.retry \in Nat
  BY DEF Lines
<1> QED BY <1>1, <1>2

(* A line that is not an attempt of t, written or read, changes nothing.   *)
LEMMA WriteOther ==
  ASSUME NEW t, NEW acc \in Seq(Attempts), NEW res \in Seq(Attempts), NEW p \in Seq(Lines),
         Faithful(t, acc, res, p), NEW line \in Lines, ~Ends(line, t)
  PROVE  Faithful(t, acc, res, Append(p, line))
<1> DEFINE q == Append(p, line)
<1>1. /\ Len(q) = Len(p) + 1 /\ q[Len(p) + 1] = line /\ Len(p) \in Nat
      /\ \A i \in 1..Len(p) : q[i] = p[i]
  BY AppendFacts
<1> HIDE DEF q
<1>2. \A j \in 1..Len(q) : Ends(q[j], t) => j \in 1..Len(p) /\ Ends(p[j], t) /\ q[j] = p[j]
  <2> SUFFICES ASSUME NEW j \in 1..Len(q), Ends(q[j], t)
               PROVE  j \in 1..Len(p) /\ Ends(p[j], t) /\ q[j] = p[j]
    OBVIOUS
  <2>1. j # Len(p) + 1
    BY <1>1
  <2> QED BY <1>1, <2>1
<1>3. \A j \in 1..Len(p) : j \in 1..Len(q) /\ q[j] = p[j]
  BY <1>1
<1>4. \A j \in 1..Len(q) : Ends(q[j], t) =>
        Len(acc) <= q[j].retry /\ q[j].retry < Len(res) /\ q[j].attempt = res[q[j].retry + 1]
  BY <1>2 DEF Faithful
<1>5. \A i, j \in 1..Len(q) : i < j /\ Ends(q[i], t) /\ Ends(q[j], t) => q[i].retry < q[j].retry
  BY <1>2 DEF Faithful
<1>6. \A n \in Len(acc)..(Len(res) - 1) : \E j \in 1..Len(q) : Ends(q[j], t) /\ q[j].retry = n
  BY <1>3 DEF Faithful
<1> HIDE DEF Ends
<1> QED BY <1>4, <1>5, <1>6 DEF Faithful, q

(* Reading a line that is not an attempt of t changes nothing for t.       *)
LEMMA ReadOther ==
  ASSUME NEW t, NEW acc \in Seq(Attempts), NEW res \in Seq(Attempts), NEW p \in Seq(Lines), p # <<>>,
         Faithful(t, acc, res, p), ~Ends(Head(p), t)
  PROVE  Faithful(t, acc, res, Tail(p))
<1> DEFINE q == Tail(p)
<1>1. /\ Len(p) \in Nat \ {0} /\ Len(q) = Len(p) - 1 /\ Head(p) = p[1]
      /\ \A i \in 1..(Len(p) - 1) : q[i] = p[i + 1]
  BY TailFacts
<1> HIDE DEF q
<1>2. \A j \in 1..Len(q) : j + 1 \in 1..Len(p) /\ q[j] = p[j + 1]
  BY <1>1
<1>3. ASSUME NEW n \in Len(acc)..(Len(res) - 1)
      PROVE  \E j \in 1..Len(q) : Ends(q[j], t) /\ q[j].retry = n
  <2>1. PICK j \in 1..Len(p) : Ends(p[j], t) /\ p[j].retry = n
    BY DEF Faithful
  <2>2. j - 1 \in 1..Len(q) /\ q[j - 1] = p[j]
    BY <1>1, <2>1
  <2> QED BY <2>1, <2>2
<1>4. \A i, j \in 1..Len(q) : i < j => i + 1 < j + 1
  BY <1>1
<1>5. \A j \in 1..Len(q) : Ends(q[j], t) =>
        Len(acc) <= q[j].retry /\ q[j].retry < Len(res) /\ q[j].attempt = res[q[j].retry + 1]
  BY <1>2 DEF Faithful
<1>6. \A i, j \in 1..Len(q) : i < j /\ Ends(q[i], t) /\ Ends(q[j], t) => q[i].retry < q[j].retry
  <2> SUFFICES ASSUME NEW i \in 1..Len(q), NEW j \in 1..Len(q), i < j, Ends(q[i], t), Ends(q[j], t)
               PROVE  q[i].retry < q[j].retry
    OBVIOUS
  <2>1. /\ i + 1 \in 1..Len(p) /\ j + 1 \in 1..Len(p) /\ i + 1 < j + 1
        /\ q[i] = p[i + 1] /\ q[j] = p[j + 1]
    BY <1>2, <1>4
  <2> HIDE DEF Ends
  <2> QED BY <2>1 DEF Faithful
<1>7. Len(acc) <= Len(res) /\ \A i \in 1..Len(acc) : acc[i] = res[i]
  BY DEF Faithful
<1> HIDE DEF Ends
<1> QED BY <1>3, <1>5, <1>6, <1>7 DEF Faithful, q

(* An attempt of t ends: its line closes the stream.                       *)
LEMMA WriteOwn ==
  ASSUME NEW t, NEW acc \in Seq(Attempts), NEW res \in Seq(Attempts), NEW p \in Seq(Lines),
         Faithful(t, acc, res, p), NEW line \in Lines, Ends(line, t),
         line.attempt \in Attempts, line.retry = Len(res)
  PROVE  Faithful(t, acc, Append(res, line.attempt), Append(p, line))
<1> DEFINE q == Append(p, line)
           r == Append(res, line.attempt)
<1>1. /\ Len(q) = Len(p) + 1 /\ q[Len(p) + 1] = line /\ Len(p) \in Nat
      /\ \A i \in 1..Len(p) : q[i] = p[i]
  BY AppendFacts
<1>2. /\ Len(r) = Len(res) + 1 /\ r[Len(res) + 1] = line.attempt /\ Len(res) \in Nat
      /\ \A i \in 1..Len(res) : r[i] = res[i]
  BY AppendFacts
<1>3. Len(acc) \in Nat /\ Len(acc) <= Len(res)
  BY DEF Faithful
<1> HIDE DEF q, r
<1>4. \A i \in 1..Len(acc) : acc[i] = r[i]
  BY <1>2, <1>3 DEF Faithful
<1>5. ASSUME NEW j \in 1..Len(q), Ends(q[j], t)
      PROVE  Len(acc) <= q[j].retry /\ q[j].retry < Len(r) /\ q[j].attempt = r[q[j].retry + 1]
  <2>1. CASE j = Len(p) + 1
    BY <1>1, <1>2, <1>3, <2>1
  <2>2. CASE j \in 1..Len(p)
    <3>1. q[j] = p[j] /\ p[j].retry \in Nat
      BY <1>1, <2>2, RetryFacts
    <3>2. Len(acc) <= p[j].retry /\ p[j].retry < Len(res) /\ p[j].attempt = res[p[j].retry + 1]
      BY <1>5, <2>2, <3>1 DEF Faithful
    <3>3. p[j].retry < Len(r) /\ p[j].retry + 1 \in 1..Len(res)
      BY <1>2, <3>1, <3>2
    <3> QED BY <1>2, <3>1, <3>2, <3>3
  <2> QED BY <1>1, <2>1, <2>2
<1>6. ASSUME NEW i \in 1..Len(q), NEW j \in 1..Len(q), i < j, Ends(q[i], t), Ends(q[j], t)
      PROVE  q[i].retry < q[j].retry
  <2>1. i \in 1..Len(p) /\ q[i] = p[i]
    BY <1>1, <1>6
  <2>2. CASE j = Len(p) + 1
    BY <1>1, <1>6, <2>1, <2>2 DEF Faithful
  <2>3. CASE j \in 1..Len(p)
    BY <1>1, <1>6, <2>1, <2>3 DEF Faithful
  <2> QED BY <1>1, <2>2, <2>3
<1>7. ASSUME NEW n \in Len(acc)..(Len(r) - 1)
      PROVE  \E j \in 1..Len(q) : Ends(q[j], t) /\ q[j].retry = n
  <2>1. CASE n = Len(res)
    BY <1>1, <2>1
  <2>2. CASE n \in Len(acc)..(Len(res) - 1)
    <3>1. PICK j \in 1..Len(p) : Ends(p[j], t) /\ p[j].retry = n
      BY <2>2 DEF Faithful
    <3> QED BY <1>1, <3>1
  <2> QED BY <1>2, <1>3, <2>1, <2>2
<1>8. Len(acc) <= Len(r)
  BY <1>2, <1>3
<1> QED BY <1>4, <1>5, <1>6, <1>7, <1>8 DEF Faithful, q, r

(* An attempt of t is heard: it is the first one that was not.             *)
LEMMA ReadOwn ==
  ASSUME NEW t, NEW acc \in Seq(Attempts), NEW res \in Seq(Attempts), NEW p \in Seq(Lines), p # <<>>,
         Faithful(t, acc, res, p), Ends(Head(p), t), Head(p).attempt \in Attempts
  PROVE  Faithful(t, Append(acc, Head(p).attempt), res, Tail(p))
<1> DEFINE q == Tail(p)
           b == Append(acc, Head(p).attempt)
<1>1. /\ Len(p) \in Nat \ {0} /\ Len(q) = Len(p) - 1 /\ Head(p) = p[1]
      /\ \A i \in 1..(Len(p) - 1) : q[i] = p[i + 1]
  BY TailFacts
<1>2. /\ Len(b) = Len(acc) + 1 /\ b[Len(acc) + 1] = Head(p).attempt /\ Len(acc) \in Nat
      /\ \A i \in 1..Len(acc) : b[i] = acc[i]
  BY AppendFacts
<1>3. Len(res) \in Nat /\ Len(acc) <= Len(res) /\ \A j \in 1..Len(p) : p[j].retry \in Nat
  BY RetryFacts DEF Faithful
<1> HIDE DEF q, b
<1>4. 1 \in 1..Len(p) /\ Ends(p[1], t)
  BY <1>1
<1>5. /\ Len(acc) <= p[1].retry /\ p[1].retry < Len(res) /\ p[1].attempt = res[p[1].retry + 1]
  BY <1>4 DEF Faithful
<1>6. p[1].retry = Len(acc)
  <2>0. Len(acc) \in Len(acc)..(Len(res) - 1)
    BY <1>2, <1>3, <1>4, <1>5
  <2>1. PICK j \in 1..Len(p) : Ends(p[j], t) /\ p[j].retry = Len(acc)
    BY <2>0 DEF Faithful
  <2>2. j = 1 \/ p[1].retry < p[j].retry
    BY <1>1, <1>4, <2>1 DEF Faithful
  <2> QED BY <1>2, <1>3, <1>4, <1>5, <2>1, <2>2
<1>7. \A j \in 1..Len(q) : j + 1 \in 1..Len(p) /\ q[j] = p[j + 1] /\ 1 < j + 1
  BY <1>1
<1>8. Len(b) <= Len(res) /\ \A i \in 1..Len(b) : b[i] = res[i]
  BY <1>1, <1>2, <1>3, <1>5, <1>6 DEF Faithful
<1>9. ASSUME NEW j \in 1..Len(q), Ends(q[j], t)
      PROVE  Len(b) <= q[j].retry /\ q[j].retry < Len(res) /\ q[j].attempt = res[q[j].retry + 1]
  <2>1. p[1].retry < p[j + 1].retry
    BY <1>4, <1>7, <1>9 DEF Faithful
  <2>2. Len(b) <= q[j].retry
    BY <1>2, <1>3, <1>6, <1>7, <2>1
  <2> QED BY <1>7, <1>9, <2>2 DEF Faithful
<1>10. ASSUME NEW i \in 1..Len(q), NEW j \in 1..Len(q), i < j, Ends(q[i], t), Ends(q[j], t)
       PROVE  q[i].retry < q[j].retry
  <2>1. i + 1 < j + 1
    BY <1>1, <1>10
  <2> QED BY <1>7, <1>10, <2>1 DEF Faithful
<1>11. ASSUME NEW n \in Len(b)..(Len(res) - 1)
       PROVE  \E j \in 1..Len(q) : Ends(q[j], t) /\ q[j].retry = n
  <2>1. n \in Len(acc)..(Len(res) - 1) /\ n # Len(acc)
    BY <1>2, <1>3
  <2>2. PICK j \in 1..Len(p) : Ends(p[j], t) /\ p[j].retry = n
    BY <2>1 DEF Faithful
  <2>3. j # 1
    BY <1>6, <2>1, <2>2
  <2>4. j - 1 \in 1..Len(q) /\ q[j - 1] = p[j]
    BY <1>1, <2>2, <2>3
  <2> QED BY <2>2, <2>4
<1> QED BY <1>8, <1>9, <1>10, <1>11 DEF Faithful, q, b

(* When the stream is read to its end, everything was heard.               *)
LEMMA ReadAll ==
  ASSUME NEW t, NEW acc \in Seq(Attempts), NEW res \in Seq(Attempts), Faithful(t, acc, res, <<>>)
  PROVE  acc = res
<1>1. Len(acc) \in Nat /\ Len(res) \in Nat /\ Len(acc) <= Len(res)
  BY DEF Faithful
<1>2. ~(Len(acc) < Len(res))
  <2> SUFFICES ASSUME Len(acc) < Len(res)
               PROVE  FALSE
    OBVIOUS
  <2>1. Len(acc) \in Len(acc)..(Len(res) - 1)
    BY <1>1
  <2>2. \E j \in 1..Len(<<>>) : Ends(<<>>[j], t)
    BY <2>1 DEF Faithful
  <2> QED BY <2>2
<1>3. Len(acc) = Len(res) /\ \A i \in 1..Len(acc) : acc[i] = res[i]
  BY <1>1, <1>2 DEF Faithful
<1> QED BY <1>3
----------------------------------------------------------------------------
(* Nothing is lost between the reporter and the engine while the engine    *)
(* still reads: the attempts of every test, and the end of the run.        *)
EndSent(p) == \E j \in 1..Len(p) : p[j].type = "run.end"

StreamInv ==
  fate # "raised" =>
    /\ \A t \in Test : Faithful(t, Accumulated(t), results[t], pipe)
    /\ (runStatus = "none" /\ verdict # "none" => EndSent(pipe))

(* The engine derives a status when the stream has ended, and only then.   *)
EndInv ==
  /\ (fate = "returned" =>
        pipe = <<>> /\ playwright = "exited" /\ wrapper = "gone" /\ status = DeriveModuleStatus)
  /\ (reader = "reading" => fate = "none")
  /\ (reader = "returned" => fate = "returned")
  /\ (fate # "returned" => status = "none")

(* What Playwright says at the end of a run that left nothing out.         *)
RunInv ==
  /\ (playwright = "starting" => verdict = "none" /\ stop = "no")
  /\ (\A t \in Test : phase[t] = "over" => results[t] # <<>>)
  /\ (verdict # "none" /\ stop = "no" =>
        /\ \A t \in Test : phase[t] = "over"
        /\ verdict = IF \E t \in Test : LastStatus(t) \in Failing THEN "failed" ELSE "passed")

StreamInvs == TypeInv /\ StreamInv /\ EndInv /\ RunInv

(* The accumulators, the results and the stream have their types.          *)
LEMMA AccumulatedType ==
  ASSUME TypeInv, NEW t \in Test
  PROVE  Accumulated(t) \in Seq(Attempts) /\ results[t] \in Seq(Attempts) /\ pipe \in Seq(Lines)
  BY DEF TypeInv, HeardOK, ResultsOK, PipeOK, Accumulated

(* The stream invariants hold before anything is written.                  *)
LEMMA StreamInvsInit == Init => StreamInvs
<1> SUFFICES ASSUME Init
             PROVE  StreamInvs
  OBVIOUS
<1>1. TypeInv
  BY RunnerTypeInit
<1>2. DOMAIN heard = {} /\ pipe = <<>> /\ \A t \in Test : results[t] = <<>>
  BY DEF Init
<1>3. Len(<<>>) = 0
  OBVIOUS
<1>4. ASSUME NEW t \in Test
      PROVE  Faithful(t, Accumulated(t), results[t], pipe)
  <2>1. Accumulated(t) = <<>>
    BY <1>2 DEF Accumulated
  <2>2. Faithful(t, <<>>, <<>>, <<>>)
    BY <1>3 DEF Faithful
  <2> QED BY <1>2, <2>1, <2>2
<1>5. StreamInv
  BY <1>4 DEF Init, StreamInv
<1>6. EndInv /\ RunInv
  BY DEF Init, EndInv, RunInv
<1> QED BY <1>1, <1>5, <1>6 DEF StreamInvs

(* A step that reads nothing and ends no attempt keeps StreamInv.          *)
LEMMA StreamKept ==
  ASSUME TypeInv, StreamInv, UNCHANGED <<results, heard, runStatus, fate>>,
         \/ UNCHANGED <<pipe, verdict>>
         \/ \E line \in Lines : /\ pipe' = Append(pipe, line) /\ line.type # "test.end"
                               /\ (verdict' = verdict \/ line.type = "run.end")
  PROVE  StreamInv'
<1> SUFFICES ASSUME fate # "raised"
             PROVE  /\ \A t \in Test : Faithful(t, Accumulated(t)', results[t]', pipe')
                    /\ (runStatus' = "none" /\ verdict' # "none" => EndSent(pipe'))
  BY DEF StreamInv
<1>1. \A t \in Test : Faithful(t, Accumulated(t), results[t], pipe)
  BY DEF StreamInv
<1>2. \A t \in Test : Accumulated(t)' = Accumulated(t) /\ results[t]' = results[t]
  BY DEF Accumulated
<1>3. CASE UNCHANGED <<pipe, verdict>>
  BY <1>1, <1>2, <1>3 DEF StreamInv
<1>4. ASSUME NEW line \in Lines, pipe' = Append(pipe, line), line.type # "test.end",
             verdict' = verdict \/ line.type = "run.end"
      PROVE  /\ \A t \in Test : Faithful(t, Accumulated(t)', results[t]', pipe')
             /\ (runStatus' = "none" /\ verdict' # "none" => EndSent(pipe'))
  <2>1. ASSUME NEW t \in Test
        PROVE  Faithful(t, Accumulated(t)', results[t]', pipe')
    <3>1. ~Ends(line, t)
      BY <1>4 DEF Ends
    <3>2. Faithful(t, Accumulated(t), results[t], Append(pipe, line))
      BY <1>1, <3>1, AccumulatedType, WriteOther
    <3> QED BY <1>2, <1>4, <3>2
  <2>2. /\ Len(pipe') = Len(pipe) + 1 /\ pipe'[Len(pipe) + 1] = line /\ Len(pipe) \in Nat
        /\ \A i \in 1..Len(pipe) : pipe'[i] = pipe[i]
    BY <1>4, AppendFacts DEF TypeInv, PipeOK
  <2>3. EndSent(pipe) \/ line.type = "run.end" => EndSent(pipe')
    BY <2>2 DEF EndSent
  <2>4. runStatus' = "none" /\ verdict' # "none" => EndSent(pipe')
    BY <1>4, <2>3 DEF StreamInv
  <2> QED BY <2>1, <2>4
<1> QED BY <1>3, <1>4

(* No step but the end of an attempt and a read touches StreamInv.         *)
LEMMA StreamWrites ==
  ASSUME TypeInv, StreamInv, Begin \/ (\E t \in Test : StartTest(t)) \/ EndRun \/ Die \/ QuietStep
  PROVE  StreamInv'
<1>1. CASE Begin
  <2>1. Line("run.start", NoTest, NoAttempt, 0) \in Lines /\ Line("run.start", NoTest, NoAttempt, 0).type = "run.start"
    BY LinesFacts DEF LineTypes
  <2> QED BY <1>1, <2>1, StreamKept DEF Begin, Say, engine
<1>2. ASSUME NEW t \in Test, StartTest(t)
      PROVE  StreamInv'
  <2>1. Line("test.start", t, NoAttempt, 0) \in Lines /\ Line("test.start", t, NoAttempt, 0).type = "test.start"
    BY LinesFacts DEF LineTypes
  <2> QED BY <1>2, <2>1, StreamKept DEF StartTest, Say, engine
<1>3. CASE EndRun
  <2> DEFINE a == [NoAttempt EXCEPT !.status = verdict']
  <2>1. verdict' \in Verdicts
    BY <1>3 DEF EndRun, TypeInv, ChildOK, Verdicts
  <2>2. a \in Carried
    BY <2>1 DEF NoAttempt, Carried
  <2>3. pipe' = Append(pipe, Line("run.end", NoTest, a, 0)) /\ UNCHANGED <<results, heard, runStatus, fate>>
    BY <1>3 DEF EndRun, Say, engine
  <2> HIDE DEF a
  <2>4. Line("run.end", NoTest, a, 0) \in Lines /\ Line("run.end", NoTest, a, 0).type = "run.end"
    BY <2>2, LinesFacts DEF LineTypes
  <2> QED BY <2>3, <2>4, StreamKept
<1>4. CASE Die
  <2>1. Line("cut", NoTest, NoAttempt, 0) \in Lines /\ Line("cut", NoTest, NoAttempt, 0).type = "cut"
    BY LinesFacts DEF LineTypes
  <2> QED BY <1>4, <2>1, StreamKept DEF Die, engine
<1>5. CASE QuietStep
  <2>1. UNCHANGED <<results, heard, runStatus, fate, pipe, verdict>>
    BY <1>5 DEF QuietStep, StopEarly, Exit, Forward, Close, WrapperDies, Obey, DrainStderr, Finish, Cancel,
           Escalate, engine, child
  <2> QED BY <2>1, StreamKept
<1> QED BY <1>1, <1>2, <1>3, <1>4, <1>5
(* An attempt that ends is the next line of its test.                      *)
LEMMA StreamEndTest ==
  ASSUME TypeInv, StreamInv, NEW t \in Test, EndTest(t)
  PROVE  StreamInv'
<1>1. PICK a \in Attempts :
        /\ results' = [results EXCEPT ![t] = Append(@, a)]
        /\ pipe' = Append(pipe, Line("test.end", t, a, Len(results[t])))
        /\ UNCHANGED <<verdict, heard, runStatus, fate>>
  BY DEF EndTest, Say, engine
<1> DEFINE line == Line("test.end", t, a, Len(results[t]))
<1>2. results \in [Test -> Seq(Attempts)] /\ Len(results[t]) \in Nat /\ a \in Carried
  BY LinesFacts DEF TypeInv, ResultsOK
<1>3. line \in Lines /\ Ends(line, t) /\ line.attempt = a /\ line.retry = Len(results[t])
  BY <1>2, LinesFacts DEF LineTypes, Ends
<1> HIDE DEF line
<1>4. pipe' = Append(pipe, line)
  BY <1>1 DEF line
<1> SUFFICES ASSUME fate # "raised"
             PROVE  /\ \A u \in Test : Faithful(u, Accumulated(u)', results[u]', pipe')
                    /\ (runStatus' = "none" /\ verdict' # "none" => EndSent(pipe'))
  BY <1>1 DEF StreamInv
<1>5. ASSUME NEW u \in Test
      PROVE  Faithful(u, Accumulated(u)', results[u]', pipe')
  <2>1. Faithful(u, Accumulated(u), results[u], pipe) /\ Accumulated(u)' = Accumulated(u)
    BY <1>1 DEF StreamInv, Accumulated
  <2>2. CASE u = t
    <3>1. Faithful(t, Accumulated(t), Append(results[t], a), Append(pipe, line))
      BY <1>3, <2>1, <2>2, AccumulatedType, WriteOwn
    <3> QED BY <1>1, <1>2, <1>4, <2>1, <2>2, <3>1
  <2>3. CASE u # t
    <3>1. ~Ends(line, u)
      BY <1>3, <2>3 DEF Ends
    <3>2. Faithful(u, Accumulated(u), results[u], Append(pipe, line))
      BY <1>3, <2>1, <3>1, AccumulatedType, WriteOther
    <3> QED BY <1>1, <1>2, <1>4, <2>1, <2>3, <3>2
  <2> QED BY <2>2, <2>3
<1>6. runStatus' = "none" /\ verdict' # "none" => EndSent(pipe')
  <2>1. Len(pipe') = Len(pipe) + 1 /\ Len(pipe) \in Nat /\ \A i \in 1..Len(pipe) : pipe'[i] = pipe[i]
    BY <1>3, <1>4, AppendFacts DEF TypeInv, PipeOK
  <2>2. EndSent(pipe) => EndSent(pipe')
    BY <2>1 DEF EndSent
  <2> QED BY <1>1, <2>2 DEF StreamInv
<1> QED BY <1>5, <1>6

(* A line that is read is accounted for, whatever it is.                   *)
LEMMA StreamReadLine ==
  ASSUME TypeInv, StreamInv, ReadLine
  PROVE  StreamInv'
<1> DEFINE line == Head(pipe)
<1>1. UNCHANGED <<results, verdict>> /\ pipe' = Tail(pipe) /\ pipe # <<>>
  BY DEF ReadLine, child
<1>2. /\ line = pipe[1] /\ line \in Lines /\ Len(pipe) \in Nat \ {0} /\ Len(pipe') = Len(pipe) - 1
      /\ \A i \in 1..(Len(pipe) - 1) : pipe'[i] = pipe[i + 1]
  BY <1>1, TailFacts DEF TypeInv, PipeOK
<1>3. WellFormed(line, verdict)
  BY <1>2 DEF TypeInv, PipeOK
<1> HIDE DEF line
<1> SUFFICES ASSUME fate' # "raised"
             PROVE  /\ \A u \in Test : Faithful(u, Accumulated(u)', results[u]', pipe')
                    /\ (runStatus' = "none" /\ verdict' # "none" => EndSent(pipe'))
  BY DEF StreamInv
<1>4. Take(line) /\ fate # "raised"
  BY DEF ReadLine, line
<1>5. ASSUME NEW u \in Test
      PROVE  Faithful(u, Accumulated(u)', results[u]', pipe')
  <2>1. Faithful(u, Accumulated(u), results[u], pipe)
    BY <1>4 DEF StreamInv
  <2>2. CASE Ends(line, u)
    <3>1. Heard(u, Append(Accumulated(u), line.attempt)) /\ line.attempt \in Attempts
      BY <1>3, <1>4, <2>2 DEF Take, Ends, WellFormed
    <3>2. Accumulated(u)' = Append(Accumulated(u), line.attempt)
      BY <3>1 DEF Heard, Accumulated
    <3>3. Faithful(u, Append(Accumulated(u), line.attempt), results[u], Tail(pipe))
      BY <1>1, <2>1, <2>2, <3>1, AccumulatedType, ReadOwn DEF line
    <3> QED BY <1>1, <3>2, <3>3
  <2>3. CASE ~Ends(line, u)
    <3>1. Accumulated(u)' = Accumulated(u)
      <4>1. CASE line.type = "test.start"
        BY <1>4, <4>1 DEF Take, Heard, Accumulated
      <4>2. CASE line.type = "test.end"
        BY <1>4, <2>3, <4>2 DEF Take, Ends, Heard, Accumulated
      <4>3. CASE line.type \notin {"test.start", "test.end"}
        BY <1>4, <4>3 DEF Take, Accumulated
      <4> QED BY <4>1, <4>2, <4>3
    <3>2. Faithful(u, Accumulated(u), results[u], Tail(pipe))
      BY <1>1, <2>1, <2>3, AccumulatedType, ReadOther DEF line
    <3> QED BY <1>1, <3>1, <3>2
  <2> QED BY <2>2, <2>3
<1>6. ASSUME runStatus' = "none", verdict' # "none"
      PROVE  EndSent(pipe')
  <2>1. line.type # "run.end"
    BY <1>1, <1>3, <1>4, <1>6 DEF Take, WellFormed
  <2>2. runStatus = "none"
    BY <1>4, <1>6, <2>1 DEF Take
  <2>3. PICK j \in 1..Len(pipe) : pipe[j].type = "run.end"
    BY <1>1, <1>4, <1>6, <2>2 DEF StreamInv, EndSent
  <2>4. j - 1 \in 1..Len(pipe') /\ pipe'[j - 1] = pipe[j]
    BY <1>2, <2>1, <2>3
  <2> QED BY <2>3, <2>4 DEF EndSent
<1> QED BY <1>5, <1>6

(* The end of the stream keeps StreamInv.                                  *)
LEMMA StreamEndOfStream ==
  ASSUME TypeInv, StreamInv, EndInv, EndOfStream
  PROVE  StreamInv'
<1>1. UNCHANGED <<results, verdict, pipe, heard, runStatus>> /\ fate = "none"
  BY DEF EndOfStream, EndInv, child
<1>2. \A t \in Test : Accumulated(t)' = Accumulated(t)
  BY <1>1 DEF Accumulated
<1> QED BY <1>1, <1>2 DEF StreamInv

----------------------------------------------------------------------------
(* The end of the stream: the children are gone before a status is derived *)
(* and nothing is written or heard after that.                             *)
LEMMA EndKept ==
  ASSUME TypeInv, EndInv, Next
  PROVE  EndInv'
<1>1. CASE Begin \/ (\E t \in Test : StartTest(t) \/ EndTest(t)) \/ EndRun
  <2>1. playwright # "exited" /\ UNCHANGED engine
    BY <1>1 DEF Begin, StartTest, EndTest, EndRun, Say
  <2> QED BY <2>1 DEF EndInv, engine
<1>2. CASE Die \/ Exit \/ StopEarly
  <2>1. playwright # "exited" /\ UNCHANGED engine
    BY <1>2 DEF Die, Exit, StopEarly
  <2> QED BY <2>1 DEF EndInv, engine
<1>3. CASE Forward \/ Close \/ WrapperDies \/ Obey \/ DrainStderr
  <2>1. UNCHANGED <<playwright, pipe, engine>> /\ (wrapper = "gone" => wrapper' = "gone")
    BY <1>3 DEF Forward, Close, WrapperDies, Obey, DrainStderr
  <2>2. UNCHANGED DeriveModuleStatus
    BY <2>1 DEF DeriveModuleStatus, BlockingFailure, Reported, engine
  <2> QED BY <2>1, <2>2 DEF EndInv, engine
<1>4. CASE Finish \/ Cancel \/ Escalate
  <2>1. UNCHANGED <<playwright, wrapper, pipe, fate, heard, runStatus, status>>
    BY <1>4 DEF Finish, Cancel, Escalate, child
  <2>2. UNCHANGED DeriveModuleStatus
    BY <2>1 DEF DeriveModuleStatus, BlockingFailure, Reported
  <2>3. (reader' = "reading" => fate = "none") /\ (reader' = "returned" => fate = "returned")
    BY <1>4 DEF Finish, Cancel, Escalate, EndInv, TypeInv, EngineOK
  <2> QED BY <2>1, <2>2, <2>3 DEF EndInv
<1>5. CASE ReadLine
  <2>1. fate = "none" /\ status' = status /\ fate' \in {"none", "raised"} /\ reader' # "returned"
        /\ (reader' = "reading" => fate' = "none")
    BY <1>5 DEF ReadLine, EndInv
  <2> QED BY <2>1 DEF EndInv
<1>6. CASE EndOfStream
  <2>1. fate = "none" /\ status = "none" /\ reader' = "draining"
    BY <1>6 DEF EndOfStream, EndInv
  <2>2. UNCHANGED DeriveModuleStatus
    BY <1>6 DEF EndOfStream, DeriveModuleStatus, BlockingFailure, Reported
  <2>3. CASE fate' = "returned"
    <3>1. pipe' = <<>> /\ playwright' = "exited" /\ wrapper' = "gone" /\ status' = DeriveModuleStatus
      BY <1>6, <2>3 DEF EndOfStream, child
    <3> QED BY <2>1, <2>2, <2>3, <3>1 DEF EndInv
  <2>4. CASE fate' = "raised" /\ status' = status
    BY <2>1, <2>4 DEF EndInv
  <2> QED BY <1>6, <2>3, <2>4 DEF EndOfStream
<1> QED BY <1>1, <1>2, <1>3, <1>4, <1>5, <1>6 DEF Next, PlaywrightStep, EngineStep

(* Playwright's verdict on a complete run is that of its last attempts.    *)
LEMMA RunKept ==
  ASSUME TypeInv, RunInv, Next
  PROVE  RunInv'
<1>1. CASE Begin
  BY <1>1 DEF Begin, RunInv
<1>2. ASSUME NEW t \in Test, StartTest(t)
      PROVE  RunInv'
  BY <1>2 DEF StartTest, RunInv, TypeInv, ChildOK, LastStatus
<1>3. ASSUME NEW t \in Test, EndTest(t)
      PROVE  RunInv'
  <2>1. verdict = "none" \/ stop # "no"
    BY <1>3 DEF EndTest, RunInv
  <2>2. PICK a \in Attempts : results' = [results EXCEPT ![t] = Append(@, a)]
    BY <1>3 DEF EndTest
  <2>3. results \in [Test -> Seq(Attempts)] /\ phase \in [Test -> {"todo", "running", "over"}]
    BY DEF TypeInv, ResultsOK, ChildOK
  <2>4. Append(results[t], a) # <<>>
    BY <2>3
  <2>5. ASSUME NEW u \in Test, phase'[u] = "over"
        PROVE  results'[u] # <<>>
    BY <1>3, <2>2, <2>3, <2>4, <2>5 DEF EndTest, RunInv
  <2>6. UNCHANGED <<playwright, stop, verdict>> /\ playwright # "starting"
    BY <1>3 DEF EndTest
  <2> QED BY <2>1, <2>5, <2>6 DEF RunInv
<1>4. CASE EndRun
  <2>1. UNCHANGED <<playwright, stop, phase, results>> /\ playwright # "starting"
    BY <1>4 DEF EndRun
  <2>2. stop = "no" =>
          /\ \A t \in Test : phase[t] = "over"
          /\ verdict' = IF \E t \in Test : LastStatus(t) \in Failing THEN "failed" ELSE "passed"
    BY <1>4 DEF EndRun, LastStatus
  <2>3. \A t \in Test : LastStatus(t)' = LastStatus(t)
    BY <2>1 DEF LastStatus
  <2> QED BY <2>1, <2>2, <2>3 DEF RunInv
<1>5. CASE StopEarly
  BY <1>5 DEF StopEarly, RunInv
<1>6. CASE Exit \/ Die \/ Forward \/ Close \/ WrapperDies \/ Obey \/ DrainStderr
           \/ Finish \/ Cancel \/ Escalate \/ ReadLine \/ EndOfStream
  <2>1. UNCHANGED <<stop, phase, results, verdict>> /\ playwright' \in {playwright, "exited"}
    BY <1>6 DEF Exit, Die, Forward, Close, WrapperDies, Obey, DrainStderr, Finish, Cancel, Escalate,
           ReadLine, EndOfStream, child
  <2>2. \A t \in Test : LastStatus(t)' = LastStatus(t)
    BY <2>1 DEF LastStatus
  <2> QED BY <2>1, <2>2 DEF RunInv
<1> QED BY <1>1, <1>2, <1>3, <1>4, <1>5, <1>6 DEF Next, PlaywrightStep, EngineStep
(* The stream invariants are inductive.                                    *)
LEMMA StreamInvsInvariant == Spec => []StreamInvs
<1>1. StreamInvs /\ [Next]_vars => StreamInvs'
  <2> SUFFICES ASSUME StreamInvs, [Next]_vars
               PROVE  StreamInv' /\ EndInv' /\ RunInv' /\ TypeInv'
    BY DEF StreamInvs
  <2>1. TypeInv'
    <3>1. CASE UNCHANGED vars
      BY <3>1 DEF StreamInvs, vars, child, engine, TypeInv, ChildOK, ResultsOK, PipeOK, EngineOK, HeardOK
    <3>2. CASE Next
      BY <3>2, TypeNext DEF StreamInvs
    <3> QED BY <3>1, <3>2
  <2>2. CASE UNCHANGED vars
    <3>1. StreamInv'
      BY <2>2, StreamKept DEF StreamInvs, vars, child, engine
    <3>2. EndInv' /\ RunInv'
      BY <2>2 DEF StreamInvs, vars, child, engine, EndInv, RunInv, LastStatus, DeriveModuleStatus,
             BlockingFailure, Reported
    <3> QED BY <2>1, <3>1, <3>2
  <2>3. CASE Next
    <3>1. StreamInv'
      BY <2>3, StreamWrites, StreamEndTest, StreamReadLine, StreamEndOfStream
         DEF StreamInvs, Next, PlaywrightStep, EngineStep, QuietStep
    <3>2. EndInv' /\ RunInv'
      BY <2>3, EndKept, RunKept DEF StreamInvs
    <3> QED BY <2>1, <3>1, <3>2
  <2> QED BY <2>2, <2>3
<1> QED BY StreamInvsInit, <1>1, PTL DEF Spec

(* Type correctness: no test is run more often than its retries allow, the *)
(* stream stays within the pipe, and every status the engine derives is    *)
(* one the module result knows.                                            *)
THEOREM RunnerTypeCorrect == Spec => []TypeOK
<1>1. StreamInvs => TypeOK
  BY TypeInvImpliesTypeOK DEF StreamInvs
<1> QED BY <1>1, StreamInvsInvariant, PTL

(* When the stream has ended without an exception, all of it was heard.    *)
LEMMA AllHeard ==
  ASSUME StreamInvs, fate = "returned"
  PROVE  runStatus = verdict /\ \A t \in Test : Accumulated(t) = results[t]
<1>1. pipe = <<>> /\ TypeInv /\ StreamInv
  BY DEF StreamInvs, EndInv
<1>2. \A t \in Test : Accumulated(t) = results[t]
  BY <1>1, AccumulatedType, ReadAll DEF StreamInv
<1>3. ~EndSent(<<>>)
  BY DEF EndSent
<1>4. runStatus = verdict
  BY <1>1, <1>3 DEF StreamInv, TypeInv, HeardOK
<1> QED BY <1>2, <1>4

(* What aggregate makes of the stream is what Playwright did: the run      *)
(* status and every attempt of every test, in its order, however the two   *)
(* processes interleave, die or are cancelled.                             *)
THEOREM StreamFaithful == Spec => []StreamIsFaithful
<1>1. StreamInvs => StreamIsFaithful
  BY AllHeard DEF StreamIsFaithful, StreamInvs, EndInv
<1> QED BY <1>1, StreamInvsInvariant, PTL

(* A run whose run.end was never sent is reported incomplete.              *)
THEOREM PartialRunsIncomplete == Spec => []PartialIsIncomplete
<1>1. StreamInvs => PartialIsIncomplete
  BY AllHeard DEF PartialIsIncomplete, StreamInvs, EndInv, DeriveModuleStatus
<1> QED BY <1>1, StreamInvsInvariant, PTL

(* What finalize reports of a test follows its last attempt.               *)
LEMMA ReportedFacts ==
  ASSUME NEW t \in DOMAIN heard, heard[t] # <<>>
  PROVE  /\ (Reported(t) \in Failing <=> Last(heard[t]).status \in Failing)
         /\ (Reported(t) = "skipped" <=> Last(heard[t]).status = "skipped")
  BY DEF Reported, Failing

(* A passed module ran to its end without a blocking failure, and left no  *)
(* test out without a reason of Playwright's own.                          *)
THEOREM PassedRan == Spec => []PassedMeansRan
<1>1. StreamInvs => PassedMeansRan
  <2> SUFFICES ASSUME StreamInvs, status = "passed"
               PROVE  /\ verdict # "none"
                      /\ \A t \in Test \ Quarantined : results[t] # <<>> => LastStatus(t) \notin Failing
                      /\ \A t \in Test : results[t] = <<>> => stop # "no"
    BY DEF PassedMeansRan
  <2>1. fate = "returned" /\ DeriveModuleStatus = "passed"
    BY DEF StreamInvs, EndInv
  <2>2. runStatus = verdict /\ \A t \in Test : Accumulated(t) = results[t]
    BY <2>1, AllHeard
  <2>3. verdict # "none" /\ ~BlockingFailure
    BY <2>1, <2>2 DEF DeriveModuleStatus
  <2>4. ASSUME NEW t \in Test \ Quarantined, results[t] # <<>>
        PROVE  LastStatus(t) \notin Failing
    <3>1. t \in DOMAIN heard /\ heard[t] = results[t]
      BY <2>2, <2>4 DEF Accumulated
    <3> QED BY <2>3, <2>4, <3>1, ReportedFacts DEF BlockingFailure, LastStatus
  <2>5. \A t \in Test : results[t] = <<>> => stop # "no"
    BY <2>3 DEF StreamInvs, RunInv
  <2> QED BY <2>3, <2>4, <2>5
<1> QED BY <1>1, StreamInvsInvariant, PTL

(* On a complete run the engine says what Playwright says.  Without any    *)
(* test the engine says passed where the formula asks for skipped.         *)
THEOREM AgreesWithRun == ASSUME Test # {} PROVE Spec => []AgreesWithPlaywright
<1>1. StreamInvs => AgreesWithPlaywright
  <2> SUFFICES ASSUME StreamInvs, reader = "returned", stop = "no", verdict # "none",
                      \A t \in Quarantined : LastStatus(t) \notin Failing
               PROVE  status = IF \A t \in Test : LastStatus(t) = "skipped" THEN "skipped" ELSE verdict
    BY DEF AgreesWithPlaywright
  <2>1. status = DeriveModuleStatus /\ runStatus = verdict /\ \A t \in Test : Accumulated(t) = results[t]
    BY AllHeard DEF StreamInvs, EndInv
  <2>2. /\ verdict = IF \E t \in Test : LastStatus(t) \in Failing THEN "failed" ELSE "passed"
        /\ \A t \in Test : results[t] # <<>>
    BY DEF StreamInvs, RunInv
  <2>3. DOMAIN heard = Test /\ \A t \in Test : heard[t] = results[t] /\ heard[t] # <<>>
    BY <2>1, <2>2 DEF Accumulated, StreamInvs, TypeInv, HeardOK
  <2>4. \A t \in Test : /\ (Reported(t) \in Failing <=> LastStatus(t) \in Failing)
                       /\ (Reported(t) = "skipped" <=> LastStatus(t) = "skipped")
    BY <2>3, ReportedFacts DEF LastStatus
  <2>5. BlockingFailure <=> \E t \in Test : LastStatus(t) \in Failing
    BY <2>3, <2>4 DEF BlockingFailure
  <2>6. (\E t \in Test : LastStatus(t) \in Failing) => ~\A t \in Test : LastStatus(t) = "skipped"
    BY DEF Failing
  <2> QED BY <2>1, <2>2, <2>3, <2>4, <2>5, <2>6 DEF DeriveModuleStatus
<1> QED BY <1>1, StreamInvsInvariant, PTL

(* The status of a module tells what Playwright did, for any tests but     *)
(* none at all, any workers, retries and buffer sizes.                     *)
THEOREM StatusTrue == ASSUME Test # {} PROVE Spec => []StatusIsTrue
<1>1. Spec => []PartialIsIncomplete
  BY PartialRunsIncomplete
<1>2. Spec => []PassedMeansRan
  BY PassedRan
<1>3. Spec => []AgreesWithPlaywright
  BY AgreesWithRun
<1> QED BY <1>1, <1>2, <1>3, PTL DEF StatusIsTrue
=============================================================================
