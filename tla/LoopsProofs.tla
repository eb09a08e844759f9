---------------------------- MODULE LoopsProofs ----------------------------
(***************************************************************************)
(* Proofs about the components that go on against surroundings that change *)
(* meanwhile: what language models may cost, watching a tree, reading the  *)
(* results from Redis, crawling a site, and what discovery concludes.  They*)
(* hold for any caps, costs and rates, any files and debounce time, any    *)
(* results and readers, any site and crawls of it, and executions of any   *)
(* length.                                                                 *)
(***************************************************************************)
EXTENDS MCLoops, FiniteSetTheorems, SequenceTheorems, TLAPS

(***************************************************************************)
(* LlmSpend.  Type correctness and the two bounds are inductive together:  *)
(* a call is checked with its estimate against the totals, and exceeds the *)
(* estimate by no more than the worst excess there was.                    *)
(***************************************************************************)
SpendInv == LlTypeOK /\ SpendIsBounded

\* What fits with its estimate fits with its cost, up to the excess.
LEMMA Excess ==
  ASSUME NEW total \in Nat, NEW estimate \in Nat, NEW spent \in Nat,
         NEW cap \in Nat, NEW excess \in Nat,
         total + estimate <= cap, excess >= spent - estimate
  PROVE  total + spent <= cap + excess
  OBVIOUS

\* What a client records of an answer is a cost.
LEMMA RecordedIsNat ==
  ASSUME NEW estimate \in Cost, NEW cost \in Cost, NEW outcome \in Outcome
  PROVE  /\ estimate \in Nat
         /\ RecordedCost(outcome, cost) \in Nat
  BY CapsAreCosts DEF RecordedCost, Outcome

\* The request and the record keep the bounds of a caller and of the run,
\* given that the estimate fitted into them.
LEMMA SendKeepsBounds ==
  ASSUME SpendInv, NEW c \in Caller,
         NEW estimate \in Cost, NEW cost \in Cost, NEW outcome \in Outcome,
         Send(c, estimate, outcome, cost), client' = client,
         client = "provider" => WithinBudget(c, estimate),
         client # "provider" => WithinOwnCap(c, estimate)
  PROVE  /\ byCaller' \in [Caller -> Nat]
         /\ posts' = posts + 1
         /\ worst' \in Nat
         /\ RecordedWithinCap'
  <1> DEFINE spent == RecordedCost(outcome, cost)
  <1>1. spent \in Nat /\ estimate \in Nat
    BY RecordedIsNat
  <1>2. /\ byCaller \in [Caller -> Nat] /\ worst \in Nat
        /\ RunCap \in Nat /\ CallerCap \in [Caller -> Nat]
    BY CapsAreCosts DEF SpendInv, LlTypeOK
  <1>3. /\ byCaller' = [byCaller EXCEPT ![c] = @ + spent]
        /\ posts' = posts + 1
        /\ worst' = IF spent - estimate > worst THEN spent - estimate ELSE worst
    BY DEF Send
  <1> HIDE DEF spent
  <1>4. /\ worst' \in Nat /\ worst' >= worst /\ worst' >= spent - estimate
        /\ byCaller' \in [Caller -> Nat]
    BY <1>1, <1>2, <1>3
  <1>5. \A d \in Caller : byCaller'[d] = IF d = c THEN byCaller[d] + spent ELSE byCaller[d]
    BY <1>2, <1>3
  <1>6. Total' = Total + spent
    BY <1>1, <1>2, <1>5 DEF Total, Caller
  <1>7. Total \in Nat
    BY <1>2 DEF Total, Caller
  <1>8. CASE client = "provider"
    <2>1. /\ Total + estimate <= RunCap
          /\ byCaller[c] + estimate <= CallerCap[c]
      BY <1>8 DEF WithinBudget
    <2>2. Total' <= RunCap + worst'
      BY <2>1, <1>1, <1>2, <1>4, <1>6, <1>7, Excess
    <2>3. \A d \in Caller : byCaller'[d] <= CallerCap[d] + worst'
      <3> TAKE d \in Caller
      <3>1. byCaller[d] <= CallerCap[d] + worst
        BY <1>8 DEF SpendInv, SpendIsBounded, RecordedWithinCap
      <3>2. byCaller[d] \in Nat /\ CallerCap[d] \in Nat
        BY <1>2
      <3> QED BY <3>1, <3>2, <2>1, <1>1, <1>2, <1>4, <1>5
    <2> QED BY <1>8, <1>3, <1>4, <2>2, <2>3 DEF RecordedWithinCap
  <1>9. CASE client # "provider"
    <2>1. byCaller[c] + estimate <= RunCap
      BY <1>9 DEF WithinOwnCap
    <2>2. \A d \in Caller : byCaller'[d] <= RunCap + worst'
      <3> TAKE d \in Caller
      <3>1. byCaller[d] <= RunCap + worst
        BY <1>9 DEF SpendInv, SpendIsBounded, RecordedWithinCap
      <3>2. byCaller[d] \in Nat
        BY <1>2
      <3> QED BY <3>1, <3>2, <2>1, <1>1, <1>2, <1>4, <1>5
    <2> QED BY <1>9, <1>3, <1>4, <2>2 DEF RecordedWithinCap
  <1> QED BY <1>8, <1>9

\* A call that is not sent leaves the bounds as they are.
LEMMA NotSentKeepsBounds ==
  ASSUME SpendInv, NotSent, client' = client
  PROVE  /\ byCaller' \in [Caller -> Nat]
         /\ posts' = posts
         /\ worst' \in Nat
         /\ RecordedWithinCap'
  BY DEF SpendInv, LlTypeOK, SpendIsBounded, NotSent, RecordedWithinCap, Total

LEMMA SpendStep ==
  ASSUME SpendInv, [LlNext]_llVars PROVE SpendInv'
  <1> USE DEF SpendInv
  <1>1. ASSUME Refill PROVE SpendInv'
    <2>1. /\ client \in {"provider", "planner", "explainer"} /\ byCaller \in [Caller -> Nat]
          /\ tokens \in Nat /\ tokens <= Capacity /\ calls \in Nat /\ ticks \in Nat
          /\ posts \in Nat /\ worst \in Nat /\ Capacity \in Nat /\ Rate \in Nat
      BY BucketIsNatural DEF LlTypeOK
    <2>2. tokens' \in 0..Capacity /\ tokens' <= tokens + Rate /\ ticks' = ticks + 1
      BY <1>1, <2>1 DEF Refill
    <2>3. /\ client' = client /\ byCaller' = byCaller /\ calls' = calls
          /\ posts' = posts /\ worst' = worst
      BY <1>1 DEF Refill
    <2> DEFINE refilled(n) == Rate * n
    <2>4. refilled(ticks + 1) = refilled(ticks) + Rate /\ refilled(ticks) \in Nat
      BY <2>1
    <2>5. RateHolds'
      <3> SUFFICES ASSUME client = "provider" PROVE posts + tokens' <= Capacity + refilled(ticks + 1)
        BY <2>2, <2>3 DEF RateHolds
      <3>1. posts + tokens <= Capacity + refilled(ticks)
        BY DEF SpendIsBounded, RateHolds
      <3> HIDE DEF refilled, SpendInv
      <3> QED BY <3>1, <2>1, <2>2, <2>4
    <2>6. RecordedWithinCap'
      BY <2>3 DEF SpendIsBounded, RecordedWithinCap, Total
    <2>7. LlTypeOK'
      BY <2>1, <2>2, <2>3 DEF LlTypeOK
    <2> QED BY <2>5, <2>6, <2>7 DEF SpendIsBounded
  <1>2. ASSUME NEW estimate \in Cost, NEW cost \in Cost, NEW outcome \in Outcome,
               ProposeOrRefine(estimate, outcome, cost)
        PROVE  SpendInv'
    <2> DEFINE c == IF client = "planner" THEN "planner" ELSE "analyzer"
    <2>1. /\ client # "provider" /\ client' = client /\ calls' = calls + 1 /\ ticks' = ticks
          /\ tokens' = tokens
          /\ IF outcome # "noKey" /\ WithinOwnCap(c, estimate)
             THEN Send(c, estimate, outcome, cost) ELSE NotSent
      BY <1>2 DEF ProposeOrRefine, Asked
    <2>2. c \in Caller
      BY DEF Caller
    <2> HIDE DEF c
    <2>3. /\ byCaller' \in [Caller -> Nat] /\ worst' \in Nat /\ RecordedWithinCap'
          /\ posts' \in {posts, posts + 1}
      BY <2>1, <2>2, SendKeepsBounds, NotSentKeepsBounds
    <2>4. RateHolds'
      BY <2>1 DEF RateHolds
    <2>5. LlTypeOK'
      BY <2>1, <2>3 DEF LlTypeOK
    <2> QED BY <2>3, <2>4, <2>5 DEF SpendIsBounded
  <1>3. ASSUME NEW estimate \in Cost, NEW cost \in Cost, NEW outcome \in Outcome,
               NEW c \in Caller, Complete(c, estimate, outcome, cost)
        PROVE  SpendInv'
    <2>1. /\ client = "provider" /\ client' = client /\ calls' = calls + 1 /\ ticks' = ticks
          /\ tokens' = IF tokens > 0 THEN tokens - 1 ELSE tokens
          /\ IF tokens > 0 /\ outcome # "noKey" /\ WithinBudget(c, estimate)
             THEN Send(c, estimate, outcome, cost) ELSE NotSent
      BY <1>3 DEF Complete, Asked
    <2>2. /\ byCaller' \in [Caller -> Nat] /\ worst' \in Nat /\ RecordedWithinCap'
          /\ \/ posts' = posts
             \/ tokens > 0 /\ posts' = posts + 1
      <3>1. CASE tokens > 0 /\ outcome # "noKey" /\ WithinBudget(c, estimate)
        <4> HIDE DEF SpendInv
        <4> QED BY <3>1, <2>1, SendKeepsBounds
      <3>2. CASE ~(tokens > 0 /\ outcome # "noKey" /\ WithinBudget(c, estimate))
        <4> HIDE DEF SpendInv
        <4> QED BY <3>2, <2>1, NotSentKeepsBounds
      <3> QED BY <3>1, <3>2
    <2>3. /\ tokens \in Nat /\ tokens <= Capacity /\ posts \in Nat /\ ticks \in Nat
          /\ Capacity \in Nat /\ Rate \in Nat
      BY BucketIsNatural DEF LlTypeOK
    <2>4. posts' + tokens' <= posts + tokens
      BY <2>1, <2>2, <2>3
    <2>6. posts' \in Nat /\ tokens' \in 0..Capacity
      <3>1. CASE tokens > 0
        BY <3>1, <2>1, <2>2, <2>3
      <3>2. CASE ~(tokens > 0)
        BY <3>2, <2>1, <2>2, <2>3
      <3> QED BY <3>1, <3>2
    <2>7. RateHolds'
      <3> DEFINE refilled == Rate * ticks
      <3>1. refilled \in Nat
        BY <2>3
      <3>2. posts + tokens <= Capacity + refilled
        BY <2>1 DEF SpendIsBounded, RateHolds
      <3> HIDE DEF refilled, SpendInv
      <3>3. posts' + tokens' \in Int /\ posts + tokens \in Int /\ Capacity + refilled \in Int
        BY <3>1, <2>3, <2>6
      <3>4. posts' + tokens' <= Capacity + refilled
        BY <3>2, <3>3, <2>4
      <3> QED BY <3>4, <2>1 DEF RateHolds, refilled
    <2>8. LlTypeOK'
      BY <2>1, <2>2, <2>6 DEF LlTypeOK
    <2> QED BY <2>2, <2>7, <2>8 DEF SpendIsBounded
  <1>4. CASE UNCHANGED llVars
    BY <1>4 DEF llVars, LlTypeOK, SpendIsBounded, RecordedWithinCap, RateHolds, Total
  <1> QED BY <1>1, <1>2, <1>3, <1>4 DEF LlNext

LEMMA SpendInit == LlInit => SpendInv
  <1> HAVE LlInit
  <1>1. LlTypeOK
    BY BucketIsNatural DEF LlInit, LlTypeOK
  <1>2. RecordedWithinCap
    BY CapsAreCosts DEF LlInit, RecordedWithinCap, Total, Caller
  <1>3. RateHolds
    BY BucketIsNatural DEF LlInit, RateHolds
  <1> QED BY <1>1, <1>2, <1>3 DEF SpendInv, SpendIsBounded

\* However calls are estimated, refused, fail or come out dearer than thought,
\* what is recorded stays within every cap up to the largest error of one
\* estimate, and a provider is asked no more often than the bucket allows
\* (pre_check, add, ensure_within_budget, try_consume).
THEOREM SpendStaysBounded == LlSpec => []SpendIsBounded
  <1>1. SpendInv => SpendIsBounded
    BY DEF SpendInv
  <1> QED BY <1>1, SpendInit, SpendStep, PTL DEF LlSpec

\* The budget, the bucket and their histories keep their types.
THEOREM SpendTyped == LlSpec => []LlTypeOK
  <1>1. SpendInv => LlTypeOK
    BY DEF SpendInv
  <1> QED BY <1>1, SpendInit, SpendStep, PTL DEF LlSpec

(***************************************************************************)
(* WatchLoop.  A modification time is never ahead of the clock of the      *)
(* edits, so that no later edit can look like what a snapshot, or a walk   *)
(* that is under way, already holds.                                       *)
(***************************************************************************)
TimesArePast ==
  /\ \A f \in File : mtime[f] <= edits /\ snapshot[f] <= edits
  /\ walk \in [DOMAIN walk -> Nat]
  /\ \A f \in DOMAIN walk : walk[f] <= edits

WatchInv == WaTypeOK /\ TimesArePast /\ NoEditForgotten

LEMMA WatchInit == WaInit => WatchInv
  BY PollsArePositive DEF WaInit, WatchInv, WaTypeOK, Stage, TimesArePast, NoEditForgotten

\* An edit is newer than every time that was read before it, so a file that
\* looks as in the last snapshot was not edited since.
LEMMA EditIsNoticed ==
  ASSUME WatchInv, NEW f \in File, NEW gone \in BOOLEAN, Edit(f, gone)
  PROVE  WatchInv'
  <1>1. /\ edits \in Nat /\ edits' = edits + 1
        /\ mtime \in [File -> Nat] /\ snapshot \in [File -> Nat]
        /\ mtime' = [mtime EXCEPT ![f] = IF gone THEN 0 ELSE edits + 1]
        /\ loop' = loop /\ snapshot' = snapshot /\ walk' = walk
        /\ deadline' = deadline /\ audited' = audited
    BY DEF WatchInv, WaTypeOK, Edit
  <1>2. mtime' \in [File -> Nat]
    BY <1>1
  <1>3. WaTypeOK'
    BY <1>1, <1>2 DEF WatchInv, WaTypeOK
  <1>4. TimesArePast'
    <2>1. \A g \in File : mtime'[g] <= edits' /\ snapshot'[g] <= edits'
      BY <1>1 DEF WatchInv, TimesArePast
    <2>2. \A g \in DOMAIN walk' : walk'[g] <= edits'
      <3> TAKE g \in DOMAIN walk'
      <3>1. walk[g] \in Nat /\ walk[g] <= edits
        BY <1>1 DEF WatchInv, TimesArePast
      <3> QED BY <3>1, <1>1
    <2> QED BY <2>1, <2>2, <1>1 DEF WatchInv, TimesArePast
  <1>5. NoEditForgotten'
    <2> SUFFICES ASSUME loop' \in {"poll", "audit"}, NEW g \in File,
                        snapshot'[g] = mtime'[g], mtime'[g] # 0
                 PROVE  audited'[g] = mtime'[g]
      BY DEF NoEditForgotten
    <2>1. mtime'[g] # edits + 1
      <3>1. snapshot[g] \in Nat /\ snapshot[g] <= edits
        BY <1>1 DEF WatchInv, TimesArePast
      <3> QED BY <3>1, <1>1
    <2>2. mtime'[g] = mtime[g]
      BY <2>1, <1>1
    <2> QED BY <2>2, <1>1 DEF WatchInv, NoEditForgotten
  <1> QED BY <1>3, <1>4, <1>5 DEF WatchInv

\* What a walk reads is not ahead of the clock.
LEMMA VisitKeepsWatch ==
  ASSUME WatchInv, NEW f \in File, Visit(f)
  PROVE  WatchInv'
  <1>1. /\ mtime' = mtime /\ edits' = edits /\ loop' = loop /\ snapshot' = snapshot
        /\ deadline' = deadline /\ audited' = audited
        /\ walk' = [g \in DOMAIN walk \cup {f} |-> IF g = f THEN mtime[f] ELSE walk[g]]
    BY DEF Visit
  <1>2. mtime[f] \in Nat /\ mtime[f] <= edits
    BY DEF WatchInv, WaTypeOK, TimesArePast
  <1>3. /\ DOMAIN walk' \subseteq File
        /\ walk' \in [DOMAIN walk' -> Nat]
        /\ \A g \in DOMAIN walk' : walk'[g] <= edits
    <2>1. DOMAIN walk' = DOMAIN walk \cup {f}
      BY <1>1
    <2>2. \A g \in DOMAIN walk' : walk'[g] \in Nat /\ walk'[g] <= edits
      BY <1>1, <1>2 DEF WatchInv, TimesArePast
    <2> QED BY <2>1, <2>2, <1>1 DEF WatchInv, WaTypeOK
  <1> QED BY <1>1, <1>3 DEF WatchInv, WaTypeOK, TimesArePast, NoEditForgotten

\* A snapshot that was taken is one of all files, and the next walk begins.
LEMMA TakenFacts ==
  ASSUME WatchInv, Taken
  PROVE  /\ walk \in [File -> Nat] /\ \A f \in File : walk[f] <= edits
         /\ snapshot' = walk /\ walk' = << >>
         /\ walk' \in [DOMAIN walk' -> Nat] /\ DOMAIN walk' = {}
  BY DEF WatchInv, TimesArePast, Taken

\* The edits that the audit begins with are all audited.
LEMMA AuditForgetsNothing ==
  ASSUME StartAudit, mtime' = mtime PROVE NoEditForgotten'
  BY DEF StartAudit, NoEditForgotten

LEMMA WatchStepKeeps ==
  ASSUME WatchInv, [WaNext]_waVars PROVE WatchInv'
  <1>1. ASSUME NEW f \in File, Visit(f) PROVE WatchInv'
    BY <1>1, VisitKeepsWatch
  <1>2. ASSUME NEW f \in File, NEW gone \in BOOLEAN, Edit(f, gone) PROVE WatchInv'
    BY <1>2, EditIsNoticed
  <1>3. CASE FirstSnapshot
    <2>1. Taken /\ StartAudit /\ mtime' = mtime /\ edits' = edits /\ deadline' = deadline
      BY <1>3 DEF FirstSnapshot
    <2>2. NoEditForgotten'
      BY <2>1, AuditForgetsNothing
    <2>3. WaTypeOK' /\ TimesArePast'
      BY <2>1, TakenFacts DEF WatchInv, WaTypeOK, TimesArePast, StartAudit, Stage
    <2> QED BY <2>2, <2>3 DEF WatchInv
  <1>4. CASE Poll
    <2>1. /\ Taken /\ loop = "poll" /\ mtime' = mtime /\ edits' = edits /\ audited' = audited
          /\ IF walk # snapshot THEN loop' = "debounce" /\ deadline' = Polls
                                ELSE loop' = loop /\ deadline' = deadline
      BY <1>4 DEF Poll
    <2>2. WaTypeOK' /\ TimesArePast'
      BY <2>1, TakenFacts, PollsArePositive DEF WatchInv, WaTypeOK, TimesArePast, Stage
    <2>3. NoEditForgotten'
      BY <2>1, TakenFacts DEF WatchInv, NoEditForgotten
    <2> QED BY <2>2, <2>3 DEF WatchInv
  <1>5. CASE Debounce
    <2>1. Taken /\ mtime' = mtime /\ edits' = edits /\ loop = "debounce"
      BY <1>5 DEF Debounce
    <2>2. /\ deadline' \in 0..Polls
          /\ \/ loop' = "debounce" /\ audited' = audited
             \/ StartAudit
      <3>1. CASE walk # snapshot
        BY <3>1, <1>5, <2>1, PollsArePositive DEF Debounce
      <3>2. CASE walk = snapshot
        <4>1. PICK rest \in 0..(deadline - 1) :
                /\ deadline' = rest
                /\ IF rest = 0 THEN StartAudit ELSE UNCHANGED <<loop, audited>>
          BY <3>2, <1>5 DEF Debounce
        <4>2. deadline \in 0..Polls
          BY DEF WatchInv, WaTypeOK
        <4>3. rest \in 0..Polls
          BY <4>1, <4>2, PollsArePositive
        <4> QED BY <4>1, <4>3, <2>1
      <3> QED BY <3>1, <3>2
    <2>3. NoEditForgotten'
      <3>1. CASE StartAudit
        BY <3>1, <2>1, AuditForgetsNothing
      <3>2. CASE loop' = "debounce"
        BY <3>2 DEF NoEditForgotten
      <3> QED BY <3>1, <3>2, <2>2
    <2>4. WaTypeOK' /\ TimesArePast'
      BY <2>1, <2>2, TakenFacts DEF WatchInv, WaTypeOK, TimesArePast, StartAudit, Stage
    <2> QED BY <2>3, <2>4 DEF WatchInv
  <1>6. CASE AuditReturns \/ AuditRaises
    BY <1>6 DEF AuditReturns, AuditRaises, WatchInv, WaTypeOK, TimesArePast, NoEditForgotten, Stage
  <1>7. CASE UNCHANGED waVars
    BY <1>7 DEF waVars, WatchInv, WaTypeOK, TimesArePast, NoEditForgotten
  <1> QED BY <1>1, <1>2, <1>3, <1>4, <1>5, <1>6, <1>7 DEF WaNext, WatchStep

\* Wherever edits fall - into a snapshot that is half taken, into a sleep or
\* into an audit - the loop never takes an edited file for one it has audited
\* (watch_loop, _snapshot).
THEOREM NoEditIsForgotten == WaSpec => []NoEditForgotten
  <1>1. WatchInv => NoEditForgotten
    BY DEF WatchInv
  <1> QED BY <1>1, WatchInit, WatchStepKeeps, PTL DEF WaSpec

\* The tree, the snapshots and the deadline keep their types.
THEOREM WatchTyped == WaSpec => []WaTypeOK
  <1>1. WatchInv => WaTypeOK
    BY DEF WatchInv
  <1> QED BY <1>1, WatchInit, WatchStepKeeps, PTL DEF WaSpec

(***************************************************************************)
(* RedisResults.  A result is never in two places; while nobody has died   *)
(* it is in one.  A reader that is alone still finds what it has not seen  *)
(* among the entries its loop has yet to pop.                              *)
(***************************************************************************)
Handed == \A r \in Reader : reader[r].raw # NoResult <=> reader[r].pc = "rpush"

OnlyRecorded ==
  /\ \A i \in 1..Len(list) : list[i] \in recorded
  /\ \A r \in Held : reader[r].raw \in recorded
  /\ \A r \in Reader : atStart[r] \subseteq recorded

NoTwins ==
  /\ \A i, k \in 1..Len(list) : list[i] = list[k] => i = k
  /\ \A i \in 1..Len(list), r \in Held : list[i] # reader[r].raw
  /\ \A r, q \in Held : reader[r].raw = reader[q].raw => r = q

NoneLost ==
  crashes = 0 =>
    \A x \in recorded : \/ \E i \in 1..Len(list) : list[i] = x
                        \/ \E r \in Held : reader[r].raw = x

AloneIsAlone ==
  \A r \in Reader : Running(r) /\ alone[r] => \A q \in Reader \ {r} : ~Running(q)

\* How many entries the loop of a reader still looks at, if no more come.
Ahead(r) == Len(list) + (IF reader[r].pc = "rpush" THEN 1 ELSE 0) - Len(reader[r].out)

Awaited ==
  \A r \in Reader : crashes = 0 /\ Running(r) /\ alone[r] =>
    \A x \in atStart[r] : \/ x \in ToSet(reader[r].out)
                          \/ \E i \in 1..Len(list) : list[i] = x /\ i <= Ahead(r)

ReadInv ==
  TypeOK /\ Handed /\ OnlyRecorded /\ NoTwins /\ NoneLost /\ AloneIsAlone /\ Awaited
    /\ LoneAnswerIsComplete
\* How an entry is pushed to the end of the list ...
LEMMA PushFacts ==
  ASSUME NEW S, NEW s \in Seq(S), NEW e \in S
  PROVE  /\ Append(s, e) \in Seq(S)
         /\ Len(s) \in Nat /\ Len(Append(s, e)) = Len(s) + 1
         /\ \A i \in 1..Len(s) : Append(s, e)[i] = s[i]
         /\ Append(s, e)[Len(s) + 1] = e
         /\ ToSet(Append(s, e)) = ToSet(s) \cup {e}
  BY DEF ToSet

\* ... and how the first one leaves it.
LEMMA PopFacts ==
  ASSUME NEW S, NEW s \in Seq(S), s # <<>>
  PROVE  /\ Head(s) \in S /\ Tail(s) \in Seq(S)
         /\ Len(s) \in Nat \ {0} /\ Len(Tail(s)) = Len(s) - 1
         /\ Head(s) = s[1]
         /\ \A i \in 1..(Len(s) - 1) : Tail(s)[i] = s[i + 1]
  OBVIOUS

Locals == [pc: {"idle", "llen", "lpop", "rpush", "done"},
           out: Seq(Result), raw: Result \cup {NoResult}]

\* The locals of a reader, and what a step that assigns them leaves alone.
LEMMA ReaderFacts ==
  ASSUME ReadInv, NEW r \in Reader
  PROVE  /\ reader \in [Reader -> Locals] /\ reader[r] \in Locals
         /\ reader[r].out \in Seq(Result) /\ Len(reader[r].out) \in Nat
         /\ list \in Seq(Result) /\ Len(list) \in Nat
         /\ recorded \subseteq Result
  BY DEF ReadInv, TypeOK, Locals

\* A reader at rest, or about to begin.
LEMMA IdleFacts ==
  ASSUME NEW pc \in {"idle", "llen", "done"}
  PROVE  LET m == [Idle EXCEPT !.pc = pc]
         IN  m.pc = pc /\ m.out = <<>> /\ m.raw = NoResult /\ m \in Locals
  <1>1. [Idle EXCEPT !.pc = pc] = [pc |-> pc, out |-> <<>>, raw |-> NoResult]
    BY DEF Idle
  <1>2. <<>> \in Seq(Result)
    OBVIOUS
  <1> QED BY <1>1, <1>2 DEF Locals

\* One reader's locals are assigned.
LEMMA Assigned ==
  ASSUME ReadInv, NEW r \in Reader, NEW m \in Locals, reader' = [reader EXCEPT ![r] = m]
  PROVE  /\ reader' \in [Reader -> Locals] /\ reader'[r] = m
         /\ \A q \in Reader \ {r} : reader'[q] = reader[q]
  BY ReaderFacts

\* While a reader that is alone is at work, nobody else is.
LEMMA NobodyElse ==
  ASSUME ReadInv, NEW r \in Reader, NEW q \in Reader, Running(r), Running(q), alone[q]
  PROVE  q = r
  BY DEF ReadInv, AloneIsAlone

\* A worker's new result is in the list, and was nowhere before.
LEMMA RecordKeepsResults ==
  ASSUME ReadInv, NEW x \in Result, Record(x)
  PROVE  ReadInv'
  <1>1. /\ x \notin recorded /\ recorded' = recorded \cup {x} /\ list' = Append(list, x)
        /\ reader' = reader /\ atStart' = atStart /\ alone' = alone /\ answer' = answer
        /\ reads' = reads /\ crashes' = crashes
    BY DEF Record
  <1>2. list \in Seq(Result) /\ recorded \subseteq Result
    BY DEF ReadInv, TypeOK
  <1>3. /\ list' \in Seq(Result)
        /\ Len(list) \in Nat /\ Len(list') = Len(list) + 1
        /\ \A i \in 1..Len(list) : list'[i] = list[i]
        /\ list'[Len(list) + 1] = x
    BY <1>1, <1>2, PushFacts
  <1>4. Held' = Held
    BY <1>1 DEF Held
  <1>5. TypeOK' /\ Handed'
    BY <1>1, <1>2, <1>3 DEF ReadInv, TypeOK, Handed
  <1>6. OnlyRecorded'
    BY <1>1, <1>3, <1>4 DEF ReadInv, OnlyRecorded
  <1>7. NoTwins'
    <2>1. \A i \in 1..Len(list) : list'[i] # x
      BY <1>1, <1>3 DEF ReadInv, OnlyRecorded
    <2>2. \A r \in Held : reader[r].raw # x
      BY <1>1 DEF ReadInv, OnlyRecorded
    <2>3. \A i \in 1..Len(list') : i \in 1..Len(list) \/ i = Len(list) + 1
      BY <1>3
    <2>4. \A i, k \in 1..Len(list') : list'[i] = list'[k] => i = k
      <3> TAKE i, k \in 1..Len(list')
      <3> QED BY <1>3, <2>1, <2>3 DEF ReadInv, NoTwins
    <2>5. \A i \in 1..Len(list'), r \in Held : list'[i] # reader[r].raw
      <3> TAKE i \in 1..Len(list'), r \in Held
      <3> QED BY <1>3, <2>2, <2>3 DEF ReadInv, NoTwins
    <2> QED BY <2>4, <2>5, <1>1, <1>4 DEF ReadInv, NoTwins
  <1>8. NoneLost'
    <2>1. \A y \in recorded : crashes = 0 =>
            (\E i \in 1..Len(list) : list[i] = y) \/ (\E r \in Held : reader[r].raw = y)
      BY DEF ReadInv, NoneLost
    <2>2. 1..Len(list) \subseteq 1..Len(list') /\ Len(list) + 1 \in 1..Len(list')
      BY <1>3
    <2> QED BY <2>1, <2>2, <1>1, <1>3, <1>4 DEF NoneLost
  <1>9. AloneIsAlone' /\ LoneAnswerIsComplete'
    BY <1>1 DEF ReadInv, AloneIsAlone, LoneAnswerIsComplete, Running
  <1>10. Awaited'
    <2> SUFFICES ASSUME NEW r \in Reader, crashes = 0, Running(r), alone[r], NEW y \in atStart[r],
                        y \notin ToSet(reader[r].out)
                 PROVE  \E i \in 1..Len(list') : list'[i] = y /\ i <= Ahead(r)'
      BY <1>1 DEF Awaited, Running
    <2>1. PICK i \in 1..Len(list) : list[i] = y /\ i <= Ahead(r)
      BY DEF ReadInv, Awaited
    <2>2. Ahead(r)' = Ahead(r) + 1 /\ Ahead(r) \in Int
      BY ReaderFacts, <1>1, <1>3 DEF Ahead
    <2> QED BY <2>1, <2>2, <1>3
  <1> QED BY <1>5, <1>6, <1>7, <1>8, <1>9, <1>10 DEF ReadInv

\* A step that touches neither the list nor what is in the readers' hands.
LEMMA HandsKept ==
  ASSUME ReadInv, list' = list, recorded' = recorded, crashes' = crashes, Held' = Held,
         \A q \in Held : reader'[q].raw = reader[q].raw
  PROVE  /\ NoTwins' /\ NoneLost'
         /\ (\A q \in Reader : atStart'[q] \subseteq recorded) => OnlyRecorded'
  <1>1. NoTwins'
    BY DEF ReadInv, NoTwins
  <1>2. NoneLost'
    BY DEF ReadInv, NoneLost
  <1>3. (\A q \in Reader : atStart'[q] \subseteq recorded) => OnlyRecorded'
    BY DEF ReadInv, OnlyRecorded
  <1> QED BY <1>1, <1>2, <1>3

\* The call of results(): alone, it finds every recorded result in the list.
LEMMA CallKeepsResults ==
  ASSUME ReadInv, NEW r \in Reader, Call(r)
  PROVE  ReadInv'
  <1> DEFINE overlap == \E q \in Reader \ {r} : Running(q)
  <1>1. /\ reads < MaxReads /\ reader[r].pc \in {"idle", "done"}
        /\ reader' = [reader EXCEPT ![r] = [Idle EXCEPT !.pc = "llen"]]
        /\ atStart' = [atStart EXCEPT ![r] = recorded]
        /\ alone' = [q \in Reader |-> IF q = r \/ Running(q) THEN ~overlap /\ q = r ELSE alone[q]]
        /\ answer' = [answer EXCEPT ![r] = <<>>]
        /\ reads' = reads + 1 /\ list' = list /\ recorded' = recorded /\ crashes' = crashes
    BY DEF Call
  <1>2. /\ reader'[r].pc = "llen" /\ reader'[r].out = <<>> /\ reader'[r].raw = NoResult
        /\ reader'[r] \in Locals
        /\ \A q \in Reader \ {r} : reader'[q] = reader[q]
        /\ reader' \in [Reader -> Locals]
    BY <1>1, IdleFacts, Assigned
  <1>3. reader[r].raw = NoResult /\ ~Running(r)
    BY <1>1 DEF ReadInv, Handed, Running
  <1>4. /\ Held' = Held
        /\ \A q \in Held : q \in Reader /\ reader'[q].raw = reader[q].raw
    BY <1>2, <1>3 DEF Held
  <1>5. TypeOK'
    <2>1. reader' \in [Reader -> [pc: {"idle", "llen", "lpop", "rpush", "done"},
                                  out: Seq(Result), raw: Result \cup {NoResult}]]
      BY <1>2 DEF Locals
    <2>2. alone' \in [Reader -> BOOLEAN]
      BY <1>1 DEF ReadInv, TypeOK
    <2>3. reads' \in 0..MaxReads
      BY <1>1, ResultsAssumption DEF ReadInv, TypeOK
    <2> QED BY <2>1, <2>2, <2>3, <1>1 DEF ReadInv, TypeOK
  <1>6. Handed'
    BY <1>2 DEF ReadInv, Handed
  <1>7. OnlyRecorded'
    <2>1. \A q \in Reader : atStart'[q] \subseteq recorded
      BY <1>1 DEF ReadInv, OnlyRecorded, TypeOK
    <2> QED BY <2>1, <1>1, <1>4, HandsKept
  <1>8. NoTwins' /\ NoneLost'
    BY <1>1, <1>4, HandsKept
  <1>9. AloneIsAlone'
    <2> SUFFICES ASSUME NEW p \in Reader, Running(p)', alone'[p], NEW q \in Reader \ {p}, Running(q)'
                 PROVE  FALSE
      BY DEF AloneIsAlone
    <2>1. CASE p = r
      <3>1. ~overlap
        BY <2>1, <1>1
      <3> QED BY <3>1, <2>1, <1>2 DEF Running
    <2>2. CASE p # r
      BY <2>2, <1>1, <1>2 DEF Running
    <2> QED BY <2>1, <2>2
  <1>10. Awaited'
    <2> SUFFICES ASSUME NEW p \in Reader, crashes = 0, Running(p)', alone'[p], NEW y \in atStart'[p]
                 PROVE  \E i \in 1..Len(list) : list[i] = y /\ i <= Ahead(p)'
      BY <1>1 DEF Awaited
    <2>1. p = r
      BY <1>1, <1>2 DEF Running
    <2>2. ~overlap
      BY <2>1, <1>1
    <2>3. Held = {}
      BY <2>2, <1>3 DEF Held, Running, ReadInv, Handed
    <2>4. y \in recorded
      BY <2>1, <1>1 DEF ReadInv, TypeOK
    <2>5. PICK i \in 1..Len(list) : list[i] = y
      BY <2>3, <2>4 DEF ReadInv, NoneLost
    <2>6. Ahead(r)' = Len(list) /\ Len(list) \in Nat
      BY <1>1, <1>2, ReaderFacts DEF Ahead
    <2> QED BY <2>1, <2>5, <2>6
  <1>11. LoneAnswerIsComplete'
    <2> SUFFICES ASSUME NEW p \in Reader, crashes = 0, reader'[p].pc = "done", alone'[p]
                 PROVE  atStart'[p] \subseteq ToSet(answer'[p])
      BY <1>1 DEF LoneAnswerIsComplete
    <2>1. p # r /\ reader[p].pc = "done" /\ ~Running(p)
      BY <1>2 DEF Running
    <2> QED BY <2>1, <1>1 DEF ReadInv, LoneAnswerIsComplete, TypeOK
  <1> QED BY <1>5, <1>6, <1>7, <1>8, <1>9, <1>10, <1>11 DEF ReadInv

\* A call that has looked at everything ahead of it returns all it owed.
LEMMA ReturnKeepsResults ==
  ASSUME ReadInv, NEW r \in Reader, Running(r), reader[r].pc # "rpush", Return(r),
         Len(reader[r].out) >= Len(list)
  PROVE  ReadInv'
  <1>1. /\ reader' = [reader EXCEPT ![r] = [Idle EXCEPT !.pc = "done"]]
        /\ answer' = [answer EXCEPT ![r] = reader[r].out]
        /\ list' = list /\ recorded' = recorded /\ atStart' = atStart /\ alone' = alone
        /\ reads' = reads /\ crashes' = crashes
    BY DEF Return, Local
  <1>2. /\ reader'[r].pc = "done" /\ reader'[r].raw = NoResult
        /\ \A q \in Reader \ {r} : reader'[q] = reader[q]
        /\ reader' \in [Reader -> Locals]
    BY <1>1, IdleFacts, Assigned
  <1>3. reader[r].raw = NoResult
    BY DEF ReadInv, Handed
  <1>4. /\ Held' = Held
        /\ \A q \in Held : q \in Reader /\ reader'[q].raw = reader[q].raw
    BY <1>2, <1>3 DEF Held
  <1>5. TypeOK'
    <2>1. reader' \in [Reader -> [pc: {"idle", "llen", "lpop", "rpush", "done"},
                                  out: Seq(Result), raw: Result \cup {NoResult}]]
      BY <1>2 DEF Locals
    <2>2. answer' \in [Reader -> Seq(Result)]
      BY <1>1, ReaderFacts DEF ReadInv, TypeOK
    <2> QED BY <2>1, <2>2, <1>1 DEF ReadInv, TypeOK
  <1>6. Handed'
    BY <1>2 DEF ReadInv, Handed
  <1>7. OnlyRecorded' /\ NoTwins' /\ NoneLost'
    <2>1. \A q \in Reader : atStart'[q] \subseteq recorded
      BY <1>1 DEF ReadInv, OnlyRecorded
    <2> QED BY <2>1, <1>1, <1>4, HandsKept
  <1>8. AloneIsAlone' /\ Awaited'
    <2>1. \A q \in Reader : Running(q)' => q # r /\ Running(q) /\ reader'[q] = reader[q]
      BY <1>2 DEF Running
    <2>2. \A q \in Reader : Running(q)' => Ahead(q)' = Ahead(q)
      BY <2>1, <1>1 DEF Ahead
    <2>3. AloneIsAlone'
      BY <2>1, <1>1 DEF ReadInv, AloneIsAlone
    <2>4. Awaited'
      BY <2>1, <2>2, <1>1 DEF ReadInv, Awaited
    <2> QED BY <2>3, <2>4
  <1>9. LoneAnswerIsComplete'
    <2> SUFFICES ASSUME NEW p \in Reader, crashes = 0, reader'[p].pc = "done", alone[p]
                 PROVE  atStart[p] \subseteq ToSet(answer'[p])
      BY <1>1 DEF LoneAnswerIsComplete
    <2>1. CASE p = r
      <3>1. Ahead(r) <= 0 /\ Ahead(r) \in Int
        BY ReaderFacts DEF Ahead
      <3>2. \A x \in atStart[r] : x \in ToSet(reader[r].out)
        BY <3>1, <2>1 DEF ReadInv, Awaited
      <3>3. answer'[r] = reader[r].out
        BY <1>1 DEF ReadInv, TypeOK
      <3> QED BY <3>2, <3>3, <2>1
    <2>2. CASE p # r
      BY <2>2, <1>1, <1>2 DEF ReadInv, LoneAnswerIsComplete, TypeOK
    <2> QED BY <2>1, <2>2
  <1> QED BY <1>5, <1>6, <1>7, <1>8, <1>9 DEF ReadInv
\* Another look at the length changes nothing but the place in the loop.
LEMMA GoOnKeepsResults ==
  ASSUME ReadInv, NEW r \in Reader, reader[r].pc = "llen",
         reader' = [reader EXCEPT ![r].pc = "lpop"], UNCHANGED <<list, answer>>, Local
  PROVE  ReadInv'
  <1> DEFINE m == [reader[r] EXCEPT !.pc = "lpop"]
  <1>1. /\ m.pc = "lpop" /\ m.out = reader[r].out /\ m.raw = reader[r].raw /\ m \in Locals
        /\ reader' = [reader EXCEPT ![r] = m]
    <2>1. reader[r] \in Locals /\ reader \in [Reader -> Locals]
      BY ReaderFacts
    <2> QED BY <2>1 DEF Locals
  <1> HIDE DEF m
  <1>2. /\ reader' \in [Reader -> Locals]
        /\ \A q \in Reader : /\ reader'[q].raw = reader[q].raw /\ reader'[q].out = reader[q].out
                             /\ q # r => reader'[q].pc = reader[q].pc
        /\ reader'[r].pc = "lpop"
    BY <1>1, Assigned
  <1>3. /\ list' = list /\ recorded' = recorded /\ atStart' = atStart /\ alone' = alone
        /\ answer' = answer /\ reads' = reads /\ crashes' = crashes
    BY DEF Local
  <1>4. Held' = Held
    BY <1>2 DEF Held
  <1>5. TypeOK'
    <2>1. reader' \in [Reader -> [pc: {"idle", "llen", "lpop", "rpush", "done"},
                                  out: Seq(Result), raw: Result \cup {NoResult}]]
      BY <1>2 DEF Locals
    <2> QED BY <2>1, <1>3 DEF ReadInv, TypeOK
  <1>6. Handed'
    <2>1. reader[r].pc # "rpush" /\ reader'[r].pc # "rpush"
      BY <1>2
    <2> QED BY <2>1, <1>2 DEF ReadInv, Handed
  <1>7. OnlyRecorded' /\ NoTwins' /\ NoneLost'
    <2>1. \A q \in Reader : atStart'[q] \subseteq recorded
      BY <1>3 DEF ReadInv, OnlyRecorded
    <2>2. \A q \in Held : reader'[q].raw = reader[q].raw
      BY <1>2 DEF Held
    <2> QED BY <2>1, <2>2, <1>3, <1>4, HandsKept
  <1>8. \A q \in Reader : Running(q)' <=> Running(q)
    BY <1>2 DEF Running
  <1>9. \A q \in Reader : Ahead(q)' = Ahead(q)
    <2> TAKE q \in Reader
    <2>1. reader'[q].pc = "rpush" <=> reader[q].pc = "rpush"
      BY <1>2
    <2> QED BY <2>1, <1>2, <1>3 DEF Ahead
  <1>10. AloneIsAlone' /\ Awaited'
    <2>1. AloneIsAlone'
      BY <1>3, <1>8 DEF ReadInv, AloneIsAlone
    <2>2. Awaited'
      BY <1>2, <1>3, <1>8, <1>9 DEF ReadInv, Awaited
    <2> QED BY <2>1, <2>2
  <1>11. LoneAnswerIsComplete'
    BY <1>2, <1>3 DEF ReadInv, LoneAnswerIsComplete
  <1> QED BY <1>5, <1>6, <1>7, <1>10, <1>11 DEF ReadInv

\* A pop moves the first entry from the list into the hand of the reader.
LEMMA PopKeepsResults ==
  ASSUME ReadInv, NEW r \in Reader, reader[r].pc = "lpop", list # <<>>,
         list' = Tail(list),
         reader' = [reader EXCEPT ![r] = [pc |-> "rpush", out |-> Append(@.out, Head(list)),
                                          raw |-> Head(list)]],
         UNCHANGED answer, Local
  PROVE  ReadInv'
  <1> DEFINE m == [pc |-> "rpush", out |-> Append(reader[r].out, Head(list)), raw |-> Head(list)]
  <1>1. /\ Head(list) \in Result /\ list' \in Seq(Result)
        /\ Len(list) \in Nat \ {0} /\ Len(list') = Len(list) - 1
        /\ Head(list) = list[1]
        /\ \A i \in 1..(Len(list) - 1) : list'[i] = list[i + 1]
    BY ReaderFacts, PopFacts
  <1>2. /\ Append(reader[r].out, Head(list)) \in Seq(Result)
        /\ Len(Append(reader[r].out, Head(list))) = Len(reader[r].out) + 1
        /\ ToSet(Append(reader[r].out, Head(list))) = ToSet(reader[r].out) \cup {Head(list)}
    BY <1>1, ReaderFacts, PushFacts
  <1>3. /\ m \in Locals /\ m.pc = "rpush" /\ m.raw = list[1]
        /\ Len(m.out) = Len(reader[r].out) + 1
        /\ ToSet(m.out) = ToSet(reader[r].out) \cup {list[1]}
        /\ reader' = [reader EXCEPT ![r] = m]
    BY <1>1, <1>2 DEF Locals
  <1> HIDE DEF m
  <1>4. /\ reader' \in [Reader -> Locals] /\ reader'[r] = m
        /\ \A q \in Reader \ {r} : reader'[q] = reader[q]
    BY <1>3, Assigned
  <1>5. /\ recorded' = recorded /\ atStart' = atStart /\ alone' = alone
        /\ answer' = answer /\ reads' = reads /\ crashes' = crashes
    BY DEF Local
  <1>6. list[1] \in recorded /\ list[1] # NoResult
    BY <1>1, ResultsAssumption DEF ReadInv, OnlyRecorded
  <1>7. Held' = Held \cup {r} /\ r \notin Held /\ Held \subseteq Reader
    BY <1>3, <1>4, <1>6 DEF Held, ReadInv, Handed
  <1>8. \A q \in Held : q \in Reader \ {r} /\ reader'[q].raw = reader[q].raw
    BY <1>4, <1>7
  <1>9. reader'[r].raw = list[1]
    BY <1>3, <1>4
  <1>10. TypeOK'
    <2>1. reader' \in [Reader -> [pc: {"idle", "llen", "lpop", "rpush", "done"},
                                  out: Seq(Result), raw: Result \cup {NoResult}]]
      BY <1>4 DEF Locals
    <2> QED BY <2>1, <1>1, <1>5 DEF ReadInv, TypeOK
  <1>11. Handed'
    BY <1>3, <1>4, <1>6 DEF ReadInv, Handed
  <1>12. \A i \in 1..Len(list') : i + 1 \in 1..Len(list) /\ i + 1 # 1 /\ list'[i] = list[i + 1]
    BY <1>1
  <1>13. OnlyRecorded'
    <2>1. \A i \in 1..Len(list') : list'[i] \in recorded
      BY <1>12 DEF ReadInv, OnlyRecorded
    <2>2. \A q \in Held' : reader'[q].raw \in recorded
      BY <1>6, <1>7, <1>8, <1>9 DEF ReadInv, OnlyRecorded
    <2> QED BY <2>1, <2>2, <1>5 DEF ReadInv, OnlyRecorded
  <1>14. NoTwins'
    <2>1. \A i, k \in 1..Len(list') : list'[i] = list'[k] => i = k
      <3> TAKE i, k \in 1..Len(list')
      <3>1. list[i + 1] = list[k + 1] => i + 1 = k + 1
        BY <1>12 DEF ReadInv, NoTwins
      <3>2. i \in Int /\ k \in Int
        OBVIOUS
      <3> QED BY <3>1, <3>2, <1>12
    <2>2. \A i \in 1..Len(list'), q \in Held' : list'[i] # reader'[q].raw
      <3> TAKE i \in 1..Len(list'), q \in Held'
      <3>1. 1 \in 1..Len(list)
        BY <1>1
      <3>2. CASE q = r
        BY <3>1, <3>2, <1>9, <1>12 DEF ReadInv, NoTwins
      <3>3. CASE q # r
        BY <3>3, <1>7, <1>8, <1>12 DEF ReadInv, NoTwins
      <3> QED BY <3>2, <3>3
    <2>3. \A p, q \in Held' : reader'[p].raw = reader'[q].raw => p = q
      <3>1. 1 \in 1..Len(list)
        BY <1>1
      <3>2. \A q \in Held : reader'[q].raw # list[1]
        BY <3>1, <1>8 DEF ReadInv, NoTwins
      <3>3. \A p, q \in Held : reader'[p].raw = reader'[q].raw => p = q
        BY <1>8 DEF ReadInv, NoTwins
      <3> QED BY <3>2, <3>3, <1>7, <1>9
    <2> QED BY <2>1, <2>2, <2>3 DEF NoTwins
  <1>15. NoneLost'
    <2> SUFFICES ASSUME crashes = 0, NEW x \in recorded
                 PROVE  (\E i \in 1..Len(list') : list'[i] = x) \/ (\E q \in Held' : reader'[q].raw = x)
      BY <1>5 DEF NoneLost
    <2>1. CASE \E q \in Held : reader[q].raw = x
      BY <2>1, <1>7, <1>8
    <2>2. CASE \E i \in 1..Len(list) : list[i] = x
      <3>1. PICK i \in 1..Len(list) : list[i] = x
        BY <2>2
      <3>2. CASE i = 1
        BY <3>1, <3>2, <1>7, <1>9
      <3>3. CASE i # 1
        <4>1. i - 1 \in 1..Len(list') /\ i - 1 \in 1..(Len(list) - 1) /\ (i - 1) + 1 = i
          BY <3>3, <1>1
        <4>2. list'[i - 1] = x
          BY <4>1, <3>1, <1>1
        <4> QED BY <4>1, <4>2
      <3> QED BY <3>2, <3>3
    <2> QED BY <2>1, <2>2 DEF ReadInv, NoneLost
  <1>16. \A q \in Reader : Running(q)' <=> Running(q)
    BY <1>3, <1>4 DEF Running
  <1>17. AloneIsAlone'
    BY <1>5, <1>16 DEF ReadInv, AloneIsAlone
  <1>18. Awaited'
    <2> SUFFICES ASSUME NEW q \in Reader, crashes = 0, Running(q)', alone[q], NEW x \in atStart[q],
                        x \notin ToSet(reader'[q].out)
                 PROVE  \E i \in 1..Len(list') : list'[i] = x /\ i <= Ahead(q)'
      BY <1>5 DEF Awaited
    <2>1. q = r /\ Running(r)
      BY <1>16, NobodyElse DEF Running
    <2>2. x \notin ToSet(reader[r].out) /\ x # list[1]
      BY <2>1, <1>3, <1>4
    <2>3. PICK i \in 1..Len(list) : list[i] = x /\ i <= Ahead(r)
      BY <2>1, <2>2 DEF ReadInv, Awaited
    <2>4. Ahead(r) = Len(list) - Len(reader[r].out) /\ Len(reader[r].out) \in Nat
      BY ReaderFacts DEF Ahead
    <2>5. Ahead(r)' = Len(list') + 1 - Len(m.out)
      BY <1>3, <1>4 DEF Ahead
    <2>6. i # 1
      BY <2>2, <2>3
    <2>7. i - 1 \in 1..Len(list') /\ i - 1 \in 1..(Len(list) - 1) /\ (i - 1) + 1 = i
      BY <2>6, <1>1
    <2>8. list'[i - 1] = x
      BY <2>3, <2>7, <1>1
    <2>9. i - 1 <= Ahead(r)'
      BY <2>3, <2>4, <2>5, <1>1, <1>3
    <2> QED BY <2>1, <2>7, <2>8, <2>9
  <1>19. LoneAnswerIsComplete'
    BY <1>3, <1>4, <1>5 DEF ReadInv, LoneAnswerIsComplete
  <1> QED BY <1>10, <1>11, <1>13, <1>14, <1>15, <1>17, <1>18, <1>19 DEF ReadInv

\* A push gives the entry back, behind everything the reader has yet to see.
LEMMA GiveBackKeepsResults ==
  ASSUME ReadInv, NEW r \in Reader, RPush(r)
  PROVE  ReadInv'
  <1> DEFINE m == [reader[r] EXCEPT !.pc = "llen", !.raw = NoResult]
  <1> DEFINE raw == reader[r].raw
  <1>1. /\ reader[r].pc = "rpush" /\ list' = Append(list, raw)
        /\ recorded' = recorded /\ atStart' = atStart /\ alone' = alone
        /\ answer' = answer /\ reads' = reads /\ crashes' = crashes
    BY DEF RPush, Local
  <1>2. /\ m.pc = "llen" /\ m.out = reader[r].out /\ m.raw = NoResult /\ m \in Locals
        /\ reader' = [reader EXCEPT ![r] = m]
    <2>1. reader[r] \in Locals /\ reader \in [Reader -> Locals]
      BY ReaderFacts
    <2>2. reader' = [reader EXCEPT ![r].pc = "llen", ![r].raw = NoResult]
      BY DEF RPush
    <2> QED BY <2>1, <2>2 DEF Locals
  <1> HIDE DEF m
  <1>3. /\ reader' \in [Reader -> Locals] /\ reader'[r] = m
        /\ \A q \in Reader \ {r} : reader'[q] = reader[q]
    BY <1>2, Assigned
  <1>4. r \in Held /\ raw \in recorded /\ raw \in Result
    BY <1>1, ReaderFacts DEF ReadInv, Handed, OnlyRecorded, Held
  <1>5. /\ list' \in Seq(Result) /\ Len(list) \in Nat /\ Len(list') = Len(list) + 1
        /\ \A i \in 1..Len(list) : list'[i] = list[i]
        /\ list'[Len(list) + 1] = raw
    BY <1>1, <1>4, ReaderFacts, PushFacts
  <1>6. Held' = Held \ {r} /\ Held \subseteq Reader
    BY <1>2, <1>3 DEF Held
  <1>7. \A q \in Held' : q \in Held /\ q # r /\ reader'[q].raw = reader[q].raw
    BY <1>3, <1>6
  <1>8. TypeOK'
    <2>1. reader' \in [Reader -> [pc: {"idle", "llen", "lpop", "rpush", "done"},
                                  out: Seq(Result), raw: Result \cup {NoResult}]]
      BY <1>3 DEF Locals
    <2> QED BY <2>1, <1>1, <1>5 DEF ReadInv, TypeOK
  <1>9. Handed'
    BY <1>2, <1>3 DEF ReadInv, Handed
  <1>10. \A i \in 1..Len(list') : i \in 1..Len(list) \/ i = Len(list) + 1
    BY <1>5
  <1>11. OnlyRecorded'
    <2>1. \A i \in 1..Len(list') : list'[i] \in recorded
      BY <1>4, <1>5, <1>10 DEF ReadInv, OnlyRecorded
    <2>2. \A q \in Held' : reader'[q].raw \in recorded
      BY <1>7 DEF ReadInv, OnlyRecorded
    <2> QED BY <2>1, <2>2, <1>1 DEF ReadInv, OnlyRecorded
  <1>12. NoTwins'
    <2> HIDE DEF raw
    <2>1. \A i \in 1..Len(list) : list[i] # raw
      BY <1>4 DEF raw, ReadInv, NoTwins
    <2>2. \A q \in Held' : reader'[q].raw # raw
      BY <1>4, <1>7 DEF raw, ReadInv, NoTwins
    <2>3. \A i, k \in 1..Len(list') : list'[i] = list'[k] => i = k
      <3> TAKE i, k \in 1..Len(list')
      <3> QED BY <2>1, <1>5, <1>10 DEF ReadInv, NoTwins
    <2>4. \A i \in 1..Len(list'), q \in Held' : list'[i] # reader'[q].raw
      <3> TAKE i \in 1..Len(list'), q \in Held'
      <3>1. CASE i \in 1..Len(list)
        BY <3>1, <1>5, <1>7 DEF ReadInv, NoTwins
      <3>2. CASE i = Len(list) + 1
        BY <3>2, <1>5, <2>2
      <3> QED BY <3>1, <3>2, <1>10
    <2>5. \A p, q \in Held' : reader'[p].raw = reader'[q].raw => p = q
      BY <1>7 DEF ReadInv, NoTwins
    <2> QED BY <2>3, <2>4, <2>5 DEF NoTwins
  <1>13. 1..Len(list) \subseteq 1..Len(list') /\ Len(list) + 1 \in 1..Len(list')
    BY <1>5
  <1>14. NoneLost'
    <2> SUFFICES ASSUME crashes = 0, NEW x \in recorded
                 PROVE  (\E i \in 1..Len(list') : list'[i] = x) \/ (\E q \in Held' : reader'[q].raw = x)
      BY <1>1 DEF NoneLost
    <2>1. CASE \E i \in 1..Len(list) : list[i] = x
      BY <2>1, <1>5, <1>13
    <2>2. CASE x = raw
      BY <2>2, <1>5, <1>13
    <2>3. CASE \E q \in Held : q # r /\ reader[q].raw = x
      BY <2>3, <1>3, <1>6
    <2> QED BY <2>1, <2>2, <2>3 DEF ReadInv, NoneLost
  <1>15. \A q \in Reader : Running(q)' <=> Running(q)
    BY <1>1, <1>2, <1>3 DEF Running
  <1>16. AloneIsAlone'
    BY <1>1, <1>15 DEF ReadInv, AloneIsAlone
  <1>17. Awaited'
    <2> SUFFICES ASSUME NEW q \in Reader, crashes = 0, Running(q)', alone[q], NEW x \in atStart[q],
                        x \notin ToSet(reader'[q].out)
                 PROVE  \E i \in 1..Len(list') : list'[i] = x /\ i <= Ahead(q)'
      BY <1>1 DEF Awaited
    <2>1. q = r /\ Running(r)
      BY <1>1, <1>15, NobodyElse DEF Running
    <2>2. x \notin ToSet(reader[r].out)
      BY <2>1, <1>2, <1>3
    <2>3. PICK i \in 1..Len(list) : list[i] = x /\ i <= Ahead(r)
      BY <2>1, <2>2 DEF ReadInv, Awaited
    <2>4. Ahead(r)' = Ahead(r)
      <3>1. Ahead(r) = Len(list) + 1 - Len(reader[r].out)
        BY <1>1 DEF Ahead
      <3>2. Ahead(r)' = Len(list') + 0 - Len(reader[r].out)
        BY <1>2, <1>3 DEF Ahead
      <3>3. Len(reader[r].out) \in Nat
        BY ReaderFacts
      <3>4. Len(list') = Len(list) + 1 /\ Len(list) \in Nat
        BY <1>5
      <3>5. Len(list') + 0 = Len(list) + 1
        BY <3>4
      <3> QED BY <3>1, <3>2, <3>5
    <2> QED BY <2>1, <2>3, <2>4, <1>5, <1>13
  <1>18. LoneAnswerIsComplete'
    BY <1>1, <1>2, <1>3 DEF ReadInv, LoneAnswerIsComplete
  <1> QED BY <1>8, <1>9, <1>11, <1>12, <1>14, <1>16, <1>17, <1>18 DEF ReadInv

\* A reader that dies takes what it holds with it, and makes no second copy.
LEMMA DeathKeepsResults ==
  ASSUME ReadInv, NEW r \in Reader, Crash(r)
  PROVE  ReadInv'
  <1>1. /\ reader' = [reader EXCEPT ![r] = Idle] /\ crashes < MaxCrashes /\ crashes' = crashes + 1
        /\ list' = list /\ recorded' = recorded /\ atStart' = atStart /\ alone' = alone
        /\ answer' = answer /\ reads' = reads
    BY DEF Crash
  <1>2. Idle.pc = "idle" /\ Idle.raw = NoResult /\ Idle \in Locals
    <2>1. <<>> \in Seq(Result)
      OBVIOUS
    <2> QED BY <2>1 DEF Idle, Locals
  <1>3. /\ reader' \in [Reader -> Locals] /\ reader'[r] = Idle
        /\ \A q \in Reader \ {r} : reader'[q] = reader[q]
    BY <1>1, <1>2, Assigned
  <1>4. crashes' \in 0..MaxCrashes /\ crashes' # 0
    BY <1>1, ResultsAssumption DEF ReadInv, TypeOK
  <1>5. TypeOK'
    <2>1. reader' \in [Reader -> [pc: {"idle", "llen", "lpop", "rpush", "done"},
                                  out: Seq(Result), raw: Result \cup {NoResult}]]
      BY <1>3 DEF Locals
    <2> QED BY <2>1, <1>1, <1>4 DEF ReadInv, TypeOK
  <1>6. \A q \in Held' : q \in Held /\ reader'[q].raw = reader[q].raw
    BY <1>2, <1>3 DEF Held
  <1>7. Handed' /\ OnlyRecorded' /\ NoTwins'
    <2>1. Handed'
      BY <1>2, <1>3 DEF ReadInv, Handed
    <2>2. OnlyRecorded'
      BY <1>1, <1>6 DEF ReadInv, OnlyRecorded
    <2>3. NoTwins'
      BY <1>1, <1>6 DEF ReadInv, NoTwins
    <2> QED BY <2>1, <2>2, <2>3
  <1>8. NoneLost' /\ Awaited' /\ LoneAnswerIsComplete'
    BY <1>4 DEF NoneLost, Awaited, LoneAnswerIsComplete
  <1>9. \A q \in Reader : Running(q)' => Running(q)
    BY <1>2, <1>3 DEF Running
  <1>10. AloneIsAlone'
    BY <1>1, <1>9 DEF ReadInv, AloneIsAlone
  <1> QED BY <1>5, <1>7, <1>8, <1>10 DEF ReadInv

LEMMA ReadStep ==
  ASSUME ReadInv, [Next]_vars PROVE ReadInv'
  <1>1. ASSUME NEW x \in Result, Record(x) PROVE ReadInv'
    BY <1>1, RecordKeepsResults
  <1>2. ASSUME NEW r \in Reader, Call(r) PROVE ReadInv'
    BY <1>2, CallKeepsResults
  <1>3. ASSUME NEW r \in Reader, TestLen(r) PROVE ReadInv'
    <2>1. CASE More(r)
      BY <2>1, <1>3, GoOnKeepsResults DEF TestLen
    <2>2. CASE ~More(r)
      <3>1. Return(r) /\ reader[r].pc = "llen" /\ Running(r)
        BY <2>2, <1>3 DEF TestLen, Running
      <3>2. Len(reader[r].out) >= Len(list)
        BY <2>2, ReaderFacts DEF More
      <3> QED BY <3>1, <3>2, ReturnKeepsResults
    <2> QED BY <2>1, <2>2
  <1>4. ASSUME NEW r \in Reader, LPop(r) PROVE ReadInv'
    <2>1. CASE list # <<>>
      BY <2>1, <1>4, PopKeepsResults DEF LPop
    <2>2. CASE list = <<>>
      <3>1. Return(r) /\ reader[r].pc = "lpop" /\ Running(r)
        BY <2>2, <1>4 DEF LPop, Running
      <3>2. Len(reader[r].out) >= Len(list)
        BY <2>2, ReaderFacts
      <3> QED BY <3>1, <3>2, ReturnKeepsResults
    <2> QED BY <2>1, <2>2
  <1>5. ASSUME NEW r \in Reader, RPush(r) PROVE ReadInv'
    BY <1>5, GiveBackKeepsResults
  <1>6. ASSUME NEW r \in Reader, Crash(r) PROVE ReadInv'
    BY <1>6, DeathKeepsResults
  <1>7. CASE UNCHANGED vars
    BY <1>7 DEF vars, ReadInv, TypeOK, Handed, OnlyRecorded, NoTwins, NoneLost, AloneIsAlone,
                Awaited, LoneAnswerIsComplete, Held, Running, Ahead
  <1> QED BY <1>1, <1>2, <1>3, <1>4, <1>5, <1>6, <1>7 DEF Next

LEMMA ReadInit == Init => ReadInv
  <1> HAVE Init
  <1>1. list = <<>> /\ Len(list) = 0 /\ recorded = {} /\ crashes = 0
    BY DEF Init
  <1>2. Idle.pc = "idle" /\ Idle.raw = NoResult /\ Idle \in Locals
    <2>1. <<>> \in Seq(Result)
      OBVIOUS
    <2> QED BY <2>1 DEF Idle, Locals
  <1>3. \A r \in Reader : reader[r] = Idle
    BY DEF Init
  <1>4. TypeOK
    <2>1. reader \in [Reader -> [pc: {"idle", "llen", "lpop", "rpush", "done"},
                                 out: Seq(Result), raw: Result \cup {NoResult}]]
      BY <1>2 DEF Init, Locals
    <2> QED BY <2>1, ResultsAssumption DEF Init, TypeOK
  <1>5. Held = {} /\ \A r \in Reader : ~Running(r) /\ reader[r].pc # "done"
    BY <1>2, <1>3 DEF Held, Running
  <1>6. Handed
    BY <1>2, <1>3 DEF Handed
  <1>7. OnlyRecorded
    BY <1>1, <1>5 DEF OnlyRecorded, Init
  <1> QED BY <1>1, <1>4, <1>5, <1>6, <1>7
          DEF ReadInv, NoTwins, NoneLost, AloneIsAlone, Awaited, LoneAnswerIsComplete

\* Reading by rotation neither loses nor doubles a result, however many
\* workers push and readers rotate, as long as no reader dies with an entry in
\* its hand; and a call that no other call overlaps returns all that was
\* recorded when it began (RedisCoordinator.results).
THEOREM ReadingIsSafe == Spec => []ReadingLosesNothing
  <1>1. ReadInv => ReadingLosesNothing
    <2> SUFFICES ASSUME ReadInv, crashes = 0, NEW x \in recorded
                 PROVE  LET inList == {i \in DOMAIN list : list[i] = x}
                            inHand == {r \in Held : reader[r].raw = x}
                        IN  \/ \E i \in DOMAIN list : inList = {i} /\ inHand = {}
                            \/ \E r \in Reader : inHand = {r} /\ inList = {}
      BY DEF ReadingLosesNothing, ResultsConserved, ReadInv
    <2> DEFINE inList == {i \in DOMAIN list : list[i] = x}
    <2> DEFINE inHand == {r \in Held : reader[r].raw = x}
    <2>1. DOMAIN list = 1..Len(list) /\ Held \subseteq Reader
      BY DEF ReadInv, TypeOK, Held
    <2>2. CASE \E i \in 1..Len(list) : list[i] = x
      <3>1. PICK i \in 1..Len(list) : list[i] = x
        BY <2>2
      <3>2. inList = {i}
        BY <2>1, <3>1 DEF ReadInv, NoTwins
      <3>3. inHand = {}
        BY <3>1 DEF ReadInv, NoTwins
      <3> QED BY <2>1, <3>2, <3>3
    <2>3. CASE \E r \in Held : reader[r].raw = x
      <3>1. PICK r \in Held : reader[r].raw = x
        BY <2>3
      <3>2. inHand = {r}
        BY <3>1 DEF ReadInv, NoTwins
      <3>3. inList = {}
        BY <2>1, <3>1 DEF ReadInv, NoTwins
      <3> QED BY <2>1, <3>1, <3>2, <3>3
    <2> QED BY <2>2, <2>3 DEF ReadInv, NoneLost
  <1> QED BY <1>1, ReadInit, ReadStep, PTL DEF Spec

\* The list, the locals of the readers and their answers keep their types.
THEOREM ReadTyped == Spec => []TypeOK
  <1>1. ReadInv => TypeOK
    BY DEF ReadInv
  <1> QED BY <1>1, ReadInit, ReadStep, PTL DEF Spec

(***************************************************************************)
(* Crawler.  The queue is in order of depth and never more than one level  *)
(* deep; the first entry of a page in it comes from the first fetched page *)
(* that links to it; and no link of a fetched page above the maximal depth *)
(* is forgotten.                                                           *)
(***************************************************************************)
Settled == Fetched \cup left

FirstLink(u, k) ==
  /\ pages[k].html /\ u \in links[pages[k].url]
  /\ \A m \in 1..(k - 1) : pages[m].html => u \notin links[pages[m].url]

Rooted(e) ==
  IF pages = <<>> THEN e.url = Base /\ e.depth = 0
  ELSE \E k \in DOMAIN pages : FirstLink(e.url, k) /\ e.depth = pages[k].depth + 1

Foremost(j) ==
  queue[j].url \notin Settled /\ \A i \in 1..(j - 1) : queue[i].url # queue[j].url

AtHead ==
  /\ fetching > 0 =>
       /\ queue # <<>> /\ Len(pages) < MaxPages
       /\ queue[1].url \notin Settled /\ queue[1].url \notin LeftOut
  /\ seen = Settled \cup {u \in Url : fetching > 0 /\ u = queue[1].url}
  /\ left \subseteq LeftOut /\ Fetched \cap LeftOut = {}

Layered ==
  /\ \A i, j \in DOMAIN pages : i < j => pages[i].depth <= pages[j].depth
  /\ \A i \in DOMAIN pages, j \in DOMAIN queue : pages[i].depth <= queue[j].depth
  /\ \A i, j \in DOMAIN queue : i < j =>
       queue[i].depth <= queue[j].depth /\ queue[j].depth <= queue[i].depth + 1

FromFirst ==
  /\ \A j \in DOMAIN queue : Foremost(j) => Rooted(queue[j])
  /\ pages = <<>> => Len(queue) <= 1

Remembered ==
  \A k \in DOMAIN pages : pages[k].html /\ pages[k].depth < MaxDepth =>
    \A u \in links[pages[k].url] : u \in Settled \/ \E j \in DOMAIN queue : queue[j].url = u

InFirstOrder ==
  \A i \in DOMAIN pages :
    /\ i = 1 => pages[i].url = Base /\ pages[i].depth = 0
    /\ i > 1 => \E k \in 1..(i - 1) : FirstLink(pages[i].url, k) /\ pages[i].depth = pages[k].depth + 1
    /\ \A k \in 1..(i - 1) : pages[k].url # pages[i].url

Priced ==
  /\ Len(pages) <= MaxPages
  /\ requests <= Attempts * Len(pages) + (IF fetching = 0 THEN 0 ELSE fetching - 1)

CrInv == CrTypeOK /\ AtHead /\ Layered /\ FromFirst /\ Remembered /\ InFirstOrder /\ Priced

LEMMA CrFacts ==
  ASSUME CrInv
  PROVE  /\ pages \in Seq(Page) /\ Len(pages) \in Nat /\ DOMAIN pages = 1..Len(pages)
         /\ queue \in Seq(Entry) /\ Len(queue) \in Nat /\ DOMAIN queue = 1..Len(queue)
         /\ \A i \in DOMAIN pages :
              /\ pages[i].url \in Url /\ pages[i].depth \in Nat /\ pages[i].depth <= MaxDepth
              /\ pages[i].html \in BOOLEAN
         /\ \A j \in DOMAIN queue :
              /\ queue[j].url \in Url /\ queue[j].depth \in Nat /\ queue[j].depth <= MaxDepth
         /\ queue # <<>> => 1 \in DOMAIN queue /\ Head(queue) = queue[1]
         /\ MaxDepth \in Nat /\ MaxPages \in Nat /\ Attempts \in Nat /\ Attempts > 0
         /\ fetching \in Nat /\ fetching <= Attempts /\ requests \in Nat
         /\ links \in [Url -> SUBSET Url] /\ left \subseteq Url /\ seen \subseteq Url
  <1>1. /\ pages \in Seq(Page) /\ queue \in Seq(Entry) /\ fetching \in 0..Attempts /\ requests \in Nat
        /\ links \in [Url -> SUBSET Url] /\ left \subseteq Url /\ seen \subseteq Url
    BY DEF CrInv, CrTypeOK
  <1>2. MaxDepth \in Nat /\ MaxPages \in Nat /\ Attempts \in Nat /\ Attempts > 0
    BY BoundsAreNatural
  <1>3. PICK n \in Nat : n = Len(pages) /\ DOMAIN pages = 1..n /\ \A i \in 1..n : pages[i] \in Page
    BY <1>1, LenProperties
  <1>4. PICK m \in Nat : m = Len(queue) /\ DOMAIN queue = 1..m /\ \A i \in 1..m : queue[i] \in Entry
    BY <1>1, LenProperties
  <1>5. \A p \in Page : p.url \in Url /\ p.depth \in Nat /\ p.depth <= MaxDepth /\ p.html \in BOOLEAN
    BY <1>2 DEF Page
  <1>6. \A e \in Entry : e.url \in Url /\ e.depth \in Nat /\ e.depth <= MaxDepth
    BY <1>2 DEF Entry
  <1>7. queue # <<>> => 1 \in DOMAIN queue /\ Head(queue) = queue[1]
    BY <1>1, EmptySeq, <1>4
  <1> QED BY <1>1, <1>2, <1>3, <1>4, <1>5, <1>6, <1>7

LEMMA TailOfQueue ==
  ASSUME CrInv, queue # <<>>, NEW t, t = Tail(queue)
  PROVE  /\ t \in Seq(Entry) /\ Len(t) = Len(queue) - 1 /\ Len(t) \in Nat
         /\ DOMAIN t = 1..(Len(queue) - 1)
         /\ \A j \in DOMAIN t : j + 1 \in DOMAIN queue /\ t[j] = queue[j + 1]
  <1>1. t \in Seq(Entry) /\ Len(t) = Len(queue) - 1 /\ \A j \in 1..Len(t) : t[j] = queue[j + 1]
    BY CrFacts, HeadTailProperties
  <1>2. Len(t) \in Nat /\ DOMAIN t = 1..Len(t)
    BY <1>1, LenProperties
  <1> QED BY <1>1, <1>2, CrFacts

\* The head of the queue goes and no page comes.
LEMMA DropKeeps ==
  ASSUME CrInv, queue # <<>>, queue' = Tail(queue), UNCHANGED <<links, pages, requests, fetching>>,
         fetching = 0, left \subseteq left', left' \subseteq LeftOut, left' \subseteq Url,
         queue[1].url \in Settled', seen' = Settled'
  PROVE  CrInv'
  <1>1. /\ queue' \in Seq(Entry) /\ Len(queue') = Len(queue) - 1 /\ Len(queue') \in Nat
        /\ DOMAIN queue' = 1..(Len(queue) - 1)
        /\ \A j \in DOMAIN queue' : j + 1 \in DOMAIN queue /\ queue'[j] = queue[j + 1]
    BY TailOfQueue
  <1>2. Fetched' = Fetched /\ Settled \subseteq Settled'
    BY DEF Fetched, Settled
  <1>3. CrTypeOK'
    <2>1. Fetched \subseteq Url
      BY CrFacts DEF Fetched
    <2> QED BY <1>1, <1>2, <2>1 DEF CrInv, CrTypeOK, Settled
  <1>4. AtHead'
    BY <1>2 DEF CrInv, AtHead
  <1>5. Layered'
    <2>1. \A i \in DOMAIN pages, j \in DOMAIN queue' : pages[i].depth <= queue'[j].depth
      BY <1>1 DEF CrInv, Layered
    <2>2. ASSUME NEW i \in DOMAIN queue', NEW j \in DOMAIN queue', i < j
          PROVE  queue'[i].depth <= queue'[j].depth /\ queue'[j].depth <= queue'[i].depth + 1
      <3>1. i + 1 \in DOMAIN queue /\ j + 1 \in DOMAIN queue /\ i + 1 < j + 1
        BY <1>1, <2>2
      <3> QED BY <1>1, <3>1 DEF CrInv, Layered
    <2> QED BY <2>1, <2>2 DEF CrInv, Layered
  <1>6. FromFirst'
    <2>1. ASSUME NEW j \in DOMAIN queue', queue'[j].url \notin Settled',
                 \A i \in 1..(j - 1) : queue'[i].url # queue'[j].url
          PROVE  Foremost(j + 1)
      <3>1. queue[j + 1].url \notin Settled /\ queue[j + 1].url # queue[1].url
        BY <1>1, <1>2, <2>1
      <3>2. ASSUME NEW i \in 1..((j + 1) - 1) PROVE queue[i].url # queue[j + 1].url
        <4>1. CASE i = 1
          BY <3>1, <4>1
        <4>2. CASE i # 1
          <5>1. PICK h \in 1..(j - 1) : i = h + 1
            BY <1>1, <4>2, CrFacts
          <5>2. h \in DOMAIN queue'
            BY <1>1, CrFacts
          <5> QED BY <1>1, <2>1, <5>1, <5>2
        <4> QED BY <4>1, <4>2
      <3> QED BY <3>1, <3>2 DEF Foremost
    <2>2. ASSUME NEW j \in DOMAIN queue', Foremost(j + 1)
          PROVE  IF pages = <<>> THEN queue'[j].url = Base /\ queue'[j].depth = 0
                 ELSE \E k \in DOMAIN pages :
                        FirstLink(queue'[j].url, k) /\ queue'[j].depth = pages[k].depth + 1
      <3>1. Rooted(queue[j + 1]) /\ queue'[j] = queue[j + 1]
        BY <1>1, <2>2 DEF CrInv, FromFirst
      <3> QED BY <3>1 DEF Rooted
    <2>3. \A j \in DOMAIN queue' : Foremost(j)' => Foremost(j + 1)
      BY <2>1 DEF Foremost
    <2>4. \A j \in DOMAIN queue' : Foremost(j)' => Rooted(queue[j])'
      BY <2>2, <2>3 DEF Rooted, FirstLink
    <2>5. pages' = <<>> => Len(queue') <= 1
      BY <1>1, CrFacts DEF CrInv, FromFirst
    <2> QED BY <2>4, <2>5 DEF FromFirst
  <1>7. Remembered'
    <2>1. ASSUME NEW k \in DOMAIN pages, pages[k].html /\ pages[k].depth < MaxDepth,
                 NEW u \in links[pages[k].url], u \notin Settled'
          PROVE  \E j \in DOMAIN queue' : queue'[j].url = u
      <3>1. PICK j \in DOMAIN queue : queue[j].url = u
        BY <1>2, <2>1 DEF CrInv, Remembered
      <3>2. j # 1
        BY <2>1, <3>1, Zenon
      <3>3. PICK n \in Nat : n = Len(queue) /\ DOMAIN queue = 1..n
        BY CrFacts
      <3>4. PICK h : h = j - 1
        OBVIOUS
      <3>5. h \in DOMAIN queue' /\ j = h + 1
        <4>1. DOMAIN queue' = 1..(n - 1) /\ j \in 1..n
          BY <1>1, <3>3
        <4> QED BY <3>2, <3>3, <3>4, <4>1
      <3> QED BY <1>1, <3>1, <3>5
    <2> QED BY <2>1 DEF Remembered
  <1>8. InFirstOrder' /\ Priced'
    BY DEF CrInv, InFirstOrder, Priced, FirstLink
  <1> QED BY <1>3, <1>4, <1>5, <1>6, <1>7, <1>8 DEF CrInv

LEMMA PopUrlKeeps ==
  ASSUME CrInv, PopUrl
  PROVE  CrInv'
  <1>1. PICK url : url = Head(queue).url
    OBVIOUS
  <1>2. /\ fetching = 0 /\ queue # <<>> /\ Len(pages) < MaxPages
        /\ seen' = seen \cup {url} /\ UNCHANGED <<links, pages, requests>>
        /\ \/ url \in seen /\ queue' = Tail(queue) /\ UNCHANGED <<left, fetching>>
           \/ /\ url \in LeftOut /\ queue' = Tail(queue) /\ left' = left \cup {url}
              /\ UNCHANGED fetching
           \/ /\ url \notin seen /\ url \notin LeftOut
              /\ fetching' = 1 /\ UNCHANGED <<queue, left>>
    BY <1>1 DEF PopUrl
  <1>3. url = queue[1].url /\ url \in Url /\ 1 \in DOMAIN queue
    BY <1>1, <1>2, CrFacts
  <1>4. seen = Settled /\ Fetched' = Fetched
    BY <1>2 DEF CrInv, AtHead, Fetched
  <1>5. CASE url \in seen /\ queue' = Tail(queue) /\ UNCHANGED <<left, fetching>>
    <2>1. Settled' = Settled
      BY <1>4, <1>5 DEF Settled
    <2> QED BY <1>2, <1>3, <1>4, <1>5, <2>1, CrFacts, DropKeeps DEF CrInv, AtHead
  <1>6. CASE /\ url \in LeftOut /\ queue' = Tail(queue) /\ left' = left \cup {url}
             /\ UNCHANGED fetching
    <2>1. Settled' = Settled \cup {url}
      BY <1>4, <1>6 DEF Settled
    <2>2. left' \subseteq LeftOut /\ left' \subseteq Url
      BY <1>3, <1>6, CrFacts DEF CrInv, AtHead
    <2> QED BY <1>2, <1>3, <1>4, <1>6, <2>1, <2>2, DropKeeps
  <1>7. CASE /\ url \notin seen /\ url \notin LeftOut
             /\ fetching' = 1 /\ UNCHANGED <<queue, left>>
    <2>1. Settled' = Settled
      BY <1>4, <1>7 DEF Settled
    <2>2. CrTypeOK'
      <3>1. seen' \subseteq Url /\ fetching' \in 0..Attempts
        BY <1>2, <1>3, <1>7, CrFacts
      <3> QED BY <1>2, <1>7, <3>1 DEF CrInv, CrTypeOK
    <2>3. AtHead'
      <3>1. seen' = Settled' \cup {u \in Url : fetching' > 0 /\ u = queue'[1].url}
        BY <1>2, <1>3, <1>4, <1>7, <2>1
      <3>2. queue' # <<>> /\ Len(pages') < MaxPages /\ queue'[1].url \notin Settled'
            /\ queue'[1].url \notin LeftOut
        BY <1>2, <1>3, <1>4, <1>7, <2>1
      <3> QED BY <1>4, <1>7, <3>1, <3>2 DEF CrInv, AtHead
    <2>4. Layered' /\ InFirstOrder'
      BY <1>2, <1>7 DEF CrInv, Layered, InFirstOrder, FirstLink
    <2>5. FromFirst'
      BY <1>2, <1>7, <2>1 DEF CrInv, FromFirst, Foremost, Rooted, FirstLink
    <2>6. Remembered'
      BY <1>2, <1>7, <2>1 DEF CrInv, Remembered
    <2>7. Priced'
      BY <1>2, <1>7 DEF CrInv, Priced
    <2> QED BY <2>2, <2>3, <2>4, <2>5, <2>6, <2>7 DEF CrInv
  <1> QED BY <1>2, <1>5, <1>6, <1>7

LEMMA RetryKeeps ==
  ASSUME CrInv, fetching > 0, fetching < Attempts, requests' = requests + 1,
         fetching' = fetching + 1, UNCHANGED <<links, queue, seen, pages, left>>
  PROVE  CrInv'
  <1>1. fetching' > 0 /\ fetching' \in 0..Attempts /\ fetching' # 0 /\ fetching # 0 /\ requests' \in Nat
    BY CrFacts
  <1>2. Settled' = Settled /\ Fetched' = Fetched
    BY DEF Settled, Fetched
  <1>3. CrTypeOK'
    BY <1>1 DEF CrInv, CrTypeOK
  <1>4. AtHead'
    BY <1>1, <1>2 DEF CrInv, AtHead
  <1>5. Layered' /\ InFirstOrder'
    BY DEF CrInv, Layered, InFirstOrder, FirstLink
  <1>6. FromFirst' /\ Remembered'
    BY <1>2 DEF CrInv, FromFirst, Foremost, Rooted, FirstLink, Remembered
  <1>7. Priced'
    <2>1. PICK price : price = Attempts * Len(pages)
      OBVIOUS
    <2>2. price \in Nat
      BY <2>1, CrFacts
    <2>3. Len(pages) <= MaxPages /\ requests <= price + (fetching - 1)
      BY <1>1, <2>1 DEF CrInv, Priced
    <2>4. requests' <= price + (fetching' - 1)
      <3>1. requests \in Nat /\ fetching \in Nat
        BY CrFacts
      <3> QED BY <2>2, <2>3, <3>1
    <2> QED BY <1>1, <2>1, <2>3, <2>4 DEF Priced
  <1> QED BY <1>3, <1>4, <1>5, <1>6, <1>7 DEF CrInv

\* The orders of a finite set have each of its members.
LEMMA OrdersAreComplete ==
  ASSUME NEW S, IsFiniteSet(S), NEW order \in SetToSeqs(S)
  PROVE  \E c \in Nat :
           /\ DOMAIN order = 1..c /\ \A i \in 1..c : order[i] \in S
           /\ \A x \in S : \E i \in 1..c : order[i] = x
  <1>1. PICK c : c = Cardinality(S)
    OBVIOUS
  <1>2. c \in Nat
    BY <1>1, FS_CardinalityType
  <1>3. order \in [1..c -> S] /\ \A i, j \in 1..c : i # j => order[i] # order[j]
    BY <1>1 DEF SetToSeqs
  <1>4. order \in Injection(1..c, S)
    BY <1>3 DEF Injection, IsInjective
  <1>5. Cardinality(1..c) = Cardinality(S)
    BY <1>1, <1>2, FS_Interval
  <1>6. order \in Surjection(1..c, S)
    BY <1>4, <1>5, FS_Injection
  <1> QED BY <1>2, <1>3, <1>6 DEF Surjection

IsHead(page) ==
  page \in Page /\ page.url = queue[1].url /\ page.depth = queue[1].depth

Grows(page, K, order) ==
  /\ K = LinksOf(page) /\ order \in SetToSeqs(K)
  /\ queue' = Tail(queue) \o [i \in DOMAIN order |-> [url |-> order[i], depth |-> page.depth + 1]]

Longer(page, K, n, e) ==
  /\ queue' \in Seq(Entry) /\ Len(queue) = n + 1 /\ DOMAIN queue' = 1..e /\ n <= e
  /\ Len(queue') = e
  /\ \A j \in 1..n : j + 1 \in DOMAIN queue /\ queue'[j] = queue[j + 1]
  /\ \A j \in (n + 1)..e : queue'[j].url \in K /\ queue'[j].depth = page.depth + 1
  /\ \A u \in K : \E j \in (n + 1)..e : queue'[j].url = u

\* The page at the head of the queue is fetched, and the links to follow from
\* it come to the end of the queue.
LEMMA QueueGrows ==
  ASSUME CrInv, queue # <<>>, NEW page, IsHead(page), NEW K, NEW order, Grows(page, K, order)
  PROVE  \E n, e \in Nat : Longer(page, K, n, e)
  <1>1. /\ page.url \in Url /\ links[page.url] \subseteq Url /\ page.depth \in Nat
        /\ K \subseteq links[page.url]
        /\ K # {} => page.html /\ page.depth < MaxDepth
    <2>1. page.url \in Url /\ page.depth \in Nat
      BY BoundsAreNatural DEF Page, IsHead
    <2>2. K = LinksOf(page)
      BY DEF Grows
    <2> QED BY <2>1, <2>2, CrFacts DEF LinksOf
  <1>2. IsFiniteSet(K) /\ K \subseteq Url
    BY <1>1, BaseIsUrl, FS_Subset
  <1>3. PICK c \in Nat :
          /\ DOMAIN order = 1..c /\ \A i \in 1..c : order[i] \in K
          /\ \A x \in K : \E i \in 1..c : order[i] = x
    <2>1. order \in SetToSeqs(K)
      BY DEF Grows
    <2> QED BY <1>2, <2>1, OrdersAreComplete
  <1>4. PICK t : t = Tail(queue)
    OBVIOUS
  <1>5. PICK n \in Nat : Len(queue) = n + 1 /\ DOMAIN queue = 1..(n + 1)
    <2>1. Len(queue) \in Nat /\ 1 \in 1..Len(queue) /\ DOMAIN queue = 1..Len(queue)
      BY CrFacts
    <2>2. Len(queue) - 1 \in Nat /\ Len(queue) = (Len(queue) - 1) + 1
      BY <2>1
    <2> QED BY <2>1, <2>2
  <1>6. /\ t \in Seq(Entry) /\ Len(t) = n
        /\ \A j \in 1..n : j + 1 \in DOMAIN queue /\ t[j] = queue[j + 1]
    <2>1. /\ t \in Seq(Entry) /\ Len(t) = Len(queue) - 1 /\ DOMAIN t = 1..(Len(queue) - 1)
          /\ \A j \in DOMAIN t : j + 1 \in DOMAIN queue /\ t[j] = queue[j + 1]
      BY <1>4, TailOfQueue
    <2>2. Len(queue) - 1 = n
      BY <1>5
    <2> QED BY <2>1, <2>2
  <1>7. PICK kids : kids = [i \in DOMAIN order |-> [url |-> order[i], depth |-> page.depth + 1]]
    OBVIOUS
  <1>8. /\ DOMAIN kids = 1..c
        /\ \A i \in 1..c : kids[i].url = order[i] /\ kids[i].depth = page.depth + 1 /\ kids[i] \in Entry
    <2>1. ASSUME NEW i \in 1..c
          PROVE  [url |-> order[i], depth |-> page.depth + 1] \in Entry
      <3>1. order[i] \in K /\ order[i] \in Url /\ page.depth < MaxDepth
        BY <1>1, <1>2, <1>3
      <3>2. page.depth + 1 \in 0..MaxDepth
        BY <1>1, <3>1, BoundsAreNatural
      <3> QED BY <3>1, <3>2 DEF Entry
    <2> QED BY <1>3, <1>7, <2>1
  <1>9. kids \in Seq(Entry) /\ Len(kids) = c
    <2>1. kids \in [1..c -> Entry]
      BY <1>3, <1>7, <1>8
    <2> QED BY <2>1
  <1>10. PICK w : w = t \o kids /\ queue' = w
    BY <1>4, <1>7 DEF Grows
  <1>11. /\ w \in Seq(Entry) /\ Len(w) = n + c
         /\ \A j \in 1..(n + c) : w[j] = IF j <= n THEN t[j] ELSE kids[j - n]
    BY <1>6, <1>9, <1>10, ConcatProperties
  <1>12. DOMAIN w = 1..(n + c)
    BY <1>11, LenProperties
  <1>13. \A j \in 1..n : j + 1 \in DOMAIN queue /\ w[j] = queue[j + 1]
    BY <1>6, <1>11
  <1>14. ASSUME NEW j \in (n + 1)..(n + c)
         PROVE  w[j].url \in K /\ w[j].depth = page.depth + 1
    <2>1. j - n \in 1..c /\ ~(j <= n) /\ j \in 1..(n + c)
      OBVIOUS
    <2>2. w[j] = kids[j - n]
      BY <1>11, <2>1
    <2> QED BY <1>3, <1>8, <2>1, <2>2
  <1>15. ASSUME NEW u \in K
         PROVE  \E j \in (n + 1)..(n + c) : w[j].url = u
    <2>1. PICK i \in 1..c : order[i] = u
      BY <1>3
    <2>2. n + i \in (n + 1)..(n + c) /\ n + i \in 1..(n + c) /\ ~(n + i <= n) /\ (n + i) - n = i
      OBVIOUS
    <2>3. w[n + i] = kids[i]
      BY <1>11, <2>2
    <2> QED BY <1>8, <2>1, <2>2, <2>3
  <1>16. PICK e \in Nat : e = n + c /\ n <= e
    OBVIOUS
  <1>17. /\ queue' \in Seq(Entry) /\ Len(queue') = e /\ DOMAIN queue' = 1..e /\ n <= e
         /\ \A j \in 1..n : j + 1 \in DOMAIN queue /\ queue'[j] = queue[j + 1]
    BY <1>10, <1>11, <1>12, <1>13, <1>16
  <1>18. /\ \A j \in (n + 1)..e : queue'[j].url \in K /\ queue'[j].depth = page.depth + 1
         /\ \A u \in K : \E j \in (n + 1)..e : queue'[j].url = u
    BY <1>10, <1>14, <1>15, <1>16
  <1>19. Longer(page, K, n, e)
    BY <1>5, <1>17, <1>18 DEF Longer
  <1> QED BY <1>19

LEMMA Before ==
  ASSUME NEW m \in Nat, NEW i \in 1..m, i # 1
  PROVE  \E h \in 1..(m - 1) : i = h + 1
  <1>1. i - 1 \in 1..(m - 1) /\ i = (i - 1) + 1
    OBVIOUS
  <1> QED BY <1>1

Adds(page) == pages' = Append(pages, page)

\* The page that was asked for is kept, and its links come to the end.
LEMMA AppendKeeps ==
  ASSUME CrInv, fetching > 0, NEW page, IsHead(page), Adds(page),
         requests' = requests + 1, fetching' = 0, UNCHANGED <<links, seen, left>>,
         NEW K, NEW order, Grows(page, K, order)
  PROVE  CrInv'
  <1>1. /\ queue # <<>> /\ Len(pages) < MaxPages
        /\ queue[1].url \notin Settled /\ queue[1].url \notin LeftOut
    BY DEF CrInv, AtHead
  <1>2. PICK url : url = queue[1].url
    OBVIOUS
  <1>3. /\ url \in Url /\ page.url = url /\ page.depth \in Nat /\ page.html \in BOOLEAN
        /\ 1 \in DOMAIN queue /\ url \notin Settled /\ url \notin LeftOut
    BY <1>1, <1>2, CrFacts DEF Page, IsHead
  <1>4. page.depth = queue[1].depth /\ page \in Page /\ K = LinksOf(page)
    BY DEF IsHead, Grows
  <1>5. PICK n, e \in Nat : Longer(page, K, n, e)
    BY <1>1, QueueGrows
  <1>6. /\ queue' \in Seq(Entry) /\ Len(queue) = n + 1 /\ DOMAIN queue' = 1..e /\ n <= e
        /\ Len(queue') = e
        /\ \A j \in 1..n : j + 1 \in DOMAIN queue /\ queue'[j] = queue[j + 1]
        /\ \A j \in (n + 1)..e : queue'[j].url \in K /\ queue'[j].depth = page.depth + 1
        /\ \A u \in K : \E j \in (n + 1)..e : queue'[j].url = u
    BY <1>5, Zenon DEF Longer
  <1>7. DOMAIN queue = 1..(n + 1)
    BY <1>6, CrFacts
  <1>8. PICK N \in Nat : N = Len(pages) /\ DOMAIN pages = 1..N
    BY CrFacts
  <1>9. /\ pages' \in Seq(Page) /\ Len(pages') = N + 1 /\ DOMAIN pages' = 1..(N + 1)
        /\ \A i \in 1..N : pages'[i] = pages[i]
        /\ pages'[N + 1] = page
    <2>1. PICK p : p = Append(pages, page) /\ pages' = p
      BY DEF Adds
    <2>2. /\ p \in Seq(Page) /\ Len(p) = N + 1 /\ \A i \in 1..N : p[i] = pages[i]
          /\ p[N + 1] = page
      BY <1>4, <1>8, <2>1, CrFacts, AppendProperties
    <2>3. DOMAIN p = 1..(N + 1)
      BY <2>2, LenProperties
    <2> QED BY <2>1, <2>2, <2>3
  <1>10. Fetched' = Fetched \cup {url} /\ Settled' = Settled \cup {url}
    <2>1. Fetched' = Fetched \cup {url}
      <3>1. \A i \in 1..(N + 1) : i \in 1..N \/ i = N + 1
        OBVIOUS
      <3>2. \A i \in 1..N : i \in 1..(N + 1)
        OBVIOUS
      <3>3. N + 1 \in 1..(N + 1)
        OBVIOUS
      <3> QED BY <1>3, <1>8, <1>9, <3>1, <3>2, <3>3 DEF Fetched
    <2> QED BY <2>1 DEF Settled
  <1>11. \A k \in 1..N : \A u : FirstLink(u, k) =>
          /\ pages'[k].html /\ u \in links'[pages'[k].url]
          /\ \A m \in 1..(k - 1) : pages'[m].html => u \notin links'[pages'[m].url]
    <2>1. \A k \in 1..N : \A m \in 1..(k - 1) : m \in 1..N
      OBVIOUS
    <2> QED BY <1>9, <2>1 DEF FirstLink
  <1>12. CrTypeOK'
    <2>1. fetching' \in 0..Attempts /\ requests' \in Nat
      BY CrFacts
    <2> QED BY <1>6, <1>9, <2>1 DEF CrInv, CrTypeOK
  <1>13. AtHead'
    <2>1. seen = Settled \cup {url}
      BY <1>2, <1>3 DEF CrInv, AtHead
    <2>2. seen' = Settled' \cup {u \in Url : fetching' > 0 /\ u = queue'[1].url}
      BY <1>10, <2>1
    <2>3. left' \subseteq LeftOut /\ Fetched' \cap LeftOut = {}
      BY <1>3, <1>10 DEF CrInv, AtHead
    <2> QED BY <2>2, <2>3 DEF AtHead
  <1>14. \A i \in 1..N : pages[i].depth \in Nat /\ pages[i].depth <= page.depth
    BY <1>3, <1>4, <1>8, CrFacts DEF CrInv, Layered
  <1>15. \A j \in 1..(n + 1) :
           /\ queue[j].depth \in Nat
           /\ page.depth <= queue[j].depth /\ queue[j].depth <= page.depth + 1
    <2>1. ASSUME NEW j \in 1..(n + 1)
          PROVE  page.depth <= queue[j].depth /\ queue[j].depth <= page.depth + 1
      <3>1. CASE j = 1
        BY <1>3, <1>4, <3>1
      <3>2. CASE j # 1
        <4>1. 1 < j /\ j \in DOMAIN queue
          BY <1>7, <3>2
        <4> QED BY <1>3, <1>4, <4>1 DEF CrInv, Layered
      <3> QED BY <3>1, <3>2
    <2> QED BY <1>7, <2>1, CrFacts
  <1>16. Layered'
    <2>1. ASSUME NEW i \in 1..(N + 1), NEW j \in 1..(N + 1), i < j
          PROVE  pages'[i].depth <= pages'[j].depth
      <3>1. i \in 1..N
        BY <2>1
      <3>2. CASE j = N + 1
        BY <1>9, <1>14, <3>1, <3>2
      <3>3. CASE j \in 1..N
        <4>1. pages[i].depth <= pages[j].depth
          BY <1>8, <2>1, <3>1, <3>3 DEF CrInv, Layered
        <4> QED BY <1>9, <3>1, <3>3, <4>1
      <3> QED BY <3>2, <3>3
    <2>2. ASSUME NEW j \in 1..e
          PROVE  /\ queue'[j].depth \in Nat /\ page.depth <= queue'[j].depth
                 /\ queue'[j].depth <= page.depth + 1
      <3>1. CASE j <= n
        <4>1. j \in 1..n /\ j + 1 \in 1..(n + 1)
          BY <3>1
        <4>2. queue'[j] = queue[j + 1]
          BY <1>6, <4>1
        <4> QED BY <1>15, <4>1, <4>2
      <3>2. CASE j > n
        <4>1. j \in (n + 1)..e
          BY <3>2
        <4> QED BY <1>3, <1>6, <4>1
      <3> QED BY <3>1, <3>2
    <2>3. ASSUME NEW i \in 1..(N + 1), NEW j \in 1..e
          PROVE  pages'[i].depth <= queue'[j].depth
      <3>1. pages'[i].depth \in Nat /\ pages'[i].depth <= page.depth
        BY <1>3, <1>9, <1>14
      <3> QED BY <1>3, <2>2, <3>1
    <2>4. ASSUME NEW i \in 1..e, NEW j \in 1..e, i < j
          PROVE  queue'[i].depth <= queue'[j].depth /\ queue'[j].depth <= queue'[i].depth + 1
      <3>1. CASE j <= n
        <4>1. i \in 1..n /\ j \in 1..n /\ i + 1 < j + 1
          BY <2>4, <3>1
        <4>2. /\ queue'[i] = queue[i + 1] /\ queue'[j] = queue[j + 1]
              /\ i + 1 \in DOMAIN queue /\ j + 1 \in DOMAIN queue
          BY <1>6, <4>1
        <4>3. queue[i + 1].depth <= queue[j + 1].depth /\ queue[j + 1].depth <= queue[i + 1].depth + 1
          BY <4>1, <4>2 DEF CrInv, Layered
        <4> QED BY <4>2, <4>3
      <3>2. CASE j > n
        <4>1. j \in (n + 1)..e
          BY <3>2
        <4>2. queue'[j].depth = page.depth + 1
          BY <1>6, <4>1
        <4> QED BY <1>3, <2>2, <4>2
      <3> QED BY <3>1, <3>2
    <2> QED BY <1>6, <1>9, <2>1, <2>3, <2>4 DEF Layered
  <1>17. ASSUME NEW u, u \notin Settled', NEW j \in 1..e,
                \A i \in 1..(j - 1) : queue'[i].url # u, j > n
         PROVE  \A i \in DOMAIN queue : queue[i].url # u
    <2>1. SUFFICES ASSUME NEW i \in 1..(n + 1), queue[i].url = u PROVE FALSE
      BY <1>7
    <2>2. i # 1
      BY <1>2, <1>10, <1>17, <2>1
    <2>3. PICK h \in 1..n : i = h + 1
      <3>1. n + 1 \in Nat /\ (n + 1) - 1 = n
        OBVIOUS
      <3> QED BY <2>2, <3>1, Before
    <2>4. h \in 1..(j - 1)
      BY <1>17, <2>3
    <2>5. queue'[h].url = u
      BY <1>6, <2>1, <2>3
    <2> QED BY <1>17, <2>4, <2>5
  <1>18. FromFirst'
    <2>1. pages' # <<>>
      BY <1>9
    <2>2. ASSUME NEW j \in 1..e, queue'[j].url \notin Settled',
                 \A i \in 1..(j - 1) : queue'[i].url # queue'[j].url
          PROVE  \E k \in 1..(N + 1) :
                   /\ pages'[k].html /\ queue'[j].url \in links'[pages'[k].url]
                   /\ \A m \in 1..(k - 1) : pages'[m].html => queue'[j].url \notin links'[pages'[m].url]
                   /\ queue'[j].depth = pages'[k].depth + 1
      <3>1. CASE j <= n
        <4>1. j \in 1..n /\ queue'[j] = queue[j + 1] /\ j + 1 \in DOMAIN queue
          BY <1>6, <3>1
        <4>2. Foremost(j + 1)
          <5>1. ASSUME NEW i \in 1..((j + 1) - 1) PROVE queue[i].url # queue[j + 1].url
            <6>1. CASE i = 1
              BY <1>2, <1>10, <2>2, <4>1, <6>1
            <6>2. CASE i # 1
              <7>1. PICK h \in 1..(j - 1) : i = h + 1
                <8>1. j \in Nat /\ i \in 1..j
                  OBVIOUS
                <8> QED BY <6>2, <8>1, Before
              <7>2. h \in 1..n
                BY <4>1, <7>1
              <7> QED BY <1>6, <2>2, <4>1, <7>1, <7>2
            <6> QED BY <6>1, <6>2
          <5> QED BY <1>10, <2>2, <4>1, <5>1 DEF Foremost
        <4>3. Rooted(queue[j + 1])
          BY <4>1, <4>2 DEF CrInv, FromFirst
        <4>4. pages # <<>>
          <5>1. n > 0
            BY <4>1
          <5> QED BY <1>6, <5>1 DEF CrInv, FromFirst
        <4>5. PICK k \in 1..N : FirstLink(queue[j + 1].url, k) /\ queue[j + 1].depth = pages[k].depth + 1
          BY <1>8, <4>3, <4>4 DEF Rooted
        <4>6. k \in 1..(N + 1) /\ pages'[k] = pages[k]
          BY <1>9
        <4>7. /\ pages'[k].html /\ queue[j + 1].url \in links'[pages'[k].url]
              /\ \A m \in 1..(k - 1) : pages'[m].html => queue[j + 1].url \notin links'[pages'[m].url]
          BY <1>11, <4>5
        <4> QED BY <4>1, <4>5, <4>6, <4>7
      <3>2. CASE j > n
        <4>1. PICK u : u = queue'[j].url
          OBVIOUS
        <4>2. u \in K /\ queue'[j].depth = page.depth + 1
          <5>1. j \in (n + 1)..e
            BY <3>2
          <5> QED BY <1>6, <4>1, <5>1
        <4>3. page.html /\ u \in links[url] /\ page.depth < MaxDepth
          BY <1>3, <1>4, <4>2 DEF LinksOf
        <4>4. ASSUME NEW m \in 1..N, pages[m].html, u \in links[pages[m].url]
              PROVE  FALSE
          <5>1. pages[m].depth < MaxDepth
            BY <1>3, <1>14, <4>3, BoundsAreNatural
          <5>2. u \in Settled \/ \E i \in DOMAIN queue : queue[i].url = u
            BY <1>8, <4>4, <5>1 DEF CrInv, Remembered
          <5> QED BY <1>10, <1>17, <2>2, <3>2, <4>1, <5>2
        <4>5. \A m \in 1..((N + 1) - 1) : pages'[m].html => u \notin links'[pages'[m].url]
          BY <1>9, <4>4
        <4>6. N + 1 \in 1..(N + 1)
          OBVIOUS
        <4>7. pages'[N + 1].html /\ u \in links'[pages'[N + 1].url] /\ queue'[j].depth = pages'[N + 1].depth + 1
          BY <1>3, <1>9, <4>2, <4>3
        <4> QED BY <4>1, <4>5, <4>6, <4>7
      <3> QED BY <3>1, <3>2
    <2>3. ASSUME NEW j \in 1..e, Foremost(j)'
          PROVE  Rooted(queue[j])'
      <3>1. queue'[j].url \notin Settled' /\ \A i \in 1..(j - 1) : queue'[i].url # queue'[j].url
        BY <2>3 DEF Foremost
      <3>2. PICK k \in 1..(N + 1) :
              /\ pages'[k].html /\ queue'[j].url \in links'[pages'[k].url]
              /\ \A m \in 1..(k - 1) : pages'[m].html => queue'[j].url \notin links'[pages'[m].url]
              /\ queue'[j].depth = pages'[k].depth + 1
        BY <2>2, <3>1
      <3> QED BY <1>9, <2>1, <3>2 DEF Rooted, FirstLink
    <2> QED BY <1>6, <2>1, <2>3 DEF FromFirst
  <1>19. Remembered'
    <2>1. ASSUME NEW k \in 1..(N + 1), pages'[k].html, pages'[k].depth < MaxDepth,
                 NEW u \in links[pages'[k].url], u \notin Settled'
          PROVE  \E j \in 1..e : queue'[j].url = u
      <3>1. CASE k = N + 1
        <4>1. u \in links[url] /\ page.html /\ page.depth < MaxDepth
          BY <1>3, <1>9, <2>1, <3>1
        <4>2. u \notin seen
          BY <1>2, <1>3, <1>10, <2>1 DEF CrInv, AtHead
        <4>3. u \in K
          BY <1>3, <1>4, <4>1, <4>2 DEF LinksOf
        <4>4. PICK j \in (n + 1)..e : queue'[j].url = u
          BY <1>6, <4>3
        <4>5. j \in 1..e
          OBVIOUS
        <4> QED BY <4>4, <4>5
      <3>2. CASE k \in 1..N
        <4>1. pages[k].html /\ pages[k].depth < MaxDepth /\ u \in links[pages[k].url] /\ u \notin Settled
          BY <1>9, <1>10, <2>1, <3>2
        <4>2. PICK i \in 1..(n + 1) : queue[i].url = u
          BY <1>7, <1>8, <3>2, <4>1 DEF CrInv, Remembered
        <4>3. i # 1
          BY <1>2, <1>10, <2>1, <4>2
        <4>4. PICK h \in 1..n : i = h + 1
          <5>1. n + 1 \in Nat /\ (n + 1) - 1 = n
            OBVIOUS
          <5> QED BY <4>3, <5>1, Before
        <4>5. h \in 1..e /\ queue'[h] = queue[i]
          BY <1>6, <4>4
        <4> QED BY <4>2, <4>5
      <3> QED BY <3>1, <3>2
    <2> QED BY <1>6, <1>9, <2>1 DEF Remembered
  <1>20. InFirstOrder'
    <2>1. ASSUME NEW i \in 1..N
          PROVE  /\ i = 1 => pages'[i].url = Base /\ pages'[i].depth = 0
                 /\ i > 1 => \E k \in 1..(i - 1) :
                      /\ pages'[k].html /\ pages'[i].url \in links'[pages'[k].url]
                      /\ \A m \in 1..(k - 1) : pages'[m].html => pages'[i].url \notin links'[pages'[m].url]
                      /\ pages'[i].depth = pages'[k].depth + 1
                 /\ \A k \in 1..(i - 1) : pages'[k].url # pages'[i].url
      <3>1. /\ i = 1 => pages[i].url = Base /\ pages[i].depth = 0
            /\ i > 1 => \E k \in 1..(i - 1) : FirstLink(pages[i].url, k) /\ pages[i].depth = pages[k].depth + 1
            /\ \A k \in 1..(i - 1) : pages[k].url # pages[i].url
        BY <1>8 DEF CrInv, InFirstOrder
      <3>2. \A k \in 1..(i - 1) : k \in 1..N
        OBVIOUS
      <3> QED BY <1>9, <1>11, <3>1, <3>2
    <2>2. ASSUME NEW i, i = N + 1
          PROVE  /\ i = 1 => pages'[i].url = Base /\ pages'[i].depth = 0
                 /\ i > 1 => \E k \in 1..(i - 1) :
                      /\ pages'[k].html /\ pages'[i].url \in links'[pages'[k].url]
                      /\ \A m \in 1..(k - 1) : pages'[m].html => pages'[i].url \notin links'[pages'[m].url]
                      /\ pages'[i].depth = pages'[k].depth + 1
                 /\ \A k \in 1..(i - 1) : pages'[k].url # pages'[i].url
      <3>1. Foremost(1)
        BY <1>1 DEF Foremost
      <3>2. Rooted(queue[1])
        BY <1>3, <3>1 DEF CrInv, FromFirst
      <3>3. pages'[i] = page /\ i - 1 = N
        BY <1>9, <2>2
      <3>4. CASE i = 1
        <4>1. N = 0 /\ pages = <<>>
          BY <1>8, <2>2, <3>4, CrFacts, EmptySeq
        <4>2. page.url = Base /\ page.depth = 0
          BY <1>2, <1>3, <1>4, <3>2, <4>1 DEF Rooted
        <4>3. 1..(i - 1) = {}
          BY <3>4
        <4> QED BY <3>3, <3>4, <4>2, <4>3
      <3>5. CASE i # 1
        <4>1. pages # <<>>
          BY <1>8, <2>2, <3>5
        <4>2. PICK k \in 1..N : FirstLink(url, k) /\ page.depth = pages[k].depth + 1
          BY <1>2, <1>8, <1>4, <3>2, <4>1 DEF Rooted
        <4>3. ASSUME NEW m \in 1..(i - 1) PROVE pages'[m].url # pages'[i].url
          BY <1>3, <1>8, <1>9, <3>3 DEF Settled, Fetched
        <4> QED BY <1>3, <1>9, <1>11, <3>3, <3>5, <4>2, <4>3
      <3> QED BY <3>4, <3>5
    <2>3. \A i \in DOMAIN pages' : i \in 1..N \/ i = N + 1
      BY <1>9
    <2> QED BY <2>1, <2>2, <2>3 DEF InFirstOrder, FirstLink
  <1>21. Priced'
    <2>1. PICK price : price = Attempts * N
      OBVIOUS
    <2>2. price \in Nat
      BY <2>1, CrFacts
    <2>3. fetching \in Nat /\ fetching <= Attempts /\ fetching # 0 /\ requests <= price + (fetching - 1)
      BY <1>8, <2>1, CrFacts DEF CrInv, Priced
    <2>4. Attempts * (N + 1) = price + Attempts
      BY <2>1, CrFacts
    <2>5. requests' <= Attempts * (N + 1)
      <3>1. requests \in Nat /\ Attempts \in Nat
        BY CrFacts
      <3> QED BY <2>2, <2>3, <2>4, <3>1
    <2>6. N + 1 <= MaxPages
      BY <1>1, <1>8, BoundsAreNatural
    <2>7. Attempts * (N + 1) \in Nat /\ requests' \in Nat
      BY CrFacts
    <2>8. requests' <= Attempts * Len(pages') + (IF fetching' = 0 THEN 0 ELSE fetching' - 1)
      BY <1>9, <2>5, <2>7
    <2> QED BY <1>9, <2>6, <2>8 DEF Priced
  <1> QED BY <1>12, <1>13, <1>16, <1>18, <1>19, <1>20, <1>21 DEF CrInv

LEMMA AttemptKeeps ==
  ASSUME CrInv, NEW reply, NEW html \in BOOLEAN, Attempt(reply, html)
  PROVE  CrInv'
  <1>1. fetching > 0 /\ requests' = requests + 1 /\ UNCHANGED <<links, seen, left>>
    BY DEF Attempt
  <1>2. CASE fetching < Attempts /\ fetching' = fetching + 1 /\ UNCHANGED <<queue, pages>>
    BY <1>1, <1>2, RetryKeeps
  <1>3. CASE fetching' = 0 /\ Append1(html /\ reply # "broken")
    <2>1. PICK page : page = [url |-> Head(queue).url, depth |-> Head(queue).depth,
                              html |-> html /\ reply # "broken"]
      OBVIOUS
    <2>2. queue # <<>> /\ Head(queue) = queue[1] /\ 1 \in DOMAIN queue
      BY <1>1, CrFacts DEF CrInv, AtHead
    <2>3. queue[1] \in Entry
      <3>1. queue \in Seq(Entry) /\ DOMAIN queue = 1..Len(queue)
        BY CrFacts
      <3> QED BY <2>2, <3>1
    <2>4. IsHead(page)
      BY <2>1, <2>2, <2>3 DEF IsHead, Page, Entry
    <2>5. Adds(page)
      BY <1>3, <2>1 DEF Append1, Adds
    <2>6. PICK order : Grows(page, LinksOf(page), order)
      BY <1>3, <2>1 DEF Append1, Grows
    <2> QED BY <1>1, <1>3, <2>4, <2>5, <2>6, AppendKeeps
  <1>4. \/ fetching < Attempts /\ fetching' = fetching + 1 /\ UNCHANGED <<queue, pages>>
        \/ fetching' = 0 /\ Append1(html /\ reply # "broken")
    BY DEF Attempt
  <1> QED BY <1>2, <1>3, <1>4

LEMMA CrStarts == CrInit => CrInv
  <1> SUFFICES ASSUME CrInit PROVE CrInv
    OBVIOUS
  <1>1. PICK start : start = [url |-> Base, depth |-> 0]
    OBVIOUS
  <1>2. /\ queue = <<start>> /\ pages = <<>> /\ seen = {} /\ left = {} /\ fetching = 0 /\ requests = 0
        /\ links \in [Url -> SUBSET Url]
    BY <1>1 DEF CrInit
  <1>3. start \in Entry /\ start.url = Base /\ start.depth = 0
    BY <1>1, BaseIsUrl, BoundsAreNatural DEF Entry
  <1>4. queue \in Seq(Entry) /\ Len(queue) = 1 /\ DOMAIN queue = {1} /\ queue[1] = start
    BY <1>2, <1>3
  <1>5. pages \in Seq(Page) /\ Len(pages) = 0 /\ DOMAIN pages = {}
    BY <1>2
  <1>6. Fetched = {} /\ Settled = {}
    BY <1>2, <1>5 DEF Fetched, Settled
  <1>7. CrTypeOK
    BY <1>2, <1>4, <1>5, BoundsAreNatural DEF CrTypeOK
  <1>8. AtHead
    BY <1>2, <1>6 DEF AtHead
  <1>9. Layered
    <2>1. \A i, j \in {1} : ~(i < j)
      OBVIOUS
    <2> QED BY <1>4, <1>5, <2>1 DEF Layered
  <1>10. FromFirst
    BY <1>2, <1>3, <1>4 DEF FromFirst, Rooted
  <1>11. Remembered /\ InFirstOrder
    BY <1>5 DEF Remembered, InFirstOrder
  <1>12. Priced
    BY <1>2, <1>5, BoundsAreNatural DEF Priced
  <1> QED BY <1>7, <1>8, <1>9, <1>10, <1>11, <1>12 DEF CrInv

LEMMA CrSteps == CrInv /\ [CrawlStep]_crVars => CrInv'
  <1> SUFFICES ASSUME CrInv, [CrawlStep]_crVars PROVE CrInv'
    OBVIOUS
  <1>1. CASE PopUrl
    BY <1>1, PopUrlKeeps
  <1>2. CASE \E reply \in {"answer", "fault", "broken"}, html \in BOOLEAN : Attempt(reply, html)
    BY <1>2, AttemptKeeps
  <1>3. CASE UNCHANGED crVars
    BY <1>3 DEF crVars, CrInv, CrTypeOK, AtHead, Layered, FromFirst, Remembered, InFirstOrder,
                Priced, Foremost, Rooted, FirstLink, Settled, Fetched
  <1> QED BY <1>1, <1>2, <1>3 DEF CrawlStep

LEMMA CrServes == CrInv => CrTypeOK /\ CrawlIsBreadthFirst
  <1> SUFFICES ASSUME CrInv PROVE CrawlIsBreadthFirst
    BY DEF CrInv
  <1>1. PICK n \in Nat : n = Len(pages) /\ DOMAIN pages = 1..n
    BY CrFacts
  <1>2. \A i \in 1..n :
          /\ i = 1 => pages[i].url = Base /\ pages[i].depth = 0
          /\ i > 1 =>
               \E k \in 1..(i - 1) :
                 /\ pages[k].html /\ pages[i].url \in links[pages[k].url]
                 /\ pages[i].depth = pages[k].depth + 1
                 /\ \A m \in 1..(k - 1) : pages[m].html => pages[i].url \notin links[pages[m].url]
          /\ pages[i].url \notin {pages[k].url : k \in 1..(i - 1)}
    BY <1>1 DEF CrInv, InFirstOrder, FirstLink
  <1>3. \A i \in 1..(n - 1) : pages[i].depth <= pages[i + 1].depth
    <2>1. ASSUME NEW i \in 1..(n - 1) PROVE pages[i].depth <= pages[i + 1].depth
      <3>1. i \in 1..n /\ i + 1 \in 1..n /\ i < i + 1
        OBVIOUS
      <3> QED BY <1>1, <3>1 DEF CrInv, Layered
    <2> QED BY <2>1
  <1>4. Fetched \cap left = {} /\ n <= MaxPages
    BY <1>1 DEF CrInv, AtHead, Priced
  <1>5. requests <= Attempts * (n + 1)
    <2>1. PICK price : price = Attempts * n
      OBVIOUS
    <2>2. price \in Nat
      BY <2>1, CrFacts
    <2>3. requests <= price + (IF fetching = 0 THEN 0 ELSE fetching - 1)
      BY <1>1, <2>1 DEF CrInv, Priced
    <2>4. Attempts * (n + 1) = price + Attempts
      BY <2>1, CrFacts
    <2> QED BY <2>2, <2>3, <2>4, CrFacts
  <1> QED BY <1>1, <1>2, <1>3, <1>4, <1>5 DEF CrawlIsBreadthFirst

(***************************************************************************)
(* DiscoveryPipeline.  From the second crawl on every page has a verdict,  *)
(* guarded at least when it turned the visitor away, and graph and risks,  *)
(* once there, are those of the pages and of the verdicts.                 *)
(***************************************************************************)
Judged ==
  dpStage \in {"assemble", "write"} \/ dpFiles # <<>> =>
    \A u \in DOMAIN dpPages :
      u \in DOMAIN dpVerdicts /\ (Guarded(u, dpPages[u]) => dpVerdicts[u].guarded)

Concluded ==
  /\ Assembled =>
       /\ dpGraph = [routes |-> [u \in DOMAIN dpPages |-> dpVerdicts[u].guarded],
                     boundaries |-> BoundariesOf]
       /\ dpRisk = [u \in DOMAIN dpPages |-> Score(u, dpPages[u])]
  /\ dpStage \notin {"write", "over"} =>
       dpGraph = [routes |-> <<>>, boundaries |-> {}] /\ dpRisk = <<>>

Crawled ==
  IF dpStage = "crawl" THEN dpPages = <<>> ELSE dpPages \in AnonymousCrawls

Named == "none" \notin dpReferred

Filed ==
  \E n \in 0..Len(Artifacts) :
    /\ dpFiles = SubSeq(Artifacts, 1, n)
    /\ dpStage = "write" => n < Len(Artifacts)
    /\ dpStage \notin {"write", "over"} => n = 0

DpInv == DpTypeOK /\ Judged /\ Concluded /\ Crawled /\ Named /\ Filed

LEMMA Weighs ==
  ASSUME NEW url, NEW page, page.unlabelled \in Nat
  PROVE  /\ Weight(url, page) \in Nat
         /\ page.status \in {0, 500} => Weight(url, page) >= 80
  <1>1. PICK n \in Nat : n = page.unlabelled
    OBVIOUS
  <1> QED BY <1>1 DEF Weight

LEMMA Scores ==
  ASSUME NEW url, NEW page, page.unlabelled \in Nat
  PROVE  /\ Score(url, page) \in 0..100
         /\ page.status \in {0, 500} => Score(url, page) >= 80
  <1>1. PICK w \in Nat : w = Weight(url, page) /\ (page.status \in {0, 500} => w >= 80)
    BY Weighs
  <1> QED BY <1>1 DEF Score

LEMMA WorseWeighsMore ==
  ASSUME NEW u, NEW w, NEW a, NEW b, a.unlabelled \in Nat, b.unlabelled \in Nat,
         TokensIn[u] = TokensIn[w], NoBetter(a, b)
  PROVE  Score(u, a) >= Score(w, b)
  <1>1. Weight(u, a) >= Weight(w, b)
    <2>1. PICK m \in Nat, n \in Nat : m = a.unlabelled /\ n = b.unlabelled /\ m >= n
      BY DEF NoBetter
    <2>2. /\ (\E f \in FormsOf(b) : Unhandled(f)) => \E f \in FormsOf(a) : Unhandled(f)
          /\ (\E f \in FormsOf(b) : ~f.validated) => \E f \in FormsOf(a) : ~f.validated
      BY DEF NoBetter
    <2>3. \/ a.status = b.status
          \/ b.status \notin {0, 404, 500} /\ a.status \in {0, 404, 500}
      BY DEF NoBetter, Ok
    <2> QED BY <2>1, <2>2, <2>3 DEF Weight
  <1>2. PICK x \in Nat, y \in Nat : x = Weight(u, a) /\ y = Weight(w, b)
    BY Weighs
  <1> QED BY <1>1, <1>2 DEF Score

LEMMA SuspicionsHold ==
  ASSUME Named
  PROVE  SuspicionsAreBacked
  <1>1. \A u \in DOMAIN dpPages : [method |-> "GET", path |-> PathOf[u]] \in Observed
    BY DEF Observed
  <1>2. ASSUME NEW u \in DOMAIN dpPages, NEW f \in dpPages[u].forms, f.to # "none"
        PROVE  [method |-> f.method, path |-> f.to] \in Observed
    BY <1>2 DEF Observed
  <1>3. \A p \in ReferencedOnly : p \in dpReferred /\ p # "none" /\ \A e \in Observed : e.path # p
    BY DEF ReferencedOnly, Named
  <1>4. ASSUME NEW p \in ReferencedOnly, NEW u \in DOMAIN dpPages
        PROVE  PathOf[u] # p /\ \A f \in dpPages[u].forms : f.to # p
    <2>1. PathOf[u] # p
      BY <1>1, <1>3
    <2>2. ASSUME NEW f \in dpPages[u].forms PROVE f.to # p
      BY <1>2, <1>3
    <2> QED BY <2>1, <2>2
  <1>5. \A p \in ReferencedOnly : [method |-> "GET", path |-> p] \in Discovered
    BY DEF Discovered
  <1>6. Faulty \subseteq {e.path : e \in Discovered}
    <2>1. ASSUME NEW u \in DOMAIN dpPages PROVE PathOf[u] \in {e.path : e \in Discovered}
      <3>1. PICK e : e = [method |-> "GET", path |-> PathOf[u]]
        OBVIOUS
      <3>2. e \in Discovered /\ e.path = PathOf[u]
        BY <1>1, <3>1 DEF Discovered
      <3> QED BY <3>2
    <2> QED BY <2>1 DEF Faulty
  <1>7. dpReferred \subseteq {e.path : e \in Discovered}
    <2>1. ASSUME NEW p \in dpReferred PROVE p \in {e.path : e \in Discovered}
      <3>1. CASE p \in ReferencedOnly
        <4>1. PICK e : e = [method |-> "GET", path |-> p]
          OBVIOUS
        <4>2. e \in Discovered /\ e.path = p
          BY <1>5, <3>1, <4>1
        <4> QED BY <4>2
      <3>2. CASE p \notin ReferencedOnly
        BY <3>2 DEF ReferencedOnly, Discovered
      <3> QED BY <3>1, <3>2
    <2> QED BY <2>1
  <1>8. /\ CrossCheck.undocumented = {e.path : e \in Discovered} \ dpDocument
        /\ CrossCheck.expected = dpDocument \ {e.path : e \in Discovered}
    BY DEF CrossCheck
  <1> QED BY <1>4, <1>5, <1>6, <1>7, <1>8 DEF SuspicionsAreBacked

LEMMA PagesAreTyped ==
  ASSUME Crawled, dpStage # "crawl"
  PROVE  /\ DOMAIN dpPages \subseteq Site
         /\ \A u \in DOMAIN dpPages : dpPages[u].unlabelled \in Nat /\ "none" \notin dpPages[u].inline
  BY CrawlsAreOfTheSite DEF Crawled

LEMMA PairsAreJudged ==
  ASSUME NEW shown, NEW member, DOMAIN shown \subseteq Site, DOMAIN member \subseteq Site,
         NEW v, v = PairVerdicts(shown, member)
  PROVE  /\ DOMAIN v \subseteq Site
         /\ \A u \in DOMAIN v :
              v[u].guarded \in BOOLEAN /\ v[u].uiOnly \in BOOLEAN /\ v[u].escalation \in BOOLEAN
         /\ \A u \in DOMAIN shown : u \in DOMAIN v /\ (Guarded(u, shown[u]) => v[u].guarded)
  <1>1. DOMAIN v = DOMAIN shown \cup DOMAIN member
        /\ \A u \in DOMAIN v : v[u] = PairVerdict(u, shown, member)
    BY DEF PairVerdicts
  <1>2. ASSUME NEW u
        PROVE  /\ PairVerdict(u, shown, member).guarded \in BOOLEAN
               /\ PairVerdict(u, shown, member).uiOnly \in BOOLEAN
               /\ PairVerdict(u, shown, member).escalation \in BOOLEAN
               /\ u \in DOMAIN shown /\ Guarded(u, shown[u]) => PairVerdict(u, shown, member).guarded
    BY DEF PairVerdict
  <1> QED BY <1>1, <1>2

LEMMA VisitorsAreJudged ==
  ASSUME NEW shown, DOMAIN shown \subseteq Site, NEW v, v = AnonymousVerdicts(shown)
  PROVE  /\ DOMAIN v \subseteq Site
         /\ \A u \in DOMAIN v :
              v[u].guarded \in BOOLEAN /\ v[u].uiOnly \in BOOLEAN /\ v[u].escalation \in BOOLEAN
         /\ \A u \in DOMAIN shown : u \in DOMAIN v /\ (Guarded(u, shown[u]) => v[u].guarded)
  <1>1. ASSUME NEW u PROVE Guarded(u, shown[u]) \in BOOLEAN
    BY DEF Guarded
  <1> QED BY <1>1 DEF AnonymousVerdicts

LEMMA DpStarts == DpInit => DpInv
  <1> SUFFICES ASSUME DpInit PROVE DpInv
    OBVIOUS
  <1>1. /\ dpStage = "crawl" /\ dpPages = <<>> /\ dpVerdicts = <<>> /\ dpRisk = <<>>
        /\ dpReferred = {} /\ dpFiles = <<>>
        /\ dpGraph = [routes |-> <<>>, boundaries |-> {}]
    BY DEF DpInit
  <1>2. DOMAIN <<>> = {}
    OBVIOUS
  <1>3. dpFiles = SubSeq(Artifacts, 1, 0) /\ 0 \in 0..Len(Artifacts)
    BY <1>1 DEF Artifacts
  <1> QED BY <1>1, <1>2, <1>3 DEF DpInv, DpTypeOK, Judged, Concluded, Crawled, Named, Filed,
                                   Assembled, DpStage

\* A step before the graph is there leaves everything behind it as it was.
LEMMA EarlyKeeps ==
  ASSUME DpInv, dpStage \notin {"write", "over"}, UNCHANGED <<dpGraph, dpRisk, dpFiles>>,
         dpStage' \notin {"write"}, DOMAIN dpGraph.routes \subseteq DOMAIN dpPages'
  PROVE  Concluded' /\ Filed' /\ dpFiles = <<>>
         /\ DOMAIN dpGraph'.routes \subseteq DOMAIN dpPages'
         /\ (\A u \in DOMAIN dpRisk' : dpRisk'[u] \in 0..100)
         /\ (\E n \in 0..Len(Artifacts) : dpFiles' = SubSeq(Artifacts, 1, n))
  <1>1. PICK n \in 0..Len(Artifacts) : dpFiles = SubSeq(Artifacts, 1, n) /\ n = 0
    BY DEF DpInv, Filed
  <1>2. dpFiles = <<>>
    BY <1>1 DEF Artifacts
  <1>3. Filed'
    BY <1>1 DEF Filed
  <1>4. Concluded'
    BY <1>2 DEF DpInv, Concluded, Assembled
  <1> QED BY <1>1, <1>2, <1>3, <1>4 DEF DpInv, DpTypeOK

LEMMA DpSteps == DpInv /\ [DpNext]_dpVars => DpInv'
  <1> SUFFICES ASSUME DpInv, [DpNext]_dpVars PROVE DpInv'
    OBVIOUS
  <1>1. ASSUME NEW shown \in AnonymousCrawls, CrawlAnonymously(shown)
        PROVE  DpInv'
    <2>1. /\ dpStage = "crawl" /\ dpPages' = shown /\ dpStage' = "scripts"
          /\ UNCHANGED <<dpReferred, dpDocument, dpVerdicts, dpGraph, dpRisk, dpFiles>>
      BY <1>1 DEF CrawlAnonymously
    <2>2. DOMAIN dpGraph.routes = {}
      BY <2>1 DEF DpInv, Concluded
    <2>3. Concluded' /\ Filed' /\ dpFiles = <<>>
          /\ DOMAIN dpGraph'.routes \subseteq DOMAIN dpPages'
          /\ (\A u \in DOMAIN dpRisk' : dpRisk'[u] \in 0..100)
          /\ (\E n \in 0..Len(Artifacts) : dpFiles' = SubSeq(Artifacts, 1, n))
      BY <2>1, <2>2, EarlyKeeps
    <2>4. DpTypeOK'
      BY <2>1, <2>3, CrawlsAreOfTheSite DEF DpInv, DpTypeOK, DpStage
    <2>5. Judged' /\ Crawled' /\ Named'
      BY <2>1, <2>3 DEF DpInv, Judged, Crawled, Named
    <2> QED BY <2>3, <2>4, <2>5 DEF DpInv
  <1>2. ASSUME NEW loaded \in SUBSET {u \in DOMAIN dpPages : ScriptOf[u] # {}}, CollectScripts(loaded)
        PROVE  DpInv'
    <2>1. /\ dpStage = "scripts" /\ dpStage' = "ingest"
          /\ dpReferred' = (UNION {dpPages[u].inline : u \in DOMAIN dpPages})
                             \cup UNION {ScriptOf[u] : u \in loaded}
          /\ UNCHANGED <<dpPages, dpDocument, dpVerdicts, dpGraph, dpRisk, dpFiles>>
      BY <1>2 DEF CollectScripts
    <2>2. /\ DOMAIN dpPages \subseteq Site
          /\ \A u \in DOMAIN dpPages : "none" \notin dpPages[u].inline
      BY <2>1, PagesAreTyped DEF DpInv
    <2>3. "none" \notin dpReferred'
      <3>1. \A u \in loaded : "none" \notin ScriptOf[u]
        BY <2>2, NoneIsNoPath
      <3>2. PICK a, b : /\ a = UNION {dpPages[u].inline : u \in DOMAIN dpPages}
                        /\ b = UNION {ScriptOf[u] : u \in loaded}
        OBVIOUS
      <3>3. "none" \notin a
        BY <2>2, <3>2
      <3>4. "none" \notin b
        BY <3>1, <3>2
      <3> QED BY <2>1, <3>2, <3>3, <3>4
    <2>4. Concluded' /\ Filed' /\ dpFiles = <<>>
          /\ DOMAIN dpGraph'.routes \subseteq DOMAIN dpPages'
          /\ (\A u \in DOMAIN dpRisk' : dpRisk'[u] \in 0..100)
          /\ (\E n \in 0..Len(Artifacts) : dpFiles' = SubSeq(Artifacts, 1, n))
      BY <2>1, EarlyKeeps DEF DpInv, DpTypeOK
    <2>5. DpTypeOK'
      BY <2>1, <2>4 DEF DpInv, DpTypeOK, DpStage
    <2>6. Judged' /\ Crawled' /\ Named'
      BY <2>1, <2>3, <2>4 DEF DpInv, Judged, Crawled, Named
    <2> QED BY <2>4, <2>5, <2>6 DEF DpInv
  <1>3. ASSUME NEW readable, NEW document, Ingest(readable, document)
        PROVE  DpInv'
    <2>1. /\ dpStage = "ingest" /\ dpStage' \in {"sign_in", "over"}
          /\ UNCHANGED <<dpPages, dpReferred, dpVerdicts, dpGraph, dpRisk, dpFiles>>
      BY <1>3 DEF Ingest
    <2>2. Concluded' /\ Filed' /\ dpFiles = <<>>
          /\ DOMAIN dpGraph'.routes \subseteq DOMAIN dpPages'
          /\ (\A u \in DOMAIN dpRisk' : dpRisk'[u] \in 0..100)
          /\ (\E n \in 0..Len(Artifacts) : dpFiles' = SubSeq(Artifacts, 1, n))
      BY <2>1, EarlyKeeps DEF DpInv, DpTypeOK
    <2>3. DpTypeOK'
      BY <2>1, <2>2 DEF DpInv, DpTypeOK, DpStage
    <2>4. Judged' /\ Crawled' /\ Named'
      BY <2>1, <2>2 DEF DpInv, Judged, Crawled, Named
    <2> QED BY <2>2, <2>3, <2>4 DEF DpInv
  <1>4. ASSUME NEW v, dpStage \in {"sign_in", "crawl_again"}, dpStage' = "assemble", dpVerdicts' = v,
               UNCHANGED <<dpPages, dpReferred, dpDocument, dpGraph, dpRisk, dpFiles>>,
               DOMAIN v \subseteq Site,
               \A u \in DOMAIN v :
                 v[u].guarded \in BOOLEAN /\ v[u].uiOnly \in BOOLEAN /\ v[u].escalation \in BOOLEAN,
               \A u \in DOMAIN dpPages : u \in DOMAIN v /\ (Guarded(u, dpPages[u]) => v[u].guarded)
        PROVE  DpInv'
    <2>2. Concluded' /\ Filed' /\ dpFiles = <<>>
          /\ DOMAIN dpGraph'.routes \subseteq DOMAIN dpPages'
          /\ (\A u \in DOMAIN dpRisk' : dpRisk'[u] \in 0..100)
          /\ (\E n \in 0..Len(Artifacts) : dpFiles' = SubSeq(Artifacts, 1, n))
      BY <1>4, EarlyKeeps DEF DpInv, DpTypeOK
    <2>3. DpTypeOK'
      BY <1>4, <2>2 DEF DpInv, DpTypeOK, DpStage
    <2>4. Judged'
      BY <1>4 DEF Judged, Guarded
    <2>5. Crawled' /\ Named'
      BY <1>4 DEF DpInv, Crawled, Named
    <2> QED BY <2>2, <2>3, <2>4, <2>5 DEF DpInv
  <1>5. ASSUME NEW succeeds \in BOOLEAN, SignIn(succeeds)
        PROVE  DpInv'
    <2>1. /\ dpStage = "sign_in"
          /\ UNCHANGED <<dpPages, dpReferred, dpDocument, dpGraph, dpRisk, dpFiles>>
      BY <1>5 DEF SignIn
    <2>2. CASE succeeds
      <3>1. dpStage' = "crawl_again" /\ dpVerdicts' = dpVerdicts
        BY <1>5, <2>2 DEF SignIn
      <3>2. Concluded' /\ Filed' /\ dpFiles = <<>>
            /\ DOMAIN dpGraph'.routes \subseteq DOMAIN dpPages'
            /\ (\A u \in DOMAIN dpRisk' : dpRisk'[u] \in 0..100)
            /\ (\E n \in 0..Len(Artifacts) : dpFiles' = SubSeq(Artifacts, 1, n))
        BY <2>1, <3>1, EarlyKeeps DEF DpInv, DpTypeOK
      <3>3. DpTypeOK'
        BY <2>1, <3>1, <3>2 DEF DpInv, DpTypeOK, DpStage
      <3>4. Judged' /\ Crawled' /\ Named'
        BY <2>1, <3>1, <3>2 DEF DpInv, Judged, Crawled, Named
      <3> QED BY <3>2, <3>3, <3>4 DEF DpInv
    <2>3. CASE ~succeeds
      <3>1. dpStage' = "assemble" /\ dpVerdicts' = AnonymousVerdicts(dpPages)
        BY <1>5, <2>3 DEF SignIn
      <3>2. DOMAIN dpPages \subseteq Site
        BY <2>1, PagesAreTyped DEF DpInv
      <3>3. PICK v : v = AnonymousVerdicts(dpPages)
        OBVIOUS
      <3> QED BY <1>4, <2>1, <3>1, <3>2, <3>3, VisitorsAreJudged
    <2> QED BY <2>2, <2>3
  <1>6. ASSUME NEW member \in MemberCrawls, CrawlAsMember(member)
        PROVE  DpInv'
    <2>1. /\ dpStage = "crawl_again" /\ dpStage' = "assemble"
          /\ dpVerdicts' = PairVerdicts(dpPages, member)
          /\ UNCHANGED <<dpPages, dpReferred, dpDocument, dpGraph, dpRisk, dpFiles>>
      BY <1>6 DEF CrawlAsMember
    <2>2. DOMAIN dpPages \subseteq Site /\ DOMAIN member \subseteq Site
      BY <2>1, PagesAreTyped, CrawlsAreOfTheSite DEF DpInv
    <2>3. PICK v : v = PairVerdicts(dpPages, member)
      OBVIOUS
    <2> QED BY <1>4, <2>1, <2>2, <2>3, PairsAreJudged
  <1>7. CASE Assemble
    <2>1. /\ dpStage = "assemble" /\ dpStage' = "write"
          /\ dpGraph' = [routes |-> [u \in DOMAIN dpPages |-> dpVerdicts[u].guarded],
                         boundaries |-> BoundariesOf]
          /\ dpRisk' = [u \in DOMAIN dpPages |-> Score(u, dpPages[u])]
          /\ UNCHANGED <<dpPages, dpReferred, dpDocument, dpVerdicts, dpFiles>>
      BY <1>7 DEF Assemble
    <2>2. Filed'
      <3>1. PICK n \in 0..Len(Artifacts) : dpFiles = SubSeq(Artifacts, 1, n) /\ n = 0
        BY <2>1 DEF DpInv, Filed
      <3>2. 0 < Len(Artifacts)
        BY DEF Artifacts
      <3> QED BY <2>1, <3>1, <3>2 DEF Filed
    <2>3. BoundariesOf' = BoundariesOf
      BY <2>1 DEF BoundariesOf
    <2>4. Concluded'
      <3>1. \A u \in DOMAIN dpPages : Score(u, dpPages[u])' = Score(u, dpPages[u])
        BY <2>1 DEF Score, Weight
      <3> QED BY <2>1, <2>3, <3>1 DEF Concluded
    <2>5. \A u \in DOMAIN dpPages : Score(u, dpPages[u]) \in 0..100
      BY <2>1, PagesAreTyped, Scores DEF DpInv
    <2>6. DpTypeOK'
      BY <2>1, <2>5 DEF DpInv, DpTypeOK, DpStage
    <2>7. Judged' /\ Crawled' /\ Named'
      BY <2>1 DEF DpInv, Judged, Crawled, Named
    <2> QED BY <2>2, <2>4, <2>6, <2>7 DEF DpInv
  <1>8. CASE WriteNext
    <2>1. /\ dpStage = "write" /\ dpFiles' = Append(dpFiles, Artifacts[Len(dpFiles) + 1])
          /\ dpStage' = IF Len(dpFiles') = Len(Artifacts) THEN "over" ELSE "write"
          /\ UNCHANGED <<dpPages, dpReferred, dpDocument, dpVerdicts, dpGraph, dpRisk>>
      BY <1>8 DEF WriteNext
    <2>2. Len(Artifacts) = 7 /\ Artifacts = [i \in 1..7 |-> Artifacts[i]]
      BY DEF Artifacts
    <2>3. PICK S : Artifacts \in Seq(S)
      <3>1. PICK S : S = {Artifacts[i] : i \in 1..7}
        OBVIOUS
      <3>2. \A i \in 1..7 : Artifacts[i] \in S
        BY <3>1
      <3>3. PICK c \in Nat : c = 7
        OBVIOUS
      <3>4. Artifacts \in [1..c -> S]
        BY <2>2, <3>2, <3>3
      <3> QED BY <3>4
    <2>4. PICK n \in 0..6 : dpFiles = SubSeq(Artifacts, 1, n)
      <3>1. PICK n \in 0..Len(Artifacts) : dpFiles = SubSeq(Artifacts, 1, n) /\ n < Len(Artifacts)
        BY <2>1 DEF DpInv, Filed
      <3>2. n \in 0..6
        BY <2>2, <3>1
      <3> QED BY <3>1, <3>2
    <2>5. dpFiles \in Seq(S) /\ Len(dpFiles) = n
      BY <2>2, <2>3, <2>4, SubSeqProperties
    <2>6. dpFiles' = SubSeq(Artifacts, 1, n + 1)
      <3>1. SubSeq(Artifacts, 1, n + 1) = SubSeq(Artifacts, 1, n) \o <<Artifacts[n + 1]>>
        <4>1. 1 \in 1..Len(Artifacts) /\ n + 1 \in 1..Len(Artifacts) /\ (n + 1) - 1 = n
          BY <2>2
        <4> QED BY <2>3, <4>1, SubSeqRecursiveSecond
      <3>2. Append(dpFiles, Artifacts[n + 1]) = dpFiles \o <<Artifacts[n + 1]>>
        <4>1. Artifacts[n + 1] \in S
          BY <2>2, <2>3
        <4> QED BY <2>5, <4>1, AppendIsConcat
      <3> QED BY <2>1, <2>4, <2>5, <3>1, <3>2
    <2>7. Len(dpFiles') = n + 1 /\ n + 1 \in 0..Len(Artifacts)
      BY <2>2, <2>3, <2>6, SubSeqProperties
    <2>8. Filed' /\ dpFiles' # <<>>
      <3>1. dpStage' = "write" => n + 1 < Len(Artifacts)
        BY <2>1, <2>2, <2>7
      <3>2. dpStage' \in {"write", "over"} /\ dpFiles' # <<>>
        BY <2>1, <2>7
      <3> QED BY <2>6, <2>7, <3>1, <3>2 DEF Filed
    <2>9. BoundariesOf' = BoundariesOf
      BY <2>1 DEF BoundariesOf
    <2>10. Concluded'
      <3>1. \A u \in DOMAIN dpPages : Score(u, dpPages[u])' = Score(u, dpPages[u])
        BY <2>1 DEF Score, Weight
      <3>2. dpStage' \in {"write", "over"}
        BY <2>1
      <3> QED BY <2>1, <2>9, <3>1, <3>2 DEF DpInv, Concluded, Assembled
    <2>11. DpTypeOK'
      BY <2>1, <2>6, <2>7 DEF DpInv, DpTypeOK, DpStage
    <2>12. Judged' /\ Crawled' /\ Named'
      BY <2>1 DEF DpInv, Judged, Crawled, Named
    <2> QED BY <2>8, <2>10, <2>11, <2>12 DEF DpInv
  <1>9. CASE DpDies
    <2>1. /\ dpStage = "write" /\ dpStage' = "over"
          /\ UNCHANGED <<dpPages, dpReferred, dpDocument, dpVerdicts, dpGraph, dpRisk, dpFiles>>
      BY <1>9 DEF DpDies
    <2>2. DpTypeOK'
      BY <2>1 DEF DpInv, DpTypeOK, DpStage
    <2>3. Judged' /\ Crawled' /\ Named' /\ Filed'
      BY <2>1 DEF DpInv, Judged, Crawled, Named, Filed
    <2>4. Concluded'
      BY <2>1 DEF DpInv, Concluded, Assembled, BoundariesOf
    <2> QED BY <2>2, <2>3, <2>4 DEF DpInv
  <1>10. CASE UNCHANGED dpVars
    BY <1>10 DEF dpVars, DpInv, DpTypeOK, Judged, Concluded, Crawled, Named, Filed, Assembled,
                 BoundariesOf
  <1> QED BY <1>1, <1>2, <1>3, <1>5, <1>6, <1>7, <1>8, <1>9, <1>10 DEF DpNext

LEMMA DpServes == DpInv => DpTypeOK /\ GraphIsSound
  <1> SUFFICES ASSUME DpInv PROVE GraphIsSound
    BY DEF DpInv
  <1>1. SuspicionsAreBacked
    BY SuspicionsHold DEF DpInv
  <1>2. ASSUME Assembled
        PROVE  /\ dpGraph.routes = [u \in DOMAIN dpPages |-> dpVerdicts[u].guarded]
               /\ dpGraph.boundaries = BoundariesOf
               /\ dpRisk = [u \in DOMAIN dpPages |-> Score(u, dpPages[u])]
               /\ \A u \in DOMAIN dpPages :
                    /\ dpPages[u].unlabelled \in Nat
                    /\ Guarded(u, dpPages[u]) => dpVerdicts[u].guarded
    <2>1. /\ dpGraph.routes = [u \in DOMAIN dpPages |-> dpVerdicts[u].guarded]
          /\ dpGraph.boundaries = BoundariesOf
          /\ dpRisk = [u \in DOMAIN dpPages |-> Score(u, dpPages[u])]
      BY <1>2 DEF DpInv, Concluded
    <2>2. \A u \in DOMAIN dpPages : Guarded(u, dpPages[u]) => dpVerdicts[u].guarded
      BY <1>2 DEF DpInv, Judged, Assembled
    <2>3. dpStage # "crawl"
      BY <1>2 DEF DpInv, Filed, Assembled, Artifacts
    <2>4. \A u \in DOMAIN dpPages : dpPages[u].unlabelled \in Nat
      BY <2>3, PagesAreTyped DEF DpInv
    <2> QED BY <2>1, <2>2, <2>4
  <1>3. BoundariesAreRoutes
    <2>1. ASSUME Assembled, NEW u \in DOMAIN dpPages
          PROVE  dpGraph.routes[u] <=> \E b \in dpGraph.boundaries : b.url = u
      <3>1. dpGraph.routes[u] = dpVerdicts[u].guarded /\ dpVerdicts[u].guarded \in BOOLEAN
        <4>1. u \in DOMAIN dpVerdicts
          BY <2>1 DEF DpInv, Judged, Assembled
        <4> QED BY <1>2, <2>1, <4>1 DEF DpInv, DpTypeOK
      <3>2. dpGraph.boundaries =
              {[url |-> w, enforced |-> ~dpVerdicts[w].uiOnly] :
                 w \in {w \in DOMAIN dpPages : dpVerdicts[w].guarded}}
        BY <1>2, <2>1 DEF BoundariesOf
      <3>3. ASSUME dpVerdicts[u].guarded PROVE \E b \in dpGraph.boundaries : b.url = u
        <4>1. PICK b : b = [url |-> u, enforced |-> ~dpVerdicts[u].uiOnly]
          OBVIOUS
        <4>2. b \in dpGraph.boundaries /\ b.url = u
          BY <3>2, <3>3, <4>1
        <4> QED BY <4>2
      <3>4. ASSUME NEW b \in dpGraph.boundaries, b.url = u PROVE dpVerdicts[u].guarded
        BY <3>2, <3>4
      <3> QED BY <3>1, <3>3, <3>4
    <2>2. ASSUME Assembled, NEW b \in dpGraph.boundaries PROVE b.url \in DOMAIN dpPages
      BY <1>2, <2>2 DEF BoundariesOf
    <2> QED BY <1>2, <2>1, <2>2 DEF BoundariesAreRoutes
  <1>4. RiskFollowsTrouble
    <2>1. ASSUME Assembled, NEW u \in DOMAIN dpPages, dpPages[u].status \in {0, 500}
          PROVE  dpRisk[u] >= 80
      BY <1>2, <2>1, Scores
    <2>2. ASSUME Assembled, NEW u \in DOMAIN dpPages, NEW w \in DOMAIN dpPages,
                 TokensIn[u] = TokensIn[w], NoBetter(dpPages[u], dpPages[w])
          PROVE  dpRisk[u] >= dpRisk[w]
      BY <1>2, <2>2, WorseWeighsMore
    <2> QED BY <2>1, <2>2 DEF RiskFollowsTrouble
  <1> QED BY <1>1, <1>3, <1>4 DEF GraphIsSound

\* On every site, however often it answers differently, with any bounds: pages
\* are fetched once and in breadth-first order, what is left out is not asked
\* for, and no page costs more requests than its attempts (_crawl).
THEOREM CrawlStaysInOrder == CrSpec => []CrawlIsBreadthFirst
  <1>1. CrInv => CrawlIsBreadthFirst
    BY CrServes
  <1> QED BY <1>1, CrStarts, CrSteps, PTL DEF CrSpec

\* Whatever the two crawls, the scripts and the document bring, and wherever the
\* command dies: routes and boundaries agree, suspicions are backed by the pages
\* and risks follow what is wrong on them (DiscoveryPipeline.run).
THEOREM GraphStaysSound == DpSpec => []GraphIsSound
  <1>1. DpInv => GraphIsSound
    BY DpServes
  <1> QED BY <1>1, DpStarts, DpSteps, PTL DEF DpSpec

(***************************************************************************)
(* The five components together, as the run composes them.                 *)
(***************************************************************************)
LoopsInv == ReadInv /\ SpendInv /\ CrInv /\ WatchInv /\ DpInv

LEMMA LoopsStart == LoopsInit => LoopsInv
  <1> SUFFICES ASSUME LoopsInit PROVE LoopsInv
    OBVIOUS
  <1>1. Init /\ LlInit /\ CrInit /\ WaInit /\ DpInit
    BY DEF LoopsInit, ResultsRest, SpendRest, CrawlRest, RestingInit
  <1> QED BY <1>1, ReadInit, SpendInit, CrStarts, WatchInit, DpStarts DEF LoopsInv

LEMMA LoopsStep == LoopsInv /\ [LoopsNext]_loopsVars => LoopsInv'
  <1> SUFFICES ASSUME LoopsInv, [LoopsNext]_loopsVars PROVE LoopsInv'
    OBVIOUS
  <1>1. /\ [Next]_vars /\ [LlNext]_llVars /\ [CrawlStep]_crVars
        /\ [WaNext]_waVars /\ [DpNext]_dpVars
    BY DEF LoopsNext, loopsVars
  <1> QED BY <1>1, ReadStep, SpendStep, CrSteps, WatchStepKeeps, DpSteps DEF LoopsInv

\* Every variable of the results, the spending, the crawl, the watch loop and
\* discovery has its type in every state of the run.
THEOREM LoopsTyped == LoopsSpec => []LoopsTypeOK
  <1>1. LoopsInv => LoopsTypeOK
    BY CrServes, DpServes DEF LoopsInv, LoopsTypeOK, ReadInv, SpendInv, WatchInv
  <1> QED BY <1>1, LoopsStart, LoopsStep, PTL DEF LoopsSpec

\* What discovery hands to the planner is what the site showed it: the crawl is
\* in breadth-first order within its bounds, and routes, boundaries, suspicions
\* and risks agree with its pages.
THEOREM DiscoveryStaysSound == LoopsSpec => []DiscoveryIsSound
  <1>1. LoopsInv => DiscoveryIsSound
    BY CrServes, DpServes DEF LoopsInv, DiscoveryIsSound
  <1> QED BY <1>1, LoopsStart, LoopsStep, PTL DEF LoopsSpec
=============================================================================
