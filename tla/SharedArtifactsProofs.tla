----------------------- MODULE SharedArtifactsProofs -----------------------
(***************************************************************************)
(* Proofs about what outlives a run and about the analysis that decides    *)
(* what is done to it.  They hold for any constants the assumptions of the *)
(* modules admit and for executions of any length.                         *)
(***************************************************************************)
EXTENDS MCSharedArtifacts, FiniteSetTheorems, SequenceTheorems, WellFoundedInduction, TLAPS

(***************************************************************************)
(* FailureAnalysis.                                                        *)
(***************************************************************************)
\* A finite set of numbers has a least element, which Min returns.
LEMMA LeastOf ==
  ASSUME NEW S \in SUBSET Nat, S # {}, IsFiniteSet(S)
  PROVE  Min(S) \in S /\ \A y \in S : Min(S) <= y
  <1> DEFINE Below(x) == {y \in S : y < x}
  <1> DEFINE T == {Below(x) : x \in S}
  <1>1. T # {} /\ T \subseteq FiniteSubsetsOf(S)
    <2>1. \A x \in S : Below(x) \subseteq S /\ IsFiniteSet(Below(x))
      BY FS_Subset
    <2> QED BY <2>1 DEF FiniteSubsetsOf
  <1>2. \E a \in T : \A b \in T : <<b, a>> \notin StrictSubsetOrdering(S)
    <2> HIDE DEF T
    <2>1. IsWellFoundedOn(StrictSubsetOrdering(S), FiniteSubsetsOf(S))
      BY FS_StrictSubsetOrderingWellFounded
    <2> QED BY <1>1, <2>1, WFMin
  <1>3. PICK x \in S : \A y \in S : <<Below(y), Below(x)>> \notin StrictSubsetOrdering(S)
    BY <1>2
  <1>4. ASSUME NEW y \in S, y < x PROVE FALSE
    <2>1. x \in Nat /\ y \in Nat /\ \A z \in S : z \in Nat
      OBVIOUS
    <2>2. y \in Below(x) /\ y \notin Below(y) /\ \A z \in Below(y) : z \in Below(x)
      <3>1. y \in Below(x)
        BY <1>4
      <3>2. y \notin Below(y)
        BY <2>1
      <3>3. ASSUME NEW z \in Below(y) PROVE z \in Below(x)
        BY <1>4, <2>1
      <3> QED BY <3>1, <3>2, <3>3
    <2>3. Below(y) \in SUBSET S /\ Below(x) \in SUBSET S
      OBVIOUS
    <2> HIDE DEF Below
    <2> QED BY <2>2, <2>3, <1>3 DEF StrictSubsetOrdering
  <1>5. \A y \in S : x <= y
    BY <1>4
  <1> QED BY <1>5 DEF Min

\* The claim a rule makes has one of the categories and a confidence in percent.
Made == [category : Category, confidence : 0..100]

\* What the rules claim, one by one.
LEMMA ClaimsAre ==
  ASSUME NEW s
  PROVE  /\ DOMAIN Claims(s) = 1..11
         /\ Claims(s)[1] = Flake(s) /\ Claims(s)[2] = BrowserCrash(s)
         /\ Claims(s)[3] = FixtureFailure(s) /\ Claims(s)[4] = AppFault(s)
         /\ Claims(s)[5] = ApiFault(s) /\ Claims(s)[6] = AuthDenied(s)
         /\ Claims(s)[7] = LocatorTimeout(s) /\ Claims(s)[8] = Accessibility(s)
         /\ Claims(s)[9] = Security(s) /\ Claims(s)[10] = Performance(s)
         /\ Claims(s)[11] = DataSetup(s)
  BY DEF Claims

LEMMA ClaimsTyped ==
  ASSUME NEW s, NEW i \in 1..11
  PROVE  Claims(s)[i] \in Made
  <1>1. None \in Made
    BY DEF None, Claim, Made, Category
  <1>2. Flake(s) \in Made
    BY <1>1 DEF Flake, Claim, Made, Category
  <1>3. BrowserCrash(s) \in Made
    BY <1>1 DEF BrowserCrash, Claim, Made, Category
  <1>4. FixtureFailure(s) \in Made
    BY <1>1 DEF FixtureFailure, Claim, Made, Category
  <1>5. AppFault(s) \in Made /\ ApiFault(s) \in Made /\ AuthDenied(s) \in Made
    BY <1>1 DEF AppFault, ApiFault, AuthDenied, Claim, Made, Category
  <1>6. LocatorTimeout(s) \in Made
    BY <1>1 DEF LocatorTimeout, Claim, Made, Category
  <1>7. Accessibility(s) \in Made /\ Security(s) \in Made
    BY <1>1 DEF Accessibility, Security, Claim, Made, Category
  <1>8. Performance(s) \in Made /\ DataSetup(s) \in Made
    BY <1>1 DEF Performance, DataSetup, Claim, Made, Category
  <1>9. i \in {1, 2, 3, 4, 5, 6, 7, 8, 9, 10, 11}
    OBVIOUS
  <1> QED BY <1>2, <1>3, <1>4, <1>5, <1>6, <1>7, <1>8, <1>9, ClaimsAre

\* A claim that is made, and that none is surer than, nor any as sure before it.
Wins(claims, i) ==
  /\ claims[i] # None
  /\ \A k \in 1..11 :
       claims[k] # None =>
         \/ claims[k].confidence < claims[i].confidence
         \/ claims[k].confidence = claims[i].confidence /\ i <= k

\* The surest claim wins, the first one among equals.
LEMMA SurestWins ==
  ASSUME NEW s
  PROVE  \/ /\ Categorize(s) = Claim("unknown", 30)
            /\ \A k \in 1..11 : Claims(s)[k] = None
         \/ \E i \in 1..11 : Categorize(s) = Claims(s)[i] /\ Wins(Claims(s), i)
  <1>1. PICK claims : claims = Claims(s)
    OBVIOUS
  <1>2. DOMAIN claims = 1..11 /\ \A i \in 1..11 : claims[i].confidence \in 0..100
    BY <1>1, ClaimsAre, ClaimsTyped DEF Made
  <1> DEFINE spoke == {i \in 1..11 : claims[i] # None}
             surest == {i \in spoke : \A k \in spoke : claims[k].confidence <= claims[i].confidence}
             doubts == {100 - claims[i].confidence : i \in spoke}
  <1>3. Categorize(s) = IF spoke = {} THEN Claim("unknown", 30) ELSE claims[Min(surest)]
    BY <1>1, <1>2 DEF Categorize
  <1>4. CASE spoke = {}
    BY <1>1, <1>3, <1>4
  <1>5. CASE spoke # {}
    <2>1. doubts \in SUBSET Nat /\ \A d \in doubts : d <= 100
      <3>1. ASSUME NEW d \in doubts PROVE d \in Nat /\ d <= 100
        <4>1. PICK i \in 1..11 : d = 100 - claims[i].confidence
          BY <3>1
        <4>2. claims[i].confidence \in 0..100
          BY <1>2
        <4> QED BY <4>1, <4>2
      <3> QED BY <3>1
    <2>2. doubts # {} /\ IsFiniteSet(doubts)
      <3> HIDE DEF doubts
      <3> QED BY <1>5, <2>1, FS_BoundedSetOfNaturals DEF doubts
    <2>3. Min(doubts) \in doubts /\ \A d \in doubts : Min(doubts) <= d
      <3> HIDE DEF doubts
      <3> QED BY <2>1, <2>2, LeastOf
    <2>4. PICK i \in spoke : Min(doubts) = 100 - claims[i].confidence
      BY <2>3
    <2>5. \A k \in spoke : 100 - claims[i].confidence <= 100 - claims[k].confidence
      BY <2>3, <2>4
    <2>6. i \in surest
      <3>1. ASSUME NEW k \in spoke PROVE claims[k].confidence <= claims[i].confidence
        <4>1. PICK x \in 0..100, y \in 0..100 :
                 x = claims[k].confidence /\ y = claims[i].confidence
          BY <1>2, Zenon
        <4>2. 100 - y <= 100 - x
          BY <2>5, <4>1
        <4> QED BY <4>1, <4>2
      <3> QED BY <3>1
    <2>7. surest \in SUBSET Nat /\ \A k \in surest : k <= 11
      OBVIOUS
    <2>8. Min(surest) \in surest /\ \A k \in surest : Min(surest) <= k
      <3> HIDE DEF surest
      <3>1. IsFiniteSet(surest)
        BY <2>7, FS_BoundedSetOfNaturals
      <3> QED BY <2>6, <2>7, <3>1, LeastOf
    <2>9. PICK m \in 1..11 : m = Min(surest)
      BY <2>8
    <2>10. m \in spoke /\ \A k \in spoke : claims[k].confidence <= claims[m].confidence
      BY <2>8, <2>9
    <2>11. ASSUME NEW k \in 1..11, claims[k] # None
           PROVE  \/ claims[k].confidence < claims[m].confidence
                  \/ claims[k].confidence = claims[m].confidence /\ m <= k
      <3>1. CASE claims[k].confidence = claims[m].confidence
        <4>1. k \in surest
          BY <2>10, <2>11, <3>1
        <4> QED BY <3>1, <4>1, <2>8, <2>9
      <3>2. CASE claims[k].confidence # claims[m].confidence
        <4>1. PICK x \in 0..100, y \in 0..100 :
                 x = claims[k].confidence /\ y = claims[m].confidence
          BY <1>2, Zenon
        <4>2. x <= y /\ x # y
          BY <2>10, <2>11, <3>2, <4>1
        <4>3. x < y
          BY <4>2
        <4> QED BY <4>1, <4>3
      <3> QED BY <3>1, <3>2
    <2>12. Wins(claims, m)
      BY <2>10, <2>11 DEF Wins
    <2> QED BY <1>1, <1>3, <1>5, <2>9, <2>12
  <1> QED BY <1>4, <1>5

\* Only the rule of the locator claims a bug of the test, and the ones before
\* it in the list, or surer, were silent.
LEMMA OnlyLocatorHeals ==
  ASSUME NEW s \in Signal, HealerCandidate(Categorize(s))
  PROVE  /\ s.status # "flaky" /\ ~s.alternated
         /\ "crash" \notin s.marks /\ ~s.fixtureFailed
         /\ s.network \cap {"401", "4xx"} = {}
         /\ "5xx" \in s.network => s.status = "errored"
         /\ s.module = "functional"
  <1>1. PICK c : c = Categorize(s)
    OBVIOUS
  <1>2. c.category = "test_bug"
    BY <1>1 DEF HealerCandidate
  <1>3. PICK i \in 1..11 : c = Claims(s)[i] /\ Wins(Claims(s), i)
    BY <1>1, <1>2, SurestWins DEF Claim
  <1>4. i = 7
    <2>1. i \in {1, 2, 3, 4, 5, 6, 7, 8, 9, 10, 11}
      OBVIOUS
    <2>2. i \notin {1, 2, 3}
      BY <1>2, <1>3, ClaimsAre DEF Flake, BrowserCrash, FixtureFailure, Claim, Wins, None
    <2>3. i \notin {4, 5, 6}
      BY <1>2, <1>3, ClaimsAre DEF AppFault, ApiFault, AuthDenied, Claim, Wins, None
    <2>4. i \notin {8, 9, 10, 11}
      BY <1>2, <1>3, ClaimsAre
         DEF Accessibility, Security, Performance, DataSetup, Claim, Wins, None
    <2> QED BY <2>1, <2>2, <2>3, <2>4
  <1>5. c = LocatorTimeout(s) /\ c # None
    BY <1>3, <1>4, ClaimsAre DEF Wins
  <1>6. c.confidence \in {60, 78}
    BY <1>5 DEF LocatorTimeout, Claim
  <1>7. \A k \in 1..11 :
          Claims(s)[k] # None =>
            \/ Claims(s)[k].confidence < c.confidence
            \/ Claims(s)[k].confidence = c.confidence /\ 7 <= k
    BY <1>3, <1>4 DEF Wins
  <1>8. s.status # "flaky" /\ ~s.alternated
    <2>1. Flake(s) # None => Flake(s).confidence < c.confidence
      BY <1>7, ClaimsAre
    <2> QED BY <2>1, <1>6 DEF Flake, Claim, None
  <1>9. "crash" \notin s.marks
    <2>1. BrowserCrash(s) # None => BrowserCrash(s).confidence < c.confidence
      BY <1>7, ClaimsAre
    <2> QED BY <2>1, <1>6 DEF BrowserCrash, Claim, None
  <1>10. ~s.fixtureFailed
    <2>1. FixtureFailure(s) # None => FixtureFailure(s).confidence < c.confidence
      BY <1>7, ClaimsAre
    <2> QED BY <2>1, <1>6 DEF FixtureFailure, Claim, None
  <1>11. "4xx" \notin s.network
    <2>1. ApiFault(s) # None => ApiFault(s).confidence < c.confidence
      BY <1>7, ClaimsAre
    <2> QED BY <2>1, <1>6 DEF ApiFault, Claim, None
  <1>12. "401" \notin s.network
    <2>1. AuthDenied(s) # None => AuthDenied(s).confidence < c.confidence
      BY <1>7, ClaimsAre
    <2> QED BY <2>1, <1>6 DEF AuthDenied, Claim, None
  <1>13. "5xx" \in s.network => s.status \notin {"failed", "timed_out"}
    <2>1. AppFault(s) # None => AppFault(s).confidence < c.confidence
      BY <1>7, ClaimsAre
    <2> QED BY <2>1, <1>6 DEF AppFault, Claim, None
  <1>0. \A k \in 1..11 : Claims(s)[k] # None => Claims(s)[k].confidence <= c.confidence
    <2> SUFFICES ASSUME NEW k \in 1..11, Claims(s)[k] # None
                 PROVE  Claims(s)[k].confidence <= c.confidence
      OBVIOUS
    <2>1. Claims(s)[k].confidence \in 0..100
      BY ClaimsTyped DEF Made
    <2> QED BY <1>6, <1>7, <2>1
  <1>14. s.module # "a11y"
    <2>1. Accessibility(s) # None => Accessibility(s).confidence <= c.confidence
      BY <1>0, ClaimsAre
    <2> QED BY <2>1, <1>6 DEF Accessibility, Claim, None
  <1>15. s.module \notin {"security", "performance"}
    <2>1. /\ Security(s) # None => Security(s).confidence <= c.confidence
          /\ Performance(s) # None => Performance(s).confidence <= c.confidence
      BY <1>0, ClaimsAre
    <2> QED BY <2>1, <1>6 DEF Security, Performance, Claim, None
  <1>16. s.status \in {"failed", "timed_out", "errored", "flaky"}
         /\ s.module \in {"functional", "a11y", "security", "performance"}
    BY DEF Signal
  <1> QED BY <1>8, <1>9, <1>10, <1>11, <1>12, <1>13, <1>14, <1>15, <1>16

\* A retry is advised for three categories, none of which wins against an
\* application that failed in a failing test, nor against an accessibility
\* finding.
LEMMA RetriesAreUseful ==
  ASSUME NEW s \in Signal, ShouldRetry(s, Categorize(s).category) = "retry"
  PROVE  /\ s.retries < 2
         /\ "5xx" \in s.network => s.status \in {"errored", "flaky"}
         /\ s.module # "a11y"
         /\ s.fixtureFailed => Categorize(s).category # "auth_failure"
  <1>1. PICK c : c = Categorize(s)
    OBVIOUS
  <1>2. s.retries \in 0..2
        /\ s.status \in {"failed", "timed_out", "errored", "flaky"}
    BY DEF Signal
  <1>3. /\ s.retries < 2
        /\ c.category \in {"flake", "environment_failure", "auth_failure"}
        /\ s.fixtureFailed => c.category # "auth_failure"
    BY <1>1, <1>2 DEF ShouldRetry
  <1>4. PICK i \in 1..11 : c = Claims(s)[i] /\ Wins(Claims(s), i)
    BY <1>1, <1>3, SurestWins DEF Claim
  <1>5. c.confidence \in {92, 80, 90, 70, 82}
    <2>1. i \in {1, 2, 3, 4, 5, 6, 7, 8, 9, 10, 11}
      OBVIOUS
    <2>2. i \in {1, 2, 3} => c.confidence \in {92, 80, 90, 70, 82}
      BY <1>4, ClaimsAre DEF Flake, BrowserCrash, FixtureFailure, Claim, Wins, None
    <2>3. /\ i # 4
          /\ i # 5
          /\ i = 6 => c.confidence = 82
      <3>1. i # 4
        BY <1>3, <1>4, ClaimsAre DEF AppFault, Claim, Wins
      <3>2. i # 5
        BY <1>3, <1>4, ClaimsAre DEF ApiFault, Claim, Wins
      <3>3. i = 6 => c.confidence = 82
        BY <1>3, <1>4, ClaimsAre DEF AuthDenied, Claim, Wins
      <3> QED BY <3>1, <3>2, <3>3
    <2>4. i # 7
      <3>1. LocatorTimeout(s) = None \/ LocatorTimeout(s).category = "test_bug"
        BY DEF LocatorTimeout, Claim
      <3> QED BY <3>1, <1>3, <1>4, ClaimsAre DEF Wins
    <2>5. i \notin {8, 9}
      BY <1>3, <1>4, ClaimsAre DEF Accessibility, Security, Claim, Wins
    <2>6. i \notin {10, 11}
      BY <1>3, <1>4, ClaimsAre DEF Performance, DataSetup, Claim, Wins, None
    <2> QED BY <2>1, <2>2, <2>3, <2>4, <2>5, <2>6
  <1>6. ASSUME NEW k \in 1..11, Claims(s)[k] # None
        PROVE  Claims(s)[k].confidence <= c.confidence
    <2>1. \/ Claims(s)[k].confidence < c.confidence
          \/ Claims(s)[k].confidence = c.confidence
      BY <1>4, <1>6 DEF Wins
    <2>2. Claims(s)[k] \in Made
      BY ClaimsTyped
    <2> QED BY <1>5, <2>1, <2>2 DEF Made
  <1>7. /\ AppFault(s) # None => AppFault(s).confidence <= c.confidence
        /\ Accessibility(s) # None => Accessibility(s).confidence <= c.confidence
    BY <1>6, ClaimsAre
  <1>8. "5xx" \in s.network => s.status \notin {"failed", "timed_out"}
    BY <1>5, <1>7 DEF AppFault, Claim, None
  <1>9. s.module # "a11y"
    BY <1>5, <1>7 DEF Accessibility, Claim, None
  <1> QED BY <1>1, <1>2, <1>3, <1>8, <1>9

\* What was decided is what the signal says.
FaInv ==
  /\ signal \in Signal
  /\ \/ analysis = Unanalyzed
     \/ analysis = [claim |-> Categorize(signal),
                    retry |-> ShouldRetry(signal, Categorize(signal).category),
                    heal |-> HealerCandidate(Categorize(signal))]

LEMMA FaKeeps == FaInv /\ [AnalyzeOne]_faVars => FaInv'
  <1> SUFFICES ASSUME FaInv, [AnalyzeOne]_faVars PROVE FaInv'
    OBVIOUS
  <1>1. CASE AnalyzeOne
    <2>1. PICK s : s = signal
      OBVIOUS
    <2>2. signal' = s /\ s \in Signal
      BY <1>1, <2>1 DEF AnalyzeOne, FaInv
    <2>3. analysis' = [claim |-> Categorize(s), retry |-> ShouldRetry(s, Categorize(s).category),
                       heal |-> HealerCandidate(Categorize(s))]
      BY <1>1, <2>1 DEF AnalyzeOne
    <2> QED BY <2>2, <2>3 DEF FaInv
  <1>2. CASE UNCHANGED faVars
    BY <1>2 DEF FaInv, faVars
  <1> QED BY <1>1, <1>2

LEMMA FaServes == FaInv => ActionsFollowEvidence
  <1> SUFFICES ASSUME FaInv PROVE ActionsFollowEvidence
    OBVIOUS
  <1>1. CASE analysis = Unanalyzed
    BY <1>1 DEF Unanalyzed, ActionsFollowEvidence, HealsOnlyTestBugs, RetryMayHelp
  <1>2. CASE analysis # Unanalyzed
    <2>1. /\ signal \in Signal
          /\ analysis.claim = Categorize(signal)
          /\ analysis.retry = ShouldRetry(signal, Categorize(signal).category)
          /\ analysis.heal = HealerCandidate(Categorize(signal))
      BY <1>2 DEF FaInv
    <2>2. HealsOnlyTestBugs
      BY <2>1, OnlyLocatorHeals DEF HealsOnlyTestBugs
    <2>3. RetryMayHelp
      BY <2>1, RetriesAreUseful DEF RetryMayHelp
    <2> QED BY <2>2, <2>3 DEF ActionsFollowEvidence
  <1> QED BY <1>1, <1>2

\* Whatever texts, answers and history a failure comes with, no test is healed
\* or advised to be retried against the evidence: only the locator rule hands a
\* test to the healer, and it loses to every rule that speaks of the
\* application, the fixture, the browser or another module's check
\* (categorize, should_retry, is_healer_candidate of engine/analyzer).
THEOREM ActionsAreJustified == FaSpec => []ActionsFollowEvidence
  <1>1. FaInit => FaInv
    BY DEF FaInit, FaInv
  <1> QED BY <1>1, FaKeeps, FaServes, PTL DEF FaSpec

(***************************************************************************)
(* SpecTree.  What `generate` has written so far is in the tree, and each  *)
(* flow's own as long as nobody else has saved a file; what `fix` has read *)
(* was a spec of the healer's that no stamp shows as edited; and the stamp *)
(* and the time of a spec never hide an edit.                              *)
(***************************************************************************)
Writing == [stage : {"write"}, plan : Plan, force : BOOLEAN, next : Nat \ {0}, quiet : BOOLEAN]
Finished == [stage : {"done"}, plan : Plan]

\* A proposal that is not flagged for review may be applied.
Fit == {q \in Proposal : ~q.review => q.kind # "fixture" /\ q.confidence >= 90}

Considering == [stage : {"next"}, mode : {"safe", "aggressive"}, threshold : Threshold,
                left : SUBSET Fit]
Repairing == [stage : {"write"}, mode : {"safe", "aggressive"}, threshold : Threshold,
              left : SUBSET Fit, repair : Fit, read : Spec, hit : 1..2]

Honest(spec) == spec.stamped /\ spec.fresh => ~spec.hand

TreeHonest ==
  /\ tree \in [Path -> Spec \cup {Absent}]
  /\ \A p \in Path : Present(p) => Honest(tree[p])

\* The flow's spec is there, and still what was rendered.
Written(plan, i) == SpecPath(plan, i) \in Path /\ Present(SpecPath(plan, i))
Own(plan, i) == NamesApart(plan) => tree[SpecPath(plan, i)] = Rendered(i)

ListedExist ==
  /\ planMd \in [managed : BOOLEAN, lists : SUBSET Path]
  /\ \A p \in planMd.lists : Present(p)

GenInv ==
  /\ gen \in {Idle} \cup Writing \cup Finished
  /\ gen.stage = "write" =>
       \A i \in DOMAIN gen.plan :
         i < gen.next => Written(gen.plan, i) /\ (gen.quiet => Own(gen.plan, i))
  /\ gen.stage = "done" =>
       /\ planMd.lists = SpecPaths(gen.plan)
       /\ \A i \in DOMAIN gen.plan : Own(gen.plan, i)

FixInv ==
  /\ fix \in {Idle} \cup Considering \cup Repairing
  /\ fix.stage = "write" =>
       /\ ~fix.repair.review
       /\ fix.read.marker = "healer" /\ (fix.read.stamped => ~fix.read.hand)
       /\ Occurrences(fix.read.lines, fix.repair.text) = {fix.repair.line}
            => fix.hit = fix.repair.line
       /\ fix.hit \in DOMAIN fix.read.lines

SpInv ==
  /\ TreeHonest /\ ListedExist /\ GenInv /\ FixInv
  /\ proposals \subseteq Fit
  /\ hands \in Nat /\ commands \in Nat

\* A name with a number says which name it was, and which number.
LEMMA NumbersApart ==
  ASSUME NEW p \in Path, NEW q \in Path, NEW m \in Nat, NEW n \in Nat,
         Append(p, m) = Append(q, n)
  PROVE  p = q /\ m = n
  <1>1. Len(p) \in Nat /\ Len(q) \in Nat
    BY PathsAreSequences
  <1> DEFINE T == {p[k] : k \in 1..Len(p)} \cup {q[k] : k \in 1..Len(q)} \cup Nat
  <1>2. p \in [1..Len(p) -> T] /\ q \in [1..Len(q) -> T]
    <2>1. p = [k \in 1..Len(p) |-> p[k]] /\ q = [k \in 1..Len(q) |-> q[k]]
      BY PathsAreSequences
    <2>2. [k \in 1..Len(p) |-> p[k]] \in [1..Len(p) -> T]
      OBVIOUS
    <2>3. [k \in 1..Len(q) |-> q[k]] \in [1..Len(q) -> T]
      OBVIOUS
    <2> QED BY <2>1, <2>2, <2>3
  <1>3. p \in Seq(T) /\ q \in Seq(T) /\ m \in T /\ n \in T
    BY <1>1, <1>2
  <1> HIDE DEF T
  <1> QED BY <1>3

\* No two flows of a plan whose names are apart have one spec.
LEMMA OwnNames ==
  ASSUME NEW plan \in Plan, NamesApart(plan), NEW i \in DOMAIN plan, NEW k \in DOMAIN plan,
         i < k
  PROVE  SpecPath(plan, i) # SpecPath(plan, k)
  <1> DEFINE Met(j) == {x \in 1..j : plan[x] = plan[j]}
  <1>1. /\ plan \in Seq(Path) /\ DOMAIN plan = 1..Len(plan) /\ Len(plan) \in Nat
        /\ plan[i] \in Path /\ plan[k] \in Path /\ i \in Nat /\ k \in Nat
    BY PlansArePaths
  <1>2. \A j \in 1..Len(plan) :
          /\ IsFiniteSet(Met(j)) /\ Cardinality(Met(j)) \in 1..Len(plan)
    <2> TAKE j \in 1..Len(plan)
    <2>1. j \in Nat /\ IsFiniteSet(1..j) /\ Cardinality(1..j) = j
      BY <1>1, FS_Interval
    <2>2. Met(j) \in SUBSET (1..j) /\ j \in Met(j)
      BY <2>1
    <2> HIDE DEF Met
    <2>3. IsFiniteSet(Met(j)) /\ Cardinality(Met(j)) <= j
      BY <2>1, <2>2, FS_Subset
    <2>4. Cardinality(Met(j)) \in Nat /\ Cardinality(Met(j)) # 0
      BY <2>2, <2>3, FS_CardinalityType, FS_EmptySet
    <2> QED BY <1>1, <2>1, <2>3, <2>4
  <1>3. PICK a \in 1..Len(plan), b \in 1..Len(plan) :
          a = Cardinality(Met(i)) /\ b = Cardinality(Met(k))
    BY <1>1, <1>2
  <1>4. /\ SpecPath(plan, i) = IF a = 1 THEN plan[i] ELSE Append(plan[i], a)
        /\ SpecPath(plan, k) = IF b = 1 THEN plan[k] ELSE Append(plan[k], b)
    BY <1>3 DEF SpecPath
  <1>5. plan[i] = plan[k] => a < b
    <2> HAVE plan[i] = plan[k]
    <2>1. Met(i) \in SUBSET Met(k) /\ k \in Met(k) /\ k \notin Met(i)
      BY <1>1
    <2>2. IsFiniteSet(Met(k))
      BY <1>1, <1>2
    <2> HIDE DEF Met
    <2>3. a <= b /\ a # b
      BY <1>3, <2>1, <2>2, FS_Subset
    <2> QED BY <2>3
  <1>6. \A x, y \in DOMAIN plan : \A n \in 2..Len(plan) : plan[x] # Append(plan[y], n)
    BY DEF NamesApart
  <1> HIDE DEF Met
  <1>7. PICK p \in Path, q \in Path : p = plan[i] /\ q = plan[k]
    BY <1>1
  <1>8. /\ SpecPath(plan, i) = IF a = 1 THEN p ELSE Append(p, a)
        /\ SpecPath(plan, k) = IF b = 1 THEN q ELSE Append(q, b)
        /\ p = q => a < b
    BY <1>4, <1>5, <1>7
  <1>9. /\ a # 1 => q # Append(p, a)
        /\ b # 1 => p # Append(q, b)
    <2>1. (a # 1 => a \in 2..Len(plan)) /\ (b # 1 => b \in 2..Len(plan))
      BY <1>1, <1>3
    <2> QED BY <1>6, <1>7, <2>1
  <1>10. a # 1 /\ b # 1 => Append(p, a) # Append(q, b)
    <2>1. a \in Nat /\ b \in Nat /\ (a = b => ~(a < b))
      BY <1>1, <1>3
    <2> QED BY <1>8, <2>1, NumbersApart
  <1>11. a = 1 /\ b = 1 => p # q
    BY <1>8
  <1> QED BY <1>8, <1>9, <1>10, <1>11

\* What a template renders is a spec, and never mistaken for a missing one.
LEMMA RenderedIsSpec == \A i \in Nat : Rendered(i) \in Spec /\ Honest(Rendered(i))
  <1> TAKE i \in Nat
  <1>1. <<"stale", "stale">> \in Lines
    <2>1. <<"stale", "stale">> \in [1..2 -> Text]
      BY DEF Text
    <2> QED BY <2>1 DEF Lines
  <1> QED BY <1>1 DEF Rendered, Spec, Honest

LEMMA SpecsArePresent == \A spec \in Spec : spec # Absent
  BY DEF Spec, Absent

\* A spec, field by field, and what becomes of it when fields are replaced.
Plain(marker, stamped, fresh, flow, lines, hand) ==
  [marker |-> marker, stamped |-> stamped, fresh |-> fresh, flow |-> flow, lines |-> lines,
   hand |-> hand]

ByHand(old, lines, no, hand, marker) ==
  [old EXCEPT !.lines = lines, !.fresh = no, !.hand = hand, !.marker = marker]
ByRepair(old, lines, no) == [old EXCEPT !.lines = lines, !.fresh = no]
CutShort(old, marker, lines, no) == [old EXCEPT !.marker = marker, !.lines = lines, !.fresh = no]

LEMMA SpecFields ==
  ASSUME NEW old \in Spec, NEW marker, NEW lines, NEW no, NEW hand
  PROVE  /\ ByHand(old, lines, no, hand, marker)
              = Plain(marker, old.stamped, no, old.flow, lines, hand)
         /\ ByRepair(old, lines, no)
              = Plain(old.marker, old.stamped, no, old.flow, lines, old.hand)
         /\ CutShort(old, marker, lines, no)
              = Plain(marker, old.stamped, no, old.flow, lines, old.hand)
  <1>1. PICK ma, st, fr, fl, li, ha :
           /\ old = [marker |-> ma, stamped |-> st, fresh |-> fr, flow |-> fl, lines |-> li,
                     hand |-> ha]
           /\ ma = old.marker /\ st = old.stamped /\ fl = old.flow /\ ha = old.hand
    BY DEF Spec
  <1>2. PICK a : a = [old EXCEPT !.lines = lines]
    OBVIOUS
  <1>3. a
          = [marker |-> ma, stamped |-> st, fresh |-> fr, flow |-> fl, lines |-> lines,
             hand |-> ha]
    BY <1>1, <1>2
  <1>4. PICK b : b = [a EXCEPT !.fresh = no]
    OBVIOUS
  <1>5. b
          = [marker |-> ma, stamped |-> st, fresh |-> no, flow |-> fl, lines |-> lines,
             hand |-> ha]
    BY <1>3, <1>4
  <1>6. PICK c : c = [b EXCEPT !.hand = hand]
    OBVIOUS
  <1>7. c
          = [marker |-> ma, stamped |-> st, fresh |-> no, flow |-> fl, lines |-> lines,
             hand |-> hand]
    BY <1>5, <1>6
  <1>8. PICK d : d = [c EXCEPT !.marker = marker]
    OBVIOUS
  <1>9. d
          = [marker |-> marker, stamped |-> st, fresh |-> no, flow |-> fl, lines |-> lines,
             hand |-> hand]
    BY <1>7, <1>8
  <1>10. PICK e : e = [old EXCEPT !.marker = marker]
    OBVIOUS
  <1>11. e
          = [marker |-> marker, stamped |-> st, fresh |-> fr, flow |-> fl, lines |-> li,
             hand |-> ha]
    BY <1>1, <1>10
  <1>12. PICK f : f = [e EXCEPT !.lines = lines]
    OBVIOUS
  <1>13. f
          = [marker |-> marker, stamped |-> st, fresh |-> fr, flow |-> fl, lines |-> lines,
             hand |-> ha]
    BY <1>11, <1>12
  <1>14. PICK g : g = [f EXCEPT !.fresh = no]
    OBVIOUS
  <1>15. g
          = [marker |-> marker, stamped |-> st, fresh |-> no, flow |-> fl, lines |-> lines,
             hand |-> ha]
    BY <1>13, <1>14
  <1>16. b = [old EXCEPT !.lines = lines, !.fresh = no]
    BY <1>2, <1>4
  <1>17. d = [old EXCEPT !.lines = lines, !.fresh = no, !.hand = hand, !.marker = marker]
    BY <1>2, <1>4, <1>6, <1>8
  <1>18. g = [old EXCEPT !.marker = marker, !.lines = lines, !.fresh = no]
    BY <1>10, <1>12, <1>14
  <1> QED BY <1>1, <1>5, <1>9, <1>15, <1>16, <1>17, <1>18
      DEF Plain, ByHand, ByRepair, CutShort

\* What is known of a command in progress.
LEMMA GenFacts ==
  ASSUME SpInv
  PROVE  /\ gen.stage = "write" => gen \in Writing
         /\ gen.stage = "done" => gen \in Finished
         /\ gen.stage \in {"idle", "write", "done"}
         /\ Idle.stage = "idle"
  BY DEF SpInv, GenInv, Writing, Finished, Idle

LEMMA FixFacts ==
  ASSUME SpInv
  PROVE  /\ fix.stage = "next" => fix \in Considering
         /\ fix.stage = "write" => fix \in Repairing
         /\ fix.stage \in {"idle", "next", "write"}
  BY DEF SpInv, FixInv, Considering, Repairing, Idle

\* A save of another actor while `generate` works leaves it what it has written,
\* but not as its own.
LEMMA SaveKeeps ==
  ASSUME SpInv, gen' = Disturbed,
         planMd' \in [managed : BOOLEAN, lists : {planMd.lists}],
         tree' \in [Path -> Spec \cup {Absent}],
         \A p \in Path : Present(p) => tree'[p] # Absent,
         \A p \in Path : tree'[p] # Absent => Honest(tree'[p])
  PROVE  TreeHonest' /\ ListedExist' /\ GenInv'
  <1>1. TreeHonest' /\ ListedExist'
    BY DEF SpInv, TreeHonest, ListedExist, Present
  <1>2. CASE gen.stage = "write"
    <2>1. gen \in Writing
      BY <1>2, GenFacts
    <2>2. PICK pl \in Plan, n \in Nat \ {0}, no \in BOOLEAN, fo \in BOOLEAN :
             /\ pl = gen.plan /\ n = gen.next /\ no = FALSE
             /\ gen' = [stage |-> "write", plan |-> pl, force |-> fo, next |-> n, quiet |-> no]
      BY <1>2, <2>1 DEF Disturbed, Writing
    <2>3. gen' \in Writing /\ gen'.stage = "write" /\ gen'.plan = pl /\ gen'.next = n
            /\ gen'.quiet = FALSE
      BY <2>2 DEF Writing
    <2>4. \A i \in DOMAIN pl : i < n => SpecPath(pl, i) \in Path /\ Present(SpecPath(pl, i))
      BY <1>2, <2>2 DEF SpInv, GenInv, Written
    <2>5. \A i \in DOMAIN pl :
             i < n => SpecPath(pl, i) \in Path /\ tree'[SpecPath(pl, i)] # Absent
      BY <2>4
    <2>6. \A i \in DOMAIN gen'.plan : i < gen'.next => Written(gen.plan, i)'
      BY <2>3, <2>5 DEF Written, Present
    <2> QED BY <1>1, <2>3, <2>6 DEF GenInv
  <1>3. CASE gen.stage # "write"
    <2>1. gen' = Idle
      BY <1>3 DEF Disturbed
    <2>2. gen' \in {Idle} /\ gen'.stage = "idle"
      BY <2>1 DEF Idle
    <2> QED BY <1>1, <2>2 DEF GenInv
  <1> QED BY <1>1, <1>2, <1>3

\* A save of one file.
LEMMA FileSaveKeeps ==
  ASSUME SpInv, gen' = Disturbed, planMd' = planMd,
         NEW p \in Path, NEW spec \in Spec, Honest(spec), tree' = [tree EXCEPT ![p] = spec]
  PROVE  TreeHonest' /\ ListedExist' /\ GenInv'
  <1>1. planMd' \in [managed : BOOLEAN, lists : {planMd.lists}]
    BY DEF SpInv, ListedExist
  <1>2. /\ tree' \in [Path -> Spec \cup {Absent}]
        /\ \A q \in Path : tree'[q] = IF q = p THEN spec ELSE tree[q]
    BY DEF SpInv, TreeHonest
  <1>3. \A q \in Path : Present(q) => tree'[q] # Absent
    BY <1>2, SpecsArePresent DEF Present
  <1>4. \A q \in Path : tree'[q] # Absent => Honest(tree'[q])
    BY <1>2 DEF SpInv, TreeHonest, Present
  <1> QED BY <1>1, <1>2, <1>3, <1>4, SaveKeeps
\* The developers.
LEMMA EditKeeps ==
  ASSUME SpInv, NEW p \in Path, NEW line \in 1..2, NEW text \in Text, NEW strip \in BOOLEAN,
         EditSpec(p, line, text, strip)
  PROVE  SpInv'
  <1>1. tree[p] \in Spec /\ line \in DOMAIN tree[p].lines
    BY DEF EditSpec, SpInv, TreeHonest, Present
  <1>2. PICK lines : lines = [tree[p].lines EXCEPT ![line] = text]
    OBVIOUS
  <1>3. lines \in Lines
    <2>1. PICK n \in 0..2 : tree[p].lines \in [1..n -> Text]
      BY <1>1 DEF Spec, Lines
    <2>2. lines \in [1..n -> Text]
      BY <1>2, <2>1
    <2> QED BY <2>2 DEF Lines
  <1>4. PICK marker \in {"generator", "healer", "none"}, no \in BOOLEAN, yes \in BOOLEAN :
           marker = (IF strip THEN "none" ELSE tree[p].marker) /\ no = FALSE /\ yes = TRUE
    BY <1>1 DEF Spec
  <1>5. PICK spec \in Spec :
           /\ spec = [tree[p] EXCEPT !.lines = lines, !.fresh = no, !.hand = yes,
                                     !.marker = marker]
           /\ spec.fresh = FALSE
    <2>1. PICK old \in Spec : old = tree[p]
      BY <1>1
    <2>2. PICK spec \in Spec :
             spec = [marker |-> marker, stamped |-> old.stamped, fresh |-> no,
                     flow |-> old.flow, lines |-> lines, hand |-> yes]
      BY <1>3 DEF Spec
    <2>3. spec = [old EXCEPT !.lines = lines, !.fresh = no, !.hand = yes, !.marker = marker]
      <3>1. ByHand(old, lines, no, yes, marker)
              = Plain(marker, old.stamped, no, old.flow, lines, yes)
        BY SpecFields
      <3> QED BY <2>2, <3>1 DEF ByHand, Plain
    <2>4. spec.fresh = FALSE
      BY <1>4, <2>2
    <2> QED BY <2>1, <2>3, <2>4
  <1>6. tree \in [Path -> Spec \cup {Absent}]
    BY DEF SpInv, TreeHonest
  <1>7. tree' = [tree EXCEPT ![p] = spec]
    BY <1>1, <1>2, <1>4, <1>5, <1>6 DEF EditSpec
  <1>8. Honest(spec)
    BY <1>5 DEF Honest
  <1>9. gen' = Disturbed /\ planMd' = planMd /\ UNCHANGED <<proposals, fix, commands>>
    BY DEF EditSpec
  <1>10. TreeHonest' /\ ListedExist' /\ GenInv'
    BY <1>7, <1>8, <1>9, FileSaveKeeps
  <1>11. hands' = hands + 1
    BY DEF EditSpec
  <1> QED BY <1>9, <1>10, <1>11 DEF SpInv, FixInv

LEMMA AddKeeps ==
  ASSUME SpInv, NEW p \in Path, NEW marker \in {"healer", "none"}, NEW stamped \in BOOLEAN,
         NEW lines \in Drafts, AddSpec(p, marker, stamped, lines)
  PROVE  SpInv'
  <1>1. lines \in Lines
    <2>1. \A a, b \in Text : <<a, b>> \in [1..2 -> Text]
      OBVIOUS
    <2>2. lines \in [1..2 -> Text]
      BY <2>1 DEF Drafts, Text
    <2> QED BY <2>2 DEF Lines
  <1>2. PICK yes \in BOOLEAN, hand \in BOOLEAN : yes = TRUE /\ hand = (marker = "none")
    OBVIOUS
  <1>3. PICK spec \in Spec :
          spec = [marker |-> marker, stamped |-> stamped, fresh |-> yes,
                  flow |-> 0, lines |-> lines, hand |-> hand]
    BY <1>1 DEF Spec
  <1>4. stamped => marker = "healer"
    BY DEF AddSpec
  <1>5. Honest(spec)
    BY <1>2, <1>3, <1>4 DEF Honest
  <1>6. tree' = [tree EXCEPT ![p] = spec]
    BY <1>2, <1>3 DEF AddSpec
  <1>7. gen' = Disturbed /\ planMd' = planMd /\ UNCHANGED <<proposals, fix, commands>>
    BY DEF AddSpec
  <1>8. TreeHonest' /\ ListedExist' /\ GenInv'
    BY <1>5, <1>6, <1>7, FileSaveKeeps
  <1>9. hands' = hands + 1
    BY DEF AddSpec
  <1> QED BY <1>7, <1>8, <1>9 DEF SpInv, FixInv

LEMMA AdoptKeeps == ASSUME SpInv, AdoptPlan PROVE SpInv'
  <1>1. planMd' \in [managed : BOOLEAN, lists : {planMd.lists}]
    BY DEF AdoptPlan, SpInv, ListedExist
  <1>2. gen' = Disturbed /\ tree' = tree /\ UNCHANGED <<proposals, fix, commands>>
    BY DEF AdoptPlan
  <1>3. TreeHonest' /\ ListedExist' /\ GenInv'
    BY <1>1, <1>2, SaveKeeps DEF SpInv, TreeHonest, Present
  <1>4. hands' = hands + 1
    BY DEF AdoptPlan
  <1> QED BY <1>2, <1>3, <1>4 DEF SpInv, FixInv

\* `generate`.
LEMMA StartGenerateKeeps ==
  ASSUME SpInv, NEW plan \in Plan, NEW force \in BOOLEAN, StartGenerate(plan, force)
  PROVE  SpInv'
  <1>1. PICK yes \in BOOLEAN : yes = TRUE
    OBVIOUS
  <1>2. gen' = [stage |-> "write", plan |-> plan, force |-> force, next |-> 1, quiet |-> yes]
    BY <1>1 DEF StartGenerate
  <1>3. gen' \in Writing /\ gen'.stage = "write" /\ gen'.next = 1 /\ gen'.plan = plan
    BY <1>2 DEF Writing
  <1>4. \A i \in DOMAIN gen'.plan : ~(i < gen'.next)
    BY <1>3, PlansArePaths
  <1>5. GenInv'
    BY <1>3, <1>4 DEF GenInv
  <1>6. UNCHANGED <<tree, planMd, proposals, fix, hands>> /\ commands' = commands + 1
    BY DEF StartGenerate
  <1> QED BY <1>5, <1>6 DEF SpInv, TreeHonest, ListedExist, FixInv, Present

LEMMA WriteSpecKeeps == ASSUME SpInv, WriteSpec PROVE SpInv'
  <1>1. gen \in Writing /\ gen.stage = "write" /\ gen.next <= Len(gen.plan)
    BY GenFacts DEF WriteSpec
  <1>2. PICK pl \in Plan, n \in Nat \ {0}, quiet \in BOOLEAN, force \in BOOLEAN :
          /\ gen = [stage |-> "write", plan |-> pl, force |-> force, next |-> n,
                    quiet |-> quiet]
          /\ gen.plan = pl /\ gen.next = n /\ gen.quiet = quiet /\ gen.force = force
    BY <1>1 DEF Writing
  <1>3. n \in DOMAIN pl /\ DOMAIN pl = 1..Len(pl) /\ Len(pl) \in Nat
    BY <1>1, <1>2, PlansArePaths
  <1>4. PICK p \in Path : p = SpecPath(pl, n)
    BY <1>2, <1>3, PlansArePaths DEF SpecPaths
  <1>5. UNCHANGED <<planMd, proposals, fix, hands, commands>>
    BY DEF WriteSpec
  <1>6. CASE Present(p) /\ tree[p].marker # "generator" /\ ~force
    <2>1. gen' = Idle /\ tree' = tree
      BY <1>2, <1>4, <1>6 DEF WriteSpec
    <2>2. GenInv'
      <3>1. gen' \in {Idle} /\ gen'.stage = "idle"
        BY <2>1 DEF Idle
      <3> QED BY <3>1 DEF GenInv
    <2> QED BY <1>5, <2>1, <2>2 DEF SpInv, TreeHonest, ListedExist, FixInv, Present
  <1>7. CASE ~(Present(p) /\ tree[p].marker # "generator" /\ ~force)
    <2>1. PICK spec \in Spec : spec = Rendered(n) /\ Honest(spec)
      BY RenderedIsSpec
    <2>2. tree' = [tree EXCEPT ![p] = spec]
      BY <1>2, <1>4, <1>7, <2>1 DEF WriteSpec
    <2>3. gen' = [stage |-> "write", plan |-> pl, force |-> force, next |-> n + 1,
                  quiet |-> quiet]
      BY <1>2, <1>4, <1>7 DEF WriteSpec
    <2>4. /\ gen' \in Writing /\ gen'.stage = "write" /\ gen'.plan = pl
          /\ gen'.next = n + 1 /\ gen'.quiet = quiet
      BY <2>3 DEF Writing
    <2>5. /\ tree' \in [Path -> Spec \cup {Absent}]
          /\ \A q \in Path : tree'[q] = IF q = p THEN spec ELSE tree[q]
      BY <2>2 DEF SpInv, TreeHonest
    <2>6. TreeHonest' /\ ListedExist'
      BY <1>5, <2>1, <2>5, SpecsArePresent DEF SpInv, TreeHonest, ListedExist, Present
    <2>7. \A i \in DOMAIN pl :
            i < n => /\ SpecPath(pl, i) \in Path /\ tree[SpecPath(pl, i)] # Absent
                     /\ quiet /\ NamesApart(pl) => tree[SpecPath(pl, i)] = Rendered(i)
      BY <1>1, <1>2 DEF SpInv, GenInv, Written, Own, Present
    <2>8. ASSUME NEW i \in DOMAIN pl, i < n + 1
          PROVE  /\ SpecPath(pl, i) \in Path /\ tree'[SpecPath(pl, i)] # Absent
                 /\ quiet /\ NamesApart(pl) => tree'[SpecPath(pl, i)] = Rendered(i)
      <3>1. CASE i = n
        BY <1>4, <2>1, <2>5, <3>1, SpecsArePresent
      <3>2. CASE i # n
        <4>1. i < n
          BY <1>3, <2>8, <3>2
        <4>2. SpecPath(pl, i) \in Path /\ tree'[SpecPath(pl, i)] # Absent
          BY <2>1, <2>5, <2>7, <4>1, SpecsArePresent
        <4>3. NamesApart(pl) => SpecPath(pl, i) # p
          BY <1>3, <1>4, <4>1, OwnNames
        <4> QED BY <2>5, <2>7, <4>1, <4>2, <4>3
      <3> QED BY <3>1, <3>2
    <2>9. \A i \in DOMAIN gen'.plan :
            i < gen'.next => Written(gen.plan, i)' /\ (gen'.quiet => Own(gen.plan, i)')
      BY <2>4, <2>8 DEF Written, Own, Present
    <2>10. GenInv'
      BY <2>4, <2>9 DEF GenInv
    <2> QED BY <1>5, <2>6, <2>10 DEF SpInv, FixInv
  <1> QED BY <1>6, <1>7

LEMMA WritePlanKeeps == ASSUME SpInv, WritePlan PROVE SpInv'
  <1>1. gen \in Writing /\ gen.stage = "write" /\ gen.next > Len(gen.plan)
    BY GenFacts DEF WritePlan
  <1>2. PICK pl \in Plan, n \in Nat \ {0}, quiet \in BOOLEAN, force \in BOOLEAN :
          gen.plan = pl /\ gen.next = n /\ gen.quiet = quiet /\ gen.force = force
    BY <1>1 DEF Writing
  <1>3. DOMAIN pl = 1..Len(pl) /\ Len(pl) \in Nat /\ SpecPaths(pl) \subseteq Path
    BY <1>2, PlansArePaths
  <1>4. \A i \in DOMAIN pl :
          /\ SpecPath(pl, i) \in Path /\ tree[SpecPath(pl, i)] # Absent
          /\ quiet => Own(pl, i)
    BY <1>1, <1>2, <1>3 DEF SpInv, GenInv, Written, Present
  <1>5. UNCHANGED <<tree, proposals, fix, hands, commands>>
    BY DEF WritePlan
  <1>6. CASE planMd.managed \/ force
    <2>1. PICK yes \in BOOLEAN : yes = TRUE
      OBVIOUS
    <2>2. planMd' = [managed |-> yes, lists |-> SpecPaths(pl)]
      BY <1>2, <1>6, <2>1 DEF WritePlan
    <2>3. ListedExist'
      BY <1>3, <1>4, <1>5, <2>2 DEF ListedExist, Present, SpecPaths
    <2>4. gen' = IF quiet THEN Done(pl) ELSE Idle
      BY <1>2, <1>6 DEF WritePlan
    <2>5. CASE quiet
      <3>1. gen' \in Finished /\ gen'.stage = "done" /\ gen'.plan = pl
        BY <2>4, <2>5 DEF Done, Finished
      <3>2. \A i \in DOMAIN pl : NamesApart(pl) => tree'[SpecPath(pl, i)] = Rendered(i)
        BY <1>4, <1>5, <2>5 DEF Own
      <3>3. \A i \in DOMAIN gen'.plan : Own(gen.plan, i)'
        BY <3>1, <3>2 DEF Own
      <3>4. planMd'.lists = SpecPaths(gen'.plan)
        BY <2>2, <3>1
      <3>5. GenInv'
        BY <3>1, <3>3, <3>4 DEF GenInv
      <3> QED BY <1>5, <2>3, <3>5 DEF SpInv, TreeHonest, FixInv, Present
    <2>6. CASE ~quiet
      <3>1. gen' \in {Idle} /\ gen'.stage = "idle"
        BY <2>4, <2>6 DEF Idle
      <3>2. GenInv'
        BY <3>1 DEF GenInv
      <3> QED BY <1>5, <2>3, <3>2 DEF SpInv, TreeHonest, FixInv, Present
    <2> QED BY <2>5, <2>6
  <1>7. CASE ~(planMd.managed \/ force)
    <2>1. gen' = Idle /\ planMd' = planMd
      BY <1>2, <1>7 DEF WritePlan
    <2>2. gen' \in {Idle} /\ gen'.stage = "idle"
      BY <2>1 DEF Idle
    <2>3. GenInv'
      BY <2>2 DEF GenInv
    <2> QED BY <1>5, <2>1, <2>3 DEF SpInv, TreeHonest, ListedExist, FixInv, Present
  <1> QED BY <1>6, <1>7

LEMMA GenerateDiesKeeps == ASSUME SpInv, GenerateDies PROVE SpInv'
  <1>1. gen' \in {Idle} /\ gen'.stage = "idle"
    BY DEF GenerateDies, Idle
  <1>2. GenInv'
    BY <1>1 DEF GenInv
  <1>3. UNCHANGED <<tree, planMd, proposals, fix, hands, commands>>
    BY DEF GenerateDies
  <1> QED BY <1>2, <1>3 DEF SpInv, TreeHonest, ListedExist, FixInv, Present
\* The healer.
LEMMA ProposeKeeps ==
  ASSUME SpInv, NEW p \in Path, NEW line \in 1..2, NEW kind \in Kind,
         NEW confidence \in Scores[kind], Propose(p, line, kind, confidence)
  PROVE  SpInv'
  <1>1. confidence \in 0..100
    BY DEF Kind, Scores
  <1>2. PICK review \in BOOLEAN : review = (kind = "fixture" \/ confidence < 90)
    OBVIOUS
  <1>3. PICK text \in Text : text = tree[p].lines[line]
    <2>1. tree[p] \in Spec /\ line \in DOMAIN tree[p].lines
      BY DEF Propose, SpInv, TreeHonest, Present
    <2>2. PICK n \in 0..2 : tree[p].lines \in [1..n -> Text]
      BY <2>1 DEF Spec, Lines
    <2> QED BY <2>1, <2>2
  <1>4. PICK q \in Proposal :
           q = [path |-> p, line |-> line, kind |-> kind, confidence |-> confidence,
                review |-> review, text |-> text]
    BY <1>1 DEF Proposal
  <1>5. q \in Fit
    <2>1. ~q.review => q.kind # "fixture" /\ q.confidence >= 90
      <3>1. q.review = review /\ q.kind = kind /\ q.confidence = confidence
        BY <1>4
      <3>2. ~review => kind # "fixture" /\ ~(confidence < 90)
        BY <1>2
      <3>3. ~(confidence < 90) => confidence >= 90
        BY <1>1
      <3> QED BY <3>1, <3>2, <3>3
    <2> QED BY <2>1 DEF Fit
  <1>6. proposals' = proposals \cup {q}
    BY <1>2, <1>3, <1>4 DEF Propose
  <1>7. UNCHANGED <<tree, planMd, gen, fix, hands, commands>>
    BY DEF Propose
  <1> QED BY <1>5, <1>6, <1>7
      DEF SpInv, TreeHonest, ListedExist, GenInv, FixInv, Present, Written, Own

LEMMA StartFixKeeps ==
  ASSUME SpInv, NEW mode \in {"safe", "aggressive"}, NEW threshold \in Threshold,
         StartFix(mode, threshold)
  PROVE  SpInv'
  <1>1. fix' = [stage |-> "next", mode |-> mode, threshold |-> threshold, left |-> proposals]
    BY DEF StartFix
  <1>2. proposals \in SUBSET Fit
    BY DEF SpInv
  <1>3. fix' \in Considering /\ fix'.stage = "next"
    BY <1>1, <1>2 DEF Considering
  <1>4. FixInv'
    BY <1>3 DEF FixInv
  <1>5. UNCHANGED <<tree, planMd, proposals, gen, hands>> /\ commands' = commands + 1
    BY DEF StartFix
  <1> QED BY <1>4, <1>5 DEF SpInv, TreeHonest, ListedExist, GenInv, Present, Written, Own

LEMMA ConsiderKeeps == ASSUME SpInv, NEW q, ConsiderRepair(q) PROVE SpInv'
  <1>1. fix \in Considering /\ fix.stage = "next" /\ q \in fix.left
    BY FixFacts DEF ConsiderRepair, NextDue, Due
  <1>2. PICK mode \in {"safe", "aggressive"}, threshold \in Threshold, left \in SUBSET Fit,
             was \in SUBSET Fit :
          /\ mode = fix.mode /\ threshold = fix.threshold /\ left = fix.left \ {q}
          /\ fix = [stage |-> "next", mode |-> mode, threshold |-> threshold, left |-> was]
    BY <1>1 DEF Considering
  <1>3. q \in Fit /\ q.path \in Path /\ q.line \in 1..2
    <2>1. q \in Fit
      BY <1>1 DEF Considering
    <2> QED BY <2>1 DEF Fit, Proposal
  <1>4. UNCHANGED <<tree, planMd, proposals, gen, hands, commands>>
    BY DEF ConsiderRepair
  <1> DEFINE goes == /\ ShouldApply(q, fix.mode, fix.threshold)
                     /\ Occurrences(tree[q.path].lines, q.text) # {}
  <1>5. CASE ~goes
    <2>1. fix' = [fix EXCEPT !.left = left]
      <3>1. fix' = [fix EXCEPT !.left = fix.left \ {q}]
        BY <1>5 DEF ConsiderRepair
      <3>2. left = fix.left \ {q}
        BY <1>2
      <3> QED BY <3>1, <3>2
    <2>2. fix' = [stage |-> "next", mode |-> mode, threshold |-> threshold, left |-> left]
      <3>1. fix = [stage |-> "next", mode |-> mode, threshold |-> threshold, left |-> was]
        BY <1>2
      <3> QED BY <2>1, <3>1
    <2>3. fix' \in Considering /\ fix'.stage = "next"
      BY <2>2 DEF Considering
    <2>4. FixInv'
      BY <2>3 DEF FixInv
    <2> QED BY <1>4, <2>4 DEF SpInv, TreeHonest, ListedExist, GenInv, Present, Written, Own
  <1>6. CASE goes
    <2>1. PICK spec \in Spec : spec = tree[q.path]
      BY <1>3, <1>6 DEF ShouldApply, HandEdited, SpInv, TreeHonest, Present
    <2>2. PICK found \in SUBSET (1..2) :
             found = Occurrences(spec.lines, q.text) /\ found \subseteq DOMAIN spec.lines
      <3>1. PICK n \in 0..2 : spec.lines \in [1..n -> Text]
        BY DEF Spec, Lines
      <3>2. DOMAIN spec.lines \subseteq 1..2
        BY <3>1
      <3> QED BY <3>2 DEF Occurrences
    <2>3. PICK hit \in found : hit = Min(found)
      <3>1. found # {} /\ found \in SUBSET Nat /\ IsFiniteSet(found)
        <4>1. Occurrences(tree[q.path].lines, q.text) # {}
          BY <1>6
        <4>2. found # {}
          BY <2>1, <2>2, <4>1
        <4>3. found \in SUBSET Nat /\ \A n \in found : n <= 2
          OBVIOUS
        <4> QED BY <4>2, <4>3, FS_BoundedSetOfNaturals
      <3> QED BY <3>1, LeastOf
    <2>4. fix' = [stage |-> "write", mode |-> mode, threshold |-> threshold, left |-> left,
                  repair |-> q, read |-> spec, hit |-> hit]
      BY <1>2, <1>6, <2>1, <2>2, <2>3 DEF ConsiderRepair
    <2>5. hit \in 1..2 /\ hit \in DOMAIN spec.lines
      BY <2>2
    <2>6. /\ fix' \in Repairing /\ fix'.stage = "write"
          /\ fix'.repair = q /\ fix'.read = spec /\ fix'.hit = hit
      BY <1>3, <2>4, <2>5 DEF Repairing
    <2>7. /\ ~q.review /\ spec.marker = "healer" /\ (spec.stamped => ~spec.hand)
          /\ found = {q.line} => hit = q.line
      <3>1. ~HandEdited(q.path) /\ ~q.review
        BY <1>6 DEF ShouldApply
      <3>2. Present(q.path) /\ Honest(spec)
        BY <1>3, <2>1, <3>1 DEF HandEdited, SpInv, TreeHonest
      <3>3. spec.marker = "healer" /\ ~(spec.stamped /\ ~spec.fresh)
        BY <2>1, <3>1 DEF HandEdited
      <3>4. spec.fresh \in BOOLEAN /\ spec.stamped \in BOOLEAN
        BY DEF Spec
      <3> QED BY <3>1, <3>2, <3>3, <3>4 DEF Honest
    <2>8. Occurrences(fix'.read.lines, fix'.repair.text) = found
      BY <2>2, <2>6
    <2>9. FixInv'
      BY <2>5, <2>6, <2>7, <2>8 DEF FixInv
    <2> QED BY <1>4, <2>9 DEF SpInv, TreeHonest, ListedExist, GenInv, Present, Written, Own
  <1> QED BY <1>5, <1>6

LEMMA NextRunKeeps == ASSUME SpInv, NextRun PROVE SpInv'
  BY DEF NextRun, SpInv, TreeHonest, ListedExist, GenInv, FixInv, Present, Written, Own

\* What a write of `fix` leaves was read before; its marker and its lines are
\* what the command makes of them.
LEMMA RepairFacts ==
  ASSUME SpInv, fix.stage = "write"
  PROVE  /\ fix \in Repairing /\ fix.repair.path \in Path /\ fix.read \in Spec
         /\ fix.hit \in DOMAIN fix.read.lines /\ fix.read.marker = "healer"
  <1>1. fix \in Repairing
    BY FixFacts
  <1>2. fix.repair \in Fit /\ fix.read \in Spec
    BY <1>1 DEF Repairing
  <1>3. fix.repair.path \in Path
    BY <1>2 DEF Fit, Proposal
  <1> QED BY <1>1, <1>2, <1>3 DEF SpInv, FixInv

LEMMA WriteRepairKeeps == ASSUME SpInv, WriteRepair PROVE SpInv'
  <1>1. fix.stage = "write"
    BY DEF WriteRepair
  <1>2. PICK p \in Path : p = fix.repair.path
    BY <1>1, RepairFacts
  <1>3. PICK old \in Spec : old = fix.read
    BY <1>1, RepairFacts
  <1>4. PICK lines : lines = [old.lines EXCEPT ![fix.hit] = "healed"]
    OBVIOUS
  <1>5. lines \in Lines
    <2>1. PICK n \in 0..2 : old.lines \in [1..n -> Text]
      BY DEF Spec, Lines
    <2>2. lines \in [1..n -> Text]
      BY <1>4, <2>1 DEF Text
    <2> QED BY <2>2 DEF Lines
  <1>6. PICK no \in BOOLEAN : no = FALSE
    OBVIOUS
  <1>7. PICK spec \in Spec :
          spec = [marker |-> old.marker, stamped |-> old.stamped, fresh |-> no,
                  flow |-> old.flow, lines |-> lines, hand |-> old.hand]
    BY <1>5 DEF Spec
  <1>8. spec = Repaired
    <2>1. Repaired = [old EXCEPT !.lines[fix.hit] = "healed", !.fresh = no]
      BY <1>3, <1>6 DEF Repaired
    <2>2. PICK one : one = [old EXCEPT !.lines[fix.hit] = "healed"]
      OBVIOUS
    <2>3. one = [old EXCEPT !.lines = lines]
      BY <1>4, <2>2 DEF Spec
    <2>4. Repaired = [one EXCEPT !.fresh = no]
      BY <2>1, <2>2
    <2>5. Repaired = [old EXCEPT !.lines = lines, !.fresh = no]
      BY <2>3, <2>4
    <2>6. ByRepair(old, lines, no)
            = Plain(old.marker, old.stamped, no, old.flow, lines, old.hand)
      BY SpecFields
    <2> QED BY <1>7, <2>5, <2>6 DEF ByRepair, Plain
  <1>9. Honest(spec)
    BY <1>6, <1>7 DEF Honest
  <1>10. tree' = [tree EXCEPT ![p] = spec] /\ gen' = Disturbed /\ planMd' = planMd
    BY <1>2, <1>8 DEF WriteRepair
  <1>11. TreeHonest' /\ ListedExist' /\ GenInv'
    BY <1>9, <1>10, FileSaveKeeps
  <1>12. PICK mode \in {"safe", "aggressive"}, threshold \in Threshold, left \in SUBSET Fit :
           mode = fix.mode /\ threshold = fix.threshold /\ left = fix.left
    BY <1>1, RepairFacts DEF Repairing
  <1>13. fix' = [stage |-> "next", mode |-> mode, threshold |-> threshold, left |-> left]
    BY <1>12 DEF WriteRepair
  <1>14. fix' \in Considering /\ fix'.stage = "next"
    BY <1>13 DEF Considering
  <1>15. FixInv'
    BY <1>14 DEF FixInv
  <1>16. UNCHANGED <<proposals, hands, commands>>
    BY DEF WriteRepair
  <1> QED BY <1>11, <1>15, <1>16 DEF SpInv

LEMMA FixEnds ==
  ASSUME SpInv, fix' = Idle
  PROVE  FixInv'
  <1>1. fix' \in {Idle} /\ fix'.stage = "idle"
    BY DEF Idle
  <1> QED BY <1>1 DEF FixInv

LEMMA EndFixKeeps == ASSUME SpInv, EndFix PROVE SpInv'
  <1>1. FixInv'
    BY FixEnds DEF EndFix
  <1> QED BY <1>1 DEF EndFix, SpInv, TreeHonest, ListedExist, GenInv, Present, Written, Own

LEMMA FixDiesKeeps == ASSUME SpInv, FixDies PROVE SpInv'
  <1>1. fix.stage = "write"
    BY DEF FixDies
  <1>2. PICK p \in Path : p = fix.repair.path
    BY <1>1, RepairFacts
  <1>3. PICK old \in Spec : old = fix.read
    BY <1>1, RepairFacts
  <1>4. <<>> \in Lines
    <2>1. <<>> \in [1..0 -> Text]
      OBVIOUS
    <2> QED BY <2>1 DEF Lines
  <1>5. PICK no \in BOOLEAN : no = FALSE
    OBVIOUS
  <1>6. PICK spec \in Spec :
          spec = [marker |-> "none", stamped |-> old.stamped, fresh |-> no,
                  flow |-> old.flow, lines |-> <<>>, hand |-> old.hand]
    BY <1>4 DEF Spec
  <1>7. spec = [fix.read EXCEPT !.marker = "none", !.lines = <<>>, !.fresh = no]
    <2>1. CutShort(old, "none", <<>>, no)
            = Plain("none", old.stamped, no, old.flow, <<>>, old.hand)
      BY SpecFields
    <2> QED BY <1>3, <1>6, <2>1 DEF CutShort, Plain
  <1>8. Honest(spec)
    BY <1>5, <1>6 DEF Honest
  <1>9. tree' = [tree EXCEPT ![p] = spec] /\ gen' = Disturbed /\ planMd' = planMd
    BY <1>2, <1>5, <1>7 DEF FixDies
  <1>10. TreeHonest' /\ ListedExist' /\ GenInv'
    BY <1>8, <1>9, FileSaveKeeps
  <1>11. FixInv' /\ UNCHANGED <<proposals, hands, commands>>
    BY FixEnds DEF FixDies
  <1> QED BY <1>10, <1>11 DEF SpInv

LEMMA SpKeeps == SpInv /\ [SpNext]_spVars => SpInv'
  <1> SUFFICES ASSUME SpInv, [SpNext]_spVars PROVE SpInv'
    OBVIOUS
  <1>1. CASE Developer
    BY <1>1, AdoptKeeps, EditKeeps, AddKeeps DEF Developer
  <1>2. CASE Generate
    BY <1>2, StartGenerateKeeps, WriteSpecKeeps, WritePlanKeeps, GenerateDiesKeeps DEF Generate
  <1>3. CASE Heal
    BY <1>3, ProposeKeeps, StartFixKeeps, ConsiderKeeps, NextRunKeeps, WriteRepairKeeps,
       EndFixKeeps, FixDiesKeeps DEF Heal
  <1>4. CASE UNCHANGED spVars
    BY <1>4 DEF spVars, SpInv, TreeHonest, ListedExist, GenInv, FixInv, Present, Written, Own
  <1> QED BY <1>1, <1>2, <1>3, <1>4 DEF SpNext

LEMMA SpStarts == SpInit => SpInv
  <1> SUFFICES ASSUME SpInit PROVE SpInv
    OBVIOUS
  <1>1. TreeHonest
    BY DEF SpInit, TreeHonest, Present
  <1>2. PICK yes \in BOOLEAN : yes = TRUE
    OBVIOUS
  <1>3. planMd = [managed |-> yes, lists |-> {}]
    BY <1>2 DEF SpInit
  <1>4. ListedExist
    BY <1>3 DEF ListedExist
  <1>5. gen = Idle /\ fix = Idle /\ Idle.stage = "idle"
    BY DEF SpInit, Idle
  <1>6. GenInv /\ FixInv
    BY <1>5 DEF GenInv, FixInv
  <1> QED BY <1>1, <1>4, <1>6 DEF SpInit, SpInv

LEMMA SpServes == SpInv => TreeIsTrusted
  <1> SUFFICES ASSUME SpInv PROVE TreeIsTrusted
    OBVIOUS
  <1>1. PlanIsTrue
    BY DEF SpInv, ListedExist, GenInv, Own, PlanIsTrue
  <1>2. RepairsAreSafe
    <2> SUFFICES ASSUME fix.stage = "write"
                 PROVE  /\ fix.repair.kind # "fixture" /\ fix.repair.confidence >= 90
                        /\ fix.read.marker = "healer" /\ (fix.read.stamped => ~fix.read.hand)
                        /\ Occurrences(fix.read.lines, fix.repair.text) = {fix.repair.line}
                             => fix.hit = fix.repair.line
      BY DEF RepairsAreSafe
    <2>1. fix.repair \in Fit
      BY RepairFacts DEF Repairing
    <2>2. ~fix.repair.review
      BY DEF SpInv, FixInv
    <2> QED BY <2>1, <2>2 DEF SpInv, FixInv, Fit
  <1> QED BY <1>1, <1>2 DEF TreeIsTrusted

\* The plan lists only specs that exist, and after an undisturbed `generate`
\* each flow has its own spec; what `fix` is about to write is a sure locator or
\* wait repair in a spec of the healer's that no stamp shows as edited - for any
\* plans and names, however the developers and the two commands interleave, and
\* wherever a command is killed (write_generated_files, decide_auto_apply,
\* run_fix).
THEOREM TreeStaysTrusted == SpSpec => []TreeIsTrusted
  BY SpStarts, SpKeeps, SpServes, PTL DEF SpSpec

\* A step changes a spec without a banner only by hand, by force, or by a repair
\* that had read it before the banner was removed.
LEMMA StepKeepsHandWork ==
  ASSUME SpInv, [SpNext]_spVars, NEW p \in Path,
         Present(p), tree[p].marker = "none", tree'[p] # tree[p]
  PROVE  \/ hands' # hands
         \/ gen.stage = "write" /\ gen.force
         \/ fix.stage = "write" /\ fix.repair.path = p /\ fix.read.marker # "none"
  <1>1. tree \in [Path -> Spec \cup {Absent}] /\ hands \in Nat
    BY DEF SpInv, TreeHonest
  <1>2. CASE Developer
    <2>1. hands' = hands + 1
      <3>1. CASE AdoptPlan
        BY <3>1 DEF AdoptPlan
      <3>2. ASSUME NEW q \in Path, NEW line \in 1..2, NEW text \in Text, NEW strip \in BOOLEAN,
                   EditSpec(q, line, text, strip)
            PROVE  hands' = hands + 1
        BY <3>2 DEF EditSpec
      <3>3. ASSUME NEW q \in Path, NEW marker \in {"healer", "none"}, NEW stamped \in BOOLEAN,
                   NEW lines \in Drafts, AddSpec(q, marker, stamped, lines)
            PROVE  hands' = hands + 1
        BY <3>3 DEF AddSpec
      <3> QED BY <1>2, <3>1, <3>2, <3>3 DEF Developer
    <2> QED BY <1>1, <2>1
  <1>3. CASE Generate
    <2>1. WriteSpec
      BY <1>3 DEF Generate, StartGenerate, WritePlan, GenerateDies
    <2>2. p = SpecPath(gen.plan, gen.next)
      BY <1>1, <2>1 DEF WriteSpec
    <2> QED BY <2>1, <2>2 DEF WriteSpec
  <1>4. CASE Heal
    <2>1. WriteRepair \/ FixDies
      BY <1>4 DEF Heal, Propose, StartFix, ConsiderRepair, NextRun, EndFix
    <2>2. fix.stage = "write"
      BY <2>1 DEF WriteRepair, FixDies
    <2>3. p = fix.repair.path
      BY <1>1, <2>1 DEF WriteRepair, FixDies
    <2>4. fix.read.marker = "healer"
      BY <2>2, RepairFacts
    <2> QED BY <2>2, <2>3, <2>4
  <1>5. CASE UNCHANGED spVars
    BY <1>5 DEF spVars
  <1> QED BY <1>2, <1>3, <1>4, <1>5 DEF SpNext

\* A spec a developer owns changes by hand alone, or by --force, or by a repair
\* that had read it before its banner was removed: neither command loses the
\* work of a developer otherwise (write_generated_files, run_fix).
THEOREM HandWorkIsKept == SpSpec => HandWorkKept
  <1>1. SpInv /\ [SpNext]_spVars =>
          [\A p \in Path :
             (Present(p) /\ tree[p].marker = "none" /\ tree'[p] # tree[p])
               => \/ hands' # hands
                  \/ gen.stage = "write" /\ gen.force
                  \/ fix.stage = "write" /\ fix.repair.path = p /\ fix.read.marker # "none"]_spVars
    BY StepKeepsHandWork
  <1> QED BY <1>1, SpStarts, SpKeeps, PTL DEF SpSpec, HandWorkKept

(***************************************************************************)
(* PrComment.  Whatever a write does to the thread, every comment of it    *)
(* but the new one was there before, and every one but the edited one      *)
(* stays: the places of the new thread come from places of the old one.    *)
(***************************************************************************)
Distinct(s) == \A i, k \in DOMAIN s : s[i].id = s[k].id => i = k

\* Place k of t holds what place o[k] of s held, or, where o[k] is 0, the new
\* comment; only the place `gone` of s is left behind.
From(s, t, new, gone, o) ==
  /\ o \in [DOMAIN t -> DOMAIN s \cup {0}]
  /\ \A k \in DOMAIN t : t[k] = IF o[k] = 0 THEN new ELSE s[o[k]]
  /\ \A k, l \in DOMAIN t : o[k] = o[l] => k = l
  /\ \A k \in DOMAIN t : o[k] # gone
  /\ \A i \in DOMAIN s : i # gone => \E k \in DOMAIN t : o[k] = i
  /\ \E k \in DOMAIN t : o[k] = 0

LEMMA CreatedFrom ==
  ASSUME NEW s \in Seq(Comment), NEW c \in Comment
  PROVE  /\ Created(s, c) \in Seq(Comment)
         /\ \E o : From(s, Created(s, c), c, Len(s) + 1, o)
  <1>1. PICK n \in Nat : n = Len(s) /\ DOMAIN s = 1..n
    BY LenProperties
  <1>2. CASE platform = "github"
    <2>1. PICK t : t = Append(s, c)
      OBVIOUS
    <2>2. /\ t \in Seq(Comment) /\ DOMAIN t = 1..(n + 1)
          /\ \A k \in 1..(n + 1) : t[k] = IF k <= n THEN s[k] ELSE c
      BY <1>1, <2>1
    <2>3. PICK o : o = [k \in 1..(n + 1) |-> IF k <= n THEN k ELSE 0]
      OBVIOUS
    <2>4. From(s, t, c, n + 1, o)
      <3>1. o \in [DOMAIN t -> DOMAIN s \cup {0}]
        BY <1>1, <2>2, <2>3
      <3>2. \A k \in DOMAIN t : t[k] = IF o[k] = 0 THEN c ELSE s[o[k]]
        BY <1>1, <2>2, <2>3
      <3>3. \A k, l \in DOMAIN t : o[k] = o[l] => k = l
        BY <1>1, <2>2, <2>3
      <3>4. \A k \in DOMAIN t : o[k] # n + 1
        BY <1>1, <2>2, <2>3
      <3>5. ASSUME NEW i \in DOMAIN s PROVE \E k \in DOMAIN t : o[k] = i
        <4>1. i \in DOMAIN t /\ o[i] = i
          BY <1>1, <2>2, <2>3
        <4> QED BY <4>1
      <3>6. n + 1 \in DOMAIN t /\ o[n + 1] = 0
        BY <1>1, <2>2, <2>3
      <3> QED BY <3>1, <3>2, <3>3, <3>4, <3>5, <3>6 DEF From
    <2> QED BY <1>1, <1>2, <2>1, <2>2, <2>4 DEF Created
  <1>3. CASE platform # "github"
    <2>1. PICK t : t = <<c>> \o s
      OBVIOUS
    <2>2. /\ t \in Seq(Comment) /\ DOMAIN t = 1..(n + 1)
          /\ \A k \in 1..(n + 1) : t[k] = IF k = 1 THEN c ELSE s[k - 1]
      <3>1. <<c>> \in Seq(Comment) /\ Len(<<c>>) = 1 /\ <<c>>[1] = c
        OBVIOUS
      <3>2. /\ t \in Seq(Comment) /\ Len(t) = 1 + n
            /\ \A k \in 1..(1 + n) : t[k] = IF k <= 1 THEN <<c>>[k] ELSE s[k - 1]
        BY <1>1, <2>1, <3>1, ConcatProperties
      <3> QED BY <1>1, <3>1, <3>2, LenProperties
    <2>3. PICK o : o = [k \in 1..(n + 1) |-> k - 1]
      OBVIOUS
    <2>4. From(s, t, c, n + 1, o)
      <3>1. o \in [DOMAIN t -> DOMAIN s \cup {0}]
        BY <1>1, <2>2, <2>3
      <3>2. \A k \in DOMAIN t : t[k] = IF o[k] = 0 THEN c ELSE s[o[k]]
        BY <1>1, <2>2, <2>3
      <3>3. \A k, l \in DOMAIN t : o[k] = o[l] => k = l
        BY <1>1, <2>2, <2>3
      <3>4. \A k \in DOMAIN t : o[k] # n + 1
        BY <1>1, <2>2, <2>3
      <3>5. ASSUME NEW i \in DOMAIN s PROVE \E k \in DOMAIN t : o[k] = i
        <4>1. i + 1 \in DOMAIN t /\ o[i + 1] = i
          BY <1>1, <2>2, <2>3
        <4> QED BY <4>1
      <3>6. 1 \in DOMAIN t /\ o[1] = 0
        BY <1>1, <2>2, <2>3
      <3> QED BY <3>1, <3>2, <3>3, <3>4, <3>5, <3>6 DEF From
    <2> QED BY <1>1, <1>3, <2>1, <2>2, <2>4 DEF Created
  <1> QED BY <1>2, <1>3

LEMMA EditedFrom ==
  ASSUME NEW s \in Seq(Comment), Distinct(s), NEW at \in DOMAIN s, NEW j \in Poster,
         NEW new, new = [id |-> s[at].id, shows |-> j]
  PROVE  /\ new \in Comment /\ Edited(s, s[at].id, j) \in Seq(Comment)
         /\ \E o : From(s, Edited(s, s[at].id, j), new, at, o)
  <1>1. PICK n \in Nat : n = Len(s) /\ DOMAIN s = 1..n /\ s \in [1..n -> Comment]
    BY LenProperties
  <1>2. at \in 1..n /\ s[at].id \in Nat \ {0}
    BY <1>1 DEF Comment
  <1>3. new \in Comment
    BY <1>2 DEF Comment
  <1>4. (CHOOSE i \in DOMAIN s : s[i].id = s[at].id) = at
    BY DEF Distinct
  <1>5. CASE platform = "github"
    <2>1. PICK t : t = [s EXCEPT ![at] = new]
      OBVIOUS
    <2>2. t = Edited(s, s[at].id, j)
      BY <1>4, <1>5, <2>1 DEF Edited
    <2>3. /\ t \in Seq(Comment) /\ DOMAIN t = 1..n
          /\ \A k \in 1..n : t[k] = IF k = at THEN new ELSE s[k]
      BY <1>1, <1>2, <1>3, <2>1
    <2>4. PICK o : o = [k \in 1..n |-> IF k = at THEN 0 ELSE k]
      OBVIOUS
    <2>5. From(s, t, new, at, o)
      <3>1. o \in [DOMAIN t -> DOMAIN s \cup {0}]
        BY <1>1, <2>3, <2>4
      <3>2. \A k \in DOMAIN t : t[k] = IF o[k] = 0 THEN new ELSE s[o[k]]
        BY <1>1, <2>3, <2>4
      <3>3. \A k, l \in DOMAIN t : o[k] = o[l] => k = l
        BY <1>1, <2>3, <2>4
      <3>4. \A k \in DOMAIN t : o[k] # at
        BY <1>1, <1>2, <2>3, <2>4
      <3>5. ASSUME NEW i \in DOMAIN s, i # at PROVE \E k \in DOMAIN t : o[k] = i
        <4>1. i \in DOMAIN t /\ o[i] = i
          BY <1>1, <2>3, <2>4, <3>5
        <4> QED BY <4>1
      <3>6. at \in DOMAIN t /\ o[at] = 0
        BY <1>1, <1>2, <2>3, <2>4
      <3> QED BY <3>1, <3>2, <3>3, <3>4, <3>5, <3>6 DEF From
    <2> QED BY <1>3, <2>2, <2>3, <2>5
  <1>6. CASE platform # "github"
    <2>1. PICK t : t = [k \in 1..n |-> IF k = 1 THEN new ELSE IF k <= at THEN s[k - 1] ELSE s[k]]
      OBVIOUS
    <2>2. t = Edited(s, s[at].id, j)
      BY <1>1, <1>4, <1>6, <2>1 DEF Edited
    <2>3. /\ DOMAIN t = 1..n
          /\ \A k \in 1..n :
               t[k] = IF k = 1 THEN new ELSE IF k <= at THEN s[k - 1] ELSE s[k]
      BY <2>1
    <2>4. t \in [1..n -> Comment]
      <3>1. \A k \in 1..n : k # 1 => k - 1 \in 1..n
        BY <1>1
      <3>2. \A k \in 1..n : t[k] \in Comment
        BY <1>1, <1>3, <2>3, <3>1
      <3> QED BY <2>1, <3>2
    <2>5. t \in Seq(Comment)
      BY <1>1, <2>4
    <2>6. PICK o : o = [k \in 1..n |-> IF k = 1 THEN 0 ELSE IF k <= at THEN k - 1 ELSE k]
      OBVIOUS
    <2>7. From(s, t, new, at, o)
      <3>1. o \in [DOMAIN t -> DOMAIN s \cup {0}]
        BY <1>1, <1>2, <2>3, <2>6
      <3>2. \A k \in DOMAIN t : t[k] = IF o[k] = 0 THEN new ELSE s[o[k]]
        BY <1>1, <1>2, <2>3, <2>6
      <3>3. \A k, l \in DOMAIN t : o[k] = o[l] => k = l
        BY <1>1, <1>2, <2>3, <2>6
      <3>4. \A k \in DOMAIN t : o[k] # at
        BY <1>1, <1>2, <2>3, <2>6
      <3>5. ASSUME NEW i \in DOMAIN s, i # at PROVE \E k \in DOMAIN t : o[k] = i
        <4>1. CASE i < at
          <5>1. i + 1 \in DOMAIN t /\ o[i + 1] = i
            BY <1>1, <1>2, <2>3, <2>6, <4>1
          <5> QED BY <5>1
        <4>2. CASE i > at
          <5>1. i \in DOMAIN t /\ o[i] = i
            BY <1>1, <1>2, <2>3, <2>6, <4>2
          <5> QED BY <5>1
        <4> QED BY <1>1, <1>2, <3>5, <4>1, <4>2
      <3>6. 1 \in DOMAIN t /\ o[1] = 0
        BY <1>1, <1>2, <2>3, <2>6
      <3> QED BY <3>1, <3>2, <3>3, <3>4, <3>5, <3>6 DEF From
    <2> QED BY <1>3, <2>2, <2>5, <2>7
  <1> QED BY <1>5, <1>6

\* What that means for the comments: only the new one is new, only the one left
\* behind is lost, and the ids stay distinct.
LEMMA FromSpreads ==
  ASSUME NEW s, NEW t, NEW new, NEW gone, NEW o, From(s, t, new, gone, o),
         0 \notin DOMAIN s, Distinct(s), \A i \in DOMAIN s : s[i].id = new.id => i = gone
  PROVE  /\ Distinct(t)
         /\ \A k \in DOMAIN t : t[k] = new \/ \E i \in DOMAIN s : i # gone /\ t[k] = s[i]
         /\ \A i \in DOMAIN s : i # gone => \E k \in DOMAIN t : t[k] = s[i]
         /\ \E k \in DOMAIN t : t[k] = new
  <1>1. \A k \in DOMAIN t :
          \/ o[k] = 0 /\ t[k] = new
          \/ o[k] \in DOMAIN s /\ o[k] # gone /\ o[k] # 0 /\ t[k] = s[o[k]]
    BY DEF From
  <1>2. ASSUME NEW k \in DOMAIN t, NEW l \in DOMAIN t, t[k].id = t[l].id PROVE k = l
    <2>1. o[k] = o[l]
      BY <1>1, <1>2 DEF Distinct
    <2> QED BY <2>1 DEF From
  <1>3. \A i \in DOMAIN s : i # gone => \E k \in DOMAIN t : t[k] = s[i]
    BY <1>1 DEF From
  <1>4. \E k \in DOMAIN t : t[k] = new
    BY DEF From
  <1> QED BY <1>1, <1>2, <1>3, <1>4 DEF Distinct
\* A place of the thread with a summary.
Summary(i) == i \in DOMAIN thread /\ thread[i].shows # NoPoster

\* A job that will edit has found a summary, which stays one; and as long as
\* nothing excuses a twin, one job works at a time, there is one summary, and a
\* job that will create one has seen that there is none.
TargetsStand ==
  \A j \in Poster :
    poster[j].stage = "write" /\ poster[j].target # 0 =>
      \E i \in DOMAIN thread : thread[i].id = poster[j].target /\ Summary(i)

Single ==
  /\ \A i, k \in DOMAIN thread : Summary(i) /\ Summary(k) => i = k
  /\ \A i \in DOMAIN thread : Summary(i) => thread[i].shows = written
  /\ \A j, k \in Poster : Working(j) /\ Working(k) => j = k
  /\ \A j \in Poster :
       poster[j].stage = "write" /\ poster[j].target = 0 =>
         \A i \in DOMAIN thread : ~Summary(i)

PrInv ==
  /\ PrTypeOK
  /\ Distinct(thread)
  /\ \A i \in DOMAIN thread : thread[i].id <= made
  /\ TargetsStand
  /\ calmThread => Single

LEMMA ThreadFacts ==
  ASSUME PrInv
  PROVE  /\ thread \in Seq(Comment) /\ made \in Nat
         /\ DOMAIN thread = 1..Len(thread) /\ Len(thread) \in Nat /\ 0 \notin DOMAIN thread
         /\ \A i \in DOMAIN thread :
              /\ thread[i] \in Comment /\ thread[i].id \in Nat \ {0}
              /\ thread[i].shows \in Poster \cup {NoPoster}
  <1>1. thread \in Seq(Comment) /\ made \in Nat
    BY DEF PrInv, PrTypeOK
  <1>2. PICK n \in Nat : n = Len(thread) /\ DOMAIN thread = 1..n
    BY <1>1, LenProperties
  <1>3. \A i \in DOMAIN thread : thread[i] \in Comment
    BY <1>1, LenProperties
  <1>4. \A c \in Comment : c.id \in Nat \ {0} /\ c.shows \in Poster \cup {NoPoster}
    BY DEF Comment
  <1>5. 0 \notin DOMAIN thread
    BY <1>2
  <1> QED BY <1>1, <1>2, <1>3, <1>4, <1>5

\* Where an attempt leaves a job, for each verdict.
LEMMA AfterCases ==
  ASSUME PrInv, NEW j \in Poster, NEW reply \in Reply, NEW next \in Posters, NEW after,
         after = After(j, Verdict(platform, reply, poster[j].attempt), next)
  PROVE  /\ after \in Posters
         /\ \/ Verdict(platform, reply, poster[j].attempt) = "answered" /\ after = next
            \/ /\ Verdict(platform, reply, poster[j].attempt) = "again"
               /\ after.stage = poster[j].stage /\ after.target = poster[j].target
            \/ /\ Verdict(platform, reply, poster[j].attempt) \in {"failed", "crashed"}
               /\ after.stage \in {"failed", "crashed"}
  <1>1. PICK st \in Stage, at \in 1..MaxAttempts, ta \in Nat :
           /\ poster[j] = [stage |-> st, attempt |-> at, target |-> ta]
           /\ poster[j].stage = st /\ poster[j].attempt = at /\ poster[j].target = ta
    BY DEF PrInv, PrTypeOK, Posters
  <1>2. PICK v : v = Verdict(platform, reply, at)
    OBVIOUS
  <1>3. /\ v \in {"answered", "again", "failed", "crashed"}
        /\ v = "again" => at < MaxAttempts
    BY <1>2 DEF Verdict
  <1>4. after = CASE v = "answered" -> next
                  [] v = "again"    -> [poster[j] EXCEPT !.attempt = @ + 1]
                  [] v = "failed"   -> [poster[j] EXCEPT !.stage = "failed"]
                  [] v = "crashed"  -> [poster[j] EXCEPT !.stage = "crashed"]
    BY <1>1, <1>2 DEF After
  <1>5. CASE v = "answered"
    BY <1>1, <1>2, <1>4, <1>5
  <1>6. CASE v = "again"
    <2>1. PICK more \in 1..MaxAttempts : more = at + 1
      BY <1>3, <1>6, MaxAttemptsIsPositive
    <2>2. after = [stage |-> st, attempt |-> more, target |-> ta]
      BY <1>1, <1>4, <1>6, <2>1
    <2>3. after \in Posters /\ after.stage = st /\ after.target = ta
      BY <2>2 DEF Posters
    <2> QED BY <1>1, <1>2, <1>6, <2>3
  <1>7. CASE v \in {"failed", "crashed"}
    <2>1. after = [stage |-> v, attempt |-> at, target |-> ta]
      BY <1>1, <1>4, <1>7
    <2>2. after \in Posters /\ after.stage = v
      BY <1>7, <2>1 DEF Posters, Stage
    <2> QED BY <1>1, <1>2, <1>7, <2>2
  <1> QED BY <1>3, <1>5, <1>6, <1>7

\* The steps that leave the thread alone.
LEMMA StartPosterKeeps ==
  ASSUME PrInv, NEW j \in Poster, NEW readable \in BOOLEAN, StartPoster(j, readable)
  PROVE  PrInv'
  <1>1. PICK stage \in {"find", "failed"} : stage = IF readable THEN "find" ELSE "failed"
    OBVIOUS
  <1>2. PICK at \in 1..MaxAttempts, ta \in Nat :
          poster[j] = [stage |-> "waiting", attempt |-> at, target |-> ta]
    BY DEF PrInv, PrTypeOK, Posters, StartPoster
  <1>3. PICK p \in Posters : p = [stage |-> stage, attempt |-> at, target |-> ta]
    BY DEF Posters, Stage
  <1>4. poster' = [poster EXCEPT ![j] = p] /\ poster \in [Poster -> Posters]
    <2>1. poster' = [poster EXCEPT ![j].stage = stage]
      BY <1>1 DEF StartPoster
    <2>2. [poster[j] EXCEPT !.stage = stage] = p
      BY <1>2, <1>3
    <2> QED BY <2>1, <2>2 DEF PrInv, PrTypeOK
  <1>5. /\ poster' \in [Poster -> Posters]
        /\ \A k \in Poster : poster'[k] = IF k = j THEN p ELSE poster[k]
    BY <1>4
  <1>6. UNCHANGED <<platform, thread, made, written>> /\ calmThread' \in BOOLEAN
    BY DEF StartPoster, PrInv, PrTypeOK
  <1>7. p.stage = stage
    BY <1>3
  <1>8. TargetsStand'
    BY <1>5, <1>6, <1>7 DEF PrInv, TargetsStand, Summary
  <1>9. calmThread' => Single'
    <2> SUFFICES ASSUME calmThread' PROVE Single'
      OBVIOUS
    <2>1. calmThread /\ ~(readable /\ \E k \in Poster : Working(k))
      BY DEF StartPoster
    <2>2. Single
      BY <2>1 DEF PrInv
    <2>3. \A k, l \in Poster : Working(k)' /\ Working(l)' => k = l
      BY <1>1, <1>5, <1>7, <2>1, <2>2 DEF Working, Single
    <2> QED BY <1>5, <1>6, <1>7, <2>2, <2>3 DEF Single, Summary
  <1> QED BY <1>5, <1>6, <1>8, <1>9 DEF PrInv, PrTypeOK

\* What the listing says: the id of a summary, or, unless they are hidden, that
\* there is none.
LEMMA ExistingFacts ==
  ASSUME PrInv
  PROVE  /\ Existing \in Nat
         /\ Existing # 0 => \E i \in DOMAIN thread : thread[i].id = Existing /\ Summary(i)
         /\ Existing = 0 /\ ~Hidden => \A i \in DOMAIN thread : ~Summary(i)
  <1>1. PICK n \in Nat : n = IF Len(thread) < PageSize THEN Len(thread) ELSE PageSize
    BY ThreadFacts, PageSizeIsPositive
  <1>2. n <= Len(thread) /\ 1..n \subseteq DOMAIN thread
    <2>1. PICK m \in Nat : m = Len(thread) /\ DOMAIN thread = 1..m
      BY ThreadFacts
    <2>2. n <= m
      BY <1>1, <2>1, PageSizeIsPositive
    <2> QED BY <2>1, <2>2
  <1>3. PICK page : page = FirstPage
    OBVIOUS
  <1>4. page \in Seq(Comment) /\ DOMAIN page = 1..n /\ \A i \in 1..n : page[i] = thread[i]
    <2>1. page = SubSeq(thread, 1, n)
      BY <1>1, <1>3 DEF FirstPage
    <2>2. \A i \in 1..n : thread[i] \in Comment
      BY <1>2, ThreadFacts
    <2>3. /\ page \in Seq(Comment) /\ Len(page) = IF 1 <= n THEN n - 1 + 1 ELSE 0
          /\ \A i \in 1..(n - 1 + 1) : page[i] = thread[1 + i - 1]
      BY <2>1, <2>2, SubSeqProperties
    <2>4. Len(page) = n /\ n - 1 + 1 = n
      BY <2>3
    <2> QED BY <2>3, <2>4, LenProperties
  <1>5. PICK hits \in SUBSET (1..n) : hits = {i \in DOMAIN page : page[i].shows # NoPoster}
    BY <1>4
  <1>6. Existing = IF hits = {} THEN 0
                   ELSE page[CHOOSE i \in hits : \A k \in hits : i <= k].id
    BY <1>3, <1>5 DEF Existing
  <1>7. CASE hits = {}
    <2>1. Existing = 0
      BY <1>6, <1>7
    <2>2. ASSUME ~Hidden, NEW i \in DOMAIN thread, Summary(i) PROVE FALSE
      <3>1. thread[i] \in Anchored
        BY <2>2 DEF Anchored, Summary, Range
      <3>2. PICK c \in Anchored : c \in Range(page)
        BY <1>3, <2>2, <3>1 DEF Hidden
      <3>3. PICK k \in DOMAIN page : page[k] = c
        BY <3>2 DEF Range
      <3>4. c.shows # NoPoster
        BY DEF Anchored
      <3> QED BY <1>5, <1>7, <3>3, <3>4
    <2> QED BY <2>1, <2>2
  <1>8. CASE hits # {}
    <2>1. hits \in SUBSET Nat /\ \A i \in hits : i <= n
      OBVIOUS
    <2>2. Min(hits) \in hits
      <3>1. IsFiniteSet(hits)
        BY <2>1, FS_BoundedSetOfNaturals
      <3> QED BY <1>8, <2>1, <3>1, LeastOf
    <2>3. PICK h \in hits : h = Min(hits)
      BY <2>2
    <2>4. Existing = page[h].id
      BY <1>6, <1>8, <2>3 DEF Min
    <2>5. h \in 1..n /\ h \in DOMAIN thread /\ page[h] = thread[h] /\ page[h].shows # NoPoster
      BY <1>2, <1>4, <1>5
    <2>6. Existing = thread[h].id /\ Summary(h) /\ thread[h].id \in Nat \ {0}
      BY <2>4, <2>5, ThreadFacts DEF Summary
    <2> QED BY <2>5, <2>6
  <1> QED BY <1>7, <1>8

LEMMA ListKeeps ==
  ASSUME PrInv, NEW j \in Poster, NEW reply \in Reply, ListThread(j, reply)
  PROVE  PrInv'
  <1>1. PICK one \in 1..MaxAttempts, id \in Nat : one = 1 /\ id = Existing
    BY ExistingFacts, MaxAttemptsIsPositive
  <1>2. PICK next \in Posters : next = [stage |-> "write", attempt |-> one, target |-> id]
    BY DEF Posters, Stage
  <1>3. PICK v : v = Verdict(platform, reply, poster[j].attempt)
    OBVIOUS
  <1>4. PICK after : after = After(j, v, next)
    OBVIOUS
  <1>5. /\ poster[j].stage = "find"
        /\ poster' = [poster EXCEPT ![j] = after]
        /\ calmThread' = (calmThread /\ ~(v = "answered" /\ Hidden))
        /\ UNCHANGED <<platform, thread, made, written>>
    BY <1>1, <1>2, <1>3, <1>4 DEF ListThread
  <1>6. /\ after \in Posters
        /\ \/ v = "answered" /\ after.stage = "write" /\ after.target = id
           \/ v = "again" /\ after.stage = "find"
           \/ after.stage \in {"failed", "crashed"}
    <2>1. next.stage = "write" /\ next.target = id
      BY <1>2
    <2> QED BY <1>3, <1>4, <1>5, <2>1, AfterCases
  <1>7. /\ poster' \in [Poster -> Posters]
        /\ \A k \in Poster : poster'[k] = IF k = j THEN after ELSE poster[k]
    BY <1>5, <1>6 DEF PrInv, PrTypeOK
  <1>8. TargetsStand'
    BY <1>1, <1>5, <1>6, <1>7, ExistingFacts DEF PrInv, TargetsStand, Summary
  <1>9. calmThread' => Single'
    <2> SUFFICES ASSUME calmThread' PROVE Single'
      OBVIOUS
    <2>1. Single /\ ~(v = "answered" /\ Hidden)
      BY <1>5 DEF PrInv
    <2>2. \A k, l \in Poster : Working(k)' /\ Working(l)' => k = l
      BY <1>5, <1>6, <1>7, <2>1 DEF Working, Single
    <2>3. \A k \in Poster :
            poster'[k].stage = "write" /\ poster'[k].target = 0 =>
              \A i \in DOMAIN thread : ~Summary(i)
      BY <1>1, <1>6, <1>7, <2>1, ExistingFacts DEF Single
    <2> QED BY <1>5, <2>1, <2>2, <2>3 DEF Single, Summary
  <1>10. calmThread' \in BOOLEAN
    BY <1>5 DEF PrInv, PrTypeOK
  <1> QED BY <1>5, <1>7, <1>8, <1>9, <1>10 DEF PrInv, PrTypeOK

\* Somebody else's comment: no summary more.
LEMMA ForeignKeeps == ASSUME PrInv, Foreign PROVE PrInv'
  <1>1. PICK id \in Nat \ {0} : id = made + 1
    BY ThreadFacts
  <1>2. PICK new \in Comment : new = [id |-> id, shows |-> NoPoster]
    BY DEF Comment
  <1>3. PICK t : t = Created(thread, new)
    OBVIOUS
  <1>4. /\ thread' = t /\ made' = id
        /\ UNCHANGED <<platform, poster, written, calmThread>>
    BY <1>1, <1>2, <1>3 DEF Foreign
  <1>5. PICK gone, o :
          /\ gone \in Nat /\ gone = Len(thread) + 1
          /\ t \in Seq(Comment) /\ From(thread, t, new, gone, o)
    <2>1. PICK o : t \in Seq(Comment) /\ From(thread, t, new, Len(thread) + 1, o)
      BY <1>3, CreatedFrom, ThreadFacts
    <2>2. Len(thread) + 1 \in Nat
      BY ThreadFacts
    <2> QED BY <2>1, <2>2
  <1>6. new.id = id /\ new.shows = NoPoster
    BY <1>2
  <1>7. \A i \in DOMAIN thread : i # gone /\ thread[i].id # new.id
    <2> TAKE i \in DOMAIN thread
    <2>1. thread[i].id <= made /\ thread[i].id \in Nat /\ made \in Nat
      BY ThreadFacts DEF PrInv
    <2> QED BY <1>1, <1>5, <1>6, <2>1, ThreadFacts
  <1>8. /\ Distinct(t)
        /\ \A k \in DOMAIN t : t[k] = new \/ \E i \in DOMAIN thread : t[k] = thread[i]
        /\ \A i \in DOMAIN thread : \E k \in DOMAIN t : t[k] = thread[i]
    BY <1>5, <1>7, FromSpreads, ThreadFacts DEF PrInv
  <1>9. \A k \in DOMAIN t :
          t[k].shows # NoPoster => \E i \in DOMAIN thread : t[k] = thread[i] /\ Summary(i)
    BY <1>6, <1>8 DEF Summary
  <1>10. \A k \in DOMAIN t : t[k].id <= id
    <2> TAKE k \in DOMAIN t
    <2>1. CASE t[k] = new
      BY <1>6, <2>1
    <2>2. ASSUME NEW i \in DOMAIN thread, t[k] = thread[i] PROVE t[k].id <= id
      <3>1. thread[i].id <= made /\ thread[i].id \in Nat /\ made \in Nat
        BY ThreadFacts DEF PrInv
      <3> QED BY <1>1, <2>2, <3>1
    <2> QED BY <1>8, <2>1, <2>2
  <1>11. TargetsStand'
    <2> SUFFICES ASSUME NEW j \in Poster, poster[j].stage = "write", poster[j].target # 0
                 PROVE  \E k \in DOMAIN t : t[k].id = poster[j].target /\ t[k].shows # NoPoster
      BY <1>4 DEF TargetsStand, Summary
    <2>1. PICK i \in DOMAIN thread :
            thread[i].id = poster[j].target /\ thread[i].shows # NoPoster
      BY DEF PrInv, TargetsStand, Summary
    <2> QED BY <1>8, <2>1
  <1>12. calmThread' => Single'
    <2> SUFFICES ASSUME calmThread' PROVE Single'
      OBVIOUS
    <2>1. Single
      BY <1>4 DEF PrInv
    <2>2. ASSUME NEW k \in DOMAIN t, NEW l \in DOMAIN t, t[k].shows # NoPoster,
                 t[l].shows # NoPoster
          PROVE  k = l
      <3>1. t[k] = t[l]
        BY <1>9, <2>1, <2>2 DEF Single
      <3> QED BY <1>8, <3>1 DEF Distinct
    <2>3. \A k \in DOMAIN t : t[k].shows # NoPoster => t[k].shows = written
      BY <1>9, <2>1 DEF Single
    <2>4. \A j \in Poster :
            poster[j].stage = "write" /\ poster[j].target = 0 =>
              \A k \in DOMAIN t : t[k].shows = NoPoster
      BY <1>9, <2>1 DEF Single
    <2>5. \A k, l \in Poster : Working(k)' /\ Working(l)' => k = l
      BY <1>4, <2>1 DEF Single, Working
    <2> QED BY <1>4, <2>2, <2>3, <2>4, <2>5 DEF Single, Summary
  <1>13. PrTypeOK'
    BY <1>1, <1>4, <1>5 DEF PrInv, PrTypeOK
  <1> QED BY <1>4, <1>8, <1>10, <1>11, <1>12, <1>13 DEF PrInv
\* A job whose write was answered has posted.
LEMMA Posted ==
  ASSUME PrInv, NEW j \in Poster
  PROVE  \E next \in Posters :
           next = [poster[j] EXCEPT !.stage = "posted"] /\ next.stage = "posted"
  <1>1. PICK st \in Stage, at \in 1..MaxAttempts, ta \in Nat :
          poster[j] = [stage |-> st, attempt |-> at, target |-> ta]
    BY DEF PrInv, PrTypeOK, Posters
  <1>2. PICK stage \in Stage : stage = "posted"
    BY DEF Stage
  <1>3. PICK next \in Posters : next = [stage |-> stage, attempt |-> at, target |-> ta]
    BY DEF Posters
  <1>4. next = [poster[j] EXCEPT !.stage = "posted"]
    BY <1>1, <1>2, <1>3
  <1>5. next.stage = "posted"
    BY <1>2, <1>3
  <1> QED BY <1>4, <1>5

\* A write that creates: a job that found no summary.
LEMMA CreateKeeps ==
  ASSUME PrInv, NEW j \in Poster, NEW reply \in Reply, WriteComment(j, reply),
         poster[j].target = 0, Applied(reply)
  PROVE  PrInv'
  <1>1. PICK v : v = Verdict(platform, reply, poster[j].attempt)
    OBVIOUS
  <1>2. PICK next \in Posters :
          next = [poster[j] EXCEPT !.stage = "posted"] /\ next.stage = "posted"
    BY Posted
  <1>3. PICK after : after = After(j, v, next)
    OBVIOUS
  <1>4. PICK id \in Nat \ {0} : id = made + 1
    BY ThreadFacts
  <1>5. PICK new \in Comment : new = [id |-> id, shows |-> j]
    BY DEF Comment
  <1>6. new.id = id /\ new.shows = j /\ j # NoPoster
    BY <1>5, NoPosterIsNone
  <1>7. PICK t : t = Created(thread, new)
    OBVIOUS
  <1>8. /\ poster[j].stage = "write"
        /\ poster' = [poster EXCEPT ![j] = after]
        /\ thread' = t /\ written' = j /\ made' = id /\ platform' = platform
        /\ calmThread' = (calmThread /\ ~(v = "again"))
    BY <1>1, <1>2, <1>3, <1>4, <1>5, <1>7 DEF WriteComment
  <1>9. /\ after \in Posters
        /\ v = "again" \/ after.stage \in {"posted", "failed", "crashed"}
        /\ after.stage = "write" => after.target = 0
    <2>1. next.stage = "posted"
      BY <1>2
    <2>2. after = After(j, Verdict(platform, reply, poster[j].attempt), next)
      BY <1>1, <1>3
    <2>3. /\ after \in Posters
          /\ \/ v = "answered" /\ after = next
             \/ v = "again" /\ after.stage = poster[j].stage /\ after.target = poster[j].target
             \/ v \in {"failed", "crashed"} /\ after.stage \in {"failed", "crashed"}
      BY <1>1, <2>2, AfterCases
    <2> QED BY <1>8, <2>1, <2>3
  <1>10. /\ poster' \in [Poster -> Posters]
         /\ \A k \in Poster : poster'[k] = IF k = j THEN after ELSE poster[k]
    BY <1>8, <1>9 DEF PrInv, PrTypeOK
  <1>11. PICK gone, o :
           /\ gone \in Nat /\ gone = Len(thread) + 1
          /\ t \in Seq(Comment) /\ From(thread, t, new, gone, o)
    <2>1. PICK o : t \in Seq(Comment) /\ From(thread, t, new, Len(thread) + 1, o)
      BY <1>7, CreatedFrom, ThreadFacts
    <2>2. Len(thread) + 1 \in Nat
      BY ThreadFacts
    <2> QED BY <2>1, <2>2
  <1>12. \A i \in DOMAIN thread : i # gone /\ thread[i].id # new.id
    <2> TAKE i \in DOMAIN thread
    <2>1. thread[i].id <= made /\ thread[i].id \in Nat /\ made \in Nat
      BY ThreadFacts DEF PrInv
    <2> QED BY <1>4, <1>6, <1>11, <2>1, ThreadFacts
  <1>13. /\ Distinct(t)
         /\ \A k \in DOMAIN t : t[k] = new \/ \E i \in DOMAIN thread : t[k] = thread[i]
         /\ \A i \in DOMAIN thread : \E k \in DOMAIN t : t[k] = thread[i]
    BY <1>11, <1>12, FromSpreads, ThreadFacts DEF PrInv
  <1>14. \A k \in DOMAIN t : t[k].id <= id
    <2> TAKE k \in DOMAIN t
    <2>1. CASE t[k] = new
      BY <1>6, <2>1
    <2>2. ASSUME NEW i \in DOMAIN thread, t[k] = thread[i] PROVE t[k].id <= id
      <3>1. thread[i].id <= made /\ thread[i].id \in Nat /\ made \in Nat
        BY ThreadFacts DEF PrInv
      <3> QED BY <1>4, <2>2, <3>1
    <2> QED BY <1>13, <2>1, <2>2
  <1>15. TargetsStand'
    <2> SUFFICES ASSUME NEW k \in Poster, poster'[k].stage = "write", poster'[k].target # 0
                 PROVE  \E i \in DOMAIN t : t[i].id = poster'[k].target /\ t[i].shows # NoPoster
      BY <1>8 DEF TargetsStand, Summary
    <2>1. k # j
      BY <1>9, <1>10
    <2>2. poster'[k] = poster[k]
      BY <1>10, <2>1
    <2>3. PICK i \in DOMAIN thread :
            thread[i].id = poster[k].target /\ thread[i].shows # NoPoster
      BY <2>2 DEF PrInv, TargetsStand, Summary
    <2> QED BY <1>13, <2>2, <2>3
  <1>16. calmThread' => Single'
    <2> SUFFICES ASSUME calmThread' PROVE Single'
      OBVIOUS
    <2>1. Single /\ v # "again"
      BY <1>8 DEF PrInv
    <2>2. \A i \in DOMAIN thread : thread[i].shows = NoPoster
      BY <1>8, <2>1 DEF Single, Summary
    <2>3. \A k \in DOMAIN t : t[k].shows # NoPoster => t[k] = new
      BY <1>13, <2>2
    <2>4. \A k, l \in DOMAIN t : t[k].shows # NoPoster /\ t[l].shows # NoPoster => k = l
      BY <1>13, <2>3 DEF Distinct
    <2>5. \A k \in DOMAIN t : t[k].shows # NoPoster => t[k].shows = j
      BY <1>6, <2>3
    <2>6. \A k \in Poster : ~(Working(k)')
      <3> SUFFICES ASSUME NEW k \in Poster, Working(k)' PROVE FALSE
        OBVIOUS
      <3>1. poster'[k].stage \in {"find", "write"}
        BY DEF Working
      <3>2. k # j
        BY <1>9, <1>10, <2>1, <3>1
      <3>3. poster[k].stage \in {"find", "write"}
        BY <1>10, <3>1, <3>2
      <3>4. Working(k) /\ Working(j)
        BY <1>8, <3>3 DEF Working
      <3> QED BY <2>1, <3>2, <3>4 DEF Single
    <2> QED BY <1>8, <2>4, <2>5, <2>6 DEF Single, Summary, Working
  <1>17. PrTypeOK'
    BY <1>4, <1>8, <1>10, <1>11 DEF PrInv, PrTypeOK
  <1> QED BY <1>8, <1>13, <1>14, <1>15, <1>16, <1>17 DEF PrInv

\* A write that edits: the summary found becomes this job's.
LEMMA EditSummaryKeeps ==
  ASSUME PrInv, NEW j \in Poster, NEW reply \in Reply, WriteComment(j, reply),
         poster[j].target # 0, Applied(reply)
  PROVE  PrInv'
  <1>1. PICK v : v = Verdict(platform, reply, poster[j].attempt)
    OBVIOUS
  <1>2. PICK next \in Posters :
          next = [poster[j] EXCEPT !.stage = "posted"] /\ next.stage = "posted"
    BY Posted
  <1>3. PICK after : after = After(j, v, next)
    OBVIOUS
  <1>4. poster[j].stage = "write"
    BY DEF WriteComment
  <1>5. PICK at \in DOMAIN thread : thread[at].id = poster[j].target /\ Summary(at)
    BY <1>4 DEF PrInv, TargetsStand
  <1>6. PICK new : new = [id |-> thread[at].id, shows |-> j]
    OBVIOUS
  <1>7. PICK t : t = Edited(thread, thread[at].id, j)
    OBVIOUS
  <1>8. /\ poster' = [poster EXCEPT ![j] = after]
        /\ thread' = t /\ written' = j /\ made' = made /\ platform' = platform
        /\ calmThread' = calmThread
    BY <1>1, <1>2, <1>3, <1>5, <1>7 DEF WriteComment, PrInv, PrTypeOK
  <1>9. /\ after \in Posters
        /\ \/ after.stage = "write" /\ after.target = poster[j].target
           \/ after.stage \in {"posted", "failed", "crashed"}
    <2>1. next.stage = "posted"
      BY <1>2
    <2>2. after = After(j, Verdict(platform, reply, poster[j].attempt), next)
      BY <1>1, <1>3
    <2>3. /\ after \in Posters
          /\ \/ v = "answered" /\ after = next
             \/ v = "again" /\ after.stage = poster[j].stage /\ after.target = poster[j].target
             \/ v \in {"failed", "crashed"} /\ after.stage \in {"failed", "crashed"}
      BY <1>1, <2>2, AfterCases
    <2> QED BY <1>4, <2>1, <2>3
  <1>10. /\ poster' \in [Poster -> Posters]
         /\ \A k \in Poster : poster'[k] = IF k = j THEN after ELSE poster[k]
    BY <1>8, <1>9 DEF PrInv, PrTypeOK
  <1>11. /\ new \in Comment /\ t \in Seq(Comment)
         /\ \E o : From(thread, t, new, at, o)
    BY <1>6, <1>7, EditedFrom, ThreadFacts DEF PrInv
  <1>12. new.id = thread[at].id /\ new.shows = j /\ j # NoPoster
    BY <1>6, NoPosterIsNone
  <1>13. \A i \in DOMAIN thread : thread[i].id = new.id => i = at
    BY <1>12 DEF PrInv, Distinct
  <1>14. /\ Distinct(t)
         /\ \A k \in DOMAIN t :
              t[k] = new \/ \E i \in DOMAIN thread : i # at /\ t[k] = thread[i]
         /\ \A i \in DOMAIN thread : i # at => \E k \in DOMAIN t : t[k] = thread[i]
         /\ \E k \in DOMAIN t : t[k] = new
    <2>1. Distinct(thread) /\ 0 \notin DOMAIN thread
      BY ThreadFacts DEF PrInv
    <2>2. PICK o : From(thread, t, new, at, o)
      BY <1>11
    <2> QED BY <1>13, <2>1, <2>2, FromSpreads
  <1>15. \A k \in DOMAIN t : t[k].id <= made
    BY <1>12, <1>14 DEF PrInv
  <1>16. TargetsStand'
    <2> SUFFICES ASSUME NEW k \in Poster, poster'[k].stage = "write", poster'[k].target # 0
                 PROVE  \E i \in DOMAIN t : t[i].id = poster'[k].target /\ t[i].shows # NoPoster
      BY <1>8 DEF TargetsStand, Summary
    <2>1. poster[k].stage = "write" /\ poster'[k].target = poster[k].target
      BY <1>4, <1>9, <1>10
    <2>2. PICK i \in DOMAIN thread :
            thread[i].id = poster[k].target /\ thread[i].shows # NoPoster
      BY <2>1 DEF PrInv, TargetsStand, Summary
    <2>3. CASE i = at
      BY <1>12, <1>14, <2>1, <2>2, <2>3
    <2>4. CASE i # at
      BY <1>14, <2>1, <2>2, <2>4
    <2> QED BY <2>3, <2>4
  <1>17. calmThread' => Single'
    <2> SUFFICES ASSUME calmThread' PROVE Single'
      OBVIOUS
    <2>1. Single
      BY <1>8 DEF PrInv
    <2>2. \A i \in DOMAIN thread : i # at => thread[i].shows = NoPoster
      BY <1>5, <2>1 DEF Single, Summary
    <2>3. \A k \in DOMAIN t : t[k].shows # NoPoster => t[k] = new
      BY <1>14, <2>2
    <2>4. \A k, l \in DOMAIN t : t[k].shows # NoPoster /\ t[l].shows # NoPoster => k = l
      BY <1>14, <2>3 DEF Distinct
    <2>5. \A k \in DOMAIN t : t[k].shows # NoPoster => t[k].shows = j
      BY <1>12, <2>3
    <2>6. \A k \in Poster : Working(k)' => k = j
      <3> SUFFICES ASSUME NEW k \in Poster, Working(k)', k # j PROVE FALSE
        OBVIOUS
      <3>1. poster'[k].stage \in {"find", "write"}
        BY DEF Working
      <3>2. Working(k) /\ Working(j)
        BY <1>4, <1>10, <3>1 DEF Working
      <3> QED BY <2>1, <3>2 DEF Single
    <2>7. \A k \in Poster : ~(poster'[k].stage = "write" /\ poster'[k].target = 0)
      BY <1>9, <1>10, <2>6 DEF Working
    <2> QED BY <1>8, <2>4, <2>5, <2>6, <2>7 DEF Single, Summary
  <1>18. PrTypeOK'
    BY <1>8, <1>10, <1>11 DEF PrInv, PrTypeOK
  <1> QED BY <1>8, <1>14, <1>15, <1>16, <1>17, <1>18 DEF PrInv

\* A write that did not reach the thread.
LEMMA LostWriteKeeps ==
  ASSUME PrInv, NEW j \in Poster, NEW reply \in Reply, WriteComment(j, reply),
         ~Applied(reply)
  PROVE  PrInv'
  <1>1. PICK v : v = Verdict(platform, reply, poster[j].attempt)
    OBVIOUS
  <1>2. PICK next \in Posters :
          next = [poster[j] EXCEPT !.stage = "posted"] /\ next.stage = "posted"
    BY Posted
  <1>3. PICK after : after = After(j, v, next)
    OBVIOUS
  <1>4. /\ poster[j].stage = "write"
        /\ poster' = [poster EXCEPT ![j] = after]
        /\ UNCHANGED <<thread, written, made, platform>> /\ calmThread' = calmThread
    BY <1>1, <1>2, <1>3 DEF WriteComment, PrInv, PrTypeOK
  <1>5. /\ after \in Posters
        /\ \/ after.stage = "write" /\ after.target = poster[j].target
           \/ after.stage \in {"posted", "failed", "crashed"}
    <2>1. next.stage = "posted"
      BY <1>2
    <2>2. after = After(j, Verdict(platform, reply, poster[j].attempt), next)
      BY <1>1, <1>3
    <2>3. /\ after \in Posters
          /\ \/ v = "answered" /\ after = next
             \/ v = "again" /\ after.stage = poster[j].stage /\ after.target = poster[j].target
             \/ v \in {"failed", "crashed"} /\ after.stage \in {"failed", "crashed"}
      BY <1>1, <2>2, AfterCases
    <2> QED BY <1>4, <2>1, <2>3
  <1>6. /\ poster' \in [Poster -> Posters]
        /\ \A k \in Poster : poster'[k] = IF k = j THEN after ELSE poster[k]
    BY <1>4, <1>5 DEF PrInv, PrTypeOK
  <1>7. \A k \in Poster :
          /\ Working(k)' => Working(k)
          /\ poster'[k].stage = "write" =>
               poster[k].stage = "write" /\ poster'[k].target = poster[k].target
    BY <1>4, <1>5, <1>6 DEF Working
  <1>8. TargetsStand'
    BY <1>4, <1>7 DEF PrInv, TargetsStand, Summary
  <1>9. calmThread' => Single'
    BY <1>4, <1>7 DEF PrInv, Single, Summary
  <1> QED BY <1>4, <1>6, <1>8, <1>9 DEF PrInv, PrTypeOK

LEMMA PrKeeps == PrInv /\ [PrNext]_prVars => PrInv'
  <1> SUFFICES ASSUME PrInv, [PrNext]_prVars PROVE PrInv'
    OBVIOUS
  <1>1. CASE Foreign
    BY <1>1, ForeignKeeps
  <1>2. ASSUME NEW j \in Poster, PosterStep(j) PROVE PrInv'
    <2>1. ASSUME NEW readable \in BOOLEAN, StartPoster(j, readable) PROVE PrInv'
      BY <2>1, StartPosterKeeps
    <2>2. ASSUME NEW reply \in Reply, ListThread(j, reply) PROVE PrInv'
      BY <2>2, ListKeeps
    <2>3. ASSUME NEW reply \in Reply, WriteComment(j, reply) PROVE PrInv'
      BY <2>3, CreateKeeps, EditSummaryKeeps, LostWriteKeeps
    <2> QED BY <1>2, <2>1, <2>2, <2>3 DEF PosterStep
  <1>3. CASE UNCHANGED prVars
    BY <1>3 DEF prVars, PrInv, PrTypeOK, TargetsStand, Single, Summary, Working
  <1> QED BY <1>1, <1>2, <1>3 DEF PrNext

LEMMA PrStarts == PrInit => PrInv
  <1> SUFFICES ASSUME PrInit PROVE PrInv
    OBVIOUS
  <1>1. thread \in Seq(Comment) /\ DOMAIN thread = {}
    BY DEF PrInit
  <1>2. PICK one \in 1..MaxAttempts, none \in Nat : one = 1 /\ none = 0
    BY MaxAttemptsIsPositive
  <1>3. PICK st \in Stage : st = "waiting"
    BY DEF Stage
  <1>4. PICK p \in Posters : p = [stage |-> st, attempt |-> one, target |-> none]
    BY DEF Posters
  <1>5. p.stage = "waiting" /\ poster = [j \in Poster |-> p]
    BY <1>2, <1>3, <1>4 DEF PrInit
  <1>6. PrTypeOK
    BY <1>1, <1>5 DEF PrInit, PrTypeOK
  <1>7. TargetsStand /\ Single
    BY <1>1, <1>5 DEF TargetsStand, Single, Working
  <1> QED BY <1>1, <1>6, <1>7 DEF PrInv, Distinct

LEMMA PrServes == PrInv => OneSummary
  <1> SUFFICES ASSUME PrInv, calmThread, NEW c \in Anchored
               PROVE  Anchored = {c} /\ c.shows = written
    BY DEF OneSummary
  <1>1. \A d \in Anchored : \E i \in DOMAIN thread : thread[i] = d /\ Summary(i)
    BY DEF Anchored, Summary, Range
  <1>2. Single
    BY DEF PrInv
  <1>3. \A d \in Anchored : d = c
    BY <1>1, <1>2 DEF Single
  <1>4. c.shows = written
    BY <1>1, <1>2 DEF Single
  <1> QED BY <1>3, <1>4

\* The thread, the jobs and the ids keep their types.
THEOREM CommentTyped == PrSpec => []PrTypeOK
  <1>1. PrInv => PrTypeOK
    BY DEF PrInv
  <1> QED BY <1>1, PrStarts, PrKeeps, PTL DEF PrSpec

\* For any number of jobs, comments of others and attempts, on both platforms:
\* there is one summary and it shows the last report written, as long as no jobs
\* overlapped, no creation was sent again after its answer was lost, and the
\* summary stayed on the first page (upsert_comment, upsert_note, _request).
THEOREM SummaryStaysOne == PrSpec => []OneSummary
  BY PrStarts, PrKeeps, PrServes, PTL DEF PrSpec

(***************************************************************************)
(* IssueLifecycle.  A run that is alone, sees a fresh index and can close  *)
(* has, for every finding it is through with, an open issue, and then      *)
(* every other open issue among those it will close; as long as nothing    *)
(* excuses a twin, a run that will write knows the open issue of its       *)
(* finding.                                                                *)
(***************************************************************************)
\* A run that goes on to its next finding.
LEMMA NextFindingIs ==
  ASSUME NEW t \in Trackers, NEW left \in SUBSET Fingerprint, NEW new,
         new = NextFinding(t, left)
  PROVE  /\ new \in Trackers /\ new.left = left
         /\ new.stage = IF left = {} THEN "sweep" ELSE "search"
  <1>1. PICK st \in TrackerStage, at \in 1..MaxAttempts, le \in SUBSET Fingerprint,
             ta \in Nat, do \in SUBSET Nat :
           /\ t = [stage |-> st, attempt |-> at, left |-> le, target |-> ta, doomed |-> do]
           /\ t.left = le /\ t.target = ta /\ t.doomed = do
    BY DEF Trackers
  <1>2. PICK one \in 1..MaxAttempts : one = 1
    BY MaxAttemptsIsPositive
  <1>3. PICK zero \in Nat : zero = 0
    OBVIOUS
  <1>4. PICK stage \in TrackerStage : stage = IF left = {} THEN "sweep" ELSE "search"
    BY DEF TrackerStage
  <1>5. PICK a : a = [t EXCEPT !.left = left]
    OBVIOUS
  <1>6. a
          = [stage |-> st, attempt |-> at, left |-> left, target |-> ta, doomed |-> do]
    BY <1>1, <1>5
  <1>7. PICK b : b = [a EXCEPT !.attempt = one]
    OBVIOUS
  <1>8. b
          = [stage |-> st, attempt |-> one, left |-> left, target |-> ta, doomed |-> do]
    BY <1>6, <1>7
  <1>9. PICK c : c = [b EXCEPT !.target = zero]
    OBVIOUS
  <1>10. c
          = [stage |-> st, attempt |-> one, left |-> left, target |-> zero, doomed |-> do]
    BY <1>8, <1>9
  <1>11. PICK d : d = [c EXCEPT !.stage = stage]
    OBVIOUS
  <1>12. d
          = [stage |-> stage, attempt |-> one, left |-> left, target |-> zero, doomed |-> do]
    BY <1>10, <1>11
  <1>13. new = d
    BY <1>5, <1>7, <1>9, <1>11, <1>2, <1>3, <1>4 DEF NextFinding
  <1>14. d \in Trackers
    BY <1>12 DEF Trackers
  <1>15. /\ d.stage = stage /\ d.left = left
        /\ d.target = zero /\ d.doomed = do
    BY <1>12
  <1> QED BY <1>1, <1>2, <1>3, <1>4, <1>13, <1>14, <1>15

\* A run that goes on to the next issue it closes.
LEMMA NextDoomedIs ==
  ASSUME NEW t \in Trackers, NEW doomed \in SUBSET Nat, NEW new,
         new = NextDoomed(t, doomed)
  PROVE  /\ new \in Trackers /\ new.doomed = doomed
         /\ new.stage = IF doomed = {} THEN "done" ELSE "close"
  <1>1. PICK st \in TrackerStage, at \in 1..MaxAttempts, le \in SUBSET Fingerprint,
             ta \in Nat, do \in SUBSET Nat :
           /\ t = [stage |-> st, attempt |-> at, left |-> le, target |-> ta, doomed |-> do]
           /\ t.left = le /\ t.target = ta /\ t.doomed = do
    BY DEF Trackers
  <1>2. PICK one \in 1..MaxAttempts : one = 1
    BY MaxAttemptsIsPositive
  <1>3. PICK stage \in TrackerStage : stage = IF doomed = {} THEN "done" ELSE "close"
    BY DEF TrackerStage
  <1>4. PICK a : a = [t EXCEPT !.doomed = doomed]
    OBVIOUS
  <1>5. a
          = [stage |-> st, attempt |-> at, left |-> le, target |-> ta, doomed |-> doomed]
    BY <1>1, <1>4
  <1>6. PICK b : b = [a EXCEPT !.attempt = one]
    OBVIOUS
  <1>7. b
          = [stage |-> st, attempt |-> one, left |-> le, target |-> ta, doomed |-> doomed]
    BY <1>5, <1>6
  <1>8. PICK c : c = [b EXCEPT !.stage = stage]
    OBVIOUS
  <1>9. c
          = [stage |-> stage, attempt |-> one, left |-> le, target |-> ta, doomed |-> doomed]
    BY <1>7, <1>8
  <1>10. new = c
    BY <1>4, <1>6, <1>8, <1>2, <1>3 DEF NextDoomed
  <1>11. c \in Trackers
    BY <1>9 DEF Trackers
  <1>12. /\ c.stage = stage /\ c.left = le
        /\ c.target = ta /\ c.doomed = doomed
    BY <1>9
  <1> QED BY <1>1, <1>2, <1>3, <1>10, <1>11, <1>12

\* A run that has searched, and one that has closed.
Searched(t, target) == [t EXCEPT !.stage = "write", !.attempt = 1, !.target = target]
ClosedNow(t) == [t EXCEPT !.stage = "remark", !.attempt = 1]

LEMMA FoundIs ==
  ASSUME NEW t \in Trackers, NEW target \in Nat, NEW new, new = Searched(t, target)
  PROVE  /\ new \in Trackers /\ new.stage = "write"
         /\ new.left = t.left /\ new.target = target
  <1>1. PICK st \in TrackerStage, at \in 1..MaxAttempts, le \in SUBSET Fingerprint,
             ta \in Nat, do \in SUBSET Nat :
           /\ t = [stage |-> st, attempt |-> at, left |-> le, target |-> ta, doomed |-> do]
           /\ t.left = le /\ t.target = ta /\ t.doomed = do
    BY DEF Trackers
  <1>2. PICK one \in 1..MaxAttempts : one = 1
    BY MaxAttemptsIsPositive
  <1>3. PICK stage \in TrackerStage : stage = "write"
    BY DEF TrackerStage
  <1>4. PICK a : a = [t EXCEPT !.stage = stage]
    OBVIOUS
  <1>5. a
          = [stage |-> stage, attempt |-> at, left |-> le, target |-> ta, doomed |-> do]
    BY <1>1, <1>4
  <1>6. PICK b : b = [a EXCEPT !.attempt = one]
    OBVIOUS
  <1>7. b
          = [stage |-> stage, attempt |-> one, left |-> le, target |-> ta, doomed |-> do]
    BY <1>5, <1>6
  <1>8. PICK c : c = [b EXCEPT !.target = target]
    OBVIOUS
  <1>9. c
          = [stage |-> stage, attempt |-> one, left |-> le, target |-> target, doomed |-> do]
    BY <1>7, <1>8
  <1>10. new = c
    BY <1>4, <1>6, <1>8, <1>2, <1>3 DEF Searched
  <1>11. c \in Trackers
    BY <1>9 DEF Trackers
  <1>12. /\ c.stage = stage /\ c.left = le
        /\ c.target = target /\ c.doomed = do
    BY <1>9
  <1> QED BY <1>1, <1>2, <1>3, <1>10, <1>11, <1>12

LEMMA ClosedIs ==
  ASSUME NEW t \in Trackers, NEW new, new = ClosedNow(t)
  PROVE  /\ new \in Trackers /\ new.stage = "remark"
         /\ new.left = t.left /\ new.doomed = t.doomed
  <1>1. PICK st \in TrackerStage, at \in 1..MaxAttempts, le \in SUBSET Fingerprint,
             ta \in Nat, do \in SUBSET Nat :
           /\ t = [stage |-> st, attempt |-> at, left |-> le, target |-> ta, doomed |-> do]
           /\ t.left = le /\ t.target = ta /\ t.doomed = do
    BY DEF Trackers
  <1>2. PICK one \in 1..MaxAttempts : one = 1
    BY MaxAttemptsIsPositive
  <1>3. PICK stage \in TrackerStage : stage = "remark"
    BY DEF TrackerStage
  <1>4. PICK a : a = [t EXCEPT !.stage = stage]
    OBVIOUS
  <1>5. a
          = [stage |-> stage, attempt |-> at, left |-> le, target |-> ta, doomed |-> do]
    BY <1>1, <1>4
  <1>6. PICK b : b = [a EXCEPT !.attempt = one]
    OBVIOUS
  <1>7. b
          = [stage |-> stage, attempt |-> one, left |-> le, target |-> ta, doomed |-> do]
    BY <1>5, <1>6
  <1>8. new = b
    BY <1>4, <1>6, <1>2, <1>3 DEF ClosedNow
  <1>9. b \in Trackers
    BY <1>7 DEF Trackers
  <1>10. /\ b.stage = stage /\ b.left = le
        /\ b.target = ta /\ b.doomed = do
    BY <1>7
  <1> QED BY <1>1, <1>2, <1>3, <1>8, <1>9, <1>10

\* A run at rest.
LEMMA AtIs ==
  ASSUME NEW stage \in TrackerStage
  PROVE  At(stage) \in Trackers /\ At(stage).stage = stage
  <1>1. PICK one \in 1..MaxAttempts, zero \in Nat : one = 1 /\ zero = 0
    BY MaxAttemptsIsPositive
  <1>2. At(stage) = [stage |-> stage, attempt |-> one, left |-> {}, target |-> zero,
                     doomed |-> {}]
    BY <1>1 DEF At
  <1> QED BY <1>2 DEF Trackers

\* Where an attempt leaves a run, for each verdict.
LEMMA AttemptIs ==
  ASSUME IsTypeOK, NEW j \in Tracker, NEW reply \in Reply, NEW v,
         v = Verdict("github", reply, tracker[j].attempt),
         NEW answered \in Trackers, NEW failed \in Trackers, Attempt(j, v, answered, failed)
  PROVE  \E after \in Trackers :
           /\ tracker' = [tracker EXCEPT ![j] = after]
           /\ settled' = IF after.stage = "done" THEN j ELSE settled
           /\ \/ v = "answered" /\ reply = "ok" /\ after = answered
              \/ v = "failed" /\ after = failed
              \/ /\ v = "again" /\ after.stage = tracker[j].stage
                 /\ after.left = tracker[j].left /\ after.target = tracker[j].target
                 /\ after.doomed = tracker[j].doomed
              \/ v = "crashed" /\ after.stage = "crashed"
  <1>1. PICK st \in TrackerStage, at \in 1..MaxAttempts, le \in SUBSET Fingerprint,
             ta \in Nat, do \in SUBSET Nat :
          /\ tracker[j] = [stage |-> st, attempt |-> at, left |-> le, target |-> ta,
                            doomed |-> do]
          /\ tracker[j].stage = st /\ tracker[j].left = le /\ tracker[j].target = ta
          /\ tracker[j].doomed = do /\ tracker[j].attempt = at
    BY DEF IsTypeOK, Trackers
  <1>2. /\ v \in {"answered", "again", "failed", "crashed"}
        /\ v = "again" => at < MaxAttempts
        /\ v = "answered" => reply = "ok"
    BY <1>1 DEF Verdict
  <1>3. PICK more : more = [tracker[j] EXCEPT !.attempt = @ + 1]
    OBVIOUS
  <1>4. v = "again" =>
          /\ more \in Trackers /\ more.stage = st /\ more.left = le
          /\ more.target = ta /\ more.doomed = do
    <2> HAVE v = "again"
    <2>1. PICK next \in 1..MaxAttempts : next = at + 1
      BY <1>2, MaxAttemptsIsPositive
    <2>2. more = [stage |-> st, attempt |-> next, left |-> le, target |-> ta, doomed |-> do]
      BY <1>1, <1>3, <2>1
    <2> QED BY <2>2 DEF Trackers
  <1>5. PICK after :
           after = CASE v = "answered" -> answered
                     [] v = "failed"   -> failed
                     [] v = "again"    -> more
                     [] v = "crashed"  -> At("crashed")
    OBVIOUS
  <1>6. At("crashed") \in Trackers /\ At("crashed").stage = "crashed"
    BY AtIs DEF TrackerStage
  <1>7. after \in Trackers
    BY <1>2, <1>4, <1>5, <1>6
  <1>8. tracker' = [tracker EXCEPT ![j] = after]
    BY <1>3, <1>5 DEF Attempt
  <1>9. settled' = IF after.stage = "done" THEN j ELSE settled
    BY <1>8 DEF Attempt, IsTypeOK
  <1>10. \/ v = "answered" /\ after = answered
         \/ v = "failed" /\ after = failed
         \/ v = "again" /\ after = more
         \/ v = "crashed" /\ after = At("crashed")
    BY <1>2, <1>5
  <1> QED BY <1>1, <1>2, <1>4, <1>6, <1>7, <1>8, <1>9, <1>10

\* There is an open issue of the finding.
Listed(f) == \E n \in DOMAIN issues : issues[n].fp = f /\ issues[n].open

\* The findings a run has still to go through.
Pending(j) == IF tracker[j].stage \in {"search", "write"} THEN tracker[j].left ELSE {}

\* What a run knows of its finding, and of the issues it will close.
AtWork(j) ==
  /\ tracker[j].stage \in {"search", "write"} =>
       tracker[j].left # {} /\ tracker[j].left \subseteq findings[j]
  /\ tracker[j].stage = "write" /\ tracker[j].target # 0 =>
       tracker[j].target \in DOMAIN issues /\ issues[tracker[j].target].fp = Current(j)
  /\ tracker[j].stage \in {"close", "remark"} =>
       /\ tracker[j].doomed # {}
       /\ \A n \in tracker[j].doomed : n \in DOMAIN issues /\ issues[n].fp \notin findings[j]

\* The open issue of the finding a run writes about is the one it has found.
Aims(j) ==
  tracker[j].stage = "write" =>
    \A n \in DOMAIN issues :
      issues[n].open /\ issues[n].fp = Current(j) => n = tracker[j].target

OneEach ==
  \A m, n \in DOMAIN issues :
    issues[m].open /\ issues[n].open /\ issues[m].fp = issues[n].fp => m = n

\* The state of the issues as a run that counts leaves it.
Keeps(j) ==
  /\ \A f \in findings[j] : f \in Pending(j) \/ Listed(f)
  /\ tracker[j].stage \in {"close", "remark"} =>
       \A n \in DOMAIN issues :
         issues[n].open /\ issues[n].fp \notin findings[j] => n \in tracker[j].doomed
  /\ tracker[j].stage = "remark" => ~issues[Min(tracker[j].doomed)].open

Agrees(j) ==
  /\ \A f \in findings[j] : Listed(f)
  /\ \A n \in DOMAIN issues : issues[n].open => issues[n].fp \in findings[j]

IsInv ==
  /\ IsTypeOK
  /\ \A j \in Tracker : AtWork(j)
  /\ calmIssues =>
       /\ \A j, k \in Tracker : Tracking(j) /\ Tracking(k) => j = k
       /\ \A j \in Tracker : Aims(j)
       /\ OneEach
  /\ \A j \in clean :
       Tracking(j) => Keeps(j) /\ \A k \in Tracker : Tracking(k) => k = j
  /\ settled \in clean => Agrees(settled) /\ \A k \in Tracker : ~Tracking(k)

LEMMA IssueFacts ==
  ASSUME IsInv
  PROVE  /\ issues \in Seq([fp : Fingerprint, open : BOOLEAN])
         /\ Len(issues) \in Nat /\ DOMAIN issues = 1..Len(issues) /\ 0 \notin DOMAIN issues
         /\ \A n \in DOMAIN issues : issues[n] \in [fp : Fingerprint, open : BOOLEAN]
         /\ \A n \in DOMAIN issues : issues[n].fp \in Fingerprint /\ issues[n].open \in BOOLEAN
  <1>1. issues \in Seq([fp : Fingerprint, open : BOOLEAN])
    BY DEF IsInv, IsTypeOK
  <1>2. PICK n \in Nat : n = Len(issues) /\ DOMAIN issues = 1..n
    BY <1>1, LenProperties
  <1>3. \A i \in DOMAIN issues : issues[i] \in [fp : Fingerprint, open : BOOLEAN]
    BY <1>1, LenProperties
  <1>4. 0 \notin DOMAIN issues
    BY <1>2
  <1> QED BY <1>1, <1>2, <1>3, <1>4

\* What the issues may become: none disappears or changes its fingerprint.
Follows ==
  /\ issues' \in Seq([fp : Fingerprint, open : BOOLEAN])
  /\ \A n \in DOMAIN issues : n \in DOMAIN issues' /\ issues'[n].fp = issues[n].fp

\* The step of a run at work: what it has to show about itself, and about the
\* issues, for the others to be undisturbed.
LEMMA RunStep ==
  ASSUME IsInv, NEW j \in Tracker, Tracking(j), NEW after \in Trackers,
         tracker' = [tracker EXCEPT ![j] = after],
         settled' = IF after.stage = "done" THEN j ELSE settled,
         findings' = findings, shown' = shown, clean' \subseteq clean,
         calmIssues' \in BOOLEAN, calmIssues' => calmIssues, Follows,
         AtWork(j)',
         calmIssues' => Aims(j)' /\ OneEach',
         j \in clean' /\ Tracking(j)' => Keeps(j)',
         j \in clean' /\ after.stage = "done" => Agrees(j)'
  PROVE  IsInv'
  <1>1. /\ tracker' \in [Tracker -> Trackers]
        /\ \A k \in Tracker : tracker'[k] = IF k = j THEN after ELSE tracker[k]
    BY DEF IsInv, IsTypeOK
  <1>2. IsTypeOK'
    <2>1. shown' \subseteq DOMAIN issues'
      BY DEF Follows, IsInv, IsTypeOK
    <2>2. settled' \in Tracker \cup {NoTracker} /\ clean' \subseteq Tracker
      BY DEF IsInv, IsTypeOK
    <2> QED BY <1>1, <2>1, <2>2 DEF IsInv, IsTypeOK, Follows
  <1>3. \A k \in Tracker : k # j => Current(k)' = Current(k) /\ Tracking(k)' = Tracking(k)
    BY <1>1 DEF Current, Tracking
  <1>4. \A k \in Tracker : AtWork(k)'
    <2> SUFFICES ASSUME NEW k \in Tracker, k # j PROVE AtWork(k)'
      OBVIOUS
    <2>1. AtWork(k) /\ tracker'[k] = tracker[k] /\ Current(k)' = Current(k)
      BY <1>1, <1>3 DEF IsInv
    <2> QED BY <2>1 DEF AtWork, Follows
  <1>5. ASSUME calmIssues'
        PROVE  /\ \A k, l \in Tracker : Tracking(k)' /\ Tracking(l)' => k = l
               /\ \A k \in Tracker : Aims(k)'
               /\ OneEach'
    <2>1. \A k \in Tracker : k # j => ~Tracking(k)
      BY <1>5 DEF IsInv
    <2>2. \A k \in Tracker : k # j => ~(Tracking(k)')
      BY <1>3, <2>1
    <2>3. \A k \in Tracker : Aims(k)'
      <3> SUFFICES ASSUME NEW k \in Tracker, k # j PROVE Aims(k)'
        BY <1>5
      <3>1. tracker[k].stage # "write" /\ tracker'[k] = tracker[k]
        BY <1>1, <2>1 DEF Tracking
      <3> QED BY <3>1 DEF Aims
    <2> QED BY <1>5, <2>2, <2>3
  <1>6. ASSUME NEW k \in clean', Tracking(k)'
        PROVE  Keeps(k)' /\ \A l \in Tracker : Tracking(l)' => l = k
    <2>1. k \in clean /\ k \in Tracker
      BY DEF IsInv, IsTypeOK
    <2>2. CASE k = j
      <3>1. Tracking(k) /\ \A l \in Tracker : Tracking(l) => l = k
        BY <2>1, <2>2 DEF IsInv
      <3>2. \A l \in Tracker : Tracking(l)' => l = k
        BY <1>3, <2>2, <3>1
      <3> QED BY <1>6, <2>2, <3>2
    <2>3. CASE k # j
      <3>1. Tracking(k)
        BY <1>3, <1>6, <2>1, <2>3
      <3> QED BY <2>1, <2>3, <3>1 DEF IsInv
    <2> QED BY <2>2, <2>3
  <1>7. ASSUME settled' \in clean'
        PROVE  Agrees(settled)' /\ \A k \in Tracker : ~(Tracking(k)')
    <2>1. settled' \in clean
      BY <1>7
    <2>2. CASE after.stage = "done"
      <3>1. settled' = j /\ j \in clean /\ j \in clean'
        BY <1>7, <2>1, <2>2
      <3>2. \A k \in Tracker : Tracking(k) => k = j
        BY <3>1 DEF IsInv
      <3>3. \A k \in Tracker : ~(Tracking(k)')
        <4>1. ~(Tracking(j)')
          BY <1>1, <2>2 DEF Tracking
        <4> QED BY <1>3, <3>2, <4>1
      <3>4. Agrees(j)'
        BY <2>2, <3>1
      <3> QED BY <3>1, <3>3, <3>4 DEF Agrees, Listed
    <2>3. CASE after.stage # "done"
      <3>1. settled \in clean
        BY <2>1, <2>3
      <3> QED BY <3>1 DEF IsInv
    <2> QED BY <2>2, <2>3
  <1> QED BY <1>2, <1>4, <1>5, <1>6, <1>7 DEF IsInv

\* A step that leaves the issues as they are.
LEMMA SameIssues ==
  ASSUME IsInv, issues' = issues
  PROVE  /\ Follows
         /\ OneEach => OneEach'
         /\ \A f : Listed(f) => Listed(f)'
  BY DEF Follows, OneEach, Listed, IsInv, IsTypeOK

LEMMA StartKeeps ==
  ASSUME IsInv, NEW j \in Tracker, NEW autoCreate \in BOOLEAN, StartTracker(j, autoCreate)
  PROVE  IsInv'
  <1>1. tracker[j].stage = "waiting" /\ ~Tracking(j) /\ tracker[j] \in Trackers
    BY DEF StartTracker, Tracking, IsInv, IsTypeOK
  <1>2. UNCHANGED <<findings, issues, shown>> /\ findings[j] \in SUBSET Fingerprint
    BY DEF StartTracker, IsInv, IsTypeOK
  <1> DEFINE goes == autoCreate \/ findings[j] = {}
             others == {k \in Tracker : Tracking(k)}
  <1>3. /\ clean' = IF goes /\ others # {} THEN clean \ (others \cup {j}) ELSE clean
        /\ calmIssues' = (calmIssues /\ ~(goes /\ others # {}))
        /\ settled' = IF goes THEN NoTracker ELSE settled
    BY DEF StartTracker
  <1>4. PICK after \in Trackers :
          /\ after = IF goes THEN NextFinding(tracker[j], findings[j]) ELSE At("refused")
          /\ goes => /\ after.left = findings[j]
                     /\ after.stage = IF findings[j] = {} THEN "sweep" ELSE "search"
          /\ ~goes => after.stage = "refused"
    <2>1. PICK n \in Trackers :
            /\ n = NextFinding(tracker[j], findings[j]) /\ n.left = findings[j]
            /\ n.stage = IF findings[j] = {} THEN "sweep" ELSE "search"
      BY <1>1, <1>2, NextFindingIs
    <2>2. At("refused") \in Trackers /\ At("refused").stage = "refused"
      BY AtIs DEF TrackerStage
    <2> QED BY <2>1, <2>2
  <1>5. tracker' = [tracker EXCEPT ![j] = after]
    BY <1>4 DEF StartTracker
  <1>6. /\ tracker' \in [Tracker -> Trackers]
        /\ \A k \in Tracker : tracker'[k] = IF k = j THEN after ELSE tracker[k]
    BY <1>5 DEF IsInv, IsTypeOK
  <1>7. \A k \in Tracker : k # j => Current(k)' = Current(k) /\ Tracking(k)' = Tracking(k)
    BY <1>6 DEF Current, Tracking
  <1>8. after.stage \in {"search", "sweep", "refused"}
    BY <1>4
  <1>9. IsTypeOK'
    <2>1. settled' \in Tracker \cup {NoTracker} /\ clean' \subseteq Tracker /\ calmIssues' \in BOOLEAN
      BY <1>3 DEF IsInv, IsTypeOK
    <2> QED BY <1>2, <1>6, <2>1 DEF IsInv, IsTypeOK
  <1>10. \A k \in Tracker : AtWork(k)'
    <2> TAKE k \in Tracker
    <2>1. CASE k = j
      BY <1>2, <1>4, <1>6, <1>8, <2>1 DEF AtWork
    <2>2. CASE k # j
      <3>1. AtWork(k) /\ tracker'[k] = tracker[k] /\ Current(k)' = Current(k)
        BY <1>6, <1>7, <2>2 DEF IsInv
      <3> QED BY <1>2, <3>1 DEF AtWork
    <2> QED BY <2>1, <2>2
  <1>11. Tracking(j)' => goes
    BY <1>4, <1>6 DEF Tracking
  <1>12. ASSUME calmIssues'
         PROVE  /\ \A k, l \in Tracker : Tracking(k)' /\ Tracking(l)' => k = l
                /\ \A k \in Tracker : Aims(k)'
                /\ OneEach'
    <2>1. calmIssues /\ (goes => \A k \in Tracker : ~Tracking(k))
      BY <1>3, <1>12
    <2>2. \A k, l \in Tracker : Tracking(k)' /\ Tracking(l)' => k = l
      <3> SUFFICES ASSUME NEW k \in Tracker, NEW l \in Tracker, Tracking(k)', Tracking(l)',
                          k # l
                   PROVE  FALSE
        OBVIOUS
      <3>1. CASE k = j \/ l = j
        <4>1. goes
          BY <1>11, <3>1
        <4> QED BY <1>7, <2>1, <3>1, <4>1
      <3>2. CASE k # j /\ l # j
        BY <1>7, <2>1, <3>2 DEF IsInv
      <3> QED BY <3>1, <3>2
    <2>3. \A k \in Tracker : Aims(k)'
      <3> TAKE k \in Tracker
      <3>1. CASE k = j
        BY <1>6, <1>8, <3>1 DEF Aims
      <3>2. CASE k # j
        <4>1. Aims(k) /\ tracker'[k] = tracker[k] /\ Current(k)' = Current(k)
          BY <1>6, <1>7, <2>1, <3>2 DEF IsInv
        <4> QED BY <1>2, <4>1 DEF Aims
      <3> QED BY <3>1, <3>2
    <2> QED BY <1>2, <2>1, <2>2, <2>3 DEF IsInv, OneEach
  <1>13. ASSUME NEW k \in clean', Tracking(k)'
         PROVE  Keeps(k)' /\ \A l \in Tracker : Tracking(l)' => l = k
    <2>1. k \in clean /\ k \in Tracker
      BY <1>3 DEF IsInv, IsTypeOK
    <2>2. CASE k = j
      <3>1. goes /\ others = {}
        BY <1>3, <1>11, <1>13, <2>2
      <3>2. \A l \in Tracker : Tracking(l)' => l = k
        BY <1>7, <2>2, <3>1
      <3>3. Keeps(j)'
        <4>1. \A f \in findings[j] : f \in Pending(j)'
          BY <1>4, <1>6, <3>1 DEF Pending
        <4> QED BY <1>2, <1>6, <1>8, <4>1 DEF Keeps
      <3> QED BY <2>2, <3>2, <3>3
    <2>3. CASE k # j
      <3>1. Tracking(k)
        BY <1>7, <1>13, <2>1, <2>3
      <3>2. ~goes
        BY <1>3, <1>13, <2>1, <3>1
      <3>3. Keeps(k) /\ \A l \in Tracker : Tracking(l) => l = k
        BY <2>1, <3>1 DEF IsInv
      <3>4. \A l \in Tracker : Tracking(l)' => l = k
        BY <1>7, <1>11, <3>2, <3>3
      <3>5. tracker'[k] = tracker[k]
        BY <1>6, <2>1, <2>3
      <3> QED BY <1>2, <3>3, <3>4, <3>5 DEF Keeps, Pending, Listed
    <2> QED BY <2>2, <2>3
  <1>14. ASSUME settled' \in clean'
         PROVE  Agrees(settled)' /\ \A k \in Tracker : ~(Tracking(k)')
    <2>1. clean' \subseteq Tracker
      BY <1>9 DEF IsTypeOK
    <2>2. ~goes /\ settled' = settled /\ settled \in clean
      BY <1>3, <1>14, <2>1, NoTrackerIsNone
    <2>3. Agrees(settled) /\ \A k \in Tracker : ~Tracking(k)
      BY <2>2 DEF IsInv
    <2>4. \A k \in Tracker : ~(Tracking(k)')
      BY <1>7, <1>11, <2>2, <2>3
    <2> QED BY <1>2, <2>2, <2>3, <2>4 DEF Agrees, Listed
  <1> QED BY <1>9, <1>10, <1>12, <1>13, <1>14 DEF IsInv
\* A set of numbers that are not above n has a greatest element, which Max returns.
LEMMA GreatestOf ==
  ASSUME NEW n \in Nat, NEW S \in SUBSET (1..n), S # {}
  PROVE  Max(S) \in S
  <1> DEFINE T == {n - x : x \in S}
  <1>1. T \in SUBSET Nat /\ T # {} /\ \A y \in T : y <= n
    <2>1. \A x \in S : n - x \in Nat /\ n - x <= n
      OBVIOUS
    <2>2. PICK x \in S : TRUE
      OBVIOUS
    <2>3. n - x \in T
      BY <2>2
    <2> QED BY <2>1, <2>3
  <1>2. Min(T) \in T /\ \A y \in T : Min(T) <= y
    <2> HIDE DEF T
    <2>1. IsFiniteSet(T)
      BY <1>1, FS_BoundedSetOfNaturals
    <2> QED BY <1>1, <2>1, LeastOf
  <1>3. PICK x \in S : Min(T) = n - x
    BY <1>2
  <1>4. \A y \in S : x >= y
    <2> TAKE y \in S
    <2>1. n - x <= n - y
      BY <1>2, <1>3
    <2> QED BY <2>1
  <1> QED BY <1>4 DEF Max

\* What the guard of a step says of the run that takes it.
LEMMA RunFacts ==
  ASSUME IsInv, NEW j \in Tracker,
         tracker[j].stage \in {"search", "write", "sweep", "close", "remark"}
  PROVE  /\ Tracking(j) /\ tracker[j] \in Trackers /\ AtWork(j)
         /\ tracker[j].stage \in {"search", "write"} =>
              Current(j) \in tracker[j].left /\ Current(j) \in findings[j]
         /\ findings[j] \subseteq Fingerprint
         /\ calmIssues => Aims(j) /\ OneEach
         /\ j \in clean => Keeps(j)
  <1>1. Tracking(j)
    BY DEF Tracking
  <1>2. AtWork(j) /\ tracker[j] \in Trackers /\ findings[j] \subseteq Fingerprint
    BY DEF IsInv, IsTypeOK
  <1>3. tracker[j].stage \in {"search", "write"} =>
          Current(j) \in tracker[j].left /\ Current(j) \in findings[j]
    BY <1>2 DEF AtWork, Current
  <1> QED BY <1>1, <1>2, <1>3 DEF IsInv

\* The search: what it finds is an open issue of the finding, if its index is fresh.
LEMMA FindsIt ==
  ASSUME IsInv, NEW f \in Fingerprint
  PROVE  LET n == FoundByFingerprint(f)
         IN  /\ n \in Nat
             /\ n # 0 => n \in DOMAIN issues /\ issues[n].fp = f
             /\ ~Stale /\ OneEach =>
                  \A m \in DOMAIN issues : issues[m].open /\ issues[m].fp = f => m = n
  <1> DEFINE hits == {n \in shown : issues[n].fp = f}
  <1>1. PICK len \in Nat : DOMAIN issues = 1..len
    BY IssueFacts
  <1>2. hits \in SUBSET (1..len) /\ hits \subseteq shown
    BY <1>1 DEF IsInv, IsTypeOK
  <1>3. CASE hits = {}
    <2>1. FoundByFingerprint(f) = 0
      BY <1>3 DEF FoundByFingerprint
    <2>2. ~Stale => \A m \in DOMAIN issues : ~(issues[m].open /\ issues[m].fp = f)
      BY <1>3 DEF Stale
    <2> QED BY <2>1, <2>2
  <1>4. CASE hits # {}
    <2>1. Max(hits) \in hits
      <3> HIDE DEF hits
      <3> QED BY <1>2, <1>4, GreatestOf
    <2>2. FoundByFingerprint(f) = Max(hits)
      BY <1>4 DEF FoundByFingerprint
    <2>3. PICK n \in hits : n = FoundByFingerprint(f)
      BY <2>1, <2>2
    <2>4. n \in 1..len /\ n \in shown /\ issues[n].fp = f
      BY <1>2, <2>3
    <2>5. ~Stale => issues[n].open
      BY <2>4 DEF Stale
    <2>6. ~Stale /\ OneEach =>
            \A m \in DOMAIN issues : issues[m].open /\ issues[m].fp = f => m = n
      BY <1>1, <2>4, <2>5 DEF OneEach
    <2> QED BY <1>1, <2>3, <2>4, <2>6
  <1> QED BY <1>3, <1>4

LEMMA SearchKeeps ==
  ASSUME IsInv, NEW j \in Tracker, NEW reply \in Reply, SearchIssue(j, reply)
  PROVE  IsInv'
  <1>1. tracker[j].stage = "search" /\ UNCHANGED <<findings, issues, shown>>
    BY DEF SearchIssue
  <1>2. /\ Tracking(j) /\ tracker[j] \in Trackers /\ AtWork(j)
        /\ Current(j) \in tracker[j].left /\ Current(j) \in Fingerprint
        /\ calmIssues => OneEach
        /\ j \in clean => Keeps(j)
    BY <1>1, RunFacts
  <1>3. PICK v : v = Verdict("github", reply, tracker[j].attempt)
    OBVIOUS
  <1>4. PICK n \in Nat : n = FoundByFingerprint(Current(j))
    BY <1>2, FindsIt
  <1>5. /\ n # 0 => n \in DOMAIN issues /\ issues[n].fp = Current(j)
        /\ ~Stale /\ OneEach =>
             \A m \in DOMAIN issues : issues[m].open /\ issues[m].fp = Current(j) => m = n
    BY <1>2, <1>4, FindsIt
  <1>6. PICK found \in Trackers :
          /\ found = Searched(tracker[j], n)
          /\ found.stage = "write" /\ found.left = tracker[j].left /\ found.target = n
    <2>1. PICK e : e = Searched(tracker[j], n)
      OBVIOUS
    <2>2. e \in Trackers /\ e.stage = "write" /\ e.left = tracker[j].left /\ e.target = n
      BY <1>2, <2>1, FoundIs
    <2> QED BY <2>1, <2>2
  <1>7. PICK refused \in Trackers : refused = At("refused") /\ refused.stage = "refused"
    BY AtIs DEF TrackerStage
  <1>8. /\ Attempt(j, v, found, refused)
        /\ clean' = IF v = "answered" /\ Stale THEN clean \ {j} ELSE clean
        /\ calmIssues' = (calmIssues /\ ~(v = "answered" /\ Stale))
    BY <1>3, <1>4, <1>6, <1>7 DEF SearchIssue, Searched
  <1>9. PICK after \in Trackers :
          /\ tracker' = [tracker EXCEPT ![j] = after]
          /\ settled' = IF after.stage = "done" THEN j ELSE settled
          /\ \/ v = "answered" /\ after = found
             \/ v = "failed" /\ after = refused
             \/ v = "again" /\ after.stage = "search" /\ after.left = tracker[j].left
             \/ v = "crashed" /\ after.stage = "crashed"
    <2>1. IsTypeOK
      BY DEF IsInv
    <2> QED BY <1>1, <1>3, <1>8, <2>1, AttemptIs
  <1>10. tracker'[j] = after
    BY <1>9 DEF IsInv, IsTypeOK
  <1>11. after.stage \in {"write", "refused", "search", "crashed"}
    BY <1>6, <1>7, <1>9
  <1>12. after.stage \in {"search", "write"} =>
           /\ after.left = tracker[j].left /\ Current(j)' = Current(j)
           /\ Pending(j)' = Pending(j)
    BY <1>1, <1>6, <1>7, <1>9, <1>10 DEF Current, Pending
  <1>13. after.stage = "write" => v = "answered" /\ after.target = n
    BY <1>6, <1>7, <1>9
  <1>14. AtWork(j)'
    BY <1>1, <1>2, <1>5, <1>10, <1>11, <1>12, <1>13 DEF AtWork
  <1>15. ASSUME calmIssues' PROVE Aims(j)' /\ OneEach'
    <2>1. calmIssues /\ OneEach /\ (v = "answered" => ~Stale)
      BY <1>2, <1>8, <1>15
    <2>2. Aims(j)'
      BY <1>1, <1>5, <1>10, <1>12, <1>13, <2>1 DEF Aims
    <2> QED BY <1>1, <2>1, <2>2, SameIssues
  <1>16. ASSUME j \in clean', Tracking(j)' PROVE Keeps(j)'
    <2>1. Keeps(j)
      BY <1>2, <1>8, <1>16
    <2>2. after.stage \in {"search", "write"}
      BY <1>10, <1>11, <1>16 DEF Tracking
    <2> QED BY <1>1, <1>10, <1>12, <2>1, <2>2, SameIssues DEF Keeps
  <1>17. clean' \subseteq clean /\ calmIssues' \in BOOLEAN /\ (calmIssues' => calmIssues)
    BY <1>8
  <1> QED BY <1>1, <1>2, <1>9, <1>11, <1>14, <1>15, <1>16, <1>17, SameIssues, RunStep
\* The issues after a write: one more with the finding, or the one found open.
LEMMA WriteFacts ==
  ASSUME IsInv, NEW j \in Tracker, NEW reply \in Reply, WriteIssue(j, reply)
  PROVE  /\ Follows
         /\ \A f \in Fingerprint : Listed(f) => Listed(f)'
         /\ \A f \in Fingerprint : f = Current(j) /\ Applied(reply) => Listed(f)'
         /\ Aims(j) /\ OneEach => OneEach'
         /\ Aims(j) /\ ~(tracker[j].target = 0 /\ Applied(reply)) =>
              \A m \in DOMAIN issues' :
                issues'[m].open /\ issues'[m].fp = Current(j) => m = tracker[j].target
  <1>1. tracker[j].stage = "write"
    BY DEF WriteIssue
  <1>2. PICK f \in Fingerprint : f = Current(j)
    BY <1>1, RunFacts
  <1>3. tracker[j].target \in Nat
    BY <1>1, RunFacts DEF Trackers
  <1>4. CASE ~Applied(reply)
    <2>1. issues' = issues
      BY <1>4 DEF WriteIssue
    <2>2. Aims(j) => \A m \in DOMAIN issues' :
            issues'[m].open /\ issues'[m].fp = Current(j) => m = tracker[j].target
      BY <1>1, <2>1 DEF Aims
    <2> QED BY <1>4, <2>1, <2>2, SameIssues
  <1>5. CASE Applied(reply) /\ tracker[j].target = 0
    <2>1. PICK new \in [fp : Fingerprint, open : BOOLEAN] :
            new = [fp |-> f, open |-> TRUE] /\ new.fp = f /\ new.open
      <3>1. PICK yes \in BOOLEAN : yes = TRUE
        OBVIOUS
      <3>2. [fp |-> f, open |-> yes] \in [fp : Fingerprint, open : BOOLEAN]
        OBVIOUS
      <3> QED BY <3>1, <3>2
    <2>2. issues' = Append(issues, new)
      BY <1>2, <1>5, <2>1 DEF WriteIssue
    <2>3. PICK len \in Nat : len = Len(issues) /\ DOMAIN issues = 1..len
      BY IssueFacts
    <2>4. /\ issues' \in Seq([fp : Fingerprint, open : BOOLEAN])
          /\ DOMAIN issues' = 1..len + 1
          /\ \A i \in 1..len : issues'[i] = issues[i]
          /\ issues'[len + 1] = new
      BY <2>2, <2>3, IssueFacts, AppendProperties, LenProperties
    <2>5. Follows
      BY <2>3, <2>4 DEF Follows
    <2>6. \A g \in Fingerprint : Listed(g) => Listed(g)'
      BY <2>3, <2>4 DEF Listed
    <2>7. Listed(f)'
      <3>1. len + 1 \in DOMAIN issues' /\ issues'[len + 1].fp = f /\ issues'[len + 1].open
        BY <2>1, <2>4
      <3> QED BY <3>1 DEF Listed
    <2>8. ASSUME Aims(j), OneEach PROVE OneEach'
      <3>1. \A n \in DOMAIN issues : ~(issues[n].open /\ issues[n].fp = f)
        BY <1>1, <1>2, <1>5, <2>8, IssueFacts DEF Aims
      <3>2. \A n \in DOMAIN issues' : n \in DOMAIN issues \/ n = len + 1
        BY <2>3, <2>4
      <3> SUFFICES ASSUME NEW m \in DOMAIN issues', NEW n \in DOMAIN issues',
                          issues'[m].open, issues'[n].open, issues'[m].fp = issues'[n].fp
                   PROVE  m = n
        BY DEF OneEach
      <3>3. CASE m \in DOMAIN issues /\ n \in DOMAIN issues
        BY <2>3, <2>4, <2>8, <3>3 DEF OneEach
      <3>4. CASE m \in DOMAIN issues /\ n = len + 1
        BY <2>1, <2>3, <2>4, <3>1, <3>4
      <3>5. CASE m = len + 1 /\ n \in DOMAIN issues
        BY <2>1, <2>3, <2>4, <3>1, <3>5
      <3> QED BY <3>2, <3>3, <3>4, <3>5
    <2> QED BY <1>2, <1>5, <2>5, <2>6, <2>7, <2>8
  <1>6. CASE Applied(reply) /\ tracker[j].target # 0
    <2>1. PICK n : n = tracker[j].target
      OBVIOUS
    <2>2. n \in DOMAIN issues /\ issues[n].fp = f
      BY <1>1, <1>2, <1>6, <2>1, RunFacts DEF AtWork
    <2>3. PICK new \in [fp : Fingerprint, open : BOOLEAN] :
            new = [issues[n] EXCEPT !.open = TRUE] /\ new.fp = f /\ new.open
      <3>1. PICK g \in Fingerprint, o \in BOOLEAN :
              issues[n] = [fp |-> g, open |-> o] /\ issues[n].fp = g
        BY <2>2, IssueFacts
      <3>2. PICK yes \in BOOLEAN : yes = TRUE
        OBVIOUS
      <3>3. PICK new : new = [issues[n] EXCEPT !.open = yes]
        OBVIOUS
      <3>4. new = [fp |-> g, open |-> yes]
        BY <3>1, <3>3
      <3>5. new \in [fp : Fingerprint, open : BOOLEAN] /\ new.fp = f /\ new.open = yes
        BY <2>2, <3>1, <3>4
      <3> QED BY <3>2, <3>3, <3>5
    <2>4. issues' = [issues EXCEPT ![n] = new]
      BY <1>6, <2>1, <2>3 DEF WriteIssue
    <2>5. /\ issues' \in Seq([fp : Fingerprint, open : BOOLEAN])
          /\ DOMAIN issues' = DOMAIN issues
          /\ \A i \in DOMAIN issues : issues'[i] = IF i = n THEN new ELSE issues[i]
      BY <2>2, <2>4, IssueFacts, ExceptSeq
    <2>6. Follows
      BY <2>2, <2>3, <2>5 DEF Follows
    <2>7. \A g \in Fingerprint : Listed(g) => Listed(g)'
      <3> SUFFICES ASSUME NEW g \in Fingerprint, NEW m \in DOMAIN issues,
                          issues[m].fp = g, issues[m].open
                   PROVE  Listed(g)'
        BY DEF Listed
      <3>1. issues'[m].fp = g /\ issues'[m].open
        BY <2>2, <2>3, <2>5
      <3> QED BY <2>5, <3>1 DEF Listed
    <2>8. Listed(f)'
      BY <2>2, <2>3, <2>5 DEF Listed
    <2>9. ASSUME Aims(j)
          PROVE  \A m \in DOMAIN issues' : issues'[m].open /\ issues'[m].fp = f => m = n
      BY <1>1, <1>2, <2>1, <2>2, <2>3, <2>5, <2>9 DEF Aims
    <2>10. ASSUME Aims(j), OneEach PROVE OneEach'
      <3> SUFFICES ASSUME NEW k \in DOMAIN issues', NEW m \in DOMAIN issues',
                          issues'[k].open, issues'[m].open, issues'[k].fp = issues'[m].fp
                   PROVE  k = m
        BY DEF OneEach
      <3>1. CASE issues'[k].fp = f
        BY <2>9, <2>10, <3>1
      <3>2. CASE issues'[k].fp # f
        <4>1. issues'[k] = issues[k] /\ issues'[m] = issues[m]
          BY <2>2, <2>3, <2>5, <3>2
        <4> QED BY <2>5, <2>10, <4>1 DEF OneEach
      <3> QED BY <3>1, <3>2
    <2> QED BY <1>2, <2>1, <2>6, <2>7, <2>8, <2>9, <2>10
  <1> QED BY <1>4, <1>5, <1>6
LEMMA WriteIssueKeeps ==
  ASSUME IsInv, NEW j \in Tracker, NEW reply \in Reply, WriteIssue(j, reply)
  PROVE  IsInv'
  <1>1. tracker[j].stage = "write" /\ UNCHANGED <<findings, shown, clean>>
    BY DEF WriteIssue
  <1>2. PICK f \in Fingerprint : f = Current(j)
    BY <1>1, RunFacts
  <1>3. /\ Tracking(j) /\ tracker[j] \in Trackers /\ AtWork(j)
        /\ f \in tracker[j].left /\ f \in findings[j]
        /\ findings[j] \subseteq Fingerprint
        /\ calmIssues => Aims(j) /\ OneEach
        /\ j \in clean => Keeps(j)
    BY <1>1, <1>2, RunFacts
  <1>4. PICK v : v = Verdict("github", reply, tracker[j].attempt)
    OBVIOUS
  <1>5. PICK left \in SUBSET Fingerprint :
          left = tracker[j].left \ {f} /\ left \subseteq findings[j]
    BY <1>1, <1>3 DEF AtWork
  <1>6. PICK next \in Trackers :
          /\ next = NextFinding(tracker[j], left) /\ next.left = left
          /\ next.stage = IF left = {} THEN "sweep" ELSE "search"
    BY <1>3, NextFindingIs
  <1>7. PICK refused \in Trackers : refused = At("refused") /\ refused.stage = "refused"
    BY AtIs DEF TrackerStage
  <1>8. /\ Attempt(j, v, next, refused)
        /\ calmIssues' = (calmIssues /\ ~(tracker[j].target = 0 /\ Applied(reply) /\ v = "again"))
    BY <1>2, <1>4, <1>5, <1>6, <1>7 DEF WriteIssue
  <1>9. PICK after \in Trackers :
          /\ tracker' = [tracker EXCEPT ![j] = after]
          /\ settled' = IF after.stage = "done" THEN j ELSE settled
          /\ \/ v = "answered" /\ reply = "ok" /\ after = next
             \/ v = "failed" /\ after = refused
             \/ /\ v = "again" /\ after.stage = "write" /\ after.left = tracker[j].left
                /\ after.target = tracker[j].target
             \/ v = "crashed" /\ after.stage = "crashed"
    <2>1. IsTypeOK
      BY DEF IsInv
    <2> QED BY <1>1, <1>4, <1>8, <2>1, AttemptIs
  <1>10. tracker'[j] = after
    BY <1>9 DEF IsInv, IsTypeOK
  <1>11. /\ after.stage \in {"search", "sweep", "refused", "write", "crashed"}
         /\ after.stage \in {"search", "sweep"} =>
              /\ v = "answered" /\ Applied(reply) /\ after.left = left
              /\ after.stage = "sweep" => left = {}
              /\ after.stage = "search" => left # {}
         /\ after.stage = "write" =>
              v = "again" /\ after.left = tracker[j].left /\ after.target = tracker[j].target
    BY <1>6, <1>7, <1>9 DEF Applied
  <1>12. after.stage = "write" => Current(j)' = f
    BY <1>2, <1>10, <1>11 DEF Current
  <1>13. /\ Follows
         /\ \A g \in Fingerprint : Listed(g) => Listed(g)'
         /\ Applied(reply) => Listed(f)'
         /\ Aims(j) /\ OneEach => OneEach'
         /\ Aims(j) /\ ~(tracker[j].target = 0 /\ Applied(reply)) =>
              \A m \in DOMAIN issues' :
                issues'[m].open /\ issues'[m].fp = f => m = tracker[j].target
    BY <1>2, WriteFacts
  <1>14. AtWork(j)'
    <2>1. CASE after.stage = "write"
      <3>1. after.left # {} /\ after.left \subseteq findings'[j]
        BY <1>1, <1>3, <1>11, <2>1 DEF AtWork
      <3>2. after.target # 0 =>
              after.target \in DOMAIN issues' /\ issues'[after.target].fp = f
        BY <1>1, <1>2, <1>3, <1>11, <1>13, <2>1 DEF AtWork, Follows
      <3> QED BY <1>10, <1>12, <2>1, <3>1, <3>2 DEF AtWork
    <2>2. CASE after.stage # "write"
      BY <1>1, <1>5, <1>10, <1>11, <2>2 DEF AtWork
    <2> QED BY <2>1, <2>2
  <1>15. ASSUME calmIssues' PROVE Aims(j)' /\ OneEach'
    <2>1. Aims(j) /\ OneEach
      BY <1>3, <1>8, <1>15
    <2>2. Aims(j)'
      <3> SUFFICES ASSUME after.stage = "write" PROVE Aims(j)'
        BY <1>10 DEF Aims
      <3>1. ~(tracker[j].target = 0 /\ Applied(reply))
        BY <1>8, <1>11, <1>15
      <3> QED BY <1>10, <1>11, <1>12, <1>13, <2>1, <3>1 DEF Aims
    <2> QED BY <1>13, <2>1, <2>2
  <1>16. ASSUME j \in clean', Tracking(j)' PROVE Keeps(j)'
    <2>1. Keeps(j) /\ after.stage \in {"search", "sweep", "write"}
      BY <1>1, <1>3, <1>10, <1>11, <1>16 DEF Tracking
    <2>2. \A g \in findings[j] : g \in tracker[j].left \/ Listed(g)
      BY <1>1, <2>1 DEF Keeps, Pending
    <2>3. \A g \in findings[j] : g \in Pending(j)' \/ Listed(g)'
      <3> TAKE g \in findings[j]
      <3>1. CASE after.stage = "write"
        <4>1. Pending(j)' = tracker[j].left
          BY <1>10, <1>11, <3>1 DEF Pending
        <4> QED BY <1>3, <1>13, <2>2, <4>1
      <3>2. CASE after.stage # "write"
        <4>1. Applied(reply) /\ Pending(j)' = left
          BY <1>10, <1>11, <2>1, <3>2 DEF Pending
        <4>2. CASE g = f
          BY <1>13, <4>1, <4>2
        <4>3. CASE g # f
          BY <1>3, <1>5, <1>13, <2>2, <4>1, <4>3
        <4> QED BY <4>2, <4>3
      <3> QED BY <3>1, <3>2
    <2> QED BY <1>1, <1>10, <2>1, <2>3 DEF Keeps
  <1>17. /\ clean' \subseteq clean /\ calmIssues' \in BOOLEAN /\ (calmIssues' => calmIssues)
         /\ after.stage # "done"
    BY <1>1, <1>8, <1>11 DEF IsInv, IsTypeOK
  <1> QED BY <1>1, <1>3, <1>9, <1>13, <1>14, <1>15, <1>16, <1>17, RunStep

LEMMA SweepKeeps ==
  ASSUME IsInv, NEW j \in Tracker, NEW reply \in Reply, Sweep(j, reply)
  PROVE  IsInv'
  <1>1. tracker[j].stage = "sweep" /\ UNCHANGED <<findings, issues, shown, calmIssues>>
    BY DEF Sweep
  <1>2. /\ Tracking(j) /\ tracker[j] \in Trackers /\ shown \subseteq DOMAIN issues
        /\ calmIssues \in BOOLEAN
        /\ calmIssues => OneEach
        /\ j \in clean => Keeps(j)
    BY <1>1, RunFacts DEF IsInv, IsTypeOK
  <1>3. PICK v : v = Verdict("github", reply, tracker[j].attempt)
    OBVIOUS
  <1>4. PICK refused \in Trackers : refused = At("refused") /\ refused.stage = "refused"
    BY AtIs DEF TrackerStage
  <1>5. PICK page \in Pages :
          LET doomed == {n \in page : issues[n].fp \notin findings[j]}
          IN  Attempt(j, v, NextDoomed(tracker[j], doomed), refused)
    BY <1>3, <1>4 DEF Sweep
  <1>6. clean' = IF v = "answered" /\ (Stale \/ shown \notin Pages) THEN clean \ {j} ELSE clean
    BY <1>3 DEF Sweep
  <1>7. page \subseteq shown /\ (shown \in Pages => page = shown)
    BY SearchPageIsPositive DEF Pages, kSubset
  <1>8. PICK doomed \in SUBSET Nat : doomed = {n \in page : issues[n].fp \notin findings[j]}
    <2>1. PICK len \in Nat : DOMAIN issues = 1..len
      BY IssueFacts
    <2>2. PICK d : d = {n \in page : issues[n].fp \notin findings[j]}
      OBVIOUS
    <2>3. d \subseteq 1..len
      BY <1>2, <1>7, <2>1, <2>2
    <2> QED BY <2>2, <2>3
  <1>9. PICK next \in Trackers :
          /\ next = NextDoomed(tracker[j], doomed) /\ next.doomed = doomed
          /\ next.stage = IF doomed = {} THEN "done" ELSE "close"
    BY <1>2, NextDoomedIs
  <1>10. Attempt(j, v, next, refused)
    BY <1>5, <1>8, <1>9
  <1>11. PICK after \in Trackers :
          /\ tracker' = [tracker EXCEPT ![j] = after]
          /\ settled' = IF after.stage = "done" THEN j ELSE settled
          /\ \/ v = "answered" /\ after = next
             \/ v = "failed" /\ after = refused
             \/ v = "again" /\ after.stage = "sweep"
             \/ v = "crashed" /\ after.stage = "crashed"
    <2>1. IsTypeOK
      BY DEF IsInv
    <2> QED BY <1>1, <1>3, <1>10, <2>1, AttemptIs
  <1>12. tracker'[j] = after
    BY <1>11 DEF IsInv, IsTypeOK
  <1>13. /\ after.stage \in {"done", "close", "refused", "sweep", "crashed"}
         /\ after.stage \in {"done", "close"} => v = "answered" /\ after.doomed = doomed
         /\ after.stage = "done" => doomed = {}
         /\ after.stage = "close" => doomed # {}
    BY <1>4, <1>9, <1>11
  <1>14. AtWork(j)'
    <2>1. \A n \in doomed : n \in DOMAIN issues' /\ issues'[n].fp \notin findings'[j]
      BY <1>1, <1>2, <1>7, <1>8
    <2> QED BY <1>12, <1>13, <2>1 DEF AtWork
  <1>15. calmIssues' => Aims(j)' /\ OneEach'
    <2>1. Aims(j)'
      BY <1>12, <1>13 DEF Aims
    <2> QED BY <1>1, <1>2, <2>1, SameIssues
  <1>16. ASSUME j \in clean'
         PROVE  /\ \A f \in findings'[j] : Listed(f)'
                /\ after.stage \in {"done", "close"} =>
                     \A n \in DOMAIN issues' :
                       issues'[n].open /\ issues'[n].fp \notin findings'[j] => n \in doomed
    <2>1. Keeps(j)
      BY <1>2, <1>6, <1>16
    <2>2. \A f \in findings[j] : Listed(f)
      BY <1>1, <2>1 DEF Keeps, Pending
    <2>3. after.stage \in {"done", "close"} => ~Stale /\ page = shown
      BY <1>6, <1>7, <1>13, <1>16 DEF IsInv, IsTypeOK
    <2> QED BY <1>1, <1>8, <2>2, <2>3, SameIssues DEF Stale
  <1>17. j \in clean' /\ Tracking(j)' => Keeps(j)'
    BY <1>1, <1>12, <1>13, <1>16 DEF Keeps, Tracking
  <1>18. j \in clean' /\ after.stage = "done" => Agrees(j)'
    BY <1>1, <1>13, <1>16 DEF Agrees
  <1>19. clean' \subseteq clean
    BY <1>6
  <1> QED BY <1>1, <1>2, <1>11, <1>14, <1>15, <1>17, <1>18, <1>19, SameIssues, RunStep

\* The issue a run closes next, and the issues once it is closed.
LEMMA DoomedFacts ==
  ASSUME IsInv, NEW j \in Tracker, tracker[j].stage \in {"close", "remark"}
  PROVE  LET n == Min(tracker[j].doomed)
         IN  /\ tracker[j].doomed \in SUBSET Nat /\ n \in tracker[j].doomed
             /\ n \in DOMAIN issues /\ issues[n].fp \notin findings[j]
             /\ \A m \in tracker[j].doomed : m \in DOMAIN issues /\ issues[m].fp \notin findings[j]
  <1>1. AtWork(j) /\ tracker[j] \in Trackers
    BY RunFacts
  <1>2. PICK S \in SUBSET Nat : S = tracker[j].doomed
    BY <1>1 DEF Trackers
  <1>3. S # {} /\ \A m \in S : m \in DOMAIN issues /\ issues[m].fp \notin findings[j]
    BY <1>1, <1>2 DEF AtWork
  <1>4. PICK len \in Nat : DOMAIN issues = 1..len
    BY IssueFacts
  <1>5. IsFiniteSet(S)
    <2>1. \A m \in S : m <= len
      BY <1>3, <1>4
    <2> QED BY <2>1, FS_BoundedSetOfNaturals
  <1>6. Min(S) \in S
    BY <1>3, <1>5, LeastOf
  <1> QED BY <1>2, <1>3, <1>6

LEMMA IssueChanged ==
  ASSUME IsInv, NEW n \in DOMAIN issues, NEW new \in [fp : Fingerprint, open : BOOLEAN],
         NEW later, later = [issues EXCEPT ![n] = new]
  PROVE  /\ later \in Seq([fp : Fingerprint, open : BOOLEAN])
         /\ DOMAIN later = DOMAIN issues
         /\ \A i \in DOMAIN issues : later[i] = IF i = n THEN new ELSE issues[i]
  BY IssueFacts, ExceptSeq

LEMMA ClosingIs ==
  ASSUME IsInv, NEW n \in DOMAIN issues, issues' = [issues EXCEPT ![n].open = FALSE]
  PROVE  /\ Follows /\ (OneEach => OneEach')
         /\ DOMAIN issues' = DOMAIN issues /\ ~issues'[n].open
         /\ \A m \in DOMAIN issues :
              issues'[m].fp = issues[m].fp /\ (m # n => issues'[m].open = issues[m].open)
  <1>1. PICK f \in Fingerprint, o \in BOOLEAN :
          issues[n] = [fp |-> f, open |-> o] /\ issues[n].fp = f
    <2>1. issues[n] \in [fp : Fingerprint, open : BOOLEAN]
      BY IssueFacts
    <2> QED BY <2>1
  <1>2. PICK no \in BOOLEAN : no = FALSE
    OBVIOUS
  <1>3. PICK new : new = [issues[n] EXCEPT !.open = no]
    OBVIOUS
  <1>4. new = [fp |-> f, open |-> no]
    BY <1>1, <1>3
  <1>5. new \in [fp : Fingerprint, open : BOOLEAN] /\ new.fp = f /\ new.open = no
    BY <1>4
  <1>6. issues' = [issues EXCEPT ![n] = new]
    BY <1>2, <1>3
  <1>7. /\ issues' \in Seq([fp : Fingerprint, open : BOOLEAN])
        /\ DOMAIN issues' = DOMAIN issues
        /\ \A i \in DOMAIN issues : issues'[i] = IF i = n THEN new ELSE issues[i]
    <2>1. PICK later : later = [issues EXCEPT ![n] = new] /\ issues' = later
      BY <1>6
    <2>2. /\ later \in Seq([fp : Fingerprint, open : BOOLEAN])
          /\ DOMAIN later = DOMAIN issues
          /\ \A i \in DOMAIN issues : later[i] = IF i = n THEN new ELSE issues[i]
      BY <1>5, <2>1, IssueChanged
    <2> QED BY <2>1, <2>2
  <1>8. \A m \in DOMAIN issues :
          issues'[m].fp = issues[m].fp /\ (m # n => issues'[m].open = issues[m].open)
    BY <1>1, <1>5, <1>7
  <1>9. ~issues'[n].open
    BY <1>2, <1>5, <1>7
  <1>10. OneEach => OneEach'
    BY <1>7, <1>8, <1>9 DEF OneEach
  <1> QED BY <1>7, <1>8, <1>9, <1>10 DEF Follows

LEMMA CloseKeeps ==
  ASSUME IsInv, NEW j \in Tracker, NEW reply \in Reply, CloseIssue(j, reply)
  PROVE  IsInv'
  <1>1. tracker[j].stage = "close" /\ UNCHANGED <<findings, shown, calmIssues>>
    BY DEF CloseIssue
  <1>2. /\ Tracking(j) /\ tracker[j] \in Trackers /\ calmIssues \in BOOLEAN
        /\ calmIssues => OneEach
        /\ j \in clean => Keeps(j)
    BY <1>1, RunFacts DEF IsInv, IsTypeOK
  <1>3. PICK n : n = Min(tracker[j].doomed)
    OBVIOUS
  <1>4. PICK doomed \in SUBSET Nat : doomed = tracker[j].doomed
    BY <1>1, DoomedFacts
  <1>5. /\ n \in doomed /\ n \in DOMAIN issues /\ issues[n].fp \notin findings[j]
        /\ \A m \in doomed : m \in DOMAIN issues /\ issues[m].fp \notin findings[j]
    BY <1>1, <1>3, <1>4, DoomedFacts
  <1>6. PICK v : v = Verdict("github", reply, tracker[j].attempt)
    OBVIOUS
  <1>7. PICK closed \in Trackers :
          /\ closed = ClosedNow(tracker[j]) /\ closed.stage = "remark"
          /\ closed.doomed = doomed
    <2>1. PICK e : e = ClosedNow(tracker[j])
      OBVIOUS
    <2> QED BY <1>2, <1>4, <2>1, ClosedIs
  <1>8. PICK rest \in SUBSET Nat : rest = doomed \ {n}
    OBVIOUS
  <1>9. PICK next \in Trackers :
          /\ next = NextDoomed(tracker[j], rest) /\ next.doomed = rest
          /\ next.stage = IF rest = {} THEN "done" ELSE "close"
    BY <1>2, NextDoomedIs
  <1>10. /\ Attempt(j, v, closed, next)
         /\ issues' = IF Applied(reply) THEN [issues EXCEPT ![n].open = FALSE] ELSE issues
         /\ clean' = IF v = "failed" THEN clean \ {j} ELSE clean
    BY <1>3, <1>4, <1>6, <1>7, <1>8, <1>9 DEF CloseIssue, ClosedNow
  <1>11. PICK after \in Trackers :
          /\ tracker' = [tracker EXCEPT ![j] = after]
          /\ settled' = IF after.stage = "done" THEN j ELSE settled
          /\ \/ v = "answered" /\ reply = "ok" /\ after = closed
             \/ v = "failed" /\ after = next
             \/ v = "again" /\ after.stage = "close" /\ after.doomed = doomed
             \/ v = "crashed" /\ after.stage = "crashed"
    <2>1. IsTypeOK
      BY DEF IsInv
    <2> QED BY <1>1, <1>4, <1>6, <1>10, <2>1, AttemptIs
  <1>12. tracker'[j] = after
    BY <1>11 DEF IsInv, IsTypeOK
  <1>13. /\ after.stage \in {"remark", "done", "close", "crashed"}
         /\ after.stage = "remark" => Applied(reply) /\ after.doomed = doomed
         /\ after.stage = "done" => v = "failed"
         /\ after.stage = "close" =>
              after.doomed # {} /\ (after.doomed = doomed \/ (after.doomed = rest /\ v = "failed"))
    <2>1. CASE v = "answered" /\ reply = "ok" /\ after = closed
      BY <1>7, <2>1 DEF Applied
    <2>2. CASE v = "failed" /\ after = next
      BY <1>9, <2>2
    <2>3. CASE v = "again" /\ after.stage = "close" /\ after.doomed = doomed
      <3>1. doomed # {}
        BY <1>5
      <3>2. after.stage # "remark" /\ after.stage # "done"
        BY <2>3
      <3>3. after.stage \in {"remark", "done", "close", "crashed"}
        BY <2>3
      <3>4. after.doomed # {}
        BY <2>3, <3>1
      <3> QED BY <2>3, <3>2, <3>3, <3>4, Zenon
    <2>4. CASE v = "crashed" /\ after.stage = "crashed"
      BY <2>4
    <2> QED BY <1>11, <2>1, <2>2, <2>3, <2>4
  <1>14. /\ Follows /\ (OneEach => OneEach')
         /\ DOMAIN issues' = DOMAIN issues /\ (Applied(reply) => ~issues'[n].open)
         /\ \A m \in DOMAIN issues :
              /\ issues'[m].fp = issues[m].fp
              /\ issues'[m].open => issues[m].open
              /\ m # n => issues'[m].open = issues[m].open
    <2>1. CASE Applied(reply)
      <3>1. issues' = [issues EXCEPT ![n].open = FALSE]
        BY <1>10, <2>1
      <3> QED BY <1>5, <3>1, ClosingIs
    <2>2. CASE ~Applied(reply)
      BY <1>10, <2>2, SameIssues
    <2> QED BY <2>1, <2>2
  <1>15. AtWork(j)'
    <2>1. \A m \in doomed : m \in DOMAIN issues' /\ issues'[m].fp \notin findings'[j]
      BY <1>1, <1>5, <1>14
    <2> QED BY <1>5, <1>8, <1>12, <1>13, <2>1 DEF AtWork
  <1>16. calmIssues' => Aims(j)' /\ OneEach'
    <2>1. Aims(j)'
      BY <1>12, <1>13 DEF Aims
    <2> QED BY <1>1, <1>2, <1>14, <2>1
  <1>17. ASSUME j \in clean', Tracking(j)' PROVE Keeps(j)'
    <2>1. Keeps(j) /\ v # "failed" /\ after.stage \in {"remark", "close"}
      BY <1>2, <1>10, <1>12, <1>13, <1>17 DEF Tracking, IsInv, IsTypeOK
    <2>2. after.doomed = doomed
      BY <1>13, <2>1
    <2>3. \A f \in findings[j] : Listed(f)
      BY <1>1, <2>1 DEF Keeps, Pending
    <2>4. \A f \in findings[j] : Listed(f)'
      BY <1>5, <1>14, <2>3 DEF Listed
    <2>5. \A m \in DOMAIN issues' :
            issues'[m].open /\ issues'[m].fp \notin findings[j] => m \in doomed
      BY <1>1, <1>4, <1>14, <2>1 DEF Keeps
    <2>6. after.stage = "remark" => ~issues'[Min(after.doomed)].open
      BY <1>3, <1>4, <1>13, <1>14
    <2> QED BY <1>1, <1>12, <2>1, <2>2, <2>4, <2>5, <2>6 DEF Keeps
  <1>18. ~(j \in clean' /\ after.stage = "done")
    BY <1>10, <1>13
  <1>19. clean' \subseteq clean
    BY <1>10
  <1> QED BY <1>1, <1>2, <1>11, <1>14, <1>15, <1>16, <1>17, <1>18, <1>19, RunStep

LEMMA RemarkKeeps ==
  ASSUME IsInv, NEW j \in Tracker, NEW reply \in Reply, RemarkClosed(j, reply)
  PROVE  IsInv'
  <1>1. /\ tracker[j].stage = "remark"
        /\ UNCHANGED <<findings, issues, shown, clean, calmIssues>>
    BY DEF RemarkClosed
  <1>2. /\ Tracking(j) /\ tracker[j] \in Trackers /\ calmIssues \in BOOLEAN
        /\ calmIssues => OneEach
        /\ j \in clean => Keeps(j)
    BY <1>1, RunFacts DEF IsInv, IsTypeOK
  <1>3. PICK n : n = Min(tracker[j].doomed)
    OBVIOUS
  <1>4. PICK doomed \in SUBSET Nat : doomed = tracker[j].doomed
    BY <1>1, DoomedFacts
  <1>5. /\ n \in doomed
        /\ \A m \in doomed : m \in DOMAIN issues /\ issues[m].fp \notin findings[j]
    BY <1>1, <1>3, <1>4, DoomedFacts
  <1>6. PICK v : v = Verdict("github", reply, tracker[j].attempt)
    OBVIOUS
  <1>7. PICK rest \in SUBSET Nat : rest = doomed \ {n}
    OBVIOUS
  <1>8. PICK next \in Trackers :
          /\ next = NextDoomed(tracker[j], rest) /\ next.doomed = rest
          /\ next.stage = IF rest = {} THEN "done" ELSE "close"
    BY <1>2, NextDoomedIs
  <1>9. Attempt(j, v, next, next)
    BY <1>3, <1>4, <1>6, <1>7, <1>8 DEF RemarkClosed
  <1>10. PICK after \in Trackers :
          /\ tracker' = [tracker EXCEPT ![j] = after]
          /\ settled' = IF after.stage = "done" THEN j ELSE settled
          /\ \/ after = next
             \/ after.stage = "remark" /\ after.doomed = doomed
             \/ after.stage = "crashed"
    <2>1. IsTypeOK
      BY DEF IsInv
    <2> QED BY <1>1, <1>4, <1>6, <1>9, <2>1, AttemptIs
  <1>11. tracker'[j] = after
    BY <1>10 DEF IsInv, IsTypeOK
  <1>12. /\ after.stage \in {"done", "close", "remark", "crashed"}
         /\ after.stage = "done" => rest = {}
         /\ after.stage = "close" => rest # {} /\ after.doomed = rest
         /\ after.stage = "remark" => after.doomed = doomed
    BY <1>8, <1>10
  <1>13. AtWork(j)'
    BY <1>1, <1>5, <1>7, <1>11, <1>12 DEF AtWork
  <1>14. calmIssues' => Aims(j)' /\ OneEach'
    <2>1. Aims(j)'
      BY <1>11, <1>12 DEF Aims
    <2> QED BY <1>1, <1>2, <2>1, SameIssues
  <1>15. ASSUME j \in clean'
         PROVE  /\ \A f \in findings'[j] : Listed(f)'
                /\ ~issues'[n].open
                /\ \A m \in DOMAIN issues' :
                     issues'[m].open /\ issues'[m].fp \notin findings'[j] => m \in rest
    <2>1. Keeps(j)
      BY <1>1, <1>2, <1>15
    <2>2. \A f \in findings[j] : Listed(f)
      BY <1>1, <2>1 DEF Keeps, Pending
    <2>3. /\ ~issues[n].open
          /\ \A m \in DOMAIN issues :
               issues[m].open /\ issues[m].fp \notin findings[j] => m \in doomed
      BY <1>1, <1>3, <1>4, <2>1 DEF Keeps
    <2> QED BY <1>1, <1>7, <2>2, <2>3, SameIssues
  <1>16. ASSUME j \in clean', Tracking(j)' PROVE Keeps(j)'
    <2>1. after.stage \in {"close", "remark"}
      BY <1>11, <1>12, <1>16 DEF Tracking
    <2>2. after.stage = "remark" => Min(after.doomed) = n
      BY <1>3, <1>4, <1>12
    <2> QED BY <1>7, <1>11, <1>12, <1>15, <1>16, <2>1, <2>2 DEF Keeps
  <1>17. j \in clean' /\ after.stage = "done" => Agrees(j)'
    BY <1>12, <1>15 DEF Agrees
  <1> QED BY <1>1, <1>2, <1>10, <1>13, <1>14, <1>16, <1>17, SameIssues, RunStep

LEMMA ReindexKeeps ==
  ASSUME IsInv, NEW n \in DOMAIN issues, Reindex(n) PROVE IsInv'
  <1>1. /\ UNCHANGED <<findings, issues, tracker, settled, clean, calmIssues>>
        /\ shown' \subseteq DOMAIN issues
    BY DEF Reindex, IsInv, IsTypeOK
  <1>2. IsTypeOK'
    BY <1>1 DEF IsInv, IsTypeOK
  <1>3. \A j \in Tracker :
          /\ AtWork(j)' = AtWork(j) /\ Aims(j)' = Aims(j) /\ Keeps(j)' = Keeps(j)
          /\ Tracking(j)' = Tracking(j)
    BY <1>1 DEF AtWork, Aims, Keeps, Tracking, Current, Pending, Listed
  <1>4. OneEach' = OneEach /\ Agrees(settled)' = Agrees(settled)
    BY <1>1 DEF OneEach, Agrees, Listed
  <1>5. clean \subseteq Tracker
    BY DEF IsInv, IsTypeOK
  <1> QED BY <1>1, <1>2, <1>3, <1>4, <1>5 DEF IsInv

LEMMA IsKeeps == IsInv /\ [IsNext]_isVars => IsInv'
  <1> SUFFICES ASSUME IsInv, [IsNext]_isVars PROVE IsInv'
    OBVIOUS
  <1>1. ASSUME NEW j \in Tracker, TrackerStep(j) PROVE IsInv'
    <2>1. ASSUME NEW autoCreate \in BOOLEAN, StartTracker(j, autoCreate) PROVE IsInv'
      BY <2>1, StartKeeps
    <2>2. ASSUME NEW reply \in Reply, SearchIssue(j, reply) PROVE IsInv'
      BY <2>2, SearchKeeps
    <2>3. ASSUME NEW reply \in Reply, WriteIssue(j, reply) PROVE IsInv'
      BY <2>3, WriteIssueKeeps
    <2>4. ASSUME NEW reply \in Reply, Sweep(j, reply) PROVE IsInv'
      BY <2>4, SweepKeeps
    <2>5. ASSUME NEW reply \in Reply, CloseIssue(j, reply) PROVE IsInv'
      BY <2>5, CloseKeeps
    <2>6. ASSUME NEW reply \in Reply, RemarkClosed(j, reply) PROVE IsInv'
      BY <2>6, RemarkKeeps
    <2> QED BY <1>1, <2>1, <2>2, <2>3, <2>4, <2>5, <2>6 DEF TrackerStep
  <1>2. ASSUME NEW n \in DOMAIN issues, Reindex(n) PROVE IsInv'
    BY <1>2, ReindexKeeps
  <1>3. CASE UNCHANGED isVars
    <2>1. UNCHANGED <<findings, issues, shown, tracker, settled, clean, calmIssues>>
      BY <1>3 DEF isVars
    <2> QED BY <2>1 DEF IsInv, IsTypeOK, AtWork, Aims, OneEach, Keeps, Agrees, Tracking,
                        Current, Pending, Listed
  <1> QED BY <1>1, <1>2, <1>3 DEF IsNext

LEMMA IsStarts == IsInit => IsInv
  <1> SUFFICES ASSUME IsInit PROVE IsInv
    OBVIOUS
  <1>1. PICK t \in Trackers : t = At("waiting") /\ t.stage = "waiting"
    BY AtIs DEF TrackerStage
  <1>2. tracker = [j \in Tracker |-> t]
    BY <1>1 DEF IsInit
  <1>3. issues \in Seq([fp : Fingerprint, open : BOOLEAN]) /\ DOMAIN issues = {}
    BY DEF IsInit
  <1>4. IsTypeOK
    BY <1>2, <1>3 DEF IsInit, IsTypeOK
  <1>5. \A j \in Tracker : tracker[j].stage = "waiting" /\ ~Tracking(j)
    BY <1>1, <1>2 DEF Tracking
  <1>6. \A j \in Tracker : AtWork(j) /\ Aims(j)
    BY <1>5 DEF AtWork, Aims
  <1>7. OneEach
    BY <1>3 DEF OneEach
  <1>8. \A j \in clean : ~Tracking(j)
    BY <1>5 DEF IsInit
  <1>9. settled \notin clean
    BY NoTrackerIsNone DEF IsInit
  <1> QED BY <1>4, <1>5, <1>6, <1>7, <1>8, <1>9 DEF IsInv

LEMMA IsServes == IsInv => IssuesFollowFindings
  <1> SUFFICES ASSUME IsInv PROVE IssuesFollowFindings
    OBVIOUS
  <1>1. OneOpenIssue
    <2> SUFFICES ASSUME calmIssues, NEW f \in Fingerprint
                 PROVE  Cardinality(OpenIssues(f)) <= 1
      BY DEF OneOpenIssue
    <2>1. \A m, n \in OpenIssues(f) : m = n
      BY DEF OpenIssues, IsInv, OneEach
    <2>2. CASE OpenIssues(f) = {}
      BY <2>2, FS_EmptySet
    <2>3. CASE OpenIssues(f) # {}
      <3>1. PICK n \in OpenIssues(f) : OpenIssues(f) = {n}
        BY <2>1, <2>3
      <3> QED BY <3>1, FS_Singleton
    <2> QED BY <2>2, <2>3
  <1>2. TrackerAgrees
    <2> SUFFICES ASSUME settled \in clean
                 PROVE  {f \in Fingerprint : OpenIssues(f) # {}} = findings[settled]
      BY DEF TrackerAgrees
    <2>1. Agrees(settled) /\ findings[settled] \subseteq Fingerprint
      BY DEF IsInv, IsTypeOK
    <2>2. \A f : OpenIssues(f) # {} <=> Listed(f)
      BY DEF OpenIssues, Listed
    <2>3. \A f \in Fingerprint : Listed(f) <=> f \in findings[settled]
      BY <2>1 DEF Agrees, Listed
    <2> QED BY <2>1, <2>2, <2>3
  <1> QED BY <1>1, <1>2 DEF IssuesFollowFindings

\* The issues, the index and the runs keep their types: the index shows only
\* issues that exist, and no request has more attempts than the client allows.
THEOREM IssuesTyped == IsSpec => []IsTypeOK
  <1>1. IsInv => IsTypeOK
    BY DEF IsInv
  <1> QED BY <1>1, IsStarts, IsKeeps, PTL DEF IsSpec

\* For any number of runs, findings and issues, any reply to any attempt and any
\* delay of the index: no finding has two open issues unless runs overlapped,
\* searched a stale index or sent a creation again, and a run that was alone and
\* could see and close leaves open issues for its findings and for no other
\* (upsert_issue, close_resolved_issues).
THEOREM IssuesStayInStep == IsSpec => []IssuesFollowFindings
  BY IsStarts, IsKeeps, IsServes, PTL DEF IsSpec

(***************************************************************************)
(* The four components together, as the run composes them.                 *)
(***************************************************************************)
LEMMA SpecsTyped == SpInv => SpTypeOK
  <1> SUFFICES ASSUME SpInv PROVE SpTypeOK
    OBVIOUS
  <1>1. gen.stage \in {"idle", "write", "done"}
    BY DEF SpInv, GenInv, Idle, Writing, Finished
  <1>2. fix.stage \in {"idle", "next", "write"}
    BY DEF SpInv, FixInv, Idle, Considering, Repairing
  <1> QED BY <1>1, <1>2 DEF SpInv, SpTypeOK, TreeHonest, ListedExist, Fit

LEMMA AnalysisTyped == FaInv => FaTypeOK
  <1> SUFFICES ASSUME FaInv PROVE FaTypeOK
    OBVIOUS
  <1>1. CASE analysis = Unanalyzed
    BY <1>1 DEF FaInv, FaTypeOK, Unanalyzed, None, Claim, Category
  <1>2. CASE analysis # Unanalyzed
    <2>1. /\ analysis.claim = Categorize(signal)
          /\ analysis.retry = ShouldRetry(signal, Categorize(signal).category)
          /\ analysis.heal = HealerCandidate(Categorize(signal))
      BY <1>2 DEF FaInv
    <2>2. Categorize(signal) \in Made
      <3>1. PICK claim : claim = Categorize(signal)
        OBVIOUS
      <3>2. CASE claim = Claim("unknown", 30)
        BY <3>1, <3>2 DEF Claim, Made, Category
      <3>3. CASE claim # Claim("unknown", 30)
        BY <3>1, <3>3, SurestWins, ClaimsAre, ClaimsTyped
      <3> QED BY <3>2, <3>3
    <2>3. analysis.retry \in {"none", "retry", "no_action", "quarantine_candidate"}
      BY <2>1 DEF ShouldRetry
    <2>4. analysis.heal \in BOOLEAN
      BY <2>1 DEF HealerCandidate
    <2> QED BY <2>1, <2>2, <2>3, <2>4 DEF FaInv, FaTypeOK, Made
  <1> QED BY <1>1, <1>2

SharedInv == PrInv /\ IsInv /\ SpInv /\ FaInv

LEMMA SharedStart == SharedInit => SharedInv
  <1> SUFFICES ASSUME SharedInit PROVE SharedInv
    OBVIOUS
  <1>1. PrInit /\ IsInit /\ SpInit /\ FaInit
    BY DEF SharedInit, CommentRest, IssuesRest, SpecsRest, AnalysisRest
  <1>2. FaInv
    BY <1>1 DEF FaInit, FaInv
  <1> QED BY <1>1, <1>2, PrStarts, IsStarts, SpStarts DEF SharedInv

LEMMA SharedStep == SharedInv /\ [SharedNext]_sharedVars => SharedInv'
  <1> SUFFICES ASSUME SharedInv, [SharedNext]_sharedVars PROVE SharedInv'
    OBVIOUS
  <1>1. [PrNext]_prVars /\ [IsNext]_isVars /\ [SpNext]_spVars /\ [AnalyzeOne]_faVars
    BY DEF SharedNext, sharedVars
  <1> QED BY <1>1, PrKeeps, IsKeeps, SpKeeps, FaKeeps DEF SharedInv

\* Comment and thread, issues and index, tree and commands, and the analysis
\* have their types in every state of the run.
THEOREM SharedTyped == SharedSpec => []SharedTypeOK
  <1>1. SharedInv => SharedTypeOK
    BY SpecsTyped, AnalysisTyped DEF SharedInv, SharedTypeOK, PrInv, IsInv
  <1> QED BY <1>1, SharedStart, SharedStep, PTL DEF SharedSpec

=============================================================================
