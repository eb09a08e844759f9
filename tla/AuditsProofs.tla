---------------------------- MODULE AuditsProofs ----------------------------
(***************************************************************************)
(* Proofs about what is concluded from what was read: the four audits of   *)
(* MCParts, whose verdicts follow from what they saw, and the planner,     *)
(* whose specs follow from the discovery graph.  They hold for any checks, *)
(* routes, events, inputs and graphs, and executions of any length.        *)
(***************************************************************************)
EXTENDS MCParts, FiniteSetTheorems, SequenceTheorems, WellFoundedInduction, TLAPS

\* A finite set of numbers has a least element.
LEMMA LeastOf ==
  ASSUME NEW S \in SUBSET Nat, S # {}, IsFiniteSet(S)
  PROVE  Min(S) \in S
  <1> DEFINE Below(x) == {y \in S : y < x}
  <1> DEFINE T == {Below(x) : x \in S}
  <1>1. T # {} /\ T \subseteq FiniteSubsetsOf(S)
    <2>1. \A x \in S : Below(x) \subseteq S /\ IsFiniteSet(Below(x))
      BY FS_Subset
    <2> QED BY <2>1 DEF FiniteSubsetsOf
  <1>2. \E a \in T : \A b \in T : <<b, a>> \notin StrictSubsetOrdering(S)
    <2> HIDE DEF T
    <2>1. IsWellFoundedOn(StrictSubsetOrdering(S), FiniteSubsetsOf(S))
      BY FS_StrictSubsetOrderingWellFounded
    <2> QED BY <1>1, <2>1, WFMin
  <1>3. PICK x \in S : \A y \in S : <<Below(y), Below(x)>> \notin StrictSubsetOrdering(S)
    BY <1>2
  <1>4. ASSUME NEW y \in S, y < x PROVE FALSE
    <2>1. x \in Nat /\ y \in Nat /\ \A z \in S : z \in Nat
      OBVIOUS
    <2>2. y \in Below(x) /\ y \notin Below(y) /\ \A z \in Below(y) : z \in Below(x)
      <3>1. y \in Below(x)
        BY <1>4
      <3>2. y \notin Below(y)
        BY <2>1
      <3>3. ASSUME NEW z \in Below(y) PROVE z \in Below(x)
        BY <1>4, <2>1
      <3> QED BY <3>1, <3>2, <3>3
    <2>3. Below(y) \in SUBSET S /\ Below(x) \in SUBSET S
      OBVIOUS
    <2> HIDE DEF Below
    <2> QED BY <2>2, <2>3, <1>3 DEF StrictSubsetOrdering
  <1>5. \A y \in S : x <= y
    BY <1>4
  <1> QED BY <1>5 DEF Min

(***************************************************************************)
(* SupplyChain.  Once the questions to OSV are over, either nothing was    *)
(* left unasked or the run knows that OSV stopped answering, and its       *)
(* report is there in both cases.                                          *)
(***************************************************************************)
AfterOsv == {"freshness", "postinstall", "container", "licenses", "verdict", "done"}

ScInv ==
  /\ ScTypeOK
  /\ scStage \in AfterOsv /\ "osv" \in checks => "osv" \in reports /\ (unasked = {} \/ osvDown)
  /\ "osv" \notin checks => told = {}

\* A check of the last four, whatever it finds: the report is added to the
\* others and the run goes on.
LEMMA RunCheckKeeps ==
  ASSUME ScInv, NEW check \in {"freshness", "postinstall", "container", "licenses"},
         NEW severities \in SUBSET Severity, RunCheck(check, severities)
  PROVE  ScInv'
<1> USE DEF ScInv, ScTypeOK, RunCheck, Report
<1>1. After(check) \in AfterOsv
  BY DEF After, AfterOsv
<1>2. scStage \in AfterOsv
  BY DEF AfterOsv
<1>3. {check} \X severities \subseteq Check \X Severity
  BY DEF Check
<1>4. issues' \subseteq Check \X Severity /\ reports \subseteq reports' /\ reports' \subseteq checks \cup {"sbom"}
  BY <1>3
<1>5. scStage' \in Check \cup {"verdict", "done", "raised"}
  BY DEF After, Check
<1> QED BY <1>1, <1>2, <1>4, <1>5

LEMMA CapFacts ==
  ASSUME NEW found \in SUBSET Vuln
  PROVE  Cap(found) \subseteq found /\ {v.severity : v \in Cap(found)} \subseteq Severity
<1>1. Cap(found) \subseteq found
  BY DEF Cap
<1> QED BY <1>1, ScansAreFinite DEF Severity

LEMMA ScStarts == ScInit => ScInv
  BY DEF ScInit, ScInv, ScTypeOK, Check, AfterOsv

LEMMA ScSteps == ScInv /\ [ScNext]_scVars => ScInv'
<1> SUFFICES ASSUME ScInv, [ScNext]_scVars PROVE ScInv'
  OBVIOUS
<1>1. CASE BuildSbom
  <2>1. Named \subseteq Component
    BY DEF Named, ScInv, ScTypeOK
  <2>2. reports' \subseteq checks \cup {"sbom"} /\ unasked' \subseteq Component
    BY <1>1, <2>1 DEF BuildSbom, Report, ScInv, ScTypeOK
  <2> QED BY <1>1, <2>2 DEF BuildSbom, ScInv, ScTypeOK, AfterOsv, Check
<1>2. CASE SkipOsv
  BY <1>2 DEF SkipOsv, Skip, ScInv, ScTypeOK, AfterOsv, Check
<1>3. CASE AskOsv
  <2>1. PICK batch \in kSubset(Min({BatchSize, Cardinality(unasked)}), unasked) :
          /\ \E answer \in SUBSET (batch \X {"critical", "medium"}) : told' = told \cup answer
          /\ unasked' = unasked \ batch
    BY <1>3 DEF AskOsv
  <2>2. batch \subseteq unasked
    BY <2>1 DEF kSubset
  <2>3. PICK answer \in SUBSET (batch \X {"critical", "medium"}) : told' = told \cup answer
    BY <2>1
  <2>4. answer \subseteq Component \X Severity
    BY <2>2, <2>3 DEF ScInv, ScTypeOK, Severity
  <2> QED BY <1>3, <2>1, <2>3, <2>4 DEF AskOsv, ScInv, ScTypeOK, AfterOsv
<1>4. CASE LoseOsv
  BY <1>4 DEF LoseOsv, Report, ScInv, ScTypeOK, Check
<1>5. CASE EndOsv
  BY <1>5 DEF EndOsv, Report, ScInv, ScTypeOK, Check
<1>6. CASE Freshness
  <2>1. PICK found \in SUBSET {"medium"} : RunCheck("freshness", found)
    BY <1>6 DEF Freshness
  <2> QED BY <2>1, RunCheckKeeps DEF Severity
<1>7. CASE Postinstall
  <2>1. PICK found \in SUBSET {"high", "medium"} : RunCheck("postinstall", found)
    BY <1>7 DEF Postinstall
  <2> QED BY <2>1, RunCheckKeeps DEF Severity
<1>8. CASE Container
  <2>1. CASE RunCheck("container", {"info"})
    BY <2>1, RunCheckKeeps DEF Severity
  <2>2. CASE \E found \in SUBSET Vuln : RunCheck("container", {v.severity : v \in Cap(found)})
    BY <2>2, RunCheckKeeps, CapFacts
  <2> QED BY <1>8, <2>1, <2>2 DEF Container
<1>9. CASE Licenses
  <2>1. PICK found \in SUBSET {"high", "low"} : RunCheck("licenses", found)
    BY <1>9 DEF Licenses
  <2> QED BY <2>1, RunCheckKeeps DEF Severity
<1>10. CASE Raise
  BY <1>10 DEF Raise, ScInv, ScTypeOK, AfterOsv
<1>11. CASE Judge
  BY <1>11 DEF Judge, ScInv, ScTypeOK, AfterOsv, Check
<1>12. CASE UNCHANGED scVars
  BY <1>12 DEF scVars, ScInv, ScTypeOK, AfterOsv
<1> QED BY <1>1, <1>2, <1>3, <1>4, <1>5, <1>6, <1>7, <1>8, <1>9, <1>10, <1>11, <1>12 DEF ScNext

\* What comes before a dropped blocking issue comes before every issue that is
\* less severe, too, so a kept one cannot be less severe.
LEMMA WorstIsKept == CapKeepsTheWorst
<1> SUFFICES ASSUME NEW found \in SUBSET Vuln, NEW v \in found \ Cap(found), NEW u \in Cap(found),
                    v.severity \in Blocking, u.severity \notin Blocking
             PROVE  FALSE
  BY DEF CapKeepsTheWorst
<1> DEFINE before(x, y) == \/ Rank(x.severity) < Rank(y.severity)
                           \/ Rank(x.severity) = Rank(y.severity) /\ x.id < y.id
           Ahead(y) == {x \in found : before(x, y)}
<1>1. MaxFindings # 0 /\ u \in found
  BY DEF Cap
<1>2. Cardinality(Ahead(u)) < MaxFindings /\ ~(Cardinality(Ahead(v)) < MaxFindings)
  BY <1>1 DEF Cap
<1>3. /\ \A x \in Vuln : Rank(x.severity) \in Nat
      /\ Rank(v.severity) < Rank(u.severity)
  <2>1. Rank("critical") = 0 /\ Rank("high") = 1 /\ Rank("medium") = 2 /\ Rank("low") = 3 /\ Rank("info") = 4
    BY DEF Rank
  <2>2. \A x \in Vuln : x.severity \in {"critical", "high", "medium", "low", "info"}
    BY ScansAreFinite DEF Severity
  <2>3. v.severity \in {"critical", "high"} /\ u.severity \in {"medium", "low", "info"}
    BY <1>1, <2>2 DEF Blocking
  <2> QED BY <2>1, <2>2, <2>3
<1>5. Ahead(v) \subseteq Ahead(u)
  <2> SUFFICES ASSUME NEW x \in found, before(x, v) PROVE before(x, u)
    OBVIOUS
  <2>1. Rank(x.severity) \in Nat /\ Rank(u.severity) \in Nat /\ Rank(v.severity) \in Nat
    BY <1>1, <1>3
  <2> QED BY <1>3, <2>1
<1>6. IsFiniteSet(Ahead(u)) /\ IsFiniteSet(Ahead(v))
  BY ScansAreFinite, FS_Subset
<1> HIDE DEF Ahead
<1>7. Cardinality(Ahead(v)) <= Cardinality(Ahead(u))
  BY <1>5, <1>6, FS_Subset
<1> QED BY <1>2, <1>6, <1>7, CapIsNumber, FS_CardinalityType

LEMMA ScServes == ScInv => SupplyVerdictIsEarned
<1> SUFFICES ASSUME ScInv PROVE SupplyVerdictIsEarned
  OBVIOUS
<1>1. NothingToldIsLost
  BY DEF NothingToldIsLost, ScInv, AfterOsv, Findings
<1>2. SuccessIsEarned
  <2> SUFFICES ASSUME scStage \in {"done", "raised"}, ExitCode = "success"
               PROVE  /\ "osv" \in checks => unasked = {} /\ \A t \in told : t[2] \notin Blocking
                      /\ \A f \in issues : f[2] \notin Blocking
    BY DEF SuccessIsEarned
  <2>1. ModuleStatus # "errored" /\ ModuleStatus # "incomplete" /\ ~Blocked
    BY DEF ExitCode
  <2>2. scStage = "done"
    BY <2>1 DEF ModuleStatus
  <2>3. \A f \in issues : f[2] \notin Blocking
    BY <2>1 DEF Blocked, Findings
  <2>4. ASSUME "osv" \in checks PROVE unasked = {} /\ \A t \in told : t[2] \notin Blocking
    <3>1. "osv" \in reports /\ (unasked = {} \/ osvDown)
      BY <2>2, <2>4 DEF ScInv, AfterOsv
    <3>2. ~osvDown
      BY <2>1, <2>2, <3>1 DEF ModuleStatus
    <3>3. ASSUME NEW t \in told PROVE t[2] \notin Blocking
      <4>1. <<"osv", t[2]>> \in Findings
        BY <3>1 DEF Findings
      <4>2. <<"osv", t[2]>>[2] \notin Blocking
        BY <2>1, <4>1 DEF Blocked
      <4> QED BY <4>2
    <3> QED BY <3>1, <3>2, <3>3
  <2> QED BY <2>3, <2>4
<1> QED BY <1>1, <1>2, WorstIsKept DEF SupplyVerdictIsEarned

LEMMA ScHolds == ScSpec => []ScInv
<1>1. ScInv /\ [ScNext]_scVars => ScInv'
  BY ScSteps
<1> QED BY <1>1, ScStarts, PTL DEF ScSpec

\* A supply-chain run that ends in success has asked about every dependency
\* and holds nothing that blocks; what OSV told is among the findings, whatever
\* fails later; and no cap drops an issue that blocks to keep one that does not
\* (_run_audit and summarize of supply_chain/module.py, _cap of container.py).
THEOREM SupplyStaysEarned == ScSpec => []SupplyVerdictIsEarned
  BY ScHolds, ScServes, PTL

(***************************************************************************)
(* BrowserAudit.  Every result so far is of the route it stands for, and   *)
(* measured to its end or broken; the sum of it, the file of its slug and  *)
(* the array differ by what came late.  What comes late belongs to a route *)
(* that was begun.                                                         *)
(***************************************************************************)
Whole(p) == p.error \/ IF baKind = "accessibility" THEN p.parts = Len(Part) ELSE p.loads = Loads

Summed(p) == IsPrefix(p.judged, p.samples)

PagesAreWhole ==
  /\ Len(baPages) <= Len(baRoutes)
  /\ \A i \in DOMAIN baPages :
       /\ baPages[i].route = baRoutes[i]
       /\ Whole(baPages[i]) /\ Summed(baPages[i])
       /\ ~baIncomplete => ~baPages[i].error
  /\ baStage \in {"index", "judge"} \/ Judged => Len(baPages) = Len(baRoutes)

VisitGoesOn ==
  baStage \in {"visit", "sum", "write"} =>
    /\ Len(baPages) < Len(baRoutes)
    /\ baPage.route = baRoutes[Visiting] /\ Summed(baPage)
    /\ baKind = "accessibility" => baStage # "sum" /\ (baStage = "visit" => baPage.parts < Len(Part))
    /\ baKind = "performance" => baPage.error \/ baPage.loads = baLoad
    /\ baPage.loads <= baLoad
    /\ baStage # "visit" => Whole(baPage)

Copied(file, p) ==
  /\ Len(file) = 1
  /\ file[1].route = p.route /\ file[1].judged = p.judged
  /\ Summed(file[1]) /\ IsPrefix(file[1].samples, p.samples)

OnFile(i) ==
  /\ Slug[baRoutes[i]] \in DOMAIN baFiles
  /\ \/ Slug[baRoutes[i]] = "index" /\ baStage \in {"judge", "done"}
     \/ \E k \in DOMAIN baPages :
          /\ Slug[baRoutes[k]] = Slug[baRoutes[i]]
          /\ Copied(baFiles[Slug[baRoutes[i]]], baPages[k])

LateIsBegun == \A p \in baLate : p[1] <= Visiting

BaVerdict ==
  IF baIncomplete THEN "incomplete"
  ELSE IF \E f \in BaFindings : f.severity = "high" THEN "failed" ELSE "passed"

BaInv ==
  /\ BaTypeOK
  /\ PagesAreWhole /\ VisitGoesOn /\ LateIsBegun
  /\ \A i \in DOMAIN baPages : OnFile(i)
  /\ baStage = "judge" \/ Judged => "index" \in DOMAIN baFiles /\ baFiles["index"] = baPages
  /\ baStage = "resolve" => baPages = <<>> /\ baLate = {}
  /\ baStage # "done" => baStatus = "none"
  /\ Judged => baStatus = BaVerdict

\* The same pattern upwards.
LEMMA OneIsGreatest ==
  ASSUME NEW S \in SUBSET Nat, S # {}, IsFiniteSet(S)
  PROVE  \E x \in S : \A y \in S : y <= x
<1> DEFINE Above(x) == {y \in S : y > x}
<1> DEFINE T == {Above(x) : x \in S}
<1>1. T # {} /\ T \subseteq FiniteSubsetsOf(S)
  <2>1. \A x \in S : Above(x) \subseteq S /\ IsFiniteSet(Above(x))
    BY FS_Subset
  <2> QED BY <2>1 DEF FiniteSubsetsOf
<1>2. \E a \in T : \A b \in T : <<b, a>> \notin StrictSubsetOrdering(S)
  <2> HIDE DEF T
  <2>1. IsWellFoundedOn(StrictSubsetOrdering(S), FiniteSubsetsOf(S))
    BY FS_StrictSubsetOrderingWellFounded
  <2> QED BY <1>1, <2>1, WFMin
<1>3. PICK x \in S : \A y \in S : <<Above(y), Above(x)>> \notin StrictSubsetOrdering(S)
  BY <1>2
<1>4. ASSUME NEW y \in S, y > x PROVE FALSE
  <2>1. x \in Nat /\ y \in Nat /\ \A z \in S : z \in Nat
    OBVIOUS
  <2>2. y \in Above(x) /\ y \notin Above(y) /\ \A z \in Above(y) : z \in Above(x)
    <3>1. y \in Above(x)
      BY <1>4
    <3>2. y \notin Above(y)
      BY <2>1
    <3>3. ASSUME NEW z \in Above(y) PROVE z \in Above(x)
      BY <1>4, <2>1
    <3> QED BY <3>1, <3>2, <3>3
  <2>3. Above(y) \in SUBSET S /\ Above(x) \in SUBSET S
    OBVIOUS
  <2> HIDE DEF Above
  <2> QED BY <2>2, <2>3, <1>3 DEF StrictSubsetOrdering
<1> QED BY <1>4

LEMMA RankedIsOne ==
  ASSUME NEW values \in Seq(Nat), NEW k \in 1..Len(values)
  PROVE  Ranked(values, k) \in ToSet(values)
<1> DEFINE UpTo(v) == {i \in DOMAIN values : values[i] <= v}
           S == {v \in ToSet(values) : Cardinality(UpTo(v)) >= k}
<1>1. Len(values) \in Nat /\ DOMAIN values = 1..Len(values) /\ \A i \in DOMAIN values : values[i] \in Nat
  OBVIOUS
<1>2. IsFiniteSet(1..Len(values)) /\ Cardinality(1..Len(values)) = Len(values)
  BY <1>1, FS_Interval
<1>3. ToSet(values) \in SUBSET Nat /\ ToSet(values) # {}
  BY <1>1 DEF ToSet
<1>4. IsFiniteSet(ToSet(values))
  <2>1. values \in [1..Len(values) -> ToSet(values)] /\ \A w \in ToSet(values) : \E i \in 1..Len(values) : values[i] = w
    BY <1>1 DEF ToSet
  <2>2. values \in Surjection(1..Len(values), ToSet(values))
    BY <2>1 DEF Surjection
  <2> QED BY <1>2, <2>2, FS_Surjection
<1>5. PICK v \in ToSet(values) : \A w \in ToSet(values) : w <= v
  BY <1>3, <1>4, OneIsGreatest
<1>6. UpTo(v) = 1..Len(values)
  BY <1>1, <1>5 DEF ToSet
<1>7. v \in S
  <2>1. Cardinality(UpTo(v)) = Len(values)
    BY <1>2, <1>6
  <2> HIDE DEF UpTo
  <2> QED BY <1>1, <2>1
<1>8. S \in SUBSET Nat /\ IsFiniteSet(S)
  BY <1>3, <1>4, FS_Subset
<1>9. Min(S) \in S
  BY <1>7, <1>8, LeastOf
<1>10. Ranked(values, k) = Min(S)
  BY DEF Ranked
<1> HIDE DEF S
<1> QED BY <1>9, <1>10 DEF S

\* Values that are all above twice the budget have a percentile above it.
LEMMA PercentileFollows ==
  ASSUME NEW values \in Seq(Nat), Len(values) >= 1, \A i \in DOMAIN values : values[i] > 2 * Budget
  PROVE  P95(values) \in Nat /\ P95(values) > 200 * Budget
<1> DEFINE n == Len(values)
           rank == 95 * (n - 1)
           a == 1 + rank \div 100
           b == 1 + (rank + 99) \div 100
           w == rank % 100
<1>1. n \in Nat /\ n >= 1 /\ DOMAIN values = 1..n /\ Budget \in Nat
  BY LimitsAreSet
<1> HIDE DEF n
<1>2. a \in 1..n /\ b \in 1..n /\ w \in 0..99
  BY <1>1
<1>3. Ranked(values, a) \in ToSet(values) /\ Ranked(values, b) \in ToSet(values)
  <2> HIDE DEF a, b
  <2> QED BY <1>2, RankedIsOne DEF n
<1>4. \A v \in ToSet(values) : v \in Nat /\ v >= 2 * Budget + 1
  BY <1>1 DEF ToSet
<1> DEFINE low == Ranked(values, a)
           high == Ranked(values, b)
<1>5. P95(values) = low * (100 - w) + high * w
  BY DEF P95, n
<1>6. low \in Nat /\ high \in Nat /\ low >= 2 * Budget + 1 /\ high >= 2 * Budget + 1
  BY <1>3, <1>4
<1> HIDE DEF low, high, w, a, b, rank
<1>7. \A x, y, z \in Nat : x >= y => x * z >= y * z
  <2> TAKE x, y, z \in Nat
  <2> HAVE x >= y
  <2>1. x - y \in Nat /\ x = y + (x - y)
    OBVIOUS
  <2>2. (x - y) * z >= 0
    BY <2>1
  <2>3. x * z = y * z + (x - y) * z
    OBVIOUS
  <2> QED BY <2>2, <2>3
<1> DEFINE c == 2 * Budget + 1
<1>8. c \in Nat /\ 100 - w \in Nat /\ w \in Nat
  BY <1>1, <1>2
<1>9. low * (100 - w) >= c * (100 - w) /\ high * w >= c * w
  BY <1>6, <1>7, <1>8
<1>10. c * (100 - w) + c * w = 100 * c
  BY <1>8
<1>11. low * (100 - w) \in Nat /\ high * w \in Nat /\ c * (100 - w) \in Nat /\ c * w \in Nat
  BY <1>6, <1>8
<1>12. low * (100 - w) + high * w >= 100 * c
  <2> HIDE DEF c
  <2> QED BY <1>9, <1>10, <1>11
<1>13. 100 * c > 200 * Budget
  BY <1>1
<1> QED BY <1>1, <1>5, <1>8, <1>11, <1>12, <1>13

\* One sequence begins another.
LEMMA PrefixPointwise ==
  ASSUME NEW S, NEW s \in Seq(S), NEW t \in Seq(S)
  PROVE  IsPrefix(s, t) <=> Len(s) <= Len(t) /\ \A i \in 1..Len(s) : s[i] = t[i]
<1>1. Len(s) \in Nat /\ Len(t) \in Nat
  OBVIOUS
<1>2. ASSUME Len(s) <= Len(t)
      PROVE  (SubSeq(s, 1, Len(s)) = SubSeq(t, 1, Len(s))) <=> \A i \in 1..Len(s) : s[i] = t[i]
  <2>1. SubSeq(s, 1, Len(s)) = [i \in 1..Len(s) |-> s[i]] /\ SubSeq(t, 1, Len(s)) = [i \in 1..Len(s) |-> t[i]]
    BY <1>1, <1>2
  <2> QED BY <2>1
<1> QED BY <1>2 DEF IsPrefix

LEMMA PrefixFacts ==
  ASSUME NEW S, NEW s \in Seq(S), NEW t \in Seq(S)
  PROVE  /\ IsPrefix(s, s) /\ IsPrefix(<<>>, s)
         /\ \A x \in S : IsPrefix(s, t) => IsPrefix(s, Append(t, x))
<1>1. IsPrefix(s, s)
  BY PrefixPointwise
<1>2. IsPrefix(<<>>, s)
  <2> DEFINE e == <<>>
  <2>1. e \in Seq(S) /\ Len(e) = 0 /\ Len(s) \in Nat
    OBVIOUS
  <2> HIDE DEF e
  <2>2. Len(e) <= Len(s) /\ \A i \in 1..Len(e) : e[i] = s[i]
    BY <2>1
  <2>3. IsPrefix(e, s)
    BY <2>1, <2>2, PrefixPointwise
  <2> QED BY <2>3 DEF e
<1>3. ASSUME NEW x \in S, IsPrefix(s, t) PROVE IsPrefix(s, Append(t, x))
  <2>1. Len(s) \in Nat /\ Len(t) \in Nat /\ Len(s) <= Len(t) /\ \A i \in 1..Len(s) : s[i] = t[i]
    BY <1>3, PrefixPointwise
  <2>2. Append(t, x) \in Seq(S) /\ Len(Append(t, x)) = Len(t) + 1 /\ \A i \in 1..Len(t) : Append(t, x)[i] = t[i]
    BY AppendProperties
  <2> DEFINE u == Append(t, x)
  <2> HIDE DEF u
  <2>3. u \in Seq(S) /\ Len(u) = Len(t) + 1 /\ \A i \in 1..Len(t) : u[i] = t[i]
    BY <2>2 DEF u
  <2>4. Len(s) <= Len(u) /\ \A i \in 1..Len(s) : s[i] = u[i]
    BY <2>1, <2>3
  <2>5. IsPrefix(s, u)
    BY <2>3, <2>4, PrefixPointwise
  <2> QED BY <2>5 DEF u
<1> QED BY <1>1, <1>2, <1>3

LEMMA PagesTyped ==
  ASSUME NEW pages \in Seq(PageResult)
  PROVE  DOMAIN pages = 1..Len(pages) /\ Len(pages) \in Nat /\ \A i \in DOMAIN pages : pages[i] \in PageResult
<1>1. DOMAIN pages = 1..Len(pages) /\ Len(pages) \in Nat
  OBVIOUS
<1> QED BY <1>1, ElementOfSeq, Zenon

LEMMA RoutesTyped ==
  ASSUME BaTypeOK
  PROVE  DOMAIN baRoutes = 1..Len(baRoutes) /\ Len(baRoutes) \in Nat /\ \A i \in DOMAIN baRoutes : baRoutes[i] \in Route
  BY DEF BaTypeOK

LEMMA FreshFacts ==
  ASSUME NEW r \in Route
  PROVE  /\ Fresh(r) \in PageResult
         /\ Fresh(r).route = r /\ Fresh(r).parts = 0 /\ Fresh(r).loads = 0 /\ Summed(Fresh(r))
<1>1. Fresh(r) \in PageResult /\ Fresh(r).route = r /\ Fresh(r).parts = 0 /\ Fresh(r).loads = 0
      /\ Fresh(r).judged = <<>> /\ Fresh(r).samples = <<>>
  BY LoadsAreMade DEF Fresh, PageResult, Part
<1>2. IsPrefix(<<>>, <<>>)
  <2>1. <<>> \in Seq(Latency)
    OBVIOUS
  <2> QED BY <2>1, PrefixFacts
<1> QED BY <1>1, <1>2 DEF Summed

LEMMA LaterFacts ==
  ASSUME NEW p \in PageResult, NEW x \in Latency, NEW q, q = [p EXCEPT !.samples = Append(@, x)]
  PROVE  /\ q \in PageResult
         /\ q.route = p.route /\ q.error = p.error /\ q.parts = p.parts /\ q.axe = p.axe
         /\ q.judged = p.judged /\ q.loads = p.loads
         /\ q.samples = Append(p.samples, x)
         /\ Summed(p) => Summed(q)
<1>1. p.samples \in Seq(Latency) /\ p.judged \in Seq(Latency)
  BY DEF PageResult
<1>2. Append(p.samples, x) \in Seq(Latency)
  BY <1>1
<1>3. q \in PageResult
  BY <1>2 DEF PageResult
<1>4. /\ q.route = p.route /\ q.error = p.error /\ q.parts = p.parts /\ q.axe = p.axe
      /\ q.judged = p.judged /\ q.loads = p.loads
      /\ q.samples = Append(p.samples, x)
  BY DEF PageResult
<1>5. Summed(p) => Summed(q)
  BY <1>1, <1>4, PrefixFacts DEF Summed
<1> QED BY <1>3, <1>4, <1>5

LEMMA BaStarts == BaInit => BaInv
<1> SUFFICES ASSUME BaInit PROVE BaInv
  OBVIOUS
<1>1. (CHOOSE r \in Route : TRUE) \in Route
  BY RoutesAreKnown
<1>2. baPage \in PageResult
  BY <1>1, FreshFacts DEF BaInit
<1>3. baPages \in Seq(PageResult) /\ DOMAIN baPages = {} /\ Len(baPages) = 0 /\ DOMAIN baFiles = {}
      /\ baRoutes \in Seq(Route) /\ Len(baRoutes) = 0
  BY DEF BaInit
<1>4. BaTypeOK
  <2>1. baFlaws \in [Route -> SUBSET ({"axe", "keyboard"} \X Level)]
    BY DEF BaInit
  <2>2. baLoad \in 0..Loads /\ baLate \subseteq (1..Len(baRoutes)) \X (1..Loads) \X Latency
    BY LoadsAreMade DEF BaInit
  <2> QED BY <1>2, <1>3, <2>1, <2>2 DEF BaInit, BaTypeOK
<1> QED BY <1>3, <1>4 DEF BaInit, BaInv, PagesAreWhole, VisitGoesOn, LateIsBegun, Judged

LEMMA ResolvedTyped ==
  ASSUME NEW options \in Request, NEW discovered \in Request, NEW config \in Request,
         NEW list \in Resolved(options, discovered, config)
  PROVE  list \in Seq(Route)
<1>1. options \in Seq(Route) /\ discovered \in Seq(Route) /\ config \in Seq(Route)
  BY RoutesAreKnown
<1>2. CASE list \in Distinct(discovered)
  <2>1. Len(discovered) \in Nat /\ DOMAIN discovered = 1..Len(discovered) /\ ToSet(discovered) \subseteq Route
    BY <1>1 DEF ToSet
  <2>2. PICK n \in 0..Len(discovered) : list \in [1..n -> ToSet(discovered)]
    BY <1>2 DEF Distinct, SeqOf
  <2>3. list \in [1..n -> Route] /\ n \in Nat
    BY <2>1, <2>2
  <2> QED BY <2>3
<1> QED BY <1>1, <1>2 DEF Resolved

LEMMA StartChildKeeps == ASSUME BaInv, StartChild PROVE BaInv'
<1> USE DEF BaInv
<1>1. PICK options \in Request, discovered \in Request, config \in Request :
        baRoutes' \in Resolved(options, discovered, config)
  BY DEF StartChild
<1>2. baRoutes' \in Seq(Route) /\ baRoutes' # <<>>
  BY <1>1, ResolvedTyped DEF StartChild
<1>3. Len(baRoutes') \in Nat /\ Len(baRoutes') > 0 /\ baRoutes'[1] \in Route
  BY <1>2
<1>4. baPage' \in PageResult /\ baPage'.route = baRoutes'[1] /\ baPage'.parts = 0 /\ baPage'.loads = 0 /\ Summed(baPage')
  BY <1>3, FreshFacts DEF StartChild
<1>5. baFlaws' \in [Route -> SUBSET ({"axe", "keyboard"} \X Level)]
  <2>1. PICK flaws \in [ToSet(baRoutes') -> SUBSET Flaw] :
          baFlaws' = [r \in Route |-> IF r \in DOMAIN flaws THEN flaws[r] ELSE {}]
    BY DEF StartChild
  <2>2. Flaw \subseteq {"axe", "keyboard"} \X Level
    BY DEF Flaw, Level
  <2>3. \A r \in DOMAIN flaws : flaws[r] \subseteq {"axe", "keyboard"} \X Level
    BY <2>2
  <2> QED BY <2>1, <2>3
<1>6. \A n \in DOMAIN baFiles' : n \in Name /\ baFiles'[n] \in Seq(PageResult)
  BY DEF StartChild, Name
<1>7. BaTypeOK'
  BY <1>2, <1>4, <1>5, <1>6, LoadsAreMade DEF StartChild, BaTypeOK
<1>8. baPages' = <<>> /\ baPages = <<>> /\ baLate' = {} /\ DOMAIN baPages' = {} /\ Len(baPages') = 0 /\ baStatus' = "none" /\ baStage' = "visit"
  BY DEF StartChild
<1>9. PagesAreWhole' /\ LateIsBegun'
  BY <1>3, <1>8 DEF PagesAreWhole, LateIsBegun, Judged
<1>10. VisitGoesOn'
  <2>1. Visiting' = 1
    BY <1>8 DEF Visiting
  <2>2. Summed(baPage)'
    BY <1>4 DEF Summed
  <2>3. baLoad' = 0
    BY DEF StartChild
  <2> QED BY <1>3, <1>4, <1>8, <2>1, <2>2, <2>3 DEF VisitGoesOn, Part
<1> QED BY <1>7, <1>8, <1>9, <1>10 DEF Judged

\* Nothing but the stage and the status changes.
LEMMA EndKeeps ==
  ASSUME BaInv, NoRoutes \/ Raises
  PROVE  BaInv'
<1> USE DEF BaInv
<1>1. /\ UNCHANGED <<baKind, baRoutes, baFlaws, baPage, baLoad, baLate, baPages, baIncomplete, baFiles>>
      /\ baStage' = "done" /\ baStatus' \in {"skipped", "errored"}
      /\ baStage # "done" /\ baStage # "judge"
  BY DEF NoRoutes, Raises, Finish
<1>2. BaTypeOK'
  BY <1>1 DEF BaTypeOK
<1>3. PagesAreWhole' /\ LateIsBegun' /\ VisitGoesOn'
  BY <1>1 DEF PagesAreWhole, LateIsBegun, VisitGoesOn, Judged, Whole, Summed, Visiting
<1>4. \A i \in DOMAIN baPages' : OnFile(i)'
  BY <1>1 DEF OnFile, Copied, Summed
<1> QED BY <1>1, <1>2, <1>3, <1>4 DEF Judged

\* Only the page that is being visited changes.
LEMMA VisitKeeps ==
  ASSUME BaInv, UNCHANGED <<baKind, baRoutes, baFlaws, baPages, baIncomplete, baFiles, baStatus>>,
         baStage \in {"visit", "sum", "write"}, baStage' \in {"visit", "sum", "write"},
         baPage' \in PageResult, baLoad' \in 0..Loads,
         baLate' \subseteq (1..Len(baRoutes)) \X (1..Loads) \X Latency,
         \A p \in baLate' : p[1] <= Visiting,
         VisitGoesOn'
  PROVE  BaInv'
<1> USE DEF BaInv
<1>1. BaTypeOK'
  BY DEF BaTypeOK
<1>2. PagesAreWhole' /\ LateIsBegun'
  BY DEF PagesAreWhole, LateIsBegun, Judged, Whole, Summed, Visiting
<1>3. \A i \in DOMAIN baPages' : OnFile(i)'
  BY DEF OnFile, Copied, Summed
<1> QED BY <1>1, <1>2, <1>3 DEF Judged

\* The page that is visited, with some of its fields set.
LEMMA VisitedFacts ==
  ASSUME BaInv, baStage \in {"visit", "sum", "write"}
  PROVE  /\ baPage \in PageResult /\ baPage.samples \in Seq(Latency) /\ baPage.judged \in Seq(Latency)
         /\ baPage.parts \in 0..4 /\ baPage.loads \in 0..Loads /\ baPage.error \in BOOLEAN /\ Len(Part) = 4
         /\ baLoad \in 0..Loads /\ Loads \in Nat
         /\ Visiting \in 1..Len(baRoutes) /\ baPage.route = baRoutes[Visiting] /\ Summed(baPage)
         /\ baPage.loads <= baLoad
<1>1. baPage \in PageResult /\ baLoad \in 0..Loads /\ Loads \in Nat /\ Len(Part) = 4 /\ Len(baRoutes) \in Nat /\ Len(baPages) \in Nat
  BY LoadsAreMade DEF BaInv, BaTypeOK, Part
<1>2. baPage.samples \in Seq(Latency) /\ baPage.judged \in Seq(Latency)
      /\ baPage.parts \in 0..4 /\ baPage.loads \in 0..Loads /\ baPage.error \in BOOLEAN
  BY <1>1 DEF PageResult
<1>3. Visiting \in 1..Len(baRoutes)
  BY <1>1 DEF BaInv, VisitGoesOn, Visiting
<1> QED BY <1>1, <1>2, <1>3 DEF BaInv, VisitGoesOn

LEMMA MeasureKeeps == ASSUME BaInv, MeasurePart PROVE BaInv'
<1>1. baStage = "visit" /\ baKind = "accessibility"
      /\ UNCHANGED <<baKind, baRoutes, baFlaws, baLate, baPages, baIncomplete, baFiles, baStatus>>
      /\ baStage' = (IF baPage'.parts = Len(Part) THEN "write" ELSE "visit")
  BY DEF MeasurePart
<1>2. baPage.parts < 4
  BY <1>1, VisitedFacts DEF BaInv, VisitGoesOn
<1>3. /\ baPage' \in PageResult
      /\ baPage'.route = baPage.route /\ baPage'.error = baPage.error /\ baPage'.samples = baPage.samples
      /\ baPage'.judged = baPage.judged /\ baPage'.loads = baPage.loads
      /\ baPage'.parts <= 4 /\ baPage'.parts \in Nat /\ baLoad' \in 0..Loads /\ baLoad' >= baLoad
  <2>1. CASE baLoad = 0
    <3>1. baPage' = baPage /\ baLoad' = 1
      BY <2>1 DEF MeasurePart
    <3> QED BY <1>1, <2>1, <3>1, VisitedFacts, LoadsAreMade
  <2>2. CASE baLoad # 0
    <3>1. PICK runs \in BOOLEAN : baPage' = [baPage EXCEPT !.parts = @ + 1, !.axe = runs]
      BY <2>2 DEF MeasurePart
    <3>2. baLoad' = baLoad
      BY <2>2 DEF MeasurePart
    <3>3. baPage \in PageResult /\ baPage.parts + 1 \in 0..4
      BY <1>1, <1>2, VisitedFacts
    <3>4. baPage' \in PageResult
      BY <3>1, <3>3 DEF PageResult, Part
    <3>5. /\ baPage'.route = baPage.route /\ baPage'.error = baPage.error /\ baPage'.samples = baPage.samples
          /\ baPage'.judged = baPage.judged /\ baPage'.loads = baPage.loads /\ baPage'.parts = baPage.parts + 1
      BY <3>1, <3>3 DEF PageResult
    <3> QED BY <1>1, <3>2, <3>3, <3>4, <3>5, VisitedFacts
  <2> QED BY <2>1, <2>2
<1>4. VisitGoesOn'
  <2>1. Summed(baPage)'
    BY <1>1, <1>3, VisitedFacts DEF Summed
  <2>2. baPage'.loads <= baLoad'
    BY <1>1, <1>3, VisitedFacts
  <2>3. Visiting' = Visiting
    BY <1>1 DEF Visiting
  <2>4. baStage' # "visit" => Whole(baPage)'
    BY <1>1 DEF Whole
  <2>5. baStage' = "visit" => baPage'.parts < 4
    BY <1>1, <1>3, VisitedFacts
  <2> QED BY <1>1, <1>3, <2>1, <2>2, <2>3, <2>4, <2>5, VisitedFacts DEF VisitGoesOn, BaInv
<1>5. baLate' \subseteq (1..Len(baRoutes)) \X (1..Loads) \X Latency /\ \A p \in baLate' : p[1] <= Visiting
  BY <1>1 DEF BaInv, BaTypeOK, LateIsBegun
<1> QED BY <1>1, <1>3, <1>4, <1>5, VisitKeeps

LEMMA FailureKeeps == ASSUME BaInv, MeasurementFails PROVE BaInv'
<1>1. baStage = "visit" /\ baKind = "accessibility" /\ baStage' = "write"
      /\ UNCHANGED <<baKind, baRoutes, baFlaws, baLoad, baLate, baPages, baIncomplete, baFiles, baStatus>>
      /\ baPage' = [baPage EXCEPT !.error = TRUE]
  BY DEF MeasurementFails
<1>2. baPage' \in PageResult
  BY <1>1, VisitedFacts DEF PageResult
<1>3. /\ baPage'.route = baPage.route /\ baPage'.error /\ baPage'.samples = baPage.samples
      /\ baPage'.judged = baPage.judged /\ baPage'.loads = baPage.loads
  BY <1>1, VisitedFacts DEF PageResult
<1>4. VisitGoesOn'
  <2>1. Summed(baPage)'
    BY <1>1, <1>3, VisitedFacts DEF Summed
  <2>2. Visiting' = Visiting
    BY <1>1 DEF Visiting
  <2>3. Whole(baPage)'
    BY <1>3 DEF Whole
  <2> QED BY <1>1, <1>3, <2>1, <2>2, <2>3, VisitedFacts DEF VisitGoesOn, BaInv
<1>5. baLate' \subseteq (1..Len(baRoutes)) \X (1..Loads) \X Latency /\ \A p \in baLate' : p[1] <= Visiting
  BY <1>1 DEF BaInv, BaTypeOK, LateIsBegun
<1> QED BY <1>1, <1>2, <1>4, <1>5, VisitedFacts, VisitKeeps

LEMMA NavigateKeeps == ASSUME BaInv, Navigate PROVE BaInv'
<1>1. baStage = "visit" /\ baKind = "performance" /\ baLoad = Loads /\ baStage' = "sum"
      /\ UNCHANGED <<baKind, baRoutes, baFlaws, baLoad, baLate, baPages, baIncomplete, baFiles, baStatus>>
  BY DEF Navigate
<1>2. PICK ok \in BOOLEAN : baPage' = [baPage EXCEPT !.error = @ \/ ~ok]
  BY DEF Navigate
<1>3. baPage' \in PageResult
  BY <1>1, <1>2, VisitedFacts DEF PageResult
<1>4. /\ baPage'.route = baPage.route /\ (baPage.error => baPage'.error) /\ baPage'.samples = baPage.samples
      /\ baPage'.judged = baPage.judged /\ baPage'.loads = baPage.loads
  BY <1>1, <1>2, VisitedFacts DEF PageResult
<1>5. VisitGoesOn'
  <2>1. Summed(baPage)'
    BY <1>1, <1>4, VisitedFacts DEF Summed
  <2>2. Visiting' = Visiting
    BY <1>1 DEF Visiting
  <2>3. baPage'.error \/ baPage'.loads = baLoad'
    BY <1>1, <1>4 DEF BaInv, VisitGoesOn
  <2>4. Whole(baPage)'
    BY <1>1, <2>3 DEF Whole
  <2> QED BY <1>1, <1>4, <2>1, <2>2, <2>3, <2>4, VisitedFacts DEF VisitGoesOn, BaInv
<1>6. baLate' \subseteq (1..Len(baRoutes)) \X (1..Loads) \X Latency /\ \A p \in baLate' : p[1] <= Visiting
  BY <1>1 DEF BaInv, BaTypeOK, LateIsBegun
<1> QED BY <1>1, <1>3, <1>5, <1>6, VisitedFacts, VisitKeeps

LEMMA SumUpKeeps == ASSUME BaInv, SumUp PROVE BaInv'
<1>1. baStage = "sum" /\ baStage' = "write"
      /\ UNCHANGED <<baKind, baRoutes, baFlaws, baLoad, baLate, baPages, baIncomplete, baFiles, baStatus>>
      /\ baPage' = [baPage EXCEPT !.judged = baPage.samples]
  BY DEF SumUp
<1>2. baPage' \in PageResult
  BY <1>1, VisitedFacts DEF PageResult
<1>3. /\ baPage'.route = baPage.route /\ baPage'.error = baPage.error /\ baPage'.samples = baPage.samples
      /\ baPage'.judged = baPage.samples /\ baPage'.loads = baPage.loads /\ baPage'.parts = baPage.parts
  BY <1>1, VisitedFacts DEF PageResult
<1>4. VisitGoesOn'
  <2>1. Summed(baPage)'
    BY <1>1, <1>3, VisitedFacts, PrefixFacts DEF Summed
  <2>2. Visiting' = Visiting
    BY <1>1 DEF Visiting
  <2>3. Whole(baPage)'
    BY <1>1, <1>3 DEF Whole, BaInv, VisitGoesOn
  <2> QED BY <1>1, <1>3, <2>1, <2>2, <2>3, VisitedFacts DEF VisitGoesOn, BaInv
<1>5. baLate' \subseteq (1..Len(baRoutes)) \X (1..Loads) \X Latency /\ \A p \in baLate' : p[1] <= Visiting
  BY <1>1 DEF BaInv, BaTypeOK, LateIsBegun
<1> QED BY <1>1, <1>2, <1>4, <1>5, VisitedFacts, VisitKeeps

LEMMA LoadKeeps == ASSUME BaInv, LoadOnce PROVE BaInv'
<1>1. baStage = "visit" /\ baKind = "performance" /\ baLoad < Loads /\ baLoad' = baLoad + 1
      /\ UNCHANGED <<baKind, baRoutes, baFlaws, baStage, baPages, baIncomplete, baFiles, baStatus>>
  BY DEF LoadOnce
<1>2. PICK ok \in BOOLEAN, latency \in Latency :
        LET page == [baPage EXCEPT !.error = @ \/ ~ok, !.loads = IF ok THEN @ + 1 ELSE @]
        IN  \/ baPage' = [page EXCEPT !.samples = Append(@, latency)] /\ UNCHANGED baLate
            \/ baPage' = page /\ baLate' = baLate \cup {<<Visiting, baLoad', latency>>}
            \/ baPage' = page /\ UNCHANGED baLate
  BY DEF LoadOnce
<1> DEFINE page == [baPage EXCEPT !.error = @ \/ ~ok, !.loads = IF ok THEN @ + 1 ELSE @]
<1>3. baPage.loads + 1 \in 0..Loads /\ baLoad' \in 1..Loads
  BY <1>1, VisitedFacts
<1>4. page \in PageResult
  BY <1>1, <1>3, VisitedFacts DEF PageResult
<1>5. /\ page.route = baPage.route /\ page.samples = baPage.samples /\ page.judged = baPage.judged
      /\ page.error <=> (baPage.error \/ ~ok)
      /\ page.loads = IF ok THEN baPage.loads + 1 ELSE baPage.loads
  BY <1>1, VisitedFacts DEF PageResult
<1>6. Summed(page)
  BY <1>1, <1>5, VisitedFacts DEF Summed
<1>7. \/ baPage' = [page EXCEPT !.samples = Append(@, latency)] /\ baLate' = baLate
      \/ baPage' = page /\ baLate' \subseteq baLate \cup {<<Visiting, baLoad', latency>>}
  BY <1>2
<1> HIDE DEF page
<1>8. baPage' \in PageResult /\ baPage'.route = page.route /\ baPage'.error = page.error
      /\ baPage'.loads = page.loads /\ Summed(baPage')
  <2>1. CASE baPage' = [page EXCEPT !.samples = Append(@, latency)]
    BY <1>4, <1>6, <2>1, LaterFacts
  <2>2. CASE baPage' = page
    BY <1>4, <1>6, <2>2
  <2> QED BY <1>7, <2>1, <2>2
<1>9. VisitGoesOn'
  <2>1. Summed(baPage)'
    BY <1>8 DEF Summed
  <2>2. Visiting' = Visiting
    BY <1>1 DEF Visiting
  <2>3. baPage'.error \/ baPage'.loads = baLoad'
    BY <1>1, <1>5, <1>8 DEF BaInv, VisitGoesOn
  <2>4. baPage'.loads <= baLoad'
    BY <1>1, <1>5, <1>8, VisitedFacts
  <2> QED BY <1>1, <1>5, <1>8, <2>1, <2>2, <2>3, <2>4, VisitedFacts DEF VisitGoesOn, BaInv
<1>10. baLate' \subseteq (1..Len(baRoutes)) \X (1..Loads) \X Latency /\ \A p \in baLate' : p[1] <= Visiting
  <2>1. baLate \subseteq (1..Len(baRoutes)) \X (1..Loads) \X Latency /\ \A p \in baLate : p[1] <= Visiting
    BY DEF BaInv, BaTypeOK, LateIsBegun
  <2>2. Visiting \in 1..Len(baRoutes) /\ Visiting <= Visiting
    BY <1>1, VisitedFacts
  <2> QED BY <1>3, <1>7, <2>1, <2>2
<1> QED BY <1>1, <1>3, <1>8, <1>9, <1>10, VisitKeeps

LEMMA CopyStays ==
  ASSUME NEW file \in Seq(PageResult), NEW p \in PageResult, NEW x \in Latency, NEW q,
         q = [p EXCEPT !.samples = Append(@, x)], Copied(file, p)
  PROVE  Copied(file, q)
<1>1. file[1] \in PageResult
  <2>1. 1 \in 1..Len(file)
    BY DEF Copied
  <2> QED BY <2>1, ElementOfSeq
<1>2. file[1].samples \in Seq(Latency) /\ p.samples \in Seq(Latency)
  BY <1>1 DEF PageResult
<1>3. q.route = p.route /\ q.judged = p.judged /\ q.samples = Append(p.samples, x)
  BY LaterFacts
<1>4. IsPrefix(file[1].samples, q.samples)
  BY <1>2, <1>3, PrefixFacts DEF Copied
<1> QED BY <1>3, <1>4 DEF Copied

\* Late to a route that is in the array already.
LEMMA PageGrows ==
  ASSUME BaInv, NEW n \in DOMAIN baPages, NEW x \in Latency,
         baStage \in {"visit", "sum", "write", "index"},
         baPages' = [baPages EXCEPT ![n].samples = Append(@, x)], baLate' \subseteq baLate,
         UNCHANGED <<baKind, baRoutes, baFlaws, baStage, baPage, baLoad, baIncomplete, baFiles, baStatus>>
  PROVE  BaInv'
<1> USE DEF BaInv
<1> DEFINE q == [baPages[n] EXCEPT !.samples = Append(@, x)]
<1>1. baPages \in Seq(PageResult) /\ DOMAIN baPages = 1..Len(baPages) /\ Len(baPages) \in Nat
      /\ \A i \in DOMAIN baPages : baPages[i] \in PageResult
  BY PagesTyped DEF BaTypeOK
<1>2. /\ q \in PageResult
      /\ q.route = baPages[n].route /\ q.error = baPages[n].error /\ q.parts = baPages[n].parts
      /\ q.loads = baPages[n].loads
      /\ Summed(baPages[n]) => Summed(q)
  BY <1>1, LaterFacts
<1>3. baPages' = [baPages EXCEPT ![n] = q]
  BY <1>1
<1>4. \A file \in Seq(PageResult) : Copied(file, baPages[n]) => Copied(file, q)
  <2> SUFFICES ASSUME NEW file \in Seq(PageResult), Copied(file, baPages[n]) PROVE Copied(file, q)
    OBVIOUS
  <2>1. PICK p \in PageResult : p = baPages[n]
    BY <1>1
  <2>2. q = [p EXCEPT !.samples = Append(@, x)] /\ Copied(file, p)
    BY <2>1
  <2> HIDE DEF q
  <2> QED BY <2>2, CopyStays
<1> HIDE DEF q
<1>5. baPages' \in Seq(PageResult) /\ Len(baPages') = Len(baPages) /\ DOMAIN baPages' = DOMAIN baPages
      /\ \A i \in DOMAIN baPages : baPages'[i] = IF i = n THEN q ELSE baPages[i]
  <2>1. /\ [baPages EXCEPT ![n] = q] \in Seq(PageResult) /\ Len([baPages EXCEPT ![n] = q]) = Len(baPages)
        /\ \A i \in 1..Len(baPages) : [baPages EXCEPT ![n] = q][i] = IF i = n THEN q ELSE baPages[i]
    <3>1. n \in 1..Len(baPages) /\ baPages \in Seq(PageResult) /\ q \in PageResult
      BY <1>1, <1>2
    <3>2. PICK old : old = baPages
      OBVIOUS
    <3>3. /\ [old EXCEPT ![n] = q] \in Seq(PageResult) /\ Len([old EXCEPT ![n] = q]) = Len(old)
          /\ \A i \in 1..Len(old) : [old EXCEPT ![n] = q][i] = IF i = n THEN q ELSE old[i]
      <4>1. old \in Seq(PageResult) /\ n \in 1..Len(old) /\ q \in PageResult
        BY <3>1, <3>2
      <4> QED BY <4>1, ExceptSeq
    <3> QED BY <3>2, <3>3
  <2>2. DOMAIN baPages' = 1..Len(baPages)
    BY <1>1, <1>3
  <2> QED BY <1>1, <1>3, <2>1, <2>2, Zenon
<1>6. BaTypeOK'
  BY <1>5 DEF BaTypeOK
<1>7. Visiting' = Visiting /\ (Judged' <=> Judged) /\ baStatus = "none"
  BY <1>5 DEF Visiting, Judged
<1>8. PagesAreWhole'
  <2>1. \A i \in DOMAIN baPages : /\ baPages[i].route = baRoutes[i]
                                  /\ Whole(baPages[i]) /\ Summed(baPages[i])
                                  /\ ~baIncomplete => ~baPages[i].error
    BY DEF PagesAreWhole
  <2>2. ASSUME NEW i \in DOMAIN baPages'
        PROVE  /\ baPages'[i].route = baRoutes'[i]
               /\ Whole(baPages[i])' /\ Summed(baPages[i])'
               /\ ~baIncomplete' => ~baPages'[i].error
    <3>1. CASE i = n
      <4>1. baPages'[i] = q
        BY <1>5, <3>1
      <4>2. Whole(baPages[i])'
        BY <1>2, <2>1, <3>1, <4>1 DEF Whole
      <4>3. Summed(baPages[i])'
        BY <1>2, <2>1, <3>1, <4>1 DEF Summed
      <4> QED BY <1>2, <2>1, <3>1, <4>1, <4>2, <4>3
    <3>2. CASE i # n
      <4>1. baPages'[i] = baPages[i] /\ i \in DOMAIN baPages
        BY <1>5, <3>2
      <4>2. Whole(baPages[i])' /\ Summed(baPages[i])'
        BY <2>1, <4>1 DEF Whole, Summed
      <4> QED BY <2>1, <4>1, <4>2
    <3> QED BY <3>1, <3>2
  <2>3. Len(baPages') <= Len(baRoutes') /\ (baStage' \in {"index", "judge"} \/ Judged' => Len(baPages') = Len(baRoutes'))
    BY <1>5, <1>7 DEF PagesAreWhole
  <2> QED BY <2>2, <2>3 DEF PagesAreWhole
<1>9. VisitGoesOn' /\ LateIsBegun'
  BY <1>5, <1>7 DEF VisitGoesOn, LateIsBegun, Whole, Summed
<1>10. \A i \in DOMAIN baPages' : OnFile(i)'
  <2> SUFFICES ASSUME NEW i \in DOMAIN baPages PROVE OnFile(i)'
    BY <1>5
  <2>1. PICK k \in DOMAIN baPages :
          /\ Slug[baRoutes[i]] \in DOMAIN baFiles
          /\ Slug[baRoutes[k]] = Slug[baRoutes[i]]
          /\ Copied(baFiles[Slug[baRoutes[i]]], baPages[k])
    BY DEF OnFile
  <2> DEFINE file == baFiles[Slug[baRoutes[i]]]
  <2>2. file \in Seq(PageResult)
    BY <2>1 DEF BaTypeOK
  <2> HIDE DEF file
  <2>3. Copied(file, baPages'[k])
    BY <1>4, <1>5, <2>1, <2>2 DEF file
  <2>4. Copied(baFiles[Slug[baRoutes[i]]], baPages[k])'
    BY <2>3 DEF Copied, Summed, file
  <2>5. k \in DOMAIN baPages' /\ Slug[baRoutes[i]]' \in DOMAIN baFiles' /\ Slug[baRoutes[k]]' = Slug[baRoutes[i]]'
    BY <1>5, <2>1
  <2> QED BY <2>4, <2>5 DEF OnFile
<1> QED BY <1>6, <1>7, <1>8, <1>9, <1>10 DEF Judged

LEMMA LateKeeps == ASSUME BaInv, HandleLate PROVE BaInv'
<1>1. PICK p \in baLate :
        /\ baLate' = baLate \ {p}
        /\ IF p[1] = Visiting
           THEN baPage' = [baPage EXCEPT !.samples = Append(@, p[3])] /\ UNCHANGED baPages
           ELSE baPages' = [baPages EXCEPT ![p[1]].samples = Append(@, p[3])] /\ UNCHANGED baPage
  BY DEF HandleLate
<1>2. baStage \in {"visit", "sum", "write", "index"}
      /\ UNCHANGED <<baKind, baRoutes, baFlaws, baStage, baLoad, baIncomplete, baFiles, baStatus>>
  BY DEF HandleLate
<1>3. baLate \subseteq (1..Len(baRoutes)) \X (1..Loads) \X Latency /\ \A x \in baLate : x[1] <= Visiting
  BY DEF BaInv, BaTypeOK, LateIsBegun
<1>4. p[1] \in 1..Len(baRoutes) /\ p[3] \in Latency /\ p[1] <= Visiting
  BY <1>3
<1>5. DOMAIN baPages = 1..Len(baPages) /\ Len(baPages) \in Nat /\ Len(baRoutes) \in Nat
  BY PagesTyped DEF BaInv, BaTypeOK
<1>6. CASE p[1] = Visiting
  <2>1. baStage # "index"
    BY <1>4, <1>5, <1>6 DEF BaInv, PagesAreWhole, Visiting
  <2>2. baPage' = [baPage EXCEPT !.samples = Append(@, p[3])] /\ baPages' = baPages
    BY <1>1, <1>6
  <2>3. /\ baPage' \in PageResult
        /\ baPage'.route = baPage.route /\ baPage'.error = baPage.error /\ baPage'.parts = baPage.parts
        /\ baPage'.loads = baPage.loads /\ Summed(baPage')
    <3>1. baPage \in PageResult /\ Summed(baPage)
      BY <1>2, <2>1, VisitedFacts
    <3> QED BY <1>4, <2>2, <3>1, LaterFacts
  <2>4. VisitGoesOn'
    <3>1. Summed(baPage)'
      BY <2>3 DEF Summed
    <3>2. Visiting' = Visiting
      BY <2>2 DEF Visiting
    <3>3. Whole(baPage)' <=> Whole(baPage)
      BY <1>2, <2>3 DEF Whole
    <3> QED BY <1>2, <2>2, <2>3, <3>1, <3>2, <3>3 DEF BaInv, VisitGoesOn
  <2> QED BY <1>1, <1>2, <1>3, <2>1, <2>2, <2>3, <2>4, VisitedFacts, VisitKeeps
<1>7. CASE p[1] # Visiting
  <2>1. p[1] \in DOMAIN baPages
    BY <1>4, <1>5, <1>7 DEF Visiting
  <2>2. baPages' = [baPages EXCEPT ![p[1]].samples = Append(@, p[3])] /\ baPage' = baPage /\ baLate' \subseteq baLate
    BY <1>1, <1>7
  <2> QED BY <1>2, <1>4, <2>1, <2>2, PageGrows
<1> QED BY <1>6, <1>7

LEMMA WriteResultKeeps == ASSUME BaInv, WriteResult PROVE BaInv'
<1> USE DEF BaInv
<1> PICK n, name : n = Len(baPages) + 1 /\ name = Slug[baPage.route]
  OBVIOUS
<1>1. /\ baStage = "write" /\ baPages' = Append(baPages, baPage)
      /\ baIncomplete' = (baIncomplete \/ baPage.error)
      /\ baFiles' = [x \in DOMAIN baFiles \cup {name} |-> IF x = name THEN <<baPage>> ELSE baFiles[x]]
      /\ IF Len(baPages') = Len(baRoutes)
         THEN baStage' = "index" /\ baPage' = baPage /\ baLoad' = baLoad
         ELSE baStage' = "visit" /\ baPage' = Fresh(baRoutes[Len(baPages') + 1]) /\ baLoad' = 0
      /\ UNCHANGED <<baKind, baRoutes, baFlaws, baLate, baStatus>>
  BY DEF WriteResult
<1>2. baPages \in Seq(PageResult) /\ DOMAIN baPages = 1..Len(baPages) /\ Len(baPages) \in Nat
      /\ baPage \in PageResult /\ baRoutes \in Seq(Route) /\ Len(baRoutes) \in Nat /\ DOMAIN baRoutes = 1..Len(baRoutes)
      /\ \A i \in DOMAIN baRoutes : baRoutes[i] \in Route
  BY PagesTyped, RoutesTyped DEF BaTypeOK
<1>3. Visiting = n /\ n \in DOMAIN baRoutes /\ baPage.route = baRoutes[n] /\ Whole(baPage) /\ Summed(baPage)
  <2>1. Visiting = n
    BY DEF Visiting
  <2>2. Len(baPages) < Len(baRoutes) /\ baPage.route = baRoutes[Visiting] /\ Whole(baPage) /\ Summed(baPage)
    BY <1>1 DEF VisitGoesOn
  <2> QED BY <1>2, <2>1, <2>2
<1>4. baPages' \in Seq(PageResult) /\ Len(baPages') = n /\ DOMAIN baPages' = DOMAIN baPages \cup {n}
      /\ baPages'[n] = baPage /\ \A i \in DOMAIN baPages : baPages'[i] = baPages[i]
  <2>1. Append(baPages, baPage) \in Seq(PageResult) /\ Len(Append(baPages, baPage)) = n
        /\ Append(baPages, baPage)[n] = baPage
        /\ \A i \in 1..Len(baPages) : Append(baPages, baPage)[i] = baPages[i]
    BY <1>2, AppendProperties
  <2> DEFINE s == Append(baPages, baPage)
  <2> HIDE DEF s
  <2>2. s \in Seq(PageResult) /\ Len(s) = n /\ s[n] = baPage /\ \A i \in 1..Len(baPages) : s[i] = baPages[i]
    BY <2>1 DEF s
  <2>3. DOMAIN s = DOMAIN baPages \cup {n}
    BY <1>2, <2>2
  <2>4. baPages' = s
    BY <1>1 DEF s
  <2> QED BY <1>2, <2>2, <2>3, <2>4
<1>5. /\ baPage' \in PageResult /\ baLoad' \in 0..Loads /\ Len(Part) = 4
      /\ baStage' = "visit" =>
           /\ n < Len(baRoutes) /\ baPage'.route = baRoutes[n + 1] /\ Summed(baPage')
           /\ baPage'.parts = 0 /\ baPage'.loads = 0 /\ baLoad' = 0
  <2>1. CASE n = Len(baRoutes)
    BY <1>1, <1>2, <1>4, <2>1 DEF BaTypeOK, Part
  <2>2. CASE n # Len(baRoutes)
    <3>1. n + 1 \in DOMAIN baRoutes /\ n < Len(baRoutes)
      <4>1. n \in Nat /\ n \in 1..Len(baRoutes) /\ Len(baRoutes) \in Nat
        BY <1>2, <1>3
      <4>2. n + 1 \in 1..Len(baRoutes) /\ n < Len(baRoutes)
        BY <2>2, <4>1
      <4> QED BY <1>2, <4>2
    <3>2. baRoutes[n + 1] \in Route
      BY <1>2, <3>1
    <3>3. baPage' = Fresh(baRoutes[n + 1]) /\ baLoad' = 0
      BY <1>1, <1>4, <2>2
    <3>4. baPage' \in PageResult /\ baPage'.route = baRoutes[n + 1] /\ Summed(baPage')
          /\ baPage'.parts = 0 /\ baPage'.loads = 0
      BY <3>2, <3>3, FreshFacts
    <3> QED BY <3>1, <3>3, <3>4, LoadsAreMade DEF Part
  <2> QED BY <2>1, <2>2
<1>6. \A x \in DOMAIN baFiles' : x \in Name /\ baFiles'[x] \in Seq(PageResult)
  <2>1. name \in Name /\ <<baPage>> \in Seq(PageResult)
    BY <1>2 DEF Name, PageResult
  <2> QED BY <1>1, <2>1 DEF BaTypeOK
<1>7. BaTypeOK'
  <2>1. baIncomplete' \in BOOLEAN
    BY <1>1, <1>2 DEF BaTypeOK, PageResult
  <2>2. baStage' \in {"index", "visit"}
    BY <1>1
  <2> QED BY <1>1, <1>4, <1>5, <1>6, <2>1, <2>2 DEF BaTypeOK
<1>8. PagesAreWhole'
  <2>1. \A i \in DOMAIN baPages : /\ baPages[i].route = baRoutes[i]
                                  /\ Whole(baPages[i]) /\ Summed(baPages[i])
                                  /\ ~baIncomplete => ~baPages[i].error
    BY DEF PagesAreWhole
  <2>2. ASSUME NEW i \in DOMAIN baPages'
        PROVE  /\ baPages'[i].route = baRoutes'[i]
               /\ Whole(baPages[i])' /\ Summed(baPages[i])'
               /\ ~baIncomplete' => ~baPages'[i].error
    <3>1. CASE i = n
      <4>1. baPages'[i] = baPage
        BY <1>4, <3>1
      <4>2. Whole(baPages[i])' /\ Summed(baPages[i])'
        BY <1>1, <1>3, <4>1 DEF Whole, Summed
      <4> QED BY <1>1, <1>3, <3>1, <4>1, <4>2
    <3>2. CASE i # n
      <4>1. baPages'[i] = baPages[i] /\ i \in DOMAIN baPages
        BY <1>4, <3>2
      <4>2. Whole(baPages[i])' /\ Summed(baPages[i])'
        BY <1>1, <2>1, <4>1 DEF Whole, Summed
      <4> QED BY <1>1, <2>1, <4>1, <4>2
    <3> QED BY <3>1, <3>2
  <2>3. Len(baPages') <= Len(baRoutes') /\ (baStage' \in {"index", "judge"} => Len(baPages') = Len(baRoutes'))
    <3>1. n <= Len(baRoutes)
      BY <1>2, <1>3
    <3>2. baRoutes' = baRoutes /\ Len(baPages') = n /\ (baStage' \in {"index", "judge"} => n = Len(baRoutes))
      BY <1>1, <1>4
    <3> QED BY <3>1, <3>2
  <2>4. ~Judged'
    BY <1>1 DEF Judged
  <2> QED BY <2>2, <2>3, <2>4 DEF PagesAreWhole
<1>9. VisitGoesOn' /\ LateIsBegun'
  <2>1. Visiting' = n + 1 /\ Visiting = n /\ n \in Nat
    BY <1>2, <1>3, <1>4 DEF Visiting
  <2>2. VisitGoesOn'
    <3>1. baStage' = "visit" => Summed(baPage)'
      BY <1>5 DEF Summed
    <3>2. baStage' \in {"index", "visit"} /\ baRoutes' = baRoutes /\ baKind' = baKind
      BY <1>1
    <3> QED BY <1>4, <1>5, <2>1, <3>1, <3>2 DEF VisitGoesOn
  <2>3. \A p \in baLate : p[1] \in Nat /\ p[1] <= n
    BY <2>1 DEF LateIsBegun, BaTypeOK
  <2> QED BY <1>1, <2>1, <2>2, <2>3 DEF LateIsBegun
<1>10. \A i \in DOMAIN baPages' : OnFile(i)'
  <2> SUFFICES ASSUME NEW i \in DOMAIN baPages' PROVE OnFile(i)'
    OBVIOUS
  <2>1. CASE Slug[baRoutes[i]] = name
    <3>1. baFiles'[name] = <<baPage>> /\ name \in DOMAIN baFiles' /\ Slug[baRoutes[n]] = name
      BY <1>1, <1>3
    <3>2. Copied(<<baPage>>, baPage)
      <4>1. baPage.samples \in Seq(Latency)
        BY <1>2 DEF PageResult
      <4>2. IsPrefix(baPage.samples, baPage.samples)
        BY <4>1, PrefixFacts
      <4>3. Len(<<baPage>>) = 1 /\ <<baPage>>[1] = baPage
        OBVIOUS
      <4> QED BY <1>3, <4>2, <4>3 DEF Copied
    <3>3. Copied(baFiles[Slug[baRoutes[i]]], baPages[n])'
      <4>1. baFiles'[Slug[baRoutes'[i]]] = <<baPage>> /\ baPages'[n] = baPage
        BY <1>1, <1>4, <2>1, <3>1
      <4>2. (baFiles[Slug[baRoutes[i]]])' = <<baPage>> /\ (baPages[n])' = baPage
        BY <4>1
      <4> QED BY <3>2, <4>2 DEF Copied, Summed
    <3>4. n \in DOMAIN baPages' /\ Slug[baRoutes'[n]] = Slug[baRoutes'[i]] /\ Slug[baRoutes'[i]] \in DOMAIN baFiles'
      BY <1>1, <1>4, <2>1, <3>1
    <3> QED BY <3>3, <3>4 DEF OnFile
  <2>2. CASE Slug[baRoutes[i]] # name
    <3>1. i \in DOMAIN baPages
      BY <1>3, <1>4, <2>2
    <3>2. PICK k \in DOMAIN baPages :
            /\ Slug[baRoutes[i]] \in DOMAIN baFiles
            /\ Slug[baRoutes[k]] = Slug[baRoutes[i]]
            /\ Copied(baFiles[Slug[baRoutes[i]]], baPages[k])
      BY <1>1, <3>1 DEF OnFile
    <3>3. baFiles'[Slug[baRoutes'[i]]] = baFiles[Slug[baRoutes[i]]] /\ baPages'[k] = baPages[k]
          /\ k \in DOMAIN baPages' /\ Slug[baRoutes'[i]] \in DOMAIN baFiles'
      BY <1>1, <1>4, <2>2, <3>2
    <3>4. Copied(baFiles[Slug[baRoutes[i]]], baPages[k])'
      BY <3>2, <3>3 DEF Copied, Summed
    <3> QED BY <1>1, <3>2, <3>3, <3>4 DEF OnFile
  <2> QED BY <2>1, <2>2
<1>11. baStatus' = "none" /\ baStage' \in {"index", "visit"} /\ ~Judged'
  BY <1>1 DEF Judged
<1> QED BY <1>7, <1>8, <1>9, <1>10, <1>11

LEMMA WriteIndexKeeps == ASSUME BaInv, WriteAuditIndex PROVE BaInv'
<1> USE DEF BaInv
<1>1. /\ baStage = "index" /\ baStage' = "judge" /\ baLate' = {}
      /\ baFiles' = [n \in DOMAIN baFiles \cup {"index"} |-> IF n = "index" THEN baPages ELSE baFiles[n]]
      /\ UNCHANGED <<baKind, baRoutes, baFlaws, baPage, baLoad, baPages, baIncomplete, baStatus>>
  BY DEF WriteAuditIndex
<1>2. \A x \in DOMAIN baFiles' : x \in Name /\ baFiles'[x] \in Seq(PageResult)
  BY <1>1 DEF BaTypeOK, Name
<1>3. BaTypeOK'
  BY <1>1, <1>2 DEF BaTypeOK
<1>4. PagesAreWhole' /\ VisitGoesOn' /\ LateIsBegun'
  BY <1>1 DEF PagesAreWhole, VisitGoesOn, LateIsBegun, Judged, Whole, Summed
<1>5. \A i \in DOMAIN baPages' : OnFile(i)'
  <2> SUFFICES ASSUME NEW i \in DOMAIN baPages PROVE OnFile(i)'
    BY <1>1
  <2>1. CASE Slug[baRoutes[i]] = "index"
    BY <1>1, <2>1 DEF OnFile
  <2>2. CASE Slug[baRoutes[i]] # "index"
    <3>1. PICK k \in DOMAIN baPages :
            /\ Slug[baRoutes[i]] \in DOMAIN baFiles
            /\ Slug[baRoutes[k]] = Slug[baRoutes[i]]
            /\ Copied(baFiles[Slug[baRoutes[i]]], baPages[k])
      BY <2>2 DEF OnFile
    <3>2. baFiles'[Slug[baRoutes'[i]]] = baFiles[Slug[baRoutes[i]]] /\ Slug[baRoutes'[i]] \in DOMAIN baFiles'
      BY <1>1, <2>2, <3>1
    <3>3. Copied(baFiles[Slug[baRoutes[i]]], baPages[k])'
      BY <1>1, <3>1, <3>2 DEF Copied, Summed
    <3> QED BY <1>1, <3>1, <3>2, <3>3 DEF OnFile
  <2> QED BY <2>1, <2>2
<1> QED BY <1>1, <1>3, <1>4, <1>5 DEF Judged

LEMMA JudgePagesKeeps == ASSUME BaInv, JudgePages PROVE BaInv'
<1> USE DEF BaInv
<1>1. /\ baStage = "judge" /\ baStage' = "done" /\ baStatus' = BaVerdict
      /\ UNCHANGED <<baKind, baRoutes, baFlaws, baPage, baLoad, baLate, baPages, baIncomplete, baFiles>>
  BY DEF JudgePages, Finish, BaVerdict
<1>2. BaTypeOK'
  BY <1>1 DEF BaTypeOK, BaVerdict
<1>3. PagesAreWhole' /\ VisitGoesOn' /\ LateIsBegun'
  BY <1>1 DEF PagesAreWhole, VisitGoesOn, LateIsBegun, Judged, Whole, Summed, Visiting
<1>4. \A i \in DOMAIN baPages' : OnFile(i)'
  BY <1>1 DEF OnFile, Copied, Summed
<1>5. BaVerdict' = BaVerdict
  BY <1>1 DEF BaVerdict, BaFindings, PageFindings
<1> QED BY <1>1, <1>2, <1>3, <1>4, <1>5

LEMMA BaSteps == BaInv /\ [BaNext]_baVars => BaInv'
<1> SUFFICES ASSUME BaInv, [BaNext]_baVars PROVE BaInv'
  OBVIOUS
<1>1. CASE UNCHANGED baVars
  <2> USE DEF BaInv
  <2>1. BaTypeOK' /\ PagesAreWhole' /\ VisitGoesOn' /\ LateIsBegun'
    BY <1>1 DEF baVars, BaTypeOK, PagesAreWhole, VisitGoesOn, LateIsBegun, Judged, Whole, Summed, Visiting
  <2>2. \A i \in DOMAIN baPages' : OnFile(i)'
    BY <1>1 DEF baVars, OnFile, Copied, Summed
  <2>3. BaVerdict' = BaVerdict
    BY <1>1 DEF baVars, BaVerdict, BaFindings, PageFindings
  <2> QED BY <1>1, <2>1, <2>2, <2>3 DEF baVars, Judged
<1> QED BY <1>1, EndKeeps, StartChildKeeps, MeasureKeeps, FailureKeeps, LoadKeeps, NavigateKeeps,
           SumUpKeeps, LateKeeps, WriteResultKeeps, WriteIndexKeeps, JudgePagesKeeps DEF BaNext

LEMMA FindingsOfPages ==
  ASSUME NEW i \in DOMAIN baPages, NEW s \in PageFindings(baPages[i])
  PROVE  \E f \in BaFindings : f.severity = s
<1> DEFINE f == [severity |-> s, route |-> baPages[i].route, file |-> Slug[baPages[i].route]]
<1>1. baPages[i] \in ToSet(baPages)
  BY DEF ToSet
<1>2. f \in BaFindings
  BY <1>1 DEF BaFindings
<1> QED BY <1>2

LEMMA PassServes == ASSUME BaInv PROVE BrowserPassIsEarned
<1> SUFFICES ASSUME baStatus = "passed" PROVE BrowserPassIsEarned
  BY DEF BrowserPassIsEarned
<1>1. Judged /\ ~baIncomplete /\ \A f \in BaFindings : f.severity # "high"
  BY DEF Judged, BaInv, BaVerdict
<1>2. baPages \in Seq(PageResult) /\ baRoutes \in Seq(Route) /\ Len(baPages) = Len(baRoutes)
  BY <1>1 DEF BaInv, BaTypeOK, PagesAreWhole
<1>3. DOMAIN baPages = 1..Len(baRoutes) /\ DOMAIN baRoutes = 1..Len(baRoutes)
      /\ \A i \in DOMAIN baPages : baPages[i] \in PageResult
  BY <1>2, PagesTyped
<1>4. \A i \in DOMAIN baPages : baPages[i].route = baRoutes[i] /\ Whole(baPages[i]) /\ ~baPages[i].error
  BY <1>1 DEF BaInv, PagesAreWhole
<1>5. [i \in DOMAIN baPages |-> baPages[i].route] = baRoutes
  <2>1. baRoutes = [i \in 1..Len(baRoutes) |-> baRoutes[i]]
    BY <1>2
  <2> QED BY <1>3, <1>4, <2>1
<1>6. ASSUME NEW i \in DOMAIN baPages
      PROVE  /\ ~baPages[i].error
             /\ IF baKind = "accessibility"
                THEN /\ baPages[i].parts = Len(Part)
                     /\ baPages[i].axe => <<"axe", "high">> \notin baFlaws[baPages[i].route]
                ELSE /\ baPages[i].loads = Loads
                     /\ Len(baPages[i].judged) >= MinSamples =>
                          \E k \in DOMAIN baPages[i].judged : baPages[i].judged[k] <= 2 * Budget
  <2>1. "high" \notin PageFindings(baPages[i])
    BY <1>1, FindingsOfPages
  <2>2. CASE baKind = "accessibility"
    <3>1. baPages[i].parts = Len(Part) /\ Len(Part) = 4
      BY <1>4, <2>2 DEF Whole, Part
    <3>2. ASSUME baPages[i].axe, <<"axe", "high">> \in baFlaws[baPages[i].route] PROVE FALSE
      <4> DEFINE g == <<"axe", "high">>
      <4>1. g[1] = "axe" /\ g[2] = "high" /\ baPages[i].parts >= 1
        BY <3>1
      <4>2. g[2] \in PageFindings(baPages[i])
        BY <2>2, <3>2, <4>1 DEF PageFindings
      <4> QED BY <2>1, <4>1, <4>2
    <3> QED BY <1>4, <2>2, <3>1, <3>2
  <2>3. CASE baKind = "performance"
    <3>1. baPages[i].loads = Loads
      BY <1>4, <2>3 DEF Whole
    <3> DEFINE values == baPages[i].judged
    <3>2. values \in Seq(Latency) /\ Latency \subseteq Nat
      BY <1>3, LoadsAreMade DEF PageResult
    <3>3. ASSUME Len(values) >= MinSamples, \A k \in DOMAIN values : ~(values[k] <= 2 * Budget) PROVE FALSE
      <4> HIDE DEF values
      <4>1. values \in Seq(Nat) /\ DOMAIN values = 1..Len(values) /\ Len(values) \in Nat /\ \A k \in DOMAIN values : values[k] \in Nat
        <5>1. DOMAIN values = 1..Len(values) /\ Len(values) \in Nat
          BY <3>2
        <5>2. \A k \in DOMAIN values : values[k] \in Nat
          BY <3>2, <5>1, ElementOfSeq
        <5>3. values \in [1..Len(values) -> Nat]
          <6>1. values \in [1..Len(values) -> Latency]
            BY <3>2, LenProperties
          <6> QED BY <5>1, <5>2, <6>1
        <5> QED BY <5>1, <5>2, <5>3
      <4>2. Budget \in Nat /\ MinSamples \in Nat /\ MinSamples >= 1
        BY LimitsAreSet
      <4>3. Len(values) >= 1 /\ \A k \in DOMAIN values : values[k] > 2 * Budget
        BY <3>3, <4>1, <4>2
      <4>4. P95(values) \in Nat /\ P95(values) > 200 * Budget
        BY <4>1, <4>3, PercentileFollows
      <4>5. LatencyFinding(values) = {"high"}
        <5> DEFINE c == P95(values)
        <5>1. c > 200 * Budget
          BY <4>4
        <5>2. c \in Nat
          BY <4>4
        <5> HIDE DEF c
        <5>3. ~(c <= 100 * Budget) /\ c > 200 * Budget /\ ~(Len(values) < MinSamples)
          BY <3>3, <4>1, <4>2, <5>1, <5>2
        <5> QED BY <5>3 DEF LatencyFinding, c
      <4>6. PageFindings(baPages[i]) = LatencyFinding(values)
        BY <2>3 DEF PageFindings, values
      <4> QED BY <2>1, <4>5, <4>6
    <3> QED BY <1>4, <2>3, <3>1, <3>3
  <2> QED BY <2>2, <2>3 DEF BaInv, BaTypeOK
<1> QED BY <1>5, <1>6 DEF BrowserPassIsEarned

LEMMA EvidenceServes == ASSUME BaInv PROVE EvidenceIsItsOwn
<1> SUFFICES ASSUME Judged, NEW f \in BaFindings
             PROVE  \/ f.file \in DOMAIN baFiles /\ \E p \in ToSet(baFiles[f.file]) : p.route = f.route
                    \/ \E r \in ToSet(baRoutes) \ {f.route} : Slug[r] = f.file
  BY DEF EvidenceIsItsOwn
<1>1. PICK p \in ToSet(baPages) :
        \E s \in PageFindings(p) : f = [severity |-> s, route |-> p.route, file |-> Slug[p.route]]
  BY DEF BaFindings
<1>2. PICK i \in DOMAIN baPages : p = baPages[i]
  BY DEF ToSet
<1>3. f.route = baRoutes[i] /\ f.file = Slug[baRoutes[i]] /\ p.route = baRoutes[i]
  BY <1>1, <1>2 DEF BaInv, PagesAreWhole
<1>4. OnFile(i) /\ "index" \in DOMAIN baFiles /\ baFiles["index"] = baPages
  BY DEF BaInv
<1>5. CASE Slug[baRoutes[i]] = "index"
  BY <1>1, <1>3, <1>4, <1>5
<1>6. CASE Slug[baRoutes[i]] # "index"
  <2>1. PICK k \in DOMAIN baPages :
          /\ Slug[baRoutes[i]] \in DOMAIN baFiles
          /\ Slug[baRoutes[k]] = Slug[baRoutes[i]]
          /\ Copied(baFiles[Slug[baRoutes[i]]], baPages[k])
    BY <1>4, <1>6 DEF OnFile
  <2>2. k \in DOMAIN baRoutes /\ baPages[k].route = baRoutes[k]
    BY PagesTyped, RoutesTyped DEF BaInv, BaTypeOK, PagesAreWhole
  <2>3. CASE baRoutes[k] = baRoutes[i]
    <3> DEFINE file == baFiles[f.file]
    <3>1. file \in Seq(PageResult) /\ Len(file) = 1 /\ file[1].route = baRoutes[i]
      BY <1>3, <2>1, <2>2, <2>3 DEF BaInv, BaTypeOK, Copied
    <3>2. file[1] \in ToSet(file)
      BY <3>1 DEF ToSet
    <3> QED BY <1>3, <2>1, <3>1, <3>2
  <2>4. CASE baRoutes[k] # baRoutes[i]
    <3>1. baRoutes[k] \in ToSet(baRoutes)
      BY <2>2 DEF ToSet
    <3> QED BY <1>3, <2>1, <2>4, <3>1
  <2> QED BY <2>3, <2>4
<1> QED BY <1>5, <1>6

LEMMA SamplesServe == ASSUME BaInv PROVE SamplesAgree
<1> SUFFICES ASSUME Judged, NEW i \in DOMAIN baPages
             PROVE  /\ IsPrefix(baPages[i].judged, baPages[i].samples)
                    /\ baFiles["index"][i].samples = baPages[i].samples
                    /\ HasOwnFile(i) =>
                         /\ IsPrefix(baPages[i].judged, baFiles[Slug[baRoutes[i]]][1].samples)
                         /\ IsPrefix(baFiles[Slug[baRoutes[i]]][1].samples, baPages[i].samples)
  BY DEF SamplesAgree
<1>1. IsPrefix(baPages[i].judged, baPages[i].samples) /\ baFiles["index"] = baPages /\ OnFile(i)
  BY DEF BaInv, PagesAreWhole, Summed
<1>2. ASSUME HasOwnFile(i) PROVE Copied(baFiles[Slug[baRoutes[i]]], baPages[i])
  <2>1. PICK k \in DOMAIN baPages :
          /\ Slug[baRoutes[k]] = Slug[baRoutes[i]]
          /\ Copied(baFiles[Slug[baRoutes[i]]], baPages[k])
    BY <1>1, <1>2 DEF OnFile, HasOwnFile
  <2>2. k \in DOMAIN baRoutes
    BY PagesTyped, RoutesTyped DEF BaInv, BaTypeOK, PagesAreWhole
  <2> QED BY <1>2, <2>1, <2>2 DEF HasOwnFile
<1> QED BY <1>1, <1>2 DEF Copied, Summed

LEMMA BaHolds == BaSpec => []BaInv
<1>1. BaInv /\ [BaNext]_baVars => BaInv'
  BY BaSteps
<1> QED BY <1>1, BaStarts, PTL DEF BaSpec

LEMMA BaServes == BaInv => BaTypeOK /\ BrowserVerdictIsEarned
  BY PassServes, EvidenceServes, SamplesServe DEF BaInv, BrowserVerdictIsEarned

\* A browser audit that passes has visited every route and measured it to its
\* end, and the three places of a page's samples tell one story (auditA11y,
\* auditPerf and summarize), for any routes, flaws and late answers.
THEOREM BrowserStaysEarned == BaSpec => []BrowserVerdictIsEarned
  BY BaHolds, BaServes, PTL

(***************************************************************************)
(* SecurityAudit.  A route of a check counts when the answer came that     *)
(* completes its probe.  The answers of the running check are those of the *)
(* routes before the one it is on, and of that one before the request that *)
(* comes next; the checks behind it have none.                             *)
(***************************************************************************)
Probed(check) == {i \in DOMAIN saRoutes : <<check, i, CountedAt(check)>> \in saAnswers}

Sound(r) ==
  /\ \A f \in r.issues : f[1] = r.check
  /\ r.skipped => r.issues = {}
  /\ r.check \in HttpChecks => r.scanned = Cardinality(Probed(r.check))

SaRunning ==
  /\ Len(saResults) <= Planned
  /\ \A a \in saAnswers :
       \/ \E i \in DOMAIN saResults : saEnabled[i] = a[1]
       \/ CheckRuns /\ a[1] = CheckNow /\ (a[2] < Position \/ (a[2] = Position /\ a[3] < saRequest))
  /\ saTold = SaFindings \cup (IF CheckRuns THEN saCurrent.issues ELSE {})
  /\ CheckRuns =>
       /\ CheckNow = saEnabled[Len(saResults) + 1]
       /\ Len(saLeft) <= Len(saRoutes)
       /\ saRequest <= Requests(CheckNow)
       /\ Sound(saCurrent) /\ ~saCurrent.skipped
       /\ CheckNow \notin HttpChecks \/ ~Allowed => saCurrent = Empty(CheckNow)

SaVerdict ==
  /\ saTold = SaFindings
  /\ DOMAIN saFiles = {r.check : r \in ToSet(saResults)} \cup {"index"}
  /\ \A n \in DOMAIN saFiles : saFiles[n] = {r \in ToSet(saResults) : n = "index" \/ r.check = n}
  /\ saStatus = IF \A r \in ToSet(saResults) : r.skipped THEN "skipped"
                ELSE IF \E f \in SaFindings : f[3] \in {"critical", "high"}
                THEN "failed" ELSE "passed"

SaInv ==
  /\ SaTypeOK
  /\ \A i, j \in DOMAIN saEnabled : saEnabled[i] = saEnabled[j] => i = j
  /\ Len(saResults) <= Len(saEnabled)
  /\ \A i \in DOMAIN saResults : saResults[i].check = saEnabled[i] /\ Sound(saResults[i])
  /\ RefusedStaysSilent
  /\ saStage = "start" => saResults = <<>> /\ saAnswers = {} /\ saTold = {}
  /\ saStage = "run" => SaRunning
  /\ saStage \in {"start", "run"} => saStatus = "none"
  /\ saStage = "done" => saStatus = "errored" \/ SaVerdict

LEMMA ChecksAre ==
  /\ DOMAIN Order = 1..5
  /\ Checks = {"headers", "xss_stored", "sqli", "dependency_scan", "sast"}
<1>1. Order \in Seq({"headers", "xss_stored", "sqli", "dependency_scan", "sast"})
  BY DEF Order
<1>2. Len(Order) = 5
  BY DEF Order
<1>3. DOMAIN Order = 1..5
  BY <1>1, <1>2
<1>4. ToSet(Order) = {Order[1], Order[2], Order[3], Order[4], Order[5]}
  BY <1>3 DEF ToSet
<1>5. ToSet(Order) = {"headers", "xss_stored", "sqli", "dependency_scan", "sast"}
  BY <1>4 DEF Order
<1> QED BY <1>3, <1>5 DEF Checks

\* A list in canonical order names no check twice.
LEMMA EnabledIsDistinct ==
  ASSUME NEW configured, NEW restriction, NEW list \in EnabledChecks(configured, restriction)
  PROVE  /\ list \in Seq(Checks)
         /\ \A i, j \in DOMAIN list : list[i] = list[j] => i = j
<1>1. list \in SeqOf(Checks, Len(Order)) /\ \A i, j \in DOMAIN list : i < j => Place(list[i]) < Place(list[j])
  BY DEF EnabledChecks
<1>2. Len(Order) = 5
  BY DEF Order
<1>3. PICK m \in 0..5 : list \in [1..m -> Checks]
  BY <1>1, <1>2 DEF SeqOf
<1>4. list \in Seq(Checks) /\ DOMAIN list = 1..m
  BY <1>3
<1>5. \A check \in Checks : Place(check) \in 1..5
  <2> SUFFICES ASSUME NEW check \in Checks PROVE \E i \in 1..5 : Order[i] = check
    BY ChecksAre DEF Place
  <2> QED BY ChecksAre DEF Checks, ToSet
<1>6. \A i \in DOMAIN list : Place(list[i]) \in Nat
  BY <1>3, <1>5
<1>7. ASSUME NEW i \in DOMAIN list, NEW j \in DOMAIN list, list[i] = list[j] PROVE i = j
  <2>1. ~(i < j) /\ ~(j < i)
    <3>1. Place(list[i]) = Place(list[j])
      BY <1>7
    <3> QED BY <1>1, <1>6, <3>1
  <2> QED BY <1>3, <2>1
<1> QED BY <1>4, <1>7

LEMMA SaStarts == SaInit => SaInv
<1> SUFFICES ASSUME SaInit PROVE SaInv
  OBVIOUS
<1>1. saEnabled \in Seq(Checks) /\ \A i, j \in DOMAIN saEnabled : saEnabled[i] = saEnabled[j] => i = j
  BY EnabledIsDistinct DEF SaInit
<1>2. saCurrent \in CheckResult
  BY ChecksAre DEF SaInit, Empty, CheckResult
<1>3. saFlips \in 0..MaxFlips
  BY FlipsAreCounted DEF SaInit
<1>4. DOMAIN saResults = {} /\ Len(saResults) = 0 /\ DOMAIN saFiles = {}
  BY DEF SaInit
<1>5. SaTypeOK
  BY <1>1, <1>2, <1>3, <1>4, RoutesAreListed DEF SaInit, SaTypeOK
<1> QED BY <1>1, <1>4, <1>5 DEF SaInit, SaInv, RefusedStaysSilent

\* What the steps that answer nothing leave as it is.
LEMMA SameSound ==
  ASSUME UNCHANGED <<saRoutes, saAnswers>>
  PROVE  \A r : Sound(r)' <=> Sound(r)
BY DEF Sound, Probed

LEMMA FlipKeeps == ASSUME SaInv, Flip PROVE SaInv'
<1> USE DEF Flip, saFixed, saOutcome
<1>1. SaTypeOK'
  BY FlipsAreCounted DEF SaInv, SaTypeOK
<1>2. \A r : Sound(r)' <=> Sound(r)
  BY SameSound
<1>3. SaRunning' <=> SaRunning
  BY <1>2 DEF SaRunning, Planned, CheckRuns, CheckNow, Position, SaFindings, Allowed
<1> QED BY <1>1, <1>2, <1>3 DEF SaInv, RefusedStaysSilent

LEMMA RaisesKeeps == ASSUME SaInv, SaRaises PROVE SaInv'
<1> USE DEF SaRaises, saFixed, saTarget
<1>1. SaTypeOK'
  BY DEF SaInv, SaTypeOK
<1>2. \A r : Sound(r)' <=> Sound(r)
  BY SameSound
<1> QED BY <1>1, <1>2 DEF SaInv, RefusedStaysSilent

\* The next check begins with nothing, and nothing has been answered to it.
LEMMA BeginFacts ==
  ASSUME SaInv, NEW number \in DOMAIN saEnabled, Begin(number), UNCHANGED <<saRoutes, saAnswers, saEnabled, saGranted>>,
         \A a \in saAnswers : \E i \in 1..(number - 1) : saEnabled[i] = a[1]
  PROVE  /\ saCurrent' \in CheckResult /\ CheckNow' = saEnabled[number]
         /\ saLeft' \in Seq(Path) /\ Len(saLeft') = Len(saRoutes)
         /\ saRequest' = 1 /\ saRequest' <= Requests(CheckNow')
         /\ Sound(saCurrent') /\ Sound(saCurrent)' /\ ~saCurrent'.skipped /\ saCurrent'.issues = {}
         /\ saCurrent' = Empty(CheckNow')
<1> DEFINE check == saEnabled[number]
<1>1. saEnabled \in Seq(Checks) /\ \A i, j \in DOMAIN saEnabled : saEnabled[i] = saEnabled[j] => i = j
  BY DEF SaInv, SaTypeOK
<1>2. check \in Checks
  BY <1>1
<1>3. saCurrent' = Empty(check) /\ saLeft' = saRoutes /\ saRequest' = 1
  BY DEF Begin
<1>4. Empty(check) \in CheckResult
  BY <1>2 DEF Empty, CheckResult
<1>5. \A a \in saAnswers : a[1] # check
  BY <1>1
<1>6. Probed(check) = {}
  BY <1>5 DEF Probed
<1>7. Sound(Empty(check))
  BY <1>6, FS_EmptySet DEF Sound, Empty
<1>8. Sound(saCurrent')
  BY <1>3, <1>7
<1>9. Sound(saCurrent)' <=> Sound(saCurrent')
  BY DEF Sound, Probed
<1>10. 1 <= Requests(check)
  BY DEF Requests
<1>11. saRoutes \in Seq(Path)
  BY DEF SaInv, SaTypeOK
<1> QED BY <1>3, <1>4, <1>8, <1>9, <1>10, <1>11 DEF Empty, CheckNow

LEMMA StartChecksKeeps == ASSUME SaInv, Start PROVE SaInv'
<1> USE DEF Start, saFixed, saTarget, saOutcome
<1>1. saResults = <<>> /\ saAnswers = {} /\ saTold = {} /\ saStage' = "run" /\ saStatus = "none"
  BY DEF SaInv
<1>2. Len(saResults) = 0 /\ DOMAIN saResults = {} /\ SaFindings = {}
  BY <1>1 DEF SaFindings, ToSet
<1>3. Planned' = Planned /\ Planned \in Nat /\ saEnabled \in Seq(Checks)
  BY DEF Planned, SaInv, SaTypeOK
<1>4. \A r : Sound(r)' <=> Sound(r)
  BY SameSound
<1>5. CASE saRoutes # <<>> /\ saEnabled # <<>>
  <2>1. Begin(1) /\ 1 \in DOMAIN saEnabled
    BY <1>3, <1>5
  <2>2. /\ saCurrent' \in CheckResult /\ CheckNow' = saEnabled[1]
        /\ saLeft' \in Seq(Path) /\ Len(saLeft') = Len(saRoutes)
        /\ saRequest' = 1 /\ saRequest' <= Requests(CheckNow')
        /\ Sound(saCurrent)' /\ ~saCurrent'.skipped /\ saCurrent'.issues = {}
        /\ saCurrent' = Empty(CheckNow')
    BY <1>1, <2>1, BeginFacts
  <2>3. SaTypeOK'
    BY <2>2 DEF SaInv, SaTypeOK
  <2>4. SaRunning'
    BY <1>1, <1>2, <1>3, <2>2 DEF SaRunning, CheckRuns, SaFindings
  <2> QED BY <1>1, <1>4, <2>3, <2>4 DEF SaInv, RefusedStaysSilent
<1>6. CASE ~(saRoutes # <<>> /\ saEnabled # <<>>)
  <2>1. Planned = 0
    BY <1>6 DEF Planned
  <2>2. SaTypeOK'
    BY <1>6 DEF SaInv, SaTypeOK
  <2>3. ~CheckRuns'
    BY <1>2, <1>3, <2>1 DEF CheckRuns
  <2>4. SaRunning'
    BY <1>1, <1>2, <1>3, <2>1, <2>3 DEF SaRunning, SaFindings
  <2> QED BY <1>1, <1>4, <2>2, <2>4 DEF SaInv, RefusedStaysSilent
<1> QED BY <1>5, <1>6

\* A check returns its result: what it has told is in the findings from now on.
LEMMA ReturnsKeeps ==
  ASSUME SaInv, CheckRuns, NEW result \in CheckResult, Returns(result),
         result.check = CheckNow, Sound(result),
         saTold' = SaFindings \cup result.issues,
         UNCHANGED <<saFixed, saTarget, saStage, saAnswers, saOutcome>>
  PROVE  SaInv'
<1> USE DEF saFixed, saTarget, saOutcome
<1> DEFINE n == Len(saResults)
<1>1. /\ saStage = "run" /\ n < Planned /\ SaRunning /\ saResults \in Seq(CheckResult) /\ n \in Nat
      /\ saEnabled \in Seq(Checks) /\ CheckNow = saEnabled[n + 1] /\ saStatus = "none"
  BY DEF SaInv, SaTypeOK, CheckRuns, SaRunning
<1>2. /\ saResults' = Append(saResults, result) /\ saResults' \in Seq(CheckResult) /\ Len(saResults') = n + 1
      /\ DOMAIN saResults' = 1..(n + 1)
  BY <1>1 DEF Returns
<1>3. saResults'[n + 1] = result /\ \A i \in DOMAIN saResults : saResults'[i] = saResults[i]
  BY <1>1, <1>2
<1>4. Planned \in Nat /\ Planned <= Len(saEnabled) /\ Planned' = Planned /\ DOMAIN saEnabled = 1..Len(saEnabled)
  BY <1>1 DEF Planned
<1>5. \A r : Sound(r)' <=> Sound(r)
  BY SameSound
<1>6. \A i \in DOMAIN saResults' : saResults'[i].check = saEnabled[i] /\ Sound(saResults[i])'
  <2> SUFFICES ASSUME NEW i \in DOMAIN saResults'
               PROVE  saResults'[i].check = saEnabled[i] /\ Sound(saResults'[i])
    BY DEF Sound, Probed
  <2>1. CASE i = n + 1
    BY <1>1, <1>3, <2>1
  <2>2. CASE i \in 1..n
    <3>1. i \in DOMAIN saResults
      BY <1>1, <2>2
    <3> QED BY <1>3, <3>1 DEF SaInv
  <2> QED BY <1>1, <1>2, <2>1, <2>2
<1>7. SaFindings' = SaFindings \cup result.issues
  <2>1. ToSet(saResults') = ToSet(saResults) \cup {result}
    <3>1. DOMAIN saResults = 1..n
      BY <1>1
    <3>2. DOMAIN saResults' = DOMAIN saResults \cup {n + 1}
      BY <1>1, <1>2, <3>1
    <3> QED BY <1>3, <3>2 DEF ToSet
  <2> QED BY <2>1 DEF SaFindings
<1>8. saTold' \subseteq SecurityIssue
  <2>1. result.issues \subseteq SecurityIssue
    BY DEF CheckResult
  <2>2. SaFindings \subseteq saTold
    BY <1>1 DEF SaRunning
  <2> QED BY <2>1, <2>2 DEF SaInv, SaTypeOK
<1>9. \A a \in saAnswers : \E i \in 1..(n + 1) : saEnabled[i] = a[1]
  <2> SUFFICES ASSUME NEW a \in saAnswers PROVE \E i \in 1..(n + 1) : saEnabled[i] = a[1]
    OBVIOUS
  <2>1. (\E i \in DOMAIN saResults : saEnabled[i] = a[1]) \/ a[1] = CheckNow
    BY <1>1 DEF SaRunning
  <2>2. DOMAIN saResults \subseteq 1..(n + 1) /\ n + 1 \in 1..(n + 1)
    BY <1>1
  <2> QED BY <1>1, <2>1, <2>2
<1>10. /\ SaTypeOK' /\ SaRunning'
  <2>1. CASE n + 1 < Planned
    <3>1. Begin(n + 2) /\ n + 2 \in DOMAIN saEnabled /\ (n + 2) - 1 = n + 1
      BY <1>1, <1>4, <2>1 DEF Returns
    <3>2. /\ saCurrent' \in CheckResult /\ CheckNow' = saEnabled[n + 2]
          /\ saLeft' \in Seq(Path) /\ Len(saLeft') = Len(saRoutes)
          /\ saRequest' = 1 /\ saRequest' <= Requests(CheckNow')
          /\ Sound(saCurrent)' /\ ~saCurrent'.skipped /\ saCurrent'.issues = {}
          /\ saCurrent' = Empty(CheckNow')
      BY <1>9, <3>1, BeginFacts
    <3>3. SaTypeOK'
      BY <1>2, <1>8, <3>2 DEF SaInv, SaTypeOK
    <3>4. (n + 1) + 1 = n + 2 /\ n + 1 <= Planned
      BY <1>1, <2>1, <1>4
    <3>5. SaRunning'
      BY <1>1, <1>2, <1>4, <1>7, <1>9, <3>2, <3>4 DEF SaRunning
    <3> QED BY <3>3, <3>5
  <2>2. CASE ~(n + 1 < Planned)
    <3>1. UNCHANGED <<saCurrent, saLeft, saRequest>>
      BY <2>2 DEF Returns
    <3>2. SaTypeOK'
      BY <1>2, <1>8, <3>1 DEF SaInv, SaTypeOK
    <3>3. ~CheckRuns' /\ Len(saResults') <= Planned'
      BY <1>1, <1>2, <1>4, <2>2 DEF CheckRuns
    <3>4. SaRunning'
      BY <1>2, <1>7, <1>9, <3>3 DEF SaRunning
    <3> QED BY <3>2, <3>4
  <2> QED BY <2>1, <2>2
<1>11. Len(saResults') <= Len(saEnabled)
  BY <1>1, <1>2, <1>4
<1> QED BY <1>1, <1>6, <1>10, <1>11 DEF SaInv, RefusedStaysSilent

LEMMA RunningFacts ==
  ASSUME SaInv, CheckRuns
  PROVE  /\ saStage = "run" /\ SaRunning /\ saCurrent \in CheckResult /\ CheckNow \in Checks
         /\ saTold = SaFindings \cup saCurrent.issues
         /\ Sound(saCurrent) /\ ~saCurrent.skipped
  BY DEF SaInv, SaTypeOK, CheckRuns, SaRunning, CheckNow, CheckResult

\* What a check may turn its result into.
LEMMA ResultFields ==
  ASSUME NEW c \in CheckResult, NEW n \in Nat, NEW found \in SUBSET SecurityIssue
  PROVE  /\ [c EXCEPT !.skipped = TRUE] \in CheckResult
         /\ [c EXCEPT !.skipped = TRUE].check = c.check
         /\ [c EXCEPT !.skipped = TRUE].issues = c.issues
         /\ [c EXCEPT !.skipped = TRUE].scanned = c.scanned
         /\ [c EXCEPT !.scanned = n] \in CheckResult
         /\ [c EXCEPT !.scanned = n].check = c.check
         /\ [c EXCEPT !.scanned = n].issues = c.issues
         /\ [c EXCEPT !.scanned = n].scanned = n
         /\ [c EXCEPT !.scanned = n].skipped = c.skipped
         /\ [c EXCEPT !.scanned = n, !.issues = found] \in CheckResult
         /\ [c EXCEPT !.scanned = n, !.issues = found].check = c.check
         /\ [c EXCEPT !.scanned = n, !.issues = found].issues = found
         /\ [c EXCEPT !.scanned = n, !.issues = found].scanned = n
         /\ [c EXCEPT !.scanned = n, !.issues = found].skipped = c.skipped
BY DEF CheckResult

LEMMA RefuseKeeps == ASSUME SaInv, Refuse PROVE SaInv'
<1> DEFINE result == [saCurrent EXCEPT !.skipped = TRUE]
<1>1. /\ CheckRuns /\ Returns(result) /\ UNCHANGED <<saFixed, saTarget, saStage, saTold, saAnswers, saOutcome>>
  BY DEF Refuse
<1>2. saCurrent = Empty(CheckNow) /\ saCurrent \in CheckResult /\ Sound(saCurrent)
      /\ saTold = SaFindings \cup saCurrent.issues
  BY <1>1, RunningFacts DEF Refuse, SaRunning
<1>3. saCurrent.check = CheckNow /\ saCurrent.issues = {}
  BY <1>2 DEF Empty, CheckNow
<1>7. /\ result \in CheckResult /\ result.check = CheckNow /\ result.issues = {}
      /\ result.scanned = saCurrent.scanned
  BY <1>2, <1>3, ResultFields
<1>4. Sound(result)
  BY <1>2, <1>3, <1>7 DEF Sound
<1> HIDE DEF result
<1>5. saTold' = SaFindings \cup result.issues
  BY <1>1, <1>2, <1>3, <1>7
<1>6. UNCHANGED <<saFixed, saTarget, saStage, saAnswers, saOutcome>>
  BY <1>1
<1> QED BY <1>1, <1>4, <1>5, <1>6, <1>7, ReturnsKeeps

LEMMA RoutesDoneKeeps == ASSUME SaInv, RoutesDone PROVE SaInv'
<1>1. /\ CheckRuns /\ Returns(saCurrent) /\ UNCHANGED <<saFixed, saTarget, saStage, saTold, saAnswers, saOutcome>>
  BY DEF RoutesDone
<1>2. saCurrent \in CheckResult /\ Sound(saCurrent) /\ saTold = SaFindings \cup saCurrent.issues
  BY <1>1, RunningFacts
<1>3. saTold' = SaFindings \cup saCurrent.issues /\ saCurrent.check = CheckNow
  BY <1>1, <1>2 DEF CheckNow
<1> QED BY <1>1, <1>2, <1>3, ReturnsKeeps

LEMMA ShownIsTyped ==
  ASSUME NEW check \in Checks, NEW at \in Path \cup {"project"}, NEW shown \in Shown
  PROVE  {<<check, at, s>> : s \in shown} \subseteq SecurityIssue
  BY DEF Shown, SecurityIssue

LEMMA ScanKeeps == ASSUME SaInv, Scan PROVE SaInv'
<1>1. CheckRuns /\ CheckNow \notin HttpChecks /\ UNCHANGED <<saFixed, saTarget, saStage, saAnswers, saOutcome>>
  BY DEF Scan
<1>2. /\ saCurrent = Empty(CheckNow) /\ saCurrent \in CheckResult /\ CheckNow \in Checks
      /\ saTold = SaFindings \cup saCurrent.issues
  BY <1>1, RunningFacts DEF SaRunning
<1>3. saTold = SaFindings
  BY <1>2 DEF Empty
<1>4. ASSUME NEW result \in CheckResult, Returns(result), result.check = CheckNow,
             \A f \in result.issues : f[1] = CheckNow, result.skipped => result.issues = {},
             saTold' = saTold \cup result.issues
      PROVE  SaInv'
  <2>1. Sound(result)
    BY <1>1, <1>4 DEF Sound
  <2> QED BY <1>1, <1>3, <1>4, <2>1, ReturnsKeeps
<1>5. CASE \E shown \in Shown :
            LET found == {<<CheckNow, "project", s>> : s \in shown}
            IN  Returns([saCurrent EXCEPT !.scanned = 1, !.issues = found])
                /\ saTold' = saTold \cup found
  <2>1. PICK shown \in Shown :
            /\ Returns([saCurrent EXCEPT !.scanned = 1, !.issues = {<<CheckNow, "project", s>> : s \in shown}])
            /\ saTold' = saTold \cup {<<CheckNow, "project", s>> : s \in shown}
    BY <1>5
  <2> DEFINE found == {<<CheckNow, "project", s>> : s \in shown}
             result == [saCurrent EXCEPT !.scanned = 1, !.issues = found]
  <2>2. found \subseteq SecurityIssue
    BY <1>2, ShownIsTyped
  <2>3. \A f \in found : f[1] = CheckNow
    OBVIOUS
  <2> HIDE DEF found
  <2>4. result \in CheckResult /\ result.check = CheckNow /\ result.issues = found /\ ~result.skipped
    <3>1. saCurrent.check = CheckNow /\ ~saCurrent.skipped
      BY <1>2 DEF Empty, CheckNow
    <3>2. saCurrent \in CheckResult
      BY <1>2
    <3>3. result \in CheckResult /\ result.check = saCurrent.check /\ result.issues = found
      BY <2>2, <3>2 DEF CheckResult
    <3>4. result.skipped = saCurrent.skipped
      BY <3>2 DEF CheckResult
    <3> QED BY <3>1, <3>3, <3>4
  <2>5. Returns(result) /\ saTold' = saTold \cup result.issues
    BY <2>1, <2>4 DEF found
  <2> HIDE DEF result
  <2> QED BY <1>4, <2>3, <2>4, <2>5
<1>6. CASE /\ Returns(IF CheckNow = "dependency_scan" THEN [saCurrent EXCEPT !.scanned = 1]
                      ELSE [saCurrent EXCEPT !.skipped = TRUE])
           /\ UNCHANGED saTold
  <2> DEFINE result == IF CheckNow = "dependency_scan" THEN [saCurrent EXCEPT !.scanned = 1]
                       ELSE [saCurrent EXCEPT !.skipped = TRUE]
  <2>1. result \in CheckResult /\ result.check = CheckNow /\ result.issues = {}
    <3>1. saCurrent.check = CheckNow /\ saCurrent.issues = {}
      BY <1>2 DEF Empty, CheckNow
    <3>2. CASE CheckNow = "dependency_scan"
      <4>1. result = [saCurrent EXCEPT !.scanned = 1]
        BY <3>2
      <4>2. result \in CheckResult /\ result.check = saCurrent.check /\ result.issues = saCurrent.issues
        <5>1. saCurrent \in CheckResult
          BY <1>2
        <5> QED BY <4>1, <5>1 DEF CheckResult
      <4> QED BY <3>1, <4>2
    <3>3. CASE CheckNow # "dependency_scan"
      <4>1. result = [saCurrent EXCEPT !.skipped = TRUE]
        BY <3>3
      <4>2. result \in CheckResult /\ result.check = saCurrent.check /\ result.issues = saCurrent.issues
        BY <1>2, <4>1, ResultFields
      <4> QED BY <3>1, <4>2
    <3> QED BY <3>2, <3>3
  <2>2. Returns(result)
    BY <1>6
  <2> HIDE DEF result
  <2>3. saTold' = saTold \cup result.issues
    BY <1>6, <2>1
  <2> QED BY <1>4, <2>1, <2>2, <2>3
<1> QED BY <1>5, <1>6 DEF Scan

\* On to the next route: what was answered lies behind it.
LEMMA UnansweredKeeps == ASSUME SaInv, Unanswered PROVE SaInv'
<1> USE DEF saFixed, saTarget, saOutcome
<1>1. /\ CheckRuns /\ saLeft # <<>> /\ saLeft' = Tail(saLeft) /\ saRequest' = 1
      /\ CheckNow \in HttpChecks /\ Allowed
      /\ UNCHANGED <<saFixed, saTarget, saStage, saCurrent, saResults, saTold, saAnswers, saOutcome>>
  BY DEF Unanswered, NextRoute
<1>2. saStage = "run" /\ SaRunning /\ saLeft \in Seq(Path) /\ saRoutes \in Seq(Path) /\ saRequest \in 1..3
      /\ saAnswers \subseteq Checks \X (1..Len(saRoutes)) \X (1..3)
  BY <1>1, RunningFacts DEF SaInv, SaTypeOK
<1>3. saLeft' \in Seq(Path) /\ Len(saLeft') = Len(saLeft) - 1 /\ Len(saLeft) \in Nat /\ Len(saLeft) <= Len(saRoutes)
  BY <1>1, <1>2 DEF SaRunning
<1>4. Position' = Position + 1 /\ Position \in Nat
  BY <1>1, <1>2, <1>3 DEF Position
<1>5. \A r : Sound(r)' <=> Sound(r)
  BY <1>1, SameSound
<1>6. CheckRuns' /\ CheckNow' = CheckNow /\ Planned' = Planned /\ SaFindings' = SaFindings /\ (Allowed' <=> Allowed)
  BY <1>1 DEF CheckRuns, CheckNow, Planned, SaFindings, Allowed
<1>7. 1 <= Requests(CheckNow)
  BY DEF Requests
<1>8. \A a \in saAnswers : a[1] = CheckNow /\ (a[2] < Position \/ (a[2] = Position /\ a[3] < saRequest)) => a[2] < Position'
  BY <1>2, <1>4
<1>9. SaRunning'
  BY <1>1, <1>2, <1>3, <1>5, <1>6, <1>7, <1>8 DEF SaRunning
<1>10. SaTypeOK'
  BY <1>1, <1>3 DEF SaInv, SaTypeOK
<1> QED BY <1>1, <1>2, <1>5, <1>9, <1>10 DEF SaInv, RefusedStaysSilent

LEMMA JudgeChecksKeeps == ASSUME SaInv, SaJudge PROVE SaInv'
<1> USE DEF SaJudge, saFixed, saTarget
<1>1. saTold = SaFindings
  <2>1. saResults \in Seq(CheckResult) /\ SaRunning
    BY DEF SaInv, SaTypeOK
  <2>2. ~CheckRuns
    BY <2>1 DEF CheckRuns
  <2> QED BY <2>1, <2>2 DEF SaRunning
<1>2. \A r : Sound(r)' <=> Sound(r)
  BY SameSound
<1>3. saResults \in Seq(CheckResult) /\ ToSet(saResults) \subseteq CheckResult
  <2>1. saResults \in Seq(CheckResult)
    BY DEF SaInv, SaTypeOK
  <2> QED BY <2>1 DEF ToSet
<1>4. SaFindings' = SaFindings
  BY DEF SaFindings
<1>5. SaVerdict'
  BY <1>1, <1>4 DEF SaVerdict
<1>6. \A n \in DOMAIN saFiles' : n \in Checks \cup {"index"} /\ saFiles'[n] \subseteq CheckResult
  <2>1. {r.check : r \in ToSet(saResults)} \subseteq Checks
    BY <1>3 DEF CheckResult
  <2> QED BY <1>3, <1>5, <2>1 DEF SaVerdict
<1>7. SaTypeOK'
  BY <1>6 DEF SaInv, SaTypeOK
<1> QED BY <1>2, <1>5, <1>7 DEF SaInv, RefusedStaysSilent

\* An answer to the running check adds itself and nothing else.
LEMMA AnsweredFacts ==
  ASSUME SaInv, Answered
  PROVE  /\ CheckRuns /\ CheckNow \in HttpChecks /\ Allowed /\ saLeft # <<>>
         /\ SaRunning /\ saStage = "run" /\ CheckNow \in Checks
         /\ Position \in 1..Len(saRoutes) /\ saRequest \in 1..3 /\ Len(saRoutes) \in Nat
         /\ saLeft \in Seq(Path) /\ Head(saLeft) \in Path /\ Len(saLeft) \in Nat /\ Len(saLeft) <= Len(saRoutes)
         /\ saAnswers' = saAnswers \cup {<<CheckNow, Position, saRequest>>}
         /\ saAnswers' \subseteq Checks \X (1..Len(saRoutes)) \X (1..3)
         /\ DOMAIN saRoutes = 1..Len(saRoutes)
<1>1. CheckRuns /\ CheckNow \in HttpChecks /\ Allowed /\ saLeft # <<>>
      /\ saAnswers' = saAnswers \cup {<<CheckNow, Position, saRequest>>}
  BY DEF Answered
<1>2. SaRunning /\ saStage = "run" /\ CheckNow \in Checks
  BY <1>1, RunningFacts
<1>3. saLeft \in Seq(Path) /\ saRoutes \in Seq(Path) /\ saRequest \in 1..3
      /\ saAnswers \subseteq Checks \X (1..Len(saRoutes)) \X (1..3)
  BY DEF SaInv, SaTypeOK
<1>4. Len(saLeft) \in Nat /\ Len(saLeft) > 0 /\ Len(saLeft) <= Len(saRoutes) /\ Len(saRoutes) \in Nat
      /\ Head(saLeft) \in Path /\ DOMAIN saRoutes = 1..Len(saRoutes)
  BY <1>1, <1>2, <1>3 DEF SaRunning
<1>5. Position \in 1..Len(saRoutes)
  BY <1>4 DEF Position
<1>6. saAnswers' \subseteq Checks \X (1..Len(saRoutes)) \X (1..3)
  BY <1>1, <1>2, <1>3, <1>5
<1> QED BY <1>1, <1>2, <1>3, <1>4, <1>5, <1>6

\* The route of this answer counts now, if it is the answer that counts; of
\* the other checks nothing changes.
LEMMA CountIsRight ==
  ASSUME SaInv, Answered, UNCHANGED saRoutes, NEW now, now = CheckNow
  PROVE  /\ \A check : check # now => Probed(check)' = Probed(check)
         /\ Counted.scanned = Cardinality(Probed(now)')
         /\ Counted.scanned \in Nat
         /\ \E n \in Nat : Counted = [saCurrent EXCEPT !.scanned = n]
<1> DEFINE new == <<now, Position, saRequest>>
<1>1. saAnswers' = saAnswers \cup {new} /\ Position \in DOMAIN saRoutes /\ Len(saRoutes) \in Nat
      /\ DOMAIN saRoutes = 1..Len(saRoutes) /\ Position \in Nat /\ saRequest \in Nat
  BY AnsweredFacts
<1>2. ASSUME NEW check, check # now PROVE Probed(check)' = Probed(check)
  BY <1>1, <1>2 DEF Probed
<1>3. saCurrent \in CheckResult /\ saCurrent.scanned = Cardinality(Probed(now)) /\ saCurrent.check = now
      /\ now \in Checks /\ SaRunning
  BY AnsweredFacts, RunningFacts DEF Sound, CheckNow
<1>4. IsFiniteSet(Probed(now)) /\ saCurrent.scanned \in Nat
  <2>1. IsFiniteSet(DOMAIN saRoutes)
    BY <1>1, FS_Interval
  <2>2. Probed(now) \subseteq DOMAIN saRoutes
    BY DEF Probed
  <2> QED BY <1>3, <2>1, <2>2, FS_Subset, FS_CardinalityType
<1>5. CASE saRequest = CountedAt(now)
  <2>1. Probed(now)' = Probed(now) \cup {Position}
    BY <1>1, <1>3, <1>5 DEF Probed
  <2>2. Position \notin Probed(now)
    <3>1. new \notin saAnswers
      <4> SUFFICES ASSUME new \in saAnswers PROVE FALSE
        OBVIOUS
      <4>1. new[1] = now /\ new[2] = Position /\ new[3] = saRequest
        OBVIOUS
      <4>2. \A i \in DOMAIN saResults : saEnabled[i] # now
        <5>1. saEnabled \in Seq(Checks) /\ saResults \in Seq(CheckResult)
          BY DEF SaInv, SaTypeOK
        <5>2. now = saEnabled[Len(saResults) + 1] /\ Len(saResults) < Len(saEnabled)
          <6>1. CheckRuns
            BY AnsweredFacts
          <6> QED BY <5>1, <6>1, <1>3 DEF SaRunning, CheckRuns, Planned
        <5> QED BY <5>1, <5>2 DEF SaInv
      <4>3. ~(new[2] < Position) /\ ~(new[3] < saRequest)
        BY <1>1, <4>1
      <4> QED BY <1>3, <4>1, <4>2, <4>3 DEF SaRunning
    <3> QED BY <1>5, <3>1 DEF Probed
  <2>3. Cardinality(Probed(now) \cup {Position}) = saCurrent.scanned + 1
    BY <1>3, <1>4, <2>2, FS_AddElement
  <2>4. Counted = [saCurrent EXCEPT !.scanned = saCurrent.scanned + 1]
    BY <1>5 DEF Counted
  <2>5. Counted.scanned = saCurrent.scanned + 1
    BY <1>3, <2>4 DEF CheckResult
  <2> QED BY <1>2, <1>4, <2>1, <2>3, <2>4, <2>5
<1>6. CASE saRequest # CountedAt(now)
  <2>1. Probed(now)' = Probed(now)
    BY <1>1, <1>3, <1>6 DEF Probed
  <2>2. Counted = saCurrent
    BY <1>6 DEF Counted
  <2>3. Counted = [saCurrent EXCEPT !.scanned = saCurrent.scanned]
    BY <1>3, <2>2 DEF CheckResult
  <2> QED BY <1>2, <1>3, <1>4, <2>1, <2>2, <2>3
<1> QED BY <1>5, <1>6

\* An answer, with the rest of the step: the result holds what it showed, the
\* probe goes on or the next route comes.
LEMMA AnsweredStep ==
  ASSUME SaInv, Answered,
         NEW found \in SUBSET SecurityIssue, \A f \in found : f[1] = CheckNow,
         NEW n \in Nat, Counted = [saCurrent EXCEPT !.scanned = n],
         saCurrent' \in CheckResult, saCurrent'.check = CheckNow, saCurrent'.scanned = n,
         saCurrent'.issues = saCurrent.issues \cup found, saCurrent'.skipped = saCurrent.skipped,
         saTold' = saTold \cup found,
         \/ saRequest' = saRequest + 1 /\ saRequest < Requests(CheckNow) /\ UNCHANGED saLeft
         \/ NextRoute
  PROVE  SaInv'
<1> DEFINE new == <<CheckNow, Position, saRequest>>
<1>14. PICK now : now = CheckNow
  OBVIOUS
<1>1. /\ CheckRuns /\ CheckNow \in HttpChecks /\ Allowed /\ saLeft # <<>>
      /\ SaRunning /\ saStage = "run" /\ CheckNow \in Checks
      /\ Position \in 1..Len(saRoutes) /\ saRequest \in 1..3 /\ Len(saRoutes) \in Nat
      /\ saLeft \in Seq(Path) /\ Len(saLeft) \in Nat /\ Len(saLeft) <= Len(saRoutes)
      /\ saAnswers' = saAnswers \cup {new}
      /\ saAnswers' \subseteq Checks \X (1..Len(saRoutes)) \X (1..3)
  BY AnsweredFacts
<1>2. UNCHANGED <<saEnabled, saRoutes, saGranted, saUp, saFlips, saStage, saResults, saFiles, saStatus>>
  BY DEF Answered, saFixed, saTarget, saOutcome
<1>3. CheckNow' = now /\ CheckRuns' /\ Planned' = Planned /\ SaFindings' = SaFindings /\ Allowed'
  BY <1>1, <1>2, <1>14 DEF CheckRuns, CheckNow, Planned, SaFindings, Allowed
<1>4. /\ \A check : check # now => Probed(check)' = Probed(check)
      /\ n = Cardinality(Probed(now)')
  <2>1. saCurrent \in CheckResult
    BY <1>1, RunningFacts
  <2>2. Counted.scanned = n
    BY <2>1, ResultFields
  <2> QED BY <1>2, <1>14, <2>2, CountIsRight
<1>5. \A i \in DOMAIN saResults : saResults[i].check = saEnabled[i] /\ saEnabled[i] # now /\ Sound(saResults[i])
  <2>1. saEnabled \in Seq(Checks) /\ saResults \in Seq(CheckResult)
    BY DEF SaInv, SaTypeOK
  <2>2. CheckNow = saEnabled[Len(saResults) + 1] /\ Len(saResults) < Len(saEnabled)
    BY <1>1, <2>1 DEF SaRunning, CheckRuns, Planned
  <2> QED BY <1>14, <2>1, <2>2 DEF SaInv
<1>6. \A i \in DOMAIN saResults' : saResults'[i].check = saEnabled'[i] /\ Sound(saResults[i])'
  <2> SUFFICES ASSUME NEW i \in DOMAIN saResults
               PROVE  saResults[i].check = saEnabled[i] /\ Sound(saResults[i])'
    BY <1>2
  <2>1. Probed(saResults[i].check)' = Probed(saResults[i].check)
    <3>1. \A check : check = saResults[i].check => Probed(check)' = Probed(check)
      BY <1>4, <1>5
    <3> QED BY <1>2, <3>1 DEF Probed
  <2> QED BY <1>2, <1>5, <2>1 DEF Sound
<1>7. Sound(saCurrent)' /\ ~saCurrent'.skipped
  <2>1. Sound(saCurrent) /\ ~saCurrent.skipped /\ saCurrent.check = CheckNow
    BY <1>1, RunningFacts DEF CheckNow
  <2>2. \A f \in saCurrent'.issues : f[1] = saCurrent'.check
    BY <2>1 DEF Sound
  <2>3. Probed(saCurrent.check)' = Probed(now)'
    <3>1. saCurrent'.check = now
      BY <1>14
    <3> QED BY <3>1, <1>3 DEF Probed
  <2>4. saCurrent'.scanned = Cardinality(Probed(saCurrent.check)')
    BY <1>4, <2>3
  <2> QED BY <2>1, <2>2, <2>4 DEF Sound
<1>8. /\ saLeft' \in Seq(Path) /\ Len(saLeft') <= Len(saRoutes) /\ saRequest' \in 1..3
      /\ saRequest' <= Requests(now)
      /\ \/ Position' = Position /\ saRequest' = saRequest + 1
         \/ Position' = Position + 1
  <2>1. Requests(now) \in 1..3 /\ 1 <= Requests(now)
    BY DEF Requests
  <2>2. CASE saRequest' = saRequest + 1 /\ saRequest < Requests(CheckNow) /\ UNCHANGED saLeft
    BY <1>1, <1>2, <1>14, <2>1, <2>2 DEF Position
  <2>3. CASE NextRoute
    <3>1. saLeft' = Tail(saLeft) /\ saRequest' = 1
      BY <2>3 DEF NextRoute
    <3>2. saLeft' \in Seq(Path) /\ Len(saLeft') = Len(saLeft) - 1
      BY <1>1, <3>1
    <3>3. Position' = Position + 1 /\ Len(saLeft') <= Len(saRoutes)
      BY <1>1, <1>2, <3>2 DEF Position
    <3>4. saRequest' \in 1..3 /\ saRequest' <= Requests(now)
      BY <2>1, <3>1
    <3> QED BY <3>2, <3>3, <3>4
  <2> QED BY <2>2, <2>3
<1>9. \A a \in saAnswers' :
        \/ \E i \in DOMAIN saResults : saEnabled[i] = a[1]
        \/ a[1] = now /\ (a[2] < Position' \/ (a[2] = Position' /\ a[3] < saRequest'))
  <2>1. ASSUME NEW a \in saAnswers
        PROVE  \/ \E i \in DOMAIN saResults : saEnabled[i] = a[1]
               \/ a[1] = now /\ (a[2] < Position' \/ (a[2] = Position' /\ a[3] < saRequest'))
    <3>1. a[2] \in 1..Len(saRoutes) /\ a[3] \in 1..3
      BY <1>1
    <3>2. \/ \E i \in DOMAIN saResults : saEnabled[i] = a[1]
          \/ a[1] = now /\ (a[2] < Position \/ (a[2] = Position /\ a[3] < saRequest))
      BY <1>1, <1>14 DEF SaRunning
    <3> QED BY <1>1, <1>8, <3>1, <3>2
  <2>2. new[1] = now /\ (new[2] < Position' \/ (new[2] = Position' /\ new[3] < saRequest'))
    BY <1>1, <1>8, <1>14
  <2> QED BY <1>1, <2>1, <2>2
<1>10. saTold' \subseteq SecurityIssue /\ saTold' = SaFindings \cup saCurrent'.issues
  BY <1>1, RunningFacts DEF SaInv, SaTypeOK
<1>11. SaTypeOK'
  BY <1>1, <1>2, <1>8, <1>10 DEF SaInv, SaTypeOK
<1>12. SaRunning'
  <2>1. Len(saResults) <= Planned /\ CheckNow = saEnabled[Len(saResults) + 1]
    BY <1>1 DEF SaRunning
  <2> QED BY <1>1, <1>2, <1>3, <1>14, <1>7, <1>8, <1>9, <1>10, <2>1 DEF SaRunning
<1>13. RefusedStaysSilent'
  <2>1. \A a \in saAnswers : a[1] \in Gated => a[1] \in saGranted
    BY DEF SaInv, RefusedStaysSilent
  <2>2. new[1] \in Gated => new[1] \in saGranted
    BY <1>1 DEF Allowed
  <2> QED BY <1>1, <1>2, <2>1, <2>2 DEF RefusedStaysSilent
<1> QED BY <1>1, <1>2, <1>6, <1>11, <1>12, <1>13 DEF SaInv

LEMMA AnsweredKeeps == ASSUME SaInv, Answered PROVE SaInv'
<1>1. PICK n \in Nat : Counted = [saCurrent EXCEPT !.scanned = n]
  <2>1. \A now : now = CheckNow /\ UNCHANGED saRoutes => \E n \in Nat : Counted = [saCurrent EXCEPT !.scanned = n]
    BY CountIsRight
  <2>2. UNCHANGED saRoutes
    BY DEF Answered, saFixed
  <2> QED BY <2>1, <2>2
<1>2. saCurrent \in CheckResult /\ saCurrent.check = CheckNow /\ CheckNow \in Checks /\ Head(saLeft) \in Path
  BY AnsweredFacts, RunningFacts DEF CheckNow
<1>3. Counted \in CheckResult /\ Counted.check = CheckNow /\ Counted.scanned = n
      /\ Counted.issues = saCurrent.issues /\ Counted.skipped = saCurrent.skipped
  BY <1>1, <1>2, ResultFields
<1>4. CASE saRequest < Requests(CheckNow)
  <2>1. /\ saCurrent' = Counted /\ saTold' = saTold
        /\ \/ saRequest' = saRequest + 1 /\ UNCHANGED saLeft
           \/ NextRoute
    BY <1>4 DEF Answered
  <2>2. saCurrent'.issues = saCurrent.issues \cup {} /\ saTold' = saTold \cup {}
    BY <1>3, <2>1
  <2> QED BY <1>1, <1>3, <1>4, <2>1, <2>2, AnsweredStep
<1>5. CASE ~(saRequest < Requests(CheckNow))
  <2>1. PICK shown \in Shown :
          /\ saCurrent' = [Counted EXCEPT !.issues = @ \cup {<<CheckNow, Head(saLeft), s>> : s \in shown}]
          /\ saTold' = saTold \cup {<<CheckNow, Head(saLeft), s>> : s \in shown}
          /\ NextRoute
    BY <1>5 DEF Answered
  <2> DEFINE found == {<<CheckNow, Head(saLeft), s>> : s \in shown}
  <2>2. found \subseteq SecurityIssue
    BY <1>2, ShownIsTyped
  <2>3. \A f \in found : f[1] = CheckNow
    OBVIOUS
  <2>4. saCurrent' = [Counted EXCEPT !.issues = @ \cup found] /\ saTold' = saTold \cup found
    BY <2>1
  <2> HIDE DEF found
  <2>5. saCurrent.issues \cup found \subseteq SecurityIssue
    BY <1>2, <2>2 DEF CheckResult
  <2>6. /\ saCurrent' \in CheckResult /\ saCurrent'.check = CheckNow /\ saCurrent'.scanned = n
        /\ saCurrent'.issues = saCurrent.issues \cup found
    BY <1>3, <2>4, <2>5 DEF CheckResult
  <2>7. saCurrent'.skipped = saCurrent.skipped
    BY <1>3, <2>4 DEF CheckResult
  <2> QED BY <1>1, <2>1, <2>2, <2>3, <2>4, <2>6, <2>7, AnsweredStep
<1> QED BY <1>4, <1>5

LEMMA SaSteps == SaInv /\ [SaNext]_saVars => SaInv'
<1> SUFFICES ASSUME SaInv, [SaNext]_saVars PROVE SaInv'
  OBVIOUS
<1>1. CASE UNCHANGED saVars
  <2> USE <1>1 DEF saVars
  <2>1. SaTypeOK'
    BY DEF SaInv, SaTypeOK
  <2>2. \A r : Sound(r)' <=> Sound(r)
    BY SameSound
  <2>3. SaRunning' <=> SaRunning
    BY <2>2 DEF SaRunning, Planned, CheckRuns, CheckNow, Position, SaFindings, Allowed
  <2>4. SaVerdict' <=> SaVerdict
    BY DEF SaVerdict, SaFindings
  <2> QED BY <2>1, <2>2, <2>3, <2>4 DEF SaInv, RefusedStaysSilent
<1> QED BY <1>1, FlipKeeps, RaisesKeeps, StartChecksKeeps, RefuseKeeps, AnsweredKeeps, UnansweredKeeps,
           RoutesDoneKeeps, ScanKeeps, JudgeChecksKeeps DEF SaNext

LEMMA SaServes == SaInv => SaTypeOK /\ SecurityVerdictIsEarned
<1> SUFFICES ASSUME SaInv PROVE SecurityVerdictIsEarned
  BY DEF SaInv
<1>1. NothingShownIsLost
  <2> SUFFICES ASSUME saStatus \in {"passed", "failed", "skipped"}
               PROVE  /\ saTold = SaFindings
                      /\ \A f \in saTold : \E r \in saFiles[f[1]] : f \in r.issues
                      /\ saStatus = "failed" <=> \E f \in saTold : f[3] \in {"critical", "high"}
    BY DEF NothingShownIsLost
  <2>1. SaVerdict
    BY DEF SaInv, SaTypeOK
  <2>2. \A r \in ToSet(saResults) : Sound(r)
    BY DEF SaInv, ToSet
  <2>3. ASSUME NEW f \in saTold PROVE \E r \in saFiles[f[1]] : f \in r.issues
    <3>1. PICK r \in ToSet(saResults) : f \in r.issues
      BY <2>1 DEF SaVerdict, SaFindings
    <3>2. f[1] = r.check
      BY <2>2, <3>1 DEF Sound
    <3>3. r \in saFiles[f[1]]
      BY <2>1, <3>2 DEF SaVerdict
    <3> QED BY <3>1, <3>3
  <2>4. (\A r \in ToSet(saResults) : r.skipped) => SaFindings = {}
    BY <2>2 DEF Sound, SaFindings
  <2> QED BY <2>1, <2>3, <2>4 DEF SaVerdict
<1>2. TargetsAreCounted
  BY DEF SaInv, Sound, Probed, TargetsAreCounted, ToSet
<1>3. RefusedStaysSilent
  BY DEF SaInv
<1> QED BY <1>1, <1>2, <1>3 DEF SecurityVerdictIsEarned

LEMMA SaHolds == SaSpec => []SaInv
<1>1. SaInv /\ [SaNext]_saVars => SaInv'
  BY SaSteps
<1> QED BY <1>1, SaStarts, PTL DEF SaSpec

\* A security audit keeps whatever an answer showed, counts the routes that
\* were answered and no others, and its verdict follows from what it holds
\* (_run_audit and the checks of modules/security), however often the target
\* stops answering.
THEOREM SecurityStaysEarned == SaSpec => []SecurityVerdictIsEarned
  BY SaHolds, SaServes, PTL

(***************************************************************************)
(* EvidenceAudit.  Whatever the writers do, what the module holds follows  *)
(* from what it has read: of the lines, all at once; of the five files,    *)
(* one after another.                                                      *)
(***************************************************************************)
SeenEvents == {l.event : l \in ToSet(evSeen)}
SeenTorn == \E l \in ToSet(evSeen) : ~l.whole

ReportFollows ==
  /\ evTorn = SeenTorn
  /\ evReport = [c \in Category |-> IF evTorn THEN {} ELSE {e \in Selected(SeenEvents) : Group(e) = c}]

ChaosStatus ==
  IF evTorn THEN "incomplete"
  ELSE IF \A c \in Category : evReport[c] = {} THEN "skipped"
  ELSE IF \E e \in ChaosFindings : e.severity \in Serious THEN "failed" ELSE "passed"

CodeStatus ==
  IF \A c \in evChoice : ~HasSignal(c) THEN "skipped"
  ELSE IF \E c \in evChoice : "bad" \in Loaded(c) THEN "failed" ELSE "passed"

EvInv ==
  /\ EvTypeOK
  /\ evKind = "chaos" =>
       /\ evStage \in {"look", "read", "again", "judge", "done"}
       /\ evStage \in {"look", "read"} => evSeen = <<>>
       /\ ReportFollows
       /\ evStatus = IF evStage = "done" THEN ChaosStatus ELSE "none"
  /\ evKind = "llm_audit" =>
       /\ evStage \in {"load", "judge", "done"}
       /\ \A i \in DOMAIN evLoaded : evLoaded[i] # "torn"
       /\ IF evStage = "load" THEN Len(evLoaded) < Len(Inputs) ELSE Len(evLoaded) = Len(Inputs)
       /\ evStatus = IF evStage = "done" THEN CodeStatus ELSE "none"

LEMMA FiveInputs ==
  /\ Inputs \in Seq({"discovery", "api", "forms", "signals", "source_files"}) /\ Len(Inputs) = 5 /\ DOMAIN Inputs = 1..5
  /\ ToSet(Inputs) = {"discovery", "api", "forms", "signals", "source_files"}
<1>1. Inputs \in Seq({"discovery", "api", "forms", "signals", "source_files"})
  BY DEF Inputs
<1>2. Len(Inputs) = 5
  BY DEF Inputs
<1>3. DOMAIN Inputs = 1..5
  BY <1>1, <1>2
<1>4. ToSet(Inputs) = {Inputs[1], Inputs[2], Inputs[3], Inputs[4], Inputs[5]}
  BY <1>3 DEF ToSet
<1>5. ToSet(Inputs) = {"discovery", "api", "forms", "signals", "source_files"}
  BY <1>4 DEF Inputs
<1> QED BY <1>1, <1>2, <1>3, <1>5

LEMMA SelectedFrom ==
  ASSUME evKind = "chaos", EvTypeOK, NEW events \in SUBSET Event
  PROVE  Selected(events) \subseteq events /\ \A e \in events : Group(e) \in Category
<1>1. Selected(events) \subseteq events
  BY DEF Selected
<1> QED BY <1>1, EvidenceIsKnown DEF Group

LEMMA SeenIsTyped == ASSUME EvTypeOK PROVE SeenEvents \subseteq Event
<1> SUFFICES ASSUME NEW i \in DOMAIN evSeen PROVE evSeen[i].event \in Event
  BY DEF SeenEvents, ToSet
<1>1. evSeen \in Seq([event : Event, whole : BOOLEAN])
  BY DEF EvTypeOK
<1>2. evSeen[i] \in [event : Event, whole : BOOLEAN]
  <2>1. DOMAIN evSeen = 1..Len(evSeen)
    BY <1>1
  <2> QED BY <1>1, <2>1, ElementOfSeq, Zenon
<1> QED BY <1>2

LEMMA EvStarts == EvInit => EvInv
<1> SUFFICES ASSUME EvInit PROVE EvInv
  OBVIOUS
<1>1. ToSet(evSeen) = {}
  BY DEF EvInit, ToSet
<1>2. SeenEvents = {} /\ ~SeenTorn
  BY <1>1 DEF SeenEvents, SeenTorn
<1>3. Selected(SeenEvents) = {}
  BY <1>2 DEF Selected
<1>4. ReportFollows
  <2>1. evTorn = SeenTorn
    BY <1>2 DEF EvInit, SeenTorn
  <2> QED BY <1>3, <2>1 DEF ReportFollows, EvInit
<1>5. evReport \in [Category -> SUBSET Event] /\ evLines \in Seq([event : Event, whole : BOOLEAN])
      /\ evSeen \in Seq([event : Event, whole : BOOLEAN]) /\ evLoaded \in Seq(Content) /\ evWrites \in 0..MaxRewrites
  BY EvidenceIsBounded DEF EvInit
<1>6. evInputs \in [ToSet(Inputs) -> Content]
  BY DEF EvInit, Content
<1>7. EvTypeOK
  BY <1>5, <1>6, EvidenceIsKnown DEF EvInit, EvTypeOK
<1> QED BY <1>4, <1>7, FiveInputs DEF EvInit, EvInv

\* The writers touch only what the module has not read.
LEMMA WritersKeep ==
  ASSUME EvInv, AppendLine \/ EndLine \/ Rewrite
  PROVE  EvInv'
<1>1. evStage # "done" /\ UNCHANGED <<evKind, evChoice, evStage, evSeen, evLoaded, evTorn, evNamed, evReport, evStatus>>
  BY DEF AppendLine, EndLine, Rewrite
<1>2. evLines' \in Seq([event : Event, whole : BOOLEAN])
  <2>1. CASE AppendLine
    BY <2>1 DEF AppendLine, EvInv, EvTypeOK
  <2>2. CASE EndLine
    <3>1. PICK i \in DOMAIN evLines : evLines' = [evLines EXCEPT ![i].whole = TRUE]
      BY <2>2 DEF EndLine
    <3>2. evLines \in Seq([event : Event, whole : BOOLEAN])
      BY DEF EvInv, EvTypeOK
    <3>3. evLines[i] \in [event : Event, whole : BOOLEAN]
      <4>1. DOMAIN evLines = 1..Len(evLines)
        BY <3>2
      <4> QED BY <3>2, <4>1, ElementOfSeq, Zenon
    <3>4. evLines' = [evLines EXCEPT ![i] = [evLines[i] EXCEPT !.whole = TRUE]]
      BY <3>1
    <3>5. [evLines[i] EXCEPT !.whole = TRUE] \in [event : Event, whole : BOOLEAN]
      BY <3>3
    <3> QED BY <3>2, <3>4, <3>5, ExceptSeq
  <2>3. CASE Rewrite
    BY <2>3 DEF Rewrite, EvInv, EvTypeOK
  <2> QED BY <2>1, <2>2, <2>3
<1>3. evInputs' \in [ToSet(Inputs) -> Content] /\ evWrites' \in 0..MaxRewrites
  <2>0. evInputs \in [ToSet(Inputs) -> Content] /\ evWrites \in 0..MaxRewrites
    BY DEF EvInv, EvTypeOK
  <2>1. CASE AppendLine \/ EndLine
    BY <2>0, <2>1 DEF AppendLine, EndLine
  <2>2. CASE Rewrite
    <3>1. PICK f \in ToSet(Inputs), c \in {"torn", "fine", "bad"} : evInputs' = [evInputs EXCEPT ![f] = c]
      BY <2>2 DEF Rewrite
    <3>2. evInputs' \in [ToSet(Inputs) -> Content]
      BY <2>0, <3>1 DEF Content
    <3>3. evWrites' \in 0..MaxRewrites
      BY <2>0, <2>2, EvidenceIsBounded DEF Rewrite
    <3> QED BY <3>2, <3>3
  <2> QED BY <2>1, <2>2
<1>4. EvTypeOK'
  BY <1>1, <1>2, <1>3 DEF EvInv, EvTypeOK
<1>5. ReportFollows' <=> ReportFollows
  BY <1>1 DEF ReportFollows, SeenTorn, SeenEvents, Selected, Enabled, Group
<1> QED BY <1>1, <1>4, <1>5 DEF EvInv

LEMMA ChaosKeeps ==
  ASSUME EvInv, Look \/ ReadEvents \/ LookAgain \/ JudgeChaos
  PROVE  EvInv'
<1> USE DEF EvInv
<1>1. evKind = "chaos"
  BY DEF Look, ReadEvents, LookAgain, JudgeChaos, EvTypeOK
<1>2. CASE Look
  <2>1. EvTypeOK' /\ (ReportFollows' <=> ReportFollows)
    BY <1>2 DEF Look, EvTypeOK, ReportFollows, SeenTorn, SeenEvents, Selected, Enabled, Group
  <2> QED BY <1>1, <1>2, <2>1 DEF Look
<1>3. CASE ReadEvents
  <2>1. evSeen' \in Seq([event : Event, whole : BOOLEAN]) /\ evTorn' \in BOOLEAN
    BY <1>3 DEF ReadEvents, EvTypeOK
  <2>2. SeenEvents' = {l.event : l \in ToSet(evLines)} /\ SeenTorn' = \E l \in ToSet(evLines) : ~l.whole
    BY <1>3 DEF ReadEvents, SeenEvents, SeenTorn
  <2>3. \A events : Selected(events)' = Selected(events)
    BY <1>3 DEF ReadEvents, Selected, Enabled
  <2>4. ReportFollows'
    BY <1>3, <2>2, <2>3 DEF ReadEvents, ReportFollows, Selected, Enabled, Group
  <2>5. SeenEvents' \subseteq Event
    <3>1. evLines \in Seq([event : Event, whole : BOOLEAN])
      BY DEF EvTypeOK
    <3>2. \A i \in DOMAIN evLines : evLines[i] \in [event : Event, whole : BOOLEAN]
      <4>1. DOMAIN evLines = 1..Len(evLines)
        BY <3>1
      <4> QED BY <3>1, <4>1, ElementOfSeq, Zenon
    <3> QED BY <2>2, <3>2 DEF ToSet
  <2>6. evReport' \in [Category -> SUBSET Event]
    <3>1. Selected(SeenEvents)' \subseteq Event
      BY <2>5 DEF Selected
    <3> QED BY <2>4, <3>1 DEF ReportFollows
  <2>7. EvTypeOK'
    BY <1>3, <2>1, <2>6 DEF ReadEvents, EvTypeOK
  <2> QED BY <1>1, <1>3, <2>4, <2>7 DEF ReadEvents
<1>4. CASE LookAgain
  <2>1. EvTypeOK' /\ (ReportFollows' <=> ReportFollows)
    BY <1>4 DEF LookAgain, EvTypeOK, ReportFollows, SeenTorn, SeenEvents, Selected, Enabled, Group
  <2> QED BY <1>1, <1>4, <2>1 DEF LookAgain
<1>5. CASE JudgeChaos
  <2>1. evStatus' = ChaosStatus /\ ChaosStatus' = ChaosStatus
    BY <1>5 DEF JudgeChaos, ChaosStatus, ChaosFindings
  <2>2. EvTypeOK' /\ (ReportFollows' <=> ReportFollows)
    BY <1>5, <2>1 DEF JudgeChaos, EvTypeOK, ReportFollows, SeenTorn, SeenEvents, Selected, Enabled, Group, ChaosStatus
  <2> QED BY <1>1, <1>5, <2>1, <2>2 DEF JudgeChaos
<1> QED BY <1>2, <1>3, <1>4, <1>5

LEMMA CodeKeeps ==
  ASSUME EvInv, LoadInput \/ JudgeCode
  PROVE  EvInv'
<1> USE DEF EvInv
<1>1. evKind = "llm_audit"
  BY DEF LoadInput, JudgeCode, EvTypeOK
<1>2. CASE LoadInput
  <2> DEFINE content == evInputs[Inputs[Len(evLoaded) + 1]]
             new == IF content = "torn" THEN "absent" ELSE content
  <2>1. evLoaded \in Seq(Content) /\ Len(evLoaded) < 5
    BY <1>1, <1>2, FiveInputs DEF LoadInput, EvTypeOK
  <2>2. Len(evLoaded) + 1 \in DOMAIN Inputs
    BY <2>1, FiveInputs
  <2>3. content \in Content
    BY <2>2 DEF EvTypeOK, ToSet
  <2>4. new \in Content /\ new # "torn"
    BY <2>3 DEF Content
  <2>5. evLoaded' = Append(evLoaded, new)
    BY <1>2 DEF LoadInput
  <2> HIDE DEF content, new
  <2>6. evLoaded' \in Seq(Content) /\ Len(evLoaded') = Len(evLoaded) + 1
    BY <2>1, <2>4, <2>5
  <2>7. \A i \in DOMAIN evLoaded' : evLoaded'[i] # "torn"
    BY <1>1, <2>1, <2>4, <2>5
  <2>8. evStage' = IF Len(evLoaded') = Len(Inputs) THEN "judge" ELSE "load"
    BY <1>2 DEF LoadInput
  <2>9. EvTypeOK'
    BY <1>2, <2>6, <2>8 DEF LoadInput, EvTypeOK
  <2> QED BY <1>1, <1>2, <2>1, <2>6, <2>7, <2>8, <2>9, FiveInputs DEF LoadInput
<1>3. CASE JudgeCode
  <2>1. evStatus' = CodeStatus /\ CodeStatus' = CodeStatus
    BY <1>3 DEF JudgeCode, CodeStatus, HasSignal, Loaded
  <2>2. EvTypeOK'
    BY <1>3, <2>1 DEF JudgeCode, EvTypeOK, CodeStatus
  <2> QED BY <1>1, <1>3, <2>1, <2>2 DEF JudgeCode
<1> QED BY <1>2, <1>3

LEMMA EvSteps == EvInv /\ [EvNext]_evVars => EvInv'
<1> SUFFICES ASSUME EvInv, [EvNext]_evVars PROVE EvInv'
  OBVIOUS
<1>1. CASE UNCHANGED evVars
  <2>1. EvTypeOK' /\ (ReportFollows' <=> ReportFollows)
    BY <1>1 DEF evVars, EvInv, EvTypeOK, ReportFollows, SeenTorn, SeenEvents, Selected, Enabled, Group
  <2>2. ChaosStatus' = ChaosStatus
    BY <1>1 DEF evVars, ChaosStatus, ChaosFindings
  <2>3. CodeStatus' = CodeStatus
    BY <1>1 DEF evVars, CodeStatus, HasSignal, Loaded
  <2> QED BY <1>1, <2>1, <2>2, <2>3 DEF evVars, EvInv
<1> QED BY <1>1, WritersKeep, ChaosKeeps, CodeKeeps DEF EvNext

\* An event that was chosen is in the report of its category.
LEMMA ChaosServes ==
  ASSUME EvInv
  PROVE  ChaosJudgesWhole /\ OnlyChosenEventsCount /\ UnreadIsSkipped
<1>1. CASE evKind # "chaos"
  BY <1>1 DEF ChaosJudgesWhole, OnlyChosenEventsCount, UnreadIsSkipped
<1>2. CASE evKind = "chaos"
  <2> DEFINE chosen == Selected(SeenEvents)
  <2>1. ReportFollows /\ evTorn = SeenTorn
    BY <1>2 DEF EvInv, ReportFollows
  <2>2. \A e \in chosen : Group(e) \in Category
    BY <1>2, SelectedFrom, SeenIsTyped DEF EvInv
  <2>3. ~evTorn => \A c \in Category : evReport[c] = {e \in chosen : Group(e) = c}
    BY <2>1 DEF ReportFollows
  <2>4. evTorn => \A c \in Category : evReport[c] = {}
    BY <2>1 DEF ReportFollows
  <2> HIDE DEF chosen
  <2>5. ~evTorn => ChaosFindings = {e \in chosen : e.severity # "none"}
    BY <2>2, <2>3 DEF ChaosFindings
  <2>6. evTorn => ChaosFindings = {}
    BY <2>4 DEF ChaosFindings
  <2>7. ~evTorn => ((\A c \in Category : evReport[c] = {}) <=> chosen = {})
    BY <2>2, <2>3
  <2>8. evStatus # "none" => evStatus = ChaosStatus
    BY <1>2 DEF EvInv
  <2>9. (\E e \in {x \in chosen : x.severity # "none"} : e.severity \in Serious)
          <=> \E e \in chosen : e.severity \in Serious
    BY DEF Serious
  <2>10. ChaosJudgesWhole
    <3>1. SUFFICES ASSUME evStatus # "none"
                   PROVE  IF SeenTorn THEN evStatus = "incomplete"
                          ELSE /\ evStatus = "failed" <=> \E e \in chosen : e.severity \in Serious
                               /\ evStatus = "skipped" <=> chosen = {}
                               /\ \A e \in chosen : e \in evReport[Group(e)]
      BY DEF ChaosJudgesWhole, SeenTorn, SeenEvents, chosen
    <3> QED BY <2>1, <2>2, <2>3, <2>5, <2>7, <2>8, <2>9, <3>1 DEF ChaosStatus
  <2>11. OnlyChosenEventsCount
    <3>1. Enabled # {} => \A e \in chosen : e.scenario \in Enabled
      BY DEF chosen, Selected
    <3> QED BY <2>5, <2>6, <3>1 DEF OnlyChosenEventsCount
  <2>12. UnreadIsSkipped
    <3>1. SUFFICES ASSUME evSeen = <<>>, evStatus # "none" PROVE evStatus = "skipped"
      BY DEF UnreadIsSkipped
    <3>2. ToSet(evSeen) = {}
      BY <3>1 DEF ToSet
    <3>3. ~SeenTorn /\ SeenEvents = {}
      BY <3>2 DEF SeenTorn, SeenEvents
    <3>4. chosen = {}
      BY <3>3 DEF chosen, Selected
    <3> QED BY <2>1, <2>7, <2>8, <3>1, <3>3, <3>4 DEF ChaosStatus
  <2> QED BY <2>10, <2>11, <2>12
<1> QED BY <1>1, <1>2

\* Every check has a file among the five, so one without a signal has read
\* nothing but absent ones.
LEMMA CodeServes == ASSUME EvInv PROVE CodeVerdictHasSignal
<1> SUFFICES ASSUME evKind = "llm_audit", evStatus # "none"
             PROVE  LET wanted == UNION {SignalOf[c] : c \in evChoice}
                        read == {evLoaded[i] : i \in {j \in DOMAIN evLoaded : Inputs[j] \in wanted}}
                    IN  evStatus = IF "bad" \in read THEN "failed"
                                   ELSE IF "fine" \in read THEN "passed" ELSE "skipped"
  BY DEF CodeVerdictHasSignal
<1> DEFINE wanted == UNION {SignalOf[c] : c \in evChoice}
           read == {evLoaded[i] : i \in {j \in DOMAIN evLoaded : Inputs[j] \in wanted}}
<1>1. evStatus = CodeStatus /\ Len(evLoaded) = 5 /\ evLoaded \in Seq(Content)
      /\ evChoice \subseteq DOMAIN SignalOf
  BY FiveInputs DEF EvInv, EvTypeOK
<1>2. DOMAIN evLoaded = 1..5
  BY <1>1
<1>3. \A i \in 1..5 : evLoaded[i] \in {"absent", "fine", "bad"}
  <2>1. \A i \in 1..5 : evLoaded[i] \in Content
    BY <1>1, ElementOfSeq
  <2> QED BY <1>2, <2>1 DEF EvInv, Content
<1>4. \A c \in evChoice : Loaded(c) \subseteq read
  BY DEF Loaded
<1>5. \A x \in read : \E c \in evChoice : x \in Loaded(c)
  BY DEF Loaded
<1>6. \A c \in evChoice : Loaded(c) # {}
  <2> SUFFICES ASSUME NEW c \in evChoice PROVE \E i \in 1..5 : Inputs[i] \in SignalOf[c]
    BY <1>2 DEF Loaded
  <2>1. c \in {"fake_routes", "fake_endpoints", "forms_no_submit", "dead_buttons", "hardcoded_creds"}
    BY <1>1 DEF SignalOf
  <2>2. \E f \in ToSet(Inputs) : f \in SignalOf[c]
    BY <2>1, FiveInputs DEF SignalOf
  <2> QED BY <2>2, FiveInputs DEF ToSet
<1>7. \A x \in read : x \in {"absent", "fine", "bad"}
  BY <1>2, <1>3
<1> HIDE DEF wanted, read
<1>8. "bad" \in read <=> \E c \in evChoice : "bad" \in Loaded(c)
  BY <1>4, <1>5
<1>9. (\A c \in evChoice : ~HasSignal(c)) <=> "bad" \notin read /\ "fine" \notin read
  <2>1. ASSUME \A c \in evChoice : ~HasSignal(c) PROVE "bad" \notin read /\ "fine" \notin read
    BY <1>5, <2>1 DEF HasSignal
  <2>2. ASSUME "bad" \notin read, "fine" \notin read, NEW c \in evChoice PROVE ~HasSignal(c)
    BY <1>4, <1>6, <1>7, <2>2 DEF HasSignal
  <2> QED BY <2>1, <2>2
<1>10. evStatus = IF "bad" \in read THEN "failed" ELSE IF "fine" \in read THEN "passed" ELSE "skipped"
  BY <1>1, <1>8, <1>9 DEF CodeStatus
<1> QED BY <1>10 DEF read, wanted

LEMMA EvHolds == EvSpec => []EvInv
<1>1. EvInv /\ [EvNext]_evVars => EvInv'
  BY EvSteps
<1> QED BY <1>1, EvStarts, PTL DEF EvSpec

LEMMA EvServes == EvInv => EvTypeOK /\ EvidenceVerdictIsEarned
  BY ChaosServes, CodeServes DEF EvInv, EvidenceVerdictIsEarned

\* The chaos audit judges only whole events, the code audit only inputs it
\* could read, whatever is appended and rewritten meanwhile (parse_events,
\* load_inputs and the two summarize).
THEOREM EvidenceStaysEarned == EvSpec => []EvidenceVerdictIsEarned
  BY EvHolds, EvServes, PTL

(***************************************************************************)
(* TestPlanning.  A rule makes one flow of each thing it finds, so a plan  *)
(* is finite, and what a flow is called says which rule made it of what.   *)
(***************************************************************************)
LEMMA ImageIsFinite ==
  ASSUME NEW f, IsFiniteSet(DOMAIN f)
  PROVE  IsFiniteSet({f[x] : x \in DOMAIN f})
  <1> DEFINE S == DOMAIN f
             T == {f[x] : x \in S}
             h == [x \in S |-> f[x]]
  <1>1. h \in Surjection(S, T)
    BY DEF Surjection
  <1> HIDE DEF h
  <1> QED BY <1>1, FS_Surjection

\* What the lists of a discovery graph hold.
LEMMA GraphFacts ==
  ASSUME NEW g \in DiscoveryGraph
  PROVE  /\ Routes(g) \subseteq Address /\ Routes(g) \subseteq Nat /\ Nothing \notin Routes(g)
         /\ g.guarded \subseteq Routes(g)
         /\ IsFiniteSet(Routes(g))
         /\ IsFiniteSet(DOMAIN g.forms) /\ IsFiniteSet(DOMAIN g.boundaries)
         /\ IsFiniteSet(DOMAIN g.endpoints)
  <1>1. g.routes \in Seq(Address) /\ g.guarded \subseteq ToSet(g.routes)
    BY GraphsAreWhole
  <1>2. DOMAIN g.routes = 1..Len(g.routes) /\ Len(g.routes) \in Nat
        /\ \A i \in DOMAIN g.routes : g.routes[i] \in Address
    BY <1>1
  <1>3. Routes(g) = {g.routes[i] : i \in DOMAIN g.routes}
    BY DEF Routes, ToSet
  <1>4. \A n \in Nat : IsFiniteSet(1..n)
    BY FS_Interval
  <1>5. /\ IsFiniteSet(DOMAIN g.forms) /\ IsFiniteSet(DOMAIN g.boundaries)
        /\ IsFiniteSet(DOMAIN g.endpoints)
    <2>1. /\ DOMAIN g.forms = 1..Len(g.forms) /\ Len(g.forms) \in Nat
          /\ DOMAIN g.boundaries = 1..Len(g.boundaries) /\ Len(g.boundaries) \in Nat
          /\ DOMAIN g.endpoints = 1..Len(g.endpoints) /\ Len(g.endpoints) \in Nat
      BY GraphsAreWhole
    <2> QED BY <1>4, <2>1
  <1>6. IsFiniteSet(Routes(g))
    <2>1. IsFiniteSet(DOMAIN g.routes)
      BY <1>2, <1>4
    <2> QED BY <1>3, <2>1, ImageIsFinite
  <1> QED BY <1>1, <1>2, <1>3, <1>5, <1>6, AddressesAreNumbered DEF Routes

LEMMA HintedFacts ==
  ASSUME NEW g \in DiscoveryGraph, NEW hints
  PROVE  Hinted(g, hints) \subseteq Routes(g) /\ IsFiniteSet(Hinted(g, hints))
  <1>1. Hinted(g, hints) \in SUBSET Routes(g)
    BY DEF Hinted
  <1> QED BY <1>1, GraphFacts, FS_Subset

\* The least and the greatest of a finite set of numbers are in it.
LEMMA EndsOf ==
  ASSUME NEW g \in DiscoveryGraph, NEW S \in SUBSET Routes(g), S # {}
  PROVE  Min(S) \in S
  <1>1. S \in SUBSET Nat /\ IsFiniteSet(S)
    BY GraphFacts, FS_Subset
  <1> QED BY <1>1, LeastOf

LEMMA SmokeIsFinite ==
  ASSUME NEW g \in DiscoveryGraph
  PROVE  IsFiniteSet(SmokeFlows(g)) /\ IsFiniteSet(BoundaryFlows(g))
  <1> DEFINE smoke == [r \in Routes(g) |->
                         Flow("route.smoke", <<"smoke", r>>, r, BasePriority(g, r), RiskOf(g, r), 95)]
             boundary == [r \in g.guarded |->
                            [Flow("route.auth_boundary", <<"auth-boundary", r>>, r, BasePriority(g, r),
                                  RiskOf(g, r), 95) EXCEPT !.role = FirstRole(g, r)]]
  <1>1. DOMAIN smoke = Routes(g) /\ SmokeFlows(g) = {smoke[r] : r \in DOMAIN smoke}
    BY DEF SmokeFlows
  <1>2. DOMAIN boundary = g.guarded /\ BoundaryFlows(g) = {boundary[r] : r \in DOMAIN boundary}
    BY DEF BoundaryFlows
  <1>3. IsFiniteSet(g.guarded)
    BY GraphFacts, FS_Subset
  <1> HIDE DEF smoke, boundary
  <1> QED BY <1>1, <1>2, <1>3, GraphFacts, ImageIsFinite

LEMMA FormsAreFinite ==
  ASSUME NEW g \in DiscoveryGraph
  PROVE  IsFiniteSet(FormFlows(g)) /\ IsFiniteSet(ApiFlows(g))
  <1> DEFINE at(i) == FormAt(g, i)
             form == [i \in DOMAIN g.forms |->
                        [Flow("form.submit", <<"submit form", at(i)>>, at(i),
                              IF BasePriority(g, at(i)) = 0 THEN 0 ELSE 1, RiskOf(g, at(i)), 95)
                           EXCEPT !.role = FirstRole(g, at(i)), !.tag = <<"form", i>>, !.of = i]]
             endpoint == [i \in DOMAIN g.endpoints |->
                            [Flow("api.contract", <<"api contract", i>>, Nothing, 1,
                                  IF g.endpoints[i] THEN "high" ELSE "medium", 95)
                               EXCEPT !.tag = <<"endpoint", i>>]]
  <1>1. DOMAIN form = DOMAIN g.forms /\ FormFlows(g) \in SUBSET {form[i] : i \in DOMAIN form}
    BY DEF FormFlows
  <1>2. DOMAIN endpoint = DOMAIN g.endpoints /\ ApiFlows(g) = {endpoint[i] : i \in DOMAIN endpoint}
    BY DEF ApiFlows
  <1> HIDE DEF form, endpoint
  <1>3. IsFiniteSet({form[i] : i \in DOMAIN form}) /\ IsFiniteSet({endpoint[i] : i \in DOMAIN endpoint})
    BY <1>1, <1>2, GraphFacts, ImageIsFinite
  <1> QED BY <1>1, <1>2, <1>3, FS_Subset

LEMMA LoginsAreFinite ==
  ASSUME NEW g \in DiscoveryGraph
  PROVE  IsFiniteSet(LoginFlows(g))
  <1> DEFINE forms == {i \in DOMAIN g.forms : {"email", "password"} \subseteq g.forms[i].fields}
             candidates == Hinted(g, {"login"})
             first == g.routes[Min({n \in DOMAIN g.routes : g.routes[n] \in candidates})]
             target(i) == IF PostsTo(g, i) # Nothing THEN PostsTo(g, i)
                          ELSE IF candidates = {} THEN Nothing ELSE first
             sure(i) == IF target(i) \in candidates THEN 95 ELSE 70
             login == [i \in forms |->
                         [Flow("login", <<"login">>, target(i), 0, "critical", sure(i)) EXCEPT !.of = i]]
             visit == [r \in candidates |-> Flow("login", <<"login (route-only)">>, r, 1, "high", 45)]
  <1>1. LoginFlows(g) = IF forms # {} THEN {login[i] : i \in forms} ELSE {visit[r] : r \in candidates}
    BY DEF LoginFlows
  <1>2. DOMAIN login = forms /\ DOMAIN visit = candidates
    OBVIOUS
  <1>3. IsFiniteSet(forms) /\ IsFiniteSet(candidates)
    <2>1. forms \in SUBSET DOMAIN g.forms
      OBVIOUS
    <2> QED BY <2>1, GraphFacts, FS_Subset, HintedFacts
  <1> HIDE DEF login, visit, forms, candidates
  <1>4. IsFiniteSet({login[i] : i \in DOMAIN login}) /\ IsFiniteSet({visit[r] : r \in DOMAIN visit})
    BY <1>2, <1>3, ImageIsFinite
  <1> QED BY <1>1, <1>2, <1>4

LEMMA AccountsAreFinite ==
  ASSUME NEW g \in DiscoveryGraph
  PROVE  /\ IsFiniteSet(SignupFlows(g)) /\ IsFiniteSet(LogoutFlows(g))
         /\ IsFiniteSet(PasswordResetFlows(g))
  <1> DEFINE signup == [r \in Hinted(g, {"signup", "join"}) |->
                          Flow("signup", <<"signup">>, r, 0, "critical", 90)]
             logout == [r \in Hinted(g, {"logout"}) |-> Flow("logout", <<"logout">>, r, 1, "high", 90)]
             reset == [r \in Hinted(g, {"reset"}) |->
                         Flow("password_reset", <<"password reset">>, r, 1, "high", 85)]
  <1>1. /\ SignupFlows(g) = {signup[r] : r \in DOMAIN signup}
        /\ LogoutFlows(g) = {logout[r] : r \in DOMAIN logout}
        /\ PasswordResetFlows(g) = {reset[r] : r \in DOMAIN reset}
    BY DEF SignupFlows, LogoutFlows, PasswordResetFlows
  <1>2. /\ IsFiniteSet(DOMAIN signup) /\ IsFiniteSet(DOMAIN logout) /\ IsFiniteSet(DOMAIN reset)
    BY HintedFacts
  <1> HIDE DEF signup, logout, reset
  <1> QED BY <1>1, <1>2, ImageIsFinite

LEMMA PagesAreFinite ==
  ASSUME NEW g \in DiscoveryGraph
  PROVE  /\ IsFiniteSet(SearchFlows(g)) /\ IsFiniteSet(AdminFlows(g))
         /\ IsFiniteSet(PaymentFlows(g)) /\ IsFiniteSet(NotificationFlows(g))
  <1> DEFINE search == [r \in Hinted(g, {"search"}) |->
                          Flow("search_filter_sort", <<"search", r>>, r, 2, "medium", 70)]
             admin == [r \in Hinted(g, {"admin"}) |->
                         [Flow("admin", <<"admin", r>>, r, 0, "critical", 85)
                            EXCEPT !.role = IF LastRole(g, r) = Nothing THEN "admin" ELSE LastRole(g, r)]]
             payment == [r \in Hinted(g, {"payment"}) |->
                           Flow("payment_sandbox", <<"payment sandbox", r>>, r, 0, "critical",
                                IF "provider" \in HintsAt[r] THEN 75 ELSE 65)]
             notification == [r \in Hinted(g, {"callback"}) |->
                                Flow("notification", <<"notification", r>>, r, 2, "medium", 70)]
  <1>1. /\ SearchFlows(g) = {search[r] : r \in DOMAIN search}
        /\ AdminFlows(g) = {admin[r] : r \in DOMAIN admin}
        /\ PaymentFlows(g) = {payment[r] : r \in DOMAIN payment}
        /\ NotificationFlows(g) = {notification[r] : r \in DOMAIN notification}
    BY DEF SearchFlows, AdminFlows, PaymentFlows, NotificationFlows
  <1>2. /\ IsFiniteSet(DOMAIN search) /\ IsFiniteSet(DOMAIN admin)
        /\ IsFiniteSet(DOMAIN payment) /\ IsFiniteSet(DOMAIN notification)
    BY HintedFacts
  <1> HIDE DEF search, admin, payment, notification
  <1> QED BY <1>1, <1>2, ImageIsFinite

LEMMA CrudIsFinite ==
  ASSUME NEW g \in DiscoveryGraph
  PROVE  IsFiniteSet(CrudFlows(g))
  <1> DEFINE collection == [r \in Routes(g) |-> CollectionAt[r]]
             C == {collection[r] : r \in DOMAIN collection} \ {Nothing}
             four == [c \in C |-> CrudOf(g, c)]
             all == {four[c] : c \in DOMAIN four}
  <1>1. CrudFlows(g) = UNION all
    BY DEF CrudFlows
  <1>2. IsFiniteSet(C)
    <2>1. IsFiniteSet(DOMAIN collection)
      BY GraphFacts
    <2> HIDE DEF collection
    <2>2. IsFiniteSet({collection[r] : r \in DOMAIN collection})
      BY <2>1, ImageIsFinite
    <2> QED BY <2>2, FS_RemoveElement
  <1>3. \A a, b, c, d : IsFiniteSet({a, b, c, d})
    <2> TAKE a, b, c, d
    <2>1. IsFiniteSet({} \cup {a})
      BY FS_EmptySet, FS_AddElement
    <2>2. IsFiniteSet(({} \cup {a}) \cup {b})
      BY <2>1, FS_AddElement
    <2>3. IsFiniteSet((({} \cup {a}) \cup {b}) \cup {c})
      BY <2>2, FS_AddElement
    <2>4. IsFiniteSet(((({} \cup {a}) \cup {b}) \cup {c}) \cup {d})
      BY <2>3, FS_AddElement
    <2>5. ((({} \cup {a}) \cup {b}) \cup {c}) \cup {d} = {a, b, c, d}
      OBVIOUS
    <2> QED BY <2>4, <2>5
  <1>4. \A c : IsFiniteSet(CrudOf(g, c))
    BY <1>3 DEF CrudOf
  <1>5. DOMAIN four = C /\ \A a \in all : IsFiniteSet(a)
    BY <1>4
  <1> HIDE DEF four, C
  <1>6. IsFiniteSet(all)
    BY <1>2, <1>5, ImageIsFinite
  <1> HIDE DEF all
  <1> QED BY <1>1, <1>5, <1>6, FS_UNION

LEMMA RolesAreFinite ==
  ASSUME NEW g \in DiscoveryGraph
  PROVE  IsFiniteSet(RoleFlows(g)) /\ IsFiniteSet(UploadFlows(g))
  <1> DEFINE R == {k \in DOMAIN g.boundaries :
                     g.boundaries[k].role # Nothing /\ g.boundaries[k].route \in Routes(g)}
             U == {k \in DOMAIN g.forms : "file" \in g.forms[k].fields}
             role == [i \in R |->
                        [Flow("role", <<"role", g.boundaries[i].role, g.boundaries[i].route>>,
                              g.boundaries[i].route, 1, "high", 80)
                           EXCEPT !.role = g.boundaries[i].role, !.of = i]]
             upload == [i \in U |->
                          [Flow("file_upload_download", <<"file upload">>, PostsTo(g, i), 1, "high", 80)
                             EXCEPT !.of = i]]
             download == [r \in Hinted(g, {"download"}) |->
                            Flow("file_upload_download", <<"file download", r>>, r, 2, "medium", 70)]
  <1>1. RoleFlows(g) = {role[i] : i \in DOMAIN role}
    BY DEF RoleFlows
  <1>2. UploadFlows(g) = {upload[i] : i \in DOMAIN upload} \cup {download[r] : r \in DOMAIN download}
    BY DEF UploadFlows
  <1>3. R \in SUBSET DOMAIN g.boundaries /\ U \in SUBSET DOMAIN g.forms
    OBVIOUS
  <1>4. IsFiniteSet(DOMAIN role) /\ IsFiniteSet(DOMAIN upload) /\ IsFiniteSet(DOMAIN download)
    BY <1>3, GraphFacts, FS_Subset, HintedFacts
  <1> HIDE DEF role, upload, download
  <1>5. /\ IsFiniteSet({role[i] : i \in DOMAIN role}) /\ IsFiniteSet({upload[i] : i \in DOMAIN upload})
        /\ IsFiniteSet({download[r] : r \in DOMAIN download})
    BY <1>4, ImageIsFinite
  <1> DEFINE uploads == {upload[i] : i \in DOMAIN upload}
             downloads == {download[r] : r \in DOMAIN download}
  <1>6. IsFiniteSet(uploads \cup downloads)
    <2> HIDE DEF uploads, downloads
    <2> QED BY <1>5, FS_Union DEF uploads, downloads
  <1> QED BY <1>1, <1>2, <1>5, <1>6

LEMMA PlanIsFinite ==
  ASSUME NEW g \in DiscoveryGraph
  PROVE  IsFiniteSet(PlanOf(g))
  <1>1. IsFiniteSet((LoginFlows(g) \cup SignupFlows(g)) \cup (LogoutFlows(g) \cup PasswordResetFlows(g)))
    BY LoginsAreFinite, AccountsAreFinite, FS_Union
  <1>2. IsFiniteSet((CrudFlows(g) \cup SearchFlows(g)) \cup (AdminFlows(g) \cup RoleFlows(g)))
    BY CrudIsFinite, PagesAreFinite, RolesAreFinite, FS_Union
  <1>3. IsFiniteSet((UploadFlows(g) \cup PaymentFlows(g)) \cup NotificationFlows(g))
    BY RolesAreFinite, PagesAreFinite, FS_Union
  <1>4. IsFiniteSet(ExtractedFlows(g))
    <2> DEFINE a == (LoginFlows(g) \cup SignupFlows(g)) \cup (LogoutFlows(g) \cup PasswordResetFlows(g))
               b == (CrudFlows(g) \cup SearchFlows(g)) \cup (AdminFlows(g) \cup RoleFlows(g))
               c == (UploadFlows(g) \cup PaymentFlows(g)) \cup NotificationFlows(g)
    <2>1. ExtractedFlows(g) = a \cup (b \cup c)
      BY DEF ExtractedFlows
    <2> HIDE DEF a, b, c
    <2>2. IsFiniteSet(b \cup c)
      BY <1>2, <1>3, FS_Union DEF b, c
    <2> QED BY <1>1, <2>1, <2>2, FS_Union DEF a
  <1>5. IsFiniteSet((SmokeFlows(g) \cup BoundaryFlows(g)) \cup (FormFlows(g) \cup ApiFlows(g)))
    BY SmokeIsFinite, FormsAreFinite, FS_Union
  <1>6. PlanOf(g) = ((SmokeFlows(g) \cup BoundaryFlows(g)) \cup (FormFlows(g) \cup ApiFlows(g)))
                      \cup ExtractedFlows(g)
    BY DEF PlanOf
  <1> QED BY <1>4, <1>5, <1>6, FS_Union

\* What every flow of a plan is: about a known route or none.
Typed(g, f) ==
  /\ f.target \in Routes(g) \cup {Nothing}
  /\ f.priority \in 0..3 /\ f.sure \in 0..100 /\ f.risk \in {"critical", "high", "medium", "low"}

LEMMA PriorityFacts ==
  ASSUME NEW g, NEW r
  PROVE  /\ RiskOf(g, r) \in {"critical", "high", "medium", "low"}
         /\ BasePriority(g, r) \in 0..3
  <1>1. RiskOf(g, r) \in {"critical", "high", "medium", "low"}
    <2> DEFINE score == IF r \in DOMAIN g.score THEN g.score[r] ELSE 0
    <2> HIDE DEF score
    <2>1. RiskOf(g, r) = IF score >= 80 THEN "critical" ELSE IF score >= 60 THEN "high"
                         ELSE IF score >= 30 THEN "medium" ELSE "low"
      BY DEF RiskOf, score
    <2> QED BY <2>1
  <1>2. \A risk \in {"critical", "high", "medium", "low"} : PriorityFor(risk) \in 0..3
    BY DEF PriorityFor
  <1> QED BY <1>1, <1>2 DEF BasePriority

\* The rules of the core, and what tells their flows apart.
LEMMA SmokeShape ==
  ASSUME NEW g \in DiscoveryGraph, NEW f \in SmokeFlows(g)
  PROVE  /\ Typed(g, f) /\ f.extractor = "route.smoke"
         /\ f.priority = BasePriority(g, f.target)
  <1>1. PICK r \in Routes(g) :
          f = Flow("route.smoke", <<"smoke", r>>, r, BasePriority(g, r), RiskOf(g, r), 95)
    BY DEF SmokeFlows
  <1>2. f.target = r
    BY <1>1 DEF Flow
  <1> QED BY <1>1, <1>2, PriorityFacts DEF Flow, Typed

LEMMA BoundaryShape ==
  ASSUME NEW g \in DiscoveryGraph, NEW f \in BoundaryFlows(g)
  PROVE  /\ Typed(g, f) /\ f.extractor = "route.auth_boundary"
         /\ f.role = FirstRole(g, f.target)
  <1>1. PICK r \in g.guarded :
          f = [Flow("route.auth_boundary", <<"auth-boundary", r>>, r, BasePriority(g, r), RiskOf(g, r), 95)
                 EXCEPT !.role = FirstRole(g, r)]
    BY DEF BoundaryFlows
  <1>2. f.target = r /\ f.role = FirstRole(g, r) /\ r \in Routes(g)
    BY <1>1, GraphFacts DEF Flow
  <1> QED BY <1>1, <1>2, PriorityFacts DEF Flow, Typed

LEMMA FormAtIs ==
  ASSUME NEW g \in DiscoveryGraph, NEW i, Routes(g) # {}
  PROVE  /\ FormAt(g, i) \in Routes(g)
         /\ g.forms[i].action \in Routes(g) => FormAt(g, i) = g.forms[i].action
  <1>1. Min(Routes(g)) \in Routes(g)
    BY EndsOf
  <1> QED BY <1>1, GraphFacts DEF FormAt, PostsTo

LEMMA FormShape ==
  ASSUME NEW g \in DiscoveryGraph, NEW f \in FormFlows(g)
  PROVE  /\ Typed(g, f) /\ f.extractor = "form.submit" /\ f.role = FirstRole(g, f.target)
         /\ f.of \in DOMAIN g.forms /\ f.tag[2] = f.of
  <1>1. Routes(g) # {}
    BY DEF FormFlows
  <1>2. PICK i \in DOMAIN g.forms :
          LET r == FormAt(g, i)
          IN  f = [Flow("form.submit", <<"submit form", r>>, r,
                        IF BasePriority(g, r) = 0 THEN 0 ELSE 1, RiskOf(g, r), 95)
                     EXCEPT !.role = FirstRole(g, r), !.tag = <<"form", i>>, !.of = i]
    BY <1>1 DEF FormFlows
  <1>3. f.of = i /\ f.target = FormAt(g, i) /\ f.role = FirstRole(g, FormAt(g, i))
        /\ f.tag[2] = i /\ f.extractor = "form.submit" /\ f.priority \in {0, 1} /\ f.sure = 95
        /\ f.risk = RiskOf(g, FormAt(g, i))
    BY <1>2 DEF Flow
  <1>4. Typed(g, f)
    BY <1>1, <1>3, FormAtIs, PriorityFacts DEF Typed
  <1> QED BY <1>2, <1>3, <1>4

LEMMA ApiShape ==
  ASSUME NEW g \in DiscoveryGraph, NEW f \in ApiFlows(g)
  PROVE  Typed(g, f) /\ f.extractor = "api.contract"
  <1>1. PICK i \in DOMAIN g.endpoints :
          f = [Flow("api.contract", <<"api contract", i>>, Nothing, 1,
                    IF g.endpoints[i] THEN "high" ELSE "medium", 95)
                 EXCEPT !.tag = <<"endpoint", i>>]
    BY DEF ApiFlows
  <1>2. f.extractor = "api.contract"
    BY <1>1 DEF Flow
  <1>3. Typed(g, f)
    <2>1. f.risk = IF g.endpoints[i] THEN "high" ELSE "medium"
      BY <1>1 DEF Flow
    <2>2. f.target = Nothing /\ f.priority = 1 /\ f.sure = 95
      BY <1>1 DEF Flow
    <2> QED BY <2>1, <2>2 DEF Typed
  <1> QED BY <1>1, <1>2, <1>3

LEMMA LoginShape ==
  ASSUME NEW g \in DiscoveryGraph, NEW f \in LoginFlows(g)
  PROVE  Typed(g, f) /\ f.extractor = "login"
  <1> DEFINE forms == {i \in DOMAIN g.forms : {"email", "password"} \subseteq g.forms[i].fields}
             candidates == Hinted(g, {"login"})
             positions == {n \in DOMAIN g.routes : g.routes[n] \in candidates}
             first == g.routes[Min(positions)]
             target(i) == IF PostsTo(g, i) # Nothing THEN PostsTo(g, i)
                          ELSE IF candidates = {} THEN Nothing ELSE first
             sure(i) == IF target(i) \in candidates THEN 95 ELSE 70
  <1>1. f \in (IF forms # {}
               THEN {[Flow("login", <<"login">>, target(i), 0, "critical", sure(i)) EXCEPT !.of = i]
                       : i \in forms}
               ELSE {Flow("login", <<"login (route-only)">>, r, 1, "high", 45) : r \in candidates})
    BY DEF LoginFlows
  <1>2. candidates \subseteq Routes(g)
    BY HintedFacts
  <1>3. candidates # {} => first \in candidates
    <2> SUFFICES ASSUME candidates # {} PROVE first \in candidates
      OBVIOUS
    <2>1. g.routes \in Seq(Address)
      BY GraphsAreWhole
    <2>2. DOMAIN g.routes = 1..Len(g.routes) /\ Len(g.routes) \in Nat
      BY <2>1
    <2>3. Routes(g) = {g.routes[n] : n \in DOMAIN g.routes}
      BY DEF Routes, ToSet
    <2>4. positions # {}
      <3>1. PICK r \in candidates : TRUE
        OBVIOUS
      <3> QED BY <1>2, <2>3, <3>1
    <2>5. positions \in SUBSET Nat /\ positions \in SUBSET (1..Len(g.routes))
      BY <2>2
    <2>6. IsFiniteSet(1..Len(g.routes))
      BY <2>2, FS_Interval
    <2>7. IsFiniteSet(positions)
      BY <2>5, <2>6, FS_Subset
    <2> HIDE DEF positions
    <2>8. Min(positions) \in positions
      BY <2>4, <2>5, <2>7, LeastOf
    <2> QED BY <2>8 DEF positions
  <1>4. \A i : target(i) \in Routes(g) \cup {Nothing}
    BY <1>2, <1>3 DEF PostsTo
  <1>5. CASE forms # {}
    <2>1. PICK i \in forms : f = [Flow("login", <<"login">>, target(i), 0, "critical", sure(i)) EXCEPT !.of = i]
      BY <1>1, <1>5
    <2>2. sure(i) \in {70, 95}
      OBVIOUS
    <2> HIDE DEF target, sure
    <2>3. f.extractor = "login" /\ f.target = target(i) /\ f.priority = 0 /\ f.risk = "critical"
          /\ f.sure = sure(i)
      BY <2>1 DEF Flow
    <2> QED BY <1>4, <2>2, <2>3 DEF Typed
  <1>6. CASE forms = {}
    <2> HIDE DEF target, candidates, forms
    <2>1. PICK r \in candidates : f = Flow("login", <<"login (route-only)">>, r, 1, "high", 45)
      BY <1>1, <1>6
    <2>2. f.extractor = "login" /\ f.target = r /\ f.priority = 1 /\ f.sure = 45 /\ f.risk = "high"
      BY <2>1 DEF Flow
    <2> QED BY <1>2, <2>2 DEF Typed
  <1> QED BY <1>5, <1>6

LEMMA AccountShape ==
  ASSUME NEW g \in DiscoveryGraph
  PROVE  /\ \A f \in SignupFlows(g) : Typed(g, f) /\ f.extractor = "signup"
         /\ \A f \in LogoutFlows(g) : Typed(g, f) /\ f.extractor = "logout"
         /\ \A f \in PasswordResetFlows(g) : Typed(g, f) /\ f.extractor = "password_reset"
  <1>1. \A hints : Hinted(g, hints) \subseteq Routes(g)
    BY HintedFacts
  <1>2. \A f \in SignupFlows(g) : Typed(g, f) /\ f.extractor = "signup"
    <2> SUFFICES ASSUME NEW f \in SignupFlows(g) PROVE Typed(g, f) /\ f.extractor = "signup"
      OBVIOUS
    <2>1. PICK r \in Routes(g) : f = Flow("signup", <<"signup">>, r, 0, "critical", 90)
      BY <1>1 DEF SignupFlows
    <2>2. f.extractor = "signup" /\ f.target = r /\ f.priority = 0 /\ f.sure = 90 /\ f.risk = "critical"
      BY <2>1 DEF Flow
    <2> QED BY <2>2 DEF Typed
  <1>3. \A f \in LogoutFlows(g) : Typed(g, f) /\ f.extractor = "logout"
    <2> SUFFICES ASSUME NEW f \in LogoutFlows(g) PROVE Typed(g, f) /\ f.extractor = "logout"
      OBVIOUS
    <2>1. PICK r \in Routes(g) : f = Flow("logout", <<"logout">>, r, 1, "high", 90)
      BY <1>1 DEF LogoutFlows
    <2>2. f.extractor = "logout" /\ f.target = r /\ f.priority = 1 /\ f.sure = 90 /\ f.risk = "high"
      BY <2>1 DEF Flow
    <2> QED BY <2>2 DEF Typed
  <1>4. \A f \in PasswordResetFlows(g) : Typed(g, f) /\ f.extractor = "password_reset"
    <2> SUFFICES ASSUME NEW f \in PasswordResetFlows(g)
                 PROVE  Typed(g, f) /\ f.extractor = "password_reset"
      OBVIOUS
    <2>1. PICK r \in Routes(g) : f = Flow("password_reset", <<"password reset">>, r, 1, "high", 85)
      BY <1>1 DEF PasswordResetFlows
    <2>2. f.extractor = "password_reset" /\ f.target = r /\ f.priority = 1 /\ f.sure = 85 /\ f.risk = "high"
      BY <2>1 DEF Flow
    <2> QED BY <2>2 DEF Typed
  <1> QED BY <1>2, <1>3, <1>4

\* The four flows of a collection differ in their verb.
LEMMA CrudShape ==
  ASSUME NEW g \in DiscoveryGraph
  PROVE  /\ \A f \in CrudFlows(g) : Typed(g, f) /\ f.extractor = "crud"
         /\ \A f, h \in CrudFlows(g) : f.name = h.name => f = h
  <1>1. \A f \in CrudFlows(g) : \E r \in Routes(g) : CollectionAt[r] # Nothing /\ f \in CrudOf(g, CollectionAt[r])
    BY DEF CrudFlows
  <1>2. ASSUME NEW r \in Routes(g), NEW f \in CrudOf(g, CollectionAt[r])
        PROVE  Typed(g, f) /\ f.extractor = "crud"
    <2> DEFINE first == Min({s \in Routes(g) : CollectionAt[s] = CollectionAt[r]})
    <2>1. {s \in Routes(g) : CollectionAt[s] = CollectionAt[r]} \in SUBSET Routes(g)
          /\ {s \in Routes(g) : CollectionAt[s] = CollectionAt[r]} # {}
      OBVIOUS
    <2>2. first \in Routes(g)
      BY <2>1, EndsOf
    <2>3. /\ f.extractor = "crud" /\ f.sure = 70 /\ f.priority \in {1, 2} /\ f.risk \in {"medium", "high"}
          /\ f.target \in {first} \cup Routes(g) \cup {Nothing}
      <3> HIDE DEF first
      <3>1. f \in {Flow("crud", <<"create", CollectionAt[r]>>,
                        IF CollectionAt[r] \in Routes(g) THEN CollectionAt[r] ELSE Nothing, 1, "medium", 70),
                   Flow("crud", <<"read", CollectionAt[r]>>, first, 2, "medium", 70),
                   Flow("crud", <<"update", CollectionAt[r]>>, first, 1, "high", 70),
                   Flow("crud", <<"delete", CollectionAt[r]>>, first, 1, "high", 70)}
        BY DEF CrudOf, first
      <3> QED BY <3>1 DEF Flow
    <2> QED BY <2>2, <2>3 DEF Typed
  <1>3. ASSUME NEW c, NEW d, NEW f \in CrudOf(g, c), NEW h \in CrudOf(g, d), f.name = h.name
        PROVE  f = h
    <2> DEFINE first(x) == Min({s \in Routes(g) : CollectionAt[s] = x})
               make(x) == IF x \in Routes(g) THEN x ELSE Nothing
    <2> HIDE DEF first, make
    <2>1. \A x : CrudOf(g, x) = {Flow("crud", <<"create", x>>, make(x), 1, "medium", 70),
                                 Flow("crud", <<"read", x>>, first(x), 2, "medium", 70),
                                 Flow("crud", <<"update", x>>, first(x), 1, "high", 70),
                                 Flow("crud", <<"delete", x>>, first(x), 1, "high", 70)}
      BY DEF CrudOf, first, make
    <2>2. f.name[2] = c /\ h.name[2] = d
      BY <2>1 DEF Flow
    <2>3. c = d
      BY <1>3, <2>2
    <2>4. h \in CrudOf(g, c)
      BY <2>3
    <2> QED BY <1>3, <2>1, <2>4 DEF Flow
  <1> QED BY <1>1, <1>2, <1>3

LEMMA PageShape ==
  ASSUME NEW g \in DiscoveryGraph
  PROVE  /\ \A f \in SearchFlows(g) :
              Typed(g, f) /\ f.extractor = "search_filter_sort"
         /\ \A f \in NotificationFlows(g) :
              Typed(g, f) /\ f.extractor = "notification"
  <1>1. \A hints : Hinted(g, hints) \subseteq Routes(g)
    BY HintedFacts
  <1>2. ASSUME NEW f \in SearchFlows(g)
        PROVE  Typed(g, f) /\ f.extractor = "search_filter_sort"
    <2>1. PICK r \in Routes(g) : f = Flow("search_filter_sort", <<"search", r>>, r, 2, "medium", 70)
      BY <1>1 DEF SearchFlows
    <2>2. f.extractor = "search_filter_sort" /\ f.target = r /\ f.priority = 2 /\ f.sure = 70 /\ f.risk = "medium"
      BY <2>1 DEF Flow
    <2> QED BY <2>2 DEF Typed
  <1>3. ASSUME NEW f \in NotificationFlows(g)
        PROVE  Typed(g, f) /\ f.extractor = "notification"
    <2>1. PICK r \in Routes(g) : f = Flow("notification", <<"notification", r>>, r, 2, "medium", 70)
      BY <1>1 DEF NotificationFlows
    <2>2. f.extractor = "notification" /\ f.target = r /\ f.priority = 2 /\ f.sure = 70 /\ f.risk = "medium"
      BY <2>1 DEF Flow
    <2> QED BY <2>2 DEF Typed
  <1> QED BY <1>2, <1>3

LEMMA AdminShape ==
  ASSUME NEW g \in DiscoveryGraph, NEW f \in AdminFlows(g)
  PROVE  /\ Typed(g, f) /\ f.extractor = "admin" /\ "admin" \in HintsAt[f.target]
         /\ f.role = IF LastRole(g, f.target) = Nothing THEN "admin" ELSE LastRole(g, f.target)
  <1> DEFINE role(r) == IF LastRole(g, r) = Nothing THEN "admin" ELSE LastRole(g, r)
  <1>1. PICK r \in Hinted(g, {"admin"}) :
          f = [Flow("admin", <<"admin", r>>, r, 0, "critical", 85) EXCEPT !.role = role(r)]
    BY DEF AdminFlows
  <1> HIDE DEF role
  <1>2. r \in Routes(g) /\ "admin" \in HintsAt[r]
    BY DEF Hinted
  <1>3. f.target = r /\ f.role = role(r) /\ f.extractor = "admin" /\ f.priority = 0 /\ f.sure = 85
        /\ f.risk = "critical"
    BY <1>1 DEF Flow
  <1>4. Typed(g, f)
    BY <1>2, <1>3 DEF Typed
  <1> QED BY <1>2, <1>3, <1>4 DEF role

LEMMA PaymentShape ==
  ASSUME NEW g \in DiscoveryGraph, NEW f \in PaymentFlows(g)
  PROVE  Typed(g, f) /\ f.extractor = "payment_sandbox" /\ "payment" \in HintsAt[f.target]
  <1>1. PICK r \in Hinted(g, {"payment"}) :
          f = Flow("payment_sandbox", <<"payment sandbox", r>>, r, 0, "critical",
                   IF "provider" \in HintsAt[r] THEN 75 ELSE 65)
    BY DEF PaymentFlows
  <1>2. r \in Routes(g) /\ "payment" \in HintsAt[r]
    BY DEF Hinted
  <1>3. f.target = r /\ f.extractor = "payment_sandbox" /\ f.priority = 0 /\ f.sure \in {65, 75}
        /\ f.risk = "critical"
    BY <1>1 DEF Flow
  <1>4. Typed(g, f)
    BY <1>2, <1>3 DEF Typed
  <1> QED BY <1>1, <1>2, <1>3, <1>4

LEMMA RoleShape ==
  ASSUME NEW g \in DiscoveryGraph, NEW f \in RoleFlows(g)
  PROVE  /\ Typed(g, f) /\ f.extractor = "role"
         /\ \E i \in BoundariesAt(g, f.target) : f.role = g.boundaries[i].role
  <1>1. PICK i \in DOMAIN g.boundaries :
          /\ g.boundaries[i].route \in Routes(g)
          /\ LET b == g.boundaries[i]
             IN  f = [Flow("role", <<"role", b.role, b.route>>, b.route, 1, "high", 80)
                        EXCEPT !.role = b.role, !.of = i]
    BY DEF RoleFlows
  <1> DEFINE b == g.boundaries[i]
  <1> HIDE DEF b
  <1>2. f = [Flow("role", <<"role", b.role, b.route>>, b.route, 1, "high", 80) EXCEPT !.role = b.role, !.of = i]
        /\ b.route \in Routes(g)
    BY <1>1 DEF b
  <1>3. f.target = b.route /\ f.role = b.role /\ f.extractor = "role"
        /\ f.priority = 1 /\ f.sure = 80 /\ f.risk = "high"
    BY <1>2 DEF Flow
  <1>4. Typed(g, f)
    BY <1>2, <1>3 DEF Typed
  <1>5. i \in BoundariesAt(g, f.target)
    BY <1>3 DEF BoundariesAt, b
  <1> QED BY <1>3, <1>4, <1>5 DEF b

LEMMA UploadShape ==
  ASSUME NEW g \in DiscoveryGraph, NEW f \in UploadFlows(g)
  PROVE  Typed(g, f) /\ f.extractor = "file_upload_download"
  <1>1. \A hints : Hinted(g, hints) \subseteq Routes(g)
    BY HintedFacts
  <1>2. \A i : PostsTo(g, i) \in Routes(g) \cup {Nothing}
    BY DEF PostsTo
  <1>3. f \in {[Flow("file_upload_download", <<"file upload">>, PostsTo(g, i), 1, "high", 80) EXCEPT !.of = i]
                 : i \in DOMAIN g.forms}
        \/ f \in {Flow("file_upload_download", <<"file download", r>>, r, 2, "medium", 70) : r \in Routes(g)}
    BY <1>1 DEF UploadFlows
  <1>4. ASSUME NEW i,
               f = [Flow("file_upload_download", <<"file upload">>, PostsTo(g, i), 1, "high", 80) EXCEPT !.of = i]
        PROVE  Typed(g, f) /\ f.extractor = "file_upload_download"
    <2>1. f.target = PostsTo(g, i) /\ f.extractor = "file_upload_download"
          /\ f.priority = 1 /\ f.sure = 80 /\ f.risk = "high"
      BY <1>4 DEF Flow
    <2> QED BY <1>2, <2>1 DEF Typed
  <1>5. ASSUME NEW r \in Routes(g),
               f = Flow("file_upload_download", <<"file download", r>>, r, 2, "medium", 70)
        PROVE  Typed(g, f) /\ f.extractor = "file_upload_download"
    <2>1. f.extractor = "file_upload_download" /\ f.target = r /\ f.priority = 2 /\ f.sure = 70
          /\ f.risk = "medium"
      BY <1>5 DEF Flow
    <2> QED BY <2>1 DEF Typed
  <1> QED BY <1>3, <1>4, <1>5

\* The rule a flow comes from is its extractor.
LEMMA RuleOf ==
  ASSUME NEW g \in DiscoveryGraph, NEW f \in PlanOf(g)
  PROVE  /\ Typed(g, f)
         /\ \/ f.extractor = "route.smoke" /\ f \in SmokeFlows(g)
            \/ f.extractor = "route.auth_boundary" /\ f \in BoundaryFlows(g)
            \/ f.extractor = "form.submit" /\ f \in FormFlows(g)
            \/ f.extractor = "api.contract" /\ f \in ApiFlows(g)
            \/ f.extractor = "crud" /\ f \in CrudFlows(g)
            \/ f.extractor = "search_filter_sort" /\ f \in SearchFlows(g)
            \/ f.extractor = "admin" /\ f \in AdminFlows(g)
            \/ f.extractor = "role" /\ f \in RoleFlows(g)
            \/ f.extractor = "payment_sandbox" /\ f \in PaymentFlows(g)
            \/ f.extractor = "notification" /\ f \in NotificationFlows(g)
            \/ f.extractor = "signup" /\ f \in SignupFlows(g)
            \/ f.extractor \in UnstableExtractors \ {"role", "signup"}
  <1>1. \/ f \in SmokeFlows(g) \cup BoundaryFlows(g) \cup FormFlows(g) \cup ApiFlows(g)
        \/ f \in ExtractedFlows(g)
    BY DEF PlanOf
  <1>2. CASE f \in SmokeFlows(g) \cup BoundaryFlows(g) \cup FormFlows(g) \cup ApiFlows(g)
    BY <1>2, SmokeShape, BoundaryShape, FormShape, ApiShape
  <1>3. CASE f \in LoginFlows(g) \cup LogoutFlows(g) \cup PasswordResetFlows(g) \cup UploadFlows(g)
    BY <1>3, LoginShape, AccountShape, UploadShape DEF UnstableExtractors
  <1>4. CASE f \in SignupFlows(g) \cup CrudFlows(g) \cup SearchFlows(g) \cup NotificationFlows(g)
    BY <1>4, AccountShape, CrudShape, PageShape
  <1>5. CASE f \in AdminFlows(g) \cup RoleFlows(g) \cup PaymentFlows(g)
    BY <1>5, AdminShape, RoleShape, PaymentShape
  <1> QED BY <1>1, <1>2, <1>3, <1>4, <1>5 DEF ExtractedFlows

\* What a rule made of different things has different names, or tags.
LEMMA SmokeUnique ==
  ASSUME NEW g, NEW f \in SmokeFlows(g), NEW h \in SmokeFlows(g), f.name[2] = h.name[2]
  PROVE  f = h
  <1> DEFINE make(r) == Flow("route.smoke", <<"smoke", r>>, r, BasePriority(g, r), RiskOf(g, r), 95)
  <1>1. \A r : make(r).name[2] = r
    BY DEF Flow
  <1>2. (\E r : f = make(r)) /\ (\E r : h = make(r))
    BY DEF SmokeFlows
  <1> HIDE DEF make
  <1> QED BY <1>1, <1>2

LEMMA BoundaryUnique ==
  ASSUME NEW g, NEW f \in BoundaryFlows(g), NEW h \in BoundaryFlows(g), f.name[2] = h.name[2]
  PROVE  f = h
  <1> DEFINE make(r) == [Flow("route.auth_boundary", <<"auth-boundary", r>>, r, BasePriority(g, r),
                              RiskOf(g, r), 95) EXCEPT !.role = FirstRole(g, r)]
  <1>1. \A r : make(r).name[2] = r
    BY DEF Flow
  <1>2. (\E r : f = make(r)) /\ (\E r : h = make(r))
    BY DEF BoundaryFlows
  <1> HIDE DEF make
  <1> QED BY <1>1, <1>2

LEMMA FormUnique ==
  ASSUME NEW g, NEW f \in FormFlows(g), NEW h \in FormFlows(g), f.tag[2] = h.tag[2]
  PROVE  f = h
  <1> DEFINE make(r) == [Flow("form.submit", <<"submit form", FormAt(g, r)>>, FormAt(g, r),
                              IF BasePriority(g, FormAt(g, r)) = 0 THEN 0 ELSE 1, RiskOf(g, FormAt(g, r)), 95)
                           EXCEPT !.role = FirstRole(g, FormAt(g, r)), !.tag = <<"form", r>>, !.of = r]
  <1>1. \A r : make(r).tag[2] = r
    BY DEF Flow
  <1>2. (\E r : f = make(r)) /\ (\E r : h = make(r))
    BY DEF FormFlows
  <1> HIDE DEF make
  <1> QED BY <1>1, <1>2

LEMMA ApiUnique ==
  ASSUME NEW g, NEW f \in ApiFlows(g), NEW h \in ApiFlows(g), f.name[2] = h.name[2]
  PROVE  f = h
  <1> DEFINE make(r) == [Flow("api.contract", <<"api contract", r>>, Nothing, 1,
                              IF g.endpoints[r] THEN "high" ELSE "medium", 95)
                           EXCEPT !.tag = <<"endpoint", r>>]
  <1>1. \A r : make(r).name[2] = r
    BY DEF Flow
  <1>2. (\E r : f = make(r)) /\ (\E r : h = make(r))
    BY DEF ApiFlows
  <1> HIDE DEF make
  <1> QED BY <1>1, <1>2

LEMMA SearchUnique ==
  ASSUME NEW g, NEW f \in SearchFlows(g), NEW h \in SearchFlows(g), f.name[2] = h.name[2]
  PROVE  f = h
  <1> DEFINE make(r) == Flow("search_filter_sort", <<"search", r>>, r, 2, "medium", 70)
  <1>1. \A r : make(r).name[2] = r
    BY DEF Flow
  <1>2. (\E r : f = make(r)) /\ (\E r : h = make(r))
    BY DEF SearchFlows
  <1> HIDE DEF make
  <1> QED BY <1>1, <1>2

LEMMA NotificationUnique ==
  ASSUME NEW g, NEW f \in NotificationFlows(g), NEW h \in NotificationFlows(g), f.name[2] = h.name[2]
  PROVE  f = h
  <1> DEFINE make(r) == Flow("notification", <<"notification", r>>, r, 2, "medium", 70)
  <1>1. \A r : make(r).name[2] = r
    BY DEF Flow
  <1>2. (\E r : f = make(r)) /\ (\E r : h = make(r))
    BY DEF NotificationFlows
  <1> HIDE DEF make
  <1> QED BY <1>1, <1>2

LEMMA PaymentUnique ==
  ASSUME NEW g, NEW f \in PaymentFlows(g), NEW h \in PaymentFlows(g), f.name[2] = h.name[2]
  PROVE  f = h
  <1> DEFINE make(r) == Flow("payment_sandbox", <<"payment sandbox", r>>, r, 0, "critical",
                             IF "provider" \in HintsAt[r] THEN 75 ELSE 65)
  <1>1. \A r : make(r).name[2] = r
    BY DEF Flow
  <1>2. (\E r : f = make(r)) /\ (\E r : h = make(r))
    BY DEF PaymentFlows
  <1> HIDE DEF make
  <1> QED BY <1>1, <1>2

LEMMA AdminUnique ==
  ASSUME NEW g, NEW f \in AdminFlows(g), NEW h \in AdminFlows(g), f.name[2] = h.name[2]
  PROVE  f = h
  <1> DEFINE make(r) == [Flow("admin", <<"admin", r>>, r, 0, "critical", 85)
                           EXCEPT !.role = IF LastRole(g, r) = Nothing THEN "admin" ELSE LastRole(g, r)]
  <1>1. \A r : make(r).name[2] = r
    BY DEF Flow
  <1>2. (\E r : f = make(r)) /\ (\E r : h = make(r))
    BY DEF AdminFlows
  <1> HIDE DEF make
  <1> QED BY <1>1, <1>2

\* But for the extractors that are listed as unstable, a name is given once.
LEMMA NamesAreUnique ==
  ASSUME NEW g \in DiscoveryGraph, NEW f \in PlanOf(g), NEW h \in PlanOf(g),
         FileName(f) = FileName(h), f.extractor \notin UnstableExtractors
  PROVE  f = h
  <1>1. f.extractor = h.extractor /\ f.name = h.name /\ f.tag = h.tag
    BY DEF FileName
  <1>2. CASE f.extractor = "route.smoke"
    <2>1. f \in SmokeFlows(g) /\ h \in SmokeFlows(g)
      BY <1>1, <1>2, RuleOf DEF UnstableExtractors
    <2> QED BY <1>1, <2>1, SmokeUnique
  <1>3. CASE f.extractor = "route.auth_boundary"
    <2>1. f \in BoundaryFlows(g) /\ h \in BoundaryFlows(g)
      BY <1>1, <1>3, RuleOf DEF UnstableExtractors
    <2> QED BY <1>1, <2>1, BoundaryUnique
  <1>4. CASE f.extractor = "form.submit"
    <2>1. f \in FormFlows(g) /\ h \in FormFlows(g)
      BY <1>1, <1>4, RuleOf DEF UnstableExtractors
    <2> QED BY <1>1, <2>1, FormUnique
  <1>5. CASE f.extractor = "api.contract"
    <2>1. f \in ApiFlows(g) /\ h \in ApiFlows(g)
      BY <1>1, <1>5, RuleOf DEF UnstableExtractors
    <2> QED BY <1>1, <2>1, ApiUnique
  <1>6. CASE f.extractor = "crud"
    <2>1. f \in CrudFlows(g) /\ h \in CrudFlows(g)
      BY <1>1, <1>6, RuleOf DEF UnstableExtractors
    <2> QED BY <1>1, <2>1, CrudShape
  <1>7. CASE f.extractor = "search_filter_sort"
    <2>1. f \in SearchFlows(g) /\ h \in SearchFlows(g)
      BY <1>1, <1>7, RuleOf DEF UnstableExtractors
    <2> QED BY <1>1, <2>1, SearchUnique
  <1>8. CASE f.extractor = "admin"
    <2>1. f \in AdminFlows(g) /\ h \in AdminFlows(g)
      BY <1>1, <1>8, RuleOf DEF UnstableExtractors
    <2> QED BY <1>1, <2>1, AdminUnique
  <1>9. CASE f.extractor = "payment_sandbox"
    <2>1. f \in PaymentFlows(g) /\ h \in PaymentFlows(g)
      BY <1>1, <1>9, RuleOf DEF UnstableExtractors
    <2> QED BY <1>1, <2>1, PaymentUnique
  <1>10. CASE f.extractor = "notification"
    <2>1. f \in NotificationFlows(g) /\ h \in NotificationFlows(g)
      BY <1>1, <1>10, RuleOf DEF UnstableExtractors
    <2> QED BY <1>1, <2>1, NotificationUnique
  <1> QED BY <1>2, <1>3, <1>4, <1>5, <1>6, <1>7, <1>8, <1>9, <1>10, RuleOf DEF UnstableExtractors

\* A numbering tells the flows of one name apart, and uses the same numbers
\* however the random ids order them.
LEMMA NumberingFacts ==
  ASSUME NEW F, IsFiniteSet(F), NEW n \in Numberings(F)
  PROVE  /\ DOMAIN n = Sharing(F) /\ \A f \in DOMAIN n : f \in F /\ n[f] \in Nat \ {0}
         /\ \A f \in Sharing(F) :
              {n[h] : h \in {x \in Sharing(F) : FileName(x) = FileName(f)}}
                = 1..Cardinality({x \in Sharing(F) : FileName(x) = FileName(f)})
  <1>1. Sharing(F) \in SUBSET F
    BY DEF Sharing
  <1>2. IsFiniteSet(Sharing(F)) /\ Cardinality(Sharing(F)) \in Nat
    BY <1>1, FS_Subset, FS_CardinalityType
  <1>3. n \in [Sharing(F) -> 1..Cardinality(Sharing(F))]
    BY DEF Numberings
  <1>4. \A f \in Sharing(F) :
          {n[h] : h \in {x \in Sharing(F) : FileName(x) = FileName(f)}}
            = 1..Cardinality({x \in Sharing(F) : FileName(x) = FileName(f)})
    BY DEF Numberings
  <1> HIDE DEF Numberings
  <1>5. \A f \in DOMAIN n : f \in F /\ n[f] \in Nat \ {0}
    BY <1>1, <1>2, <1>3
  <1> QED BY <1>3, <1>4, <1>5

LEMMA NumbersDiffer ==
  ASSUME NEW F, IsFiniteSet(F), NEW n \in Numberings(F), NEW f \in F, NEW h \in F,
         FileName(f) = FileName(h), Number(n, f) = Number(n, h)
  PROVE  f = h
  <1> SUFFICES ASSUME f # h PROVE FALSE
    OBVIOUS
  <1>1. f \in Sharing(F) /\ h \in Sharing(F)
    BY DEF Sharing
  <1> DEFINE M == {x \in Sharing(F) : FileName(x) = FileName(f)}
             N == [x \in M |-> n[x]]
  <1>2. f \in M /\ h \in M /\ N[f] = N[h]
    BY <1>1, NumberingFacts DEF Number
  <1>3. {n[x] : x \in M} = 1..Cardinality(M)
    BY <1>1, NumberingFacts
  <1>4. IsFiniteSet(M) /\ Cardinality(M) \in Nat
    <2>1. M \in SUBSET F
      BY DEF Sharing
    <2> QED BY <2>1, FS_Subset, FS_CardinalityType
  <1>5. N \in Surjection(M, 1..Cardinality(M))
    <2> HIDE DEF M
    <2>1. N \in [M -> 1..Cardinality(M)]
      BY <1>3
    <2>2. \A k \in 1..Cardinality(M) : \E x \in M : N[x] = k
      BY <1>3
    <2> QED BY <2>1, <2>2 DEF Surjection
  <1>6. Cardinality(1..Cardinality(M)) = Cardinality(M)
    BY <1>4, FS_Interval
  <1>7. N \in Injection(M, 1..Cardinality(M))
    <2> HIDE DEF M, N
    <2> QED BY <1>4, <1>5, <1>6, FS_SurjSameCardinalityImpliesInj
  <1>8. \A x, y \in M : N[x] = N[y] => x = y
    BY <1>7 DEF Injection, IsInjective
  <1> QED BY <1>2, <1>8

LEMMA SameNumbers ==
  ASSUME NEW F, IsFiniteSet(F), NEW n \in Numberings(F), NEW m \in Numberings(F), NEW f \in F
  PROVE  \E h \in F : FileName(h) = FileName(f) /\ Number(m, h) = Number(n, f)
  <1>1. DOMAIN n = Sharing(F) /\ DOMAIN m = Sharing(F)
    BY NumberingFacts
  <1>2. CASE f \notin Sharing(F)
    BY <1>1, <1>2 DEF Number
  <1>3. CASE f \in Sharing(F)
    <2> DEFINE M == {x \in Sharing(F) : FileName(x) = FileName(f)}
    <2>1. {n[x] : x \in M} = 1..Cardinality(M) /\ {m[x] : x \in M} = 1..Cardinality(M)
      BY <1>3, NumberingFacts
    <2>2. f \in M
      BY <1>3
    <2>3. PICK h \in M : m[h] = n[f]
      <3> HIDE DEF M
      <3> QED BY <2>1, <2>2
    <2>4. h \in F /\ h \in DOMAIN m /\ f \in DOMAIN n
      BY <1>1, <1>3 DEF Sharing
    <2> QED BY <2>3, <2>4 DEF Number
  <1> QED BY <1>2, <1>3

\* The k-th proposal of a name has the number k.
LEMMA PositionsDiffer ==
  ASSUME NEW added, NEW L \in Nat, DOMAIN added = 1..L, NEW i \in 1..L, NEW j \in 1..L,
         FileName(added[i]) = FileName(added[j]), i # j
  PROVE  Cardinality({k \in 1..i : FileName(added[k]) = FileName(added[i])})
           # Cardinality({k \in 1..j : FileName(added[k]) = FileName(added[j])})
  <1> DEFINE upTo(x) == {k \in 1..x : FileName(added[k]) = FileName(added[i])}
  <1>1. ASSUME NEW x \in 1..L, NEW y \in 1..L, x < y, FileName(added[y]) = FileName(added[i])
        PROVE  Cardinality(upTo(x)) # Cardinality(upTo(y))
    <2>1. upTo(x) \in SUBSET upTo(y) /\ upTo(x) # upTo(y)
      <3>1. y \in upTo(y) /\ y \notin upTo(x)
        BY <1>1
      <3>2. 1..x \subseteq 1..y
        BY <1>1
      <3> QED BY <3>1, <3>2
    <2>2. IsFiniteSet(upTo(y))
      <3>1. y \in Int /\ upTo(y) \in SUBSET (1..y)
        OBVIOUS
      <3>2. IsFiniteSet(1..y)
        BY <3>1, FS_Interval
      <3> QED BY <3>1, <3>2, FS_Subset
    <2> HIDE DEF upTo
    <2> QED BY <2>1, <2>2, FS_Subset
  <1>2. {k \in 1..j : FileName(added[k]) = FileName(added[j])} = upTo(j)
    OBVIOUS
  <1> HIDE DEF upTo
  <1>3. i < j \/ j < i
    OBVIOUS
  <1>4. Cardinality(upTo(i)) # Cardinality(upTo(j))
    BY <1>1, <1>3
  <1> QED BY <1>2, <1>4 DEF upTo

\* An image under an operator that tells things apart is as large as they are.
LEMMA ImageSize ==
  ASSUME NEW f, IsFiniteSet(DOMAIN f), IsInjective(f)
  PROVE  /\ IsFiniteSet({f[x] : x \in DOMAIN f})
         /\ Cardinality({f[x] : x \in DOMAIN f}) = Cardinality(DOMAIN f)
  <1> DEFINE S == DOMAIN f
             T == {f[x] : x \in S}
             h == [x \in S |-> f[x]]
  <1>1. h \in Bijection(S, T)
    BY DEF Bijection, Injection, Surjection, IsInjective
  <1>2. ExistsBijection(S, T)
    <2> HIDE DEF h, S, T
    <2> QED BY <1>1 DEF ExistsBijection
  <1> HIDE DEF h
  <1> QED BY <1>2, FS_Bijection

\* A generation has one file for every flow it was given.
LEMMA FilesAreWhole ==
  ASSUME NEW F, IsFiniteSet(F), NEW n \in Numberings(F), NEW added, NEW L \in Nat, DOMAIN added = 1..L,
         \A f \in F : f.extractor # "llm", \A i \in 1..L : added[i].extractor = "llm"
  PROVE  /\ Cardinality(Files(F, added, n)) = Cardinality(F) + L
         /\ \A x, y \in Files(F, added, n) : x.name = y.name /\ x.number = y.number => x = y
  <1> DEFINE planned == [f \in F |-> [name |-> FileName(f), number |-> Number(n, f), text |-> Render(f)]]
             nth(i) == Cardinality({k \in 1..i : FileName(added[k]) = FileName(added[i])})
             proposed == [i \in 1..L |->
                            [name |-> FileName(added[i]), text |-> Render(added[i]), number |-> nth(i)]]
             A == {planned[f] : f \in DOMAIN planned}
             B == {proposed[i] : i \in DOMAIN proposed}
  <1>1. Files(F, added, n) = A \cup B
    BY DEF Files
  <1>2. DOMAIN planned = F /\ DOMAIN proposed = 1..L
    OBVIOUS
  <1>3. /\ \A f \in F : planned[f].name = FileName(f) /\ planned[f].number = Number(n, f)
        /\ \A i \in 1..L : proposed[i].name = FileName(added[i]) /\ proposed[i].number = nth(i)
    OBVIOUS
  <1>4. \A i, j \in 1..L : FileName(added[i]) = FileName(added[j]) /\ i # j => nth(i) # nth(j)
    BY PositionsDiffer
  <1>5. \A f \in F, i \in 1..L : FileName(f) # FileName(added[i])
    <2> SUFFICES ASSUME NEW f \in F, NEW i \in 1..L, FileName(f) = FileName(added[i]) PROVE FALSE
      OBVIOUS
    <2>1. FileName(f)[1] = f.extractor /\ FileName(added[i])[1] = added[i].extractor
      BY DEF FileName
    <2> QED BY <2>1
  <1>6. \A f, h \in F : planned[f].name = planned[h].name /\ planned[f].number = planned[h].number => f = h
    <2> HIDE DEF planned
    <2> QED BY <1>3, NumbersDiffer
  <1> HIDE DEF planned, proposed, nth
  <1>7. IsInjective(planned) /\ IsInjective(proposed)
    BY <1>2, <1>3, <1>4, <1>6 DEF IsInjective
  <1>8. /\ IsFiniteSet(A) /\ Cardinality(A) = Cardinality(F)
        /\ IsFiniteSet(B) /\ Cardinality(B) = L
    <2>1. IsFiniteSet(1..L) /\ Cardinality(1..L) = L
      <3>1. 1 \in Int /\ L \in Int
        OBVIOUS
      <3> QED BY <3>1, FS_Interval
    <2> QED BY <1>2, <1>7, <2>1, ImageSize
  <1>9. A \cap B = {}
    BY <1>2, <1>3, <1>5
  <1>10. Cardinality(A \cup B) = Cardinality(F) + L
    <2>1. Cardinality(A \cap B) = 0 /\ Cardinality(F) \in Nat
      BY <1>9, FS_EmptySet, FS_CardinalityType
    <2>2. Cardinality(A \cup B) = Cardinality(A) + Cardinality(B) - Cardinality(A \cap B)
      <3> HIDE DEF A, B
      <3> QED BY <1>8, FS_Union
    <2> HIDE DEF A, B
    <2> QED BY <1>8, <2>1, <2>2
  <1>11. ASSUME NEW x \in A \cup B, NEW y \in A \cup B, x.name = y.name, x.number = y.number
         PROVE  x = y
    <2>1. CASE x \in A /\ y \in A
      BY <1>2, <1>6, <1>11, <2>1
    <2>2. CASE x \in B /\ y \in B
      BY <1>2, <1>3, <1>4, <1>11, <2>2
    <2>3. CASE (x \in A /\ y \in B) \/ (x \in B /\ y \in A)
      BY <1>2, <1>3, <1>5, <1>11, <2>3
    <2> QED BY <1>11, <2>1, <2>2, <2>3
  <1> HIDE DEF A, B
  <1> QED BY <1>1, <1>10, <1>11

\* Whatever the random ids, the graph gives the same names, and the same files
\* but for those of the unstable extractors.
LEMMA GenerationsAgree ==
  ASSUME NEW g \in DiscoveryGraph, NEW n \in Numberings(PlanOf(g)), NEW m \in Numberings(PlanOf(g)),
         NEW x \in Files(PlanOf(g), <<>>, n)
  PROVE  /\ x.name[1] \notin UnstableExtractors => x \in Files(PlanOf(g), <<>>, m)
         /\ \E y \in Files(PlanOf(g), <<>>, m) : y.name = x.name /\ y.number = x.number
  <1> DEFINE F == PlanOf(g)
             file(k, f) == [name |-> FileName(f), number |-> Number(k, f), text |-> Render(f)]
  <1>1. \A k : Files(F, <<>>, k) = {file(k, f) : f \in F}
    BY DEF Files
  <1>2. PICK f \in F : x = file(n, f)
    BY <1>1
  <1>3. \A k, h : file(k, h).name = FileName(h) /\ file(k, h).number = Number(k, h)
    OBVIOUS
  <1>4. IsFiniteSet(F)
    BY PlanIsFinite
  <1>5. ASSUME x.name[1] \notin UnstableExtractors
        PROVE  file(m, f) = x
    <2>1. f.extractor \notin UnstableExtractors
      BY <1>2, <1>3, <1>5 DEF FileName
    <2>2. f \notin Sharing(F)
      BY <2>1, NamesAreUnique DEF Sharing
    <2>3. Number(m, f) = Number(n, f)
      BY <1>4, <2>2, NumberingFacts DEF Number
    <2> QED BY <1>2, <2>3
  <1>6. PICK h \in F : FileName(h) = FileName(f) /\ Number(m, h) = Number(n, f)
    BY <1>4, SameNumbers
  <1>7. file(m, h).name = x.name /\ file(m, h).number = x.number
    BY <1>2, <1>3, <1>6
  <1> HIDE DEF F, file
  <1> QED BY <1>1, <1>5, <1>7 DEF F

\* Every position up to the size of a set of positions is taken.
LEMMA NthIsIn ==
  ASSUME NEW n \in Nat, NEW S \in SUBSET (1..n), NEW k \in 1..Cardinality(S)
  PROVE  Nth(S, k) \in S
  <1> DEFINE upTo(i) == {j \in S : j <= i}
             c == Cardinality(S)
             rank == [i \in S |-> Cardinality(upTo(i))]
  <1>0. IsFiniteSet(1..n)
    BY FS_Interval
  <1>1. IsFiniteSet(S) /\ c \in Nat
    BY <1>0, FS_Subset, FS_CardinalityType
  <1>2. \A i \in S : /\ upTo(i) \in SUBSET S /\ IsFiniteSet(upTo(i)) /\ i \in upTo(i)
                     /\ Cardinality(upTo(i)) \in Nat
    BY <1>1, FS_Subset, FS_CardinalityType
  <1>3. \A i \in S : Cardinality(upTo(i)) \in 1..c
    <2> TAKE i \in S
    <2>1. Cardinality(upTo(i)) <= c
      <3> HIDE DEF upTo
      <3> QED BY <1>1, <1>2, FS_Subset
    <2>2. Cardinality(upTo(i)) # 0
      <3> HIDE DEF upTo
      <3> QED BY <1>2, FS_EmptySet
    <2> HIDE DEF upTo, c
    <2> QED BY <1>1, <1>2, <2>1, <2>2
  <1>4. ASSUME NEW i \in S, NEW j \in S, i < j PROVE Cardinality(upTo(i)) # Cardinality(upTo(j))
    <2>0. i \in Nat /\ j \in Nat /\ S \in SUBSET Nat
      OBVIOUS
    <2>1. upTo(i) \in SUBSET upTo(j)
      <3> SUFFICES ASSUME NEW x \in S, x <= i PROVE x <= j
        OBVIOUS
      <3> QED BY <1>4, <2>0
    <2>2. j \in upTo(j) /\ j \notin upTo(i)
      BY <1>4, <2>0
    <2> HIDE DEF upTo
    <2> QED BY <1>2, <2>1, <2>2, FS_Subset
  <1>5. \A i, j \in S : i # j => i < j \/ j < i
    OBVIOUS
  <1>6. rank \in Injection(S, 1..c)
    <2>1. \A i \in S : rank[i] = Cardinality(upTo(i))
      OBVIOUS
    <2>2. rank \in [S -> 1..c]
      <3> HIDE DEF upTo, c
      <3> QED BY <1>3
    <2> HIDE DEF upTo, c, rank
    <2>3. IsInjective(rank)
      BY <1>4, <1>5, <2>1, <2>2 DEF IsInjective
    <2> QED BY <2>2, <2>3 DEF Injection
  <1>7. IsFiniteSet(1..c) /\ Cardinality(1..c) = c
    <2> HIDE DEF c
    <2>1. 1 \in Int /\ c \in Int
      BY <1>1
    <2> QED BY <1>1, <2>1, FS_Interval
  <1>8. rank \in Surjection(S, 1..c)
    <2> HIDE DEF rank
    <2>1. c = Cardinality(1..c)
      BY <1>7
    <2> QED BY <1>6, <1>7, <2>1, FS_Injection
  <1>9. PICK i \in S : rank[i] = k
    <2> HIDE DEF rank
    <2> QED BY <1>8 DEF Surjection
  <1> QED BY <1>9 DEF Nth

LEMMA LesserOf ==
  ASSUME NEW a \in Nat, NEW b \in Nat
  PROVE  Min({a, b}) \in Nat /\ Min({a, b}) <= a /\ Min({a, b}) <= b
  <1>1. \E x \in {a, b} : \A y \in {a, b} : x <= y
    OBVIOUS
  <1>2. Min({a, b}) \in {a, b} /\ \A y \in {a, b} : Min({a, b}) <= y
    BY <1>1 DEF Min
  <1> QED BY <1>2

(***************************************************************************)
(* The plan is that of the graph and its numbering stays, whatever file    *)
(* holds it; and what was generated is what the plan file, or the graph    *)
(* under some numbering, gives.                                            *)
(***************************************************************************)
Unplanned == tpFlows = {} /\ tpAdded = <<>> /\ tpNumber = <<>> /\ tpFile = "none"

PlanKnown == tpFlows = PlanOf(tpGraph) /\ tpNumber \in Numberings(PlanOf(tpGraph))

FromKnownRoutes ==
  /\ Len(tpAdded) \in Nat /\ Len(tpAdded) <= MaxProposals /\ DOMAIN tpAdded = 1..Len(tpAdded)
  /\ \A k \in 1..Len(tpAdded) :
       tpAdded[k].extractor = "llm" /\ tpAdded[k].target \in Routes(tpGraph) \cup {Nothing}

Generated ==
  {[from |-> "graph", files |-> Files(PlanOf(tpGraph), <<>>, n)] : n \in Numberings(PlanOf(tpGraph))}
  \cup IF tpFile = "whole" THEN {[from |-> "plan", files |-> Files(tpFlows, tpAdded, tpNumber)]} ELSE {}

TpInv ==
  /\ tpGraph \in DiscoveryGraph /\ tpStage \in PlanStage /\ tpFile \in {"none", "torn", "whole"}
  /\ Unplanned \/ PlanKnown
  /\ tpStage = "plan" => Unplanned
  /\ tpStage \in {"llm", "truncate", "write"} => PlanKnown
  /\ FromKnownRoutes
  /\ tpStage # "over" => tpSpecs = <<>>
  /\ tpSpecs \in Seq(Generated) /\ Len(tpSpecs) <= MaxGenerations

LEMMA TpStarts == TpInit => TpInv
  <1> SUFFICES ASSUME TpInit PROVE TpInv
    OBVIOUS
  <1>1. Len(<<>>) = 0 /\ DOMAIN <<>> = 1..0 /\ <<>> \in Seq(Generated)
    OBVIOUS
  <1> QED BY <1>1, BoundsAreNat DEF TpInit, NothingPlanned, TpInv, Unplanned, FromKnownRoutes, PlanStage

\* A step of "sentinel plan" but for the two that make the plan.
LEMMA PlanMoves ==
  ASSUME TpInv, tpStage # "over", UNCHANGED <<tpGraph, tpFlows, tpAdded, tpNumber, tpSpecs>>,
         tpStage' \in PlanStage \ {"plan"}, tpFile' \in {"none", "torn", "whole"},
         tpStage = "plan" => tpStage' = "over",
         tpFile' = tpFile \/ PlanKnown
  PROVE  TpInv'
  <1>1. tpSpecs = <<>>
    BY DEF TpInv
  <1>2. tpSpecs' \in Seq(Generated') /\ Len(tpSpecs') <= MaxGenerations
    BY <1>1, BoundsAreNat
  <1>3. (Unplanned \/ PlanKnown)' /\ (tpStage' \in {"llm", "truncate", "write"} => PlanKnown')
    BY DEF TpInv, Unplanned, PlanKnown, PlanStage
  <1>4. FromKnownRoutes'
    BY DEF TpInv, FromKnownRoutes
  <1> QED BY <1>1, <1>2, <1>3, <1>4 DEF TpInv, PlanStage

LEMMA MakePlanKeeps ==
  ASSUME TpInv, MakePlan
  PROVE  TpInv'
  <1>1. tpSpecs = <<>> /\ tpSpecs' = <<>>
    BY DEF TpInv, MakePlan
  <1>2. tpSpecs' \in Seq(Generated') /\ Len(tpSpecs') <= MaxGenerations
    BY <1>1, BoundsAreNat
  <1>3. PlanKnown'
    BY DEF MakePlan, PlanKnown
  <1>4. FromKnownRoutes'
    BY DEF TpInv, FromKnownRoutes, MakePlan
  <1> QED BY <1>1, <1>2, <1>3, <1>4 DEF TpInv, MakePlan, PlanStage

LEMMA AddProposalsKeeps ==
  ASSUME TpInv, AddProposals
  PROVE  TpInv'
  <1>1. tpSpecs = <<>> /\ tpSpecs' = <<>>
    BY DEF TpInv, AddProposals
  <1>2. tpSpecs' \in Seq(Generated') /\ Len(tpSpecs') <= MaxGenerations
    BY <1>1, BoundsAreNat
  <1>3. PlanKnown'
    BY DEF TpInv, AddProposals, PlanKnown
  <1>4. PICK proposals \in Proposals :
          tpAdded' = [k \in 1..Min({Cardinality(Accepted(proposals)), MaxProposals}) |->
                        FromProvider(proposals[Nth(Accepted(proposals), k)])]
    BY DEF AddProposals
  <1> DEFINE kept == Accepted(proposals)
             size == Min({Cardinality(kept), MaxProposals})
  <1>5. kept \in SUBSET (1..Len(proposals)) /\ Len(proposals) \in Nat
    BY AnswersAreLists DEF Accepted
  <1>6. \A i \in kept : proposals[i].target \in Routes(tpGraph) \cup {Nothing}
    BY DEF Accepted
  <1> HIDE DEF kept
  <1>7. Cardinality(kept) \in Nat
    <2>1. IsFiniteSet(1..Len(proposals))
      BY <1>5, FS_Interval
    <2>2. IsFiniteSet(kept)
      BY <1>5, <2>1, FS_Subset
    <2> QED BY <2>2, FS_CardinalityType
  <1>8. size \in Nat /\ size <= Cardinality(kept) /\ size <= MaxProposals
    BY <1>7, BoundsAreNat, LesserOf
  <1>9. tpAdded' = [k \in 1..size |-> FromProvider(proposals[Nth(kept, k)])]
    BY <1>4 DEF kept
  <1> HIDE DEF size
  <1>10. Len(tpAdded') = size /\ DOMAIN tpAdded' = 1..size
    BY <1>8, <1>9
  <1>11. ASSUME NEW k \in 1..size
         PROVE  tpAdded'[k].extractor = "llm" /\ tpAdded'[k].target \in Routes(tpGraph) \cup {Nothing}
    <2>1. k \in 1..Cardinality(kept)
      BY <1>7, <1>8
    <2>2. Nth(kept, k) \in kept
      BY <1>5, <2>1, NthIsIn
    <2>3. tpAdded'[k] = FromProvider(proposals[Nth(kept, k)])
      BY <1>9
    <2> QED BY <1>6, <2>2, <2>3 DEF FromProvider, Flow
  <1>12. FromKnownRoutes'
    <2>1. tpGraph' = tpGraph
      BY DEF AddProposals
    <2> QED BY <1>8, <1>10, <1>11, <2>1 DEF FromKnownRoutes
  <1> QED BY <1>1, <1>2, <1>3, <1>12 DEF TpInv, AddProposals, PlanStage

LEMMA GenerateKeeps ==
  ASSUME TpInv, GenerateFromPlan \/ GenerateFromGraph
  PROVE  TpInv'
  <1>1. /\ UNCHANGED <<tpGraph, tpStage, tpFlows, tpAdded, tpNumber, tpFile>>
        /\ tpStage = "over" /\ Len(tpSpecs) < MaxGenerations
    BY DEF GenerateFromPlan, GenerateFromGraph
  <1>2. Generated' = Generated
    BY <1>1 DEF Generated
  <1>3. PICK x \in Generated : tpSpecs' = Append(tpSpecs, x)
    <2>1. CASE GenerateFromPlan
      BY <2>1 DEF GenerateFromPlan, Generated
    <2>2. CASE GenerateFromGraph
      BY <2>2 DEF GenerateFromGraph, Generated
    <2> QED BY <2>1, <2>2
  <1>4. tpSpecs' \in Seq(Generated') /\ Len(tpSpecs') <= MaxGenerations
    <2> HIDE DEF Generated
    <2>1. tpSpecs \in Seq(Generated)
      BY DEF TpInv
    <2>2. tpSpecs' \in Seq(Generated) /\ Len(tpSpecs') = Len(tpSpecs) + 1 /\ Len(tpSpecs) \in Nat
      BY <1>3, <2>1, AppendProperties
    <2> QED BY <1>1, <1>2, <2>2, BoundsAreNat
  <1>5. (Unplanned \/ PlanKnown)' /\ FromKnownRoutes'
    BY <1>1 DEF TpInv, Unplanned, PlanKnown, FromKnownRoutes
  <1> QED BY <1>1, <1>4, <1>5 DEF TpInv

LEMMA TpSteps == TpInv /\ [TpNext]_tpVars => TpInv'
  <1> SUFFICES ASSUME TpInv, [TpNext]_tpVars PROVE TpInv'
    OBVIOUS
  <1>1. CASE GoWithoutProvider \/ ProviderRaises \/ TruncatePlan \/ WritePlan \/ KillPlan
    <2>1. /\ tpStage # "over" /\ UNCHANGED <<tpGraph, tpFlows, tpAdded, tpNumber, tpSpecs>>
          /\ tpStage = "plan" => tpStage' = "over"
      BY <1>1 DEF GoWithoutProvider, ProviderRaises, TruncatePlan, WritePlan, KillPlan
    <2>2. tpStage' \in PlanStage \ {"plan"}
      BY <1>1 DEF GoWithoutProvider, ProviderRaises, TruncatePlan, WritePlan, KillPlan, PlanStage
    <2>3. tpFile' \in {"none", "torn", "whole"} /\ (tpFile' = tpFile \/ PlanKnown)
      BY <1>1 DEF GoWithoutProvider, ProviderRaises, TruncatePlan, WritePlan, KillPlan, TpInv
    <2> QED BY <2>1, <2>2, <2>3, PlanMoves
  <1>2. CASE MakePlan
    BY <1>2, MakePlanKeeps
  <1>3. CASE AddProposals
    BY <1>3, AddProposalsKeeps
  <1>4. CASE GenerateFromPlan \/ GenerateFromGraph
    BY <1>4, GenerateKeeps
  <1>5. CASE UNCHANGED tpVars
    <2>1. Generated' = Generated
      BY <1>5 DEF tpVars, Generated
    <2> QED BY <1>5, <2>1 DEF tpVars, TpInv, Unplanned, PlanKnown, FromKnownRoutes
  <1> QED BY <1>1, <1>2, <1>3, <1>4, <1>5 DEF TpNext

LEMMA FlowsOfPlan ==
  ASSUME TpInv
  PROVE  /\ tpGraph \in DiscoveryGraph /\ tpFlows \subseteq PlanOf(tpGraph)
         /\ tpFlows # {} => tpFlows = PlanOf(tpGraph)
  BY DEF TpInv, Unplanned, PlanKnown

LEMMA TpTyped == ASSUME TpInv PROVE TpTypeOK
  <1>1. \A f \in tpFlows : Typed(tpGraph, f)
    BY FlowsOfPlan, RuleOf
  <1>2. Routes(tpGraph) \subseteq Address
    BY FlowsOfPlan, GraphFacts
  <1>3. \A f \in DOMAIN tpNumber : f \in tpFlows /\ tpNumber[f] \in Nat \ {0}
    <2>1. CASE Unplanned
      BY <2>1 DEF Unplanned
    <2>2. CASE PlanKnown
      <3>1. IsFiniteSet(PlanOf(tpGraph))
        BY FlowsOfPlan, PlanIsFinite
      <3> QED BY <2>2, <3>1, NumberingFacts DEF PlanKnown
    <2> QED BY <2>1, <2>2 DEF TpInv
  <1>4. DOMAIN tpSpecs \subseteq 1..MaxGenerations /\ \A i \in DOMAIN tpSpecs : tpSpecs[i].from \in {"plan", "graph"}
    <2>1. \A x \in Generated : x.from \in {"plan", "graph"}
      BY DEF Generated
    <2> HIDE DEF Generated
    <2>2. tpSpecs \in Seq(Generated) /\ Len(tpSpecs) <= MaxGenerations
      BY DEF TpInv
    <2>3. DOMAIN tpSpecs = 1..Len(tpSpecs) /\ Len(tpSpecs) \in Nat /\ \A i \in DOMAIN tpSpecs : tpSpecs[i] \in Generated
      BY <2>2
    <2>4. 1..Len(tpSpecs) \subseteq 1..MaxGenerations
      BY <2>2, <2>3, BoundsAreNat
    <2> QED BY <2>1, <2>3, <2>4
  <1>5. \A f \in tpFlows :
          /\ f.target \in Address \cup {Nothing} /\ f.priority \in 0..3 /\ f.sure \in 0..100
          /\ f.risk \in {"critical", "high", "medium", "low"}
    BY <1>1, <1>2 DEF Typed
  <1> QED BY <1>3, <1>4, <1>5 DEF TpInv, FromKnownRoutes, TpTypeOK

LEMMA StaysInTheGraph == ASSUME TpInv PROVE PlanStaysInTheGraph
  <1>1. ASSUME NEW f \in tpFlows \cup ToSet(tpAdded)
        PROVE  f.target \in Routes(tpGraph) \cup {Nothing}
    <2>1. CASE f \in tpFlows
      BY <2>1, FlowsOfPlan, RuleOf DEF Typed
    <2>2. CASE f \in ToSet(tpAdded)
      BY <2>2 DEF TpInv, FromKnownRoutes, ToSet
    <2> QED BY <2>1, <2>2
  <1>2. ASSUME tpFlows # {}, Routes(tpGraph) # {}, NEW i \in DOMAIN tpGraph.forms
        PROVE  \E f \in tpFlows :
                 /\ f.extractor = "form.submit" /\ f.of = i /\ f.target # Nothing
                 /\ tpGraph.forms[i].action \in Routes(tpGraph) => f.target = tpGraph.forms[i].action
    <2> DEFINE g == tpGraph
               r == FormAt(g, i)
               f == [Flow("form.submit", <<"submit form", r>>, r,
                          IF BasePriority(g, r) = 0 THEN 0 ELSE 1, RiskOf(g, r), 95)
                       EXCEPT !.role = FirstRole(g, r), !.tag = <<"form", i>>, !.of = i]
    <2>1. f \in FormFlows(g)
      BY <1>2 DEF FormFlows
    <2>2. f \in tpFlows
      BY <1>2, <2>1, FlowsOfPlan DEF PlanOf
    <2>3. f.extractor = "form.submit" /\ f.of = i /\ f.target = r
      BY DEF Flow
    <2> HIDE DEF f
    <2>4. r \in Routes(g) /\ (g.forms[i].action \in Routes(g) => r = g.forms[i].action) /\ Nothing \notin Routes(g)
      BY <1>2, FlowsOfPlan, FormAtIs, GraphFacts
    <2> QED BY <2>2, <2>3, <2>4
  <1> QED BY <1>1, <1>2 DEF PlanStaysInTheGraph

LEMMA SensitiveIsFirst == ASSUME TpInv PROVE SensitiveComesFirst
  <1> SUFFICES ASSUME NEW f \in tpFlows, NEW s \in tpFlows,
                      f.extractor \in {"signup", "payment_sandbox", "admin"},
                      s.extractor = "route.smoke", s.target = f.target,
                      f.extractor = "signup" => "signup" \in HintsAt[f.target]
               PROVE  s.priority = 0
    BY DEF SensitiveComesFirst
  <1> DEFINE g == tpGraph
  <1>1. g \in DiscoveryGraph /\ f \in PlanOf(g) /\ s \in PlanOf(g)
    BY FlowsOfPlan
  <1> HIDE DEF g
  <1>2. s \in SmokeFlows(g)
    BY <1>1, RuleOf DEF UnstableExtractors
  <1>3. s.priority = BasePriority(g, s.target)
    BY <1>1, <1>2, SmokeShape
  <1>4. CASE f.extractor = "payment_sandbox"
    <2>1. f \in PaymentFlows(g)
      BY <1>1, <1>4, RuleOf DEF UnstableExtractors
    <2> QED BY <1>1, <1>3, <2>1, PaymentShape DEF BasePriority, Sensitive
  <1>5. CASE f.extractor = "admin"
    <2>1. f \in AdminFlows(g)
      BY <1>1, <1>5, RuleOf DEF UnstableExtractors
    <2> QED BY <1>1, <1>3, <2>1, AdminShape DEF BasePriority, Sensitive
  <1>6. CASE f.extractor = "signup"
    BY <1>3, <1>6 DEF BasePriority, Sensitive
  <1> QED BY <1>4, <1>5, <1>6

\* The role a flow about a route with one boundary wants.
LEMMA RoleAtOneBoundary ==
  ASSUME NEW g \in DiscoveryGraph, NEW f \in PlanOf(g),
         f.extractor \in {"route.auth_boundary", "form.submit", "admin", "role"},
         Cardinality(BoundariesAt(g, f.target)) = 1, FirstRole(g, f.target) # Nothing
  PROVE  f.role = FirstRole(g, f.target)
  <1> DEFINE B == BoundariesAt(g, f.target)
  <1>1. PICK i : B = {i}
    <2>1. B \in SUBSET DOMAIN g.boundaries
      BY DEF BoundariesAt
    <2>2. IsFiniteSet(B)
      BY <2>1, GraphFacts, FS_Subset
    <2> HIDE DEF B
    <2>3. Cardinality(B) = 1
      BY DEF B
    <2> QED BY <2>2, <2>3, FS_Singleton
  <1>2. i \in Nat
    <2>1. i \in DOMAIN g.boundaries
      BY <1>1 DEF BoundariesAt
    <2> QED BY <2>1, GraphsAreWhole
  <1>3. Min(B) = i /\ Max(B) = i
    BY <1>1, <1>2 DEF Min, Max
  <1>4. FirstRole(g, f.target) = g.boundaries[i].role /\ LastRole(g, f.target) = g.boundaries[i].role
    BY <1>1, <1>3 DEF FirstRole, LastRole
  <1>5. CASE f.extractor = "route.auth_boundary"
    BY <1>5, RuleOf, BoundaryShape DEF UnstableExtractors
  <1>6. CASE f.extractor = "form.submit"
    BY <1>6, RuleOf, FormShape DEF UnstableExtractors
  <1>7. CASE f.extractor = "admin"
    <2>1. f \in AdminFlows(g)
      BY <1>7, RuleOf DEF UnstableExtractors
    <2> QED BY <1>4, <2>1, AdminShape
  <1>8. CASE f.extractor = "role"
    <2>1. f \in RoleFlows(g)
      BY <1>8, RuleOf DEF UnstableExtractors
    <2>2. PICK k \in B : f.role = g.boundaries[k].role
      BY <2>1, RoleShape
    <2> QED BY <1>1, <1>4, <2>2
  <1> QED BY <1>5, <1>6, <1>7, <1>8

LEMMA RolesDoAgree == ASSUME TpInv PROVE RolesAgree
  <1> SUFFICES ASSUME NEW f \in tpFlows, NEW h \in tpFlows,
                      f.extractor \in {"route.auth_boundary", "form.submit", "admin", "role"},
                      h.extractor \in {"route.auth_boundary", "form.submit", "admin", "role"},
                      f.target = h.target, Cardinality(BoundariesAt(tpGraph, f.target)) = 1,
                      FirstRole(tpGraph, f.target) # Nothing
               PROVE  f.role = h.role
    BY DEF RolesAgree
  <1>1. tpGraph \in DiscoveryGraph /\ f \in PlanOf(tpGraph) /\ h \in PlanOf(tpGraph)
    BY FlowsOfPlan
  <1>2. f.role = FirstRole(tpGraph, f.target)
    BY <1>1, RoleAtOneBoundary
  <1>3. h.role = FirstRole(tpGraph, h.target)
    BY <1>1, RoleAtOneBoundary
  <1> QED BY <1>2, <1>3

\* What a generation wrote: the files of the plan, or of the graph.
LEMMA SpecsAre ==
  ASSUME TpInv, NEW i \in DOMAIN tpSpecs
  PROVE  \/ /\ tpSpecs[i].from = "plan" /\ PlanKnown
            /\ tpSpecs[i].files = Files(tpFlows, tpAdded, tpNumber)
         \/ /\ tpSpecs[i].from = "graph"
            /\ \E n \in Numberings(PlanOf(tpGraph)) : tpSpecs[i].files = Files(PlanOf(tpGraph), <<>>, n)
  <1>1. tpSpecs[i] \in Generated
    <2> HIDE DEF Generated
    <2> QED BY DEF TpInv
  <1>2. tpFile = "whole" => PlanKnown
    BY DEF TpInv, Unplanned
  <1> QED BY <1>1, <1>2 DEF Generated

LEMMA NothingIsLost == ASSUME TpInv PROVE NoSpecIsLost
  <1> DEFINE F == PlanOf(tpGraph)
  <1>1. IsFiniteSet(F) /\ \A f \in F : f.extractor # "llm"
    BY FlowsOfPlan, PlanIsFinite, RuleOf DEF UnstableExtractors
  <1> SUFFICES ASSUME NEW i \in DOMAIN tpSpecs
               PROVE  LET files == tpSpecs[i].files
                          given == IF tpSpecs[i].from = "plan" THEN Cardinality(tpFlows) + Len(tpAdded)
                                   ELSE Cardinality(F)
                      IN  /\ Cardinality(files) = given
                          /\ \A x, y \in files : x.name = y.name /\ x.number = y.number => x = y
    BY DEF NoSpecIsLost
  <1> HIDE DEF F
  <1>2. CASE tpSpecs[i].from = "plan"
    <2>1. /\ tpFlows = F /\ tpNumber \in Numberings(F)
          /\ tpSpecs[i].files = Files(F, tpAdded, tpNumber)
      BY <1>2, SpecsAre DEF PlanKnown, F
    <2>2. /\ Len(tpAdded) \in Nat /\ DOMAIN tpAdded = 1..Len(tpAdded)
          /\ \A k \in 1..Len(tpAdded) : tpAdded[k].extractor = "llm"
      BY DEF TpInv, FromKnownRoutes
    <2>3. /\ Cardinality(Files(F, tpAdded, tpNumber)) = Cardinality(F) + Len(tpAdded)
          /\ \A x, y \in Files(F, tpAdded, tpNumber) : x.name = y.name /\ x.number = y.number => x = y
      BY <1>1, <2>1, <2>2, FilesAreWhole
    <2> QED BY <1>2, <2>1, <2>3
  <1>3. CASE tpSpecs[i].from # "plan"
    <2>1. PICK n \in Numberings(F) : tpSpecs[i].files = Files(F, <<>>, n)
      BY <1>3, SpecsAre DEF F
    <2>2. DOMAIN <<>> = 1..0 /\ 0 \in Nat /\ \A k \in 1..0 : <<>>[k].extractor = "llm"
      OBVIOUS
    <2>3. /\ Cardinality(Files(F, <<>>, n)) = Cardinality(F) + 0
          /\ \A x, y \in Files(F, <<>>, n) : x.name = y.name /\ x.number = y.number => x = y
      BY <1>1, <2>2, FilesAreWhole
    <2>4. Cardinality(F) \in Nat
      BY <1>1, FS_CardinalityType
    <2> QED BY <1>3, <2>1, <2>3, <2>4
  <1> QED BY <1>2, <1>3

LEMMA RerunsDoAgree == ASSUME TpInv PROVE RerunsAgree
  <1> DEFINE stable(k) == {x \in tpSpecs[k].files : x.name[1] \notin UnstableExtractors}
             names(k) == {<<x.name, x.number>> : x \in tpSpecs[k].files}
  <1>1. ASSUME NEW i \in DOMAIN tpSpecs, NEW j \in DOMAIN tpSpecs,
               tpSpecs[i].from # "plan", tpSpecs[j].from # "plan"
        PROVE  stable(i) \subseteq stable(j) /\ names(i) \subseteq names(j)
    <2>1. PICK n \in Numberings(PlanOf(tpGraph)) : tpSpecs[i].files = Files(PlanOf(tpGraph), <<>>, n)
      BY <1>1, SpecsAre
    <2>2. PICK m \in Numberings(PlanOf(tpGraph)) : tpSpecs[j].files = Files(PlanOf(tpGraph), <<>>, m)
      BY <1>1, SpecsAre
    <2>3. \A x \in tpSpecs[i].files :
            /\ x.name[1] \notin UnstableExtractors => x \in tpSpecs[j].files
            /\ \E y \in tpSpecs[j].files : y.name = x.name /\ y.number = x.number
      BY <2>1, <2>2, FlowsOfPlan, GenerationsAgree
    <2>4. stable(i) \subseteq stable(j)
      BY <2>3
    <2>5. names(i) \subseteq names(j)
      BY <2>3
    <2> QED BY <2>4, <2>5
  <1>2. ASSUME NEW i \in DOMAIN tpSpecs, NEW j \in DOMAIN tpSpecs, tpSpecs[i].from = tpSpecs[j].from
        PROVE  IF tpSpecs[i].from = "plan" THEN tpSpecs[i].files = tpSpecs[j].files
               ELSE stable(i) = stable(j) /\ names(i) = names(j)
    <2>1. CASE tpSpecs[i].from = "plan"
      BY <1>2, <2>1, SpecsAre
    <2>2. CASE tpSpecs[i].from # "plan"
      <3> HIDE DEF stable, names
      <3> QED BY <1>1, <1>2, <2>2
    <2> QED BY <2>1, <2>2
  <1> QED BY <1>2 DEF RerunsAgree

LEMMA TpServes == TpInv => TpTypeOK /\ PlanIsCarriedOut
  BY TpTyped, StaysInTheGraph, SensitiveIsFirst, RolesDoAgree, NothingIsLost, RerunsDoAgree
     DEF PlanIsCarriedOut

\* For any discovery graph, any answer of a provider and any number of
\* generations: what the plan says of a route is carried into the specs, none
\* overwrites another, and generating again gives the same but for the numbers
\* of flows that share a name (plan of core.py, run_extractors of flows.py,
\* proposals_to_flows, generate of pipeline.py).
THEOREM PlanStaysCarriedOut == TpSpec => []PlanIsCarriedOut
  BY TpStarts, TpSteps, TpServes, PTL DEF TpSpec
=============================================================================
