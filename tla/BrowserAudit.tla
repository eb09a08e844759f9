---------------------------- MODULE BrowserAudit ----------------------------
(***************************************************************************)
(* The accessibility and the performance audit: a module resolves its      *)
(* routes, a child process visits them one by one in a browser and writes  *)
(* a file per route and an index, the module judges what the index says.   *)
(*                                                                         *)
(* modules/accessibility, modules/performance (Python) and a11y/audit.ts,  *)
(* perf/audit.ts (the child).  A visit can break at any measurement; in    *)
(* the performance audit the answers of the target are handled on the side *)
(* and some of them only after the route has been summed up.               *)
(***************************************************************************)
EXTENDS Naturals, Sequences, FiniteSets, SequencesExt

CONSTANTS
  Route,        \* normalised routes
  Slug,         \* Slug[r]: the name _route_slug and routeSlug give the file of r
  Request,      \* the route lists the options, discovery.json or the config may hold
  Latency,      \* how long an answer of the target may take
  Loads,        \* performance.samples
  MinSamples,   \* performance.api_min_samples_for_p95
  Budget        \* budgets.api_p95_ms

ASSUME LoadsAreMade == Loads \in Nat \ {0} /\ Latency \subseteq Nat
ASSUME SlugsAreNames == Slug \in [Route -> STRING]
ASSUME RoutesAreKnown == Route # {} /\ Request \subseteq Seq(Route)
\* The fields of the schema: ge=1 and ge=0.
ASSUME LimitsAreSet == MinSamples \in Nat \ {0} /\ Budget \in Nat

Name == {Slug[r] : r \in Route} \cup {"index", "run-config"}
Level == {"high", "medium"}
Part == <<"axe", "landmarks", "names", "keyboard">>

PageResult == [route : Route, error : BOOLEAN, parts : 0..Len(Part), axe : BOOLEAN,
           samples : Seq(Latency), judged : Seq(Latency), loads : 0..Loads]
Fresh(r) == [route |-> r, error |-> FALSE, parts |-> 0, axe |-> FALSE,
             samples |-> <<>>, judged |-> <<>>, loads |-> 0]

VARIABLES
  baKind,       \* "accessibility" or "performance"
  baRoutes,     \* the routes that were resolved
  baFlaws,      \* what is wrong with a page: <<part, severity>> per route
  baStage,      \* "resolve", "visit", "sum", "write", "index", "judge", "done"
  baPage,       \* the result of the route that is being visited
  baLoad,       \* how many loads of it have been made
  baLate,       \* answers still to be handled: <<page, load, latency>>
  baPages,      \* the results so far; the child's array
  baIncomplete, \* the child's flag
  baFiles,      \* what each file of the audit's directory holds
  baStatus      \* of the module, "none" before it is known

baVars == <<baKind, baRoutes, baFlaws, baStage, baPage, baLoad, baLate, baPages,
            baIncomplete, baFiles, baStatus>>

BaTypeOK ==
  /\ baKind \in {"accessibility", "performance"}
  /\ baRoutes \in Seq(Route)
  /\ baFlaws \in [Route -> SUBSET ({"axe", "keyboard"} \X Level)]
  /\ baStage \in {"resolve", "visit", "sum", "write", "index", "judge", "done"}
  /\ baPage \in PageResult
  /\ baLoad \in 0..Loads
  /\ baLate \subseteq (1..Len(baRoutes)) \X (1..Loads) \X Latency
  /\ baPages \in Seq(PageResult)
  /\ baIncomplete \in BOOLEAN
  /\ \A n \in DOMAIN baFiles : n \in Name /\ baFiles[n] \in Seq(PageResult)
  /\ baStatus \in {"none", "passed", "failed", "incomplete", "skipped", "errored"}

\* A serious axe violation is high, a control the focus does not show on is
\* medium.
Flaw == {<<"axe", "high">>, <<"keyboard", "medium">>}

BaInit ==
  /\ baKind \in {"accessibility", "performance"}
  /\ baFlaws = [r \in Route |-> {}]
  /\ baRoutes = <<>> /\ baStage = "resolve"
  /\ baPage = Fresh(CHOOSE r \in Route : TRUE) /\ baLoad = 0 /\ baLate = {}
  /\ baPages = <<>> /\ baIncomplete = FALSE
  /\ baFiles = [n \in {} |-> <<>>] /\ baStatus = "none"

First(list, r) == CHOOSE i \in DOMAIN list : list[i] = r /\ \A j \in 1..(i - 1) : list[j] # r

\* _routes_from_discovery keeps the first of equal routes: the one list of the
\* routes in the order in which each comes first.
Distinct(list) ==
  {kept \in SeqOf(ToSet(list), Len(list)) :
     /\ ToSet(kept) = ToSet(list)
     /\ \A i, j \in DOMAIN kept : i < j => First(list, kept[i]) < First(list, kept[j])}

\* _resolve_routes: the options, else what discovery found, else the config.
Resolved(options, discovered, config) ==
  IF options # <<>> THEN {options}
  ELSE IF discovered # <<>> THEN Distinct(discovered) ELSE {config}

Finish(status) == baStage' = "done" /\ baStatus' = status

\* _run_audit without a route: no child, nothing audited.
NoRoutes ==
  /\ baStage = "resolve"
  /\ <<>> \in Request
  /\ Finish("skipped")
  /\ UNCHANGED <<baKind, baRoutes, baFlaws, baPage, baLoad, baLate, baPages, baIncomplete, baFiles>>

\* The runner writes run-config.json and starts the child.  What is wrong with
\* the pages it will visit is chosen here, too.
StartChild ==
  /\ baStage = "resolve"
  /\ \E options, discovered, config \in Request :
       baRoutes' \in Resolved(options, discovered, config)
  /\ baRoutes' # <<>>
  /\ \E flaws \in [ToSet(baRoutes') -> SUBSET Flaw] :
       /\ baKind = "performance" => \A r \in DOMAIN flaws : flaws[r] = {}
       /\ baFlaws' = [r \in Route |-> IF r \in DOMAIN flaws THEN flaws[r] ELSE {}]
  /\ baFiles' = [n \in {"run-config"} |-> <<>>]
  /\ baPage' = Fresh(baRoutes'[1]) /\ baLoad' = 0
  /\ baStage' = "visit"
  /\ UNCHANGED <<baKind, baLate, baPages, baIncomplete, baStatus>>

\* discovery.json that is no JSON, no binary, a child that outlives its
\* time-out or exits with an error: the exception leaves the module.
Raises ==
  /\ baStage \in {"resolve", "visit", "sum", "write", "index"}
  /\ Finish("errored")
  /\ UNCHANGED <<baKind, baRoutes, baFlaws, baPage, baLoad, baLate, baPages, baIncomplete, baFiles>>

-----------------------------------------------------------------------------
(* auditA11y: load the page, then four measurements, all in one try.  *)

MeasurePart ==
  /\ baStage = "visit" /\ baKind = "accessibility"
  /\ IF baLoad = 0 THEN baLoad' = 1 /\ UNCHANGED baPage    \* page.goto
     ELSE /\ \E runs \in BOOLEAN :                         \* is there an axe in the page
               /\ baPage.parts # 0 => runs = baPage.axe
               /\ baPage' = [baPage EXCEPT !.parts = @ + 1, !.axe = runs]
          /\ UNCHANGED baLoad
  /\ baStage' = IF baPage'.parts = Len(Part) THEN "write" ELSE "visit"
  /\ UNCHANGED <<baKind, baRoutes, baFlaws, baLate, baPages, baIncomplete, baFiles, baStatus>>

\* Whatever was measured before the error stays in the result.
MeasurementFails ==
  /\ baStage = "visit" /\ baKind = "accessibility"
  /\ baPage' = [baPage EXCEPT !.error = TRUE]
  /\ baStage' = "write"
  /\ UNCHANGED <<baKind, baRoutes, baFlaws, baLoad, baLate, baPages, baIncomplete, baFiles, baStatus>>

(* auditRoute: the loads with their answers, the repeated navigation, the sum. *)

Visiting == Len(baPages) + 1

\* One load: it succeeds or breaks, its answer is handled at once, later, or
\* never (handleResponseEvent swallows what goes wrong).
LoadOnce ==
  /\ baStage = "visit" /\ baKind = "performance" /\ baLoad < Loads
  /\ baLoad' = baLoad + 1
  /\ \E ok \in BOOLEAN, latency \in Latency :
       LET page == [baPage EXCEPT !.error = @ \/ ~ok, !.loads = IF ok THEN @ + 1 ELSE @]
       IN  \/ baPage' = [page EXCEPT !.samples = Append(@, latency)] /\ UNCHANGED baLate
           \/ baPage' = page /\ baLate' = baLate \cup {<<Visiting, baLoad', latency>>}
           \/ baPage' = page /\ UNCHANGED baLate
  /\ UNCHANGED <<baKind, baRoutes, baFlaws, baStage, baPages, baIncomplete, baFiles, baStatus>>

Navigate ==
  /\ baStage = "visit" /\ baKind = "performance" /\ baLoad = Loads
  /\ \E ok \in BOOLEAN : baPage' = [baPage EXCEPT !.error = @ \/ ~ok]
  /\ baStage' = "sum"
  /\ UNCHANGED <<baKind, baRoutes, baFlaws, baLoad, baLate, baPages, baIncomplete, baFiles, baStatus>>

\* summariseApi: the endpoints of the result are those of this moment; the
\* array of samples goes on growing.
SumUp ==
  /\ baStage = "sum"
  /\ baPage' = [baPage EXCEPT !.judged = baPage.samples]
  /\ baStage' = "write"
  /\ UNCHANGED <<baKind, baRoutes, baFlaws, baLoad, baLate, baPages, baIncomplete, baFiles, baStatus>>

\* A handler of an earlier answer ends: the array it fills may be in a result
\* that is summed up and written already.
HandleLate ==
  /\ baStage \in {"visit", "sum", "write", "index"}
  /\ \E p \in baLate :
       /\ baLate' = baLate \ {p}
       /\ IF p[1] = Visiting
          THEN baPage' = [baPage EXCEPT !.samples = Append(@, p[3])] /\ UNCHANGED baPages
          ELSE baPages' = [baPages EXCEPT ![p[1]].samples = Append(@, p[3])] /\ UNCHANGED baPage
  /\ UNCHANGED <<baKind, baRoutes, baFlaws, baStage, baLoad, baIncomplete, baFiles, baStatus>>

-----------------------------------------------------------------------------

WriteResult_FlagOfLast_Mutant ==
  /\ baStage = "write"
  /\ baPages' = Append(baPages, baPage)
  /\ baIncomplete' = baPage.error
  /\ baFiles' = [n \in DOMAIN baFiles \cup {Slug[baPage.route]} |->
                   IF n = Slug[baPage.route] THEN <<baPage>> ELSE baFiles[n]]
  /\ IF Len(baPages') = Len(baRoutes)
     THEN baStage' = "index" /\ UNCHANGED <<baPage, baLoad>>
     ELSE baStage' = "visit" /\ baPage' = Fresh(baRoutes[Len(baPages') + 1]) /\ baLoad' = 0
  /\ UNCHANGED <<baKind, baRoutes, baFlaws, baLate, baStatus>>

\* The result joins the array and replaces whatever file has its slug.
WriteResult ==
  /\ baStage = "write"
  /\ baPages' = Append(baPages, baPage)
  /\ baIncomplete' = (baIncomplete \/ baPage.error)
  /\ baFiles' = [n \in DOMAIN baFiles \cup {Slug[baPage.route]} |->
                   IF n = Slug[baPage.route] THEN <<baPage>> ELSE baFiles[n]]
  /\ IF Len(baPages') = Len(baRoutes)
     THEN baStage' = "index" /\ UNCHANGED <<baPage, baLoad>>
     ELSE baStage' = "visit" /\ baPage' = Fresh(baRoutes[Len(baPages') + 1]) /\ baLoad' = 0
  /\ UNCHANGED <<baKind, baRoutes, baFlaws, baLate, baStatus>>

\* The browser is closed, what is still late is lost, and the index written.
WriteAuditIndex ==
  /\ baStage = "index"
  /\ baFiles' = [n \in DOMAIN baFiles \cup {"index"} |->
                   IF n = "index" THEN baPages ELSE baFiles[n]]
  /\ baLate' = {}
  /\ baStage' = "judge"
  /\ UNCHANGED <<baKind, baRoutes, baFlaws, baPage, baLoad, baPages, baIncomplete, baStatus>>

-----------------------------------------------------------------------------
(* What the module makes of the index. *)

\* sorted(values)[k - 1]
Ranked(values, k) ==
  Min({v \in ToSet(values) : Cardinality({i \in DOMAIN values : values[i] <= v}) >= k})

\* percentile(values, 95), in hundredths, interpolated between two ranks.
P95(values) ==
  LET rank == 95 * (Len(values) - 1)
      low == Ranked(values, 1 + rank \div 100)
      high == Ranked(values, 1 + (rank + 99) \div 100)
  IN  low * (100 - (rank % 100)) + high * (rank % 100)

\* evaluate_api_latency: too few samples are no percentile; more than twice
\* the budget is high.
LatencyFinding(values) ==
  IF Len(values) < MinSamples \/ P95(values) <= 100 * Budget THEN {}
  ELSE IF P95(values) > 200 * Budget THEN {"high"} ELSE {"medium"}

\* findings_from_page does not ask whether the page was measured to its end;
\* the landmarks that were not counted are reported as missing.
PageFindings(page) ==
  IF baKind = "performance" THEN LatencyFinding(page.judged)
  ELSE {f[2] : f \in {g \in baFlaws[page.route] :
                        \/ g[1] = "axe" /\ page.parts >= 1 /\ page.axe
                        \/ g[1] = "keyboard" /\ page.parts = Len(Part)}}
       \cup (IF page.parts < 2 THEN {"medium"} ELSE {})

\* emit_findings: each names the file of its route.
BaFindings ==
  UNION {{[severity |-> s, route |-> p.route, file |-> Slug[p.route]] : s \in PageFindings(p)}
           : p \in ToSet(baPages)}

\* summarize
JudgePages ==
  /\ baStage = "judge"
  /\ Finish(IF baIncomplete THEN "incomplete"
            ELSE IF \E f \in BaFindings : f.severity = "high" THEN "failed" ELSE "passed")
  /\ UNCHANGED <<baKind, baRoutes, baFlaws, baPage, baLoad, baLate, baPages, baIncomplete, baFiles>>

BaNext ==
  \/ NoRoutes \/ StartChild \/ Raises \/ MeasurePart \/ MeasurementFails
  \/ LoadOnce \/ Navigate \/ SumUp \/ HandleLate \/ WriteResult \/ WriteAuditIndex \/ JudgePages

BaSpec == BaInit /\ [][BaNext]_baVars

-----------------------------------------------------------------------------

\* "passed" is earned: every route that was asked for was visited, in order,
\* and measured to its end; where axe ran it found nothing serious; and no
\* endpoint with enough answers in the sum is at twice its budget.
BrowserPassIsEarned ==
  baStatus = "passed" =>
    /\ [i \in DOMAIN baPages |-> baPages[i].route] = baRoutes
    /\ \A i \in DOMAIN baPages :
         /\ ~baPages[i].error
         /\ IF baKind = "accessibility"
            THEN /\ baPages[i].parts = Len(Part)
                 /\ baPages[i].axe => <<"axe", "high">> \notin baFlaws[baPages[i].route]
            ELSE /\ baPages[i].loads = Loads
                 /\ Len(baPages[i].judged) >= MinSamples =>
                      \E k \in DOMAIN baPages[i].judged : baPages[i].judged[k] <= 2 * Budget

Judged == baStatus \in {"passed", "failed", "incomplete"}

\* A finding's file holds the route the finding is about, unless another
\* route of the run has the same slug; the index, which replaces the file of
\* a route with its name, holds every route.
EvidenceIsItsOwn ==
  Judged =>
    \A f \in BaFindings :
      \/ f.file \in DOMAIN baFiles /\ \E p \in ToSet(baFiles[f.file]) : p.route = f.route
      \/ \E r \in ToSet(baRoutes) \ {f.route} : Slug[r] = f.file

HasOwnFile(i) ==
  /\ Slug[baRoutes[i]] # "index"
  /\ \A j \in DOMAIN baRoutes \ {i} : Slug[baRoutes[j]] # Slug[baRoutes[i]]

\* The three places that hold the samples of a page only ever differ by what
\* came late: the sum is the beginning of the file's, the file's of the index's.
SamplesAgree ==
  Judged =>
    \A i \in DOMAIN baPages :
      /\ IsPrefix(baPages[i].judged, baPages[i].samples)
      /\ baFiles["index"][i].samples = baPages[i].samples
      /\ HasOwnFile(i) =>
           /\ IsPrefix(baPages[i].judged, baFiles[Slug[baRoutes[i]]][1].samples)
           /\ IsPrefix(baFiles[Slug[baRoutes[i]]][1].samples, baPages[i].samples)

BrowserVerdictIsEarned == BrowserPassIsEarned /\ EvidenceIsItsOwn /\ SamplesAgree
=============================================================================
