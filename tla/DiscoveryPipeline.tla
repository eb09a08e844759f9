------------------------- MODULE DiscoveryPipeline -------------------------
(***************************************************************************)
(* What discovery concludes from its crawls: DiscoveryPipeline.run in      *)
(* engine/discovery/pipeline.py, with the inventory of forms, the detector *)
(* of endpoints, the documents it ingests, the detector of auth            *)
(* boundaries, the risk map and the files "sentinel discover" writes.      *)
(*                                                                         *)
(* The site is asked twice, without a session and with one, and may answer *)
(* differently; scripts may not load, a document may be damaged, and the   *)
(* command may die between two files.  How a site is crawled is in Crawler.*)
(***************************************************************************)
EXTENDS Naturals, Sequences

CONSTANTS
  Site,             \* the pages, by URL
  PathOf,           \* route_url_to_path and template_path of each
  TokensIn,         \* the words of its path a rule looks for
  ScriptOf,         \* the paths named in the external scripts of each page
  AnonymousCrawls,  \* what the first crawl may bring: URL to answer
  MemberCrawls,     \* what the second one may bring
  Documents         \* the paths of an OpenAPI document; one of GraphQL fails alike

ASSUME CrawlsAreOfTheSite ==
  \A c \in AnonymousCrawls \cup MemberCrawls :
    /\ DOMAIN c \subseteq Site
    /\ \A u \in DOMAIN c : c[u].unlabelled \in Nat /\ "none" \notin c[u].inline

\* A form without a target is sent to "none", which is no path.
ASSUME NoneIsNoPath == \A u \in Site : "none" \notin ScriptOf[u]

VARIABLES
  dpStage,      \* the step of run that comes next
  dpPages,      \* the first crawl, then also the routes
  dpReferred,   \* paths that scripts mention
  dpDocument,   \* the paths of the ingested document
  dpVerdicts,   \* URL to [guarded, uiOnly, escalation]
  dpGraph,      \* [routes: URL to auth_required, boundaries]
  dpRisk,       \* URL to score, in hundredths
  dpFiles       \* what the command has written, in order

dpVars == <<dpStage, dpPages, dpReferred, dpDocument, dpVerdicts, dpGraph, dpRisk, dpFiles>>

DpStage == {"crawl", "scripts", "ingest", "sign_in", "crawl_again", "assemble", "write", "over"}
Artifacts == <<"discovery", "forms", "api", "auth", "risk", "markdown", "complete">>

DpTypeOK ==
  /\ dpStage \in DpStage
  /\ DOMAIN dpPages \subseteq Site /\ DOMAIN dpVerdicts \subseteq Site
  /\ \A u \in DOMAIN dpVerdicts :
       /\ dpVerdicts[u].guarded \in BOOLEAN /\ dpVerdicts[u].uiOnly \in BOOLEAN
       /\ dpVerdicts[u].escalation \in BOOLEAN
  /\ DOMAIN dpGraph.routes \subseteq DOMAIN dpPages
  /\ \A u \in DOMAIN dpRisk : dpRisk[u] \in 0..100
  /\ \E n \in 0..Len(Artifacts) : dpFiles = SubSeq(Artifacts, 1, n)

DpInit ==
  /\ dpStage = "crawl"
  /\ dpPages = <<>> /\ dpVerdicts = <<>> /\ dpRisk = <<>>
  /\ dpReferred = {} /\ dpDocument = {}
  /\ dpGraph = [routes |-> <<>>, boundaries |-> {}]
  /\ dpFiles = <<>>

Ok(answer) == answer.status = 200
Denied(answer) == answer.status \in {401, 403}

-----------------------------------------------------------------------------
\* Forms and endpoints.

\* FormsInventory.build keeps the forms of a page that its model accepts.
FormsOf(page) == {f \in page.forms : f.to # "unusable"}

\* What the risk rules ask of them.
Unhandled(f) == f.to = "none" /\ ~f.onsubmit

\* A page is an endpoint, and so is what any of its forms is sent to, a form the
\* inventory does not accept included (ApiDetector.detect).
Observed ==
  {[method |-> "GET", path |-> PathOf[u]] : u \in DOMAIN dpPages}
    \cup {[method |-> f.method, path |-> f.to] :
            f \in {f \in UNION {dpPages[u].forms : u \in DOMAIN dpPages} : f.to # "none"}}

ReferencedOnly_AnyEndpoint_Mutant == dpReferred \ {PathOf[u] : u \in DOMAIN dpPages}

ReferencedOnly == dpReferred \ {e.path : e \in Observed}

Discovered == Observed \cup {[method |-> "GET", path |-> p] : p \in ReferencedOnly}

Faulty == {PathOf[u] : u \in {u \in DOMAIN dpPages : dpPages[u].status = 500}}

\* OpenAPIIngester.cross_check: a path a script mentions counts as observed.
CrossCheck ==
  LET seen == {e.path : e \in Discovered}
  IN  [undocumented |-> seen \ dpDocument, expected |-> dpDocument \ seen]

-----------------------------------------------------------------------------
\* Auth boundaries.

\* _classify_anonymous: a page that is denied, or that shows a password field and
\* is not itself the page to sign in.
Guarded(url, answer) ==
  \/ Denied(answer)
  \/ "login" \notin TokensIn[url] /\ "password" \in answer.words

AnonymousVerdicts(pages) ==
  [u \in DOMAIN pages |-> [guarded |-> Guarded(u, pages[u]), uiOnly |-> FALSE, escalation |-> FALSE]]

PairVerdict_LastAnswer_Mutant(url, pages, member) ==
  LET answer == IF url \in DOMAIN member THEN member[url] ELSE pages[url]
  IN  [guarded |-> Guarded(url, answer), uiOnly |-> FALSE, escalation |-> FALSE]

\* One round of _verdicts_from_pair.
PairVerdict(url, pages, member) ==
  LET both == url \in DOMAIN pages /\ url \in DOMAIN member
      guarded == url \in DOMAIN pages /\ Guarded(url, pages[url])
  IN  [guarded |-> guarded,
       uiOnly |-> /\ both /\ Ok(pages[url]) /\ ~guarded
                  /\ "logged" \in member[url].words /\ "logged" \notin pages[url].words,
       escalation |-> /\ both /\ Ok(pages[url]) /\ Ok(member[url])
                      /\ "admin" \in TokensIn[url]]

PairVerdicts(pages, member) ==
  [u \in DOMAIN pages \cup DOMAIN member |-> PairVerdict(u, pages, member)]

BoundariesOf_AllVerdicts_Mutant ==
  {[url |-> u, enforced |-> ~dpVerdicts[u].uiOnly] : u \in {u \in DOMAIN dpVerdicts :
     dpVerdicts[u].guarded \/ u \notin DOMAIN dpPages}}

\* _build_boundaries: the guarded pages that are routes.  Who is to be let in is
\* not known, and a page is never both guarded and open by its looks only.
BoundariesOf ==
  {[url |-> u, enforced |-> ~dpVerdicts[u].uiOnly] :
     u \in {u \in DOMAIN dpPages : dpVerdicts[u].guarded}}

-----------------------------------------------------------------------------
\* The risk map.  The suspicions are filed by path and looked up by URL, so that
\* none is ever found and rule_api_referenced_only adds nothing.

Weight(url, page) ==
  LET among(tokens) == TokensIn[url] \cap tokens # {}
      forms == FormsOf(page)
      rule(holds, weight) == IF holds THEN weight ELSE 0
  IN  rule(page.status = 500, 95) + rule(among({"admin", "internal"}), 50) + rule(page.status = 0, 80)
        + rule(\E f \in forms : Unhandled(f), 50) + rule(\E f \in forms : ~f.validated, 20)
        + rule(among({"login", "auth"}), 60) + page.unlabelled + rule(among({"payment"}), 55)
        + rule(page.status = 404, 40)

Score_Wrapped_Mutant(url, page) == Weight(url, page) % 101

\* score_route: the sum of the weights, capped.
Score(url, page) == IF Weight(url, page) < 100 THEN Weight(url, page) ELSE 100

-----------------------------------------------------------------------------
\* The steps of run.

CrawlAnonymously(pages) ==
  /\ dpStage = "crawl"
  /\ dpPages' = pages
  /\ dpStage' = "scripts"
  /\ UNCHANGED <<dpReferred, dpDocument, dpVerdicts, dpGraph, dpRisk, dpFiles>>

\* collect_javascript leaves out a script that does not load, without a word.
CollectScripts(loaded) ==
  /\ dpStage = "scripts"
  /\ dpReferred' = (UNION {dpPages[u].inline : u \in DOMAIN dpPages})
                     \cup UNION {ScriptOf[u] : u \in loaded}
  /\ dpStage' = "ingest"
  /\ UNCHANGED <<dpPages, dpDocument, dpVerdicts, dpGraph, dpRisk, dpFiles>>

\* A document that does not load or validate raises: the command ends and what
\* the crawl brought is lost.
Ingest(readable, document) ==
  /\ dpStage = "ingest"
  /\ IF readable
     THEN dpDocument' = document /\ dpStage' = "sign_in"
     ELSE dpStage' = "over" /\ UNCHANGED dpDocument
  /\ UNCHANGED <<dpPages, dpReferred, dpVerdicts, dpGraph, dpRisk, dpFiles>>

\* AuthBoundaryDetector.detect: without credentials, or when the login fails, the
\* verdicts are those of the first crawl.
SignIn(succeeds) ==
  /\ dpStage = "sign_in"
  /\ IF succeeds
     THEN dpStage' = "crawl_again" /\ UNCHANGED dpVerdicts
     ELSE dpStage' = "assemble" /\ dpVerdicts' = AnonymousVerdicts(dpPages)
  /\ UNCHANGED <<dpPages, dpReferred, dpDocument, dpGraph, dpRisk, dpFiles>>

CrawlAsMember(member) ==
  /\ dpStage = "crawl_again"
  /\ dpVerdicts' = PairVerdicts(dpPages, member)
  /\ dpStage' = "assemble"
  /\ UNCHANGED <<dpPages, dpReferred, dpDocument, dpGraph, dpRisk, dpFiles>>

\* The graph, whose routes are the pages of the first crawl only, and its risks.
Assemble ==
  /\ dpStage = "assemble"
  /\ dpGraph' = [routes |-> [u \in DOMAIN dpPages |-> dpVerdicts[u].guarded],
                 boundaries |-> BoundariesOf]
  /\ dpRisk' = [u \in DOMAIN dpPages |-> Score(u, dpPages[u])]
  /\ dpStage' = "write"
  /\ UNCHANGED <<dpPages, dpReferred, dpDocument, dpVerdicts, dpFiles>>

\* write_discovery_artifacts, and the entry of run_discover in the audit log.
WriteNext ==
  /\ dpStage = "write"
  /\ dpFiles' = Append(dpFiles, Artifacts[Len(dpFiles) + 1])
  /\ dpStage' = IF Len(dpFiles') = Len(Artifacts) THEN "over" ELSE "write"
  /\ UNCHANGED <<dpPages, dpReferred, dpDocument, dpVerdicts, dpGraph, dpRisk>>

\* Before the first file nothing is left of the command.
DpDies ==
  /\ dpStage = "write"
  /\ dpStage' = "over"
  /\ UNCHANGED <<dpPages, dpReferred, dpDocument, dpVerdicts, dpGraph, dpRisk, dpFiles>>

DpNext ==
  \/ \E pages \in AnonymousCrawls : CrawlAnonymously(pages)
  \/ \E loaded \in SUBSET {u \in DOMAIN dpPages : ScriptOf[u] # {}} : CollectScripts(loaded)
  \/ \E readable \in BOOLEAN, document \in Documents : Ingest(readable, document)
  \/ \E succeeds \in BOOLEAN : SignIn(succeeds)
  \/ \E member \in MemberCrawls : CrawlAsMember(member)
  \/ Assemble \/ WriteNext \/ DpDies

DpSpec == DpInit /\ [][DpNext]_dpVars

-----------------------------------------------------------------------------
Assembled == dpStage = "write" \/ dpFiles # <<>>

\* The routes of the graph and its boundaries agree, page by page, and a page
\* that turned the visitor away is guarded whatever a login and a second crawl
\* brought afterwards (the boundaries are built from the verdicts of both crawls,
\* the routes from the first alone).
BoundariesAreRoutes ==
  Assembled =>
    /\ \A u \in DOMAIN dpPages :
         /\ dpGraph.routes[u] <=> \E b \in dpGraph.boundaries : b.url = u
         /\ Guarded(u, dpPages[u]) => dpGraph.routes[u]
    /\ \A b \in dpGraph.boundaries : b.url \in DOMAIN dpPages

\* A path is under suspicion of never being served only if a script names it and
\* neither a page nor a form leads to it; what the document and the site disagree
\* about is named on exactly one side, and each suspicion is about an endpoint of
\* the graph (ApiDetector.detect, cross_check).
SuspicionsAreBacked ==
  dpStage \notin {"crawl", "scripts"} =>
    /\ \A p \in ReferencedOnly :
         /\ \A u \in DOMAIN dpPages : PathOf[u] # p /\ \A f \in dpPages[u].forms : f.to # p
         /\ [method |-> "GET", path |-> p] \in Discovered
    /\ Faulty \subseteq {e.path : e \in Discovered}
    /\ CrossCheck.undocumented \cap CrossCheck.expected = {}
    /\ dpReferred \cap dpDocument \cap CrossCheck.expected = {}

\* A is a page on which at least everything is wrong that is wrong on b.
NoBetter(a, b) ==
  /\ a.status = b.status \/ (Ok(b) /\ a.status \in {0, 404, 500})
  /\ FormsOf(b) \subseteq FormsOf(a)
  /\ a.unlabelled >= b.unlabelled

\* A route that was down when it was crawled is among the critical ones, and of
\* two routes of a kind the one with more wrong never ranks below the other, the
\* cap included (score_route).
RiskFollowsTrouble ==
  Assembled =>
    \A u \in DOMAIN dpPages :
      /\ dpPages[u].status \in {0, 500} => dpRisk[u] >= 80
      /\ \A w \in DOMAIN dpPages :
           TokensIn[u] = TokensIn[w] /\ NoBetter(dpPages[u], dpPages[w]) => dpRisk[u] >= dpRisk[w]

\* The graph handed to the planner is sound.
GraphIsSound == BoundariesAreRoutes /\ SuspicionsAreBacked /\ RiskFollowsTrouble
=============================================================================
