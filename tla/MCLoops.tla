------------------------------- MODULE MCLoops -------------------------------
(***************************************************************************)
(* Five components that share nothing, each against surroundings that      *)
(* change meanwhile, checked in one run: reading the results from Redis,   *)
(* spending on language models, crawling a site, what discovery concludes  *)
(* from two crawls, watching a tree.                                       *)
(* The run chooses one of them at the start; the others stay as they begin.*)
(***************************************************************************)
EXTENDS RedisResults, LlmSpend, Crawler, WatchLoop, DiscoveryPipeline

MCCallerCap == [c \in Caller |-> IF c = "planner" THEN 3 ELSE RunCap]

\* Four pages and what they may answer, on the first crawl and with a session.
MCSite == {"home", "about", "login", "bill"}
MCPathOf == [u \in MCSite |-> u]
MCTokensIn ==
  [u \in MCSite |-> CASE u = "login" -> {"login"} [] u = "bill" -> {"admin", "payment"} [] OTHER -> {}]
MCScriptOf == [u \in MCSite |-> IF u = "home" THEN {"api", "about"} ELSE {}]

Empty(status) ==
  [status |-> status, words |-> {}, forms |-> {}, inline |-> {}, unlabelled |-> 0]
Search == [to |-> "find", method |-> "GET", onsubmit |-> FALSE, validated |-> TRUE]
Dead == [to |-> "none", method |-> "POST", onsubmit |-> FALSE, validated |-> FALSE]
Odd == [to |-> "unusable", method |-> "POST", onsubmit |-> FALSE, validated |-> FALSE]
Password == [Empty(200) EXCEPT !.words = {"password"}, !.forms = {[Dead EXCEPT !.to = "enter"]}]
Member == [Empty(200) EXCEPT !.words = {"logged"}]

MCAnswers == [
  home  |-> {[Empty(200) EXCEPT !.inline = {"find"}],
             [Empty(200) EXCEPT !.forms = {Search, Odd}, !.unlabelled = 15, !.inline = {"find"}]},
  about |-> {[Empty(500) EXCEPT !.forms = {Dead}], [Empty(200) EXCEPT !.forms = {Dead}]},
  login |-> {Password},
  bill  |-> {Empty(200), Empty(403), Password, Empty(0)} ]
MCMemberAnswers == [
  home  |-> {Member},
  about |-> {},
  login |-> {},
  bill  |-> {Member, Empty(403)} ]

\* Every crawl that brings the base page, any others, and one answer of each.
Crawls(answers) ==
  UNION {{[u \in {"home"} \cup s |-> pick[u]] :
            pick \in {p \in [{"home"} \cup s -> UNION {answers[u] : u \in MCSite}] :
                       \A u \in {"home"} \cup s : p[u] \in answers[u]}}
           : s \in SUBSET (MCSite \ {"home"})}
MCAnonymousCrawls == Crawls(MCAnswers)
MCMemberCrawls == Crawls(MCMemberAnswers)
MCDocuments == {{}, {"api", "orders"}}

VARIABLE component

loopsVars == <<component, vars, llVars, crVars, waVars, dpVars>>

\* The variables of a component that was not chosen: one fixed beginning.
ResultsRest == Init
SpendRest == LlInit /\ client = "provider"
CrawlRest == CrInit /\ links = [u \in Url |-> {}]
\* These begin in one way only.
RestingInit == WaInit /\ DpInit

LoopsInit ==
  \/ component \in {"watch", "discovery"} /\ ResultsRest /\ SpendRest /\ CrawlRest /\ RestingInit
  \/ component = "results" /\ Init /\ SpendRest /\ CrawlRest /\ RestingInit
  \/ component = "spend" /\ LlInit /\ ResultsRest /\ CrawlRest /\ RestingInit
  \/ component = "crawl" /\ CrInit /\ ResultsRest /\ SpendRest /\ RestingInit

LoopsNext ==
  \/ component = "results" /\ Next /\ UNCHANGED <<component, llVars, crVars, waVars, dpVars>>
  \/ component = "spend" /\ LlNext /\ UNCHANGED <<component, vars, crVars, waVars, dpVars>>
  \/ component = "crawl" /\ CrawlStep /\ UNCHANGED <<component, vars, llVars, waVars, dpVars>>
  \/ component = "watch" /\ WaNext /\ UNCHANGED <<component, vars, llVars, crVars, dpVars>>
  \/ component = "discovery" /\ DpNext /\ UNCHANGED <<component, vars, llVars, crVars, waVars>>

\* The fairness of LiveSpec, CrSpec and WaSpec.
LoopsFairness ==
  /\ component = "results" => \A r \in Reader : WF_vars(Advance(r))
  /\ component = "crawl" => WF_crVars(CrawlStep)
  /\ component = "watch" => WF_waVars(WatchStep)

LoopsSpec == LoopsInit /\ [][LoopsNext]_loopsVars /\ LoopsFairness

\* Every variable of the five components has its type (the type invariants of
\* the five modules).
LoopsTypeOK == TypeOK /\ LlTypeOK /\ CrTypeOK /\ WaTypeOK /\ DpTypeOK

\* Discovery concludes what the site showed it: the crawl is in breadth-first
\* order within its bounds, and routes, boundaries, suspicions and risks agree
\* with the pages it brought.
DiscoveryIsSound == CrawlIsBreadthFirst /\ GraphIsSound

\* The progress of the two components with one loop, for the run that has
\* chosen it.
CrawlEnds == component = "crawl" => CrawlIsComplete
EditsSeen == component = "watch" => EditsAudited

\* Each loop makes progress: a reader of the results returns, the crawl ends
\* with every page it owes, and an edit is audited once the developer rests.
LoopsProgress == CallReturns /\ CrawlEnds /\ EditsSeen
=============================================================================
