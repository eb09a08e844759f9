------------------------------ MODULE Crawler ------------------------------
(***************************************************************************)
(* The crawl of discovery: HttpCrawlBackend in engine/discovery/crawler.py.*)
(*                                                                         *)
(* A breadth-first walk over the pages of a site, bounded in depth and in  *)
(* pages, one slot of the rate limiter per page and up to four requests in *)
(* it.  A page may answer differently each time it is asked.               *)
(***************************************************************************)
EXTENDS Naturals, FiniteSets, SequencesExt

CONSTANTS
  Url,           \* what _normalize_url yields
  Base,          \* the first of them
  LeftOut,       \* on a host that is not allowed, or forbidden by its robots.txt
  MaxDepth,      \* CrawlPolicy.max_depth
  MaxPages,      \* CrawlPolicy.max_pages
  Attempts       \* 1 + len(backoffs), 4 in the code

ASSUME BaseIsUrl == IsFiniteSet(Url) /\ Base \in Url /\ LeftOut \subseteq Url
ASSUME BoundsAreNatural == MaxDepth \in Nat /\ MaxPages \in Nat /\ Attempts \in Nat \ {0}

VARIABLES
  links,         \* the site: the links of each page
  queue,         \* deque of [url, depth]
  seen,
  pages,         \* CrawlResult.pages: [url, depth, html]
  left,          \* skipped_external and robots_disallowed
  fetching,      \* attempt in progress, 0 between pages
  requests       \* history: requests for pages

crVars == <<links, queue, seen, pages, left, fetching, requests>>

Entry == [url : Url, depth : 0..MaxDepth]
Page == [url : Url, depth : 0..MaxDepth, html : BOOLEAN]

CrTypeOK ==
  /\ links \in [Url -> SUBSET Url]
  /\ queue \in Seq(Entry) /\ pages \in Seq(Page)
  /\ seen \subseteq Url /\ left \subseteq Url
  /\ fetching \in 0..Attempts
  /\ requests \in Nat

\* A link to the page itself is always seen already, a second one to the same
\* page will be when its turn comes, and the links of a page that is left out
\* are not read: such links are not in the sites looked at.
CrInit ==
  /\ links \in {l \in [Url -> SUBSET Url] :
                  \A u \in Url : u \notin l[u] /\ (u \in LeftOut => l[u] = {})}
  /\ queue = <<[url |-> Base, depth |-> 0]>>
  /\ seen = {} /\ left = {}
  /\ pages = <<>>
  /\ fetching = 0
  /\ requests = 0

Crawling == fetching > 0 \/ (queue # <<>> /\ Len(pages) < MaxPages)

Fetched == {pages[i].url : i \in DOMAIN pages}

\* The head of the loop of _crawl.  The limiter is asked once, after the checks.
PopUrl ==
  /\ fetching = 0 /\ queue # <<>> /\ Len(pages) < MaxPages
  /\ LET url == Head(queue).url
     IN  /\ seen' = seen \cup {url}
         /\ IF url \in seen
            THEN queue' = Tail(queue) /\ UNCHANGED <<left, fetching>>
            ELSE IF url \in LeftOut
            THEN queue' = Tail(queue) /\ left' = left \cup {url} /\ UNCHANGED fetching
            ELSE fetching' = 1 /\ UNCHANGED <<queue, left>>
  /\ UNCHANGED <<links, pages, requests>>

LinksOf_OffByOne_Mutant(page) ==
  IF page.html /\ page.depth + 1 < MaxDepth THEN links[page.url] \ seen ELSE {}

\* The links of an HTML page above the maximal depth that were not yet seen,
\* in the order of the document.
LinksOf(page) ==
  IF page.html /\ page.depth < MaxDepth THEN links[page.url] \ seen ELSE {}

Append1_Stack_Mutant(html) ==
  LET page == [url |-> Head(queue).url, depth |-> Head(queue).depth, html |-> html]
  IN  /\ pages' = Append(pages, page)
      /\ \E order \in SetToSeqs(LinksOf(page)) :
           queue' = [i \in DOMAIN order |-> [url |-> order[i], depth |-> page.depth + 1]]
                      \o Tail(queue)

\* _fetch returns a page: an error of the network is a page without links.
Append1(html) ==
  LET page == [url |-> Head(queue).url, depth |-> Head(queue).depth, html |-> html]
  IN  /\ pages' = Append(pages, page)
      /\ \E order \in SetToSeqs(LinksOf(page)) :
           queue' = Tail(queue) \o [i \in DOMAIN order |->
                                      [url |-> order[i], depth |-> page.depth + 1]]

\* One attempt of _fetch_with_retries: below 500 is final, so is the last one,
\* and so is an exception.
Attempt(reply, html) ==
  /\ fetching > 0
  /\ requests' = requests + 1
  /\ IF reply = "fault" /\ fetching < Attempts
     THEN fetching' = fetching + 1 /\ UNCHANGED <<queue, pages>>
     ELSE fetching' = 0 /\ Append1(html /\ reply # "broken")
  /\ UNCHANGED <<links, seen, left>>

CrawlStep ==
  \/ PopUrl
  \/ \E reply \in {"answer", "fault", "broken"}, html \in BOOLEAN : Attempt(reply, html)

CrSpec == CrInit /\ [][CrawlStep]_crVars /\ WF_crVars(CrawlStep)

-----------------------------------------------------------------------------
\* The pages are in breadth-first order: each is fetched once, with the depth
\* one below the first fetched page that links to it, so that the page limit
\* cuts off the deepest ones; what is left out was never asked for, and no page
\* costs more than its slot's attempts (_crawl, _fetch_with_retries).
CrawlIsBreadthFirst ==
  /\ \A i \in DOMAIN pages :
       /\ i = 1 => pages[i].url = Base /\ pages[i].depth = 0
       /\ i > 1 =>
            \E k \in 1..(i - 1) :
              /\ pages[k].html /\ pages[i].url \in links[pages[k].url]
              /\ pages[i].depth = pages[k].depth + 1
              /\ \A m \in 1..(k - 1) : pages[m].html => pages[i].url \notin links[pages[m].url]
       /\ pages[i].url \notin {pages[k].url : k \in 1..(i - 1)}
  /\ \A i \in 1..(Len(pages) - 1) : pages[i].depth <= pages[i + 1].depth
  /\ Len(pages) <= MaxPages
  /\ Fetched \cap left = {}
  /\ requests <= Attempts * (Len(pages) + 1)

\* When it is over, every page reachable through HTML pages within the depth
\* was fetched or left out, unless the page limit was met, and it is over at
\* some time on every site.
CrawlIsComplete ==
  <>(/\ ~Crawling
     /\ \/ Len(pages) = MaxPages
        \/ \A i \in DOMAIN pages :
             pages[i].html /\ pages[i].depth < MaxDepth
               => links[pages[i].url] \subseteq Fetched \cup left)
=============================================================================
