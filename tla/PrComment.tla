------------------------------ MODULE PrComment ------------------------------
(***************************************************************************)
(* The summary of a run as ONE comment of a pull or merge request:         *)
(* integrations/github/post_pr_comment.py and gitlab/post_mr_note.py.      *)
(*                                                                         *)
(* Every CI job lists the first page of the thread, looks for a comment    *)
(* that begins with the anchor, and edits it or creates it.  The thread    *)
(* belongs to the platform; people and other bots write into it too.  It   *)
(* is kept here in the order in which the platform lists it: GitHub by     *)
(* creation, GitLab the last updated first.                                *)
(***************************************************************************)
EXTENDS HttpRetry, FiniteSets, Functions, Sequences

CONSTANTS
  Poster,        \* the CI jobs that post a report
  NoPoster,      \* the author of a comment without the anchor
  PageSize,      \* per_page, 100 in the code
  MaxForeign     \* bound on the comments of others

ASSUME PageSizeIsPositive == PageSize \in Nat \ {0}
ASSUME NoPosterIsNone == NoPoster \notin Poster

VARIABLES
  platform,      \* "github" or "gitlab"
  thread,        \* the comments in listing order
  made,          \* how many comments were ever created: their ids
  poster,        \* stage of each job
  written,       \* history: the job whose write was applied last
  calmThread     \* history: nothing has happened that excuses a twin

prVars == <<platform, thread, made, poster, written, calmThread>>

Stage == {"waiting", "find", "write", "posted", "failed", "crashed"}

Posters == [stage : Stage, attempt : 1..MaxAttempts, target : Nat]

Comment == [id : Nat \ {0}, shows : Poster \cup {NoPoster}]

PrTypeOK ==
  /\ platform \in {"github", "gitlab"}
  /\ thread \in Seq(Comment)
  /\ made \in Nat
  /\ poster \in [Poster -> Posters]
  /\ written \in Poster \cup {NoPoster}
  /\ calmThread \in BOOLEAN

PrInit ==
  /\ platform \in {"github", "gitlab"}
  /\ thread = <<>>
  /\ made = 0
  /\ poster = [j \in Poster |-> [stage |-> "waiting", attempt |-> 1, target |-> 0]]
  /\ written = NoPoster
  /\ calmThread = TRUE

Anchored == {c \in Range(thread) : c.shows # NoPoster}

FirstPage == SubSeq(thread, 1, IF Len(thread) < PageSize THEN Len(thread) ELSE PageSize)

\* A summary there is, but not on the first page.
Hidden == Anchored # {} /\ Anchored \cap Range(FirstPage) = {}

Existing_FirstOnly_Mutant ==
  IF FirstPage # <<>> /\ Head(FirstPage).shows # NoPoster THEN Head(FirstPage).id ELSE 0

\* _find_existing_comment / _find_existing_note: the id, 0 for None.
Existing ==
  LET hits == {i \in DOMAIN FirstPage : FirstPage[i].shows # NoPoster}
  IN  IF hits = {} THEN 0
      ELSE FirstPage[CHOOSE i \in hits : \A k \in hits : i <= k].id

\* POST: GitHub lists the newest comment last, GitLab first.
Created(seq, c) == IF platform = "github" THEN Append(seq, c) ELSE <<c>> \o seq

\* PATCH / PUT of comment id: the edit makes it the first one on GitLab.
Edited(seq, id, j) ==
  LET new == [id |-> id, shows |-> j]
      at == CHOOSE i \in DOMAIN seq : seq[i].id = id
  IN  IF platform = "github" THEN [seq EXCEPT ![at] = new]
      ELSE [i \in DOMAIN seq |-> IF i = 1 THEN new ELSE IF i <= at THEN seq[i - 1] ELSE seq[i]]

Working(j) == poster[j].stage \in {"find", "write"}

\* Where _request's verdict on one attempt leaves the job.
After(j, verdict, next) ==
  CASE verdict = "answered" -> next
    [] verdict = "again"    -> [poster[j] EXCEPT !.attempt = @ + 1]
    [] verdict = "failed"   -> [poster[j] EXCEPT !.stage = "failed"]
    [] verdict = "crashed"  -> [poster[j] EXCEPT !.stage = "crashed"]

\* main: the report is read and the token resolved before any request.  A job
\* that starts while another is at work may list before the other has created.
StartPoster(j, readable) ==
  /\ poster[j].stage = "waiting"
  /\ poster' = [poster EXCEPT ![j].stage = IF readable THEN "find" ELSE "failed"]
  /\ calmThread' = (calmThread /\ ~(readable /\ \E k \in Poster : Working(k)))
  /\ UNCHANGED <<platform, thread, made, written>>

\* One attempt at the listing.  A comment with the anchor beyond the first
\* page is not seen.
ListThread(j, reply) ==
  LET verdict == Verdict(platform, reply, poster[j].attempt)
      next == [stage |-> "write", attempt |-> 1, target |-> Existing]
  IN  /\ poster[j].stage = "find"
      /\ poster' = [poster EXCEPT ![j] = After(j, verdict, next)]
      /\ calmThread' = (calmThread /\ ~(verdict = "answered" /\ Hidden))
      /\ UNCHANGED <<platform, thread, made, written>>

\* One attempt at the edit of what was found, or at the creation.  A creation
\* that was applied and is sent again makes a twin.
WriteComment(j, reply) ==
  LET target == poster[j].target
      verdict == Verdict(platform, reply, poster[j].attempt)
      creates == target = 0 /\ Applied(reply)
  IN  /\ poster[j].stage = "write"
      /\ poster' = [poster EXCEPT ![j] =
                      After(j, verdict, [poster[j] EXCEPT !.stage = "posted"])]
      /\ thread' = CASE ~Applied(reply) -> thread
                     [] creates         -> Created(thread, [id |-> made + 1, shows |-> j])
                     [] OTHER           -> Edited(thread, target, j)
      /\ written' = IF Applied(reply) THEN j ELSE written
      /\ made' = IF creates THEN made + 1 ELSE made
      /\ calmThread' = (calmThread /\ ~(creates /\ verdict = "again"))
      /\ UNCHANGED platform

\* Somebody else comments.
Foreign ==
  /\ made - Cardinality(Anchored) < MaxForeign
  /\ made' = made + 1
  /\ thread' = Created(thread, [id |-> made + 1, shows |-> NoPoster])
  /\ UNCHANGED <<platform, poster, written, calmThread>>

PosterStep(j) ==
  \/ \E readable \in BOOLEAN : StartPoster(j, readable)
  \/ \E reply \in Reply : ListThread(j, reply) \/ WriteComment(j, reply)

PrNext == Foreign \/ \E j \in Poster : PosterStep(j)

PrSpec == PrInit /\ [][PrNext]_prVars

-----------------------------------------------------------------------------
\* The promise of both posters: one summary per request, and the last report
\* written, whatever the comments of others, the failed attempts and the number
\* of runs - as long as no two jobs overlapped, no creation was sent again after
\* its answer was lost, and the summary was never pushed off the first page
\* (upsert_comment, upsert_note, _request).
OneSummary ==
  calmThread => \A c \in Anchored : Anchored = {c} /\ c.shows = written
=============================================================================
