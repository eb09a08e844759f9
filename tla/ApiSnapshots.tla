----------------------------- MODULE ApiSnapshots -----------------------------
(***************************************************************************)
(* The backward-compatibility check of the api module: every run compares  *)
(* the document of the API with the snapshot an earlier run left in its    *)
(* own directory, and leaves a snapshot itself.                            *)
(*                                                                         *)
(* modules/api/backward_compat.py, and of module.py what loads the         *)
(* document, calls the check and writes the snapshot.  A snapshot maps an  *)
(* endpoint to the fields it asks for, the fields it always answers with   *)
(* and the types of its answer.                                            *)
(***************************************************************************)
EXTENDS Naturals, FiniteSets, SequencesExt

CONSTANTS
  ApiRuns,       \* number of runs; they are started in this order
  MaxTrouble,    \* bound on what is out of the ordinary in one behaviour
  OpenApi,       \* what an OpenAPI document may promise
  Graphql,       \* what a GraphQL schema may promise
  Missing,       \* no such document, no such snapshot
  Damaged        \* a document that does not parse, a snapshot cut off

ASSUME MissingIsNone ==
  /\ Missing \notin OpenApi \cup Graphql /\ Damaged \notin OpenApi \cup Graphql
  /\ Missing # Damaged
ASSUME PromisesAreNamed ==
  \A c \in OpenApi \cup Graphql :
    /\ DOMAIN c \subseteq STRING
    /\ \A e \in DOMAIN c : c[e].gives \cup c[e].asks \cup DOMAIN c[e].type \subseteq STRING
ASSUME ApiRunsIsPositive == ApiRuns \in Nat \ {0} /\ MaxTrouble \in Nat

ApiRun == 1..ApiRuns
NoRun == 0

\* Run ids are random, and compared as strings: numbers in an arbitrary order.
RunId == 1..ApiRuns
NoId == 0

VARIABLES
  apiRun,        \* the state of each run
  apiOverlapped, \* history: the runs that ran together with another
  apiTrouble     \* history: how often something was out of the ordinary

apVars == <<apiRun, apiOverlapped, apiTrouble>>

ApiStage == {"idle", "load", "compare", "truncate", "fill", "report", "done", "dead"}

Contract == OpenApi \cup Graphql

Readable(s) == s \notin {Missing, Damaged}

Issue == [rule : {"endpoint", "gives", "asks", "type"}, at : STRING,
          field : STRING \cup {"none"}]

ApiState ==
  [stage : ApiStage, id : RunId \cup {NoId}, checks : BOOLEAN, since : ApiRun \cup {NoRun},
   current : Contract \cup {Missing}, against : ApiRun \cup {NoRun}, issues : SUBSET Issue,
   file : Contract \cup {Missing, Damaged}]

ApTypeOK ==
  /\ apiRun \in [ApiRun -> ApiState]
  /\ apiOverlapped \subseteq ApiRun
  /\ apiTrouble \in 0..MaxTrouble

ApInit ==
  /\ apiRun = [r \in ApiRun |->
       [stage |-> "idle", id |-> NoId, checks |-> FALSE, since |-> NoRun, current |-> Missing,
        against |-> NoRun, issues |-> {}, file |-> Missing]]
  /\ apiOverlapped = {}
  /\ apiTrouble = 0

Started(r) == apiRun[r].stage # "idle"
Under(r) == apiRun[r].stage \notin {"idle", "done", "dead"}
ApiReported(r) == apiRun[r].stage = "done"

Untroubled == UNCHANGED <<apiOverlapped, apiTrouble>>

Troubled == apiTrouble < MaxTrouble /\ apiTrouble' = apiTrouble + 1

\* A run begins: its id is drawn.  The operator may leave the check out, or may
\* name the run to compare with, or may start it while another is running.
StartApiRun(r) ==
  /\ apiRun[r].stage = "idle"
  /\ \A i \in 1..(r - 1) : Started(i)
  /\ \E id \in RunId \ {apiRun[i].id : i \in ApiRun}, checks \in BOOLEAN, since \in 0..(r - 1) :
       /\ checks \/ since = NoRun
       /\ apiRun' = [apiRun EXCEPT ![r].stage = "load", ![r].id = id, ![r].checks = checks,
                                   ![r].since = since]
       /\ LET others == {i \in ApiRun : Under(i)}
          IN  /\ apiOverlapped' = IF others = {} THEN apiOverlapped
                                  ELSE apiOverlapped \cup others \cup {r}
              /\ IF checks /\ since = NoRun /\ others = {} THEN UNCHANGED apiTrouble ELSE Troubled

\* The OpenAPI document speaks for the API; the GraphQL schema if there is no
\* other, or the other does not load.
Promised(openapi, graphql) ==
  IF openapi \in OpenApi THEN openapi
  ELSE IF graphql \in Graphql THEN graphql ELSE Missing

\* _run_audit loads the documents as they are now.
LoadDocuments(r) ==
  /\ apiRun[r].stage = "load"
  /\ \E openapi \in OpenApi \cup {Missing, Damaged}, graphql \in Graphql \cup {Missing, Damaged} :
       apiRun' = [apiRun EXCEPT ![r].stage = IF apiRun[r].checks THEN "compare" ELSE "truncate",
                                ![r].current = Promised(openapi, graphql)]
  /\ Untroubled

\* The other runs that have a snapshot, whole or not.
Candidates(r) == {i \in ApiRun \ {r} : apiRun[i].file # Missing}

Previous_First_Mutant(r) ==
  IF apiRun[r].since # NoRun THEN apiRun[r].since
  ELSE IF Candidates(r) = {} THEN NoRun
  ELSE CHOOSE i \in Candidates(r) : \A k \in Candidates(r) : apiRun[i].id <= apiRun[k].id

\* load_previous_snapshot: the named run, or the alphabetically last.
Previous(r) ==
  IF apiRun[r].since # NoRun THEN apiRun[r].since
  ELSE IF Candidates(r) = {} THEN NoRun
  ELSE CHOOSE i \in Candidates(r) : \A k \in Candidates(r) : apiRun[k].id <= apiRun[i].id

Breaks_NoNewDemands_Mutant(old, new) ==
  {[rule |-> "endpoint", at |-> e, field |-> "none"] : e \in DOMAIN old \ DOMAIN new}
  \cup UNION {{[rule |-> "gives", at |-> e, field |-> f] : f \in old[e].gives \ new[e].gives}
              : e \in DOMAIN old \cap DOMAIN new}

\* diff_snapshots: an endpoint that is gone, a field no longer promised, a new
\* field demanded, the type of a field changed while both documents name one.
Breaks(old, new) ==
  {[rule |-> "endpoint", at |-> e, field |-> "none"] : e \in DOMAIN old \ DOMAIN new}
  \cup UNION {
    {[rule |-> "gives", at |-> e, field |-> f] : f \in old[e].gives \ new[e].gives}
    \cup {[rule |-> "asks", at |-> e, field |-> f] : f \in new[e].asks \ old[e].asks}
    \cup {[rule |-> "type", at |-> e, field |-> f] :
            f \in {g \in DOMAIN old[e].type \cap DOMAIN new[e].type :
                     old[e].type[g] # new[e].type[g]}}
    : e \in DOMAIN old \cap DOMAIN new}

\* The check itself: skipped when either side is missing.  An audit cut short
\* by an error of the network before it came here leaves it out.
CompareSnapshots(r) ==
  /\ apiRun[r].stage = "compare"
  /\ \/ LET i == Previous(r)
            compares == i # NoRun /\ Readable(apiRun[i].file) /\ apiRun[r].current # Missing
        IN  /\ apiRun' = [apiRun EXCEPT
                 ![r].stage = "truncate",
                 ![r].against = IF compares THEN i ELSE NoRun,
                 ![r].issues = IF compares THEN Breaks(apiRun[i].file, apiRun[r].current) ELSE {}]
            /\ UNCHANGED apiTrouble
     \/ apiRun' = [apiRun EXCEPT ![r].stage = "truncate", ![r].checks = FALSE] /\ Troubled
  /\ UNCHANGED apiOverlapped

\* collect_evidence writes the snapshot of this run, if it has one, whether or
\* not it compared: write_text empties the file first.
TruncateSnapshot(r) ==
  /\ apiRun[r].stage = "truncate"
  /\ apiRun' = IF apiRun[r].current = Missing THEN [apiRun EXCEPT ![r].stage = "report"]
               ELSE [apiRun EXCEPT ![r].stage = "fill", ![r].file = Damaged]
  /\ Untroubled

FillSnapshot(r) ==
  /\ apiRun[r].stage = "fill"
  /\ apiRun' = [apiRun EXCEPT ![r].stage = "report", ![r].file = apiRun[r].current]
  /\ Untroubled

\* The lifecycle publishes the findings of the module.
ReportApiRun(r) ==
  /\ apiRun[r].stage = "report"
  /\ apiRun' = [apiRun EXCEPT ![r].stage = "done"]
  /\ Untroubled

KillApiRun(r) ==
  /\ Under(r)
  /\ apiRun' = [apiRun EXCEPT ![r].stage = "dead"]
  /\ Troubled
  /\ UNCHANGED apiOverlapped

ApNext ==
  \E r \in ApiRun :
    \/ StartApiRun(r)
    \/ LoadDocuments(r)
    \/ CompareSnapshots(r)
    \/ TruncateSnapshot(r)
    \/ FillSnapshot(r)
    \/ ReportApiRun(r)
    \/ KillApiRun(r)

ApSpec == ApInit /\ [][ApNext]_apVars

-----------------------------------------------------------------------------

\* The runs a report of r rests on: the one it was compared with, the one that
\* one was compared with, and so on; the least set that goes back that far.
GoesBack(r, runs) ==
  /\ apiRun[r].against \in runs \cup {NoRun}
  /\ \A i \in runs : apiRun[i].against \in runs \cup {NoRun}

Lineage(r) == {i \in ApiRun : \A runs \in SUBSET ApiRun : GoesBack(r, runs) => i \in runs}

\* A client of endpoint e written against old still works against new.
KeepsServing(e, old, new) ==
  /\ e \in DOMAIN new
  /\ old[e].gives \subseteq new[e].gives
  /\ new[e].asks \subseteq old[e].asks

\* A run that looked with nobody beside it, after runs that all ended well.
Undisturbed(r) ==
  /\ r \notin apiOverlapped
  /\ \A i \in 1..(r - 1) : ApiReported(i) /\ i \notin apiOverlapped

Compared(r) == apiRun[r].stage \in {"truncate", "fill", "report", "done"} /\ apiRun[r].checks

\* The latest earlier run that has left a snapshot.
LatestBefore(r) ==
  LET left == {i \in 1..(r - 1) : Readable(apiRun[i].file)}
  IN  IF left = {} THEN NoRun ELSE CHOOSE i \in left : \A k \in left : k <= i

\* However long the chain of comparisons behind a run, whatever the documents
\* were in between (broken, absent, the other kind) and whichever runs the ids
\* selected: a promise that a run of the chain made and this one does not keep
\* was announced by a run of the chain after it, unless that run was killed
\* before it could report.
NoBreakIsSwallowed ==
  \A r \in ApiRun : ApiReported(r) =>
    \A i \in Lineage(r) : \A e \in DOMAIN apiRun[i].file :
      KeepsServing(e, apiRun[i].file, apiRun[r].current)
      \/ \E k \in (Lineage(r) \ ({i} \cup Lineage(i))) \cup {r} :
           apiRun[k].stage = "dead" \/ \E issue \in apiRun[k].issues : issue.at = e

\* With nobody beside it and no kill before it, a run that checks against the
\* default baseline compares as soon as there is anything to compare with, and
\* if the ids grow with time it compares with the latest snapshot.
BaselineIsFound ==
  \A r \in ApiRun :
    Undisturbed(r) /\ Compared(r) /\ apiRun[r].since = NoRun /\ apiRun[r].current # Missing =>
      /\ LatestBefore(r) # NoRun => apiRun[r].against # NoRun
      /\ (\A i, k \in 1..r : i < k => apiRun[i].id < apiRun[k].id)
           => apiRun[r].against = LatestBefore(r)

BreaksReachAReport == NoBreakIsSwallowed /\ BaselineIsFound

\* "The backward-compat check loads the *previous* snapshot ... (when
\* unspecified, the alphabetically last sibling run directory)",
\* backward_compat.py:4-6: with nobody beside it, the snapshot compared with is
\* the one the latest run has left.  The ids are random, so it is any run's.
ComparesWithPrevious ==
  \A r \in ApiRun :
    Undisturbed(r) /\ apiRun[r].since = NoRun /\ apiRun[r].against # NoRun
      => apiRun[r].against = LatestBefore(r)
=============================================================================
