---------------------------- MODULE TestPlanning ----------------------------
(***************************************************************************)
(* From a discovery graph to the specs on disk: the flows that "sentinel    *)
(* plan" derives from routes, forms, boundaries and endpoints, the flows a  *)
(* provider proposes on top, the plan file, and the specs that "sentinel    *)
(* generate" renders from that file or from the graph once more.            *)
(*                                                                         *)
(* engine/planner (core.py, flows.py, llm_adapter.py, llm_providers),      *)
(* plan_cmd.py and engine/generator/pipeline.py.  Two flows of one plan     *)
(* that tie in priority, risk and name are ordered by their random ids, and *)
(* the pipeline numbers the specs that share a name in that order.          *)
(***************************************************************************)
EXTENDS Naturals, FiniteSets, SequencesExt, FiniteSetsExt

CONSTANTS
  Address,         \* the paths of the target, numbered in sorted order
  Nothing,         \* None
  HintsAt,         \* the lists of path hints each path matches
  CollectionAt,    \* what is in front of a templated segment; Nothing if there is none
  DiscoveryGraph,  \* what discovery may hand over
  Proposals,       \* what a provider may answer: sequences of [name, target]
  MaxProposals,    \* planner.llm.max_proposals
  MaxGenerations   \* bound on the generations in one behaviour

ASSUME AddressesAreNumbered == Address \subseteq Nat /\ Nothing \notin Address
ASSUME BoundsAreNat == MaxProposals \in Nat /\ MaxGenerations \in Nat
ASSUME GraphsAreWhole ==
  \A g \in DiscoveryGraph :
    /\ g.routes \in Seq(Address) /\ IsInjective(g.routes)
    /\ g.guarded \subseteq ToSet(g.routes)
    /\ \A r \in DOMAIN g.score : g.score[r] \in Nat
    /\ DOMAIN g.forms = 1..Len(g.forms) /\ Len(g.forms) \in Nat
    /\ DOMAIN g.boundaries = 1..Len(g.boundaries) /\ Len(g.boundaries) \in Nat
    /\ DOMAIN g.endpoints = 1..Len(g.endpoints) /\ Len(g.endpoints) \in Nat
ASSUME AnswersAreLists ==
  \A p \in Proposals : DOMAIN p = 1..Len(p) /\ Len(p) \in Nat

VARIABLES
  tpGraph,     \* the discovery graph; of a form only its tested traits
  tpStage,     \* how far "sentinel plan" is
  tpFlows,     \* the flows the deterministic planner found
  tpAdded,     \* the flows a provider added, in the order of its answer
  tpNumber,    \* the number that each of several flows with one file name has in the plan
  tpFile,      \* plan.json: "none", "torn" or "whole"
  tpSpecs      \* what each "sentinel generate" rendered: [from, files]

tpVars == <<tpGraph, tpStage, tpFlows, tpAdded, tpNumber, tpFile, tpSpecs>>

PlanStage == {"plan", "llm", "truncate", "write", "over"}

TpTypeOK ==
  /\ tpGraph \in DiscoveryGraph
  /\ tpStage \in PlanStage
  /\ \A f \in tpFlows :
       /\ f.target \in Address \cup {Nothing} /\ f.priority \in 0..3 /\ f.sure \in 0..100
       /\ f.risk \in {"critical", "high", "medium", "low"}
  /\ Len(tpAdded) <= MaxProposals /\ DOMAIN tpAdded = 1..Len(tpAdded)
  /\ \A f \in DOMAIN tpNumber : f \in tpFlows /\ tpNumber[f] \in Nat \ {0}
  /\ tpFile \in {"none", "torn", "whole"}
  /\ DOMAIN tpSpecs \subseteq 1..MaxGenerations
  /\ \A i \in DOMAIN tpSpecs : tpSpecs[i].from \in {"plan", "graph"}

NothingPlanned ==
  /\ tpStage = "plan"
  /\ tpFlows = {} /\ tpAdded = <<>> /\ tpNumber = <<>>
  /\ tpFile = "none"
  /\ tpSpecs = <<>>

TpInit == tpGraph \in DiscoveryGraph /\ NothingPlanned

-----------------------------------------------------------------------------
\* What the rules look up in the graph.

Routes(g) == ToSet(g.routes)
Hinted(g, hints) == {r \in Routes(g) : HintsAt[r] \cap hints # {}}

\* bucketed_risk; a route without an entry in the risk map scores nothing.
RiskOf(g, r) ==
  LET score == IF r \in DOMAIN g.score THEN g.score[r] ELSE 0
  IN  IF score >= 80 THEN "critical" ELSE IF score >= 60 THEN "high"
      ELSE IF score >= 30 THEN "medium" ELSE "low"

PriorityFor(risk) == [critical |-> 0, high |-> 1, medium |-> 2, low |-> 3][risk]

Sensitive(r) == HintsAt[r] \cap {"login", "signup", "payment", "admin"} # {}

BasePriority_LoginOnly_Mutant(g, r) ==
  IF HintsAt[r] \cap {"login", "payment", "admin"} # {} THEN 0 ELSE PriorityFor(RiskOf(g, r))

BasePriority(g, r) == IF Sensitive(r) THEN 0 ELSE PriorityFor(RiskOf(g, r))

\* _role_for_route takes the first boundary of a route, a dictionary the last.
BoundariesAt(g, r) == {i \in DOMAIN g.boundaries : g.boundaries[i].route = r}
FirstRole(g, r) ==
  IF BoundariesAt(g, r) = {} THEN Nothing ELSE g.boundaries[Min(BoundariesAt(g, r))].role
LastRole(g, r) ==
  IF BoundariesAt(g, r) = {} THEN Nothing ELSE g.boundaries[Max(BoundariesAt(g, r))].role

\* _form_action_route
PostsTo(g, i) == IF g.forms[i].action \in Routes(g) THEN g.forms[i].action ELSE Nothing

FormAt_FirstRoute_Mutant(g, i) == Min(Routes(g))

\* _bucket_forms_by_route: a form that posts to no known route is tested on the
\* first route there is.
FormAt(g, i) == IF PostsTo(g, i) # Nothing THEN PostsTo(g, i) ELSE Min(Routes(g))

Flow(extractor, name, target, priority, risk, sure) ==
  [extractor |-> extractor, name |-> name, target |-> target, priority |-> priority,
   risk |-> risk, sure |-> sure, role |-> Nothing, tag |-> Nothing, of |-> Nothing]

-----------------------------------------------------------------------------
\* The rules of the planner's core.

SmokeFlows(g) ==
  {Flow("route.smoke", <<"smoke", r>>, r, BasePriority(g, r), RiskOf(g, r), 95) : r \in Routes(g)}

BoundaryFlows(g) ==
  {[Flow("route.auth_boundary", <<"auth-boundary", r>>, r, BasePriority(g, r), RiskOf(g, r), 95)
      EXCEPT !.role = FirstRole(g, r)] : r \in g.guarded}

FormFlows(g) ==
  IF Routes(g) = {} THEN {}
  ELSE {LET r == FormAt(g, i)
        IN  [Flow("form.submit", <<"submit form", r>>, r,
                  IF BasePriority(g, r) = 0 THEN 0 ELSE 1, RiskOf(g, r), 95)
               EXCEPT !.role = FirstRole(g, r), !.tag = <<"form", i>>, !.of = i] : i \in DOMAIN g.forms}

ApiFlows(g) ==
  {[Flow("api.contract", <<"api contract", i>>, Nothing, 1,
         IF g.endpoints[i] THEN "high" ELSE "medium", 95)
      EXCEPT !.tag = <<"endpoint", i>>] : i \in DOMAIN g.endpoints}

-----------------------------------------------------------------------------
\* The extractors of flows.py.

LoginFlows(g) ==
  LET forms == {i \in DOMAIN g.forms : {"email", "password"} \subseteq g.forms[i].fields}
      candidates == Hinted(g, {"login"})
      first == g.routes[Min({n \in DOMAIN g.routes : g.routes[n] \in candidates})]
      target(i) == IF PostsTo(g, i) # Nothing THEN PostsTo(g, i)
                   ELSE IF candidates = {} THEN Nothing ELSE first
      sure(i) == IF target(i) \in candidates THEN 95 ELSE 70
  IN  IF forms # {}
      THEN {[Flow("login", <<"login">>, target(i), 0, "critical", sure(i)) EXCEPT !.of = i]
              : i \in forms}
      ELSE {Flow("login", <<"login (route-only)">>, r, 1, "high", 45) : r \in candidates}

SignupFlows(g) ==
  {Flow("signup", <<"signup">>, r, 0, "critical", 90) : r \in Hinted(g, {"signup", "join"})}

LogoutFlows(g) == {Flow("logout", <<"logout">>, r, 1, "high", 90) : r \in Hinted(g, {"logout"})}

PasswordResetFlows(g) ==
  {Flow("password_reset", <<"password reset">>, r, 1, "high", 85) : r \in Hinted(g, {"reset"})}

CrudOf(g, c) ==
  LET first == Min({r \in Routes(g) : CollectionAt[r] = c})
      crud(verb, target, priority, risk) == Flow("crud", <<verb, c>>, target, priority, risk, 70)
  IN  {crud("create", IF c \in Routes(g) THEN c ELSE Nothing, 1, "medium"),
       crud("read", first, 2, "medium"), crud("update", first, 1, "high"),
       crud("delete", first, 1, "high")}

CrudFlows(g) == UNION {CrudOf(g, c) : c \in {CollectionAt[r] : r \in Routes(g)} \ {Nothing}}

SearchFlows(g) ==
  {Flow("search_filter_sort", <<"search", r>>, r, 2, "medium", 70) : r \in Hinted(g, {"search"})}

AdminFlows_AlwaysAdmin_Mutant(g) ==
  {[Flow("admin", <<"admin", r>>, r, 0, "critical", 85) EXCEPT !.role = "admin"]
     : r \in Hinted(g, {"admin"})}

AdminFlows(g) ==
  {[Flow("admin", <<"admin", r>>, r, 0, "critical", 85)
      EXCEPT !.role = IF LastRole(g, r) = Nothing THEN "admin" ELSE LastRole(g, r)]
     : r \in Hinted(g, {"admin"})}

RoleFlows(g) ==
  {LET b == g.boundaries[i]
   IN  [Flow("role", <<"role", b.role, b.route>>, b.route, 1, "high", 80)
          EXCEPT !.role = b.role, !.of = i]
     : i \in {k \in DOMAIN g.boundaries :
                g.boundaries[k].role # Nothing /\ g.boundaries[k].route \in Routes(g)}}

UploadFlows(g) ==
  {[Flow("file_upload_download", <<"file upload">>, PostsTo(g, i), 1, "high", 80) EXCEPT !.of = i]
     : i \in {k \in DOMAIN g.forms : "file" \in g.forms[k].fields}}
  \cup {Flow("file_upload_download", <<"file download", r>>, r, 2, "medium", 70)
          : r \in Hinted(g, {"download"})}

PaymentFlows(g) ==
  {Flow("payment_sandbox", <<"payment sandbox", r>>, r, 0, "critical",
        IF "provider" \in HintsAt[r] THEN 75 ELSE 65) : r \in Hinted(g, {"payment"})}

NotificationFlows(g) ==
  {Flow("notification", <<"notification", r>>, r, 2, "medium", 70) : r \in Hinted(g, {"callback"})}

\* run_extractors
ExtractedFlows(g) ==
  LoginFlows(g) \cup SignupFlows(g) \cup LogoutFlows(g) \cup PasswordResetFlows(g)
    \cup CrudFlows(g) \cup SearchFlows(g) \cup AdminFlows(g) \cup RoleFlows(g)
    \cup UploadFlows(g) \cup PaymentFlows(g) \cup NotificationFlows(g)

\* DeterministicPlanner.plan
PlanOf(g) ==
  SmokeFlows(g) \cup BoundaryFlows(g) \cup FormFlows(g) \cup ExtractedFlows(g) \cup ApiFlows(g)

-----------------------------------------------------------------------------
\* The specs of a plan.

FileName_NoIds_Mutant(f) == <<f.extractor, f.name>>

\* _spec_file_name: extractor, name, and the id of a form or an endpoint, which
\* comes from the graph.
FileName(f) == <<f.extractor, f.name, f.tag>>

Sharing(flows) == {f \in flows : \E g \in flows \ {f} : FileName(g) = FileName(f)}

\* Flows with one file name have one name, one priority and one risk: their
\* random ids order them, in any way.
Numberings(flows) ==
  LET mates(f) == {g \in Sharing(flows) : FileName(g) = FileName(f)}
  IN  {n \in [Sharing(flows) -> 1..Cardinality(Sharing(flows))] :
         \A f \in Sharing(flows) : {n[g] : g \in mates(f)} = 1..Cardinality(mates(f))}

Number(n, f) == IF f \in DOMAIN n THEN n[f] ELSE 1

\* The renderers: most open the flow's own route, or a fixed page if it has
\* none; four open a fixed page whatever the flow is about.
FixedPage ==
  [signup |-> "/signup", crud |-> "/records/new", payment_sandbox |-> "/checkout",
   file_upload_download |-> "/upload"]
Fallback(extractor) ==
  CASE extractor = "login" -> "/login"
    [] extractor \in {"logout", "password_reset"} -> "/dashboard"
    [] extractor \in {"admin", "role"} -> "/admin"
    [] OTHER -> "/"

Opens(f) ==
  IF f.extractor \in DOMAIN FixedPage THEN <<"fixed", FixedPage[f.extractor]>>
  ELSE IF f.extractor = "api.contract" THEN <<"endpoint", f.tag[2]>>
  ELSE IF f.target = Nothing THEN <<"fixed", Fallback(f.extractor)>> ELSE <<"route", f.target>>

\* What a spec says: where it goes, the role it wants and its canonical tags.
Render(f) ==
  [opens |-> Opens(f),
   role |-> IF f.extractor \in {"admin", "role"} /\ f.role = Nothing THEN "admin" ELSE f.role,
   tags |-> <<f.priority, f.extractor, f.risk, f.tag>>]

Files_Overwrite_Mutant(flows, added, number) ==
  LET all == flows \cup ToSet(added)
  IN  {[name |-> FileName(f), number |-> 1, text |-> Render(f)]
         : f \in {g \in all : g \notin DOMAIN number \/ number[g] = 1}}

\* GeneratorPipeline.generate: the first spec of a name has no number.  The
\* flows of a provider come last, in the order of its answer.
Files(flows, added, number) ==
  {[name |-> FileName(f), number |-> Number(number, f), text |-> Render(f)] : f \in flows}
  \cup {[name |-> FileName(added[i]), text |-> Render(added[i]),
         number |-> Cardinality({k \in 1..i : FileName(added[k]) = FileName(added[i])})]
          : i \in DOMAIN added}

-----------------------------------------------------------------------------
\* sentinel plan

MakePlan ==
  /\ tpStage = "plan"
  /\ tpFlows' = PlanOf(tpGraph)
  /\ tpNumber' \in Numberings(PlanOf(tpGraph))
  /\ tpStage' = "llm"
  /\ UNCHANGED <<tpGraph, tpAdded, tpFile, tpSpecs>>

\* The adapter is off, its estimate is over the budget, or the answer is
\* malformed: the plan stays as it is.
GoWithoutProvider ==
  /\ tpStage = "llm"
  /\ tpStage' = "truncate"
  /\ UNCHANGED <<tpGraph, tpFlows, tpAdded, tpNumber, tpFile, tpSpecs>>

\* A missing key, a refused or timed-out request: the command ends.
ProviderRaises ==
  /\ tpStage = "llm"
  /\ tpStage' = "over"
  /\ UNCHANGED <<tpGraph, tpFlows, tpAdded, tpNumber, tpFile, tpSpecs>>

FromProvider(proposal) ==
  Flow("llm", proposal.name, proposal.target, 2, "medium", 50)

Accepted_AnyTarget_Mutant(proposals) ==
  {i \in DOMAIN proposals : proposals[i].name \notin {f.name : f \in tpFlows}}

\* proposals_to_flows drops what has the name of a planned flow and what is
\* about a route nobody discovered.
Accepted(proposals) ==
  {i \in DOMAIN proposals :
     /\ proposals[i].name \notin {f.name : f \in tpFlows}
     /\ proposals[i].target \in Routes(tpGraph) \cup {Nothing}}

\* The k-th of a set of positions.
Nth(positions, k) == CHOOSE i \in positions : Cardinality({j \in positions : j <= i}) = k

AddProposals ==
  /\ tpStage = "llm"
  /\ \E proposals \in Proposals :
       LET kept == Accepted(proposals)
       IN  tpAdded' = [k \in 1..Min({Cardinality(kept), MaxProposals}) |->
                         FromProvider(proposals[Nth(kept, k)])]
  /\ tpStage' = "truncate"
  /\ UNCHANGED <<tpGraph, tpFlows, tpNumber, tpFile, tpSpecs>>

TruncatePlan ==
  /\ tpStage = "truncate"
  /\ tpFile' = "torn"
  /\ tpStage' = "write"
  /\ UNCHANGED <<tpGraph, tpFlows, tpAdded, tpNumber, tpSpecs>>

WritePlan ==
  /\ tpStage = "write"
  /\ tpFile' = "whole"
  /\ tpStage' = "over"
  /\ UNCHANGED <<tpGraph, tpFlows, tpAdded, tpNumber, tpSpecs>>

KillPlan ==
  /\ tpStage \in {"plan", "llm", "truncate", "write"}
  /\ tpStage' = "over"
  /\ UNCHANGED <<tpGraph, tpFlows, tpAdded, tpNumber, tpFile, tpSpecs>>

-----------------------------------------------------------------------------
\* sentinel generate

\* --from-plan: a torn file raises.
GenerateFromPlan ==
  /\ tpFile = "whole" /\ tpStage = "over" /\ Len(tpSpecs) < MaxGenerations
  /\ tpSpecs' = Append(tpSpecs, [from |-> "plan", files |-> Files(tpFlows, tpAdded, tpNumber)])
  /\ UNCHANGED <<tpGraph, tpStage, tpFlows, tpAdded, tpNumber, tpFile>>

\* Otherwise the graph is planned again, under new ids and without a provider.
GenerateFromGraph ==
  /\ tpStage = "over" /\ Len(tpSpecs) < MaxGenerations
  /\ \E number \in Numberings(PlanOf(tpGraph)) :
       tpSpecs' = Append(tpSpecs, [from |-> "graph", files |-> Files(PlanOf(tpGraph), <<>>, number)])
  /\ UNCHANGED <<tpGraph, tpStage, tpFlows, tpAdded, tpNumber, tpFile>>

TpNext ==
  \/ MakePlan \/ GoWithoutProvider \/ ProviderRaises \/ AddProposals
  \/ TruncatePlan \/ WritePlan \/ KillPlan
  \/ GenerateFromPlan \/ GenerateFromGraph

TpSpec == TpInit /\ [][TpNext]_tpVars

-----------------------------------------------------------------------------
\* Where there are routes, every form is submitted on the route it posts to if
\* that is known, and on a known route in any case; no deterministic flow and
\* no proposal leads to a route that was not discovered.
PlanStaysInTheGraph ==
  /\ \A f \in tpFlows \cup ToSet(tpAdded) : f.target \in Routes(tpGraph) \cup {Nothing}
  /\ tpFlows # {} /\ Routes(tpGraph) # {} => \A i \in DOMAIN tpGraph.forms :
       \E f \in tpFlows :
         /\ f.extractor = "form.submit" /\ f.of = i /\ f.target # Nothing
         /\ tpGraph.forms[i].action \in Routes(tpGraph) => f.target = tpGraph.forms[i].action

\* The two tables of hints agree: a route that a flow of top priority signs up,
\* pays or administers on is smoke-tested with top priority too.  The hint
\* "/join" is in one of them only, so a route that matches no other hint of a
\* signup is left out.
SensitiveComesFirst ==
  \A f, s \in tpFlows :
    /\ f.extractor \in {"signup", "payment_sandbox", "admin"}
    /\ s.extractor = "route.smoke" /\ s.target = f.target
    /\ f.extractor = "signup" => "signup" \in HintsAt[f.target]
    => s.priority = 0

\* The flows about one route want one role, unless it has several boundaries.
RolesAgree ==
  \A f, g \in {x \in tpFlows :
                 x.extractor \in {"route.auth_boundary", "form.submit", "admin", "role"}} :
    /\ f.target = g.target /\ Cardinality(BoundariesAt(tpGraph, f.target)) = 1
    /\ FirstRole(tpGraph, f.target) # Nothing
    => f.role = g.role

\* No spec overwrites another: a generation has one for every flow it was given.
NoSpecIsLost ==
  \A i \in DOMAIN tpSpecs :
    LET files == tpSpecs[i].files
        given == IF tpSpecs[i].from = "plan" THEN Cardinality(tpFlows) + Len(tpAdded)
                 ELSE Cardinality(PlanOf(tpGraph))
    IN  /\ Cardinality(files) = given
        /\ \A x, y \in files : x.name = y.name /\ x.number = y.number => x = y

\* Generating again gives the same files: all of them from the same plan file,
\* and, from the same graph, all but those of several logins, signups, logouts,
\* resets, uploads or boundaries, which the random ids number.
UnstableExtractors ==
  {"login", "signup", "logout", "password_reset", "file_upload_download", "role"}

RerunsAgree ==
  \A i, j \in DOMAIN tpSpecs :
    tpSpecs[i].from = tpSpecs[j].from =>
      IF tpSpecs[i].from = "plan" THEN tpSpecs[i].files = tpSpecs[j].files
      ELSE LET stable(k) == {x \in tpSpecs[k].files : x.name[1] \notin UnstableExtractors}
               names(k) == {<<x.name, x.number>> : x \in tpSpecs[k].files}
           IN  stable(i) = stable(j) /\ names(i) = names(j)

\* What discovery found is carried into specs: tested where it is, first where
\* it matters, as one role, without loss, and the same way every time.
PlanIsCarriedOut ==
  PlanStaysInTheGraph /\ SensitiveComesFirst /\ RolesAgree /\ NoSpecIsLost /\ RerunsAgree
=============================================================================
