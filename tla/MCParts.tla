------------------------------- MODULE MCParts -------------------------------
(***************************************************************************)
(* What single modules and commands keep on disk between runs, or conclude *)
(* from what they read, checked in one run: the snapshots of the api       *)
(* module, the vault of sessions, the baselines of pictures, the verdict   *)
(* of the supply-chain audit, the trail the compliance module judges, and  *)
(* the audits of a browser, of a target that comes and goes, and of        *)
(* evidence others are still writing, the way from a discovery graph to    *)
(* specs, and the answers of the server coding agents call.  They share    *)
(* nothing; the run chooses one at the start and the others stay as they   *)
(* begin.                                                                  *)
(***************************************************************************)
EXTENDS ApiSnapshots, AuthVault, VisualBaselines, SupplyChain, AuditTrail,
        BrowserAudit, SecurityAudit, EvidenceAudit, TestPlanning, AgentServer

MCOpenApi == {
  "a" :> [asks |-> {}, gives |-> {"x"}, type |-> ("x" :> "int")],
  "a" :> [asks |-> {"q"}, gives |-> {"x"}, type |-> ("x" :> "int")],
  ("a" :> [asks |-> {}, gives |-> {}, type |-> ("x" :> "str")])
    @@ ("b" :> [asks |-> {}, gives |-> {}, type |-> <<>>]) }
MCGraphql == {"g" :> [asks |-> {}, gives |-> {"y"}, type |-> <<>>]}

MCVuln == {[id |-> 1, severity |-> "low"], [id |-> 2, severity |-> "critical"]}

\* Two routes with one slug, and one with the slug of the index.
MCRoute == {"/a/b", "/a-b", "/index"}
MCSlug == [r \in MCRoute |-> IF r = "/index" THEN "index" ELSE "a-b"]
MCRequest == {<<>>, <<"/index">>, <<"/a-b", "/a/b">>}

MCRouteLists == {<<>>, <<"p1">>, <<"p1", "p2">>}
MCSelections == {{}, {"headers", "xss_stored"}, {"headers", "sqli", "sast"},
                 {"xss_stored", "dependency_scan"}}

MCCategoryOf == [s1 |-> "network", s2 |-> "session"]
MCEvent ==
  {[scenario |-> "s1", category |-> "network", flow |-> "f1", severity |-> "high"],
   [scenario |-> "s2", category |-> "session", flow |-> "f2", severity |-> "medium"],
   [scenario |-> "s3", category |-> "ux", flow |-> "f1", severity |-> "high"],
   [scenario |-> "s1", category |-> "data", flow |-> "f1", severity |-> "none"]}
MCChoice ==
  [categories : {{}, {"network"}, {"network", "session"}}, configured : {{}, {"s2", "s3"}},
   requested : {{}, {"s1"}, {"s3"}}, flows : {{}, {"f1"}}]
MCRequested == {{"fake_routes"}, {"forms_no_submit", "hardcoded_creds"}}

MCAddress == 1..13
\* The paths of a target in sorted order, each with the hints it matches.
MCHintsAt ==
  <<{"admin"}, {"payment"}, {}, {}, {}, {"join"}, {"login"}, {"logout"},
    {"reset", "callback"}, {"search"}, {"signup"}, {}, {"download"}>>
\* 5 is a record of the collection 4, 13 one of 12.
MCCollectionAt == [a \in 1..13 |-> CASE a = 5 -> 4 [] a = 13 -> 12 [] OTHER -> Nothing]

MCRouteSeq ==
  {l \in {<<>>} \cup {<<r>> : r \in 1..13} \cup {<<r, s>> : r \in 1..13, s \in {1, 3, 4, 6, 7}} :
     IsInjective(l)}
Plain(l) ==
  [routes |-> l, guarded |-> {}, score |-> <<>>, forms |-> <<>>, endpoints |-> <<>>,
   boundaries |-> <<>>]
MCForm ==
  {[action |-> a, fields |-> f] : a \in {3, 7, Nothing}, f \in {{}, {"email", "password"}, {"file"}}}
MCBoundary == {[route |-> r, role |-> x] : r \in {1, 3, 8}, x \in {Nothing, "editor", "owner"}}
MCDiscoveryGraph ==
  UNION {{Plain(l), [Plain(l) EXCEPT !.guarded = ToSet(l), !.score = [r \in ToSet(l) |-> 79]],
          [Plain(l) EXCEPT !.score = [r \in ToSet(l) |-> 80], !.endpoints = <<TRUE, FALSE>>]}
           : l \in MCRouteSeq}
  \cup {[Plain(l) EXCEPT !.forms = f] :
          l \in {<<>>, <<2>>, <<3>>, <<7, 3>>, <<8, 7, 3>>}, f \in SeqOf(MCForm, 2)}
  \cup {[Plain(<<1, 3>>) EXCEPT !.guarded = {1}, !.boundaries = b] : b \in SeqOf(MCBoundary, 2)}
MCProposals ==
  {<<[name |-> <<"smoke", 3>>, target |-> 3], [name |-> <<"buy">>, target |-> 3],
     [name |-> <<"buy">>, target |-> Nothing], [name |-> <<"pay">>, target |-> 2]>>}

MCModuleOf == [f1 |-> "functional", f2 |-> "security"]

VARIABLE component

auditVars == <<baVars, saVars, evVars>>
partsVars == <<component, apVars, auVars, vbVars, scVars, atVars, auditVars, tpVars, asVars>>

\* The variables of a component that was not chosen: one fixed beginning.
SupplyRest == ScInit /\ checks = {} /\ lock = [l \in Lockfile |-> {}] /\ damaged = {}

BrowserRest == BaInit /\ baKind = "performance"
SecurityRest ==
  saEnabled = <<>> /\ saRoutes = <<>> /\ saGranted = {} /\ saUp = TRUE /\ SaInit
EvidenceRest ==
  /\ EvInit /\ evKind = "llm_audit" /\ evChoice = {"fake_routes"}
  /\ evInputs = [f \in ToSet(Inputs) |-> "absent"]
AuditsRest == BrowserRest /\ SecurityRest /\ EvidenceRest
ServerRest == AsInit /\ asTree = <<>>
PlanningRest == tpGraph = Plain(<<>>) /\ NothingPlanned
StoresRest == ApInit /\ AuInit /\ VbInit /\ SupplyRest /\ AtInit /\ ServerRest

\* Up to names, and to what no check can read: the files are read for all they
\* name together, so no two name the same and the first file names more; only
\* that one may be damaged, and then nothing tells what it names.
OneDamaged ==
  LET l == CHOOSE x \in Lockfile : TRUE
  IN  /\ damaged \subseteq {l}
      /\ IF l \in damaged THEN lock[l] = Component
         ELSE /\ \A x, y \in Lockfile : x # y => lock[x] \cap lock[y] = {}
              /\ \A x \in Lockfile : Cardinality(lock[x]) <= Cardinality(lock[l])

\* Up to names: the same process accepts first, and the first picture that is
\* seen is always the same.
FirstAccepter ==
  LET first == CHOOSE a \in Accepter : TRUE
  IN  accepts = 0 => accepter'[first].stage = "copy" \/ accepter' = accepter
FirstPicture ==
  LET first == CHOOSE p \in Picture : TRUE
      nothingSeen == /\ baseline = NoRows /\ pngTmp = NoRows
                     /\ \A d \in Differ : \A s \in DOMAIN differ[d].shown : differ[d].shown[s] = Blank
      fromFirst(pictures) == \A s \in DOMAIN pictures : pictures[s] \in {Blank, first}
  IN  nothingSeen => fromFirst(pngTmp') /\ \A d \in Differ : fromFirst(differ'[d].shown)

\* Up to the names of the faults and their modules, and of the connections: of
\* two idle ones the same one calls first.
FirstFault ==
  LET first == CHOOSE f \in Fault : TRUE
  IN  asTree # <<>> => /\ first \in DOMAIN asTree
                       /\ \A f \in DOMAIN asTree : asTree[f] = "high" => asTree[first] = "high"
FirstCaller ==
  LET first == CHOOSE c \in Connection : TRUE
  IN  (\A c \in Connection : asCall[c] = Nobody) =>
        \A c \in Connection \ {first} : asCall'[c] = Nobody

\* No acceptance reads what a comparison does, so what follows the end of one,
\* or one that overlapped an acceptance and of which nothing is claimed, is
\* what would have happened without it.
StillOpen == \A d \in Differ : differ[d].stage # "done" /\ ~differ[d].met

PartsInit ==
  \/ /\ component \in {"api", "vault", "visual", "trail"}
     /\ StoresRest /\ AuditsRest /\ PlanningRest
  \/ /\ component = "supply" /\ ScInit /\ OneDamaged
     /\ ApInit /\ AuInit /\ VbInit /\ AtInit /\ ServerRest /\ AuditsRest /\ PlanningRest
  \/ component = "browser" /\ BaInit /\ StoresRest /\ SecurityRest /\ EvidenceRest /\ PlanningRest
  \/ component = "security" /\ SaInit /\ StoresRest /\ BrowserRest /\ EvidenceRest /\ PlanningRest
  \/ component = "evidence" /\ EvInit /\ StoresRest /\ BrowserRest /\ SecurityRest /\ PlanningRest
  \/ component = "planning" /\ TpInit /\ StoresRest /\ AuditsRest
  \/ /\ component = "server" /\ AsInit /\ FirstFault /\ ApInit /\ AuInit /\ VbInit /\ SupplyRest /\ AtInit
     /\ AuditsRest /\ PlanningRest

PartsNext ==
  \/ component = "api" /\ ApNext
     /\ UNCHANGED <<component, auVars, vbVars, scVars, atVars, auditVars, tpVars, asVars>>
  \/ component = "vault" /\ AuNext
     /\ UNCHANGED <<component, apVars, vbVars, scVars, atVars, auditVars, tpVars, asVars>>
  \/ component = "visual" /\ VbNext /\ StillOpen /\ FirstAccepter /\ FirstPicture
     /\ UNCHANGED <<component, apVars, auVars, scVars, atVars, auditVars, tpVars, asVars>>
  \/ component = "supply" /\ ScNext
     /\ UNCHANGED <<component, apVars, auVars, vbVars, atVars, auditVars, tpVars, asVars>>
  \/ component = "trail" /\ AtNext
     /\ UNCHANGED <<component, apVars, auVars, vbVars, scVars, auditVars, tpVars, asVars>>
  \/ component = "browser" /\ BaNext
     /\ UNCHANGED <<component, apVars, auVars, vbVars, scVars, atVars, saVars, evVars, tpVars, asVars>>
  \/ component = "security" /\ SaNext
     /\ UNCHANGED <<component, apVars, auVars, vbVars, scVars, atVars, baVars, evVars, tpVars, asVars>>
  \/ component = "evidence" /\ EvNext
     /\ UNCHANGED <<component, apVars, auVars, vbVars, scVars, atVars, baVars, saVars, tpVars, asVars>>
  \/ component = "planning" /\ TpNext
     /\ UNCHANGED <<component, apVars, auVars, vbVars, scVars, atVars, auditVars, asVars>>
  \/ component = "server" /\ AsNext /\ FirstCaller
     /\ UNCHANGED <<component, apVars, auVars, vbVars, scVars, atVars, auditVars, tpVars>>

PartsSpec == PartsInit /\ [][PartsNext]_partsVars

\* The names of entries and processes are interchangeable.
PartsSymmetry == Permutations(Entry) \cup Permutations(Visitor)

\* Every variable of the component that is checked has its type; the others
\* keep their first value.
PartsTypeOK ==
  /\ component = "api" => ApTypeOK
  /\ component = "vault" => AuTypeOK
  /\ component = "visual" => VbTypeOK
  /\ component = "supply" => ScTypeOK
  /\ component = "trail" => AtTypeOK
  /\ component = "browser" => BaTypeOK
  /\ component = "security" => SaTypeOK
  /\ component = "evidence" => EvTypeOK
  /\ component = "planning" => TpTypeOK
  /\ component = "server" => AsTypeOK

\* The verdict of an audit module follows from what it saw, and its evidence
\* shows it: whatever breaks half-way, is lost, comes late or is half-written
\* (the properties of the four audits).
AuditsAreEarned ==
  /\ SupplyVerdictIsEarned
  /\ BrowserVerdictIsEarned /\ SecurityVerdictIsEarned /\ EvidenceVerdictIsEarned

\* What a run sees and the run before did not is told to whoever asks: a broken
\* promise of an API by the reports, and the effect of a fix by the server.
ChangesAreReported == BreaksReachAReport /\ AnswersAreHonest
=============================================================================
