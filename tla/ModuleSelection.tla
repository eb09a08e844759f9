-------------------------- MODULE ModuleSelection --------------------------
(***************************************************************************)
(* What an audit is about, when a git diff decides it.  `sentinel ci`      *)
(* starts from the preset of a mode (engine/ci/modes.py) and merges a diff *)
(* into it (engine/ci/diff_aware.py, ci_cmd.py).  `sentinel audit          *)
(* --changed-only` lists the changed files with three git commands         *)
(* (engine/orchestrator/changed_modules.py) in a repository that its       *)
(* developer goes on working in.                                           *)
(***************************************************************************)
EXTENDS Naturals, Sequences, FiniteSets

CONSTANTS File,
          MaxChanged,   \* DEFAULT_MAX_CHANGED_FILES
          GrepLimit,    \* alternatives the runner accepts in one --grep
          Configs,      \* the sets of modules a config may enable
          Suite         \* the generated specs: [title, priority, module]

ASSUME SelectionAssumption == IsFiniteSet(File) /\ MaxChanged \in Nat /\ GrepLimit \in Nat

(* Files, one of each kind the patterns tell apart: package.json,          *)
(* sentinel.config.yaml, pages/a.tsx, pages/api/a.ts, openapi.yaml,        *)
(* tests/sentinel/a.spec.ts, lib/a.svelte, server/a.py, README.md.         *)
Kind == {"manifest", "settings", "page", "handler", "schema", "spec", "component", "backend", "prose"}

Optional == {"functional", "api", "accessibility", "performance", "visual", "security",
             "chaos", "llm_audit"}
WithFactory == Optional \cup {"supply_chain", "compliance"}
AllModules == {"functional", "a11y", "perf", "security", "api", "visual", "chaos",
               "llm_audit", "supply_chain"}
Misnamed == AllModules \ WithFactory
ASSUME ConfigsEnable == \A c \in Configs : c \subseteq Optional

Interface == {"functional", "a11y", "visual", "perf", "chaos", "llm_audit"}

\* _GLOBAL_INVALIDATORS and _MODULE_PATTERNS.
Impacts ==
  [manifest |-> AllModules, settings |-> AllModules,
   page |-> Interface \cup {"security"}, handler |-> Interface \cup {"security", "api"},
   schema |-> {"api"}, spec |-> Interface \cup {"security"}, component |-> Interface,
   backend |-> {"api", "security", "llm_audit"}, prose |-> {}]

VARIABLES
  kind,      \* of each file
  repo,      \* each file against the base: ahead (HEAD), staged (index), dirty, untracked
  step,      \* where the command is
  found,     \* the files that the git commands have named
  touched,   \* history: the files that changed state since the listing began
  asked,     \* --modules, or NotAsked
  outcome    \* the modules, specs and floor of the run, with what was asked

selectionVars == <<kind, repo, step, found, touched, asked, outcome>>

NoUser == "none"
NotAsked == AllModules \cup WithFactory   \* no --modules
NoOutcome == [modules |-> {}]
Clean == [ahead |-> FALSE, staged |-> FALSE, dirty |-> FALSE, untracked |-> FALSE]

SelectionTypeOK ==
  /\ kind \in [File -> Kind]
  /\ repo \in [File -> [ahead : BOOLEAN, staged : BOOLEAN, dirty : BOOLEAN, untracked : BOOLEAN]]
  /\ \A f \in File : repo[f].untracked => repo[f] = [Clean EXCEPT !.untracked = TRUE]
  /\ step \in {"idle", "head", "work", "others", "chosen", "ci"}
  /\ found \subseteq File /\ touched \subseteq File
  /\ outcome.modules \subseteq AllModules \cup WithFactory

SelectionInit ==
  /\ kind \in [File -> Kind]
  /\ repo \in [File -> {Clean, [Clean EXCEPT !.ahead = TRUE]}]
  /\ step = "idle" /\ found = {} /\ touched = {}
  /\ asked = NotAsked /\ outcome = NoOutcome

----------------------------------------------------------------------------
(* The developer.                                                          *)
Listing == step \in {"head", "work", "others"}

Change(f, state) ==
  /\ step = "idle" \/ Listing
  /\ repo[f] # state
  /\ repo' = [repo EXCEPT ![f] = state]
  /\ touched' = IF Listing THEN touched \cup {f} ELSE {}
  /\ UNCHANGED <<kind, step, found, asked, outcome>>

Edit(f) == ~repo[f].untracked /\ Change(f, [repo[f] EXCEPT !.dirty = TRUE])
Create(f) == repo[f] = Clean /\ Change(f, [Clean EXCEPT !.untracked = TRUE])
Checkout(f) == Change(f, [repo[f] EXCEPT !.dirty = FALSE])
GitAdd(f) ==
  /\ repo[f].dirty \/ repo[f].untracked
  /\ Change(f, [repo[f] EXCEPT !.dirty = FALSE, !.untracked = FALSE, !.staged = TRUE])
GitCommit(f) ==
  repo[f].staged /\ Change(f, [repo[f] EXCEPT !.staged = FALSE, !.ahead = TRUE])

----------------------------------------------------------------------------
(* sentinel audit --changed-only                                           *)
Start(modules) ==
  /\ step = "idle" /\ step' = "head"
  /\ asked' = modules
  /\ found' = {} /\ touched' = {} /\ UNCHANGED <<kind, repo, outcome>>

Git(from, to, files) ==
  /\ step = from /\ step' = to
  /\ found' = found \cup files
  /\ UNCHANGED <<kind, repo, touched, asked, outcome>>

DiffHead == Git("head", "work", {f \in File : repo[f].ahead})
DiffWork == Git("work", "others", {f \in File : repo[f].dirty})

Impacted_Intersects_Mutant(files) == {m \in AllModules : \A f \in files : m \in Impacts[kind[f]]}

\* impacted_modules().
Impacted(files) == UNION {Impacts[kind[f]] : f \in files}

Others_Tracked_Mutant ==
  /\ step = "others" /\ step' = "chosen"
  /\ outcome' = [modules |-> Impacted(found) \cap asked]
  /\ UNCHANGED <<kind, repo, found, touched, asked>>

\* The third command, then select_modules(): nothing is audited if no
\* module is left, and a name without a factory is skipped by the lifecycle.
Others ==
  LET files == found \cup {f \in File : repo[f].untracked}
  IN /\ step = "others" /\ step' = "chosen"
     /\ found' = files
     /\ outcome' = [modules |-> Impacted(files) \cap asked]
     /\ UNCHANGED <<kind, repo, touched, asked>>

Ran == outcome.modules \cap WithFactory

----------------------------------------------------------------------------
(* sentinel ci                                                             *)
Mode == {"fast", "standard", "full", "nightly", "release"}

Preset(mode) == IF mode = "fast" THEN {"functional", "security"}
                ELSE {"functional", "security", "accessibility"}
Forced(mode) == IF mode \in {"nightly", "release"} THEN {"chaos"} ELSE {}

PlanModules_Unfiltered_Mutant(mode, enabled) ==
  IF mode \in {"fast", "standard"} THEN Preset(mode) ELSE enabled \cup Forced(mode)

\* mode_plan(); an empty list is no list, and the lifecycle then takes what
\* the config enables.
PlanModules(mode, enabled) ==
  IF mode \in {"fast", "standard"} /\ Preset(mode) \cap enabled # {}
  THEN Preset(mode) \cap enabled ELSE enabled \cup Forced(mode)

EffectiveFloor_ModeWins_Mutant(mode, floor, failUnder) ==
  IF mode = "release" /\ floor < 90 THEN 90 ELSE IF failUnder # 0 THEN failUnder ELSE floor

\* apply_mode(); failUnder is 0 if it was not given.
EffectiveFloor(mode, floor, failUnder) ==
  IF failUnder # 0 THEN failUnder
  ELSE IF mode = "release" /\ floor < 90 THEN 90 ELSE floor

\* select_from_files(): a diff that is not worth a selection.
Broad(files) ==
  Cardinality(files) > MaxChanged \/ \E f \in files : kind[f] = "manifest"

\* A --grep: the tags it names that a spec can carry, and its number of
\* alternatives; no alternative is no filter.  No generated spec carries the
\* @route: and @endpoint: tags of a diff (_canonical_tag_set).
NoGrep == [tags |-> {}, length |-> 0]

ModeGrep(mode) ==
  CASE mode = "fast" -> [tags |-> {"@p0"}, length |-> 1]
    [] mode = "standard" -> [tags |-> {"@p0", "@p1"}, length |-> 2]
    [] OTHER -> NoGrep

DiffGrep_NoSmoke_Mutant(files) ==
  LET of(kinds) == {f \in files : kind[f] \in kinds}
      tags == (IF of({"page", "handler", "schema", "spec"}) # {} THEN {"@p1"} ELSE {})
              \cup (IF of({"schema"}) # {} THEN {"@module:api"} ELSE {})
  IN IF Broad(files) THEN NoGrep
     ELSE [tags |-> tags,
           length |-> Cardinality(tags) + Cardinality(of({"page", "handler"})) + Cardinality(of({"handler"}))]

\* DiffSelection.grep(): the smoke tag is always there.
DiffGrep(files) ==
  LET of(kinds) == {f \in files : kind[f] \in kinds}
      tags == {"@p0"}
              \cup (IF of({"page", "handler", "schema", "spec"}) # {} THEN {"@p1"} ELSE {})
              \cup (IF of({"schema"}) # {} THEN {"@module:api"} ELSE {})
  IN IF Broad(files) THEN NoGrep
     ELSE [tags |-> tags,
           length |-> Cardinality(tags) + Cardinality(of({"page", "handler"})) + Cardinality(of({"handler"}))]

OrGrep_DiffWins_Mutant(a, b) == IF b.length > 0 THEN b ELSE a

\* _or_grep().
OrGrep(a, b) == [tags |-> a.tags \cup b.tags, length |-> a.length + b.length]

\* What Playwright matches against: the title, then the tags in the order the
\* generator writes them.
Text(spec) == <<spec.title, spec.priority, spec.module>>

\* _combine_grep(): "(grep).*user", so what the user asks for must come after
\* the tag of the mode.
Matches(spec, grep, user) ==
  LET text == Text(spec)
      byUser == {i \in DOMAIN text : text[i] = user}
      byTag == {i \in DOMAIN text : text[i] \in grep.tags}
  IN IF user = NoUser THEN grep.length = 0 \/ byTag # {}
     ELSE IF grep.length = 0 THEN byUser # {}
     ELSE \E i \in byTag, j \in byUser : i < j

\* One invocation; files is what the diff names, or Undiffed.
CiOutcome(mode, enabled, floor, failUnder, user, withDiff, files) ==
  LET diff == IF withDiff THEN DiffGrep(files) ELSE NoGrep
      grep == OrGrep(ModeGrep(mode), diff)
      modules == IF withDiff /\ Broad(files) THEN enabled ELSE PlanModules(mode, enabled)
      accepted == grep.length <= GrepLimit   \* the schema of the runner's config
  IN [mode |-> mode, enabled |-> enabled, floor |-> EffectiveFloor(mode, floor, failUnder),
      failUnder |-> failUnder, user |-> user, withDiff |-> withDiff,
      broad |-> withDiff /\ Broad(files), accepted |-> accepted, modules |-> modules,
      specs |-> IF "functional" \in modules /\ accepted
                THEN {s \in Suite : Matches(s, grep, user)} ELSE {}]

\* sentinel ci, in a checkout that nobody works in.
Ci(mode, enabled, floor, failUnder, user, withDiff) ==
  /\ step = "idle" /\ step' = "ci"
  /\ \A f \in File : repo[f] \in {Clean, [Clean EXCEPT !.ahead = TRUE]}
  /\ outcome' = CiOutcome(mode, enabled, floor, failUnder, user, withDiff,
                          {f \in File : repo[f].ahead})
  /\ UNCHANGED <<kind, repo, found, touched, asked>>

SelectionNext ==
  \/ \E f \in File : Edit(f) \/ Create(f) \/ Checkout(f) \/ GitAdd(f) \/ GitCommit(f)
  \/ \E modules \in {NotAsked, {"functional", "accessibility"}} : Start(modules)
  \/ DiffHead \/ DiffWork \/ Others
  \/ \E mode \in Mode, enabled \in Configs, floor \in {85, 95}, failUnder \in {0, 70},
        user \in {NoUser, "@p1", "checkout"}, withDiff \in BOOLEAN :
       Ci(mode, enabled, floor, failUnder, user, withDiff)

SelectionSpec == SelectionInit /\ [][SelectionNext]_selectionVars

----------------------------------------------------------------------------
Differs(f) == repo[f].ahead \/ repo[f].staged \/ repo[f].dirty \/ repo[f].untracked
OnlyStaged(f) == repo[f].staged /\ ~repo[f].ahead /\ ~repo[f].dirty

(* A file that differs from the base, and that nobody touched between the  *)
(* first git command and the last, is considered, and the modules it       *)
(* impacts are audited; nothing is audited on account of files that did    *)
(* not differ.  Left out are files that are staged and not committed,      *)
(* which none of the three commands names, and the two modules whose names *)
(* the lifecycle does not know (changed_files_against, ALL_MODULES).       *)
ChangesAreAudited ==
  step = "chosen" =>
    /\ \A f \in File \ touched :
         Differs(f) /\ ~OnlyStaged(f) =>
           f \in found /\ (Impacts[kind[f]] \ Misnamed) \cap asked \subseteq Ran
    /\ found \subseteq {f \in File : Differs(f)} \cup touched
    /\ \A m \in Ran : \E f \in found : m \in Impacts[kind[f]]

WithoutDiff ==
  CiOutcome(outcome.mode, outcome.enabled, outcome.floor, outcome.failUnder, outcome.user, FALSE, {})
WithoutUser ==
  CiOutcome(outcome.mode, outcome.enabled, outcome.floor, outcome.failUnder, NoUser,
            outcome.withDiff, {f \in File : repo[f].ahead})

(* However mode, config, diff and filters are combined, sentinel ci runs   *)
(* no module that the config turns off, except the chaos a mode forces on; *)
(* the floor of a release is 90 at least unless the user says otherwise;   *)
(* the smoke specs run unless the user filters them; a diff only adds to   *)
(* the two modes that slice by priority; and a user's filter only removes. *)
(* (A filter longer than the runner accepts stops the functional module.)  *)
CiKeepsGates ==
  step = "ci" =>
    /\ outcome.modules \subseteq outcome.enabled \cup Forced(outcome.mode)
    /\ outcome.mode = "release" /\ outcome.failUnder = 0 => outcome.floor >= 90
    /\ outcome.failUnder # 0 => outcome.floor = outcome.failUnder
    /\ outcome.accepted =>
         /\ "functional" \in outcome.modules /\ outcome.user = NoUser =>
              {s \in Suite : s.priority = "@p0"} \subseteq outcome.specs
         /\ outcome.mode \in {"fast", "standard"} =>
              /\ WithoutDiff.specs \subseteq outcome.specs
              /\ WithoutDiff.modules \subseteq outcome.modules
         /\ outcome.specs \subseteq WithoutUser.specs

(* Neither a repository that moves under the listing nor the combination   *)
(* of mode, config, diff and filters loses what has to be audited.         *)
SelectionIsSound == ChangesAreAudited /\ CiKeepsGates

(* The comment at ci_cmd.py:216-218: a diff never drops the mode's         *)
(* required gates.                                                         *)
DiffKeepsGates ==
  step = "ci" /\ outcome.accepted => WithoutDiff.specs \subseteq outcome.specs
=============================================================================
