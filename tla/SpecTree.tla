------------------------------ MODULE SpecTree ------------------------------
(***************************************************************************)
(* The specs under tests/sentinel and their three writers: `generate`      *)
(* (engine/generator, sentinel_cli/commands/generate_cmd.py), `fix` with   *)
(* the proposals of the healer (engine/healer, commands/fix_cmd.py), and   *)
(* the developers, whose work both must respect.                           *)
(*                                                                         *)
(* Both commands are sequences of operations on single files; a developer  *)
(* may save a file, and the command may be killed, between any two.  The   *)
(* text of a spec is a few lines; a line the healer can repair is "stale". *)
(***************************************************************************)
EXTENDS Naturals, FiniteSetsExt, Sequences

CONSTANTS
  Plan,          \* sequences of stems: the name each flow gives its spec
  Path,          \* the files of specs, named by stems
  MaxHand,       \* bound on the saves of developers
  MaxCommands,   \* bound on the runs of `generate` and `fix`
  MaxProposals,  \* bound on the proposals of the healer
  Score,         \* the confidences looked at, in percent
  Threshold      \* the values of --threshold looked at

VARIABLES
  tree,          \* the specs
  planMd,        \* sentinel.generated.plan.md: is it managed, what it lists
  proposals,     \* the proposals of the last run, healer/RPR-*.json
  gen,           \* `generate` in progress
  fix,           \* `fix` in progress
  hands,         \* saves of developers so far
  commands       \* commands so far

spVars == <<tree, planMd, proposals, gen, fix, hands, commands>>

Text == {"stale", "healed"}

Lines == UNION {[1..n -> Text] : n \in 0..2}

\* What a spec that comes from elsewhere may hold.
Drafts == {<<"stale", "stale">>, <<"healed", "stale">>}

\* marker   which marker the head carries: the generator and the healer look
\*          for two different ones
\* stamped  it records generated_at; fresh: the mtime is not past that time
\* flow     which flow of the plan it tests, 0 for none; hand: a developer
\*          has changed it since it was created (history)
Spec == [marker : {"generator", "healer", "none"}, stamped : BOOLEAN, fresh : BOOLEAN,
         flow : Nat, lines : Lines, hand : BOOLEAN]

Absent == [marker |-> "absent"]

Kind == {"fixture", "locator", "wait"}

\* The scores of _score_candidate, propose_wait_repair, propose_fixture_repair.
Scores == [locator |-> {95, 90, 75, 70, 50}, wait |-> {90, 60, 30}, fixture |-> {85, 70}]

Proposal == [path : Path, line : 1..2, kind : Kind, confidence : 0..100, review : BOOLEAN,
             text : Text]

Idle == [stage |-> "idle"]

SpecPath_NoSuffix_Mutant(plan, i) == plan[i]

\* _spec_file_name and the loop of generate: a stem met before gets the number
\* of its occurrence.  The suffixed name itself is not remembered.
SpecPath(plan, i) ==
  LET met == Cardinality({k \in 1..i : plan[k] = plan[i]})
  IN  IF met = 1 THEN plan[i] ELSE Append(plan[i], met)

SpecPaths(plan) == {SpecPath(plan, i) : i \in DOMAIN plan}

\* A name is a stem, perhaps followed by a number; Path has every name a plan
\* leads to.
ASSUME PathsAreSequences == \A p \in Path : Len(p) \in Nat /\ p = [n \in 1..Len(p) |-> p[n]]
ASSUME PlansArePaths == \A plan \in Plan : plan \in Seq(Path) /\ SpecPaths(plan) \subseteq Path

\* What a template renders for a flow, with the banner of the generator.
Rendered(flow) ==
  [marker |-> "generator", stamped |-> FALSE, fresh |-> TRUE, flow |-> flow,
   lines |-> <<"stale", "stale">>, hand |-> FALSE]

Present(p) == tree[p] # Absent

SpInit ==
  /\ tree = [p \in Path |-> Absent]
  /\ planMd = [managed |-> TRUE, lists |-> {}]
  /\ proposals = {}
  /\ gen = Idle /\ fix = Idle
  /\ hands = 0 /\ commands = 0

Done(plan) == [stage |-> "done", plan |-> plan]

\* A save of another actor while `generate` works, or after it.
Disturbed == IF gen.stage = "write" THEN [gen EXCEPT !.quiet = FALSE] ELSE Idle

-----------------------------------------------------------------------------
\* run_generate up to the first write.  A locator audit that finds something,
\* or cannot run, ends the command before this.
StartGenerate(plan, force) ==
  /\ gen.stage # "write" /\ commands < MaxCommands
  /\ gen' = [stage |-> "write", plan |-> plan, force |-> force, next |-> 1, quiet |-> TRUE]
  /\ commands' = commands + 1
  /\ UNCHANGED <<tree, planMd, proposals, fix, hands>>

WriteSpec_NoMarker_Mutant ==
  /\ gen.stage = "write" /\ gen.next <= Len(gen.plan)
  /\ gen' = [gen EXCEPT !.next = @ + 1]
  /\ tree' = [tree EXCEPT ![SpecPath(gen.plan, gen.next)] = Rendered(gen.next)]
  /\ UNCHANGED <<planMd, proposals, fix, hands, commands>>

\* write_generated_files, one spec: a file of a developer raises, an identical
\* one stays, any other is replaced in one step.  Page objects and fixtures
\* come after the specs in the same way.
WriteSpec ==
  /\ gen.stage = "write" /\ gen.next <= Len(gen.plan)
  /\ LET p == SpecPath(gen.plan, gen.next)
     IN  IF Present(p) /\ tree[p].marker # "generator" /\ ~gen.force
         THEN /\ gen' = Idle
              /\ UNCHANGED tree
         ELSE /\ gen' = [gen EXCEPT !.next = @ + 1]
              /\ tree' = [tree EXCEPT ![p] = Rendered(gen.next)]
  /\ UNCHANGED <<planMd, proposals, fix, hands, commands>>

\* The last file is the plan, with the names of the specs.
WritePlan ==
  /\ gen.stage = "write" /\ gen.next > Len(gen.plan)
  /\ IF planMd.managed \/ gen.force
     THEN /\ planMd' = [managed |-> TRUE, lists |-> SpecPaths(gen.plan)]
          /\ gen' = IF gen.quiet THEN Done(gen.plan) ELSE Idle
     ELSE /\ gen' = Idle
          /\ UNCHANGED planMd
  /\ UNCHANGED <<tree, proposals, fix, hands, commands>>

\* The command is killed; at most a temporary file is left behind.
GenerateDies ==
  /\ gen.stage = "write"
  /\ gen' = Idle
  /\ UNCHANGED <<tree, planMd, proposals, fix, hands, commands>>

\* A developer changes a line of a spec, with or without its banner.  The
\* clock is past generated_at and the five seconds of tolerance by then.
EditSpec(p, line, text, strip) ==
  /\ Present(p) /\ line \in DOMAIN tree[p].lines /\ text # tree[p].lines[line]
  /\ hands < MaxHand /\ hands' = hands + 1
  /\ tree' = [tree EXCEPT ![p].lines[line] = text, ![p].fresh = FALSE, ![p].hand = TRUE,
                          ![p].marker = IF strip THEN "none" ELSE @]
  /\ gen' = Disturbed
  /\ UNCHANGED <<planMd, proposals, fix, commands>>

\* A spec comes into the tree that `generate` did not write: an adapter of
\* `migrate`, with the healer's banner, or one of a developer.
AddSpec(p, marker, stamped, lines) ==
  /\ ~Present(p) /\ (stamped => marker = "healer")
  /\ hands < MaxHand /\ hands' = hands + 1
  /\ tree' = [tree EXCEPT ![p] = [marker |-> marker, stamped |-> stamped, fresh |-> TRUE,
                                  flow |-> 0, lines |-> lines, hand |-> marker = "none"]]
  /\ gen' = Disturbed
  /\ UNCHANGED <<planMd, proposals, fix, commands>>

\* A developer takes over the plan by removing its banner.
AdoptPlan ==
  /\ planMd.managed /\ hands < MaxHand /\ hands' = hands + 1
  /\ planMd' = [planMd EXCEPT !.managed = FALSE]
  /\ gen' = Disturbed
  /\ UNCHANGED <<tree, proposals, fix, commands>>

\* Healer.propose for a failed test: a stale line of the spec as it is now.
\* The three proposers flag what scores below the default threshold, and every
\* repair of a fixture.
Propose(p, line, kind, confidence) ==
  /\ Present(p) /\ line \in DOMAIN tree[p].lines
  /\ kind # "fixture" => tree[p].lines[line] = "stale"
  /\ fix = Idle /\ Cardinality(proposals) < MaxProposals
  /\ proposals' = proposals \cup
       {[path |-> p, line |-> line, kind |-> kind, confidence |-> confidence,
         review |-> kind = "fixture" \/ confidence < 90, text |-> tree[p].lines[line]]}
  /\ UNCHANGED <<tree, planMd, gen, fix, hands, commands>>

\* A later run of the tests: its directory has no proposals yet.
NextRun ==
  /\ fix = Idle /\ proposals # {}
  /\ proposals' = {}
  /\ UNCHANGED <<tree, planMd, gen, fix, hands, commands>>

-----------------------------------------------------------------------------
HandEdited_NoStamp_Mutant(p) == ~Present(p) \/ tree[p].marker # "healer"

\* detect_banner_status(...).hand_edited
HandEdited(p) ==
  \/ ~Present(p)
  \/ tree[p].marker # "healer"
  \/ tree[p].stamped /\ ~tree[p].fresh

\* decide_auto_apply; nothing proposes an assertion repair.
ShouldApply(proposal, mode, threshold) ==
  /\ ~HandEdited(proposal.path)
  /\ ~proposal.review
  /\ mode = "safe" => proposal.kind \in {"locator", "wait"}
  /\ proposal.confidence >= threshold

\* run_fix up to its loop; without --apply, or with --review-only or
\* --dry-run, it only prints.
StartFix(mode, threshold) ==
  /\ fix = Idle /\ proposals # {} /\ commands < MaxCommands
  /\ fix' = [stage |-> "next", mode |-> mode, threshold |-> threshold, left |-> proposals]
  /\ commands' = commands + 1
  /\ UNCHANGED <<tree, planMd, proposals, gen, hands>>

\* The proposals come ordered by kind, and by their random ids.
Due == {q \in fix.left : q.kind = "fixture" \/ ~\E r \in fix.left : r.kind = "fixture"}
NextDue == {q \in Due : q.kind = "wait" => \A r \in Due : r.kind = "wait"}

\* The original line is looked for in the text, wherever it is.
Occurrences(lines, text) == {n \in DOMAIN lines : lines[n] = text}

\* One turn of the loop up to the write: skip it, fail it, or read the spec and
\* replace the first occurrence.
ConsiderRepair(q) ==
  /\ fix.stage = "next" /\ q \in NextDue
  /\ LET left == fix.left \ {q}
         goes == /\ ShouldApply(q, fix.mode, fix.threshold)
                 /\ Occurrences(tree[q.path].lines, q.text) # {}
     IN  fix' = IF goes
                THEN [stage |-> "write", mode |-> fix.mode, threshold |-> fix.threshold,
                      left |-> left, repair |-> q, read |-> tree[q.path],
                      hit |-> Min(Occurrences(tree[q.path].lines, q.text))]
                ELSE [fix EXCEPT !.left = left]
  /\ UNCHANGED <<tree, planMd, proposals, gen, hands, commands>>

\* write_text of what was read, with the repaired line.
Repaired == [fix.read EXCEPT !.lines[fix.hit] = "healed", !.fresh = FALSE]

WriteRepair ==
  /\ fix.stage = "write"
  /\ tree' = [tree EXCEPT ![fix.repair.path] = Repaired]
  /\ fix' = [stage |-> "next", mode |-> fix.mode, threshold |-> fix.threshold,
             left |-> fix.left]
  /\ gen' = Disturbed
  /\ UNCHANGED <<planMd, proposals, hands, commands>>

EndFix ==
  /\ fix.stage = "next" /\ fix.left = {}
  /\ fix' = Idle
  /\ UNCHANGED <<tree, planMd, proposals, gen, hands, commands>>

\* write_text opens the spec for writing, which empties it: a kill before the
\* text is written leaves an empty file, which has no banner.
FixDies ==
  /\ fix.stage = "write"
  /\ tree' = [tree EXCEPT ![fix.repair.path] =
                [fix.read EXCEPT !.marker = "none", !.lines = <<>>, !.fresh = FALSE]]
  /\ fix' = Idle
  /\ gen' = Disturbed
  /\ UNCHANGED <<planMd, proposals, hands, commands>>

Developer ==
  \/ AdoptPlan
  \/ \E p \in Path :
       \/ \E line \in 1..2, text \in Text, strip \in BOOLEAN : EditSpec(p, line, text, strip)
       \/ \E marker \in {"healer", "none"}, stamped \in BOOLEAN, lines \in Drafts :
            AddSpec(p, marker, stamped, lines)

Generate ==
  \/ \E plan \in Plan, force \in BOOLEAN : StartGenerate(plan, force)
  \/ WriteSpec \/ WritePlan \/ GenerateDies

Heal ==
  \/ \E p \in Path, line \in 1..2, kind \in Kind :
       \E confidence \in Scores[kind] \cap Score : Propose(p, line, kind, confidence)
  \/ \E mode \in {"safe", "aggressive"}, threshold \in Threshold : StartFix(mode, threshold)
  \/ \E q \in proposals : ConsiderRepair(q)
  \/ NextRun \/ WriteRepair \/ EndFix \/ FixDies

SpNext == Developer \/ Generate \/ Heal

SpSpec == SpInit /\ [][SpNext]_spVars

-----------------------------------------------------------------------------
SpTypeOK ==
  /\ tree \in [Path -> Spec \cup {Absent}]
  /\ planMd \in [managed : BOOLEAN, lists : SUBSET Path]
  /\ proposals \subseteq Proposal
  /\ gen.stage \in {"idle", "write", "done"} /\ fix.stage \in {"idle", "next", "write"}
  /\ hands \in Nat /\ commands \in Nat

\* No flow has the name another one would get with a number.
NamesApart(plan) ==
  \A i, k \in DOMAIN plan : \A n \in 2..Len(plan) : plan[i] # Append(plan[k], n)

\* The plan lists only specs that exist, whatever was refused or killed half
\* way, and after an undisturbed `generate` each flow has its own spec, under
\* the name listed (GeneratorPipeline.generate, write_generated_files).
PlanIsTrue ==
  /\ \A p \in planMd.lists : Present(p)
  /\ gen.stage = "done" =>
       /\ planMd.lists = SpecPaths(gen.plan)
       /\ NamesApart(gen.plan) =>
            \A i \in DOMAIN gen.plan : tree[SpecPath(gen.plan, i)] = Rendered(i)

\* "The Healer must NEVER apply a repair to a hand-owned spec" (banner.py:3),
\* nor one it is not sure of, whatever --apply and --threshold say: what `fix`
\* is about to write is a locator or wait repair of 0.9 or more, in a spec with the
\* healer's banner, not one its stamp shows as edited, and it is in the line of
\* the proposal if that text is in the spec once (proposers, decide_auto_apply,
\* run_fix).
RepairsAreSafe ==
  fix.stage = "write" =>
    LET repair == fix.repair
        found == Occurrences(fix.read.lines, repair.text)
    IN  /\ repair.kind # "fixture" /\ repair.confidence >= 90
        /\ fix.read.marker = "healer" /\ (fix.read.stamped => ~fix.read.hand)
        /\ found = {repair.line} => fix.hit = repair.line

\* The two together: what is listed exists, and what is repaired may be.
TreeIsTrusted == PlanIsTrue /\ RepairsAreSafe

\* A spec without a banner changes by hand alone, or by --force, or by a repair
\* that had read it before the banner was removed (write_generated_files,
\* run_fix).
HandWorkKept ==
  [][\A p \in Path :
       (Present(p) /\ tree[p].marker = "none" /\ tree'[p] # tree[p])
         => \/ hands' # hands
            \/ gen.stage = "write" /\ gen.force
            \/ fix.stage = "write" /\ fix.repair.path = p /\ fix.read.marker # "none"]_spVars
=============================================================================
