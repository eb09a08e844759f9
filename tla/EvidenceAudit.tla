---------------------------- MODULE EvidenceAudit --------------------------
(***************************************************************************)
(* The two audits that judge what other processes leave in files while     *)
(* they read it: chaos reads the lines its specs append to events.jsonl,   *)
(* llm_audit reads five JSON files of earlier phases one after another.    *)
(*                                                                         *)
(* modules/chaos (module.py, ingestion.py, findings.py) and                *)
(* modules/llm_audit (module.py, inputs.py).                               *)
(***************************************************************************)
EXTENDS Naturals, Sequences, SequencesExt

CONSTANTS
  Event,        \* what a spec may report: [scenario, category, flow, severity]
  CategoryOf,   \* CATALOG_BY_ID: the category of each scenario of the catalogue
  Choice,       \* what config and options may say: [categories, configured, requested, flows]
  Requested,    \* the sets of checks that may be asked of llm_audit
  MaxLines,     \* bound on the lines of events.jsonl
  MaxRewrites   \* bound on the writes of the five files

ASSUME EvidenceIsBounded == MaxLines \in Nat /\ MaxRewrites \in Nat

Category == {"network", "session", "ux", "data"}
Serious == {"critical", "high"}

\* The files of load_inputs, in the order they are read, and the checks by the
\* files they take their signal from.
Inputs == <<"discovery", "api", "forms", "signals", "source_files">>
SignalOf == [fake_routes |-> {"discovery"}, fake_endpoints |-> {"api"},
             forms_no_submit |-> {"forms", "signals"}, dead_buttons |-> {"signals"},
             hardcoded_creds |-> {"source_files"}]
Content == {"absent", "torn", "fine", "bad"}

\* The schemas of the events and of the options admit nothing else.
ASSUME EvidenceIsKnown ==
  /\ \A e \in Event : e.category \in Category
  /\ \A s \in DOMAIN CategoryOf : CategoryOf[s] \in Category
  /\ Requested \subseteq SUBSET DOMAIN SignalOf

VARIABLES
  evKind,       \* "chaos" or "llm_audit"
  evChoice,     \* the choice of scenarios, or the checks that are requested
  evLines,      \* events.jsonl: [event, whole] per line; none, no file
  evInputs,     \* the content of the five files
  evWrites,
  evStage,      \* "look", "read", "again", "load", "judge", "done"
  evSeen,       \* the lines the module has read
  evLoaded,     \* what it has made of the files it has read
  evTorn,       \* events.jsonl did not parse: incomplete
  evNamed,      \* the index names the events file
  evReport,     \* the events of each category's report
  evStatus

evVars == <<evKind, evChoice, evLines, evInputs, evWrites, evStage, evSeen, evLoaded,
            evTorn, evNamed, evReport, evStatus>>

EvTypeOK ==
  /\ evKind \in {"chaos", "llm_audit"}
  /\ IF evKind = "chaos" THEN evChoice \in Choice ELSE evChoice \subseteq DOMAIN SignalOf
  /\ evLines \in Seq([event : Event, whole : BOOLEAN])
  /\ evInputs \in [ToSet(Inputs) -> Content] /\ evWrites \in 0..MaxRewrites
  /\ evStage \in {"look", "read", "again", "load", "judge", "done"}
  /\ evSeen \in Seq([event : Event, whole : BOOLEAN])
  /\ evLoaded \in Seq(Content)
  /\ evTorn \in BOOLEAN /\ evNamed \in BOOLEAN
  /\ evReport \in [Category -> SUBSET Event]
  /\ evStatus \in {"none", "passed", "failed", "skipped", "incomplete"}

EvInit ==
  /\ \/ /\ evKind = "chaos" /\ evChoice \in Choice /\ evStage = "look"
        /\ evInputs = [f \in ToSet(Inputs) |-> "absent"]
     \/ /\ evKind = "llm_audit" /\ evChoice \in Requested /\ evStage = "load"
        /\ evInputs \in [ToSet(Inputs) -> Content \ {"torn"}]
  /\ evLines = <<>> /\ evWrites = 0 /\ evSeen = <<>> /\ evLoaded = <<>>
  /\ evTorn = FALSE /\ evNamed = FALSE
  /\ evReport = [c \in Category |-> {}] /\ evStatus = "none"

-----------------------------------------------------------------------------
(* The writers: a spec appends a line, in two writes at worst; a phase      *)
(* rewrites its file, which is torn in between.  What they write after the   *)
(* verdict is of no matter here.                                             *)

AppendLine ==
  /\ evKind = "chaos" /\ evStage # "done" /\ Len(evLines) < MaxLines
  /\ \A i \in DOMAIN evLines : evLines[i].whole
  /\ \E e \in Event, whole \in BOOLEAN :
       evLines' = Append(evLines, [event |-> e, whole |-> whole])
  /\ UNCHANGED <<evKind, evChoice, evInputs, evWrites, evStage, evSeen, evLoaded, evTorn, evNamed,
                 evReport, evStatus>>

EndLine ==
  /\ evStage # "done"
  /\ \E i \in DOMAIN evLines : ~evLines[i].whole /\ evLines' = [evLines EXCEPT ![i].whole = TRUE]
  /\ UNCHANGED <<evKind, evChoice, evInputs, evWrites, evStage, evSeen, evLoaded, evTorn, evNamed,
                 evReport, evStatus>>

Rewrite ==
  /\ evKind = "llm_audit" /\ evStage # "done" /\ evWrites < MaxRewrites
  /\ evWrites' = evWrites + 1
  /\ \E f \in ToSet(Inputs) :
       \E c \in IF evInputs[f] = "torn" THEN {"fine", "bad"} ELSE {"torn"} :
         evInputs' = [evInputs EXCEPT ![f] = c]
  /\ UNCHANGED <<evKind, evChoice, evLines, evStage, evSeen, evLoaded, evTorn, evNamed, evReport, evStatus>>

-----------------------------------------------------------------------------
(* chaos *)

\* _resolve_scenarios
Enabled ==
  LET catalogue == {s \in DOMAIN CategoryOf : CategoryOf[s] \in evChoice.categories}
      configured == IF evChoice.configured = {} THEN catalogue ELSE evChoice.configured
  IN  configured \cap (IF evChoice.requested = {} THEN catalogue ELSE evChoice.requested)

\* _filter_results_by_scenarios and _filter_results_by_flows: an empty choice
\* filters nothing.
Selected(events) ==
  {e \in events : /\ Enabled = {} \/ e.scenario \in Enabled
                  /\ evChoice.flows = {} \/ e.flow \in evChoice.flows}

\* group_by_scenario: the catalogue decides on the category, the event where
\* the scenario is not in it.
Group(e) == IF e.scenario \in DOMAIN CategoryOf THEN CategoryOf[e.scenario] ELSE e.category

Look ==
  /\ evKind = "chaos" /\ evStage = "look"
  /\ evStage' = IF evLines = <<>> THEN "again" ELSE "read"
  /\ UNCHANGED <<evKind, evChoice, evLines, evInputs, evWrites, evSeen, evLoaded, evTorn, evNamed,
                 evReport, evStatus>>

ReadEvents_SkipTorn_Mutant ==
  /\ evStage = "read"
  /\ evSeen' = evLines
  /\ evReport' = [c \in Category |->
                    {e \in Selected({l.event : l \in {k \in ToSet(evLines) : k.whole}}) : Group(e) = c}]
  /\ UNCHANGED evTorn
  /\ evStage' = "again"
  /\ UNCHANGED <<evKind, evChoice, evLines, evInputs, evWrites, evLoaded, evNamed, evStatus>>

\* read_event_file, parse_events: one line that does not parse and no event
\* counts.
ReadEvents ==
  /\ evStage = "read"
  /\ evSeen' = evLines
  /\ evTorn' = \E l \in ToSet(evLines) : ~l.whole
  /\ evReport' = [c \in Category |->
                    IF evTorn' THEN {}
                    ELSE {e \in Selected({l.event : l \in ToSet(evLines)}) : Group(e) = c}]
  /\ evStage' = "again"
  /\ UNCHANGED <<evKind, evChoice, evLines, evInputs, evWrites, evLoaded, evNamed, evStatus>>

\* The file is looked for a second time, to be named in the index.
LookAgain ==
  /\ evStage = "again"
  /\ evNamed' = (evLines # <<>>)
  /\ evStage' = "judge"
  /\ UNCHANGED <<evKind, evChoice, evLines, evInputs, evWrites, evSeen, evLoaded, evTorn, evReport, evStatus>>

ChaosFindings == {e \in UNION {evReport[c] : c \in Category} : e.severity # "none"}

\* summarize: categories without events are skipped.
JudgeChaos ==
  /\ evKind = "chaos" /\ evStage = "judge"
  /\ evStage' = "done"
  /\ evStatus' = IF evTorn THEN "incomplete"
                 ELSE IF \A c \in Category : evReport[c] = {} THEN "skipped"
                 ELSE IF \E e \in ChaosFindings : e.severity \in Serious THEN "failed" ELSE "passed"
  /\ UNCHANGED <<evKind, evChoice, evLines, evInputs, evWrites, evSeen, evLoaded, evTorn, evNamed, evReport>>

-----------------------------------------------------------------------------
(* llm_audit *)

\* _read_json: a file that does not parse is a file that is not there.
LoadInput ==
  /\ evStage = "load"
  /\ LET content == evInputs[Inputs[Len(evLoaded) + 1]]
     IN  evLoaded' = Append(evLoaded, IF content = "torn" THEN "absent" ELSE content)
  /\ evStage' = IF Len(evLoaded') = Len(Inputs) THEN "judge" ELSE "load"
  /\ UNCHANGED <<evKind, evChoice, evLines, evInputs, evWrites, evSeen, evTorn, evNamed, evReport, evStatus>>

Loaded(check) == {evLoaded[i] : i \in {j \in DOMAIN evLoaded : Inputs[j] \in SignalOf[check]}}

\* signal_available
HasSignal(check) == Loaded(check) # {"absent"}

\* _run_checks and summarize: what is bad enough fails the module, a check
\* without a signal does not count, and without any the module is skipped.
JudgeCode ==
  /\ evKind = "llm_audit" /\ evStage = "judge"
  /\ evStage' = "done"
  /\ evStatus' = IF \A c \in evChoice : ~HasSignal(c) THEN "skipped"
                 ELSE IF \E c \in evChoice : "bad" \in Loaded(c) THEN "failed" ELSE "passed"
  /\ UNCHANGED <<evKind, evChoice, evLines, evInputs, evWrites, evSeen, evLoaded, evTorn, evNamed, evReport>>

EvNext ==
  \/ AppendLine \/ EndLine \/ Rewrite
  \/ Look \/ ReadEvents \/ LookAgain \/ JudgeChaos \/ LoadInput \/ JudgeCode

EvSpec == EvInit /\ [][EvNext]_evVars

-----------------------------------------------------------------------------

\* A verdict of the chaos audit stands on every line that was in the file when
\* it was read: with a half-written one among them there is none; otherwise
\* the module is failed exactly if a line that was chosen is serious, and
\* skipped only if none was chosen.
ChaosJudgesWhole ==
  evKind = "chaos" /\ evStatus # "none" =>
    LET read == {l.event : l \in ToSet(evSeen)}
    IN  IF \E l \in ToSet(evSeen) : ~l.whole THEN evStatus = "incomplete"
        ELSE /\ evStatus = "failed" <=> \E e \in Selected(read) : e.severity \in Serious
             /\ evStatus = "skipped" <=> Selected(read) = {}
             /\ \A e \in Selected(read) : e \in evReport[Group(e)]

\* What was not chosen fails nothing, unless the choice leaves no scenario:
\* then everything counts.
OnlyChosenEventsCount ==
  evKind = "chaos" /\ Enabled # {} => \A e \in ChaosFindings : e.scenario \in Enabled

\* The index names an events file that nobody has read only if the file came
\* after the module had looked for it; the module is skipped then.
UnreadIsSkipped == evKind = "chaos" /\ evNamed /\ evSeen = <<>> /\ evStatus # "none" => evStatus = "skipped"

\* The code audit passes only on a signal of a check that was asked for, and
\* fails only on one, however the files change while they are read.
CodeVerdictHasSignal ==
  evKind = "llm_audit" /\ evStatus # "none" =>
    LET wanted == UNION {SignalOf[c] : c \in evChoice}
        read == {evLoaded[i] : i \in {j \in DOMAIN evLoaded : Inputs[j] \in wanted}}
    IN  evStatus = IF "bad" \in read THEN "failed" ELSE IF "fine" \in read THEN "passed" ELSE "skipped"

EvidenceVerdictIsEarned ==
  ChaosJudgesWhole /\ OnlyChosenEventsCount /\ UnreadIsSkipped /\ CodeVerdictHasSignal
=============================================================================
