--------------------------- MODULE VisualBaselines ---------------------------
(***************************************************************************)
(* Baselines of the visual-regression checks: the pictures every later run *)
(* is compared with and the index that attributes each of them.            *)
(*                                                                         *)
(* "visual accept" promotes the pictures of a capture one by one and then  *)
(* writes the index once; "visual diff", or an audit, compares a capture   *)
(* with the baselines and then attributes them from the index.             *)
(* modules/visual/baselines.py, module.py, findings.py and visual_cmd.py.  *)
(***************************************************************************)
EXTENDS Naturals, FiniteSets, FiniteSetsExt

CONSTANTS
  Shot,          \* (viewport, route) pairs, numbered in sorted order
  Picture,       \* what a PNG may show, as far as the threshold tells it apart
  Blank,         \* no such file, no such row
  Accepter,      \* processes that run "visual accept"
  Differ,        \* processes that compare
  MaxAccepts     \* bound on the acceptances in one behaviour

ASSUME ShotsAreNumbered == Shot \subseteq Nat /\ IsFiniteSet(Shot)
ASSUME BlankIsNoPicture == Blank \notin Picture /\ Blank \notin [Shot -> Picture \cup {Blank}]
ASSUME MaxAcceptsIsNat == MaxAccepts \in Nat
ASSUME ProcessesDiffer == Accepter \cap Differ = {}

VARIABLES
  baseline,      \* <viewport>/<route>.png of each shot
  pngTmp,        \* its .png.tmp
  index,         \* index.json: the hash in the row of each shot
  indexTmp,      \* index.json.tmp
  accepter,      \* what each "visual accept" is doing
  differ,        \* what each comparison is doing
  accepts,       \* acceptances so far
  vbCalm         \* history: the shots nothing has disturbed since they were accepted

vbVars == <<baseline, pngTmp, index, indexTmp, accepter, differ, accepts, vbCalm>>

\* A hash stands for the picture it is the hash of.
Capture == [Shot -> Picture \cup {Blank}]

Outcome == {"match", "differ", "missing_baseline", "missing_current"}

AcceptStage == {"idle", "copy", "replace", "hash", "write", "publish"}

VbTypeOK ==
  /\ baseline \in Capture
  /\ pngTmp \in Capture
  /\ index \in Capture
  /\ indexTmp \in {Blank} \cup Capture
  /\ \A a \in Accepter :
       /\ accepter[a].stage \in AcceptStage
       /\ accepter[a].left \subseteq Shot /\ accepter[a].all \subseteq Shot
       /\ accepter[a].rows \in Capture
       /\ accepter[a].met \in BOOLEAN
  /\ \A d \in Differ :
       /\ differ[d].stage \in {"idle", "compare", "attribute", "done"}
       /\ differ[d].left \subseteq Shot
       /\ differ[d].captured \subseteq Shot
       /\ \A s \in DOMAIN differ[d].outcome : differ[d].outcome[s] \in Outcome
       /\ \A s \in DOMAIN differ[d].sha : differ[d].sha[s] \in Picture \cup {Blank}
       /\ \A s \in DOMAIN differ[d].shown : differ[d].shown[s] \in Picture \cup {Blank}
       /\ \A s \in DOMAIN differ[d].seen : differ[d].seen[s] \in Picture \cup {Blank}
       /\ differ[d].calm \subseteq Shot
       /\ differ[d].met \in BOOLEAN
  /\ accepts \in 0..MaxAccepts
  /\ vbCalm \subseteq Shot

NoRows == [s \in Shot |-> Blank]

NotAccepting == [stage |-> "idle", left |-> {}, all |-> {}, rows |-> NoRows, met |-> FALSE]
NotComparing == [stage |-> "idle", left |-> {}, captured |-> {}, outcome |-> <<>>,
                 seen |-> <<>>, shown |-> <<>>, sha |-> <<>>, calm |-> {}, met |-> FALSE]

VbInit ==
  /\ baseline = NoRows /\ pngTmp = NoRows
  /\ index = NoRows /\ indexTmp = Blank
  /\ accepter = [a \in Accepter |-> NotAccepting]
  /\ differ = [d \in Differ |-> NotComparing]
  /\ accepts = 0
  /\ vbCalm = Shot

Accepting == {a \in Accepter : accepter[a].stage # "idle"}
Comparing == {d \in Differ : differ[d].stage \in {"compare", "attribute"}}

\* The next shot: both commands go through a sorted listing.
Next1(left) == Min(left)

\* accept loads the index once; all is what its filters leave of the capture,
\* and with nothing left it ends without a trace.
StartAccept(a) ==
  /\ accepter[a].stage = "idle"
  /\ accepts < MaxAccepts
  /\ \E all \in (SUBSET Shot) \ {{}} :
       /\ accepter' = [b \in Accepter |->
            IF b = a THEN [stage |-> "copy", left |-> all, all |-> all, rows |-> index,
                           met |-> Accepting # {}]
            ELSE [accepter[b] EXCEPT !.met = @ \/ b \in Accepting]]
       /\ vbCalm' = IF Accepting = {} THEN vbCalm
                    ELSE vbCalm \ (all \cup UNION {accepter[b].all : b \in Accepting})
  /\ accepts' = accepts + 1
  /\ differ' = [d \in Differ |-> IF d \in Comparing THEN [differ[d] EXCEPT !.met = TRUE] ELSE differ[d]]
  /\ UNCHANGED <<baseline, pngTmp, index, indexTmp>>

\* promote_to_baseline: the copy goes to a name every accept shares ...
CopyPicture(a) ==
  /\ accepter[a].stage = "copy"
  /\ LET s == Next1(accepter[a].left)
     IN  \E captured \in Picture : pngTmp' = [pngTmp EXCEPT ![s] = captured]
  /\ accepter' = [accepter EXCEPT ![a].stage = "replace"]
  /\ UNCHANGED <<baseline, index, indexTmp, differ, accepts, vbCalm>>

\* ... which then becomes the baseline; with the name gone the command fails.
ReplacePicture(a) ==
  /\ accepter[a].stage = "replace"
  /\ LET s == Next1(accepter[a].left)
     IN  IF pngTmp[s] = Blank
         THEN accepter' = [accepter EXCEPT ![a] = NotAccepting] /\ UNCHANGED <<baseline, pngTmp>>
         ELSE /\ baseline' = [baseline EXCEPT ![s] = pngTmp[s]]
              /\ pngTmp' = [pngTmp EXCEPT ![s] = Blank]
              /\ accepter' = [accepter EXCEPT ![a].stage = "hash"]
  /\ UNCHANGED <<index, indexTmp, differ, accepts, vbCalm>>

\* The row has the hash of the baseline as it is now.
HashPicture(a) ==
  /\ accepter[a].stage = "hash"
  /\ LET s == Next1(accepter[a].left)
         left == accepter[a].left \ {s}
     IN  accepter' = [accepter EXCEPT
           ![a].rows[s] = baseline[s],
           ![a].left = left,
           ![a].stage = IF left = {} THEN "write" ELSE "copy"]
  /\ UNCHANGED <<baseline, pngTmp, index, indexTmp, differ, accepts, vbCalm>>

WriteIndex_OwnRows_Mutant(a) ==
  /\ accepter[a].stage = "write"
  /\ indexTmp' = [s \in Shot |-> IF s \in accepter[a].all THEN accepter[a].rows[s] ELSE Blank]
  /\ accepter' = [accepter EXCEPT ![a].stage = "publish"]
  /\ UNCHANGED <<baseline, pngTmp, index, differ, accepts, vbCalm>>

\* write_index: all rows, the loaded ones too, into index.json.tmp.
WriteIndex(a) ==
  /\ accepter[a].stage = "write"
  /\ indexTmp' = accepter[a].rows
  /\ accepter' = [accepter EXCEPT ![a].stage = "publish"]
  /\ UNCHANGED <<baseline, pngTmp, index, differ, accepts, vbCalm>>

PublishIndex(a) ==
  /\ accepter[a].stage = "publish"
  /\ IF indexTmp = Blank
     THEN accepter' = [accepter EXCEPT ![a] = NotAccepting] /\ UNCHANGED <<index, indexTmp, vbCalm>>
     ELSE /\ index' = indexTmp
          /\ indexTmp' = Blank
          /\ accepter' = [accepter EXCEPT ![a] = NotAccepting]
          /\ vbCalm' = IF accepter[a].met THEN vbCalm ELSE vbCalm \cup accepter[a].all
  /\ UNCHANGED <<baseline, pngTmp, differ, accepts>>

KillAccept(a) ==
  /\ a \in Accepting
  /\ accepter' = [accepter EXCEPT ![a] = NotAccepting]
  /\ vbCalm' = vbCalm \ accepter[a].all
  /\ UNCHANGED <<baseline, pngTmp, index, indexTmp, differ, accepts>>

\* _enumerate_pairs: what has a picture on either side.
StartDiff(d) ==
  /\ differ[d].stage = "idle"
  /\ \E captured \in SUBSET Shot :
       LET pairs == captured \cup {s \in Shot : baseline[s] # Blank}
       IN  differ' = [differ EXCEPT ![d] = [NotComparing EXCEPT
             !.stage = IF pairs = {} THEN "attribute" ELSE "compare", !.left = pairs,
             !.captured = captured, !.calm = vbCalm, !.met = Accepting # {}]]
  /\ UNCHANGED <<baseline, pngTmp, index, indexTmp, accepter, accepts, vbCalm>>

Compare_NothingToCompare_Mutant(base, current) ==
  IF current = Blank THEN "missing_current"
  ELSE IF base = Blank \/ base # current THEN "missing_baseline" ELSE "match"

\* _diff_pair; differ also stands for the outcome "size_mismatch".
Compare(base, current) ==
  IF current = Blank THEN "missing_current"
  ELSE IF base = Blank THEN "missing_baseline"
  ELSE IF base = current THEN "match" ELSE "differ"

With(f, s, x) == [r \in DOMAIN f \cup {s} |-> IF r = s THEN x ELSE f[r]]

ComparePair(d) ==
  /\ differ[d].stage = "compare"
  /\ LET s == Next1(differ[d].left)
         left == differ[d].left \ {s}
     IN  \E current \in IF s \in differ[d].captured THEN Picture ELSE {Blank} :
           differ' = [differ EXCEPT
             ![d].outcome = With(@, s, Compare(baseline[s], current)),
             ![d].seen = With(@, s, baseline[s]),
             ![d].shown = With(@, s, current),
             ![d].left = left, ![d].captured = @ \ {s},
             ![d].stage = IF left = {} THEN "attribute" ELSE "compare"]
  /\ UNCHANGED <<baseline, pngTmp, index, indexTmp, accepter, accepts, vbCalm>>

\* _persist_index: the hash of each baseline, as the index tells it now.
AttributePairs(d) ==
  /\ differ[d].stage = "attribute"
  /\ differ' = [differ EXCEPT
       ![d].sha = [s \in DOMAIN differ[d].outcome |-> index[s]],
       ![d].stage = "done"]
  /\ UNCHANGED <<baseline, pngTmp, index, indexTmp, accepter, accepts, vbCalm>>

\* The module's verdict: a picture that is missing fails nothing.
Verdict(d) ==
  LET outcomes == {differ[d].outcome[s] : s \in DOMAIN differ[d].outcome}
  IN  IF outcomes = {} THEN "skipped"
      ELSE IF "differ" \in outcomes THEN "failed" ELSE "passed"

VbNext ==
  \/ \E a \in Accepter :
       \/ StartAccept(a) \/ CopyPicture(a) \/ ReplacePicture(a) \/ HashPicture(a)
       \/ WriteIndex(a) \/ PublishIndex(a) \/ KillAccept(a)
  \/ \E d \in Differ : StartDiff(d) \/ ComparePair(d) \/ AttributePairs(d)

VbSpec == VbInit /\ [][VbNext]_vbVars

\* While nobody accepts it, a shot that no killed and no overlapping
\* acceptance was the last to touch has a row in index.json exactly when it
\* has a baseline, and the row's hash is the baseline's: one undisturbed
\* "visual accept" repairs what such an acceptance left.
IndexFollowsBaselines ==
  \A s \in vbCalm :
    (\A a \in Accepting : s \notin accepter[a].all) => index[s] = baseline[s]

\* A comparison no acceptance overlapped attributes each such shot to the very
\* picture it compared it with, and passes only if every shot that has a
\* baseline and was captured looks like its baseline.
ComparisonIsSound ==
  \A d \in Differ :
    (differ[d].stage = "done" /\ ~differ[d].met) =>
      /\ \A s \in DOMAIN differ[d].seen \cap differ[d].calm : differ[d].sha[s] = differ[d].seen[s]
      /\ Verdict(d) = "passed" =>
           \A s \in DOMAIN differ[d].seen :
             Blank \in {differ[d].seen[s], differ[d].shown[s]}
               \/ differ[d].seen[s] = differ[d].shown[s]

\* The index tells the truth about the baselines that undisturbed acceptances
\* left, and so does a comparison that no acceptance overlapped.
BaselinesAgree == IndexFollowsBaselines /\ ComparisonIsSound
=============================================================================
