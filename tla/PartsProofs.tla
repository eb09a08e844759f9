---------------------------- MODULE PartsProofs ----------------------------
(***************************************************************************)
(* Proofs about the parts of MCParts: what commands keep on disk without a *)
(* lock (the encrypted sessions of a host, the pictures a project compares *)
(* with, the audit log of a run, the snapshots of an API), what an agent   *)
(* is told of the runs it asked for, and the four audits, whose verdicts   *)
(* follow from what they saw.  They hold for any entries, shots, routes,   *)
(* checks and inputs, any number of processes and threads, and executions  *)
(* of any length.                                                          *)
(***************************************************************************)
EXTENDS AuditsProofs

(***************************************************************************)
(* AuthVault.  A process is on the entries its command has to do with.     *)
(* One that writes them and was met by nobody, or is on an entry that is   *)
(* calm, has the entry to itself: what it has written there, file after    *)
(* file, is still there when it goes on.  On a calm entry without such a   *)
(* process only uses and exports meet, and every use writes back the very  *)
(* session that was settled there.                                         *)
(***************************************************************************)
On(v, e) == v \in Busy /\ e \in Touches(v)

Writes(v) == ~Reads(visitor[v].command)

Sole(v, e) == On(v, e) /\ Writes(v) /\ (calm[e] \/ ~visitor[v].clashed)

AtRest(e) ==
  IF settled[e] = 0 THEN vaultFile[e] = NoFile /\ vaultCard[e] = NoFile
  ELSE /\ vaultFile[e] = [session |-> settled[e], key |-> masterKey]
       /\ vaultCard[e] = settled[e]

\* The stages that hold a session that was read, and those that hold a key.
Holding == {"rekey", "empty", "fill", "card_empty", "card_fill"}
Keyed == {"read"} \cup Holding

StagesOf(command) ==
  CASE command = "login"      -> {"check", "key", "mint", "empty", "fill", "card_empty", "card_fill"}
    [] command = "use"        -> {"check", "key"} \cup Keyed
    [] command = "export"     -> {"check", "key", "read"}
    [] command = "revoke"     -> {"check", "unlink", "card_unlink", "card_only", "prune"}
    [] command = "revoke_all" -> {"unlink", "card_unlink", "prune"}

\* The locals of a process belong to its command.
Fits(v) ==
  v \in Busy =>
    /\ visitor[v].command # "revoke_all" => \E e \in Entry : visitor[v].entries = {e}
    /\ visitor[v].stage \in StagesOf(visitor[v].command)
    /\ visitor[v].command # "login" => ~visitor[v].force
    /\ (visitor[v].command = "login" \/ visitor[v].stage \in Holding) => visitor[v].session # 0
    /\ visitor[v].stage \in Keyed => visitor[v].key # 0

ClashNoticed ==
  \A v, w \in Visitor, e \in Entry :
    v # w /\ On(v, e) /\ On(w, e) => visitor[v].clashed /\ visitor[w].clashed

CalmMeets ==
  \A v, w \in Visitor, e \in Entry :
    calm[e] /\ v # w /\ On(v, e) /\ On(w, e) => ~Writes(v) /\ ~Writes(w)

DirHolds == vaultDir \/ \A e \in Entry : vaultFile[e] = NoFile /\ vaultCard[e] = NoFile

ReaderOK(v) ==
  Reads(visitor[v].command) =>
    /\ \A e \in Entry : On(v, e) /\ calm[e] =>
         /\ visitor[v].stage \in Holding => visitor[v].session = settled[e]
         /\ visitor[v].stage \in Keyed => visitor[v].key = masterKey
         /\ ~visitor[v].clashed /\ visitor[v].stage # "check" => settled[e] # 0
    /\ visitor[v].stage = "failed" => visitor[v].clashed

\* How far a process has come with an entry that it has to itself.
Progress(v, e) ==
  LET t == visitor[v]
  IN  /\ t.stage \in {"check", "key", "mint", "empty"} /\ calm[e] => AtRest(e)
      /\ t.stage \in {"empty", "fill"} => t.key = masterKey
      /\ t.stage = "fill" => vaultFile[e] = CutOff
      /\ t.stage \in {"card_empty", "card_fill"} =>
           vaultFile[e] = [session |-> t.session, key |-> masterKey]
      /\ t.stage = "card_fill" => vaultCard[e] = CutOff
      /\ t.stage = "unlink" =>
           IF e \in t.entries THEN vaultFile[e] # NoFile /\ (calm[e] => AtRest(e))
                              ELSE vaultFile[e] = NoFile
      /\ t.stage \in {"card_unlink", "card_only", "prune"} => vaultFile[e] = NoFile
      /\ t.stage = "prune" => vaultCard[e] = NoFile /\ settled[e] = 0

WriterOK(v) == \A e \in Entry : Sole(v, e) => Progress(v, e)

\* A calm entry that only readers are on: a file or card cut off is about to be
\* filled again.
InUse(e) ==
  IF settled[e] = 0 THEN vaultFile[e] = NoFile /\ vaultCard[e] = NoFile
  ELSE /\ \/ vaultFile[e] = [session |-> settled[e], key |-> masterKey]
          \/ vaultFile[e] = CutOff /\ \E v \in Visitor : On(v, e) /\ visitor[v].stage = "fill"
       /\ \/ vaultCard[e] = settled[e]
          \/ vaultCard[e] = CutOff /\ \E v \in Visitor : On(v, e) /\ visitor[v].stage = "card_fill"

OnlyRead(e) == \A v \in Visitor : On(v, e) => ~Writes(v)

EntryOK(e) == calm[e] /\ OnlyRead(e) => InUse(e)

AuthInv ==
  /\ AuTypeOK /\ captures <= visits
  /\ \A v \in Visitor : Fits(v) /\ ReaderOK(v) /\ WriterOK(v)
  /\ ClashNoticed /\ CalmMeets /\ DirHolds
  /\ \A e \in Entry : EntryOK(e)
\* What the invariant says of one process.
LEMMA VisitFacts ==
  ASSUME AuthInv, NEW v \in Visitor
  PROVE  /\ visitor \in [Visitor -> Visit] /\ visitor[v] \in Visit
         /\ visitor[v].stage \in AuthStage /\ visitor[v].command \in Command
         /\ visitor[v].entries \subseteq Entry /\ visitor[v].force \in BOOLEAN
         /\ visitor[v].key \in Key /\ visitor[v].session \in Session \cup {0}
         /\ visitor[v].clashed \in BOOLEAN
         /\ v \in Busy <=> visitor[v].stage \notin Resting
  BY DEF AuthInv, AuTypeOK, Visit, Busy

\* A command that has to do with one entry.
LEMMA OwnFacts ==
  ASSUME AuthInv, NEW v \in Busy, visitor[v].command # "revoke_all"
  PROVE  /\ Own(v) \in Entry /\ visitor[v].entries = {Own(v)}
         /\ Touches(v) = {Own(v)}
  <1>1. PICK e \in Entry : visitor[v].entries = {e}
    BY DEF AuthInv, Fits, Busy
  <1>2. Own(v) = e
    BY <1>1 DEF Own
  <1> QED BY <1>1, <1>2 DEF Touches

LEMMA OneEntry ==
  ASSUME AuthInv, NEW v \in Busy, visitor[v].command # "revoke_all"
  PROVE  \E e \in Entry :
           Own(v) = e /\ visitor[v].entries = {e} /\ Touches(v) = {e} /\ On(v, e)
  BY OwnFacts DEF On

LEMMA TouchesEntries ==
  ASSUME AuthInv, NEW v \in Busy PROVE Touches(v) \subseteq Entry
  <1>1. v \in Visitor
    BY DEF Busy
  <1> QED BY <1>1, VisitFacts DEF Touches

\* Where a command goes on, ends and fails.
LEMMA GoFacts ==
  ASSUME AuthInv, NEW v \in Visitor, NEW stage \in AuthStage, Go(v, stage)
  PROVE  /\ visitor' \in [Visitor -> Visit]
         /\ visitor'[v].stage = stage /\ visitor'[v].command = visitor[v].command
         /\ visitor'[v].entries = visitor[v].entries /\ visitor'[v].force = visitor[v].force
         /\ visitor'[v].key = visitor[v].key /\ visitor'[v].session = visitor[v].session
         /\ visitor'[v].clashed = visitor[v].clashed
         /\ \A w \in Visitor \ {v} : visitor'[w] = visitor[w]
  BY VisitFacts DEF Go, Visit

LEMMA LeaveFacts ==
  ASSUME AuthInv, NEW v \in Visitor, Leave(v)
  PROVE  /\ visitor' \in [Visitor -> Visit]
         /\ visitor'[v].stage = "idle" /\ visitor'[v].command = "use"
         /\ \A w \in Visitor \ {v} : visitor'[w] = visitor[w]
  <1>1. Gone \in Visit /\ Gone.stage = "idle" /\ Gone.command = "use"
    BY MaxVisitsIsNat DEF Gone, Visit, AuthStage, Command, Key, Session
  <1> QED BY <1>1, VisitFacts DEF Leave

LEMMA FailFacts ==
  ASSUME AuthInv, NEW v \in Visitor, Own(v) \in Entry, Fail(v)
  PROVE  /\ visitor' \in [Visitor -> Visit]
         /\ visitor'[v].stage = "failed" /\ visitor'[v].command = visitor[v].command
         /\ visitor'[v].clashed = (visitor[v].clashed \/ ~calm[Own(v)])
         /\ \A w \in Visitor \ {v} : visitor'[w] = visitor[w]
  <1> DEFINE c == visitor[v].clashed \/ ~calm[Own(v)]
  <1> DEFINE m == [Gone EXCEPT !.stage = "failed", !.command = visitor[v].command, !.clashed = c]
  <1>1. visitor' = [visitor EXCEPT ![v] = m]
    BY DEF Fail
  <1>2. c \in BOOLEAN
    OBVIOUS
  <1> HIDE DEF c
  <1>3. Gone \in Visit
    BY MaxVisitsIsNat DEF Gone, Visit, AuthStage, Command, Key, Session
  <1>4. m \in Visit /\ m.stage = "failed" /\ m.command = visitor[v].command /\ m.clashed = c
    <2>1. "failed" \in AuthStage /\ visitor[v].command \in Command
      BY VisitFacts DEF AuthStage
    <2> QED BY <1>2, <1>3, <2>1 DEF Visit
  <1> HIDE DEF m
  <1> QED BY <1>1, <1>4, VisitFacts DEF c

\* An entry one process has to itself.
LEMMA SoleAlone ==
  ASSUME AuthInv, NEW v \in Visitor, NEW w \in Visitor, NEW e \in Entry, Sole(v, e), On(w, e)
  PROVE  w = v
  BY DEF AuthInv, ClashNoticed, CalmMeets, Sole

\* What a process that is on an entry may do to it without disturbing the
\* others: it is met by nobody there, or settles nothing.
LEMMA StepKeeps ==
  ASSUME AuthInv, AuTypeOK', captures' = captures, visits' = visits, masterKey' = masterKey,
         NEW v \in Visitor, v \in Busy,
         \A w \in Visitor \ {v} : visitor'[w] = visitor[w],
         v \in Busy' => /\ visitor'[v].command = visitor[v].command
                        /\ visitor'[v].clashed = visitor[v].clashed
                        /\ Touches(v)' = Touches(v),
         \A x \in Entry \ Touches(v) : /\ vaultFile'[x] = vaultFile[x] /\ vaultCard'[x] = vaultCard[x]
                                       /\ settled'[x] = settled[x],
         \A x \in Entry : calm'[x] => calm[x] \/ Sole(v, x),
         ~Writes(v) => settled' = settled,
         Fits(v)', ReaderOK(v)', WriterOK(v)', DirHolds',
         \A x \in Touches(v) : EntryOK(x)'
  PROVE  AuthInv'
  <1>1. \A w \in Visitor \ {v}, e \in Entry :
          /\ On(w, e)' <=> On(w, e)
          /\ Writes(w)' <=> Writes(w)
    BY DEF On, Busy, Touches, Writes
  <1>2. \A e \in Entry : On(v, e)' => On(v, e)
    BY DEF On
  <1>3. \A w \in Visitor, e \in Entry : On(w, e)' => /\ Writes(w)' <=> Writes(w)
                                                     /\ visitor'[w].clashed = visitor[w].clashed
    BY <1>1 DEF On, Writes
  <1>4. \A w \in Visitor \ {v}, e \in Entry : On(w, e)' /\ calm'[e] => calm[e]
    BY <1>1, SoleAlone
  <1>5. ClashNoticed'
    <2> SUFFICES ASSUME NEW a \in Visitor, NEW b \in Visitor, NEW e \in Entry,
                        a # b, On(a, e)', On(b, e)'
                 PROVE  visitor'[a].clashed /\ visitor'[b].clashed
      BY DEF ClashNoticed
    <2>1. On(a, e) /\ On(b, e)
      BY <1>1, <1>2
    <2> QED BY <2>1, <1>3 DEF AuthInv, ClashNoticed
  <1>6. CalmMeets'
    <2> SUFFICES ASSUME NEW a \in Visitor, NEW b \in Visitor, NEW e \in Entry,
                        calm'[e], a # b, On(a, e)', On(b, e)'
                 PROVE  ~Writes(a)' /\ ~Writes(b)'
      BY DEF CalmMeets
    <2>1. On(a, e) /\ On(b, e)
      BY <1>1, <1>2
    <2>2. calm[e]
      BY <1>4
    <2> QED BY <2>1, <2>2, <1>3 DEF AuthInv, CalmMeets
  <1>7. ASSUME NEW w \in Visitor \ {v} PROVE Fits(w)'
    BY DEF AuthInv, Fits, Busy
  <1>8. ASSUME NEW w \in Visitor \ {v} PROVE ReaderOK(w)'
    <2>1. ASSUME NEW e \in Entry, Reads(visitor[w].command), On(w, e)', calm'[e]
          PROVE  On(w, e) /\ calm[e] /\ settled'[e] = settled[e]
      <3>1. On(w, e) /\ calm[e]
        BY <2>1, <1>1, <1>4
      <3>2. CASE e \in Touches(v)
        <4>1. On(v, e)
          BY <3>2 DEF On
        <4>2. ~Writes(v)
          BY <3>1, <4>1 DEF AuthInv, CalmMeets
        <4> QED BY <3>1, <4>2
      <3>3. CASE e \notin Touches(v)
        BY <3>1, <3>3
      <3> QED BY <3>2, <3>3
    <2>2. visitor'[w] = visitor[w]
      OBVIOUS
    <2> QED BY <2>1, <2>2 DEF AuthInv, ReaderOK
  <1>9. ASSUME NEW w \in Visitor \ {v} PROVE WriterOK(w)'
    <2> SUFFICES ASSUME NEW e \in Entry, Sole(w, e)' PROVE Progress(w, e)'
      BY DEF WriterOK
    <2>1. visitor'[w] = visitor[w]
      OBVIOUS
    <2>2. Sole(w, e)
      BY <2>1, <1>1, <1>4 DEF Sole
    <2>3. e \notin Touches(v)
      BY <2>2, SoleAlone DEF On
    <2>4. calm'[e] => calm[e]
      BY <2>2, <1>1, <1>4 DEF Sole
    <2>5. Progress(w, e)
      BY <2>2 DEF AuthInv, WriterOK
    <2>6. vaultFile'[e] = vaultFile[e] /\ vaultCard'[e] = vaultCard[e] /\ settled'[e] = settled[e]
      BY <2>3
    <2> QED BY <2>1, <2>4, <2>5, <2>6 DEF Progress, AtRest
  <1>10. ASSUME NEW e \in Entry \ Touches(v) PROVE EntryOK(e)'
    <2> SUFFICES ASSUME calm'[e], OnlyRead(e)' PROVE InUse(e)'
      BY DEF EntryOK
    <2>1. ~On(v, e) /\ ~Sole(v, e)
      BY DEF On, Sole
    <2>2. calm[e] /\ OnlyRead(e)
      BY <2>1, <1>1 DEF OnlyRead
    <2>3. InUse(e)
      BY <2>2 DEF AuthInv, EntryOK
    <2>4. vaultFile'[e] = vaultFile[e] /\ vaultCard'[e] = vaultCard[e] /\ settled'[e] = settled[e]
      OBVIOUS
    <2>5. \A w \in Visitor : On(w, e) => On(w, e)' /\ visitor'[w].stage = visitor[w].stage
      BY <2>1, <1>1
    <2> QED BY <2>3, <2>4, <2>5 DEF InUse
  <1>11. \A e \in Entry : EntryOK(e)'
    BY <1>10
  <1>12. \A w \in Visitor : Fits(w)' /\ ReaderOK(w)' /\ WriterOK(w)'
    BY <1>7, <1>8, <1>9
  <1> QED BY <1>5, <1>6, <1>11, <1>12 DEF AuthInv
\* An entry where nothing happens, while a reader of it goes on or leaves.
LEMMA QuietEntry ==
  ASSUME AuthInv, NEW v \in Visitor, NEW e \in Entry, ~Writes(v),
         visitor[v].stage \notin {"fill", "card_fill"},
         vaultFile'[e] = vaultFile[e], vaultCard'[e] = vaultCard[e], settled'[e] = settled[e],
         masterKey' = masterKey, calm'[e] => calm[e],
         \A w \in Visitor \ {v} : visitor'[w] = visitor[w]
  PROVE  EntryOK(e)'
  <1> SUFFICES ASSUME calm'[e], OnlyRead(e)' PROVE InUse(e)'
    BY DEF EntryOK
  <1>1. \A w \in Visitor \ {v} : /\ On(w, e)' <=> On(w, e)
                                 /\ Writes(w)' <=> Writes(w)
    BY DEF On, Busy, Touches, Writes
  <1>2. OnlyRead(e)
    BY <1>1 DEF OnlyRead
  <1>3. InUse(e)
    BY <1>2 DEF AuthInv, EntryOK
  <1>4. \A w \in Visitor : On(w, e) /\ visitor[w].stage \in {"fill", "card_fill"} =>
                             On(w, e)' /\ visitor'[w].stage = visitor[w].stage
    BY <1>1
  <1> QED BY <1>3, <1>4 DEF InUse

\* An entry that its writer is still on, or that lies there as it should.
LEMMA WriterEntry ==
  ASSUME NEW v \in Visitor, NEW e \in Entry, On(v, e)', Writes(v)' PROVE EntryOK(e)'
  BY DEF EntryOK, OnlyRead
LEMMA RestEntry ==
  ASSUME NEW e \in Entry, calm'[e] => AtRest(e)' PROVE EntryOK(e)'
  BY DEF EntryOK, AtRest, InUse

\* A calm entry that a reader is on, with a session.
LEMMA ServedEntry ==
  ASSUME AuthInv, NEW v \in Visitor, NEW e \in Entry, On(v, e), ~Writes(v), calm[e]
  PROVE  /\ InUse(e)
         /\ settled[e] # 0 => /\ vaultFile[e] # NoFile /\ vaultCard[e] # NoFile
                              /\ masterKey # 0 /\ vaultDir
                              /\ vaultFile[e] # CutOff =>
                                   vaultFile[e] = [session |-> settled[e], key |-> masterKey]
                              /\ vaultFile[e] = CutOff =>
                                   \E w \in Visitor : On(w, e) /\ visitor[w].stage = "fill"
  <1>1. OnlyRead(e)
    BY DEF AuthInv, CalmMeets, OnlyRead
  <1>2. InUse(e)
    BY <1>1 DEF AuthInv, EntryOK
  <1>3. ASSUME settled[e] # 0
        PROVE  /\ vaultFile[e] # NoFile /\ vaultCard[e] # NoFile
               /\ masterKey # 0 /\ vaultDir
               /\ vaultFile[e] # CutOff => vaultFile[e] = [session |-> settled[e], key |-> masterKey]
               /\ vaultFile[e] = CutOff =>
                    \E w \in Visitor : On(w, e) /\ visitor[w].stage = "fill"
    <2>1. settled[e] \in Nat /\ masterKey \in Nat
      BY MaxVisitsIsNat DEF AuthInv, AuTypeOK, Session, Key
    <2>2. /\ \/ vaultFile[e] = [session |-> settled[e], key |-> masterKey]
             \/ vaultFile[e] = CutOff /\ \E w \in Visitor : On(w, e) /\ visitor[w].stage = "fill"
          /\ vaultCard[e] = settled[e] \/ vaultCard[e] = CutOff
      BY <1>2, <1>3 DEF InUse
    <2>3. [session |-> settled[e], key |-> masterKey] \notin {NoFile, CutOff}
      BY <2>1, FilesDiffer
    <2>4. vaultFile[e] # NoFile /\ vaultCard[e] # NoFile
      BY <2>1, <2>2, <2>3, FilesDiffer
    <2>5. vaultDir
      BY <2>4 DEF AuthInv, DirHolds
    <2>6. masterKey # 0
      <3>1. CASE vaultFile[e] = CutOff
        <4>1. PICK w \in Visitor : On(w, e) /\ visitor[w].stage = "fill"
          BY <2>2, <2>3, <3>1
        <4>2. ~Writes(w)
          BY <4>1, <1>1 DEF OnlyRead
        <4>3. visitor[w].key = masterKey /\ visitor[w].key # 0
          BY <4>1, <4>2, <1>3 DEF AuthInv, ReaderOK, Fits, On, Writes, Keyed, Holding
        <4> QED BY <4>3
      <3>2. CASE vaultFile[e] # CutOff
        <4>1. vaultFile[e] \in [session : Session, key : Key \ {0}]
          BY <2>4, <3>2 DEF AuthInv, AuTypeOK
        <4>2. vaultFile[e].key = masterKey
          BY <2>2, <3>2
        <4> QED BY <4>1, <4>2
      <3> QED BY <3>1, <3>2
    <2> QED BY <2>2, <2>3, <2>4, <2>5, <2>6
  <1> QED BY <1>2, <1>3

\* The look whether the entry is there.
LEMMA CheckKeeps ==
  ASSUME AuthInv, NEW v \in Visitor, CheckEntry(v)
  PROVE  AuthInv'
  <1>1. /\ visitor[v].stage = "check" /\ v \in Busy
        /\ visitor[v].command \in {"login", "use", "export", "revoke"}
        /\ visitor[v].command # "login" => ~visitor[v].force
    <2>1. visitor[v].stage = "check" /\ v \in Busy
      BY DEF CheckEntry, Busy, Resting
    <2> QED BY <2>1, VisitFacts DEF AuthInv, Fits, StagesOf, Command
  <1>2. PICK e \in Entry : Own(v) = e /\ visitor[v].entries = {e} /\ Touches(v) = {e} /\ On(v, e)
    BY <1>1, OneEntry
  <1> DEFINE there == vaultFile[e] # NoFile
  <1> DEFINE login == visitor[v].command = "login"
  <1>3. /\ vaultFile' = vaultFile /\ vaultCard' = vaultCard /\ masterKey' = masterKey
        /\ captures' = captures /\ lapsed' = lapsed /\ visits' = visits /\ settled' = settled
        /\ calm' = calm /\ vaultDir' = (vaultDir \/ login)
        /\ IF visitor[v].command = "revoke" THEN Go(v, IF there THEN "unlink" ELSE "card_only")
           ELSE IF there = login /\ ~visitor[v].force THEN Leave(v) ELSE Go(v, "key")
    BY <1>2 DEF CheckEntry
  <1>4. /\ visitor' \in [Visitor -> Visit]
        /\ \A w \in Visitor \ {v} : visitor'[w] = visitor[w]
        /\ \/ visitor'[v].stage = "idle" /\ visitor'[v].command = "use"
           \/ /\ visitor'[v].command = visitor[v].command /\ visitor'[v].entries = visitor[v].entries
              /\ visitor'[v].force = visitor[v].force /\ visitor'[v].session = visitor[v].session
              /\ visitor'[v].clashed = visitor[v].clashed
              /\ \/ visitor[v].command = "revoke" /\ there /\ visitor'[v].stage = "unlink"
                 \/ visitor[v].command = "revoke" /\ ~there /\ visitor'[v].stage = "card_only"
                 \/ /\ visitor[v].command # "revoke" /\ visitor'[v].stage = "key"
                    /\ ~login => there
    <2>1. "unlink" \in AuthStage /\ "card_only" \in AuthStage /\ "key" \in AuthStage
      BY DEF AuthStage
    <2>2. CASE visitor[v].command = "revoke"
      BY <2>1, <2>2, <1>3, GoFacts
    <2>3. CASE visitor[v].command # "revoke" /\ there = login /\ ~visitor[v].force
      BY <2>3, <1>3, LeaveFacts
    <2>4. CASE visitor[v].command # "revoke" /\ ~(there = login /\ ~visitor[v].force)
      <3>1. Go(v, "key")
        BY <2>4, <1>3
      <3>2. ~login => there
        BY <2>4, <1>1
      <3> QED BY <3>1, <3>2, <2>1, <2>4, GoFacts
    <2> QED BY <2>2, <2>3, <2>4
  <1>5. v \in Busy' => /\ visitor'[v].stage \in {"unlink", "card_only", "key"}
                       /\ visitor'[v].command = visitor[v].command
                       /\ visitor'[v].clashed = visitor[v].clashed
                       /\ visitor'[v].entries = visitor[v].entries
                       /\ Touches(v)' = Touches(v)
    BY <1>4 DEF Busy, Resting, Touches
  <1>6. AuTypeOK'
    <2>1. vaultDir' \in BOOLEAN
      BY <1>3
    <2> QED BY <2>1, <1>3, <1>4 DEF AuthInv, AuTypeOK
  <1>7. Fits(v)'
    BY <1>1, <1>2, <1>4, <1>5 DEF AuthInv, Fits, StagesOf, Holding, Keyed, Busy, Resting
  <1>8. DirHolds'
    BY <1>3 DEF AuthInv, DirHolds
  <1>9. ReaderOK(v)'
    <2> SUFFICES ASSUME Reads(visitor'[v].command), NEW x \in Entry, On(v, x)', calm'[x],
                        ~visitor'[v].clashed
                 PROVE  settled'[x] # 0 /\ visitor'[v].stage = "key"
      BY <1>4, <1>5 DEF ReaderOK, On, Holding, Keyed
    <2>1. v \in Busy' /\ x = e /\ ~Writes(v) /\ visitor[v].command \in {"use", "export"}
      BY <1>2, <1>5 DEF On, Reads, Writes
    <2>2. visitor'[v].stage = "key" /\ there
      BY <2>1, <1>4 DEF Busy, Resting
    <2>3. InUse(e)
      BY <2>1, <1>2, <1>3, ServedEntry
    <2> QED BY <2>1, <2>2, <2>3, <1>3 DEF InUse
  <1>10. calm[e] /\ Writes(v) => AtRest(e)
    BY <1>1, <1>2 DEF AuthInv, WriterOK, Sole, Progress
  <1>11. WriterOK(v)'
    <2> SUFFICES ASSUME NEW x \in Entry, Sole(v, x)' PROVE Progress(v, x)'
      BY DEF WriterOK
    <2>1. v \in Busy' /\ x = e /\ Writes(v)
      BY <1>2, <1>5 DEF Sole, On, Writes
    <2>2. calm[e] => AtRest(e)'
      BY <2>1, <1>3, <1>10 DEF AtRest
    <2>3. visitor'[v].stage = "unlink" => there
      BY <1>4
    <2>4. visitor'[v].stage = "card_only" => ~there
      BY <1>4
    <2> QED BY <2>1, <2>2, <2>3, <2>4, <1>2, <1>3, <1>5 DEF Progress
  <1>12. EntryOK(e)'
    <2>1. CASE ~Writes(v)
      BY <2>1, <1>1, <1>2, <1>3, <1>4, QuietEntry
    <2>2. CASE Writes(v)
      <3>1. calm'[e] => AtRest(e)'
        BY <2>2, <1>3, <1>10 DEF AtRest
      <3> QED BY <3>1, <1>2, RestEntry
    <2> QED BY <2>1, <2>2
  <1> QED BY <1>1, <1>2, <1>3, <1>4, <1>5, <1>6, <1>7, <1>8, <1>9, <1>11, <1>12, StepKeeps
\* A process that only looks goes on, or a reader of them leaves.
LEMMA LookKeeps ==
  ASSUME AuthInv, NEW v \in Visitor, v \in Busy, NEW e \in Entry, Touches(v) = {e},
         visitor[v].stage \notin {"fill", "card_fill"}, Writes(v) => v \in Busy',
         vaultFile' = vaultFile, vaultCard' = vaultCard, vaultDir' = vaultDir,
         masterKey' = masterKey, captures' = captures, lapsed' = lapsed, visits' = visits,
         settled' = settled, calm' = calm,
         visitor' \in [Visitor -> Visit],
         \A w \in Visitor \ {v} : visitor'[w] = visitor[w],
         v \in Busy' => /\ visitor'[v].command = visitor[v].command
                        /\ visitor'[v].clashed = visitor[v].clashed
                        /\ visitor'[v].entries = visitor[v].entries,
         Fits(v)', ReaderOK(v)', WriterOK(v)'
  PROVE  AuthInv'
  <1>1. AuTypeOK'
    BY DEF AuthInv, AuTypeOK
  <1>2. DirHolds'
    BY DEF AuthInv, DirHolds
  <1>3. v \in Busy' => Touches(v)' = Touches(v)
    BY DEF Touches
  <1>4. EntryOK(e)'
    <2>1. CASE ~Writes(v)
      BY <2>1, QuietEntry
    <2>2. CASE Writes(v)
      <3>1. On(v, e)' /\ Writes(v)'
        BY <2>2, <1>3 DEF On, Writes
      <3> QED BY <3>1, WriterEntry
    <2> QED BY <2>1, <2>2
  <1> QED BY <1>1, <1>2, <1>3, <1>4, StepKeeps

\* The key of the keyring is fetched.
LEMMA FetchKeeps ==
  ASSUME AuthInv, NEW v \in Visitor, FetchKey(v)
  PROVE  AuthInv'
  <1>1. /\ visitor[v].stage \in {"key", "rekey"} /\ v \in Busy
        /\ visitor[v].command \in {"login", "use", "export"}
        /\ visitor[v].stage = "rekey" => visitor[v].command = "use"
    <2>1. visitor[v].stage \in {"key", "rekey"} /\ v \in Busy
      BY DEF FetchKey, Busy, Resting
    <2> QED BY <2>1, VisitFacts DEF AuthInv, Fits, StagesOf, Command, Keyed, Holding
  <1>2. PICK e \in Entry : Own(v) = e /\ visitor[v].entries = {e} /\ Touches(v) = {e} /\ On(v, e)
    BY <1>1, OneEntry
  <1> DEFINE login == visitor[v].command = "login"
  <1> DEFINE next == IF login \/ visitor[v].stage = "rekey" THEN "empty" ELSE "read"
  <1>3. /\ vaultFile' = vaultFile /\ vaultCard' = vaultCard /\ vaultDir' = vaultDir
        /\ masterKey' = masterKey /\ captures' = captures /\ lapsed' = lapsed
        /\ visits' = visits /\ settled' = settled /\ calm' = calm
    BY DEF FetchKey
  <1>4. ReaderOK(v) /\ WriterOK(v) /\ Fits(v)
    BY DEF AuthInv
  <1>5. CASE masterKey = 0 /\ login
    <2>1. Go(v, "mint") /\ "mint" \in AuthStage /\ visitor[v].stage = "key"
      BY <1>1, <1>5 DEF FetchKey, AuthStage
    <2>2. /\ visitor' \in [Visitor -> Visit]
          /\ visitor'[v].stage = "mint" /\ visitor'[v].command = visitor[v].command
          /\ visitor'[v].entries = visitor[v].entries /\ visitor'[v].force = visitor[v].force
          /\ visitor'[v].session = visitor[v].session
          /\ visitor'[v].clashed = visitor[v].clashed
          /\ \A w \in Visitor \ {v} : visitor'[w] = visitor[w]
      BY <2>1, GoFacts
    <2>3. v \in Busy'
      BY <2>2 DEF Busy, Resting
    <2>4. Fits(v)'
      BY <1>1, <1>2, <1>4, <1>5, <2>2 DEF Fits, StagesOf, Holding, Keyed
    <2>5. ReaderOK(v)'
      BY <1>5, <2>2 DEF ReaderOK, Reads
    <2>6. WriterOK(v)'
      <3> SUFFICES ASSUME NEW x \in Entry, Sole(v, x)' PROVE Progress(v, x)'
        BY DEF WriterOK
      <3>1. Sole(v, x)
        BY <2>2, <1>1, <1>3 DEF Sole, On, Busy, Resting, Touches, Writes
      <3>2. Progress(v, x)
        BY <3>1, <1>4 DEF WriterOK
      <3> QED BY <3>2, <2>1, <2>2, <1>3 DEF Progress, AtRest
    <2> QED BY <1>1, <1>2, <1>3, <2>1, <2>2, <2>3, <2>4, <2>5, <2>6, LookKeeps
  <1>6. CASE masterKey = 0 /\ ~login
    <2>1. Fail(v) /\ Own(v) \in Entry
      BY <1>2, <1>6 DEF FetchKey
    <2>2. /\ visitor' \in [Visitor -> Visit]
          /\ visitor'[v].stage = "failed" /\ visitor'[v].command = visitor[v].command
          /\ visitor'[v].clashed = (visitor[v].clashed \/ ~calm[Own(v)])
          /\ \A w \in Visitor \ {v} : visitor'[w] = visitor[w]
      BY <2>1, FailFacts
    <2>3. ~Writes(v) /\ v \notin Busy'
      BY <1>1, <1>6, <2>2 DEF Writes, Reads, Busy, Resting
    <2>4. Fits(v)' /\ WriterOK(v)'
      BY <2>3 DEF Fits, WriterOK, Sole, On
    <2>5. visitor[v].clashed \/ ~calm[e]
      <3> SUFFICES ASSUME ~visitor[v].clashed, calm[e] PROVE FALSE
        OBVIOUS
      <3>1. settled[e] # 0
        BY <1>1, <1>2, <1>4, <2>3 DEF ReaderOK, Writes
      <3> QED BY <3>1, <1>2, <1>6, <2>3, ServedEntry
    <2>6. ReaderOK(v)'
      BY <1>2, <2>2, <2>3, <2>5 DEF ReaderOK, On
    <2> QED BY <1>1, <1>2, <1>3, <2>2, <2>3, <2>4, <2>6, LookKeeps
  <1>7. CASE masterKey # 0
    <2>1. visitor' = [visitor EXCEPT ![v].key = masterKey, ![v].stage = next]
      BY <1>7 DEF FetchKey
    <2>2. next \in AuthStage /\ masterKey \in Key
      BY DEF AuthInv, AuTypeOK, AuthStage
    <2>3. next \in {"empty", "read"} /\ (next = "read" <=> ~login /\ visitor[v].stage = "key")
      BY <1>1
    <2> HIDE DEF next
    <2>4. /\ visitor' \in [Visitor -> Visit]
          /\ visitor'[v].stage = next /\ visitor'[v].command = visitor[v].command
          /\ visitor'[v].entries = visitor[v].entries /\ visitor'[v].force = visitor[v].force
          /\ visitor'[v].key = masterKey /\ visitor'[v].session = visitor[v].session
          /\ visitor'[v].clashed = visitor[v].clashed
          /\ \A w \in Visitor \ {v} : visitor'[w] = visitor[w]
      BY <2>1, <2>2, VisitFacts DEF Visit
    <2>5. v \in Busy'
      BY <2>3, <2>4 DEF Busy, Resting
    <2>6. Fits(v)'
      BY <1>1, <1>2, <1>4, <1>7, <2>3, <2>4, <1>3 DEF Fits, StagesOf, Holding, Keyed
    <2>7. ReaderOK(v)'
      <3>1. ASSUME NEW x \in Entry, On(v, x)', calm'[x] PROVE On(v, x) /\ calm[x]
        BY <3>1, <2>4, <1>1, <1>3 DEF On, Touches
      <3> QED BY <3>1, <1>1, <1>3, <1>4, <2>3, <2>4 DEF ReaderOK, Holding, Keyed, Reads
    <2>8. WriterOK(v)'
      <3> SUFFICES ASSUME NEW x \in Entry, Sole(v, x)' PROVE Progress(v, x)'
        BY DEF WriterOK
      <3>1. Sole(v, x) /\ login
        BY <2>4, <1>1, <1>3 DEF Sole, On, Touches, Writes, Reads
      <3>2. Progress(v, x) /\ visitor[v].stage = "key" /\ next = "empty"
        BY <3>1, <1>1, <1>4, <2>3 DEF WriterOK
      <3> QED BY <3>2, <2>4, <1>3 DEF Progress, AtRest
    <2> QED BY <1>1, <1>2, <1>3, <2>4, <2>5, <2>6, <2>7, <2>8, LookKeeps
  <1> QED BY <1>5, <1>6, <1>7

\* The file is decrypted.
LEMMA ReadKeeps ==
  ASSUME AuthInv, NEW v \in Visitor, ReadEntry(v)
  PROVE  AuthInv'
  <1>1. /\ visitor[v].stage = "read" /\ v \in Busy
        /\ visitor[v].command \in {"use", "export"} /\ ~Writes(v)
    <2>1. visitor[v].stage = "read" /\ v \in Busy
      BY DEF ReadEntry, Busy, Resting
    <2> QED BY <2>1, VisitFacts DEF AuthInv, Fits, StagesOf, Command, Keyed, Holding, Writes, Reads
  <1>2. PICK e \in Entry : Own(v) = e /\ visitor[v].entries = {e} /\ Touches(v) = {e} /\ On(v, e)
    BY <1>1, OneEntry
  <1>3. /\ vaultFile' = vaultFile /\ vaultCard' = vaultCard /\ vaultDir' = vaultDir
        /\ masterKey' = masterKey /\ captures' = captures /\ lapsed' = lapsed
        /\ visits' = visits /\ settled' = settled /\ calm' = calm
    BY DEF ReadEntry
  <1>4. ReaderOK(v) /\ WriterOK(v) /\ Fits(v)
    BY DEF AuthInv
  <1> DEFINE file == vaultFile[e]
  <1>5. CASE file \in {NoFile, CutOff} \/ file.key # visitor[v].key
    <2>1. Fail(v) /\ Own(v) \in Entry
      BY <1>2, <1>5 DEF ReadEntry
    <2>2. /\ visitor' \in [Visitor -> Visit]
          /\ visitor'[v].stage = "failed" /\ visitor'[v].command = visitor[v].command
          /\ visitor'[v].clashed = (visitor[v].clashed \/ ~calm[Own(v)])
          /\ \A w \in Visitor \ {v} : visitor'[w] = visitor[w]
      BY <2>1, FailFacts
    <2>3. v \notin Busy'
      BY <2>2 DEF Busy, Resting
    <2>4. Fits(v)' /\ WriterOK(v)'
      BY <2>3 DEF Fits, WriterOK, Sole, On
    <2>5. visitor[v].clashed \/ ~calm[e]
      <3> SUFFICES ASSUME ~visitor[v].clashed, calm[e] PROVE FALSE
        OBVIOUS
      <3>1. settled[e] # 0 /\ visitor[v].key = masterKey
        BY <1>1, <1>2, <1>4 DEF ReaderOK, Writes, Keyed
      <3>2. CASE file = CutOff
        <4>1. PICK w \in Visitor : On(w, e) /\ visitor[w].stage = "fill"
          BY <3>1, <3>2, <1>1, <1>2, ServedEntry
        <4>2. w # v
          BY <4>1, <1>1
        <4> QED BY <4>1, <4>2, <1>2 DEF AuthInv, ClashNoticed
      <3>3. CASE file # CutOff
        <4>1. file = [session |-> settled[e], key |-> masterKey] /\ file # NoFile
          BY <3>1, <3>3, <1>1, <1>2, ServedEntry
        <4> QED BY <4>1, <3>1, <3>3, <1>5
      <3> QED BY <3>2, <3>3
    <2>6. ReaderOK(v)'
      BY <1>2, <2>2, <2>3, <2>5 DEF ReaderOK, On
    <2> QED BY <1>1, <1>2, <1>3, <2>2, <2>3, <2>4, <2>6, LookKeeps
  <1>6. CASE /\ ~(file \in {NoFile, CutOff} \/ file.key # visitor[v].key)
             /\ file.session \in lapsed \/ visitor[v].command = "export"
    <2>1. Leave(v)
      BY <1>2, <1>6 DEF ReadEntry
    <2>2. /\ visitor' \in [Visitor -> Visit]
          /\ visitor'[v].stage = "idle"
          /\ \A w \in Visitor \ {v} : visitor'[w] = visitor[w]
      BY <2>1, LeaveFacts
    <2>3. v \notin Busy'
      BY <2>2 DEF Busy, Resting
    <2>4. Fits(v)' /\ WriterOK(v)' /\ ReaderOK(v)'
      BY <2>2, <2>3 DEF Fits, WriterOK, Sole, On, ReaderOK
    <2> QED BY <1>1, <1>2, <1>3, <2>2, <2>3, <2>4, LookKeeps
  <1>7. CASE /\ ~(file \in {NoFile, CutOff} \/ file.key # visitor[v].key)
             /\ ~(file.session \in lapsed \/ visitor[v].command = "export")
    <2>1. visitor' = [visitor EXCEPT ![v].stage = "rekey", ![v].session = file.session]
      BY <1>2, <1>7 DEF ReadEntry
    <2>2. "rekey" \in AuthStage
      BY DEF AuthStage
    <2>3. file.session \in Session /\ file.session # 0
      <3>1. file \in [session : Session, key : Key \ {0}]
        BY <1>7 DEF AuthInv, AuTypeOK
      <3> QED BY <3>1 DEF Session
    <2>4. /\ visitor' \in [Visitor -> Visit]
          /\ visitor'[v].stage = "rekey" /\ visitor'[v].command = visitor[v].command
          /\ visitor'[v].entries = visitor[v].entries /\ visitor'[v].force = visitor[v].force
          /\ visitor'[v].key = visitor[v].key /\ visitor'[v].session = file.session
          /\ visitor'[v].clashed = visitor[v].clashed
          /\ \A w \in Visitor \ {v} : visitor'[w] = visitor[w]
      BY <2>1, <2>2, <2>3, VisitFacts DEF Visit
    <2>5. v \in Busy'
      BY <2>4 DEF Busy, Resting
    <2>6. Fits(v)'
      BY <1>1, <1>2, <1>4, <1>7, <2>3, <2>4, <1>3 DEF Fits, StagesOf, Holding, Keyed
    <2>7. ReaderOK(v)'
      <3>1. ASSUME NEW x \in Entry, On(v, x)', calm'[x] PROVE x = e /\ On(v, x) /\ calm[x]
        BY <3>1, <2>4, <1>1, <1>2, <1>3 DEF On, Touches
      <3>2. calm[e] => settled[e] = file.session
        <4> SUFFICES ASSUME calm[e] PROVE settled[e] = file.session
          OBVIOUS
        <4>1. settled[e] # 0
          BY <1>1, <1>2, <1>7, ServedEntry DEF InUse
        <4>2. file = [session |-> settled[e], key |-> masterKey]
          BY <4>1, <1>1, <1>2, <1>7, ServedEntry
        <4> QED BY <4>2
      <3> QED BY <3>1, <3>2, <1>1, <1>3, <1>4, <2>3, <2>4 DEF ReaderOK, Holding, Keyed, Reads
    <2>8. WriterOK(v)'
      BY <2>4, <1>1 DEF WriterOK, Sole, Writes
    <2> QED BY <1>1, <1>2, <1>3, <2>4, <2>5, <2>6, <2>7, <2>8, LookKeeps
  <1> QED BY <1>5, <1>6, <1>7
\* A process that writes the file or the card of an entry.
LEMMA WritingFacts ==
  ASSUME AuthInv, NEW v \in Visitor,
         visitor[v].stage \in {"empty", "fill", "card_empty", "card_fill"}
  PROVE  /\ v \in Busy /\ visitor[v].command \in {"login", "use"}
         /\ Writes(v) <=> visitor[v].command = "login"
         /\ visitor[v].session \in Session /\ visitor[v].key \in Key \ {0}
         /\ \A e \in Entry : On(v, e) /\ calm[e] /\ ~Writes(v) =>
              /\ visitor[v].session = settled[e] /\ visitor[v].key = masterKey
              /\ settled[e] # 0
  <1>1. v \in Busy
    BY DEF Busy, Resting
  <1>2. visitor[v].command \in {"login", "use"}
    BY <1>1, VisitFacts DEF AuthInv, Fits, StagesOf, Command, Keyed, Holding
  <1>3. visitor[v].session \in Session /\ visitor[v].key \in Key \ {0}
    BY <1>1, VisitFacts DEF AuthInv, Fits, Keyed, Holding
  <1>4. Writes(v) <=> visitor[v].command = "login"
    BY <1>2 DEF Writes, Reads
  <1>5. visitor[v].session # 0
    BY <1>3 DEF Session
  <1> QED BY <1>1, <1>2, <1>3, <1>4, <1>5 DEF AuthInv, ReaderOK, Writes, Keyed, Holding

\* A write that finds the directory gone.
LEMMA NoRoomKeeps ==
  ASSUME AuthInv, NEW v \in Visitor, visitor[v].stage \in {"empty", "card_empty"},
         NEW e \in Entry, Own(v) = e, Touches(v) = {e}, On(v, e), ~vaultDir, Fail(v),
         vaultFile' = vaultFile, vaultCard' = vaultCard, vaultDir' = vaultDir,
         masterKey' = masterKey, captures' = captures, lapsed' = lapsed, visits' = visits,
         settled' = settled, calm' = calm
  PROVE  AuthInv'
  <1>1. /\ visitor' \in [Visitor -> Visit]
        /\ visitor'[v].stage = "failed" /\ visitor'[v].command = visitor[v].command
        /\ visitor'[v].clashed = (visitor[v].clashed \/ ~calm[Own(v)])
        /\ \A w \in Visitor \ {v} : visitor'[w] = visitor[w]
    BY FailFacts
  <1>2. v \notin Busy' /\ v \in Busy
    BY <1>1 DEF Busy, Resting, On
  <1>3. Fits(v)' /\ WriterOK(v)'
    BY <1>2 DEF Fits, WriterOK, Sole, On
  <1>4. ReaderOK(v)'
    <2>1. calm[e] /\ ~Writes(v) => FALSE
      BY WritingFacts, ServedEntry
    <2> QED BY <2>1, <1>1, <1>2 DEF ReaderOK, On, Writes
  <1>5. DirHolds' /\ AuTypeOK'
    BY <1>1 DEF AuthInv, DirHolds, AuTypeOK
  <1>6. EntryOK(e)'
    <2>1. CASE ~Writes(v)
      BY <2>1, <1>1, QuietEntry
    <2>2. CASE Writes(v)
      <3> SUFFICES ASSUME calm'[e] PROVE AtRest(e)'
        BY RestEntry
      <3>1. Progress(v, e)
        BY <2>2 DEF AuthInv, WriterOK, Sole
      <3>2. CASE visitor[v].stage = "empty"
        BY <3>1, <3>2 DEF Progress, AtRest
      <3>3. CASE visitor[v].stage = "card_empty"
        <4>1. vaultFile[e] = [session |-> visitor[v].session, key |-> masterKey]
          BY <3>1, <3>3 DEF Progress
        <4>2. visitor[v].session \in Nat /\ masterKey \in Nat
          BY WritingFacts, MaxVisitsIsNat DEF AuthInv, AuTypeOK, Key, Session
        <4>3. vaultFile[e] # NoFile
          BY <4>1, <4>2, FilesDiffer
        <4> QED BY <4>3 DEF AuthInv, DirHolds
      <3> QED BY <3>2, <3>3
    <2> QED BY <2>1, <2>2
  <1> QED BY <1>1, <1>2, <1>3, <1>4, <1>5, <1>6, StepKeeps

\* The file is opened and with that emptied.
LEMMA EmptyFileKeeps ==
  ASSUME AuthInv, NEW v \in Visitor, EmptyFile(v)
  PROVE  AuthInv'
  <1>1. /\ visitor[v].stage = "empty" /\ v \in Busy /\ visitor[v].command \in {"login", "use"}
        /\ Writes(v) <=> visitor[v].command = "login"
    BY WritingFacts DEF EmptyFile
  <1>2. PICK e \in Entry : Own(v) = e /\ visitor[v].entries = {e} /\ Touches(v) = {e} /\ On(v, e)
    BY <1>1, OneEntry
  <1>3. /\ vaultCard' = vaultCard /\ vaultDir' = vaultDir
        /\ masterKey' = masterKey /\ captures' = captures /\ lapsed' = lapsed
        /\ visits' = visits /\ settled' = settled /\ calm' = calm
    BY DEF EmptyFile
  <1>4. CASE ~vaultDir
    BY <1>1, <1>2, <1>3, <1>4, NoRoomKeeps DEF EmptyFile
  <1>5. CASE vaultDir
    <2>1. vaultFile' = [vaultFile EXCEPT ![e] = CutOff] /\ Go(v, "fill") /\ "fill" \in AuthStage
      BY <1>2, <1>5 DEF EmptyFile, AuthStage
    <2>2. /\ visitor' \in [Visitor -> Visit]
          /\ visitor'[v].stage = "fill" /\ visitor'[v].command = visitor[v].command
          /\ visitor'[v].entries = visitor[v].entries /\ visitor'[v].force = visitor[v].force
          /\ visitor'[v].key = visitor[v].key /\ visitor'[v].session = visitor[v].session
          /\ visitor'[v].clashed = visitor[v].clashed
          /\ \A w \in Visitor \ {v} : visitor'[w] = visitor[w]
      BY <2>1, GoFacts
    <2>3. v \in Busy' /\ Touches(v)' = Touches(v) /\ On(v, e)' /\ Writes(v)' = Writes(v)
      BY <1>2, <2>2 DEF Busy, Resting, Touches, On, Writes
    <2>4. /\ vaultFile'[e] = CutOff
          /\ \A x \in Entry \ Touches(v) : vaultFile'[x] = vaultFile[x]
      BY <2>1, <1>2 DEF AuthInv, AuTypeOK
    <2>5. AuTypeOK'
      <3>1. vaultFile' \in [Entry -> {NoFile, CutOff} \cup [session : Session, key : Key \ {0}]]
        BY <2>1 DEF AuthInv, AuTypeOK
      <3> QED BY <3>1, <2>2, <1>3 DEF AuthInv, AuTypeOK
    <2>6. Fits(v)'
      BY <1>1, <2>2, <2>3 DEF AuthInv, Fits, StagesOf, Holding, Keyed
    <2>7. ReaderOK(v)'
      BY <1>1, <1>3, <2>2, <2>3 DEF AuthInv, ReaderOK, On, Touches, Holding, Keyed
    <2>8. WriterOK(v)'
      <3> SUFFICES ASSUME NEW x \in Entry, Sole(v, x)' PROVE Progress(v, x)'
        BY DEF WriterOK
      <3>1. Sole(v, x) /\ x = e
        BY <1>1, <1>2, <1>3, <2>2, <2>3 DEF Sole, On, Writes
      <3>2. Progress(v, x)
        BY <3>1 DEF AuthInv, WriterOK
      <3> QED BY <3>1, <3>2, <1>1, <1>3, <2>2, <2>4 DEF Progress
    <2>9. EntryOK(e)'
      <3>1. CASE Writes(v)
        BY <3>1, <2>3, WriterEntry
      <3>2. CASE ~Writes(v)
        <4> SUFFICES ASSUME calm'[e], OnlyRead(e)' PROVE InUse(e)'
          BY DEF EntryOK
        <4>1. settled[e] # 0 /\ InUse(e)
          BY <3>2, <1>1, <1>2, <1>3, WritingFacts, ServedEntry
        <4>2. \A w \in Visitor : On(w, e) /\ visitor[w].stage = "card_fill" =>
                                   On(w, e)' /\ visitor'[w].stage = "card_fill"
          BY <1>1, <2>2 DEF On, Busy, Touches
        <4> QED BY <4>1, <4>2, <1>3, <2>2, <2>3, <2>4 DEF InUse
      <3> QED BY <3>1, <3>2
    <2>10. DirHolds'
      BY <1>3, <1>5 DEF DirHolds
    <2> QED BY <1>1, <1>2, <1>3, <2>2, <2>3, <2>4, <2>5, <2>6, <2>7, <2>8, <2>9, <2>10, StepKeeps
  <1> QED BY <1>4, <1>5

\* The bytes of the file arrive.
LEMMA FillFileKeeps ==
  ASSUME AuthInv, NEW v \in Visitor, FillFile(v)
  PROVE  AuthInv'
  <1>1. /\ visitor[v].stage = "fill" /\ v \in Busy /\ visitor[v].command \in {"login", "use"}
        /\ Writes(v) <=> visitor[v].command = "login"
        /\ visitor[v].session \in Session /\ visitor[v].key \in Key \ {0}
    BY WritingFacts DEF FillFile
  <1>2. PICK e \in Entry : Own(v) = e /\ visitor[v].entries = {e} /\ Touches(v) = {e} /\ On(v, e)
    BY <1>1, OneEntry
  <1>3. /\ vaultCard' = vaultCard /\ vaultDir' = vaultDir
        /\ masterKey' = masterKey /\ captures' = captures /\ lapsed' = lapsed
        /\ visits' = visits /\ settled' = settled /\ calm' = calm
    BY DEF FillFile
  <1>4. Go(v, "card_empty") /\ "card_empty" \in AuthStage
    BY DEF FillFile, AuthStage
  <1>5. /\ visitor' \in [Visitor -> Visit]
        /\ visitor'[v].stage = "card_empty" /\ visitor'[v].command = visitor[v].command
        /\ visitor'[v].entries = visitor[v].entries /\ visitor'[v].force = visitor[v].force
        /\ visitor'[v].key = visitor[v].key /\ visitor'[v].session = visitor[v].session
        /\ visitor'[v].clashed = visitor[v].clashed
        /\ \A w \in Visitor \ {v} : visitor'[w] = visitor[w]
    BY <1>4, GoFacts
  <1>6. v \in Busy' /\ Touches(v)' = Touches(v) /\ On(v, e)' /\ Writes(v)' = Writes(v)
    BY <1>2, <1>5 DEF Busy, Resting, Touches, On, Writes
  <1> DEFINE bytes == [session |-> visitor[v].session, key |-> visitor[v].key]
  <1>7. bytes \in [session : Session, key : Key \ {0}]
    BY <1>1
  <1>8. vaultFile' = IF vaultFile[e] = NoFile THEN vaultFile ELSE [vaultFile EXCEPT ![e] = bytes]
    BY <1>2 DEF FillFile
  <1>9. /\ vaultFile[e] # NoFile => vaultFile'[e] = bytes
        /\ vaultFile[e] = NoFile => vaultFile'[e] = NoFile
        /\ \A x \in Entry \ Touches(v) : vaultFile'[x] = vaultFile[x]
        /\ vaultFile' \in [Entry -> {NoFile, CutOff} \cup [session : Session, key : Key \ {0}]]
    BY <1>2, <1>7, <1>8 DEF AuthInv, AuTypeOK
  <1>10. AuTypeOK'
    BY <1>3, <1>5, <1>9 DEF AuthInv, AuTypeOK
  <1>11. Fits(v)'
    BY <1>1, <1>5, <1>6 DEF AuthInv, Fits, StagesOf, Holding, Keyed
  <1>12. ReaderOK(v)'
    BY <1>1, <1>3, <1>5, <1>6 DEF AuthInv, ReaderOK, On, Touches, Holding, Keyed
  <1>13. WriterOK(v)'
    <2> SUFFICES ASSUME NEW x \in Entry, Sole(v, x)' PROVE Progress(v, x)'
      BY DEF WriterOK
    <2>1. Sole(v, x) /\ x = e
      BY <1>1, <1>2, <1>3, <1>5, <1>6 DEF Sole, On, Writes
    <2>2. Progress(v, x)
      BY <2>1 DEF AuthInv, WriterOK
    <2>3. vaultFile[e] = CutOff /\ visitor[v].key = masterKey
      BY <2>1, <2>2, <1>1 DEF Progress
    <2>4. vaultFile'[e] = [session |-> visitor[v].session, key |-> masterKey]
      BY <2>3, <1>9, FilesDiffer
    <2> QED BY <2>1, <2>4, <1>3, <1>5 DEF Progress
  <1>14. EntryOK(e)'
    <2>1. CASE Writes(v)
      BY <2>1, <1>6, WriterEntry
    <2>2. CASE ~Writes(v)
      <3> SUFFICES ASSUME calm'[e], OnlyRead(e)' PROVE InUse(e)'
        BY DEF EntryOK
      <3>1. settled[e] # 0 /\ InUse(e) /\ vaultFile[e] # NoFile
        BY <2>2, <1>1, <1>2, <1>3, WritingFacts, ServedEntry
      <3>2. vaultFile'[e] = [session |-> settled[e], key |-> masterKey]
        BY <3>1, <2>2, <1>1, <1>2, <1>3, <1>9, WritingFacts
      <3>3. \A w \in Visitor : On(w, e) /\ visitor[w].stage = "card_fill" =>
                                 On(w, e)' /\ visitor'[w].stage = "card_fill"
        BY <1>1, <1>5 DEF On, Busy, Touches
      <3> QED BY <3>1, <3>2, <3>3, <1>3 DEF InUse
    <2> QED BY <2>1, <2>2
  <1>15. DirHolds'
    BY <1>2, <1>3, <1>9 DEF AuthInv, DirHolds
  <1> QED BY <1>1, <1>2, <1>3, <1>5, <1>6, <1>9, <1>10, <1>11, <1>12, <1>13, <1>14, <1>15, StepKeeps
\* The card is opened and with that emptied.
LEMMA EmptyCardKeeps ==
  ASSUME AuthInv, NEW v \in Visitor, EmptyCard(v)
  PROVE  AuthInv'
  <1>1. /\ visitor[v].stage = "card_empty" /\ v \in Busy /\ visitor[v].command \in {"login", "use"}
        /\ Writes(v) <=> visitor[v].command = "login"
    BY WritingFacts DEF EmptyCard
  <1>2. PICK e \in Entry : Own(v) = e /\ visitor[v].entries = {e} /\ Touches(v) = {e} /\ On(v, e)
    BY <1>1, OneEntry
  <1>3. /\ vaultFile' = vaultFile /\ vaultDir' = vaultDir
        /\ masterKey' = masterKey /\ captures' = captures /\ lapsed' = lapsed
        /\ visits' = visits /\ settled' = settled /\ calm' = calm
    BY DEF EmptyCard
  <1>4. CASE ~vaultDir
    BY <1>1, <1>2, <1>3, <1>4, NoRoomKeeps DEF EmptyCard
  <1>5. CASE vaultDir
    <2>1. vaultCard' = [vaultCard EXCEPT ![e] = CutOff] /\ Go(v, "card_fill")
          /\ "card_fill" \in AuthStage
      BY <1>2, <1>5 DEF EmptyCard, AuthStage
    <2>2. /\ visitor' \in [Visitor -> Visit]
          /\ visitor'[v].stage = "card_fill" /\ visitor'[v].command = visitor[v].command
          /\ visitor'[v].entries = visitor[v].entries /\ visitor'[v].force = visitor[v].force
          /\ visitor'[v].key = visitor[v].key /\ visitor'[v].session = visitor[v].session
          /\ visitor'[v].clashed = visitor[v].clashed
          /\ \A w \in Visitor \ {v} : visitor'[w] = visitor[w]
      BY <2>1, GoFacts
    <2>3. v \in Busy' /\ Touches(v)' = Touches(v) /\ On(v, e)' /\ Writes(v)' = Writes(v)
      BY <1>2, <2>2 DEF Busy, Resting, Touches, On, Writes
    <2>4. /\ vaultCard'[e] = CutOff
          /\ \A x \in Entry \ Touches(v) : vaultCard'[x] = vaultCard[x]
      BY <2>1, <1>2 DEF AuthInv, AuTypeOK
    <2>5. AuTypeOK'
      <3>1. vaultCard' \in [Entry -> {NoFile, CutOff} \cup Session]
        BY <2>1 DEF AuthInv, AuTypeOK
      <3> QED BY <3>1, <2>2, <1>3 DEF AuthInv, AuTypeOK
    <2>6. Fits(v)'
      BY <1>1, <2>2, <2>3 DEF AuthInv, Fits, StagesOf, Holding, Keyed
    <2>7. ReaderOK(v)'
      BY <1>1, <1>3, <2>2, <2>3 DEF AuthInv, ReaderOK, On, Touches, Holding, Keyed
    <2>8. WriterOK(v)'
      <3> SUFFICES ASSUME NEW x \in Entry, Sole(v, x)' PROVE Progress(v, x)'
        BY DEF WriterOK
      <3>1. Sole(v, x) /\ x = e
        BY <1>1, <1>2, <1>3, <2>2, <2>3 DEF Sole, On, Writes
      <3>2. Progress(v, x)
        BY <3>1 DEF AuthInv, WriterOK
      <3> QED BY <3>1, <3>2, <1>1, <1>3, <2>2, <2>4 DEF Progress
    <2>9. EntryOK(e)'
      <3>1. CASE Writes(v)
        BY <3>1, <2>3, WriterEntry
      <3>2. CASE ~Writes(v)
        <4> SUFFICES ASSUME calm'[e], OnlyRead(e)' PROVE InUse(e)'
          BY DEF EntryOK
        <4>1. settled[e] # 0 /\ InUse(e)
          BY <3>2, <1>1, <1>2, <1>3, WritingFacts, ServedEntry
        <4>2. \A w \in Visitor : On(w, e) /\ visitor[w].stage = "fill" =>
                                   On(w, e)' /\ visitor'[w].stage = "fill"
          BY <1>1, <2>2 DEF On, Busy, Touches
        <4> QED BY <4>1, <4>2, <1>3, <2>2, <2>3, <2>4 DEF InUse
      <3> QED BY <3>1, <3>2
    <2>10. DirHolds'
      BY <1>3, <1>5 DEF DirHolds
    <2> QED BY <1>1, <1>2, <1>3, <2>2, <2>3, <2>4, <2>5, <2>6, <2>7, <2>8, <2>9, <2>10, StepKeeps
  <1> QED BY <1>4, <1>5

\* The bytes of the card arrive: a login is through, a use as well.
LEMMA FillCardKeeps ==
  ASSUME AuthInv, NEW v \in Visitor, FillCard(v)
  PROVE  AuthInv'
  <1>1. /\ visitor[v].stage = "card_fill" /\ v \in Busy /\ visitor[v].command \in {"login", "use"}
        /\ Writes(v) <=> visitor[v].command = "login"
        /\ visitor[v].session \in Session /\ visitor[v].session # 0
    BY WritingFacts DEF FillCard, Session
  <1>2. PICK e \in Entry : Own(v) = e /\ visitor[v].entries = {e} /\ Touches(v) = {e} /\ On(v, e)
    BY <1>1, OneEntry
  <1>3. /\ vaultFile' = vaultFile /\ vaultDir' = vaultDir
        /\ masterKey' = masterKey /\ captures' = captures /\ lapsed' = lapsed
        /\ visits' = visits
    BY DEF FillCard
  <1>4. /\ visitor' \in [Visitor -> Visit]
        /\ visitor'[v].stage = "idle" /\ visitor'[v].command = "use"
        /\ \A w \in Visitor \ {v} : visitor'[w] = visitor[w]
    BY LeaveFacts DEF FillCard
  <1>5. v \notin Busy'
    BY <1>4 DEF Busy, Resting
  <1>6. Fits(v)' /\ WriterOK(v)' /\ ReaderOK(v)'
    BY <1>4, <1>5 DEF Fits, WriterOK, Sole, On, ReaderOK
  <1>7. /\ vaultCard[e] # NoFile => vaultCard'[e] = visitor[v].session
        /\ vaultCard[e] = NoFile => vaultCard'[e] = NoFile
        /\ \A x \in Entry \ Touches(v) : vaultCard'[x] = vaultCard[x]
        /\ vaultCard' \in [Entry -> {NoFile, CutOff} \cup Session]
    BY <1>1, <1>2 DEF FillCard, AuthInv, AuTypeOK
  <1>8. DirHolds'
    BY <1>2, <1>3, <1>7 DEF AuthInv, DirHolds
  <1>9. CASE ~Writes(v)
    <2>1. settled' = settled /\ calm' = calm
      BY <1>1, <1>9 DEF FillCard
    <2>2. AuTypeOK'
      BY <1>3, <1>4, <1>7, <2>1 DEF AuthInv, AuTypeOK
    <2>3. EntryOK(e)'
      <3> SUFFICES ASSUME calm'[e], OnlyRead(e)' PROVE InUse(e)'
        BY DEF EntryOK
      <3>1. settled[e] # 0 /\ visitor[v].session = settled[e] /\ InUse(e) /\ vaultCard[e] # NoFile
        BY <1>1, <1>2, <1>9, <2>1, WritingFacts, ServedEntry
      <3>2. \A w \in Visitor : On(w, e) /\ visitor[w].stage = "fill" =>
                                 On(w, e)' /\ visitor'[w].stage = "fill"
        BY <1>1, <1>4 DEF On, Busy, Touches
      <3> QED BY <3>1, <3>2, <1>3, <1>7, <2>1 DEF InUse
    <2> QED BY <1>1, <1>2, <1>3, <1>4, <1>5, <1>6, <1>7, <1>8, <2>1, <2>2, <2>3, StepKeeps
  <1>10. CASE Writes(v)
    <2>1. /\ settled' = [settled EXCEPT ![e] = visitor[v].session]
          /\ calm' = [calm EXCEPT ![e] = calm[e] \/ ~visitor[v].clashed]
      BY <1>1, <1>2, <1>10 DEF FillCard
    <2>2. /\ settled'[e] = visitor[v].session /\ settled' \in [Entry -> Session \cup {0}]
          /\ \A x \in Entry \ Touches(v) : settled'[x] = settled[x]
      BY <2>1, <1>1, <1>2 DEF AuthInv, AuTypeOK
    <2>3. /\ calm'[e] => Sole(v, e)
          /\ \A x \in Entry : calm'[x] => calm[x] \/ Sole(v, x)
          /\ calm' \in [Entry -> BOOLEAN]
      <3>1. calm[e] \/ ~visitor[v].clashed => Sole(v, e)
        BY <1>2, <1>10 DEF Sole
      <3>2. (calm[e] \/ ~visitor[v].clashed) \in BOOLEAN
        OBVIOUS
      <3> QED BY <2>1, <3>1, <3>2 DEF AuthInv, AuTypeOK
    <2>4. AuTypeOK'
      BY <1>3, <1>4, <1>7, <2>2, <2>3 DEF AuthInv, AuTypeOK
    <2>5. calm'[e] => AtRest(e)'
      <3> SUFFICES ASSUME calm'[e] PROVE AtRest(e)'
        OBVIOUS
      <3>1. Progress(v, e)
        BY <2>3 DEF AuthInv, WriterOK
      <3>2. /\ vaultFile[e] = [session |-> visitor[v].session, key |-> masterKey]
            /\ vaultCard[e] = CutOff
        BY <3>1, <1>1 DEF Progress
      <3>3. vaultCard'[e] = visitor[v].session
        BY <3>2, <1>7, FilesDiffer
      <3> QED BY <3>2, <3>3, <1>1, <1>3, <2>2 DEF AtRest
    <2>6. EntryOK(e)'
      BY <2>5, RestEntry
    <2> QED BY <1>1, <1>2, <1>3, <1>4, <1>5, <1>6, <1>7, <1>8, <1>10, <2>2, <2>3, <2>4, <2>6, StepKeeps
  <1> QED BY <1>9, <1>10

\* The directory is removed when it is empty.
LEMMA PruneKeeps ==
  ASSUME AuthInv, NEW v \in Visitor, PruneDir(v)
  PROVE  AuthInv'
  <1>1. /\ visitor[v].stage = "prune" /\ v \in Busy
        /\ visitor[v].command \in {"revoke", "revoke_all"} /\ Writes(v)
    <2>1. visitor[v].stage = "prune" /\ v \in Busy
      BY DEF PruneDir, Busy, Resting
    <2> QED BY <2>1, VisitFacts DEF AuthInv, Fits, StagesOf, Command, Keyed, Holding, Writes, Reads
  <1>2. /\ vaultFile' = vaultFile /\ vaultCard' = vaultCard /\ masterKey' = masterKey
        /\ captures' = captures /\ lapsed' = lapsed /\ visits' = visits
        /\ settled' = settled /\ calm' = calm
        /\ vaultDir' = (vaultDir /\ \E e \in Entry : vaultFile[e] # NoFile \/ vaultCard[e] # NoFile)
    BY DEF PruneDir
  <1>3. /\ visitor' \in [Visitor -> Visit]
        /\ visitor'[v].stage = "idle" /\ visitor'[v].command = "use"
        /\ \A w \in Visitor \ {v} : visitor'[w] = visitor[w]
    BY LeaveFacts DEF PruneDir
  <1>4. v \notin Busy'
    BY <1>3 DEF Busy, Resting
  <1>5. Fits(v)' /\ WriterOK(v)' /\ ReaderOK(v)'
    BY <1>3, <1>4 DEF Fits, WriterOK, Sole, On, ReaderOK
  <1>6. DirHolds'
    BY <1>2 DEF AuthInv, DirHolds
  <1>7. AuTypeOK'
    <2>1. vaultDir' \in BOOLEAN
      BY <1>2
    <2> QED BY <2>1, <1>2, <1>3 DEF AuthInv, AuTypeOK
  <1>8. ASSUME NEW x \in Touches(v) PROVE EntryOK(x)'
    <2>1. x \in Entry
      BY <1>1, TouchesEntries
    <2>2. calm[x] => AtRest(x)
      BY <1>1, <2>1 DEF AuthInv, WriterOK, Sole, On, Progress, AtRest
    <2>3. calm'[x] => AtRest(x)'
      BY <2>2, <1>2 DEF AtRest
    <2> QED BY <2>1, <2>3, RestEntry
  <1> QED BY <1>1, <1>2, <1>3, <1>4, <1>5, <1>6, <1>7, <1>8, StepKeeps

\* A process is killed.
LEMMA KillKeeps ==
  ASSUME AuthInv, NEW v \in Visitor, KillVisitor(v)
  PROVE  AuthInv'
  <1>1. v \in Busy /\ Touches(v) \subseteq Entry
    BY TouchesEntries DEF KillVisitor
  <1>2. /\ vaultFile' = vaultFile /\ vaultCard' = vaultCard /\ masterKey' = masterKey
        /\ captures' = captures /\ lapsed' = lapsed /\ visits' = visits
        /\ settled' = settled /\ vaultDir' = vaultDir
    BY DEF KillVisitor
  <1>3. /\ visitor' \in [Visitor -> Visit]
        /\ visitor'[v].stage = "idle" /\ visitor'[v].command = "use"
        /\ \A w \in Visitor \ {v} : visitor'[w] = visitor[w]
    BY LeaveFacts DEF KillVisitor
  <1>4. v \notin Busy'
    BY <1>3 DEF Busy, Resting
  <1>5. Fits(v)' /\ WriterOK(v)' /\ ReaderOK(v)'
    BY <1>3, <1>4 DEF Fits, WriterOK, Sole, On, ReaderOK
  <1>6. /\ \A x \in Entry : calm'[x] => calm[x]
        /\ \A x \in Touches(v) : calm'[x] => visitor[v].command = "export"
        /\ calm' \in [Entry -> BOOLEAN]
    <2>1. calm' = [x \in Entry |-> calm[x] /\ (x \notin Touches(v) \/ visitor[v].command = "export")]
      BY DEF KillVisitor
    <2> QED BY <2>1, <1>1
  <1>7. DirHolds' /\ AuTypeOK'
    BY <1>2, <1>3, <1>6 DEF AuthInv, DirHolds, AuTypeOK
  <1>8. ASSUME NEW x \in Touches(v) PROVE EntryOK(x)'
    <2>1. x \in Entry
      BY <1>1
    <2>2. CASE visitor[v].command = "export"
      <3>1. ~Writes(v) /\ visitor[v].stage \notin {"fill", "card_fill"}
        BY <1>1, <2>2 DEF Writes, Reads, AuthInv, Fits, StagesOf
      <3> QED BY <3>1, <2>1, <1>2, <1>3, <1>6, QuietEntry
    <2>3. CASE visitor[v].command # "export"
      BY <2>1, <2>3, <1>6 DEF EntryOK
    <2> QED BY <2>2, <2>3
  <1> QED BY <1>1, <1>2, <1>3, <1>4, <1>5, <1>6, <1>7, <1>8, StepKeeps

\* A session expires.
LEMMA LapseKeeps ==
  ASSUME AuthInv, Lapse
  PROVE  AuthInv'
  <1>1. /\ vaultFile' = vaultFile /\ vaultCard' = vaultCard /\ masterKey' = masterKey
        /\ captures' = captures /\ visits' = visits /\ visitor' = visitor
        /\ settled' = settled /\ calm' = calm /\ vaultDir' = vaultDir
    BY DEF Lapse
  <1>2. lapsed' \subseteq Session
    <2>1. PICK s \in 1..captures : lapsed' = {s}
      BY DEF Lapse
    <2>2. s \in Session
      BY MaxVisitsIsNat DEF AuthInv, AuTypeOK, Session
    <2> QED BY <2>1, <2>2
  <1>3. AuTypeOK'
    BY <1>1, <1>2 DEF AuthInv, AuTypeOK
  <1> QED BY <1>1, <1>3 DEF AuthInv, Fits, ReaderOK, WriterOK, Progress, AtRest, Sole, On, Busy,
        Touches, Writes, ClashNoticed, CalmMeets, DirHolds, EntryOK, OnlyRead, InUse
\* One file of a revoke or revoke_all is deleted.
LEMMA UnlinkEntryKeeps ==
  ASSUME AuthInv, NEW v \in Visitor, UnlinkEntry(v)
  PROVE  AuthInv'
  <1>1. /\ visitor[v].stage = "unlink" /\ v \in Busy
        /\ visitor[v].command \in {"revoke", "revoke_all"} /\ Writes(v)
    <2>1. visitor[v].stage = "unlink" /\ v \in Busy
      BY DEF UnlinkEntry, Busy, Resting
    <2> QED BY <2>1, VisitFacts DEF AuthInv, Fits, StagesOf, Command, Keyed, Holding, Writes, Reads
  <1>2. /\ vaultCard' = vaultCard /\ masterKey' = masterKey /\ vaultDir' = vaultDir
        /\ captures' = captures /\ lapsed' = lapsed /\ visits' = visits
        /\ settled' = settled
    BY DEF UnlinkEntry
  <1>3. visitor[v].entries \subseteq Entry /\ Touches(v) \subseteq Entry
    BY <1>1, VisitFacts, TouchesEntries
  <1>4. ASSUME NEW x \in Touches(v) PROVE Sole(v, x) <=> calm[x] \/ ~visitor[v].clashed
    BY <1>1, <1>3 DEF Sole, On
  <1>5. CASE visitor[v].entries = {}
    <2>1. vaultFile' = vaultFile /\ calm' = calm /\ Go(v, "card_unlink") /\ "card_unlink" \in AuthStage
      BY <1>5 DEF UnlinkEntry, AuthStage
    <2>2. /\ visitor' \in [Visitor -> Visit]
          /\ visitor'[v].stage = "card_unlink" /\ visitor'[v].command = visitor[v].command
          /\ visitor'[v].entries = visitor[v].entries /\ visitor'[v].force = visitor[v].force
          /\ visitor'[v].key = visitor[v].key /\ visitor'[v].session = visitor[v].session
          /\ visitor'[v].clashed = visitor[v].clashed
          /\ \A w \in Visitor \ {v} : visitor'[w] = visitor[w]
      BY <2>1, GoFacts
    <2>3. v \in Busy' /\ Touches(v)' = Touches(v) /\ Writes(v)' /\ Writes(v)' = Writes(v)
      BY <1>1, <2>2 DEF Busy, Resting, Touches, On, Writes
    <2>4. visitor[v].command = "revoke_all"
      <3>1. CASE visitor[v].command # "revoke_all"
        <4>1. \E e \in Entry : visitor[v].entries = {e}
          BY <1>1, <3>1 DEF AuthInv, Fits
        <4> QED BY <4>1, <1>5
      <3> QED BY <3>1
    <2>5. AuTypeOK' /\ DirHolds'
      BY <2>1, <2>2, <1>2 DEF AuthInv, AuTypeOK, DirHolds
    <2>6. Fits(v)'
      BY <1>1, <2>2, <2>4 DEF AuthInv, Fits, StagesOf, Holding, Keyed
    <2>7. ReaderOK(v)'
      BY <2>3 DEF ReaderOK, Writes
    <2>8. WriterOK(v)'
      <3> SUFFICES ASSUME NEW x \in Entry, Sole(v, x)' PROVE Progress(v, x)'
        BY DEF WriterOK
      <3>1. Sole(v, x)
        BY <1>1, <2>1, <2>2, <2>3 DEF Sole, On
      <3>2. Progress(v, x)
        BY <3>1 DEF AuthInv, WriterOK
      <3>3. vaultFile[x] = NoFile
        BY <3>2, <1>1, <1>5 DEF Progress
      <3> QED BY <3>3, <2>1, <2>2 DEF Progress
    <2>9. ASSUME NEW x \in Touches(v) PROVE EntryOK(x)'
      <3>1. On(v, x)' /\ x \in Entry
        BY <2>3, <1>3 DEF On
      <3> QED BY <3>1, <2>3, WriterEntry
    <2> QED BY <1>1, <1>2, <2>1, <2>2, <2>3, <2>5, <2>6, <2>7, <2>8, <2>9, StepKeeps
  <1>6. CASE visitor[v].entries # {}
    <2> DEFINE all == visitor[v].command = "revoke_all"
    <2>1. PICK e \in visitor[v].entries :
            IF vaultFile[e] = NoFile
            THEN /\ Fail(v)
                 /\ calm' = [x \in Entry |-> calm[x] /\ x \notin Touches(v)]
                 /\ UNCHANGED vaultFile
            ELSE /\ vaultFile' = [vaultFile EXCEPT ![e] = NoFile]
                 /\ visitor' = [visitor EXCEPT ![v].entries = IF all THEN @ \ {e} ELSE @,
                                               ![v].stage = IF all THEN "unlink" ELSE "card_unlink"]
                 /\ UNCHANGED calm
      BY <1>6 DEF UnlinkEntry
    <2>2. e \in Entry /\ e \in Touches(v) /\ Own(v) \in Entry
      BY <1>3, <2>1 DEF Touches, Own
    <2>3. CASE vaultFile[e] = NoFile
      <3>1. Fail(v) /\ vaultFile' = vaultFile
        BY <2>1, <2>3
      <3>2. /\ visitor' \in [Visitor -> Visit]
            /\ visitor'[v].stage = "failed" /\ visitor'[v].command = visitor[v].command
            /\ \A w \in Visitor \ {v} : visitor'[w] = visitor[w]
        BY <3>1, <2>2, FailFacts
      <3>3. v \notin Busy'
        BY <3>2 DEF Busy, Resting
      <3>4. Fits(v)' /\ WriterOK(v)' /\ ReaderOK(v)'
        BY <1>1, <3>2, <3>3 DEF Fits, WriterOK, Sole, On, ReaderOK, Reads
      <3>5. /\ \A x \in Entry : calm'[x] => calm[x]
            /\ \A x \in Touches(v) : ~calm'[x]
            /\ calm' \in [Entry -> BOOLEAN]
        <4>1. calm' = [x \in Entry |-> calm[x] /\ x \notin Touches(v)]
          BY <2>1, <2>3
        <4> QED BY <4>1, <1>3
      <3>6. DirHolds' /\ AuTypeOK'
        BY <1>2, <3>1, <3>2, <3>5 DEF AuthInv, DirHolds, AuTypeOK
      <3>7. ASSUME NEW x \in Touches(v) PROVE EntryOK(x)'
        BY <3>5 DEF EntryOK
      <3> QED BY <1>1, <1>2, <3>1, <3>2, <3>3, <3>4, <3>5, <3>6, <3>7, StepKeeps
    <2>4. CASE vaultFile[e] # NoFile
      <3> DEFINE left == IF all THEN visitor[v].entries \ {e} ELSE visitor[v].entries
      <3> DEFINE next == IF all THEN "unlink" ELSE "card_unlink"
      <3>1. /\ visitor' = [visitor EXCEPT ![v].entries = left, ![v].stage = next]
            /\ vaultFile' = [vaultFile EXCEPT ![e] = NoFile] /\ calm' = calm
        BY <2>1, <2>4
      <3>2. left \in SUBSET Entry /\ next \in AuthStage
        BY <1>3 DEF AuthStage
      <3>3. /\ all => left = visitor[v].entries \ {e} /\ next = "unlink"
            /\ ~all => left = visitor[v].entries /\ next = "card_unlink"
        OBVIOUS
      <3> HIDE DEF left, next
      <3>4. /\ visitor' \in [Visitor -> Visit]
            /\ visitor'[v].stage = next /\ visitor'[v].command = visitor[v].command
            /\ visitor'[v].entries = left /\ visitor'[v].force = visitor[v].force
            /\ visitor'[v].clashed = visitor[v].clashed
            /\ \A w \in Visitor \ {v} : visitor'[w] = visitor[w]
        BY <3>1, <3>2, VisitFacts DEF Visit
      <3>5. v \in Busy' /\ Touches(v)' = Touches(v) /\ Writes(v)' /\ Writes(v)' = Writes(v)
        BY <1>1, <3>3, <3>4 DEF Busy, Resting, Touches, On, Writes
      <3>6. /\ vaultFile'[e] = NoFile /\ \A x \in Entry \ {e} : vaultFile'[x] = vaultFile[x]
            /\ vaultFile' \in [Entry -> {NoFile, CutOff} \cup [session : Session, key : Key \ {0}]]
        BY <3>1, <2>2 DEF AuthInv, AuTypeOK
      <3>7. AuTypeOK' /\ DirHolds'
        BY <3>1, <3>4, <3>6, <1>2 DEF AuthInv, AuTypeOK, DirHolds
      <3>8. Fits(v)'
        <4>1. visitor'[v].command # "revoke_all" => \E x \in Entry : visitor'[v].entries = {x}
          BY <1>1, <3>3, <3>4 DEF AuthInv, Fits
        <4>2. next \in StagesOf(visitor[v].command) /\ next \in {"unlink", "card_unlink"}
          BY <1>1, <3>3 DEF StagesOf
        <4>3. ~visitor'[v].force
          BY <1>1, <3>4 DEF AuthInv, Fits
        <4> QED BY <4>1, <4>2, <4>3, <1>1, <3>4 DEF Fits, Holding, Keyed
      <3>9. ReaderOK(v)'
        BY <3>5 DEF ReaderOK, Writes
      <3>10. WriterOK(v)'
        <4> SUFFICES ASSUME NEW x \in Entry, Sole(v, x)' PROVE Progress(v, x)'
          BY DEF WriterOK
        <4>1. Sole(v, x)
          BY <1>1, <3>1, <3>4, <3>5 DEF Sole, On
        <4>2. Progress(v, x)
          BY <4>1 DEF AuthInv, WriterOK
        <4>3. IF x \in visitor[v].entries THEN vaultFile[x] # NoFile /\ (calm[x] => AtRest(x))
                                          ELSE vaultFile[x] = NoFile
          BY <4>2, <1>1 DEF Progress
        <4>4. CASE all
          <5>1. x \in left <=> x \in visitor[v].entries /\ x # e
            BY <4>4, <3>3
          <5>2. x \in left => vaultFile'[x] # NoFile /\ (calm'[x] => AtRest(x)')
            BY <5>1, <4>3, <3>1, <3>6, <1>2 DEF AtRest
          <5>3. x \notin left => vaultFile'[x] = NoFile
            BY <5>1, <4>3, <3>6
          <5> QED BY <4>4, <5>2, <5>3, <3>3, <3>4 DEF Progress
        <4>5. CASE ~all
          <5>1. PICK y \in Entry : visitor[v].entries = {y}
            BY <1>1, <4>5 DEF AuthInv, Fits
          <5>2. x = e
            BY <5>1, <4>1, <4>5, <2>1 DEF Sole, On, Touches
          <5> QED BY <5>2, <4>5, <3>3, <3>4, <3>6 DEF Progress
        <4> QED BY <4>4, <4>5
      <3>11. ASSUME NEW x \in Touches(v) PROVE EntryOK(x)'
        <4>1. On(v, x)' /\ x \in Entry
          BY <3>5, <1>3 DEF On
        <4> QED BY <4>1, <3>5, WriterEntry
      <3>12. \A x \in Entry \ Touches(v) : vaultFile'[x] = vaultFile[x]
        BY <2>2, <3>6
      <3> QED BY <1>1, <1>2, <3>1, <3>4, <3>5, <3>7, <3>8, <3>9, <3>10, <3>11, <3>12, StepKeeps
    <2> QED BY <2>3, <2>4
  <1> QED BY <1>5, <1>6

\* The card of an entry, or all the cards, are deleted.
LEMMA UnlinkCardKeeps ==
  ASSUME AuthInv, NEW v \in Visitor, UnlinkCard(v)
  PROVE  AuthInv'
  <1>1. /\ visitor[v].stage \in {"card_unlink", "card_only"} /\ v \in Busy
        /\ visitor[v].command \in {"revoke", "revoke_all"} /\ Writes(v)
    <2>1. visitor[v].stage \in {"card_unlink", "card_only"} /\ v \in Busy
      BY DEF UnlinkCard, Busy, Resting
    <2> QED BY <2>1, VisitFacts DEF AuthInv, Fits, StagesOf, Command, Keyed, Holding, Writes, Reads
  <1>2. /\ vaultFile' = vaultFile /\ masterKey' = masterKey /\ vaultDir' = vaultDir
        /\ captures' = captures /\ lapsed' = lapsed /\ visits' = visits
    BY DEF UnlinkCard
  <1>3. Touches(v) \subseteq Entry
    BY <1>1, TouchesEntries
  <1>4. Touches(v) = {e \in Entry : visitor[v].command = "revoke_all" \/ e = Own(v)}
    <2>1. CASE visitor[v].command = "revoke_all"
      BY <2>1 DEF Touches
    <2>2. CASE visitor[v].command # "revoke_all"
      BY <2>2, <1>1, OwnFacts
    <2> QED BY <2>1, <2>2
  <1>5. /\ vaultCard' = [e \in Entry |-> IF e \in Touches(v) THEN NoFile ELSE vaultCard[e]]
        /\ settled' = [e \in Entry |-> IF e \in Touches(v) THEN 0 ELSE settled[e]]
        /\ calm' = [e \in Entry |-> calm[e] \/ (e \in Touches(v) /\ ~visitor[v].clashed)]
    BY <1>4 DEF UnlinkCard
  <1>6. /\ \A e \in Touches(v) : vaultCard'[e] = NoFile /\ settled'[e] = 0
        /\ \A e \in Entry \ Touches(v) : vaultCard'[e] = vaultCard[e] /\ settled'[e] = settled[e]
        /\ \A e \in Entry : calm'[e] => calm[e] \/ Sole(v, e)
        /\ \A e \in Touches(v) : calm'[e] => Sole(v, e)
    <2>1. \A e \in Entry : e \in Touches(v) /\ (calm[e] \/ ~visitor[v].clashed) => Sole(v, e)
      BY <1>1 DEF Sole, On
    <2> QED BY <2>1, <1>3, <1>5
  <1>7. /\ vaultCard' \in [Entry -> {NoFile, CutOff} \cup Session]
        /\ settled' \in [Entry -> Session \cup {0}]
        /\ calm' \in [Entry -> BOOLEAN]
    BY <1>5 DEF AuthInv, AuTypeOK
  <1>8. DirHolds'
    BY <1>2, <1>6 DEF AuthInv, DirHolds
  <1>9. ASSUME NEW e \in Entry, Sole(v, e) PROVE vaultFile[e] = NoFile /\ e \in Touches(v)
    BY <1>1, <1>9 DEF AuthInv, WriterOK, Progress, Sole, On
  <1>10. ASSUME NEW e \in Touches(v) PROVE calm'[e] => AtRest(e)'
    BY <1>2, <1>3, <1>6, <1>9 DEF AtRest
  <1>11. ASSUME NEW e \in Touches(v) PROVE EntryOK(e)'
    BY <1>3, <1>10, RestEntry
  <1>12. CASE visitor[v].stage = "card_only"
    <2>1. /\ visitor' \in [Visitor -> Visit]
          /\ visitor'[v].stage = "idle" /\ visitor'[v].command = "use"
          /\ \A w \in Visitor \ {v} : visitor'[w] = visitor[w]
      BY <1>12, LeaveFacts DEF UnlinkCard
    <2>2. v \notin Busy'
      BY <2>1 DEF Busy, Resting
    <2>3. Fits(v)' /\ WriterOK(v)' /\ ReaderOK(v)'
      BY <2>1, <2>2 DEF Fits, WriterOK, Sole, On, ReaderOK
    <2>4. AuTypeOK'
      BY <1>2, <1>7, <2>1 DEF AuthInv, AuTypeOK
    <2> QED BY <1>1, <1>2, <1>6, <1>8, <1>11, <2>1, <2>2, <2>3, <2>4, StepKeeps
  <1>13. CASE visitor[v].stage = "card_unlink"
    <2>1. Go(v, "prune") /\ "prune" \in AuthStage
      BY <1>13 DEF UnlinkCard, AuthStage
    <2>2. /\ visitor' \in [Visitor -> Visit]
          /\ visitor'[v].stage = "prune" /\ visitor'[v].command = visitor[v].command
          /\ visitor'[v].entries = visitor[v].entries /\ visitor'[v].force = visitor[v].force
          /\ visitor'[v].clashed = visitor[v].clashed
          /\ \A w \in Visitor \ {v} : visitor'[w] = visitor[w]
      BY <2>1, GoFacts
    <2>3. v \in Busy' /\ Touches(v)' = Touches(v) /\ Writes(v)' = Writes(v)
      BY <1>1, <2>2 DEF Busy, Resting, Touches, On, Writes
    <2>4. AuTypeOK'
      BY <1>2, <1>7, <2>2 DEF AuthInv, AuTypeOK
    <2>5. Fits(v)'
      BY <1>1, <2>2 DEF AuthInv, Fits, StagesOf, Holding, Keyed
    <2>6. ReaderOK(v)'
      BY <1>1, <2>3 DEF ReaderOK, Writes
    <2>7. WriterOK(v)'
      <3> SUFFICES ASSUME NEW e \in Entry, Sole(v, e)' PROVE Progress(v, e)'
        BY DEF WriterOK
      <3>1. e \in Touches(v) /\ Sole(v, e)
        <4>1. e \in Touches(v)
          BY <2>3 DEF Sole, On
        <4> QED BY <4>1, <1>1, <1>6, <2>2 DEF Sole, On
      <3>2. vaultFile'[e] = NoFile /\ vaultCard'[e] = NoFile /\ settled'[e] = 0
        BY <3>1, <1>2, <1>6, <1>9
      <3> QED BY <3>2, <2>2 DEF Progress
    <2> QED BY <1>1, <1>2, <1>6, <1>8, <1>11, <2>2, <2>3, <2>4, <2>5, <2>6, <2>7, StepKeeps
  <1> QED BY <1>1, <1>12, <1>13
\* While there is no key, nothing on disk is under it.
LEMMA NoKeyFacts ==
  ASSUME AuthInv, masterKey = 0, NEW e \in Entry
  PROVE  /\ \A s \in Session : vaultFile[e] # [session |-> s, key |-> masterKey]
         /\ AtRest(e) => settled[e] = 0
  <1>1. ASSUME NEW s \in Session PROVE vaultFile[e] # [session |-> s, key |-> masterKey]
    <2> SUFFICES ASSUME vaultFile[e] = [session |-> s, key |-> masterKey] PROVE FALSE
      OBVIOUS
    <2>1. [session |-> s, key |-> masterKey] \notin {NoFile, CutOff}
      BY MaxVisitsIsNat, FilesDiffer DEF Session
    <2>2. vaultFile[e] \in [session : Session, key : Key \ {0}]
      BY <2>1 DEF AuthInv, AuTypeOK
    <2>3. vaultFile[e].key = 0 /\ vaultFile[e].key \in Key \ {0}
      BY <2>2
    <2> QED BY <2>3
  <1> QED BY <1>1 DEF AuthInv, AuTypeOK, AtRest

\* A new key is minted.
LEMMA MintKeeps ==
  ASSUME AuthInv, NEW v \in Visitor, MintKey(v)
  PROVE  AuthInv'
  <1> DEFINE lost == masterKey # 0
  <1>1. /\ visitor[v].stage = "mint" /\ v \in Busy /\ visitor[v].command = "login"
        /\ visitor[v].session \in Session /\ visitor[v].session # 0
    <2>1. visitor[v].stage = "mint" /\ v \in Busy
      BY DEF MintKey, Busy, Resting
    <2>2. visitor[v].command = "login"
      BY <2>1, VisitFacts DEF AuthInv, Fits, StagesOf, Command, Keyed, Holding
    <2> QED BY <2>1, <2>2, VisitFacts DEF AuthInv, Fits
  <1>2. /\ vaultFile' = vaultFile /\ vaultCard' = vaultCard /\ vaultDir' = vaultDir
        /\ captures' = captures /\ lapsed' = lapsed /\ visits' = visits /\ settled' = settled
        /\ masterKey' = visitor[v].session
        /\ calm' = [e \in Entry |-> calm[e] /\ ~lost]
        /\ visitor' = [w \in Visitor |->
              IF w = v THEN [visitor[v] EXCEPT !.key = visitor[v].session, !.stage = "empty"]
              ELSE [visitor[w] EXCEPT !.clashed = @ \/ (lost /\ w \in Busy)]]
    BY DEF MintKey
  <1>3. visitor[v].session \in Key /\ "empty" \in AuthStage
    BY <1>1, MaxVisitsIsNat DEF Session, Key, AuthStage
  <1>4. /\ visitor'[v] \in Visit /\ visitor'[v].stage = "empty" /\ visitor'[v].command = "login"
        /\ visitor'[v].entries = visitor[v].entries /\ visitor'[v].force = visitor[v].force
        /\ visitor'[v].key = visitor[v].session /\ visitor'[v].session = visitor[v].session
        /\ visitor'[v].clashed = visitor[v].clashed
    BY <1>1, <1>2, <1>3, VisitFacts DEF Visit
  <1>5. ASSUME NEW w \in Visitor \ {v}
        PROVE  /\ visitor'[w] \in Visit /\ visitor'[w].stage = visitor[w].stage
               /\ visitor'[w].command = visitor[w].command
               /\ visitor'[w].entries = visitor[w].entries /\ visitor'[w].force = visitor[w].force
               /\ visitor'[w].key = visitor[w].key /\ visitor'[w].session = visitor[w].session
               /\ visitor'[w].clashed = (visitor[w].clashed \/ (lost /\ w \in Busy))
    <2> DEFINE c == visitor[w].clashed \/ (lost /\ w \in Busy)
    <2>1. visitor'[w] = [visitor[w] EXCEPT !.clashed = c]
      BY <1>2
    <2>2. c \in BOOLEAN
      OBVIOUS
    <2> HIDE DEF c
    <2>3. /\ visitor'[w] \in Visit /\ visitor'[w].stage = visitor[w].stage
          /\ visitor'[w].command = visitor[w].command
          /\ visitor'[w].entries = visitor[w].entries /\ visitor'[w].force = visitor[w].force
          /\ visitor'[w].key = visitor[w].key /\ visitor'[w].session = visitor[w].session
          /\ visitor'[w].clashed = c
      BY <2>1, <2>2, VisitFacts DEF Visit
    <2> QED BY <2>3 DEF c
  <1> HIDE DEF lost
  <1>6. ASSUME NEW w \in Visitor
        PROVE  /\ w \in Busy' <=> w \in Busy
               /\ Touches(w)' = Touches(w) /\ Writes(w)' = Writes(w)
               /\ visitor[w].clashed => visitor'[w].clashed
    <2>1. CASE w = v
      BY <2>1, <1>1, <1>4 DEF Busy, Resting, Touches, Writes, Reads
    <2>2. CASE w # v
      BY <2>2, <1>5 DEF Busy, Touches, Writes, Reads
    <2> QED BY <2>1, <2>2
  <1>7. ASSUME NEW w \in Visitor, NEW e \in Entry PROVE On(w, e)' <=> On(w, e)
    BY <1>6 DEF On
  <1>8. /\ \A e \in Entry : calm'[e] => calm[e] /\ ~lost
        /\ calm' \in [Entry -> BOOLEAN]
    BY <1>2
  <1>9. AuTypeOK'
    <2>1. visitor' \in [Visitor -> Visit]
      <3>1. \A w \in Visitor : visitor'[w] \in Visit
        BY <1>4, <1>5
      <3> QED BY <3>1, <1>2
    <2>2. masterKey' \in Key
      BY <1>2, <1>3
    <2> QED BY <2>1, <2>2, <1>2, <1>8 DEF AuthInv, AuTypeOK
  <1>10. ClashNoticed' /\ CalmMeets' /\ DirHolds'
    <2>1. ClashNoticed'
      BY <1>6, <1>7 DEF AuthInv, ClashNoticed
    <2>2. CalmMeets'
      BY <1>6, <1>7, <1>8 DEF AuthInv, CalmMeets
    <2> QED BY <2>1, <2>2, <1>2 DEF AuthInv, DirHolds
  <1>11. ASSUME NEW w \in Visitor PROVE Fits(w)'
    <2>1. CASE w = v
      BY <2>1, <1>1, <1>4, <1>6 DEF AuthInv, Fits, StagesOf, Holding, Keyed
    <2>2. CASE w # v
      BY <2>2, <1>5, <1>6 DEF AuthInv, Fits
    <2> QED BY <2>1, <2>2
  <1>12. ASSUME NEW w \in Visitor PROVE ReaderOK(w)'
    <2>1. CASE w = v
      BY <2>1, <1>4 DEF ReaderOK, Reads
    <2>2. CASE w # v
      <3> SUFFICES ASSUME Reads(visitor[w].command)
                   PROVE  /\ \A e \in Entry : On(w, e) /\ calm'[e] =>
                               /\ visitor[w].stage \in Holding => visitor[w].session = settled[e]
                               /\ visitor[w].stage \in Keyed => visitor[w].key = masterKey'
                               /\ ~visitor'[w].clashed /\ visitor[w].stage # "check" => settled[e] # 0
                          /\ visitor[w].stage = "failed" => visitor'[w].clashed
        BY <2>2, <1>2, <1>5, <1>7 DEF ReaderOK
      <3>1. ReaderOK(w) /\ Fits(w)
        BY DEF AuthInv
      <3>2. ASSUME NEW e \in Entry, On(w, e), calm'[e]
            PROVE  /\ visitor[w].stage \in Holding => visitor[w].session = settled[e]
                   /\ visitor[w].stage \notin Keyed
                   /\ ~visitor'[w].clashed /\ visitor[w].stage # "check" => settled[e] # 0
        <4>1. calm[e] /\ masterKey = 0
          BY <3>2, <1>8 DEF lost
        <4>2. visitor[w].stage \in Keyed => visitor[w].key = 0 /\ visitor[w].key # 0
          BY <3>1, <3>2, <4>1 DEF ReaderOK, Fits, On
        <4> QED BY <3>1, <3>2, <4>1, <4>2, <1>6 DEF ReaderOK
      <3> QED BY <3>1, <3>2, <1>6 DEF ReaderOK
    <2> QED BY <2>1, <2>2
  <1>13. ASSUME NEW w \in Visitor, NEW e \in Entry, Sole(w, e)' PROVE Progress(w, e)'
    <2>1. On(w, e) /\ Writes(w) /\ w \in Busy
      BY <1>13, <1>6, <1>7 DEF Sole, On
    <2>2. CASE lost
      <3>1. ~calm'[e] /\ w = v
        BY <2>1, <2>2, <1>5, <1>8, <1>13 DEF Sole
      <3> QED BY <3>1, <1>2, <1>4 DEF Progress
    <2>3. CASE ~lost
      <3>1. masterKey = 0
        BY <2>3 DEF lost
      <3>2. Sole(w, e) /\ Fits(w)
        BY <2>1, <1>6, <1>8, <1>13 DEF Sole, AuthInv
      <3>3. Progress(w, e)
        BY <3>2 DEF AuthInv, WriterOK
      <3>4. calm'[e] /\ AtRest(e) => AtRest(e)'
        BY <3>1, <1>2, NoKeyFacts DEF AtRest
      <3>5. CASE w = v
        <4>1. calm'[e] => AtRest(e)
          BY <3>3, <3>5, <1>1, <1>8 DEF Progress
        <4> QED BY <4>1, <3>4, <3>5, <1>2, <1>4 DEF Progress
      <3>6. CASE w # v
        <4>1. visitor[w].stage \notin {"empty", "fill"}
          BY <3>1, <3>2, <3>3, <2>1 DEF Progress, Fits, Keyed, Holding
        <4>2. visitor[w].stage \notin {"card_empty", "card_fill"}
          <5> SUFFICES ASSUME visitor[w].stage \in {"card_empty", "card_fill"} PROVE FALSE
            OBVIOUS
          <5>1. vaultFile[e] = [session |-> visitor[w].session, key |-> masterKey]
            BY <3>3 DEF Progress
          <5>2. visitor[w].session \in Session
            BY WritingFacts
          <5> QED BY <5>1, <5>2, <3>1, NoKeyFacts
        <4>3. visitor'[w].stage = visitor[w].stage /\ visitor'[w].entries = visitor[w].entries
          BY <3>6, <1>5
        <4>4. calm'[e] => calm[e]
          BY <1>8
        <4> QED BY <3>3, <3>4, <4>1, <4>2, <4>3, <4>4, <1>2 DEF Progress
      <3> QED BY <3>5, <3>6
    <2> QED BY <2>2, <2>3
  <1>14. ASSUME NEW e \in Entry PROVE EntryOK(e)'
    <2> SUFFICES ASSUME calm'[e], OnlyRead(e)' PROVE InUse(e)'
      BY DEF EntryOK
    <2>1. calm[e] /\ masterKey = 0
      BY <1>8 DEF lost
    <2>2. OnlyRead(e)
      BY <1>6, <1>7 DEF OnlyRead
    <2>3. InUse(e)
      BY <2>1, <2>2 DEF AuthInv, EntryOK
    <2>4. settled[e] = 0
      <3> SUFFICES ASSUME settled[e] # 0 PROVE FALSE
        OBVIOUS
      <3>1. settled[e] \in Session
        BY DEF AuthInv, AuTypeOK
      <3>2. PICK w \in Visitor : On(w, e) /\ visitor[w].stage = "fill"
        BY <3>1, <2>1, <2>3, NoKeyFacts DEF InUse
      <3>3. ~Writes(w)
        BY <3>2, <2>2 DEF OnlyRead
      <3> QED BY <3>2, <3>3, <2>1, WritingFacts
    <2> QED BY <2>3, <2>4, <1>2 DEF InUse
  <1>15. \A w \in Visitor : WriterOK(w)'
    BY <1>13 DEF WriterOK
  <1>16. captures' <= visits'
    BY <1>2 DEF AuthInv
  <1> QED BY <1>9, <1>10, <1>11, <1>12, <1>14, <1>15, <1>16 DEF AuthInv
\* A command begins.
LEMMA StartKeeps ==
  ASSUME AuthInv, NEW v \in Visitor, StartVisit(v)
  PROVE  AuthInv'
  <1>1. /\ visitor[v].stage \in Resting /\ v \notin Busy
        /\ visits < MaxVisits /\ visits' = visits + 1
        /\ vaultFile' = vaultFile /\ vaultCard' = vaultCard /\ vaultDir' = vaultDir
        /\ masterKey' = masterKey /\ lapsed' = lapsed /\ settled' = settled
    BY DEF StartVisit, Busy
  <1>2. PICK c \in Command, e \in Entry, f \in BOOLEAN :
          /\ c # "login" => ~f
          /\ LET mine == IF c = "revoke_all" THEN Entry ELSE {e}
                 met == {w \in Busy : Touches(w) \cap mine # {}}
                 both == {x \in mine : \E w \in met :
                            x \in Touches(w) /\ ~(Reads(c) /\ Reads(visitor[w].command))}
             IN  /\ visitor' = [w \in Visitor |->
                      IF w = v THEN
                        [stage |-> IF c = "revoke_all" THEN "unlink" ELSE "check", command |-> c,
                         entries |-> IF c = "revoke_all" THEN {x \in Entry : vaultFile[x] # NoFile}
                                     ELSE mine,
                         force |-> f, key |-> 0, session |-> IF c = "login" THEN captures + 1 ELSE 0,
                         clashed |-> met # {}]
                      ELSE [visitor[w] EXCEPT !.clashed = @ \/ w \in met]]
                 /\ calm' = [x \in Entry |-> calm[x] /\ x \notin both]
          /\ captures' = IF c = "login" THEN captures + 1 ELSE captures
    BY DEF StartVisit
  <1> DEFINE mine == IF c = "revoke_all" THEN Entry ELSE {e}
  <1> DEFINE met == {w \in Busy : Touches(w) \cap mine # {}}
  <1> DEFINE both == {x \in mine : \E w \in met :
                        x \in Touches(w) /\ ~(Reads(c) /\ Reads(visitor[w].command))}
  <1> DEFINE stage == IF c = "revoke_all" THEN "unlink" ELSE "check"
  <1> DEFINE entries == IF c = "revoke_all" THEN {x \in Entry : vaultFile[x] # NoFile} ELSE mine
  <1> DEFINE session == IF c = "login" THEN captures + 1 ELSE 0
  <1> DEFINE clashed == met # {}
  <1> DEFINE new == [stage |-> stage, command |-> c, entries |-> entries, force |-> f, key |-> 0,
                     session |-> session, clashed |-> clashed]
  <1>3. /\ c # "login" => ~f
        /\ visitor' = [w \in Visitor |-> IF w = v THEN new
                                         ELSE [visitor[w] EXCEPT !.clashed = @ \/ w \in met]]
        /\ calm' = [x \in Entry |-> calm[x] /\ x \notin both]
        /\ captures' = IF c = "login" THEN captures + 1 ELSE captures
    BY <1>2
  <1>4. captures \in Nat /\ visits \in Nat /\ captures <= visits /\ captures + 1 \in Session
        /\ captures' \in 0..MaxVisits /\ captures' <= visits' /\ visits' \in 0..MaxVisits
    BY <1>1, <1>3, MaxVisitsIsNat DEF AuthInv, AuTypeOK, Session
  <1>5. /\ stage \in AuthStage /\ stage \notin Resting /\ entries \in SUBSET Entry /\ 0 \in Key
        /\ session \in Session \cup {0} /\ clashed \in BOOLEAN
        /\ mine \subseteq Entry /\ met \subseteq Busy /\ both \subseteq mine
        /\ c = "login" => session # 0
    BY <1>4, MaxVisitsIsNat DEF AuthStage, Resting, Key
  <1>6. /\ c = "revoke_all" => /\ stage = "unlink" /\ mine = Entry
                               /\ entries = {x \in Entry : vaultFile[x] # NoFile}
        /\ c # "revoke_all" => stage = "check" /\ mine = {e} /\ entries = {e}
    OBVIOUS
  <1>7. \A w \in Busy, x \in mine : x \in Touches(w) => w \in met /\ clashed
    OBVIOUS
  <1>8. \A x \in mine, w \in met : x \in Touches(w) /\ x \notin both =>
          Reads(c) /\ Reads(visitor[w].command)
    OBVIOUS
  <1> HIDE DEF mine, met, both, stage, entries, session, clashed
  <1>9. /\ new \in Visit /\ new.stage = stage /\ new.command = c /\ new.entries = entries
        /\ new.force = f /\ new.key = 0 /\ new.session = session /\ new.clashed = clashed
    BY <1>5 DEF Visit
  <1> HIDE DEF new
  <1>10. /\ visitor'[v] = new
         /\ \A w \in Visitor \ {v} : visitor'[w] = [visitor[w] EXCEPT !.clashed = @ \/ w \in met]
    BY <1>3
  <1>11. ASSUME NEW w \in Visitor \ {v}
         PROVE  /\ visitor'[w] \in Visit /\ visitor'[w].stage = visitor[w].stage
                /\ visitor'[w].command = visitor[w].command
                /\ visitor'[w].entries = visitor[w].entries /\ visitor'[w].force = visitor[w].force
                /\ visitor'[w].key = visitor[w].key /\ visitor'[w].session = visitor[w].session
                /\ visitor[w].clashed => visitor'[w].clashed
                /\ w \in met => visitor'[w].clashed
    <2> DEFINE more == visitor[w].clashed \/ w \in met
    <2>1. visitor'[w] = [visitor[w] EXCEPT !.clashed = more]
      BY <1>10
    <2>2. more \in BOOLEAN
      OBVIOUS
    <2>3. (visitor[w].clashed => more) /\ (w \in met => more)
      OBVIOUS
    <2> HIDE DEF more
    <2>4. /\ visitor'[w] \in Visit /\ visitor'[w].stage = visitor[w].stage
          /\ visitor'[w].command = visitor[w].command
          /\ visitor'[w].entries = visitor[w].entries /\ visitor'[w].force = visitor[w].force
          /\ visitor'[w].key = visitor[w].key /\ visitor'[w].session = visitor[w].session
          /\ visitor'[w].clashed = more
      BY <2>1, <2>2, VisitFacts DEF Visit
    <2> QED BY <2>3, <2>4
  <1>12. v \in Busy' /\ Touches(v)' = mine /\ (Writes(v)' <=> ~Reads(c))
    BY <1>5, <1>6, <1>9, <1>10 DEF Busy, Touches, Writes
  <1>13. ASSUME NEW w \in Visitor \ {v}
         PROVE  (w \in Busy' <=> w \in Busy) /\ Touches(w)' = Touches(w) /\ (Writes(w)' <=> Writes(w))
    BY <1>11 DEF Busy, Touches, Writes
  <1>14. /\ \A w \in Visitor \ {v}, x \in Entry : On(w, x)' <=> On(w, x)
         /\ \A x \in Entry : (On(v, x)' <=> x \in mine) /\ ~On(v, x)
    BY <1>1, <1>12, <1>13 DEF On
  <1>15. /\ \A x \in Entry : calm'[x] => calm[x] /\ x \notin both
         /\ calm' \in [Entry -> BOOLEAN]
    BY <1>3
  <1>16. AuTypeOK'
    <2>1. visitor' \in [Visitor -> Visit]
      <3>1. \A w \in Visitor : visitor'[w] \in Visit
        BY <1>9, <1>10, <1>11
      <3> QED BY <3>1, <1>3
    <2> QED BY <2>1, <1>1, <1>4, <1>15 DEF AuthInv, AuTypeOK
  <1>17. ASSUME NEW w \in Visitor \ {v}, NEW x \in Entry, On(w, x)', On(v, x)'
         PROVE  /\ visitor'[w].clashed /\ visitor'[v].clashed
                /\ calm'[x] => ~Writes(w)' /\ ~Writes(v)'
    <2>1. w \in Busy /\ x \in mine /\ x \in Touches(w)
      BY <1>17, <1>14 DEF On
    <2>2. w \in met /\ clashed
      BY <2>1, <1>7
    <2>3. x \notin both => Reads(c) /\ Reads(visitor[w].command)
      BY <2>1, <2>2, <1>8
    <2> QED BY <2>2, <2>3, <1>9, <1>10, <1>11, <1>12, <1>13, <1>15 DEF Writes
  <1>18. ClashNoticed'
    <2> SUFFICES ASSUME NEW a \in Visitor, NEW b \in Visitor, NEW x \in Entry,
                        a # b, On(a, x)', On(b, x)'
                 PROVE  visitor'[a].clashed /\ visitor'[b].clashed
      BY DEF ClashNoticed
    <2>1. CASE a = v \/ b = v
      BY <2>1, <1>17
    <2>2. CASE a # v /\ b # v
      <3>1. On(a, x) /\ On(b, x)
        BY <2>2, <1>14
      <3>2. visitor[a].clashed /\ visitor[b].clashed
        BY <3>1 DEF AuthInv, ClashNoticed
      <3> QED BY <3>2, <2>2, <1>11
    <2> QED BY <2>1, <2>2
  <1>19. CalmMeets'
    <2> SUFFICES ASSUME NEW a \in Visitor, NEW b \in Visitor, NEW x \in Entry,
                        calm'[x], a # b, On(a, x)', On(b, x)'
                 PROVE  ~Writes(a)' /\ ~Writes(b)'
      BY DEF CalmMeets
    <2>1. CASE a = v \/ b = v
      BY <2>1, <1>17
    <2>2. CASE a # v /\ b # v
      <3>1. On(a, x) /\ On(b, x) /\ calm[x]
        BY <2>2, <1>14, <1>15
      <3>2. ~Writes(a) /\ ~Writes(b)
        BY <3>1 DEF AuthInv, CalmMeets
      <3> QED BY <3>2, <2>2, <1>13
    <2> QED BY <2>1, <2>2
  <1>20. DirHolds'
    BY <1>1 DEF AuthInv, DirHolds
  <1>21. ASSUME NEW w \in Visitor \ {v} PROVE Fits(w)'
    BY <1>11, <1>13 DEF AuthInv, Fits
  <1>22. Fits(v)'
    <2>1. visitor'[v].command # "revoke_all" => \E x \in Entry : visitor'[v].entries = {x}
      BY <1>6, <1>9, <1>10
    <2>2. stage \in StagesOf(c) /\ stage \in {"check", "unlink"}
      <3>1. CASE c = "revoke_all"
        BY <3>1, <1>6 DEF StagesOf
      <3>2. CASE c # "revoke_all"
        BY <3>2, <1>6 DEF StagesOf, Command
      <3> QED BY <3>1, <3>2
    <2> QED BY <2>1, <2>2, <1>3, <1>5, <1>9, <1>10 DEF Fits, Holding, Keyed
  <1>23. ASSUME NEW w \in Visitor \ {v} PROVE ReaderOK(w)'
    BY <1>1, <1>11, <1>14, <1>15 DEF AuthInv, ReaderOK
  <1>24. ReaderOK(v)'
    <2>1. Reads(c) => stage = "check"
      BY <1>6 DEF Reads
    <2> QED BY <2>1, <1>9, <1>10 DEF ReaderOK, Holding, Keyed
  <1>25. ASSUME NEW w \in Visitor \ {v} PROVE WriterOK(w)'
    <2> SUFFICES ASSUME NEW x \in Entry, Sole(w, x)' PROVE Progress(w, x)'
      BY DEF WriterOK
    <2>1. Sole(w, x) /\ (calm'[x] => calm[x])
      BY <1>11, <1>13, <1>14, <1>15 DEF Sole
    <2>2. Progress(w, x)
      BY <2>1 DEF AuthInv, WriterOK
    <2> QED BY <2>1, <2>2, <1>1, <1>11 DEF Progress, AtRest
  <1>26. ASSUME NEW x \in mine, calm'[x], ~Reads(c) PROVE AtRest(x)'
    <2>1. x \in Entry /\ calm[x] /\ x \notin both
      BY <1>5, <1>15, <1>26
    <2>2. \A w \in Visitor : ~On(w, x)
      BY <2>1, <1>1, <1>7, <1>8, <1>26 DEF On
    <2>3. InUse(x)
      BY <2>1, <2>2 DEF AuthInv, EntryOK, OnlyRead
    <2> QED BY <2>2, <2>3, <1>1 DEF InUse, AtRest
  <1>27. WriterOK(v)'
    <2> SUFFICES ASSUME NEW x \in Entry, Sole(v, x)' PROVE Progress(v, x)'
      BY DEF WriterOK
    <2>1. x \in mine /\ ~Reads(c)
      BY <1>12, <1>14 DEF Sole
    <2>2. calm'[x] => AtRest(x)'
      BY <2>1, <1>26
    <2>3. c = "revoke_all" => (x \in entries <=> vaultFile'[x] # NoFile)
      BY <1>1, <1>6
    <2> QED BY <2>2, <2>3, <1>6, <1>9, <1>10 DEF Progress
  <1>28. ASSUME NEW x \in Entry PROVE EntryOK(x)'
    <2> SUFFICES ASSUME calm'[x], OnlyRead(x)' PROVE InUse(x)'
      BY DEF EntryOK
    <2>1. calm[x] /\ OnlyRead(x)
      BY <1>13, <1>14, <1>15 DEF OnlyRead
    <2>2. InUse(x)
      BY <2>1 DEF AuthInv, EntryOK
    <2>3. \A w \in Visitor : On(w, x) => On(w, x)' /\ visitor'[w].stage = visitor[w].stage
      BY <1>11, <1>14
    <2> QED BY <2>2, <2>3, <1>1 DEF InUse
  <1>29. \A w \in Visitor : Fits(w)' /\ ReaderOK(w)' /\ WriterOK(w)'
    BY <1>21, <1>22, <1>23, <1>24, <1>25, <1>27
  <1> QED BY <1>4, <1>16, <1>18, <1>19, <1>20, <1>28, <1>29 DEF AuthInv

\* An empty vault.
LEMMA AuthStarts ==
  ASSUME AuInit PROVE AuthInv
  <1>1. Gone \in Visit /\ Gone.stage = "idle" /\ Gone.command = "use"
    BY MaxVisitsIsNat DEF Gone, Visit, AuthStage, Command, Key, Session
  <1>2. \A v \in Visitor : visitor[v].stage = "idle" /\ visitor[v].command = "use"
    BY <1>1 DEF AuInit
  <1>4. ASSUME NEW v \in Visitor PROVE v \notin Busy
    <2>1. visitor[v].stage \in Resting
      BY <1>2 DEF Resting
    <2> QED BY <2>1 DEF Busy
  <1>3. AuTypeOK /\ captures <= visits
    <2>1. 0 \in 0..MaxVisits
      BY MaxVisitsIsNat
    <2>2. visitor \in [Visitor -> Visit]
      BY <1>1 DEF AuInit
    <2>3. /\ vaultFile \in [Entry -> {NoFile, CutOff} \cup [session : Session, key : Key \ {0}]]
          /\ vaultCard \in [Entry -> {NoFile, CutOff} \cup Session]
      BY DEF AuInit
    <2>4. vaultDir \in BOOLEAN /\ calm \in [Entry -> BOOLEAN]
      BY DEF AuInit
    <2>5. /\ captures \in 0..MaxVisits /\ visits \in 0..MaxVisits /\ masterKey \in Key
          /\ captures <= visits
      BY <2>1 DEF AuInit, Key
    <2>6. lapsed \subseteq Session /\ settled \in [Entry -> Session \cup {0}]
      BY DEF AuInit
    <2> QED BY <2>2, <2>3, <2>4, <2>5, <2>6 DEF AuTypeOK
  <1>5. \A v \in Visitor, e \in Entry : ~On(v, e) /\ ~Sole(v, e)
    BY <1>4 DEF On, Sole
  <1>6. \A v \in Visitor : Fits(v) /\ ReaderOK(v) /\ WriterOK(v)
    BY <1>2, <1>4, <1>5 DEF Fits, ReaderOK, WriterOK
  <1>7. ClashNoticed /\ CalmMeets /\ DirHolds
    BY <1>5 DEF AuInit, ClashNoticed, CalmMeets, DirHolds
  <1>8. \A e \in Entry : EntryOK(e)
    BY DEF AuInit, EntryOK, InUse
  <1> QED BY <1>3, <1>6, <1>7, <1>8 DEF AuthInv

LEMMA AuthSteps ==
  ASSUME AuthInv, [AuNext]_auVars PROVE AuthInv'
  <1>1. CASE \E v \in Visitor : \/ StartVisit(v)
                                \/ CheckEntry(v)
                                \/ FetchKey(v)
                                \/ MintKey(v)
                                \/ ReadEntry(v)
                                \/ EmptyFile(v)
                                \/ FillFile(v)
                                \/ EmptyCard(v)
                                \/ FillCard(v)
                                \/ UnlinkEntry(v)
                                \/ UnlinkCard(v)
                                \/ PruneDir(v)
                                \/ KillVisitor(v)
    BY <1>1, StartKeeps, CheckKeeps, FetchKeeps, MintKeeps, ReadKeeps, EmptyFileKeeps,
       FillFileKeeps, EmptyCardKeeps, FillCardKeeps, UnlinkEntryKeeps, UnlinkCardKeeps,
       PruneKeeps, KillKeeps
  <1>2. CASE Lapse
    BY <1>2, LapseKeeps
  <1>3. CASE UNCHANGED auVars
    <2>1. AuTypeOK' /\ captures' <= visits' /\ DirHolds'
      BY <1>3 DEF auVars, AuthInv, AuTypeOK, DirHolds
    <2>2. ASSUME NEW v \in Visitor
          PROVE  /\ \A e \in Entry : (On(v, e) <=> On(v, e)') /\ (Sole(v, e) <=> Sole(v, e)')
                 /\ (Writes(v) <=> Writes(v)') /\ visitor'[v] = visitor[v]
      BY <1>3 DEF auVars, On, Sole, Busy, Touches, Writes
    <2>3. ASSUME NEW v \in Visitor PROVE Fits(v)'
      BY <1>3 DEF auVars, AuthInv, Fits, Busy
    <2>4. ASSUME NEW v \in Visitor PROVE ReaderOK(v)'
      BY <1>3, <2>2 DEF auVars, AuthInv, ReaderOK
    <2>5. ASSUME NEW v \in Visitor PROVE WriterOK(v)'
      BY <1>3, <2>2 DEF auVars, AuthInv, WriterOK, Progress, AtRest
    <2>6. ClashNoticed'
      BY <2>2 DEF AuthInv, ClashNoticed
    <2>7. CalmMeets'
      BY <1>3, <2>2 DEF auVars, AuthInv, CalmMeets
    <2>8. ASSUME NEW e \in Entry PROVE EntryOK(e)'
      BY <1>3, <2>2 DEF auVars, AuthInv, EntryOK, OnlyRead, InUse
    <2> QED BY <2>1, <2>3, <2>4, <2>5, <2>6, <2>7, <2>8 DEF AuthInv
  <1> QED BY <1>1, <1>2, <1>3 DEF AuNext

LEMMA AuthServes ==
  ASSUME AuthInv PROVE VaultKeepsSessions
  <1>1. VaultAtRest
    <2> SUFFICES ASSUME NEW e \in Entry, calm[e], \A w \in Busy : e \notin Touches(w)
                 PROVE  IF settled[e] = 0 THEN vaultFile[e] = NoFile /\ vaultCard[e] = NoFile
                        ELSE /\ vaultFile[e] = [session |-> settled[e], key |-> masterKey]
                             /\ vaultCard[e] = settled[e]
      BY DEF VaultAtRest
    <2>1. \A w \in Visitor : ~On(w, e)
      BY DEF On
    <2> QED BY <2>1 DEF AuthInv, EntryOK, OnlyRead, InUse
  <1>2. ASSUME NEW v \in Visitor, Reads(visitor[v].command)
        PROVE  /\ visitor[v].stage \in {"rekey", "empty", "fill", "card_empty", "card_fill"}
                    /\ calm[Own(v)] => visitor[v].session = settled[Own(v)]
               /\ visitor[v].stage = "failed" => visitor[v].clashed
    <2>1. visitor[v].stage = "failed" => visitor[v].clashed
      BY <1>2 DEF AuthInv, ReaderOK
    <2>2. ASSUME visitor[v].stage \in {"rekey", "empty", "fill", "card_empty", "card_fill"},
                 calm[Own(v)]
          PROVE  visitor[v].session = settled[Own(v)]
      <3>1. v \in Busy
        BY <2>2 DEF Busy, Resting
      <3>2. Own(v) \in Entry /\ On(v, Own(v))
        BY <3>1, <1>2, OwnFacts DEF On, Reads
      <3> QED BY <3>2, <2>2, <1>2 DEF AuthInv, ReaderOK, Holding
    <2> QED BY <2>1, <2>2
  <1>3. UseIsServed
    BY <1>2 DEF UseIsServed
  <1> QED BY <1>1, <1>3 DEF VaultKeepsSessions

\* Nothing but what the vault knows lies in it, and no process is anywhere but
\* in its command (vault.py).
THEOREM VaultTyped == AuSpec => []AuTypeOK
  <1>1. AuthInv => AuTypeOK
    BY DEF AuthInv
  <1> QED BY <1>1, AuthStarts, AuthSteps, PTL DEF AuSpec

\* Whatever any number of processes do with the vault of a host, and wherever
\* they are killed: an entry that a login or a revoke had to itself stays what
\* it made of it, as long as only uses and exports meet there, and such a use
\* has the settled session in its hands (get, _rewrite_envelope, put, revoke and
\* revoke_all of vault.py with the key of keyring_store.py).
THEOREM VaultIsSafe == AuSpec => []VaultKeepsSessions
  BY AuthStarts, AuthSteps, AuthServes, PTL DEF AuSpec

(***************************************************************************)
(* VisualBaselines.  Whoever accepts while nobody else does has, in the    *)
(* rows it will write, the baselines of what it has gone through; whoever  *)
(* meets another has nothing among the calm shots.  The rows everybody     *)
(* holds tell the truth about the calm shots of the others, and so does    *)
(* the file that is about to become the index, whoever wrote it last.      *)
(***************************************************************************)
PartOf(S) == UNION {[shots -> S] : shots \in SUBSET Shot}
Seen == Picture \cup {Blank}

Acceptance == [stage : AcceptStage, left : SUBSET Shot, all : SUBSET Shot, rows : Capture,
               met : BOOLEAN]

Comparison == [stage : {"idle", "compare", "attribute", "done"}, left : SUBSET Shot,
               captured : SUBSET Shot, outcome : PartOf(Outcome), seen : PartOf(Seen),
               shown : PartOf(Seen), sha : PartOf(Seen),
               calm : SUBSET Shot, met : BOOLEAN]

VbTyped ==
  /\ baseline \in Capture /\ pngTmp \in Capture /\ index \in Capture
  /\ indexTmp \in {Blank} \cup Capture
  /\ accepter \in [Accepter -> Acceptance]
  /\ differ \in [Differ -> Comparison]
  /\ accepts \in 0..MaxAccepts
  /\ vbCalm \subseteq Shot

ShotsLeft(a) ==
  a \in Accepting =>
    /\ accepter[a].left \subseteq accepter[a].all
    /\ accepter[a].stage \in {"copy", "replace", "hash"} <=> accepter[a].left # {}
    /\ accepter[a].met => accepter[a].all \cap vbCalm = {}

AcceptsNoticed ==
  \A a, b \in Accepting : a # b => accepter[a].met /\ accepter[b].met

Alone(a) ==
  a \in Accepting /\ ~accepter[a].met =>
    /\ \A s \in accepter[a].all \ accepter[a].left : accepter[a].rows[s] = baseline[s]
    /\ accepter[a].stage = "replace" => pngTmp[Next1(accepter[a].left)] # Blank
    /\ accepter[a].stage = "publish" => indexTmp = accepter[a].rows

RowsAgree(a) ==
  a \in Accepting =>
    /\ \A s \in vbCalm \ accepter[a].all : accepter[a].rows[s] = baseline[s]
    /\ accepter[a].stage = "publish" /\ indexTmp # Blank =>
         \A s \in vbCalm \ accepter[a].all : indexTmp[s] = baseline[s]

Compares(d) ==
  LET t == differ[d]
  IN  /\ DOMAIN t.outcome = DOMAIN t.seen /\ DOMAIN t.shown = DOMAIN t.seen
      /\ t.stage = "compare" => t.left # {}
      /\ \A s \in DOMAIN t.seen : t.outcome[s] = Compare(t.seen[s], t.shown[s])
      /\ t.stage \in {"compare", "attribute"} /\ ~t.met =>
           /\ Accepting = {} /\ t.calm = vbCalm
           /\ \A s \in DOMAIN t.seen : t.seen[s] = baseline[s]
      /\ t.stage = "done" /\ ~t.met =>
           \A s \in DOMAIN t.seen \cap t.calm : t.sha[s] = t.seen[s]

VbInv ==
  /\ VbTyped /\ AcceptsNoticed /\ IndexFollowsBaselines
  /\ \A a \in Accepter : ShotsLeft(a) /\ Alone(a) /\ RowsAgree(a)
  /\ \A d \in Differ : Compares(d)

LEMMA AcceptFacts ==
  ASSUME VbInv, NEW a \in Accepter
  PROVE  /\ accepter[a] \in Acceptance
         /\ accepter[a].stage \in AcceptStage /\ accepter[a].left \subseteq Shot
         /\ accepter[a].all \subseteq Shot /\ accepter[a].rows \in Capture
         /\ accepter[a].met \in BOOLEAN
         /\ a \in Accepting <=> accepter[a].stage # "idle"
  BY DEF VbInv, VbTyped, Acceptance, Accepting

LEMMA CompareFacts ==
  ASSUME VbInv, NEW d \in Differ
  PROVE  /\ differ[d] \in Comparison
         /\ differ[d].stage \in {"idle", "compare", "attribute", "done"}
         /\ differ[d].left \subseteq Shot /\ differ[d].captured \subseteq Shot
         /\ differ[d].outcome \in PartOf(Outcome)
         /\ differ[d].seen \in PartOf(Seen)
         /\ differ[d].shown \in PartOf(Seen)
         /\ differ[d].sha \in PartOf(Seen)
         /\ differ[d].calm \subseteq Shot /\ differ[d].met \in BOOLEAN
  BY DEF VbInv, VbTyped, Comparison

\* The shot an acceptance is at.
LEMMA AtShot ==
  ASSUME VbInv, NEW a \in Accepter, accepter[a].stage \in {"copy", "replace", "hash"}
  PROVE  /\ a \in Accepting
         /\ Next1(accepter[a].left) \in accepter[a].left
         /\ Next1(accepter[a].left) \in accepter[a].all
         /\ Next1(accepter[a].left) \in Shot
  <1>1. a \in Accepting
    BY DEF Accepting
  <1>2. accepter[a].left # {} /\ accepter[a].left \subseteq accepter[a].all
    BY <1>1 DEF VbInv, ShotsLeft
  <1>3. accepter[a].left \in SUBSET Nat /\ IsFiniteSet(accepter[a].left)
    BY AcceptFacts, ShotsAreNumbered, FS_Subset
  <1>4. Next1(accepter[a].left) \in accepter[a].left
    BY <1>2, <1>3, LeastOf DEF Next1
  <1> QED BY <1>1, <1>2, <1>4, AcceptFacts

\* A process that stops accepting, having met somebody or with nothing of its
\* own among the calm shots.
LEMMA StopKeeps ==
  ASSUME VbInv, NEW a \in Accepting,
         accepter' = [accepter EXCEPT ![a] = NotAccepting],
         baseline' = baseline, pngTmp' = pngTmp, index' = index, indexTmp' = indexTmp,
         differ' = differ, accepts' = accepts,
         vbCalm' \subseteq vbCalm, vbCalm' \cap accepter[a].all = {}
  PROVE  VbInv'
  <1>1. a \in Accepter
    BY DEF Accepting
  <1>2. NotAccepting \in Acceptance /\ NotAccepting.stage = "idle"
    <2>1. NoRows \in Capture
      BY DEF NoRows, Capture
    <2> QED BY <2>1 DEF NotAccepting, Acceptance, AcceptStage
  <1>3. /\ accepter' \in [Accepter -> Acceptance] /\ accepter'[a].stage = "idle"
        /\ \A b \in Accepter \ {a} : accepter'[b] = accepter[b]
    BY <1>1, <1>2 DEF VbInv, VbTyped
  <1>4. Accepting' = Accepting \ {a}
    BY <1>3 DEF Accepting
  <1>5. VbTyped'
    BY <1>3 DEF VbInv, VbTyped
  <1>6. AcceptsNoticed'
    BY <1>3, <1>4 DEF VbInv, AcceptsNoticed, Accepting
  <1>7. IndexFollowsBaselines'
    <2> SUFFICES ASSUME NEW s \in vbCalm', \A b \in Accepting' : s \notin accepter'[b].all
                 PROVE  index[s] = baseline[s]
      BY DEF IndexFollowsBaselines
    <2>1. s \in vbCalm /\ s \notin accepter[a].all
      OBVIOUS
    <2>2. \A b \in Accepting : s \notin accepter[b].all
      BY <2>1, <1>3, <1>4 DEF Accepting
    <2> QED BY <2>1, <2>2 DEF VbInv, IndexFollowsBaselines
  <1>8. ASSUME NEW b \in Accepter PROVE ShotsLeft(b)' /\ Alone(b)' /\ RowsAgree(b)'
    <2>1. CASE b = a
      <3>1. b \notin Accepting'
        BY <2>1, <1>4
      <3> QED BY <3>1 DEF ShotsLeft, Alone, RowsAgree
    <2>2. CASE b # a
      BY <2>2, <1>3, <1>4 DEF VbInv, ShotsLeft, Alone, RowsAgree, Next1
    <2> QED BY <2>1, <2>2
  <1>9. ASSUME NEW d \in Differ PROVE Compares(d)'
    <2>1. differ[d].stage \in {"compare", "attribute"} => differ[d].met
      BY DEF VbInv, Compares
    <2> QED BY <2>1 DEF VbInv, Compares
  <1> QED BY <1>5, <1>6, <1>7, <1>8, <1>9 DEF VbInv
\* An acceptance goes on: what it changes on disk concerns its own shots, or is
\* the file of the index to come.
LEMMA AcceptKeeps ==
  ASSUME VbInv, NEW a \in Accepting,
         accepter' \in [Accepter -> Acceptance],
         \A b \in Accepter \ {a} : accepter'[b] = accepter[b],
         accepter'[a].stage # "idle", accepter'[a].all = accepter[a].all,
         accepter'[a].met = accepter[a].met,
         index' = index, differ' = differ, accepts' = accepts, vbCalm' = vbCalm,
         baseline' \in Capture, pngTmp' \in Capture, indexTmp' \in {Blank} \cup Capture,
         \A s \in Shot \ accepter[a].all : baseline'[s] = baseline[s],
         indexTmp' = indexTmp \/ indexTmp' = accepter[a].rows,
         ShotsLeft(a)', Alone(a)', RowsAgree(a)'
  PROVE  VbInv'
  <1>1. a \in Accepter /\ Accepting' = Accepting
    BY DEF Accepting
  <1>2. VbTyped'
    BY DEF VbInv, VbTyped
  <1>3. AcceptsNoticed'
    <2>1. \A b \in Accepting : b # a => accepter'[b] = accepter[b]
      BY DEF Accepting
    <2> QED BY <1>1, <2>1 DEF VbInv, AcceptsNoticed
  <1>4. vbCalm \subseteq Shot
    BY DEF VbInv, VbTyped
  <1>5. IndexFollowsBaselines'
    <2> SUFFICES ASSUME NEW s \in vbCalm, \A b \in Accepting' : s \notin accepter'[b].all
                 PROVE  index[s] = baseline'[s]
      BY DEF IndexFollowsBaselines
    <2>1. \A b \in Accepting : s \notin accepter[b].all
      BY <1>1 DEF Accepting
    <2>2. index[s] = baseline[s]
      BY <2>1 DEF VbInv, IndexFollowsBaselines
    <2> QED BY <2>1, <2>2, <1>4
  <1>6. ASSUME NEW b \in Accepter PROVE ShotsLeft(b)' /\ Alone(b)' /\ RowsAgree(b)'
    <2>1. CASE b = a
      BY <2>1
    <2>2. CASE b # a /\ b \notin Accepting
      BY <2>2, <1>1 DEF ShotsLeft, Alone, RowsAgree
    <2>3. CASE b # a /\ b \in Accepting
      <3>1. accepter[a].met /\ accepter[b].met
        BY <2>3 DEF VbInv, AcceptsNoticed
      <3>2. accepter[a].all \cap vbCalm = {}
        BY <3>1, <1>1 DEF VbInv, ShotsLeft
      <3>3. \A s \in vbCalm : baseline'[s] = baseline[s]
        BY <3>2, <1>4
      <3>4. \A s \in vbCalm : accepter[a].rows[s] = baseline[s]
        BY <3>2, <1>1 DEF VbInv, RowsAgree
      <3>5. accepter'[b] = accepter[b]
        BY <2>3, <1>1
      <3>6. ShotsLeft(b)' /\ Alone(b)'
        BY <2>3, <3>1, <3>5, <1>1 DEF VbInv, ShotsLeft, Alone
      <3>7. RowsAgree(b)'
        <4>1. RowsAgree(b)
          BY DEF VbInv
        <4>2. \A s \in vbCalm \ accepter[b].all : accepter[b].rows[s] = baseline'[s]
          BY <4>1, <2>3, <3>3 DEF RowsAgree
        <4>3. ASSUME accepter[b].stage = "publish", indexTmp' # Blank,
                     NEW s \in vbCalm \ accepter[b].all
              PROVE  indexTmp'[s] = baseline'[s]
          BY <4>1, <4>3, <2>3, <3>3, <3>4 DEF RowsAgree
        <4> QED BY <4>2, <4>3, <3>5 DEF RowsAgree
      <3> QED BY <3>6, <3>7
    <2> QED BY <2>1, <2>2, <2>3
  <1>7. ASSUME NEW d \in Differ PROVE Compares(d)'
    <2>1. differ[d].stage \in {"compare", "attribute"} => differ[d].met
      BY DEF VbInv, Compares
    <2> QED BY <2>1 DEF VbInv, Compares
  <1> QED BY <1>2, <1>3, <1>5, <1>6, <1>7 DEF VbInv

\* One picture is copied beside its baseline.
LEMMA CopyKeeps ==
  ASSUME VbInv, NEW a \in Accepter, CopyPicture(a)
  PROVE  VbInv'
  <1>1. a \in Accepting /\ accepter[a].stage = "copy" /\ Next1(accepter[a].left) \in Shot
    BY AtShot DEF CopyPicture
  <1>2. PICK s \in Shot, captured \in Picture :
          s = Next1(accepter[a].left) /\ pngTmp' = [pngTmp EXCEPT ![s] = captured]
    BY <1>1 DEF CopyPicture
  <1>3. /\ accepter' = [accepter EXCEPT ![a].stage = "replace"]
        /\ baseline' = baseline /\ index' = index /\ indexTmp' = indexTmp /\ differ' = differ
        /\ accepts' = accepts /\ vbCalm' = vbCalm
    BY DEF CopyPicture
  <1>4. /\ accepter' \in [Accepter -> Acceptance] /\ accepter'[a].stage = "replace"
        /\ accepter'[a].all = accepter[a].all /\ accepter'[a].left = accepter[a].left
        /\ accepter'[a].met = accepter[a].met /\ accepter'[a].rows = accepter[a].rows
        /\ \A b \in Accepter \ {a} : accepter'[b] = accepter[b]
    BY <1>3, AcceptFacts DEF VbInv, VbTyped, Acceptance, AcceptStage
  <1>5. pngTmp' \in Capture /\ pngTmp'[s] # Blank
    BY <1>2, BlankIsNoPicture DEF VbInv, VbTyped, Capture
  <1>6. a \in Accepting'
    BY <1>4 DEF Accepting
  <1>7. ShotsLeft(a)'
    BY <1>1, <1>3, <1>4 DEF VbInv, ShotsLeft
  <1>8. Alone(a)'
    <2>1. Next1(accepter[a].left)' = s
      BY <1>2, <1>4
    <2> QED BY <1>1, <1>3, <1>4, <1>5, <2>1 DEF VbInv, Alone
  <1>9. RowsAgree(a)'
    BY <1>1, <1>3, <1>4 DEF VbInv, RowsAgree
  <1> QED BY <1>1, <1>3, <1>4, <1>5, <1>7, <1>8, <1>9, AcceptKeeps DEF VbInv, VbTyped

\* The copy becomes the baseline.
LEMMA ReplaceKeeps ==
  ASSUME VbInv, NEW a \in Accepter, ReplacePicture(a)
  PROVE  VbInv'
  <1>1. a \in Accepting /\ accepter[a].stage = "replace"
        /\ Next1(accepter[a].left) \in accepter[a].left
        /\ Next1(accepter[a].left) \in accepter[a].all /\ Next1(accepter[a].left) \in Shot
    BY AtShot DEF ReplacePicture
  <1>2. PICK s \in Shot : s = Next1(accepter[a].left)
    BY <1>1
  <1>3. /\ index' = index /\ indexTmp' = indexTmp /\ differ' = differ
        /\ accepts' = accepts /\ vbCalm' = vbCalm
    BY DEF ReplacePicture
  <1>4. CASE pngTmp[s] = Blank
    <2>1. accepter[a].met
      BY <1>1, <1>2, <1>4 DEF VbInv, Alone
    <2>2. accepter[a].all \cap vbCalm = {}
      BY <1>1, <2>1 DEF VbInv, ShotsLeft
    <2> QED BY <1>1, <1>2, <1>3, <1>4, <2>2, StopKeeps DEF ReplacePicture
  <1>5. CASE pngTmp[s] # Blank
    <2>1. /\ baseline' = [baseline EXCEPT ![s] = pngTmp[s]]
          /\ pngTmp' = [pngTmp EXCEPT ![s] = Blank]
          /\ accepter' = [accepter EXCEPT ![a].stage = "hash"]
      BY <1>2, <1>5 DEF ReplacePicture
    <2>2. /\ accepter' \in [Accepter -> Acceptance] /\ accepter'[a].stage = "hash"
          /\ accepter'[a].all = accepter[a].all /\ accepter'[a].left = accepter[a].left
          /\ accepter'[a].met = accepter[a].met /\ accepter'[a].rows = accepter[a].rows
          /\ \A b \in Accepter \ {a} : accepter'[b] = accepter[b]
      BY <2>1, AcceptFacts DEF VbInv, VbTyped, Acceptance, AcceptStage
    <2>3. /\ baseline' \in Capture /\ pngTmp' \in Capture
          /\ \A r \in Shot \ {s} : baseline'[r] = baseline[r]
      BY <2>1 DEF VbInv, VbTyped, Capture
    <2>4. vbCalm \subseteq Shot /\ accepter[a].all \subseteq Shot
      BY AcceptFacts DEF VbInv, VbTyped
    <2>5. ShotsLeft(a)'
      BY <1>1, <1>3, <2>2 DEF VbInv, ShotsLeft, Accepting
    <2>6. Alone(a)'
      BY <1>1, <1>2, <1>3, <2>2, <2>3, <2>4 DEF VbInv, Alone
    <2>7. RowsAgree(a)'
      BY <1>1, <1>2, <1>3, <2>2, <2>3, <2>4 DEF VbInv, RowsAgree
    <2>8. \A r \in Shot \ accepter[a].all : baseline'[r] = baseline[r]
      BY <1>1, <1>2, <2>3
    <2> QED BY <1>1, <1>3, <2>2, <2>3, <2>5, <2>6, <2>7, <2>8, AcceptKeeps DEF VbInv, VbTyped
  <1> QED BY <1>4, <1>5

\* The row gets the hash of the baseline.
LEMMA HashKeeps ==
  ASSUME VbInv, NEW a \in Accepter, HashPicture(a)
  PROVE  VbInv'
  <1>1. a \in Accepting /\ accepter[a].stage = "hash"
        /\ Next1(accepter[a].left) \in accepter[a].left
        /\ Next1(accepter[a].left) \in accepter[a].all /\ Next1(accepter[a].left) \in Shot
    BY AtShot DEF HashPicture
  <1>2. PICK s \in Shot : s = Next1(accepter[a].left)
    BY <1>1
  <1> DEFINE left == accepter[a].left \ {s}
  <1> DEFINE next == IF left = {} THEN "write" ELSE "copy"
  <1>3. /\ index' = index /\ indexTmp' = indexTmp /\ differ' = differ
        /\ accepts' = accepts /\ vbCalm' = vbCalm /\ baseline' = baseline /\ pngTmp' = pngTmp
        /\ accepter' = [accepter EXCEPT ![a].rows[s] = baseline[s], ![a].left = left,
                                        ![a].stage = next]
    BY <1>2 DEF HashPicture
  <1>4. next \in AcceptStage /\ left \in SUBSET Shot /\ next # "idle" /\ next # "publish"
        /\ next # "replace" /\ (next \in {"copy", "replace", "hash"} <=> left # {})
    BY AcceptFacts DEF AcceptStage
  <1>5. /\ baseline[s] \in Picture \cup {Blank} /\ accepter[a].rows \in Capture
        /\ [accepter[a].rows EXCEPT ![s] = baseline[s]] \in Capture
    BY AcceptFacts DEF VbInv, VbTyped, Capture
  <1> HIDE DEF next
  <1>6. /\ accepter' \in [Accepter -> Acceptance] /\ accepter'[a].stage = next
        /\ accepter'[a].all = accepter[a].all /\ accepter'[a].left = left
        /\ accepter'[a].met = accepter[a].met
        /\ accepter'[a].rows = [accepter[a].rows EXCEPT ![s] = baseline[s]]
        /\ \A b \in Accepter \ {a} : accepter'[b] = accepter[b]
    <2> HIDE DEF left
    <2> QED BY <1>3, <1>4, <1>5, AcceptFacts DEF VbInv, VbTyped, Acceptance
  <1>7. accepter'[a].rows[s] = baseline[s]
        /\ \A r \in Shot \ {s} : accepter'[a].rows[r] = accepter[a].rows[r]
    BY <1>5, <1>6 DEF Capture
  <1>8. vbCalm \subseteq Shot /\ accepter[a].all \subseteq Shot
    BY AcceptFacts DEF VbInv, VbTyped
  <1>9. ShotsLeft(a)'
    BY <1>1, <1>3, <1>4, <1>6 DEF VbInv, ShotsLeft
  <1>10. Alone(a)'
    BY <1>1, <1>3, <1>4, <1>6, <1>7, <1>8 DEF VbInv, Alone
  <1>11. RowsAgree(a)'
    <2>1. accepter'[a].stage # "publish" /\ vbCalm' = vbCalm /\ baseline' = baseline
      BY <1>3, <1>4, <1>6
    <2>2. ASSUME NEW r \in vbCalm \ accepter[a].all PROVE accepter'[a].rows[r] = baseline[r]
      <3>1. accepter[a].rows[r] = baseline[r]
        BY <1>1 DEF VbInv, RowsAgree
      <3> QED BY <1>7, <1>8, <3>1
    <2> QED BY <1>6, <2>1, <2>2 DEF RowsAgree
  <1> QED BY <1>1, <1>3, <1>4, <1>6, <1>9, <1>10, <1>11, AcceptKeeps DEF VbInv, VbTyped

\* The index is written beside the index.
LEMMA WriteKeeps ==
  ASSUME VbInv, NEW a \in Accepter, WriteIndex(a)
  PROVE  VbInv'
  <1>1. a \in Accepting /\ accepter[a].stage = "write"
    BY DEF WriteIndex, Accepting
  <1>2. /\ index' = index /\ differ' = differ /\ indexTmp' = accepter[a].rows
        /\ accepts' = accepts /\ vbCalm' = vbCalm /\ baseline' = baseline /\ pngTmp' = pngTmp
        /\ accepter' = [accepter EXCEPT ![a].stage = "publish"]
    BY DEF WriteIndex
  <1>3. /\ accepter' \in [Accepter -> Acceptance] /\ accepter'[a].stage = "publish"
        /\ accepter'[a].all = accepter[a].all /\ accepter'[a].left = accepter[a].left
        /\ accepter'[a].met = accepter[a].met /\ accepter'[a].rows = accepter[a].rows
        /\ \A b \in Accepter \ {a} : accepter'[b] = accepter[b]
    BY <1>2, AcceptFacts DEF VbInv, VbTyped, Acceptance, AcceptStage
  <1>4. indexTmp' \in Capture
    BY <1>2, AcceptFacts
  <1>5. ShotsLeft(a)'
    BY <1>1, <1>2, <1>3 DEF VbInv, ShotsLeft
  <1>6. Alone(a)'
    BY <1>1, <1>2, <1>3 DEF VbInv, Alone
  <1>7. RowsAgree(a)'
    BY <1>1, <1>2, <1>3 DEF VbInv, RowsAgree
  <1> QED BY <1>1, <1>2, <1>3, <1>4, <1>5, <1>6, <1>7, AcceptKeeps DEF VbInv, VbTyped
\* The new index takes the place of the old one.
LEMMA PublishKeeps ==
  ASSUME VbInv, NEW a \in Accepter, PublishIndex(a)
  PROVE  VbInv'
  <1>1. a \in Accepting /\ accepter[a].stage = "publish" /\ accepter[a].left = {}
    <2>1. a \in Accepting /\ accepter[a].stage = "publish"
      BY DEF PublishIndex, Accepting
    <2> QED BY <2>1 DEF VbInv, ShotsLeft
  <1>2. /\ baseline' = baseline /\ pngTmp' = pngTmp /\ differ' = differ /\ accepts' = accepts
        /\ accepter' = [accepter EXCEPT ![a] = NotAccepting]
    BY DEF PublishIndex
  <1>3. ~accepter[a].met => /\ Accepting = {a} /\ indexTmp # Blank
                            /\ \A s \in accepter[a].all : indexTmp[s] = baseline[s]
    <2> SUFFICES ASSUME ~accepter[a].met
                 PROVE  /\ Accepting = {a} /\ indexTmp # Blank
                        /\ \A s \in accepter[a].all : indexTmp[s] = baseline[s]
      OBVIOUS
    <2>1. indexTmp = accepter[a].rows
      BY <1>1 DEF VbInv, Alone
    <2>2. indexTmp # Blank
      BY <2>1, AcceptFacts, BlankIsNoPicture DEF Capture
    <2>3. Accepting = {a}
      BY <1>1 DEF VbInv, AcceptsNoticed
    <2>4. \A s \in accepter[a].all : accepter[a].rows[s] = baseline[s]
      BY <1>1 DEF VbInv, Alone
    <2> QED BY <2>1, <2>2, <2>3, <2>4
  <1>4. accepter[a].met => accepter[a].all \cap vbCalm = {}
    BY <1>1 DEF VbInv, ShotsLeft
  <1>5. CASE indexTmp = Blank
    BY <1>1, <1>2, <1>3, <1>4, <1>5, StopKeeps DEF PublishIndex
  <1>6. CASE indexTmp # Blank
    <2>1. /\ index' = indexTmp /\ indexTmp' = Blank
          /\ accepter[a].met => vbCalm' = vbCalm
          /\ ~accepter[a].met => vbCalm' = vbCalm \cup accepter[a].all
      BY <1>6 DEF PublishIndex
    <2>2. NotAccepting \in Acceptance /\ NotAccepting.stage = "idle"
      <3>1. NoRows \in Capture
        BY DEF NoRows, Capture
      <3> QED BY <3>1 DEF NotAccepting, Acceptance, AcceptStage
    <2>3. /\ accepter' \in [Accepter -> Acceptance] /\ accepter'[a].stage = "idle"
          /\ \A b \in Accepter \ {a} : accepter'[b] = accepter[b]
      BY <1>2, <2>2 DEF VbInv, VbTyped
    <2>4. Accepting' = Accepting \ {a}
      BY <2>3 DEF Accepting
    <2>5. index' \in Capture /\ vbCalm' \subseteq Shot
      BY <1>6, <2>1, AcceptFacts DEF VbInv, VbTyped
    <2>6. VbTyped'
      BY <1>2, <2>1, <2>3, <2>5 DEF VbInv, VbTyped
    <2>7. AcceptsNoticed'
      BY <2>3, <2>4 DEF VbInv, AcceptsNoticed, Accepting
    <2>8. \A s \in vbCalm \ accepter[a].all : indexTmp[s] = baseline[s]
      BY <1>1, <1>6 DEF VbInv, RowsAgree
    <2>9. \A s \in vbCalm' : index'[s] = baseline[s]
      <3>1. CASE accepter[a].met
        BY <3>1, <1>4, <2>1, <2>8
      <3>2. CASE ~accepter[a].met
        BY <3>2, <1>3, <2>1, <2>8
      <3> QED BY <3>1, <3>2
    <2>10. IndexFollowsBaselines'
      BY <2>9, <1>2 DEF IndexFollowsBaselines
    <2>11. ASSUME NEW b \in Accepter PROVE ShotsLeft(b)' /\ Alone(b)' /\ RowsAgree(b)'
      <3>1. CASE b \notin Accepting'
        BY <3>1 DEF ShotsLeft, Alone, RowsAgree
      <3>2. CASE b \in Accepting'
        <4>1. b \in Accepting /\ b # a /\ accepter'[b] = accepter[b]
          BY <3>2, <2>3, <2>4
        <4>2. accepter[a].met /\ accepter[b].met /\ vbCalm' = vbCalm
          BY <1>1, <2>1, <4>1 DEF VbInv, AcceptsNoticed
        <4>3. ShotsLeft(b)' /\ Alone(b)'
          BY <4>1, <4>2, <3>2 DEF VbInv, ShotsLeft, Alone
        <4>4. RowsAgree(b)'
          BY <4>1, <4>2, <1>2, <2>1 DEF VbInv, RowsAgree
        <4> QED BY <4>3, <4>4
      <3> QED BY <3>1, <3>2
    <2>12. ASSUME NEW d \in Differ PROVE Compares(d)'
      <3>1. differ[d].stage \in {"compare", "attribute"} => differ[d].met
        BY <1>1 DEF VbInv, Compares
      <3> QED BY <3>1, <1>2 DEF VbInv, Compares
    <2> QED BY <2>6, <2>7, <2>10, <2>11, <2>12 DEF VbInv
  <1> QED BY <1>5, <1>6

\* An acceptance begins.
LEMMA StartAcceptKeeps ==
  ASSUME VbInv, NEW a \in Accepter, StartAccept(a)
  PROVE  VbInv'
  <1> DEFINE others == UNION {accepter[b].all : b \in Accepting}
  <1>1. /\ baseline' = baseline /\ pngTmp' = pngTmp /\ index' = index /\ indexTmp' = indexTmp
        /\ accepter[a].stage = "idle" /\ a \notin Accepting
        /\ accepts < MaxAccepts /\ accepts' = accepts + 1
        /\ differ' = [d \in Differ |-> IF d \in Comparing THEN [differ[d] EXCEPT !.met = TRUE]
                                                          ELSE differ[d]]
    BY DEF StartAccept, Accepting
  <1>2. PICK all \in (SUBSET Shot) \ {{}} :
          /\ accepter' = [b \in Accepter |->
               IF b = a THEN [stage |-> "copy", left |-> all, all |-> all, rows |-> index,
                              met |-> Accepting # {}]
               ELSE [accepter[b] EXCEPT !.met = @ \/ b \in Accepting]]
          /\ vbCalm' = IF Accepting = {} THEN vbCalm ELSE vbCalm \ (all \cup others)
    BY DEF StartAccept
  <1> DEFINE new == [stage |-> "copy", left |-> all, all |-> all, rows |-> index,
                     met |-> Accepting # {}]
  <1>3. /\ new \in Acceptance /\ new.stage = "copy" /\ new.left = all /\ new.all = all
        /\ new.rows = index /\ (new.met <=> Accepting # {})
    <2> DEFINE met == Accepting # {}
    <2>1. met \in BOOLEAN /\ "copy" \in AcceptStage /\ index \in Capture
      BY DEF AcceptStage, VbInv, VbTyped
    <2> HIDE DEF met
    <2>2. [stage |-> "copy", left |-> all, all |-> all, rows |-> index, met |-> met] \in Acceptance
      BY <2>1 DEF Acceptance
    <2> QED BY <2>2 DEF met
  <1>4. accepter'[a] = new
    BY <1>2
  <1> HIDE DEF new
  <1>5. ASSUME NEW b \in Accepter \ {a}
        PROVE  /\ accepter'[b] \in Acceptance /\ accepter'[b].stage = accepter[b].stage
               /\ accepter'[b].left = accepter[b].left /\ accepter'[b].all = accepter[b].all
               /\ accepter'[b].rows = accepter[b].rows
               /\ accepter'[b].met <=> accepter[b].met \/ b \in Accepting
    <2> DEFINE met == accepter[b].met \/ b \in Accepting
    <2>1. accepter'[b] = [accepter[b] EXCEPT !.met = met]
      BY <1>2
    <2>2. met \in BOOLEAN
      OBVIOUS
    <2> HIDE DEF met
    <2>3. /\ accepter'[b] \in Acceptance /\ accepter'[b].stage = accepter[b].stage
          /\ accepter'[b].left = accepter[b].left /\ accepter'[b].all = accepter[b].all
          /\ accepter'[b].rows = accepter[b].rows /\ accepter'[b].met = met
      BY <2>1, <2>2, AcceptFacts DEF Acceptance
    <2> QED BY <2>3 DEF met
  <1>6. Accepting' = Accepting \cup {a}
    BY <1>3, <1>4, <1>5 DEF Accepting
  <1>7. ASSUME NEW d \in Differ
        PROVE  /\ differ'[d] \in Comparison
               /\ d \notin Comparing => differ'[d] = differ[d]
               /\ d \in Comparing =>
                    /\ differ'[d].met /\ differ'[d].stage = differ[d].stage
                    /\ differ'[d].left = differ[d].left /\ differ'[d].seen = differ[d].seen
                    /\ differ'[d].shown = differ[d].shown /\ differ'[d].outcome = differ[d].outcome
    <2>1. CASE d \notin Comparing
      BY <2>1, <1>1, CompareFacts
    <2>2. CASE d \in Comparing
      <3>1. PICK yes \in BOOLEAN : yes = TRUE
        OBVIOUS
      <3>2. differ'[d] = [differ[d] EXCEPT !.met = yes]
        BY <1>1, <2>2, <3>1
      <3>3. /\ differ'[d] \in Comparison /\ differ'[d].stage = differ[d].stage
            /\ differ'[d].left = differ[d].left /\ differ'[d].seen = differ[d].seen
            /\ differ'[d].shown = differ[d].shown /\ differ'[d].outcome = differ[d].outcome
            /\ differ'[d].met = yes
        BY <3>2, CompareFacts DEF Comparison
      <3> QED BY <2>2, <3>1, <3>3
    <2> QED BY <2>1, <2>2
  <1>8. /\ vbCalm' \subseteq vbCalm
        /\ Accepting # {} => /\ vbCalm' \cap all = {}
                             /\ \A b \in Accepting : vbCalm' \cap accepter[b].all = {}
    BY <1>2
  <1>9. VbTyped'
    <2>1. accepter' \in [Accepter -> Acceptance]
      <3>1. \A b \in Accepter : accepter'[b] \in Acceptance
        BY <1>3, <1>4, <1>5
      <3> QED BY <3>1, <1>2
    <2>2. differ' \in [Differ -> Comparison]
      <3>1. \A d \in Differ : differ'[d] \in Comparison
        BY <1>7
      <3> QED BY <3>1, <1>1
    <2>3. accepts' \in 0..MaxAccepts
      BY <1>1, MaxAcceptsIsNat DEF VbInv, VbTyped
    <2> QED BY <2>1, <2>2, <2>3, <1>1, <1>8 DEF VbInv, VbTyped
  <1>10. AcceptsNoticed'
    <2> SUFFICES ASSUME NEW b \in Accepting', NEW c \in Accepting', b # c
                 PROVE  accepter'[b].met /\ accepter'[c].met
      BY DEF AcceptsNoticed
    <2>1. ASSUME NEW x \in Accepting', x # a PROVE accepter'[x].met /\ Accepting # {}
      BY <2>1, <1>5, <1>6 DEF Accepting
    <2>2. Accepting # {} => accepter'[a].met
      BY <1>3, <1>4
    <2> QED BY <2>1, <2>2
  <1>11. \A s \in vbCalm' : index[s] = baseline[s] \/ \E b \in Accepting : s \in accepter[b].all
    BY <1>8 DEF VbInv, IndexFollowsBaselines
  <1>12. \A s \in vbCalm' : index[s] = baseline[s]
    BY <1>8, <1>11
  <1>13. IndexFollowsBaselines'
    BY <1>1, <1>12 DEF IndexFollowsBaselines
  <1>14. ASSUME NEW b \in Accepter PROVE ShotsLeft(b)' /\ Alone(b)' /\ RowsAgree(b)'
    <2>1. CASE b = a
      <3>1. ShotsLeft(b)'
        BY <2>1, <1>3, <1>4, <1>8 DEF ShotsLeft
      <3>2. Alone(b)'
        BY <2>1, <1>3, <1>4 DEF Alone
      <3>3. RowsAgree(b)'
        BY <2>1, <1>1, <1>3, <1>4, <1>12 DEF RowsAgree
      <3> QED BY <3>1, <3>2, <3>3
    <2>2. CASE b # a /\ b \in Accepting
      <3>1. accepter'[b].met
        BY <2>2, <1>5
      <3>2. ShotsLeft(b)' /\ Alone(b)'
        BY <2>2, <3>1, <1>5, <1>8 DEF VbInv, ShotsLeft, Alone
      <3>3. RowsAgree(b)'
        BY <2>2, <1>1, <1>5, <1>8 DEF VbInv, RowsAgree
      <3> QED BY <3>2, <3>3
    <2>3. CASE b # a /\ b \notin Accepting
      <3>1. b \notin Accepting'
        BY <2>3, <1>6
      <3> QED BY <3>1 DEF ShotsLeft, Alone, RowsAgree
    <2> QED BY <2>1, <2>2, <2>3
  <1>15. ASSUME NEW d \in Differ PROVE Compares(d)'
    <2>1. Compares(d)
      BY DEF VbInv
    <2>2. CASE d \in Comparing
      BY <2>1, <2>2, <1>7 DEF Compares, Comparing
    <2>3. CASE d \notin Comparing
      BY <2>1, <2>3, <1>7 DEF Compares, Comparing
    <2> QED BY <2>2, <2>3
  <1> QED BY <1>9, <1>10, <1>13, <1>14, <1>15 DEF VbInv
\* A comparison goes on.
LEMMA DifferKeeps ==
  ASSUME VbInv, NEW d \in Differ, differ' \in [Differ -> Comparison],
         \A c \in Differ \ {d} : differ'[c] = differ[c],
         baseline' = baseline, pngTmp' = pngTmp, index' = index, indexTmp' = indexTmp,
         accepter' = accepter, accepts' = accepts, vbCalm' = vbCalm,
         Compares(d)'
  PROVE  VbInv'
  <1>1. Accepting' = Accepting
    BY DEF Accepting
  <1>2. VbTyped' /\ AcceptsNoticed' /\ IndexFollowsBaselines'
    BY <1>1 DEF VbInv, VbTyped, AcceptsNoticed, IndexFollowsBaselines
  <1>3. ASSUME NEW a \in Accepter PROVE ShotsLeft(a)' /\ Alone(a)' /\ RowsAgree(a)'
    BY <1>1 DEF VbInv, ShotsLeft, Alone, RowsAgree
  <1>4. ASSUME NEW c \in Differ \ {d} PROVE Compares(c)'
    BY <1>1 DEF VbInv, Compares
  <1> QED BY <1>2, <1>3, <1>4 DEF VbInv

LEMMA PartFacts ==
  ASSUME NEW S, NEW f \in PartOf(S), NEW s \in Shot, NEW x \in S
  PROVE  With(f, s, x) \in PartOf(S)
  <1>1. PICK shots \in SUBSET Shot : f \in [shots -> S]
    BY DEF PartOf
  <1>2. DOMAIN f = shots
    BY <1>1
  <1>3. With(f, s, x) \in [shots \cup {s} -> S]
    BY <1>1, <1>2 DEF With
  <1>4. shots \cup {s} \in SUBSET Shot
    OBVIOUS
  <1> QED BY <1>3, <1>4 DEF PartOf

LEMMA StartDiffKeeps ==
  ASSUME VbInv, NEW d \in Differ, StartDiff(d)
  PROVE  VbInv'
  <1>1. /\ baseline' = baseline /\ pngTmp' = pngTmp /\ index' = index /\ indexTmp' = indexTmp
        /\ accepter' = accepter /\ accepts' = accepts /\ vbCalm' = vbCalm
    BY DEF StartDiff
  <1>2. PICK captured \in SUBSET Shot :
          LET pairs == captured \cup {s \in Shot : baseline[s] # Blank}
          IN  differ' = [differ EXCEPT ![d] = [NotComparing EXCEPT
                !.stage = IF pairs = {} THEN "attribute" ELSE "compare", !.left = pairs,
                !.captured = captured, !.calm = vbCalm, !.met = Accepting # {}]]
    BY DEF StartDiff
  <1> DEFINE pairs == captured \cup {s \in Shot : baseline[s] # Blank}
  <1> DEFINE met == Accepting # {}
  <1> DEFINE stage == IF pairs = {} THEN "attribute" ELSE "compare"
  <1> DEFINE new == [NotComparing EXCEPT !.stage = stage, !.left = pairs,
                                         !.captured = captured, !.calm = vbCalm, !.met = met]
  <1>3. differ' = [differ EXCEPT ![d] = new]
    BY <1>2
  <1>4. /\ stage \in {"idle", "compare", "attribute", "done"} /\ pairs \in SUBSET Shot
        /\ met \in BOOLEAN /\ vbCalm \in SUBSET Shot
        /\ stage \in {"compare", "attribute"} /\ (stage = "compare" => pairs # {})
    BY DEF VbInv, VbTyped
  <1> HIDE DEF pairs, met, stage
  <1>5. /\ new \in Comparison /\ new.stage = stage /\ new.left = pairs /\ new.calm = vbCalm
        /\ new.met = met /\ new.outcome = <<>> /\ new.seen = <<>> /\ new.shown = <<>>
    <2>1. /\ NotComparing \in Comparison /\ NotComparing.outcome = <<>>
          /\ NotComparing.seen = <<>> /\ NotComparing.shown = <<>>
      <3>1. ASSUME NEW S PROVE <<>> \in PartOf(S)
        <4>1. <<>> \in [{} -> S]
          OBVIOUS
        <4> QED BY <4>1 DEF PartOf
      <3>2. PICK no \in BOOLEAN : no = FALSE
        OBVIOUS
      <3>3. NotComparing = [stage |-> "idle", left |-> {}, captured |-> {}, outcome |-> <<>>,
                            seen |-> <<>>, shown |-> <<>>, sha |-> <<>>, calm |-> {}, met |-> no]
        BY <3>2 DEF NotComparing
      <3> QED BY <3>1, <3>3 DEF Comparison
    <2> QED BY <1>4, <2>1 DEF Comparison
  <1> HIDE DEF new
  <1>6. /\ differ' \in [Differ -> Comparison] /\ differ'[d] = new
        /\ \A c \in Differ \ {d} : differ'[c] = differ[c]
    BY <1>3, <1>5 DEF VbInv, VbTyped
  <1>7. Compares(d)'
    <2>1. Accepting' = Accepting
      BY <1>1 DEF Accepting
    <2>2. DOMAIN new.seen = {} /\ DOMAIN new.outcome = {} /\ DOMAIN new.shown = {}
      BY <1>5
    <2>3. new.stage # "done"
      BY <1>4, <1>5
    <2>4. ~new.met => Accepting = {}
      BY <1>5 DEF met
    <2> QED BY <2>1, <2>2, <2>3, <2>4, <1>1, <1>4, <1>5, <1>6 DEF Compares
  <1> QED BY <1>1, <1>6, <1>7, DifferKeeps

\* One picture is compared with its baseline.
LEMMA ComparePairKeeps ==
  ASSUME VbInv, NEW d \in Differ, ComparePair(d)
  PROVE  VbInv'
  <1>1. /\ baseline' = baseline /\ pngTmp' = pngTmp /\ index' = index /\ indexTmp' = indexTmp
        /\ accepter' = accepter /\ accepts' = accepts /\ vbCalm' = vbCalm
        /\ differ[d].stage = "compare"
    BY DEF ComparePair
  <1>2. Next1(differ[d].left) \in Shot
    <2>1. differ[d].left # {} /\ differ[d].left \in SUBSET Shot
      BY <1>1, CompareFacts DEF VbInv, Compares
    <2>2. differ[d].left \in SUBSET Nat /\ IsFiniteSet(differ[d].left)
      BY <2>1, ShotsAreNumbered, FS_Subset
    <2> QED BY <2>1, <2>2, LeastOf DEF Next1
  <1>3. PICK s \in Shot : s = Next1(differ[d].left)
    BY <1>2
  <1>4. PICK current \in Picture \cup {Blank} :
          LET left == differ[d].left \ {s}
          IN  differ' = [differ EXCEPT
             ![d].outcome = With(@, s, Compare(baseline[s], current)),
             ![d].seen = With(@, s, baseline[s]),
             ![d].shown = With(@, s, current),
             ![d].left = left, ![d].captured = @ \ {s},
             ![d].stage = IF left = {} THEN "attribute" ELSE "compare"]
    <2>1. \E current \in IF s \in differ[d].captured THEN Picture ELSE {Blank} :
            LET left == differ[d].left \ {s}
            IN  differ' = [differ EXCEPT
               ![d].outcome = With(@, s, Compare(baseline[s], current)),
               ![d].seen = With(@, s, baseline[s]),
               ![d].shown = With(@, s, current),
               ![d].left = left, ![d].captured = @ \ {s},
               ![d].stage = IF left = {} THEN "attribute" ELSE "compare"]
      BY <1>3 DEF ComparePair
    <2> QED BY <2>1
  <1> DEFINE left == differ[d].left \ {s}
  <1> DEFINE captured == differ[d].captured \ {s}
  <1> DEFINE outcome == With(differ[d].outcome, s, Compare(baseline[s], current))
  <1> DEFINE seen == With(differ[d].seen, s, baseline[s])
  <1> DEFINE shown == With(differ[d].shown, s, current)
  <1> DEFINE stage == IF left = {} THEN "attribute" ELSE "compare"
  <1>5. differ' = [differ EXCEPT ![d].outcome = outcome, ![d].seen = seen, ![d].shown = shown,
                                 ![d].left = left, ![d].captured = captured, ![d].stage = stage]
    BY <1>4
  <1>6. /\ stage \in {"idle", "compare", "attribute", "done"} /\ left \in SUBSET Shot
        /\ captured \in SUBSET Shot
        /\ stage \in {"compare", "attribute"} /\ (stage = "compare" => left # {})
    BY CompareFacts
  <1>7. /\ baseline[s] \in Seen /\ current \in Seen /\ Compare(baseline[s], current) \in Outcome
    BY DEF VbInv, VbTyped, Capture, Compare, Outcome, Seen
  <1>13. /\ differ[d].outcome \in PartOf(Outcome)
         /\ differ[d].seen \in PartOf(Seen)
         /\ differ[d].shown \in PartOf(Seen)
         /\ differ[d] \in Comparison /\ differ \in [Differ -> Comparison]
    BY CompareFacts DEF VbInv, VbTyped
  <1>8. /\ outcome \in PartOf(Outcome) /\ DOMAIN outcome = DOMAIN differ[d].outcome \cup {s}
        /\ outcome[s] = Compare(baseline[s], current)
        /\ \A r \in DOMAIN differ[d].outcome \ {s} : outcome[r] = differ[d].outcome[r]
    <2> DEFINE f == differ[d].outcome
    <2> DEFINE x == Compare(baseline[s], current)
    <2>1. f \in PartOf(Outcome) /\ x \in Outcome
      BY <1>7, <1>13
    <2> HIDE DEF f, x
    <2>2. With(f, s, x) \in PartOf(Outcome)
      BY <2>1, <1>3, PartFacts, Zenon
    <2>3. /\ DOMAIN With(f, s, x) = DOMAIN f \cup {s}
          /\ With(f, s, x)[s] = x
          /\ \A r \in DOMAIN f \ {s} : With(f, s, x)[r] = f[r]
      BY DEF With
    <2> QED BY <2>2, <2>3 DEF f, x
  <1>9. /\ seen \in PartOf(Seen) /\ DOMAIN seen = DOMAIN differ[d].seen \cup {s}
        /\ seen[s] = baseline[s]
        /\ \A r \in DOMAIN differ[d].seen \ {s} : seen[r] = differ[d].seen[r]
    <2> DEFINE f == differ[d].seen
    <2> DEFINE x == baseline[s]
    <2>1. f \in PartOf(Seen) /\ x \in Seen
      BY <1>7, <1>13
    <2> HIDE DEF f, x
    <2>2. With(f, s, x) \in PartOf(Seen)
      BY <2>1, <1>3, PartFacts, Zenon
    <2>3. /\ DOMAIN With(f, s, x) = DOMAIN f \cup {s}
          /\ With(f, s, x)[s] = x
          /\ \A r \in DOMAIN f \ {s} : With(f, s, x)[r] = f[r]
      BY DEF With
    <2> QED BY <2>2, <2>3 DEF f, x
  <1>10. /\ shown \in PartOf(Seen) /\ DOMAIN shown = DOMAIN differ[d].shown \cup {s}
         /\ shown[s] = current
         /\ \A r \in DOMAIN differ[d].shown \ {s} : shown[r] = differ[d].shown[r]
    <2> DEFINE f == differ[d].shown
    <2> DEFINE x == current
    <2>1. f \in PartOf(Seen) /\ x \in Seen
      BY <1>7, <1>13
    <2> HIDE DEF f, x
    <2>2. With(f, s, x) \in PartOf(Seen)
      BY <2>1, <1>3, PartFacts, Zenon
    <2>3. /\ DOMAIN With(f, s, x) = DOMAIN f \cup {s}
          /\ With(f, s, x)[s] = x
          /\ \A r \in DOMAIN f \ {s} : With(f, s, x)[r] = f[r]
      BY DEF With
    <2> QED BY <2>2, <2>3 DEF f, x
  <1> HIDE DEF left, captured, outcome, seen, shown, stage
  <1>11. /\ differ' \in [Differ -> Comparison] /\ differ'[d].stage = stage
         /\ differ'[d].left = left /\ differ'[d].outcome = outcome /\ differ'[d].seen = seen
         /\ differ'[d].shown = shown /\ differ'[d].met = differ[d].met
         /\ differ'[d].calm = differ[d].calm
         /\ \A c \in Differ \ {d} : differ'[c] = differ[c]
    BY <1>5, <1>6, <1>8, <1>9, <1>10, <1>13 DEF Comparison
  <1>12. Compares(d)'
    <2>1. Accepting' = Accepting
      BY <1>1 DEF Accepting
    <2>2. Compares(d)
      BY DEF VbInv
    <2>3. /\ DOMAIN outcome = DOMAIN seen /\ DOMAIN shown = DOMAIN seen
          /\ \A r \in DOMAIN seen : outcome[r] = Compare(seen[r], shown[r])
      BY <2>2, <1>8, <1>9, <1>10 DEF Compares
    <2>4. ~differ[d].met => /\ Accepting = {} /\ differ[d].calm = vbCalm
                            /\ \A r \in DOMAIN seen : seen[r] = baseline[r]
      BY <2>2, <1>1, <1>9 DEF Compares
    <2> QED BY <2>1, <2>3, <2>4, <1>1, <1>6, <1>11 DEF Compares
  <1> QED BY <1>1, <1>11, <1>12, DifferKeeps

\* The pairs are attributed from the index.
LEMMA AttributeKeeps ==
  ASSUME VbInv, NEW d \in Differ, AttributePairs(d)
  PROVE  VbInv'
  <1>1. /\ baseline' = baseline /\ pngTmp' = pngTmp /\ index' = index /\ indexTmp' = indexTmp
        /\ accepter' = accepter /\ accepts' = accepts /\ vbCalm' = vbCalm
        /\ differ[d].stage = "attribute"
    BY DEF AttributePairs
  <1> DEFINE sha == [s \in DOMAIN differ[d].outcome |-> index[s]]
  <1>2. differ' = [differ EXCEPT ![d].sha = sha, ![d].stage = "done"]
    BY DEF AttributePairs
  <1>3. DOMAIN differ[d].outcome \in SUBSET Shot
    BY CompareFacts DEF PartOf
  <1>4. sha \in PartOf(Seen)
    <2>1. sha \in [DOMAIN differ[d].outcome -> Seen]
      BY <1>3 DEF VbInv, VbTyped, Capture, Seen
    <2> QED BY <1>3, <2>1 DEF PartOf
  <1>5. \A s \in DOMAIN differ[d].outcome : sha[s] = index[s]
    OBVIOUS
  <1> HIDE DEF sha
  <1>6. /\ differ' \in [Differ -> Comparison] /\ differ'[d].stage = "done"
        /\ differ'[d].outcome = differ[d].outcome /\ differ'[d].seen = differ[d].seen
        /\ differ'[d].shown = differ[d].shown /\ differ'[d].met = differ[d].met
        /\ differ'[d].calm = differ[d].calm /\ differ'[d].sha = sha
        /\ \A c \in Differ \ {d} : differ'[c] = differ[c]
    <2>1. differ \in [Differ -> Comparison] /\ differ[d] \in Comparison
      BY CompareFacts DEF VbInv, VbTyped
    <2> DEFINE new == [differ[d] EXCEPT !.sha = sha, !.stage = "done"]
    <2>2. new \in Comparison
      BY <1>4, <2>1 DEF Comparison
    <2>3. /\ new.stage = "done" /\ new.outcome = differ[d].outcome /\ new.seen = differ[d].seen
          /\ new.shown = differ[d].shown /\ new.met = differ[d].met
          /\ new.calm = differ[d].calm /\ new.sha = sha
      BY <2>1 DEF Comparison
    <2>4. differ' = [differ EXCEPT ![d] = new]
      BY <1>2
    <2> HIDE DEF new
    <2> QED BY <2>1, <2>2, <2>3, <2>4
  <1>7. Compares(d)'
    <2>1. Compares(d)
      BY DEF VbInv
    <2>2. ASSUME ~differ[d].met, NEW s \in DOMAIN differ[d].seen \cap differ[d].calm
          PROVE  sha[s] = differ[d].seen[s]
      <3>1. /\ Accepting = {} /\ s \in vbCalm /\ differ[d].seen[s] = baseline[s]
            /\ s \in DOMAIN differ[d].outcome
        BY <2>1, <2>2, <1>1 DEF Compares
      <3>2. index[s] = baseline[s]
        BY <3>1 DEF VbInv, IndexFollowsBaselines
      <3> QED BY <3>1, <3>2, <1>5
    <2> QED BY <2>1, <2>2, <1>6 DEF Compares
  <1> QED BY <1>1, <1>6, <1>7, DifferKeeps

LEMMA VbStarts ==
  ASSUME VbInit PROVE VbInv
  <1>1. NoRows \in Capture
    BY DEF NoRows, Capture
  <1>2. PICK no \in BOOLEAN : no = FALSE
    OBVIOUS
  <1>3. NotAccepting \in Acceptance /\ NotAccepting.stage = "idle"
    <2>1. NotAccepting = [stage |-> "idle", left |-> {}, all |-> {}, rows |-> NoRows, met |-> no]
      BY <1>2 DEF NotAccepting
    <2> QED BY <1>1, <2>1 DEF Acceptance, AcceptStage
  <1>4. /\ NotComparing \in Comparison /\ NotComparing.stage = "idle"
        /\ NotComparing.outcome = <<>> /\ NotComparing.seen = <<>> /\ NotComparing.shown = <<>>
    <2>1. ASSUME NEW S PROVE <<>> \in PartOf(S)
      <3>1. <<>> \in [{} -> S]
        OBVIOUS
      <3> QED BY <3>1 DEF PartOf
    <2>2. NotComparing = [stage |-> "idle", left |-> {}, captured |-> {}, outcome |-> <<>>,
                          seen |-> <<>>, shown |-> <<>>, sha |-> <<>>, calm |-> {}, met |-> no]
      BY <1>2 DEF NotComparing
    <2> QED BY <2>1, <2>2 DEF Comparison
  <1>5. \A a \in Accepter : accepter[a].stage = "idle"
    BY <1>3 DEF VbInit
  <1>6. Accepting = {}
    BY <1>5 DEF Accepting
  <1>7. VbTyped
    BY <1>1, <1>3, <1>4, MaxAcceptsIsNat DEF VbInit, VbTyped
  <1>8. AcceptsNoticed /\ IndexFollowsBaselines
    BY <1>6 DEF VbInit, AcceptsNoticed, IndexFollowsBaselines
  <1>9. \A a \in Accepter : ShotsLeft(a) /\ Alone(a) /\ RowsAgree(a)
    BY <1>6 DEF ShotsLeft, Alone, RowsAgree
  <1>10. \A d \in Differ : Compares(d)
    <2>1. \A d \in Differ : /\ differ[d].stage = "idle" /\ differ[d].outcome = <<>>
                            /\ differ[d].seen = <<>> /\ differ[d].shown = <<>>
      BY <1>4 DEF VbInit
    <2> QED BY <2>1 DEF Compares
  <1> QED BY <1>7, <1>8, <1>9, <1>10 DEF VbInv

LEMMA VbSteps ==
  ASSUME VbInv, [VbNext]_vbVars PROVE VbInv'
  <1>1. ASSUME NEW a \in Accepter, KillAccept(a) PROVE VbInv'
    <2>1. a \in Accepting /\ vbCalm' \subseteq vbCalm /\ vbCalm' \cap accepter[a].all = {}
      BY <1>1 DEF KillAccept
    <2> QED BY <1>1, <2>1, StopKeeps DEF KillAccept
  <1>2. CASE \E a \in Accepter :
               \/ StartAccept(a) \/ CopyPicture(a) \/ ReplacePicture(a) \/ HashPicture(a)
               \/ WriteIndex(a) \/ PublishIndex(a) \/ KillAccept(a)
    BY <1>1, <1>2, StartAcceptKeeps, CopyKeeps, ReplaceKeeps, HashKeeps, WriteKeeps, PublishKeeps
  <1>3. CASE \E d \in Differ : StartDiff(d) \/ ComparePair(d) \/ AttributePairs(d)
    BY <1>3, StartDiffKeeps, ComparePairKeeps, AttributeKeeps
  <1>4. CASE UNCHANGED vbVars
    BY <1>4 DEF vbVars, VbInv, VbTyped, AcceptsNoticed, IndexFollowsBaselines, ShotsLeft,
       Alone, RowsAgree, Compares, Accepting, Next1
  <1> QED BY <1>2, <1>3, <1>4 DEF VbNext

LEMMA VbAgrees ==
  ASSUME VbInv PROVE BaselinesAgree
  <1>1. ASSUME NEW d \in Differ, differ[d].stage = "done", ~differ[d].met
        PROVE  /\ \A s \in DOMAIN differ[d].seen \cap differ[d].calm :
                     differ[d].sha[s] = differ[d].seen[s]
               /\ Verdict(d) = "passed" =>
                    \A s \in DOMAIN differ[d].seen :
                      Blank \in {differ[d].seen[s], differ[d].shown[s]}
                        \/ differ[d].seen[s] = differ[d].shown[s]
    <2>1. Compares(d)
      BY DEF VbInv
    <2>2. ASSUME Verdict(d) = "passed", NEW s \in DOMAIN differ[d].seen,
                 Blank \notin {differ[d].seen[s], differ[d].shown[s]}
          PROVE  differ[d].seen[s] = differ[d].shown[s]
      <3>1. /\ s \in DOMAIN differ[d].outcome
            /\ differ[d].outcome[s] = Compare(differ[d].seen[s], differ[d].shown[s])
        BY <2>1 DEF Compares
      <3>2. differ[d].outcome[s] # "differ"
        BY <3>1, <2>2 DEF Verdict
      <3> QED BY <3>1, <3>2, <2>2 DEF Compare
    <2> QED BY <1>1, <2>1, <2>2 DEF Compares
  <1>2. ComparisonIsSound
    BY <1>1 DEF ComparisonIsSound
  <1> QED BY <1>2 DEF VbInv, BaselinesAgree

\* However many acceptances and comparisons overlap and wherever they are
\* killed: a shot that one undisturbed acceptance left is in the index with the
\* hash of its baseline, and a comparison no acceptance overlapped attributes
\* it to what it was compared with and passes only on equal pictures
\* (promote_to_baseline and write_index of baselines.py, _diff_pair and
\* _persist_index of visual/module.py).
THEOREM BaselinesStayTrue == VbSpec => []BaselinesAgree
  BY VbStarts, VbSteps, VbAgrees, PTL DEF VbSpec

(***************************************************************************)
(* AuditTrail.  As long as no entry was stamped while another was on its   *)
(* way and the clock went forward, no entry in the log is later than the   *)
(* clock or than the one that is on its way; what a writer has in the log  *)
(* follows from how far it is.                                             *)
(***************************************************************************)
Advances(m) ==
  /\ thread[m].stage \in {"waiting", "first", "appendFirst"} => EntriesOf(m) = {}
  /\ thread[m].stage \in {"work", "last", "appendLast"} =>
       \E i \in DOMAIN trail :
         /\ EntriesOf(m) = {i} /\ trail[i].kind = "first"
         /\ stepsBack = 0 => trail[i].ts <= clock
         /\ thread[m].stage = "appendLast" /\ stepsBack = 0 => trail[i].ts <= thread[m].ts
  /\ thread[m].stage = "done" =>
       \E i, k \in DOMAIN trail :
         /\ EntriesOf(m) = {i, k} /\ i < k /\ trail[i].kind = "first" /\ trail[k].kind = "last"
         /\ stepsBack = 0 => trail[i].ts <= trail[k].ts
  /\ m \in Carrying /\ stepsBack = 0 => thread[m].ts <= clock

InOrder ==
  ~overlapped /\ stepsBack = 0 =>
    /\ Monotonic(trail)
    /\ \A i \in DOMAIN trail : trail[i].ts <= clock
    /\ \A m \in Carrying, i \in DOMAIN trail : trail[i].ts <= thread[m].ts
    /\ \A m, n \in Carrying : m = n

GatesPass == overlapped \/ stepsBack > 0 \/ ("trail-exists" \notin gates /\ "trail-monotonic" \notin gates)

AtThread == [stage : ThreadStage, ts : 0..MaxTime]

AtInv ==
  /\ AtTypeOK /\ thread \in [Module -> AtThread] /\ trail # <<>>
  /\ \A m \in Module : Advances(m)
  /\ InOrder /\ GatesPass

LEMMA TrailFacts ==
  ASSUME AtInv
  PROVE  /\ trail \in Seq(TrailEntry) /\ Len(trail) \in Nat /\ DOMAIN trail = 1..Len(trail)
         /\ \A i \in DOMAIN trail : trail[i] \in TrailEntry /\ trail[i].ts \in Nat
         /\ clock \in Nat /\ clock \in 0..MaxTime /\ stepsBack \in Nat
         /\ \A m \in Module : thread[m] \in AtThread /\ thread[m].ts \in 0..MaxTime
         /\ \A m \in Module : thread[m].ts \in Nat /\ thread[m].stage \in ThreadStage
  <1>1. trail \in Seq(TrailEntry) /\ MaxTime \in Nat /\ MaxStepsBack \in Nat
    BY ClockIsBounded DEF AtInv, AtTypeOK
  <1>2. PICK n \in Nat : n = Len(trail) /\ DOMAIN trail = 1..n
    BY <1>1, LenProperties
  <1>3. \A i \in DOMAIN trail : trail[i] \in TrailEntry
    BY <1>1, LenProperties
  <1>4. \A i \in DOMAIN trail : trail[i].ts \in Nat
    BY <1>1, <1>3 DEF TrailEntry
  <1> QED BY <1>1, <1>2, <1>3, <1>4 DEF AtInv, AtTypeOK, AtThread

\* The log with one more entry.
LEMMA TrailGrows ==
  ASSUME AtInv, NEW e \in TrailEntry, trail' = Append(trail, e)
  PROVE  /\ trail' \in Seq(TrailEntry) /\ trail' # <<>>
         /\ DOMAIN trail' = 1..(Len(trail) + 1) /\ trail'[Len(trail) + 1] = e
         /\ \A i \in DOMAIN trail : i \in DOMAIN trail' /\ trail'[i] = trail[i]
         /\ \A m : m # e.by => EntriesOf(m)' = EntriesOf(m)
         /\ \A m : m = e.by => EntriesOf(m)' = EntriesOf(m) \cup {Len(trail) + 1}
         /\ Monotonic(trail) /\ (\A i \in DOMAIN trail : trail[i].ts <= e.ts) => Monotonic(trail')
  <1>1. PICK n \in Nat : n = Len(trail) /\ DOMAIN trail = 1..n
    BY TrailFacts
  <1>2. PICK t : t = Append(trail, e) /\ trail' = t
    OBVIOUS
  <1>3. /\ t \in Seq(TrailEntry) /\ Len(t) = n + 1 /\ DOMAIN t = 1..(n + 1)
        /\ t[n + 1] = e /\ \A i \in 1..n : t[i] = trail[i]
    BY <1>1, <1>2, TrailFacts, AppendProperties, LenProperties
  <1>4. t # <<>>
    <2>1. n + 1 \in DOMAIN t
      BY <1>3
    <2>2. DOMAIN <<>> = {}
      OBVIOUS
    <2> QED BY <2>1, <2>2
  <1>5. \A m : m # e.by => EntriesOf(m)' = EntriesOf(m)
    BY <1>1, <1>2, <1>3 DEF EntriesOf
  <1>6. \A m : m = e.by => EntriesOf(m)' = EntriesOf(m) \cup {n + 1}
    BY <1>1, <1>2, <1>3 DEF EntriesOf
  <1>7. ASSUME Monotonic(trail), \A i \in DOMAIN trail : trail[i].ts <= e.ts
        PROVE  Monotonic(t)
    <2> SUFFICES ASSUME NEW i \in 2..(n + 1) PROVE t[i].ts >= t[i - 1].ts
      BY <1>3 DEF Monotonic
    <2>1. CASE i = n + 1
      <3>1. i - 1 \in DOMAIN trail /\ t[i] = e /\ t[i - 1] = trail[i - 1]
        BY <1>1, <1>3, <2>1
      <3>2. e.ts \in Nat /\ trail[i - 1].ts \in Nat
        BY <3>1, TrailFacts, ClockIsBounded DEF TrailEntry
      <3> QED BY <1>7, <3>1, <3>2
    <2>2. CASE i # n + 1
      <3>1. i \in 2..n /\ i - 1 \in 1..n /\ i \in 1..n
        BY <2>2
      <3> QED BY <1>1, <1>3, <1>7, <3>1 DEF Monotonic
    <2> QED BY <2>1, <2>2
  <1> QED BY <1>1, <1>2, <1>3, <1>4, <1>5, <1>6, <1>7

\* A writer that does nothing, while time passes and others write.
LEMMA OthersAdvance ==
  ASSUME AtInv, NEW m \in Module, thread'[m] = thread[m], EntriesOf(m)' = EntriesOf(m),
         \A i \in DOMAIN trail : i \in DOMAIN trail' /\ trail'[i] = trail[i],
         clock' \in Nat, stepsBack' = 0 => stepsBack = 0 /\ clock <= clock'
  PROVE  Advances(m)'
  <1>1. Advances(m)
    BY DEF AtInv
  <1>2. m \in Carrying' <=> m \in Carrying
    BY DEF Carrying
  <1>3. clock \in Nat /\ thread[m].ts \in Nat /\ \A i \in DOMAIN trail : trail[i].ts \in Nat
    BY TrailFacts
  <1>4. thread[m].stage \in {"waiting", "first", "appendFirst"} => EntriesOf(m)' = {}
    BY <1>1 DEF Advances
  <1>5. ASSUME thread[m].stage \in {"work", "last", "appendLast"}
        PROVE  \E i \in DOMAIN trail' :
                 /\ EntriesOf(m)' = {i} /\ trail'[i].kind = "first"
                 /\ stepsBack' = 0 => trail'[i].ts <= clock'
                 /\ thread'[m].stage = "appendLast" /\ stepsBack' = 0 => trail'[i].ts <= thread'[m].ts
    <2>1. PICK i \in DOMAIN trail :
            /\ EntriesOf(m) = {i} /\ trail[i].kind = "first"
            /\ stepsBack = 0 => trail[i].ts <= clock
            /\ thread[m].stage = "appendLast" /\ stepsBack = 0 => trail[i].ts <= thread[m].ts
      BY <1>1, <1>5 DEF Advances
    <2>2. i \in DOMAIN trail' /\ trail'[i] = trail[i] /\ trail[i].ts \in Nat
      BY <1>3
    <2> QED BY <1>3, <2>1, <2>2
  <1>6. ASSUME thread[m].stage = "done"
        PROVE  \E i, k \in DOMAIN trail' :
                 /\ EntriesOf(m)' = {i, k} /\ i < k
                 /\ trail'[i].kind = "first" /\ trail'[k].kind = "last"
                 /\ stepsBack' = 0 => trail'[i].ts <= trail'[k].ts
    BY <1>1, <1>6 DEF Advances
  <1>7. m \in Carrying' /\ stepsBack' = 0 => thread'[m].ts <= clock'
    BY <1>1, <1>2, <1>3 DEF Advances
  <1> QED BY <1>4, <1>5, <1>6, <1>7 DEF Advances
\* Steps that leave the log alone.
LEMMA LogStays ==
  ASSUME AtInv, trail' = trail
  PROVE  /\ \A m : EntriesOf(m)' = EntriesOf(m)
         /\ \A i \in DOMAIN trail : i \in DOMAIN trail' /\ trail'[i] = trail[i]
         /\ trail' \in Seq(TrailEntry) /\ trail' # <<>>
         /\ Monotonic(trail') <=> Monotonic(trail)
  BY TrailFacts DEF EntriesOf, Monotonic, AtInv

LEMMA TickKeeps ==
  ASSUME AtInv, Tick
  PROVE  AtInv'
  <1>1. /\ clock' \in 0..MaxTime /\ clock' \in Nat /\ clock <= clock' /\ clock \in Nat
        /\ stepsBack' = stepsBack /\ trail' = trail /\ thread' = thread
        /\ gates' = gates /\ overlapped' = overlapped
    BY TrailFacts, ClockIsBounded DEF Tick
  <1>2. AtTypeOK' /\ (thread \in [Module -> AtThread])' /\ trail' # <<>>
    BY <1>1 DEF AtInv, AtTypeOK
  <1>3. ASSUME NEW m \in Module PROVE Advances(m)'
    BY <1>1, LogStays, OthersAdvance
  <1>4. InOrder'
    <2>1. Carrying' = Carrying
      BY <1>1 DEF Carrying
    <2>2. \A i \in DOMAIN trail : trail[i].ts \in Nat
      BY TrailFacts
    <2>3. InOrder
      BY DEF AtInv
    <2>4. ASSUME ~overlapped, stepsBack = 0 PROVE \A i \in DOMAIN trail : trail[i].ts <= clock'
      BY <1>1, <2>2, <2>3, <2>4 DEF InOrder
    <2> QED BY <1>1, <2>1, <2>3, <2>4, LogStays DEF InOrder
  <1>5. GatesPass'
    BY <1>1 DEF AtInv, GatesPass
  <1> QED BY <1>2, <1>3, <1>4, <1>5 DEF AtInv

LEMMA StepBackKeeps ==
  ASSUME AtInv, StepBack
  PROVE  AtInv'
  <1>1. /\ clock' \in 0..MaxTime /\ clock' \in Nat
        /\ stepsBack' \in 0..MaxStepsBack /\ stepsBack' > 0 /\ stepsBack' # 0
        /\ trail' = trail /\ thread' = thread /\ gates' = gates /\ overlapped' = overlapped
    BY TrailFacts, ClockIsBounded DEF StepBack
  <1>2. AtTypeOK' /\ (thread \in [Module -> AtThread])' /\ trail' # <<>>
    BY <1>1 DEF AtInv, AtTypeOK
  <1>3. ASSUME NEW m \in Module PROVE Advances(m)'
    BY <1>1, LogStays, OthersAdvance
  <1>4. InOrder' /\ GatesPass'
    BY <1>1 DEF InOrder, GatesPass
  <1> QED BY <1>2, <1>3, <1>4 DEF AtInv

\* The steps of one thread that leave the clock and the log alone: the other
\* threads are as far as they were.
LEMMA OneMoves ==
  ASSUME AtInv, NEW m \in Module, NEW t \in AtThread,
         thread' = [thread EXCEPT ![m] = t], UNCHANGED <<clock, stepsBack, trail>>
  PROVE  /\ \A n \in Module \ {m} : Advances(n)'
         /\ thread' \in [Module -> AtThread] /\ thread'[m] = t
         /\ \A n \in Module \ {m} : thread'[n] = thread[n]
         /\ Carrying' \subseteq Carrying \cup {m}
         /\ \A n \in Module : thread'[n].stage \in ThreadStage /\ thread'[n].ts \in 0..MaxTime
  <1>1. thread \in [Module -> AtThread]
    BY DEF AtInv
  <1>2. thread' \in [Module -> AtThread] /\ thread'[m] = t
        /\ \A n \in Module \ {m} : thread'[n] = thread[n]
    BY <1>1
  <1>3. ASSUME NEW n \in Module \ {m} PROVE Advances(n)'
    BY <1>2, TrailFacts, LogStays, OthersAdvance
  <1>4. Carrying' \subseteq Carrying \cup {m}
    BY <1>2 DEF Carrying
  <1>5. \A n \in Module : thread'[n].stage \in ThreadStage /\ thread'[n].ts \in 0..MaxTime
    BY <1>2 DEF AtThread
  <1> QED BY <1>2, <1>3, <1>4, <1>5

LEMMA StartThreadKeeps ==
  ASSUME AtInv, NEW m \in Module, StartThread(m)
  PROVE  AtInv'
  <1>1. PICK t : t = [thread[m] EXCEPT !.stage = "first"]
    OBVIOUS
  <1>2. /\ t \in AtThread /\ t.stage = "first" /\ t.ts = thread[m].ts
    BY <1>1, TrailFacts DEF AtThread, ThreadStage
  <1>3. /\ thread' = [thread EXCEPT ![m] = t] /\ thread[m].stage = "waiting"
        /\ UNCHANGED <<clock, stepsBack, trail>> /\ gates' = gates /\ overlapped' = overlapped
    BY <1>1 DEF StartThread, AtInv
  <1>4. AtTypeOK' /\ trail' # <<>> /\ (thread \in [Module -> AtThread])'
    BY <1>2, <1>3, OneMoves DEF AtInv, AtTypeOK
  <1>5. Carrying' = Carrying
    BY <1>2, <1>3, OneMoves DEF Carrying
  <1>6. Advances(m)'
    <2>1. EntriesOf(m)' = {}
      BY <1>3, LogStays DEF AtInv, Advances
    <2>2. m \notin Carrying'
      BY <1>3, <1>5 DEF Carrying
    <2> QED BY <1>2, <1>3, <2>1, <2>2, OneMoves DEF Advances
  <1>7. InOrder'
    <2>1. \A n \in Carrying : thread'[n] = thread[n]
      BY <1>2, <1>3, OneMoves DEF Carrying
    <2> QED BY <1>3, <1>5, <2>1, LogStays DEF AtInv, InOrder
  <1>8. GatesPass'
    BY <1>3 DEF AtInv, GatesPass
  <1>9. \A n \in Module : Advances(n)'
    BY <1>2, <1>3, <1>6, OneMoves
  <1> QED BY <1>4, <1>7, <1>8, <1>9 DEF AtInv

LEMMA StampKeeps ==
  ASSUME AtInv, NEW m \in Module, Stamp(m)
  PROVE  AtInv'
  <1>1. PICK s : s = IF thread[m].stage = "first" THEN "appendFirst" ELSE "appendLast"
    OBVIOUS
  <1>2. PICK t : t = [stage |-> s, ts |-> clock]
    OBVIOUS
  <1>3. t \in AtThread /\ t.stage = s /\ t.ts = clock /\ s \in {"appendFirst", "appendLast"}
    BY <1>1, <1>2, TrailFacts DEF AtThread, ThreadStage
  <1>4. /\ thread' = [thread EXCEPT ![m] = t] /\ thread[m].stage \in {"first", "last"}
        /\ UNCHANGED <<clock, stepsBack, trail>> /\ gates' = gates
        /\ overlapped' = (overlapped \/ Carrying # {})
    BY <1>1, <1>2 DEF Stamp, AtInv
  <1>5. AtTypeOK' /\ trail' # <<>> /\ (thread \in [Module -> AtThread])'
    <2>1. overlapped' \in BOOLEAN
      BY <1>4 DEF AtInv, AtTypeOK
    <2> QED BY <1>3, <1>4, <2>1, OneMoves DEF AtInv, AtTypeOK
  <1>6. Carrying' = Carrying \cup {m}
    <2>1. thread'[m] = t /\ \A n \in Module \ {m} : thread'[n] = thread[n]
      BY <1>3, <1>4, OneMoves
    <2> QED BY <1>3, <2>1 DEF Carrying
  <1>7. Advances(m)'
    <2>1. Advances(m) /\ EntriesOf(m)' = EntriesOf(m) /\ clock \in Nat
      BY <1>4, LogStays, TrailFacts DEF AtInv
    <2>2. thread'[m] = t
      BY <1>3, <1>4, OneMoves
    <2>3. CASE thread[m].stage = "first"
      <3>1. EntriesOf(m)' = {} /\ s = "appendFirst"
        BY <1>1, <2>1, <2>3 DEF Advances
      <3> QED BY <1>3, <1>4, <2>1, <2>2, <3>1 DEF Advances
    <2>4. CASE thread[m].stage = "last"
      <3>1. s = "appendLast"
        BY <1>1, <2>4
      <3>2. PICK i \in DOMAIN trail :
              /\ EntriesOf(m) = {i} /\ trail[i].kind = "first"
              /\ stepsBack = 0 => trail[i].ts <= clock
        BY <2>1, <2>4 DEF Advances
      <3>3. \E k \in DOMAIN trail' :
              /\ EntriesOf(m)' = {k} /\ trail'[k].kind = "first"
              /\ stepsBack' = 0 => trail'[k].ts <= clock'
              /\ thread'[m].stage = "appendLast" /\ stepsBack' = 0 => trail'[k].ts <= thread'[m].ts
        BY <1>3, <1>4, <2>1, <2>2, <3>2
      <3> QED BY <1>3, <1>4, <2>1, <2>2, <3>1, <3>3 DEF Advances
    <2> QED BY <1>4, <2>3, <2>4
  <1>8. InOrder'
    <2> SUFFICES ASSUME ~overlapped', stepsBack' = 0
                 PROVE  /\ Monotonic(trail')
                        /\ \A i \in DOMAIN trail' : trail'[i].ts <= clock'
                        /\ \A n \in Carrying', i \in DOMAIN trail' : trail'[i].ts <= thread'[n].ts
                        /\ \A k, n \in Carrying' : k = n
      BY DEF InOrder
    <2>1. ~overlapped /\ Carrying = {} /\ stepsBack = 0
      BY <1>4
    <2>2. Carrying' = {m} /\ thread'[m].ts = clock
      BY <1>3, <1>4, <1>6, <2>1, OneMoves
    <2>3. Monotonic(trail) /\ \A i \in DOMAIN trail : trail[i].ts <= clock
      BY <2>1 DEF AtInv, InOrder
    <2> QED BY <1>4, <2>2, <2>3
  <1>9. GatesPass'
    BY <1>4 DEF AtInv, GatesPass
  <1>10. \A n \in Module : Advances(n)'
    BY <1>3, <1>4, <1>7, OneMoves
  <1> QED BY <1>5, <1>8, <1>9, <1>10 DEF AtInv

LEMMA ReadTrailKeeps ==
  ASSUME AtInv, ReadTrail
  PROVE  AtInv'
  <1> DEFINE c == Compliance
  <1>0. c \in Module
    BY ComplianceIsModule
  <1>1. PICK t : t = [thread[c] EXCEPT !.stage = "last"]
    OBVIOUS
  <1>2. t \in AtThread /\ t.stage = "last" /\ t.ts = thread[c].ts
    BY <1>0, <1>1, TrailFacts DEF AtThread, ThreadStage
  <1>3. /\ thread' = [thread EXCEPT ![c] = t] /\ thread[c].stage = "work"
        /\ UNCHANGED <<clock, stepsBack, trail>> /\ gates' = FailedGates(trail)
        /\ overlapped' = overlapped
    BY <1>0, <1>1 DEF ReadTrail, AtInv
  <1>4. gates' \subseteq Gate \cup {"unread"} /\ "trail-exists" \notin gates'
        /\ (Monotonic(trail) => "trail-monotonic" \notin gates')
    BY <1>3 DEF FailedGates, Gate, AtInv
  <1>5. AtTypeOK' /\ trail' # <<>> /\ (thread \in [Module -> AtThread])'
    BY <1>0, <1>2, <1>3, <1>4, OneMoves DEF AtInv, AtTypeOK
  <1>6. Carrying' = Carrying /\ c \notin Carrying
    BY <1>0, <1>2, <1>3, OneMoves DEF Carrying
  <1>7. Advances(c)'
    <2>1. Advances(c) /\ EntriesOf(c)' = EntriesOf(c) /\ thread'[c] = t
      BY <1>0, <1>2, <1>3, LogStays, OneMoves DEF AtInv
    <2>2. PICK i \in DOMAIN trail :
            /\ EntriesOf(c) = {i} /\ trail[i].kind = "first"
            /\ stepsBack = 0 => trail[i].ts <= clock
      BY <1>3, <2>1 DEF Advances
    <2>3. \E k \in DOMAIN trail' :
            /\ EntriesOf(c)' = {k} /\ trail'[k].kind = "first"
            /\ stepsBack' = 0 => trail'[k].ts <= clock'
            /\ thread'[c].stage = "appendLast" /\ stepsBack' = 0 => trail'[k].ts <= thread'[c].ts
      BY <1>2, <1>3, <2>1, <2>2
    <2> QED BY <1>2, <1>6, <2>1, <2>3 DEF Advances
  <1>8. InOrder'
    <2>1. \A n \in Carrying : thread'[n] = thread[n]
      BY <1>0, <1>2, <1>3, <1>6, OneMoves DEF Carrying
    <2> QED BY <1>3, <1>6, <2>1, LogStays DEF AtInv, InOrder
  <1>9. GatesPass'
    <2>1. CASE overlapped \/ stepsBack > 0
      BY <1>3, <2>1 DEF GatesPass
    <2>2. CASE ~overlapped /\ ~(stepsBack > 0)
      <3>1. stepsBack = 0
        BY <2>2, TrailFacts
      <3>2. Monotonic(trail)
        BY <2>2, <3>1 DEF AtInv, InOrder
      <3> QED BY <1>4, <3>2 DEF GatesPass
    <2> QED BY <2>1, <2>2
  <1>10. \A n \in Module : Advances(n)'
    BY <1>0, <1>2, <1>3, <1>7, OneMoves
  <1> QED BY <1>5, <1>8, <1>9, <1>10 DEF AtInv
LEMMA AppendEntryKeeps ==
  ASSUME AtInv, NEW m \in Module, AppendEntry(m)
  PROVE  AtInv'
  <1> DEFINE n == Len(trail)
  <1>1. PICK first \in BOOLEAN : first = (thread[m].stage = "appendFirst")
    OBVIOUS
  <1>2. PICK e : e = [ts |-> thread[m].ts, kind |-> IF first THEN "first" ELSE "last", by |-> m]
    OBVIOUS
  <1>3. PICK t : t = [stage |-> IF ~first THEN "done" ELSE IF m = Compliance THEN "work" ELSE "last",
                      ts |-> 0]
    OBVIOUS
  <1>4. /\ e \in TrailEntry /\ e.by = m /\ e.ts = thread[m].ts
        /\ e.kind = IF first THEN "first" ELSE "last"
    BY <1>2, TrailFacts DEF TrailEntry, Kind
  <1>5. /\ t \in AtThread
        /\ t.stage \in IF first THEN {"work", "last"} ELSE {"done"}
    BY <1>3, ClockIsBounded DEF AtThread, ThreadStage
  <1>6. /\ thread' = [thread EXCEPT ![m] = t] /\ trail' = Append(trail, e)
        /\ m \in Carrying /\ UNCHANGED <<clock, stepsBack, gates, overlapped>>
    BY <1>1, <1>2, <1>3 DEF AppendEntry
  <1>7. /\ thread[m].stage = IF first THEN "appendFirst" ELSE "appendLast"
        /\ thread \in [Module -> AtThread] /\ Advances(m)
    BY <1>1, <1>6 DEF Carrying, AtInv
  <1>8. /\ thread' \in [Module -> AtThread] /\ thread'[m] = t
        /\ \A k \in Module \ {m} : thread'[k] = thread[k]
    BY <1>5, <1>6, <1>7
  <1>9. AtTypeOK' /\ trail' # <<>>
    <2>1. \A k \in Module : thread'[k].stage \in ThreadStage /\ thread'[k].ts \in 0..MaxTime
      BY <1>8 DEF AtThread
    <2> QED BY <1>4, <1>6, <2>1, TrailGrows DEF AtInv, AtTypeOK
  <1>10. Carrying' = Carrying \ {m}
    <2>1. m \notin Carrying'
      BY <1>5, <1>8 DEF Carrying
    <2> QED BY <1>8, <2>1 DEF Carrying
  <1>11. /\ n + 1 \in DOMAIN trail' /\ trail'[n + 1] = e
         /\ \A i \in DOMAIN trail : i \in DOMAIN trail' /\ trail'[i] = trail[i] /\ i < n + 1
         /\ EntriesOf(m)' = EntriesOf(m) \cup {n + 1}
    BY <1>4, <1>6, TrailGrows, TrailFacts
  <1>12. stepsBack = 0 => e.ts <= clock
    BY <1>4, <1>6, <1>7 DEF Advances
  <1>13. Advances(m)'
    <2>1. CASE first
      <3>1. EntriesOf(m)' = {n + 1}
        BY <1>7, <1>11, <2>1 DEF Advances
      <3>2. \E k \in DOMAIN trail' :
              /\ EntriesOf(m)' = {k} /\ trail'[k].kind = "first"
              /\ stepsBack' = 0 => trail'[k].ts <= clock'
              /\ thread'[m].stage = "appendLast" /\ stepsBack' = 0 => trail'[k].ts <= thread'[m].ts
        BY <1>4, <1>5, <1>6, <1>8, <1>11, <1>12, <2>1, <3>1
      <3> QED BY <1>5, <1>8, <1>10, <2>1, <3>2 DEF Advances
    <2>2. CASE ~first
      <3>1. PICK i \in DOMAIN trail :
              /\ EntriesOf(m) = {i} /\ trail[i].kind = "first"
              /\ stepsBack = 0 => trail[i].ts <= thread[m].ts
        BY <1>7, <2>2 DEF Advances
      <3>2. \E j, k \in DOMAIN trail' :
              /\ EntriesOf(m)' = {j, k} /\ j < k
              /\ trail'[j].kind = "first" /\ trail'[k].kind = "last"
              /\ stepsBack' = 0 => trail'[j].ts <= trail'[k].ts
        <4>1. i \in DOMAIN trail' /\ i < n + 1 /\ trail'[i] = trail[i] /\ EntriesOf(m)' = {i, n + 1}
          BY <1>11, <3>1
        <4>2. trail'[n + 1].kind = "last" /\ trail'[n + 1].ts = thread[m].ts
          BY <1>4, <1>11, <2>2
        <4> QED BY <1>6, <1>11, <3>1, <4>1, <4>2
      <3> QED BY <1>5, <1>8, <1>10, <2>2, <3>2 DEF Advances
    <2> QED BY <2>1, <2>2
  <1>14. \A k \in Module : Advances(k)'
    <2> SUFFICES ASSUME NEW k \in Module \ {m} PROVE Advances(k)'
      BY <1>13
    <2>1. EntriesOf(k)' = EntriesOf(k)
      BY <1>4, <1>6, TrailGrows
    <2> QED BY <1>6, <1>8, <1>11, <2>1, TrailFacts, OthersAdvance
  <1>15. InOrder'
    <2> SUFFICES ASSUME ~overlapped', stepsBack' = 0
                 PROVE  /\ Monotonic(trail')
                        /\ \A i \in DOMAIN trail' : trail'[i].ts <= clock'
                        /\ \A k \in Carrying', i \in DOMAIN trail' : trail'[i].ts <= thread'[k].ts
                        /\ \A j, k \in Carrying' : j = k
      BY DEF InOrder
    <2>1. /\ Monotonic(trail) /\ \A i \in DOMAIN trail : trail[i].ts <= clock
          /\ \A k \in Carrying, i \in DOMAIN trail : trail[i].ts <= thread[k].ts
          /\ \A j, k \in Carrying : j = k
      BY <1>6 DEF AtInv, InOrder
    <2>2. Carrying' = {}
      BY <1>6, <1>10, <2>1
    <2>3. Monotonic(trail')
      BY <1>4, <1>6, <2>1, TrailGrows
    <2>4. \A i \in DOMAIN trail' : i \in DOMAIN trail \/ i = n + 1
      BY <1>4, <1>6, TrailGrows, TrailFacts
    <2> QED BY <1>6, <1>11, <1>12, <2>1, <2>2, <2>3, <2>4
  <1>16. GatesPass'
    BY <1>6 DEF AtInv, GatesPass
  <1> QED BY <1>8, <1>9, <1>14, <1>15, <1>16 DEF AtInv

LEMMA EmitArtifactsKeeps ==
  ASSUME AtInv, EmitArtifacts
  PROVE  AtInv'
  <1> DEFINE n == Len(trail)
  <1>1. PICK e : e = [ts |-> clock, kind |-> "artifact_emitted", by |-> "lifecycle"]
    OBVIOUS
  <1>2. e \in TrailEntry /\ e.by = "lifecycle" /\ e.ts = clock
    BY <1>1, TrailFacts DEF TrailEntry, Kind
  <1>3. /\ \A m \in Module : thread[m].stage = "done"
        /\ trail' = Append(trail, e) /\ UNCHANGED <<clock, stepsBack, thread, gates, overlapped>>
    BY <1>1 DEF EmitArtifacts
  <1>4. AtTypeOK' /\ (thread \in [Module -> AtThread])' /\ trail' # <<>>
    BY <1>2, <1>3, TrailGrows DEF AtInv, AtTypeOK
  <1>5. ASSUME NEW m \in Module PROVE Advances(m)'
    <2>1. EntriesOf(m)' = EntriesOf(m)
      BY <1>2, <1>3, TrailGrows, ComplianceIsModule
    <2> QED BY <1>2, <1>3, <2>1, TrailGrows, TrailFacts, OthersAdvance
  <1>6. InOrder'
    <2> SUFFICES ASSUME ~overlapped', stepsBack' = 0
                 PROVE  /\ Monotonic(trail')
                        /\ \A i \in DOMAIN trail' : trail'[i].ts <= clock'
                        /\ Carrying' = {}
      BY DEF InOrder
    <2>1. Monotonic(trail) /\ \A i \in DOMAIN trail : trail[i].ts <= e.ts
      BY <1>2, <1>3 DEF AtInv, InOrder
    <2>2. Monotonic(trail')
      BY <1>2, <1>3, <2>1, TrailGrows
    <2>3. \A i \in DOMAIN trail' : i \in DOMAIN trail \/ i = n + 1
      BY <1>2, <1>3, TrailGrows, TrailFacts
    <2>4. ASSUME NEW i \in DOMAIN trail' PROVE trail'[i].ts <= clock'
      BY <1>2, <1>3, <2>1, <2>3, TrailGrows, TrailFacts
    <2>5. Carrying' = {}
      BY <1>3 DEF Carrying
    <2> QED BY <2>2, <2>4, <2>5
  <1>7. GatesPass'
    BY <1>3 DEF AtInv, GatesPass
  <1> QED BY <1>4, <1>5, <1>6, <1>7 DEF AtInv

LEMMA AtStarts ==
  ASSUME AtInit
  PROVE  AtInv
  <1>1. PICK e : e = [ts |-> 0, kind |-> "decision", by |-> "lifecycle"]
    OBVIOUS
  <1>2. e \in TrailEntry /\ e.ts = 0 /\ e.by = "lifecycle"
    BY <1>1, ClockIsBounded DEF TrailEntry, Kind
  <1>3. /\ trail = <<e>> /\ clock = 0 /\ stepsBack = 0 /\ gates = {"unread"} /\ overlapped = FALSE
        /\ \A m \in Module : thread[m] = [stage |-> "waiting", ts |-> 0]
        /\ thread \in [Module -> AtThread]
    BY <1>1, ClockIsBounded DEF AtInit, AtThread, ThreadStage
  <1>4. trail \in Seq(TrailEntry) /\ Len(trail) = 1 /\ DOMAIN trail = {1} /\ trail[1] = e
    BY <1>2, <1>3
  <1>5. trail # <<>>
    <2>1. 1 \in DOMAIN trail /\ DOMAIN <<>> = {}
      BY <1>4
    <2> QED BY <2>1
  <1>6. AtTypeOK
    <2>1. 0 \in 0..MaxTime /\ 0 \in 0..MaxStepsBack
      BY ClockIsBounded
    <2>2. \A m \in Module : thread[m].stage \in ThreadStage /\ thread[m].ts \in 0..MaxTime
      BY <1>3, <2>1 DEF ThreadStage
    <2>3. overlapped \in BOOLEAN
      BY <1>3
    <2>4. gates \subseteq Gate \cup {"unread"} /\ clock \in 0..MaxTime /\ stepsBack \in 0..MaxStepsBack
      BY <1>3, <2>1
    <2> QED BY <1>4, <2>2, <2>3, <2>4 DEF AtTypeOK
  <1>7. ASSUME NEW m \in Module PROVE Advances(m)
    <2>1. EntriesOf(m) = {}
      BY <1>2, <1>4, ComplianceIsModule DEF EntriesOf
    <2> QED BY <1>3, <2>1 DEF Advances, Carrying
  <1>8. InOrder
    <2>1. Carrying = {}
      BY <1>3 DEF Carrying
    <2>2. Monotonic(trail)
      BY <1>4 DEF Monotonic
    <2> QED BY <1>2, <1>3, <1>4, <2>1, <2>2 DEF InOrder
  <1>9. GatesPass
    BY <1>3 DEF GatesPass
  <1> QED BY <1>3, <1>5, <1>6, <1>7, <1>8, <1>9 DEF AtInv

LEMMA AtSteps == AtInv /\ [AtNext]_atVars => AtInv'
  <1> SUFFICES ASSUME AtInv, [AtNext]_atVars PROVE AtInv'
    OBVIOUS
  <1>1. CASE Tick
    BY <1>1, TickKeeps
  <1>2. CASE StepBack
    BY <1>2, StepBackKeeps
  <1>3. CASE ReadTrail
    BY <1>3, ReadTrailKeeps
  <1>4. CASE EmitArtifacts
    BY <1>4, EmitArtifactsKeeps
  <1>5. ASSUME NEW m \in Module, StartThread(m) PROVE AtInv'
    BY <1>5, StartThreadKeeps
  <1>6. ASSUME NEW m \in Module, Stamp(m) PROVE AtInv'
    BY <1>6, StampKeeps
  <1>7. ASSUME NEW m \in Module, AppendEntry(m) PROVE AtInv'
    BY <1>7, AppendEntryKeeps
  <1>8. CASE UNCHANGED atVars
    BY <1>8 DEF atVars, AtInv, AtTypeOK, Advances, EntriesOf, InOrder, GatesPass, Carrying, Monotonic
  <1> QED BY <1>1, <1>2, <1>3, <1>4, <1>5, <1>6, <1>7, <1>8 DEF AtNext

LEMMA AtServes == AtInv => AtTypeOK /\ TrailVerdictIsFair
  <1> SUFFICES ASSUME AtInv PROVE TrailVerdictIsFair
    BY DEF AtInv
  <1>1. OnlyRacesFailTheTrail
    BY TrailFacts DEF AtInv, GatesPass, OnlyRacesFailTheTrail, ComplianceStatus, SeverityOf
  <1>2. ASSUME NEW m \in Module
        PROVE  /\ \A i, k \in EntriesOf(m) : i < k =>
                    /\ trail[i].kind = "first" /\ trail[k].kind = "last"
                    /\ stepsBack = 0 => trail[i].ts <= trail[k].ts
               /\ \A k \in EntriesOf(m) : trail[k].kind # "first" => \E i \in EntriesOf(m) : i < k
               /\ thread[m].stage = "done" => \E k \in EntriesOf(m) : trail[k].kind = "last"
    <2>0. Advances(m) /\ DOMAIN trail = 1..Len(trail) /\ Len(trail) \in Nat
          /\ thread[m].stage \in ThreadStage
      BY TrailFacts DEF AtInv
    <2>1. CASE thread[m].stage \in {"waiting", "first", "appendFirst"}
      <3>1. EntriesOf(m) = {}
        BY <2>0, <2>1 DEF Advances
      <3> QED BY <2>1, <3>1
    <2>2. CASE thread[m].stage \in {"work", "last", "appendLast"}
      <3>1. PICK j \in DOMAIN trail : EntriesOf(m) = {j} /\ trail[j].kind = "first"
        BY <2>0, <2>2 DEF Advances
      <3> QED BY <2>0, <2>2, <3>1
    <2>3. CASE thread[m].stage = "done"
      <3>1. PICK j, l \in DOMAIN trail :
              /\ EntriesOf(m) = {j, l} /\ j < l /\ trail[j].kind = "first" /\ trail[l].kind = "last"
              /\ stepsBack = 0 => trail[j].ts <= trail[l].ts
        BY <2>0, <2>3 DEF Advances
      <3> QED BY <2>0, <2>3, <3>1
    <2> QED BY <2>0, <2>1, <2>2, <2>3 DEF ThreadStage
  <1> QED BY <1>1, <1>2 DEF TrailVerdictIsFair, EachWriterIsInOrder

\* The log holds whole entries and every thread is at a stage of its module
\* (write_audit_entry of audit_log.py).
THEOREM TrailTyped == AtSpec => []AtTypeOK
  BY AtStarts, AtSteps, AtServes, PTL DEF AtSpec

\* For any number of modules and threads: the compliance module fails over the
\* trail only if two threads were about to write at once or the clock was put
\* back, and what each writer logged is there once, in the order it wrote it
\* (_gate_trail_monotonic and audit_soc2_trail, write_audit_entry).
THEOREM TrailStaysFair == AtSpec => []TrailVerdictIsFair
  BY AtStarts, AtSteps, AtServes, PTL DEF AtSpec

(***************************************************************************)
(* ApiSnapshots.  A snapshot that can be read is the document of its run   *)
(* and stays it, so the edges of the comparisons, which lead to readable   *)
(* snapshots from runs that had none yet, never close a circle; and what   *)
(* a run reports is what became of the very snapshot it was compared with. *)
(* Of two runs of which the earlier is still under way, both know.         *)
(***************************************************************************)
FileFollows(r) ==
  LET run == apiRun[r]
  IN  /\ run.since # r
      /\ run.stage = "compare" => run.checks
      /\ run.stage \in {"idle", "load", "compare"} => run.file = Missing /\ run.against = NoRun
      /\ run.stage = "truncate" => run.file = Missing
      /\ run.stage = "fill" => run.file = Damaged
      /\ run.stage \in {"report", "done"} => run.file = run.current
      /\ run.file \in {Missing, Damaged, run.current}

ReportsTheDifference(r) ==
  apiRun[r].against # NoRun =>
    LET i == apiRun[r].against
    IN  /\ i # r /\ Readable(apiRun[i].file) /\ apiRun[r].current # Missing
        /\ apiRun[r].issues = Breaks(apiRun[i].file, apiRun[r].current)

InTurn ==
  \A i, r \in ApiRun : i < r /\ Started(r) =>
    Started(i) /\ (Under(i) => i \in apiOverlapped /\ r \in apiOverlapped)

NoCircle == \A r \in ApiRun : r \notin Lineage(r)

ApInv ==
  /\ ApTypeOK
  /\ \A r \in ApiRun : FileFollows(r) /\ ReportsTheDifference(r)
  /\ InTurn /\ NoCircle /\ BaselineIsFound

\* What any step of run r leaves as it was: the other runs; a readable
\* snapshot with its document; and, but for the comparison itself, the edge.
MovesOnly(r) ==
  /\ apiRun' \in [ApiRun -> ApiState]
  /\ \A i \in ApiRun \ {r} : apiRun'[i] = apiRun[i]
  /\ Readable(apiRun[r].file) => /\ apiRun'[r].file = apiRun[r].file
                                 /\ apiRun'[r].current = apiRun[r].current
  /\ apiRun[r].stage \notin {"done", "dead"} /\ apiRun'[r].stage # "idle"
  /\ apiRun[r].stage = "idle" => apiRun'[r].stage = "load"
  /\ apiOverlapped \subseteq apiOverlapped' /\ apiOverlapped' \subseteq ApiRun

LEMMA EdgesStay ==
  ASSUME ApInv, NEW r \in ApiRun, MovesOnly(r), NEW k \in ApiRun \ {r}
  PROVE  FileFollows(k)' /\ ReportsTheDifference(k)'
<1>1. FileFollows(k) /\ ReportsTheDifference(k) /\ FileFollows(r)
  BY DEF ApInv
<1>2. apiRun'[k] = apiRun[k]
  BY DEF MovesOnly
<1>3. FileFollows(k)'
  BY <1>1, <1>2 DEF FileFollows
<1>4. ASSUME apiRun[k].against # NoRun
      PROVE  apiRun'[apiRun[k].against].file = apiRun[apiRun[k].against].file
  <2>1. apiRun[k].against \in ApiRun /\ Readable(apiRun[apiRun[k].against].file)
    BY <1>1, <1>4 DEF ReportsTheDifference, ApInv, ApTypeOK, ApiState
  <2> QED BY <2>1 DEF MovesOnly
<1>5. ReportsTheDifference(k)'
  BY <1>1, <1>2, <1>4 DEF ReportsTheDifference
<1> QED BY <1>3, <1>5

LEMMA TurnStays ==
  ASSUME ApInv, NEW r \in ApiRun, MovesOnly(r),
         apiRun[r].stage = "idle" =>
           /\ \A i \in 1..(r - 1) : Started(i)
           /\ \A i \in ApiRun : Under(i) => i \in apiOverlapped' /\ r \in apiOverlapped'
  PROVE  InTurn'
<1> USE DEF ApiRun
<1> SUFFICES ASSUME NEW i \in ApiRun, NEW k \in ApiRun, i < k, Started(k)'
             PROVE  Started(i)' /\ (Under(i)' => i \in apiOverlapped' /\ k \in apiOverlapped')
  BY DEF InTurn
<1>1. InTurn /\ ApiRuns \in Nat
  BY ApiRunsIsPositive DEF ApInv
<1>2. i # r => apiRun'[i] = apiRun[i]
  BY DEF MovesOnly
<1>3. CASE Started(k)
  <2>1. Started(i) /\ (Under(i) => i \in apiOverlapped /\ k \in apiOverlapped)
    BY <1>1, <1>3 DEF InTurn
  <2>2. CASE i = r
    BY <2>1, <2>2 DEF MovesOnly, Started, Under
  <2> QED BY <2>1, <2>2, <1>2 DEF MovesOnly, Started, Under
<1>4. CASE ~Started(k)
  <2>1. k = r
    BY <1>4 DEF MovesOnly, Started
  <2>2. apiRun[r].stage = "idle" /\ i # r /\ i \in 1..(r - 1)
    BY <1>1, <2>1, <1>4 DEF Started
  <2>3. Started(i) /\ (Under(i) => i \in apiOverlapped' /\ r \in apiOverlapped')
    BY <2>2
  <2> QED BY <2>1, <2>2, <2>3, <1>2 DEF Started, Under
<1> QED BY <1>3, <1>4

\* Nobody was compared with a run that has no readable snapshot.
LEMMA CircleStays ==
  ASSUME ApInv, NEW r \in ApiRun, MovesOnly(r),
         \/ apiRun'[r].against = apiRun[r].against
         \/ apiRun[r].stage = "compare" /\ apiRun'[r].against # r
  PROVE  NoCircle'
<1> SUFFICES ASSUME NEW k \in ApiRun
             PROVE  \E runs \in SUBSET ApiRun : GoesBack(k, runs)' /\ k \notin runs
  BY DEF NoCircle, Lineage
<1>1. PICK runs \in SUBSET ApiRun : GoesBack(k, runs) /\ k \notin runs
  BY DEF ApInv, NoCircle, Lineage
<1>2. \A i \in ApiRun : i # r => apiRun'[i].against = apiRun[i].against
  BY DEF MovesOnly
<1>3. \A i \in ApiRun : apiRun'[i].against \in ApiRun \cup {NoRun}
  BY DEF MovesOnly, ApiState
<1>4. CASE apiRun'[r].against = apiRun[r].against
  BY <1>1, <1>2, <1>4 DEF GoesBack
<1>5. CASE apiRun[r].stage = "compare" /\ apiRun'[r].against # r
  <2>1. \A i \in ApiRun : apiRun[i].against # r
    BY <1>5, MissingIsNone DEF ApInv, FileFollows, ReportsTheDifference, Readable, NoRun, ApiRun
  <2>2. CASE k = r
    <3>1. GoesBack(r, ApiRun \ {r})'
      BY <1>2, <1>3, <1>5, <2>1 DEF GoesBack
    <3> QED BY <2>2, <3>1
  <2>3. CASE k # r
    <3>1. GoesBack(k, runs \ {r})'
      BY <1>1, <1>2, <2>1, <2>3 DEF GoesBack
    <3> QED BY <1>1, <3>1
  <2> QED BY <2>2, <2>3
<1> QED BY <1>4, <1>5

\* What BaselineIsFound says of another run than the one that moves: it reads
\* no run behind it, and of one before it that has just reported both know.
LEMMA BaselinesStay ==
  ASSUME ApInv, NEW r \in ApiRun, MovesOnly(r), InTurn', NEW k \in ApiRun \ {r},
         Undisturbed(k)', Compared(k)'
  PROVE  /\ Undisturbed(k) /\ Compared(k)
         /\ \A i \in 1..k : i \in ApiRun /\ apiRun'[i] = apiRun[i]
<1> USE DEF ApiRun
<1>1. ApiRuns \in Nat /\ k \in Nat
  BY ApiRunsIsPositive
<1>2. ~(r < k)
  <2> SUFFICES ASSUME r < k PROVE FALSE
    OBVIOUS
  <2>1. ApiReported(r)' /\ r \notin apiOverlapped'
    BY <1>1 DEF Undisturbed
  <2>2. Under(r)
    BY <2>1 DEF MovesOnly, ApiReported, Under
  <2>3. Started(k)
    BY DEF Compared, Started, MovesOnly
  <2> QED BY <2>1, <2>2, <2>3 DEF ApInv, InTurn, MovesOnly
<1>3. \A i \in 1..k : i \in ApiRun /\ apiRun'[i] = apiRun[i]
  BY <1>1, <1>2 DEF MovesOnly
<1>4. Undisturbed(k)
  BY <1>1, <1>3 DEF Undisturbed, ApiReported, MovesOnly
<1>5. Compared(k)
  BY <1>1, <1>3 DEF Compared
<1> QED BY <1>3, <1>4, <1>5

\* What is claimed of a run.
Found(r) ==
  Undisturbed(r) /\ Compared(r) /\ apiRun[r].since = NoRun /\ apiRun[r].current # Missing =>
    /\ LatestBefore(r) # NoRun => apiRun[r].against # NoRun
    /\ (\A i, k \in 1..r : i < k => apiRun[i].id < apiRun[k].id)
         => apiRun[r].against = LatestBefore(r)

LEMMA SameLatest ==
  ASSUME NEW r \in ApiRun, \A i \in 1..(r - 1) : apiRun'[i] = apiRun[i]
  PROVE  LatestBefore(r)' = LatestBefore(r)
<1> DEFINE left == {i \in 1..(r - 1) : Readable(apiRun[i].file)}
<1>1. left' = left
  BY DEF Readable
<1>2. LatestBefore(r) = IF left = {} THEN NoRun ELSE CHOOSE i \in left : \A k \in left : k <= i
  BY DEF LatestBefore
<1>3. LatestBefore(r)' = IF left' = {} THEN NoRun ELSE CHOOSE i \in left' : \A k \in left' : k <= i
  BY DEF LatestBefore
<1> HIDE DEF left
<1> QED BY <1>1, <1>2, <1>3

LEMMA FoundStays ==
  ASSUME ApInv, NEW r \in ApiRun, MovesOnly(r), InTurn', NEW k \in ApiRun \ {r}
  PROVE  Found(k)'
<1> SUFFICES ASSUME Undisturbed(k)', Compared(k)' PROVE Found(k)'
  BY DEF Found
<1>1. /\ Undisturbed(k) /\ Compared(k)
      /\ \A i \in 1..k : i \in ApiRun /\ apiRun'[i] = apiRun[i]
  BY BaselinesStay
<1>2. Found(k)
  BY DEF ApInv, BaselineIsFound, Found
<1>3. k \in 1..k /\ 1..(k - 1) \subseteq 1..k
  BY ApiRunsIsPositive DEF ApiRun
<1>4. LatestBefore(k)' = LatestBefore(k)
  BY <1>1, <1>3, SameLatest
<1> QED BY <1>1, <1>2, <1>3, <1>4 DEF Found

\* And of the run that moves, once it has compared.
LEMMA FoundStaysMine ==
  ASSUME ApInv, NEW r \in ApiRun, MovesOnly(r), apiOverlapped' = apiOverlapped,
         Compared(r)' => Compared(r), apiRun'[r].since = apiRun[r].since,
         apiRun'[r].current = apiRun[r].current, apiRun'[r].against = apiRun[r].against,
         apiRun'[r].id = apiRun[r].id
  PROVE  Found(r)'
<1> SUFFICES ASSUME Undisturbed(r)', Compared(r)' PROVE Found(r)'
  BY DEF Found
<1>1. \A i \in 1..(r - 1) : i \in ApiRun /\ i # r /\ apiRun'[i] = apiRun[i]
  BY ApiRunsIsPositive DEF MovesOnly, ApiRun
<1>2. Undisturbed(r)
  BY <1>1 DEF Undisturbed, ApiReported
<1>3. Found(r)
  BY DEF ApInv, BaselineIsFound, Found
<1>4. LatestBefore(r)' = LatestBefore(r)
  BY <1>1, SameLatest
<1>5. \A i \in 1..r : apiRun'[i].id = apiRun[i].id
  BY <1>1, ApiRunsIsPositive DEF ApiRun
<1> QED BY <1>2, <1>3, <1>4, <1>5 DEF Found

LEMMA ApJoins ==
  ASSUME ApInv, NEW r \in ApiRun, MovesOnly(r), apiTrouble' \in 0..MaxTrouble, InTurn', NoCircle',
         FileFollows(r)', ReportsTheDifference(r)', Found(r)'
  PROVE  ApInv'
<1>1. \A k \in ApiRun : FileFollows(k)' /\ ReportsTheDifference(k)'
  BY EdgesStay
<1>2. \A k \in ApiRun : Found(k)'
  BY FoundStays
<1>3. BaselineIsFound'
  BY <1>2 DEF BaselineIsFound, Found
<1>4. ApTypeOK'
  BY DEF ApTypeOK, MovesOnly
<1> QED BY <1>1, <1>3, <1>4 DEF ApInv

LEMMA ApStarts == ApInit => ApInv
<1> SUFFICES ASSUME ApInit PROVE ApInv
  OBVIOUS
<1> USE DEF ApInit, ApiState, ApiStage, NoRun, NoId
<1>1. ApTypeOK
  BY ApiRunsIsPositive DEF ApTypeOK
<1>2. \A r \in ApiRun : FileFollows(r) /\ ReportsTheDifference(r)
  BY DEF FileFollows, ReportsTheDifference, ApiRun
<1>3. InTurn
  BY DEF InTurn, Started
<1>4. NoCircle
  <2>1. \A r \in ApiRun : GoesBack(r, {})
    BY DEF GoesBack
  <2> QED BY <2>1 DEF NoCircle, Lineage
<1>5. BaselineIsFound
  BY DEF BaselineIsFound, Compared
<1> QED BY <1>1, <1>2, <1>3, <1>4, <1>5 DEF ApInv

LEMMA StartRunKeeps ==
  ASSUME ApInv, NEW r \in ApiRun, StartApiRun(r)
  PROVE  ApInv'
<1> USE ApiRunsIsPositive DEF ApiRun
<1>0. apiRun \in [ApiRun -> ApiState] /\ apiOverlapped \subseteq ApiRun /\ apiTrouble \in 0..MaxTrouble
  BY DEF ApInv, ApTypeOK
<1>1. PICK id \in RunId \ {apiRun[i].id : i \in ApiRun}, looks \in BOOLEAN, since \in 0..(r - 1) :
        apiRun' = [apiRun EXCEPT ![r].stage = "load", ![r].id = id, ![r].checks = looks,
                                 ![r].since = since]
  BY DEF StartApiRun
<1>2. apiRun[r].stage = "idle" /\ apiRun[r].file = Missing /\ apiRun[r].against = NoRun
  BY DEF StartApiRun, ApInv, FileFollows
<1>3. apiRun'[r] = [apiRun[r] EXCEPT !.stage = "load", !.id = id, !.checks = looks, !.since = since]
  BY <1>0, <1>1
<1>4. /\ apiRun'[r] \in ApiState
      /\ apiRun'[r].stage = "load" /\ apiRun'[r].since = since /\ apiRun'[r].against = apiRun[r].against
      /\ apiRun'[r].file = apiRun[r].file /\ apiRun'[r].current = apiRun[r].current
  <2>1. since \in ApiRun \cup {NoRun} /\ apiRun[r] \in ApiState /\ id \in RunId
    BY <1>0 DEF NoRun
  <2>2. apiRun'[r] \in ApiState
    BY <2>1, <1>3 DEF ApiState, ApiStage
  <2>3. apiRun'[r].stage = "load" /\ apiRun'[r].since = since
    BY <2>1, <1>3 DEF ApiState
  <2>4. apiRun'[r].against = apiRun[r].against /\ apiRun'[r].file = apiRun[r].file
    BY <2>1, <1>3 DEF ApiState
  <2>5. apiRun'[r].current = apiRun[r].current
    BY <2>1, <1>3 DEF ApiState
  <2> QED BY <2>2, <2>3, <2>4, <2>5
<1>5. apiOverlapped \subseteq apiOverlapped' /\ apiOverlapped' \subseteq ApiRun
      /\ \A i \in ApiRun : Under(i) => i \in apiOverlapped' /\ r \in apiOverlapped'
  <2>1. \/ {i \in ApiRun : Under(i)} = {} /\ apiOverlapped' = apiOverlapped
        \/ apiOverlapped' = apiOverlapped \cup {i \in ApiRun : Under(i)} \cup {r}
    BY DEF StartApiRun
  <2> QED BY <1>0, <2>1
<1>6. apiTrouble' \in 0..MaxTrouble
  BY <1>0 DEF StartApiRun, Troubled
<1>7. apiRun'[r].stage = "load" /\ apiRun'[r].since = since /\ apiRun'[r].against = NoRun
      /\ apiRun'[r].file = Missing /\ apiRun'[r].current = apiRun[r].current
  BY <1>2, <1>4
<1>8. MovesOnly(r)
  BY <1>0, <1>1, <1>2, <1>4, <1>5, <1>7 DEF MovesOnly, Readable
<1>9. InTurn'
  BY <1>5, <1>8, TurnStays DEF StartApiRun
<1>10. NoCircle'
  BY <1>2, <1>7, <1>8, CircleStays
<1>11. FileFollows(r)' /\ ReportsTheDifference(r)'
  BY <1>7 DEF FileFollows, ReportsTheDifference, NoRun
<1>12. Found(r)'
  BY <1>7 DEF Found, Compared
<1> QED BY <1>6, <1>8, <1>9, <1>10, <1>11, <1>12, ApJoins

\* A run that is not the first to move: the turn of the others is not touched.
LEMMA GoesOn ==
  ASSUME ApInv, NEW r \in ApiRun, apiRun[r].stage # "idle", MovesOnly(r)
  PROVE  InTurn'
BY TurnStays

LEMMA LoadRunKeeps ==
  ASSUME ApInv, NEW r \in ApiRun, LoadDocuments(r)
  PROVE  ApInv'
<1>0. apiRun \in [ApiRun -> ApiState] /\ apiOverlapped \subseteq ApiRun /\ apiTrouble \in 0..MaxTrouble
  BY DEF ApInv, ApTypeOK
<1>1. PICK current \in Contract \cup {Missing} :
        apiRun' = [apiRun EXCEPT ![r].stage = IF apiRun[r].checks THEN "compare" ELSE "truncate",
                                 ![r].current = current]
  BY DEF LoadDocuments, Promised, Contract
<1>2. apiRun[r].stage = "load" /\ apiRun[r].file = Missing /\ apiRun[r].against = NoRun
      /\ apiRun[r].since # r
  BY DEF LoadDocuments, ApInv, FileFollows
<1>3. apiRun'[r] = [apiRun[r] EXCEPT !.stage = IF apiRun[r].checks THEN "compare" ELSE "truncate",
                                     !.current = current]
  BY <1>0, <1>1
<1>4. apiRun'[r] \in ApiState
  <2>1. \A m \in ApiState, stage \in ApiStage :
          [m EXCEPT !.stage = stage, !.current = current] \in ApiState
    BY <1>1 DEF ApiState
  <2>2. (IF apiRun[r].checks THEN "compare" ELSE "truncate") \in ApiStage
    BY DEF ApiStage
  <2>3. apiRun[r] \in ApiState
    BY <1>0
  <2> QED BY <1>3, <2>1, <2>2, <2>3
<1>5. /\ apiRun'[r].stage = IF apiRun[r].checks THEN "compare" ELSE "truncate"
      /\ apiRun'[r].checks = apiRun[r].checks
      /\ apiRun'[r].since = apiRun[r].since /\ apiRun'[r].against = NoRun
      /\ apiRun'[r].file = Missing
  BY <1>0, <1>2, <1>3 DEF ApiState
<1>6. apiOverlapped' = apiOverlapped /\ apiTrouble' = apiTrouble
  BY DEF LoadDocuments, Untroubled
<1>7. MovesOnly(r)
  BY <1>0, <1>1, <1>2, <1>4, <1>5, <1>6 DEF MovesOnly, Readable
<1>8. InTurn' /\ NoCircle'
  BY <1>2, <1>5, <1>7, GoesOn, CircleStays
<1>9. FileFollows(r)' /\ ReportsTheDifference(r)'
  BY <1>2, <1>5 DEF FileFollows, ReportsTheDifference
<1>10. Found(r)'
  BY <1>5 DEF Found, Compared
<1> QED BY <1>0, <1>6, <1>7, <1>8, <1>9, <1>10, ApJoins

\* A step after the comparison: the stage moves on, the file may be written.
GoesAhead(r) ==
  /\ apiRun' \in [ApiRun -> ApiState]
  /\ \A i \in ApiRun \ {r} : apiRun'[i] = apiRun[i]
  /\ apiRun'[r].id = apiRun[r].id /\ apiRun'[r].checks = apiRun[r].checks
  /\ apiRun'[r].since = apiRun[r].since /\ apiRun'[r].current = apiRun[r].current
  /\ apiRun'[r].against = apiRun[r].against /\ apiRun'[r].issues = apiRun[r].issues

LEMMA WriteRunKeeps ==
  ASSUME ApInv, NEW r \in ApiRun, GoesAhead(r),
         apiOverlapped' = apiOverlapped, apiTrouble' \in 0..MaxTrouble,
         LET old == apiRun[r]
             new == apiRun'[r]
         IN  \/ /\ old.stage = "truncate"
                /\ \/ new.stage = "report" /\ new.file = Missing /\ old.current = Missing
                   \/ new.stage = "fill" /\ new.file = Damaged
             \/ old.stage = "fill" /\ new.stage = "report" /\ new.file = old.current
             \/ old.stage = "report" /\ new.stage = "done" /\ new.file = old.file
             \/ Under(r) /\ new.stage = "dead" /\ new.file = old.file
  PROVE  ApInv'
<1>0. apiRun \in [ApiRun -> ApiState] /\ apiOverlapped \subseteq ApiRun
  BY DEF ApInv, ApTypeOK
<1>1. apiRun[r] \in ApiState /\ FileFollows(r) /\ ReportsTheDifference(r)
  BY <1>0 DEF ApInv
<1>2. apiRun[r].stage \in {"truncate", "fill"} => ~Readable(apiRun[r].file)
  BY <1>1 DEF FileFollows, Readable
<1>3. apiRun[r].stage \notin {"idle", "done", "dead"} /\ apiRun'[r].stage # "idle"
  BY DEF Under
<1>4. MovesOnly(r)
  BY <1>0, <1>2, <1>3 DEF MovesOnly, GoesAhead
<1>5. InTurn' /\ NoCircle'
  BY <1>3, <1>4, GoesOn, CircleStays DEF GoesAhead
<1>6. FileFollows(r)'
  BY <1>1 DEF FileFollows, GoesAhead
<1>7. ReportsTheDifference(r)'
  <2> SUFFICES ASSUME apiRun[r].against # NoRun PROVE ReportsTheDifference(r)'
    BY DEF ReportsTheDifference, GoesAhead
  <2>1. apiRun[r].against \in ApiRun \ {r}
    BY <1>1 DEF ReportsTheDifference, ApiState
  <2>2. apiRun'[apiRun[r].against] = apiRun[apiRun[r].against]
    BY <2>1 DEF GoesAhead
  <2> QED BY <1>1, <2>1, <2>2 DEF ReportsTheDifference, GoesAhead
<1>8. Compared(r)' => Compared(r)
  BY DEF Compared, GoesAhead
<1>9. Found(r)'
  BY <1>4, <1>8, FoundStaysMine DEF GoesAhead
<1> QED BY <1>4, <1>5, <1>6, <1>7, <1>9, ApJoins

\* The last writes of a run, and its end.
LEMMA TruncateRunKeeps ==
  ASSUME ApInv, NEW r \in ApiRun, TruncateSnapshot(r)
  PROVE  ApInv'
<1>1. apiRun \in [ApiRun -> ApiState] /\ apiRun[r].stage = "truncate" /\ apiRun[r].file = Missing
  BY DEF ApInv, ApTypeOK, FileFollows, TruncateSnapshot
<1>2. CASE apiRun[r].current = Missing
  <2>1. apiRun' = [apiRun EXCEPT ![r].stage = "report"]
    BY <1>2 DEF TruncateSnapshot
  <2>2. apiRun'[r].stage = "report" /\ apiRun'[r].file = Missing
    BY <1>1, <2>1 DEF ApiState
  <2>3. GoesAhead(r)
    BY <1>1, <2>1 DEF GoesAhead, ApiState, ApiStage
  <2> QED BY <1>1, <1>2, <2>2, <2>3, WriteRunKeeps DEF TruncateSnapshot, Untroubled, ApInv, ApTypeOK
<1>3. CASE apiRun[r].current # Missing
  <2>1. apiRun' = [apiRun EXCEPT ![r].stage = "fill", ![r].file = Damaged]
    BY <1>3 DEF TruncateSnapshot
  <2>2. apiRun'[r].stage = "fill" /\ apiRun'[r].file = Damaged
    BY <1>1, <2>1 DEF ApiState
  <2>3. apiRun' \in [ApiRun -> ApiState]
    <3>1. apiRun'[r] = [apiRun[r] EXCEPT !.stage = "fill", !.file = Damaged] /\ apiRun[r] \in ApiState
      BY <1>1, <2>1
    <3>2. apiRun'[r] \in ApiState
      BY <3>1 DEF ApiState, ApiStage
    <3> QED BY <1>1, <2>1, <3>2
  <2>4. GoesAhead(r)
    BY <1>1, <2>1, <2>3 DEF GoesAhead, ApiState
  <2> QED BY <1>1, <2>2, <2>4, WriteRunKeeps DEF TruncateSnapshot, Untroubled, ApInv, ApTypeOK
<1> QED BY <1>2, <1>3

LEMMA FillRunKeeps ==
  ASSUME ApInv, NEW r \in ApiRun, FillSnapshot(r)
  PROVE  ApInv'
<1>1. apiRun \in [ApiRun -> ApiState] /\ apiRun[r].stage = "fill"
  BY DEF ApInv, ApTypeOK, FillSnapshot
<1>2. apiRun' = [apiRun EXCEPT ![r].stage = "report", ![r].file = apiRun[r].current]
  BY DEF FillSnapshot
<1>3. apiRun'[r].stage = "report" /\ apiRun'[r].file = apiRun[r].current
  BY <1>1, <1>2 DEF ApiState
<1>4. GoesAhead(r)
  <2>1. apiRun[r] \in ApiState /\ "report" \in ApiStage
    BY <1>1 DEF ApiStage
  <2> DEFINE new == [apiRun[r] EXCEPT !.stage = "report", !.file = apiRun[r].current]
  <2>2. new \in ApiState
    BY <2>1 DEF ApiState
  <2>3. /\ new.id = apiRun[r].id /\ new.checks = apiRun[r].checks
        /\ new.since = apiRun[r].since /\ new.current = apiRun[r].current
        /\ new.against = apiRun[r].against /\ new.issues = apiRun[r].issues
    BY <2>1 DEF ApiState
  <2>4. apiRun' = [apiRun EXCEPT ![r] = new]
    BY <1>2
  <2> HIDE DEF new
  <2> QED BY <1>1, <2>2, <2>3, <2>4 DEF GoesAhead
<1> QED BY <1>1, <1>3, <1>4, WriteRunKeeps DEF FillSnapshot, Untroubled, ApInv, ApTypeOK

LEMMA ReportRunKeeps ==
  ASSUME ApInv, NEW r \in ApiRun, ReportApiRun(r)
  PROVE  ApInv'
<1>1. apiRun \in [ApiRun -> ApiState] /\ apiRun[r].stage = "report"
  BY DEF ApInv, ApTypeOK, ReportApiRun
<1>2. apiRun' = [apiRun EXCEPT ![r].stage = "done"]
  BY DEF ReportApiRun
<1>3. apiRun'[r].stage = "done" /\ apiRun'[r].file = apiRun[r].file
  BY <1>1, <1>2 DEF ApiState
<1>4. GoesAhead(r)
  BY <1>1, <1>2 DEF GoesAhead, ApiState, ApiStage
<1> QED BY <1>1, <1>3, <1>4, WriteRunKeeps DEF ReportApiRun, Untroubled, ApInv, ApTypeOK

LEMMA KillRunKeeps ==
  ASSUME ApInv, NEW r \in ApiRun, KillApiRun(r)
  PROVE  ApInv'
<1>1. apiRun \in [ApiRun -> ApiState] /\ apiTrouble' \in 0..MaxTrouble
  BY ApiRunsIsPositive DEF ApInv, ApTypeOK, KillApiRun, Troubled
<1>2. apiRun' = [apiRun EXCEPT ![r].stage = "dead"]
  BY DEF KillApiRun
<1>3. apiRun'[r].stage = "dead" /\ apiRun'[r].file = apiRun[r].file
  BY <1>1, <1>2 DEF ApiState
<1>4. GoesAhead(r)
  BY <1>1, <1>2 DEF GoesAhead, ApiState, ApiStage
<1> QED BY <1>1, <1>3, <1>4, WriteRunKeeps DEF KillApiRun

LEMMA PreviousIs ==
  ASSUME ApInv, NEW r \in ApiRun, apiRun[r].since = NoRun, Candidates(r) # {}
  PROVE  /\ Previous(r) \in Candidates(r)
         /\ \A k \in Candidates(r) : apiRun[k].id <= apiRun[Previous(r)].id
<1> DEFINE ids == {apiRun[k].id : k \in Candidates(r)}
<1>1. IsFiniteSet(Candidates(r)) /\ Candidates(r) \subseteq ApiRun
  <2>1. IsFiniteSet(ApiRun)
    BY ApiRunsIsPositive, FS_Interval DEF ApiRun
  <2> QED BY <2>1, FS_Subset DEF Candidates
<1>2. IsFiniteSet(ids)
  <2>1. ids \subseteq 0..ApiRuns
    BY <1>1, ApiRunsIsPositive DEF ApInv, ApTypeOK, ApiState, RunId, NoId
  <2>2. IsFiniteSet(0..ApiRuns)
    BY ApiRunsIsPositive, FS_Interval
  <2> HIDE DEF ids
  <2> QED BY <2>1, <2>2, FS_Subset
<1>3. ids \in SUBSET Nat /\ ids # {}
  BY <1>1, ApiRunsIsPositive DEF ApInv, ApTypeOK, ApiState, RunId, NoId
<1>4. PICK greatest \in ids : \A y \in ids : y <= greatest
  BY <1>2, <1>3, OneIsGreatest
<1>5. \E i \in Candidates(r) : \A k \in Candidates(r) : apiRun[k].id <= apiRun[i].id
  BY <1>4
<1> QED BY <1>5 DEF Previous

LEMMA BreaksAreIssues ==
  ASSUME NEW old \in Contract, NEW new \in Contract
  PROVE  Breaks(old, new) \subseteq Issue
<1>1. \A c \in {old, new} :
        DOMAIN c \subseteq STRING
        /\ \A e \in DOMAIN c : c[e].gives \subseteq STRING /\ c[e].asks \subseteq STRING
                                /\ DOMAIN c[e].type \subseteq STRING
  BY PromisesAreNamed DEF Contract
<1> SUFFICES ASSUME NEW issue \in Breaks(old, new) PROVE issue \in Issue
  OBVIOUS
<1> DEFINE Names(rule, f) == \E e \in DOMAIN old : issue = [rule |-> rule, at |-> e, field |-> f]
<1>2. \/ Names("endpoint", "none")
      \/ \E e \in DOMAIN old \cap DOMAIN new :
           \/ \E f \in old[e].gives \ new[e].gives : issue = [rule |-> "gives", at |-> e, field |-> f]
           \/ \E f \in new[e].asks \ old[e].asks : issue = [rule |-> "asks", at |-> e, field |-> f]
           \/ \E f \in DOMAIN old[e].type \cap DOMAIN new[e].type :
                issue = [rule |-> "type", at |-> e, field |-> f]
  BY DEF Breaks
<1>3. ASSUME Names("endpoint", "none") PROVE issue \in Issue
  <2>1. PICK e \in DOMAIN old : issue = [rule |-> "endpoint", at |-> e, field |-> "none"]
    BY <1>3
  <2>2. e \in STRING
    BY <1>1
  <2> QED BY <2>1, <2>2 DEF Issue
<1>4. ASSUME NEW e \in DOMAIN old \cap DOMAIN new
      PROVE  /\ \A f \in old[e].gives \ new[e].gives :
                  issue = [rule |-> "gives", at |-> e, field |-> f] => issue \in Issue
             /\ \A f \in new[e].asks \ old[e].asks :
                  issue = [rule |-> "asks", at |-> e, field |-> f] => issue \in Issue
             /\ \A f \in DOMAIN old[e].type \cap DOMAIN new[e].type :
                  issue = [rule |-> "type", at |-> e, field |-> f] => issue \in Issue
  BY <1>1 DEF Issue
<1> QED BY <1>2, <1>3, <1>4

\* A comparison that takes place: with whom, and what it says.
LEMMA ComparedFacts ==
  ASSUME ApInv, NEW r \in ApiRun, CompareSnapshots(r), apiRun'[r].checks
  PROVE  LET i == Previous(r)
             compares == i # NoRun /\ Readable(apiRun[i].file) /\ apiRun[r].current # Missing
         IN  /\ i \in ApiRun \cup {NoRun} /\ i # r
             /\ apiTrouble' = apiTrouble
             /\ apiRun' \in [ApiRun -> ApiState]
             /\ \A k \in ApiRun \ {r} : apiRun'[k] = apiRun[k]
             /\ apiRun'[r].stage = "truncate" /\ apiRun'[r].file = Missing
             /\ apiRun'[r].since = apiRun[r].since /\ apiRun'[r].id = apiRun[r].id
             /\ apiRun'[r].current = apiRun[r].current
             /\ apiRun'[r].against = (IF compares THEN i ELSE NoRun)
             /\ compares => apiRun'[r].issues = Breaks(apiRun[i].file, apiRun[r].current)
<1> USE ApiRunsIsPositive
<1>0. apiRun \in [ApiRun -> ApiState]
  BY DEF ApInv, ApTypeOK
<1>1. apiRun[r] \in ApiState /\ apiRun[r].since # r /\ apiRun[r].file = Missing
      /\ apiRun[r].stage = "compare"
  BY <1>0 DEF ApInv, FileFollows, CompareSnapshots
<1> DEFINE i == Previous(r)
           compares == i # NoRun /\ Readable(apiRun[i].file) /\ apiRun[r].current # Missing
           against == IF compares THEN i ELSE NoRun
           broken == IF compares THEN Breaks(apiRun[i].file, apiRun[r].current) ELSE {}
<1>2. i \in ApiRun \cup {NoRun} /\ i # r
  <2>1. CASE apiRun[r].since # NoRun
    BY <1>1, <2>1 DEF Previous, ApiState
  <2>2. CASE apiRun[r].since = NoRun /\ Candidates(r) # {}
    BY <2>2, PreviousIs DEF Candidates
  <2>3. CASE apiRun[r].since = NoRun /\ Candidates(r) = {}
    BY <2>3 DEF Previous, NoRun, ApiRun
  <2> QED BY <2>1, <2>2, <2>3
<1>3. /\ apiRun' = [apiRun EXCEPT ![r].stage = "truncate", ![r].against = against,
                                  ![r].issues = broken]
      /\ apiTrouble' = apiTrouble
  <2>1. ASSUME apiRun' = [apiRun EXCEPT ![r].stage = "truncate", ![r].checks = FALSE]
        PROVE  FALSE
    BY <1>0, <2>1 DEF ApiState
  <2> QED BY <2>1 DEF CompareSnapshots
<1>4. against \in ApiRun \cup {NoRun} /\ broken \in SUBSET Issue
  <2>1. ASSUME compares PROVE Breaks(apiRun[i].file, apiRun[r].current) \subseteq Issue
    <3>1. apiRun[i].file \in Contract /\ apiRun[r].current \in Contract
      BY <1>0, <1>2, <2>1 DEF ApiState, Readable
    <3> QED BY <3>1, BreaksAreIssues
  <2> QED BY <1>2, <2>1
<1> HIDE DEF against, broken
<1>5. apiRun' \in [ApiRun -> ApiState] /\ \A k \in ApiRun \ {r} : apiRun'[k] = apiRun[k]
  <2>1. apiRun'[r] = [apiRun[r] EXCEPT !.stage = "truncate", !.against = against, !.issues = broken]
    BY <1>0, <1>3
  <2>2. apiRun'[r] \in ApiState
    BY <1>1, <1>4, <2>1 DEF ApiState, ApiStage
  <2> QED BY <1>0, <1>3, <2>2
<1>6. /\ apiRun'[r].stage = "truncate" /\ apiRun'[r].file = Missing
      /\ apiRun'[r].since = apiRun[r].since /\ apiRun'[r].id = apiRun[r].id
      /\ apiRun'[r].current = apiRun[r].current
  BY <1>0, <1>1, <1>3 DEF ApiState
<1>7. apiRun'[r].against = against /\ apiRun'[r].issues = broken
  BY <1>0, <1>3 DEF ApiState
<1> QED BY <1>2, <1>3, <1>5, <1>6, <1>7 DEF against, broken

\* Nobody is beside a run that nobody overlaps: the snapshots it may choose
\* from are those of the runs before it.
LEMMA AloneAtCompare ==
  ASSUME ApInv, NEW r \in ApiRun, apiRun[r].stage = "compare", Undisturbed(r)
  PROVE  Candidates(r) = {i \in 1..(r - 1) : Readable(apiRun[i].file)}
<1> USE ApiRunsIsPositive DEF ApiRun
<1>1. \A k \in ApiRun : r < k => apiRun[k].file = Missing
  <2> SUFFICES ASSUME NEW k \in ApiRun, r < k PROVE apiRun[k].file = Missing
    OBVIOUS
  <2>1. ~Started(k)
    BY DEF ApInv, InTurn, Under, Undisturbed
  <2> QED BY <2>1 DEF Started, ApInv, FileFollows
<1>2. \A i \in 1..(r - 1) : i \in ApiRun /\ apiRun[i].stage = "done"
  BY DEF Undisturbed, ApiReported
<1>3. \A i \in 1..(r - 1) : apiRun[i].file # Damaged
  <2> SUFFICES ASSUME NEW i \in 1..(r - 1) PROVE apiRun[i].file # Damaged
    OBVIOUS
  <2>1. apiRun[i].file = apiRun[i].current /\ apiRun[i] \in ApiState
    BY <1>2 DEF ApInv, ApTypeOK, FileFollows
  <2> QED BY <2>1, MissingIsNone DEF ApiState, Contract
<1>4. \A i \in ApiRun \ {r} : apiRun[i].file # Missing => i \in 1..(r - 1)
  BY <1>1
<1> QED BY <1>2, <1>3, <1>4 DEF Candidates, Readable

LEMMA CompareRunKeeps ==
  ASSUME ApInv, NEW r \in ApiRun, CompareSnapshots(r)
  PROVE  ApInv'
<1> USE ApiRunsIsPositive
<1>0. apiRun \in [ApiRun -> ApiState] /\ apiOverlapped \subseteq ApiRun /\ apiTrouble \in 0..MaxTrouble
  BY DEF ApInv, ApTypeOK
<1>1. apiRun[r] \in ApiState /\ FileFollows(r) /\ apiRun[r].stage = "compare"
      /\ apiRun[r].file = Missing /\ apiRun[r].against = NoRun
  BY <1>0 DEF ApInv, FileFollows, CompareSnapshots
<1>2. apiOverlapped' = apiOverlapped /\ apiTrouble' \in 0..MaxTrouble
  BY <1>0 DEF CompareSnapshots, Troubled
<1>3. CASE ~apiRun'[r].checks
  <2>1. apiRun' = [apiRun EXCEPT ![r].stage = "truncate", ![r].checks = FALSE]
    <3>1. apiRun[r].checks
      BY <1>1 DEF FileFollows
    <3> DEFINE i == Previous(r)
               compares == i # NoRun /\ Readable(apiRun[i].file) /\ apiRun[r].current # Missing
               against == IF compares THEN i ELSE NoRun
               broken == IF compares THEN Breaks(apiRun[i].file, apiRun[r].current) ELSE {}
    <3>2. \/ apiRun' = [apiRun EXCEPT ![r].stage = "truncate", ![r].against = against,
                                      ![r].issues = broken]
          \/ apiRun' = [apiRun EXCEPT ![r].stage = "truncate", ![r].checks = FALSE]
      BY DEF CompareSnapshots
    <3> HIDE DEF against, broken
    <3>3. ASSUME apiRun' = [apiRun EXCEPT ![r].stage = "truncate", ![r].against = against,
                                          ![r].issues = broken]
          PROVE  apiRun'[r].checks = apiRun[r].checks
      BY <1>0, <3>3 DEF ApiState
    <3> QED BY <1>3, <3>1, <3>2, <3>3
  <2>2. apiRun' \in [ApiRun -> ApiState] /\ \A i \in ApiRun \ {r} : apiRun'[i] = apiRun[i]
    <3>1. apiRun'[r] = [apiRun[r] EXCEPT !.stage = "truncate", !.checks = FALSE]
      BY <1>0, <2>1
    <3>2. apiRun'[r] \in ApiState
      BY <1>1, <3>1 DEF ApiState, ApiStage
    <3> QED BY <1>0, <2>1, <3>2
  <2>3. /\ apiRun'[r].stage = "truncate" /\ apiRun'[r].since = apiRun[r].since
        /\ apiRun'[r].file = Missing /\ apiRun'[r].against = NoRun
    BY <1>0, <1>1, <2>1 DEF ApiState
  <2>4. MovesOnly(r)
    BY <1>0, <1>1, <1>2, <2>2, <2>3 DEF MovesOnly, Readable
  <2>5. InTurn' /\ NoCircle'
    BY <1>1, <2>3, <2>4, GoesOn, CircleStays
  <2>6. FileFollows(r)' /\ ReportsTheDifference(r)'
    BY <1>1, <2>3 DEF FileFollows, ReportsTheDifference
  <2>7. Found(r)'
    BY <1>3 DEF Found, Compared
  <2> QED BY <1>2, <2>4, <2>5, <2>6, <2>7, ApJoins
<1>4. CASE apiRun'[r].checks
  <2> DEFINE i == Previous(r)
             compares == i # NoRun /\ Readable(apiRun[i].file) /\ apiRun[r].current # Missing
  <2>1. MovesOnly(r)
    BY <1>0, <1>1, <1>2, <1>4, ComparedFacts DEF MovesOnly, Readable
  <2>2. InTurn'
    BY <1>1, <2>1, GoesOn
  <2>3. NoCircle'
    <3>1. apiRun'[r].against # r
      BY <1>4, ComparedFacts DEF NoRun, ApiRun
    <3> QED BY <1>1, <2>1, <3>1, CircleStays
  <2>4. FileFollows(r)'
    BY <1>1, <1>4, ComparedFacts DEF FileFollows
  <2>5. ReportsTheDifference(r)'
    <3> SUFFICES ASSUME apiRun'[r].against # NoRun PROVE ReportsTheDifference(r)'
      BY DEF ReportsTheDifference
    <3>1. compares /\ apiRun'[r].against = i /\ i \in ApiRun \ {r}
          /\ apiRun'[r].current = apiRun[r].current
          /\ apiRun'[r].issues = Breaks(apiRun[i].file, apiRun[r].current)
      BY <1>4, ComparedFacts
    <3>2. apiRun'[i] = apiRun[i]
      BY <3>1, <2>1 DEF MovesOnly
    <3> QED BY <3>1, <3>2 DEF ReportsTheDifference
  <2>6. Found(r)'
    <3> SUFFICES ASSUME Undisturbed(r)', apiRun'[r].since = NoRun, apiRun'[r].current # Missing
                 PROVE  /\ LatestBefore(r)' # NoRun => apiRun'[r].against # NoRun
                        /\ (\A a, b \in 1..r : a < b => apiRun'[a].id < apiRun'[b].id)
                             => apiRun'[r].against = LatestBefore(r)'
      BY DEF Found
    <3> DEFINE left == {a \in 1..(r - 1) : Readable(apiRun[a].file)}
    <3>1. \A a \in 1..(r - 1) : a \in ApiRun /\ a # r /\ apiRun'[a] = apiRun[a]
      BY <2>1 DEF MovesOnly, ApiRun
    <3>2. Undisturbed(r)
      BY <1>2, <3>1 DEF Undisturbed, ApiReported
    <3>3. LatestBefore(r)' = LatestBefore(r)
      BY <3>1, SameLatest
    <3>4. Candidates(r) = left
      BY <1>1, <3>2, AloneAtCompare
    <3>5. apiRun[r].since = NoRun /\ apiRun[r].current # Missing
          /\ apiRun'[r].against = (IF compares THEN i ELSE NoRun) /\ apiRun'[r].id = apiRun[r].id
      BY <1>4, ComparedFacts
    <3>6. LatestBefore(r) = IF left = {} THEN NoRun ELSE CHOOSE a \in left : \A b \in left : b <= a
      BY DEF LatestBefore
    <3> HIDE DEF left
    <3>7. CASE left = {}
      <4>1. i = NoRun
        BY <3>4, <3>5, <3>7 DEF Previous
      <4> QED BY <3>3, <3>5, <3>6, <3>7, <4>1
    <3>8. CASE left # {}
      <4>1. i \in left /\ \A b \in left : apiRun[b].id <= apiRun[i].id
        BY <3>4, <3>5, <3>8, PreviousIs
      <4>2. i \in 1..(r - 1) /\ Readable(apiRun[i].file) /\ left \subseteq 1..(r - 1)
        BY <4>1 DEF left
      <4>3. apiRun'[r].against = i /\ i # NoRun
        BY <3>5, <4>2 DEF NoRun, ApiRun
      <4>4. ASSUME \A a, b \in 1..r : a < b => apiRun'[a].id < apiRun'[b].id
            PROVE  i = LatestBefore(r)
        <5>1. \A b \in left : b <= i
          <6> SUFFICES ASSUME NEW b \in left, i < b PROVE FALSE
            BY <4>2 DEF ApiRun
          <6>1. apiRun'[i].id < apiRun'[b].id
            BY <4>2, <4>4 DEF ApiRun
          <6>2. apiRun[i].id < apiRun[b].id /\ apiRun[b].id <= apiRun[i].id
            BY <3>1, <4>1, <4>2, <6>1
          <6>3. apiRun[i].id \in Nat /\ apiRun[b].id \in Nat
            BY <1>0, <3>1, <4>2 DEF ApiState, RunId, NoId
          <6> QED BY <6>2, <6>3
        <5>2. \A a \in left : (\A b \in left : b <= a) => a = i
          BY <4>1, <4>2, <5>1 DEF ApiRun
        <5> QED BY <3>6, <3>8, <4>1, <5>1, <5>2
      <4> QED BY <3>3, <4>3, <4>4
    <3> QED BY <3>7, <3>8
  <2>7. apiTrouble' \in 0..MaxTrouble
    BY <1>2
  <2> QED BY <2>1, <2>2, <2>3, <2>4, <2>5, <2>6, <2>7, ApJoins
<1> QED BY <1>3, <1>4

LEMMA ApSteps == ApInv /\ [ApNext]_apVars => ApInv'
<1> SUFFICES ASSUME ApInv, [ApNext]_apVars PROVE ApInv'
  OBVIOUS
<1>1. CASE UNCHANGED apVars
  <2>1. ApTypeOK' /\ InTurn'
    BY <1>1 DEF apVars, ApInv, ApTypeOK, InTurn, Started, Under
  <2>2. \A r \in ApiRun : FileFollows(r)' /\ ReportsTheDifference(r)'
    BY <1>1 DEF apVars, ApInv, FileFollows, ReportsTheDifference, Readable
  <2>3. NoCircle'
    BY <1>1 DEF apVars, ApInv, NoCircle, Lineage, GoesBack
  <2>4. BaselineIsFound'
    BY <1>1 DEF apVars, ApInv, BaselineIsFound, Undisturbed, ApiReported, Compared, LatestBefore, Readable
  <2> QED BY <2>1, <2>2, <2>3, <2>4 DEF ApInv
<1>2. ASSUME NEW r \in ApiRun, StartApiRun(r) PROVE ApInv'
  BY <1>2, StartRunKeeps
<1>3. ASSUME NEW r \in ApiRun, LoadDocuments(r) PROVE ApInv'
  BY <1>3, LoadRunKeeps
<1>4. ASSUME NEW r \in ApiRun, CompareSnapshots(r) PROVE ApInv'
  BY <1>4, CompareRunKeeps
<1>5. ASSUME NEW r \in ApiRun, TruncateSnapshot(r) PROVE ApInv'
  BY <1>5, TruncateRunKeeps
<1>6. ASSUME NEW r \in ApiRun, FillSnapshot(r) PROVE ApInv'
  BY <1>6, FillRunKeeps
<1>7. ASSUME NEW r \in ApiRun, ReportApiRun(r) PROVE ApInv'
  BY <1>7, ReportRunKeeps
<1>8. ASSUME NEW r \in ApiRun, KillApiRun(r) PROVE ApInv'
  BY <1>8, KillRunKeeps
<1> QED BY <1>1, <1>2, <1>3, <1>4, <1>5, <1>6, <1>7, <1>8 DEF ApNext

\* What was compared is behind, with all that is behind it.
LEMMA Behind ==
  ASSUME ApTypeOK, NEW r \in ApiRun, NEW i \in ApiRun, apiRun[i].against = r \/ r \in Lineage(i)
  PROVE  /\ r \in Lineage(i) /\ Lineage(r) \subseteq Lineage(i)
<1>1. \A k \in ApiRun : apiRun[k].against \in ApiRun \cup {NoRun}
  BY DEF ApTypeOK, ApiState
<1>2. r # NoRun
  BY ApiRunsIsPositive DEF ApiRun, NoRun
<1>3. ASSUME NEW runs \in SUBSET ApiRun, GoesBack(i, runs) PROVE r \in runs /\ GoesBack(r, runs)
  <2>1. r \in runs
    BY <1>2, <1>3 DEF GoesBack, Lineage
  <2> QED BY <1>3, <2>1 DEF GoesBack
<1> QED BY <1>3 DEF Lineage

\* What is told of an endpoint that both documents have.
BrokenAt(old, new, e) ==
  {[rule |-> "gives", at |-> e, field |-> f] : f \in old[e].gives \ new[e].gives}
  \cup {[rule |-> "asks", at |-> e, field |-> f] : f \in new[e].asks \ old[e].asks}

LEMMA BrokenIsTold ==
  ASSUME NEW old, NEW new, NEW e \in DOMAIN old \cap DOMAIN new
  PROVE  BrokenAt(old, new, e) \subseteq Breaks(old, new)
<1> DEFINE all(x) ==
      {[rule |-> "gives", at |-> x, field |-> f] : f \in old[x].gives \ new[x].gives}
      \cup {[rule |-> "asks", at |-> x, field |-> f] : f \in new[x].asks \ old[x].asks}
      \cup {[rule |-> "type", at |-> x, field |-> f] :
              f \in {g \in DOMAIN old[x].type \cap DOMAIN new[x].type :
                       old[x].type[g] # new[x].type[g]}}
<1>1. UNION {all(x) : x \in DOMAIN old \cap DOMAIN new} \subseteq Breaks(old, new)
  BY DEF Breaks
<1>2. BrokenAt(old, new, e) \subseteq all(e)
  BY DEF BrokenAt
<1> HIDE DEF all
<1>3. all(e) \subseteq UNION {all(x) : x \in DOMAIN old \cap DOMAIN new}
  OBVIOUS
<1> QED BY <1>1, <1>2, <1>3

LEMMA BreakIsTold ==
  ASSUME NEW old, NEW new, NEW e \in DOMAIN old, \A issue \in Breaks(old, new) : issue.at # e
  PROVE  KeepsServing(e, old, new)
<1>1. e \in DOMAIN new
  <2> SUFFICES ASSUME e \notin DOMAIN new PROVE FALSE
    OBVIOUS
  <2>1. [rule |-> "endpoint", at |-> e, field |-> "none"] \in Breaks(old, new)
    BY DEF Breaks
  <2> QED BY <2>1
<1>2. ASSUME NEW f \in old[e].gives, f \notin new[e].gives PROVE FALSE
  <2> DEFINE issue == [rule |-> "gives", at |-> e, field |-> f]
  <2>1. issue \in BrokenAt(old, new, e) /\ issue.at = e
    BY <1>2 DEF BrokenAt
  <2>2. issue \in Breaks(old, new)
    BY <1>1, <2>1, BrokenIsTold
  <2> QED BY <2>1, <2>2
<1>3. ASSUME NEW f \in new[e].asks, f \notin old[e].asks PROVE FALSE
  <2> DEFINE issue == [rule |-> "asks", at |-> e, field |-> f]
  <2>1. issue \in BrokenAt(old, new, e) /\ issue.at = e
    BY <1>3 DEF BrokenAt
  <2>2. issue \in Breaks(old, new)
    BY <1>1, <2>1, BrokenIsTold
  <2> QED BY <2>1, <2>2
<1> QED BY <1>1, <1>2, <1>3 DEF KeepsServing

\* The runs of which the property holds are all that lie behind r.
LEMMA BreaksAreTold == ApInv => NoBreakIsSwallowed
<1> SUFFICES ASSUME ApInv, NEW r \in ApiRun, ApiReported(r)
             PROVE  \A i \in Lineage(r) : \A e \in DOMAIN apiRun[i].file :
                      KeepsServing(e, apiRun[i].file, apiRun[r].current)
                      \/ \E k \in (Lineage(r) \ ({i} \cup Lineage(i))) \cup {r} :
                           apiRun[k].stage = "dead" \/ \E issue \in apiRun[k].issues : issue.at = e
  BY DEF NoBreakIsSwallowed
<1>0. ApTypeOK /\ \A i \in ApiRun : FileFollows(i) /\ ReportsTheDifference(i) /\ i \notin Lineage(i)
  BY DEF ApInv, NoCircle
<1> DEFINE Tells(i, e) == \E k \in (Lineage(r) \ ({i} \cup Lineage(i))) \cup {r} :
                            \E issue \in apiRun[k].issues : issue.at = e
           Told(i) == \A e \in DOMAIN apiRun[i].file :
                        KeepsServing(e, apiRun[i].file, apiRun[r].current) \/ Tells(i, e)
           runs == {i \in Lineage(r) : Told(i)}
<1>1. \A i \in ApiRun : apiRun[i].against \in ApiRun \cup {NoRun}
  BY <1>0 DEF ApTypeOK, ApiState
<1>5. \A i \in Lineage(r) : Readable(apiRun[i].file)
  <2> DEFINE readable == {i \in ApiRun : Readable(apiRun[i].file)}
  <2>1. \A i \in ApiRun : apiRun[i].against # NoRun => Readable(apiRun[apiRun[i].against].file)
    BY <1>0 DEF ReportsTheDifference
  <2>2. GoesBack(r, readable)
    BY <1>1, <2>1 DEF GoesBack
  <2> QED BY <2>2 DEF Lineage
<1>2. ASSUME apiRun[r].against # NoRun PROVE apiRun[r].against \in runs
  <2> DEFINE i == apiRun[r].against
  <2>1. i \in ApiRun /\ i \in Lineage(r)
    BY <1>0, <1>1, <1>2, Behind
  <2>2. apiRun[r].issues = Breaks(apiRun[i].file, apiRun[r].current)
    BY <1>0, <1>2 DEF ReportsTheDifference
  <2>3. ASSUME NEW e \in DOMAIN apiRun[i].file
        PROVE  KeepsServing(e, apiRun[i].file, apiRun[r].current) \/ Tells(i, e)
    BY <2>2, BreakIsTold
  <2> QED BY <2>1, <2>3
<1>3. ASSUME NEW i \in runs, apiRun[i].against # NoRun PROVE apiRun[i].against \in runs
  <2> DEFINE j == apiRun[i].against
  <2>1. i \in ApiRun /\ i \in Lineage(r) /\ j \in ApiRun
    BY <1>1, <1>3 DEF Lineage
  <2>2. j \in Lineage(i) /\ Lineage(j) \subseteq Lineage(i) /\ Lineage(i) \subseteq Lineage(r)
    BY <1>0, <2>1, Behind
  <2>3. i \notin {j} \cup Lineage(j) /\ j \in Lineage(r)
    BY <1>0, <2>1, <2>2
  <2>4. apiRun[i].issues = Breaks(apiRun[j].file, apiRun[i].current)
    BY <1>0, <1>3, <2>1 DEF ReportsTheDifference
  <2>5. apiRun[i].file = apiRun[i].current
    BY <1>0, <1>5, <2>1, MissingIsNone DEF FileFollows, Readable
  <2>6. ASSUME NEW e \in DOMAIN apiRun[j].file, ~Tells(j, e)
        PROVE  KeepsServing(e, apiRun[j].file, apiRun[r].current)
    <3>1. KeepsServing(e, apiRun[j].file, apiRun[i].file)
      <4>1. \A issue \in apiRun[i].issues : issue.at # e
        BY <2>1, <2>3, <2>6
      <4> QED BY <2>4, <2>5, <4>1, BreakIsTold
    <3>2. ~Tells(i, e)
      BY <2>2, <2>6
    <3>3. e \in DOMAIN apiRun[i].file /\ KeepsServing(e, apiRun[i].file, apiRun[r].current)
      BY <1>3, <3>1, <3>2 DEF KeepsServing
    <3> QED BY <3>1, <3>3 DEF KeepsServing
  <2> QED BY <2>3, <2>6
<1>4. Lineage(r) \subseteq runs
  <2>1. runs \in SUBSET ApiRun
    BY DEF Lineage
  <2> HIDE DEF runs
  <2>2. GoesBack(r, runs)
    BY <1>1, <1>2, <1>3, <2>1 DEF GoesBack
  <2> QED BY <2>1, <2>2 DEF Lineage
<1> QED BY <1>4

LEMMA ApServes == ApInv => ApTypeOK /\ BreaksReachAReport
BY BreaksAreTold DEF ApInv, BreaksReachAReport

(***************************************************************************)
(* AgentServer.  While the tree is left alone, what a run has seen of the  *)
(* modules that could look is what is wrong with them (Agrees).  A run     *)
(* that is over stays as it is, and the pointer names such a run; so an    *)
(* answer that was right when it was given is right until it is taken.     *)
(***************************************************************************)
Agrees(run, tree) ==
  \A f \in Fault : ModuleOf[f] \in run.done => (f \in DOMAIN run.seen <=> f \in DOMAIN tree)

SeesItsPart(run) == \A f \in DOMAIN run.seen : f \in Fault /\ ModuleOf[f] \in run.done

Decision == {"none", "failure", "still_failing", "regressed", "fix_verified", "partial"}

VerifyCall ==
  [kind : {"verify"}, stage : {"audit", "answered"}, target : Fault \cup {None}, old : FindingSets,
   run : Nat, moved : BOOLEAN, decision : Decision]

CompareCall ==
  [kind : {"compare"}, stage : {"after", "load_before", "load_after", "answered"}, before : Nat,
   after : Nat, latest : BOOLEAN, old : FindingSets, new : FindingSets]

Verified(call) ==
  /\ call.run \in DOMAIN asRuns
  /\ call.target # None => call.target \in DOMAIN call.old
  /\ ~call.moved => Agrees(asRuns[call.run], asTree)
  /\ call.stage = "answered" =>
       \/ call.decision = "failure"
       \/ /\ asRuns[call.run].stage = "over"
          /\ call.decision =
               Decide(call.target, DOMAIN call.old, DOMAIN asRuns[call.run].seen)

ComparedWith(call) ==
  /\ call.stage \in {"after", "load_before"} => call.before \in DOMAIN asRuns
  /\ IF call.stage = "after" THEN ~call.latest ELSE call.after \in DOMAIN asRuns
  /\ call.latest => asRuns[call.after].stage = "over"
  /\ call.latest /\ call.stage = "answered" => call.new = asRuns[call.after].seen

CallHolds(call) ==
  \/ call = Nobody
  \/ call \in VerifyCall /\ Verified(call)
  \/ call \in CompareCall /\ ComparedWith(call)

AsInv ==
  /\ AsTypeOK
  /\ \A i \in DOMAIN asRuns : SeesItsPart(asRuns[i])
  /\ asLatest \in DOMAIN asRuns /\ asRuns[asLatest].stage = "over"
  /\ \A c \in Connection : CallHolds(asCall[c])

\* How the runs go on: none is forgotten, those that have ended stay, the others
\* go on seeing the tree as it is.
RunsGoOn ==
  /\ asRuns' \in Seq(RunRecord) /\ Len(asRuns') <= MaxRuns
  /\ \A i \in DOMAIN asRuns :
       /\ i \in DOMAIN asRuns'
       /\ asRuns[i].stage \in {"over", "failed"} => asRuns'[i] = asRuns[i]
       /\ Agrees(asRuns[i], asTree) => Agrees(asRuns'[i], asTree)
  /\ \A i \in DOMAIN asRuns' : SeesItsPart(asRuns'[i])

LEMMA CallStays ==
  ASSUME AsInv, RunsGoOn, UNCHANGED asTree, NEW c \in Connection
  PROVE  CallHolds(asCall[c])' \/ asCall'[c] # asCall[c]
<1> SUFFICES ASSUME asCall'[c] = asCall[c] PROVE CallHolds(asCall[c])'
  OBVIOUS
<1> DEFINE call == asCall[c]
<1>1. CallHolds(call)
  BY DEF AsInv
<1>2. CASE call = Nobody
  BY <1>2 DEF CallHolds
<1>3. CASE call \in VerifyCall /\ Verified(call)
  <2>1. Verified(call)'
    BY <1>3 DEF Verified, RunsGoOn
  <2> QED BY <1>3, <2>1 DEF CallHolds
<1>4. CASE call \in CompareCall /\ ComparedWith(call)
  <2>1. ComparedWith(call)'
    BY <1>4 DEF ComparedWith, RunsGoOn
  <2> QED BY <1>4, <2>1 DEF CallHolds
<1> QED BY <1>1, <1>2, <1>3, <1>4 DEF CallHolds

\* The step of one run.
LEMMA RunGoesOn ==
  ASSUME AsInv, NEW i \in DOMAIN asRuns, NEW run \in RunRecord, asRuns' = [asRuns EXCEPT ![i] = run],
         asRuns[i].stage \notin {"over", "failed"}, SeesItsPart(run),
         Agrees(asRuns[i], asTree) => Agrees(run, asTree)
  PROVE  RunsGoOn /\ DOMAIN asRuns' = DOMAIN asRuns /\ asRuns'[i] = run
         /\ \A j \in DOMAIN asRuns : asRuns[j].stage = "over" => asRuns'[j] = asRuns[j]
<1>1. asRuns \in Seq(RunRecord) /\ Len(asRuns) <= MaxRuns /\ i \in 1..Len(asRuns)
  BY DEF AsInv, AsTypeOK
<1>2. asRuns' \in Seq(RunRecord) /\ Len(asRuns') = Len(asRuns)
      /\ \A j \in 1..Len(asRuns) : asRuns'[j] = IF j = i THEN run ELSE asRuns[j]
  BY <1>1, ExceptSeq
<1>3. DOMAIN asRuns' = DOMAIN asRuns /\ DOMAIN asRuns = 1..Len(asRuns)
  BY <1>1, <1>2
<1>4. \A j \in DOMAIN asRuns : SeesItsPart(asRuns[j])
  BY DEF AsInv
<1> QED BY <1>1, <1>2, <1>3, <1>4 DEF RunsGoOn

\* A step of the runs that leaves the calls, the tree and the pointer alone.
LEMMA RunsKeep ==
  ASSUME AsInv, RunsGoOn, UNCHANGED <<asTree, asCall, asEdits>>,
         asLatest' \in DOMAIN asRuns' /\ asRuns'[asLatest'].stage = "over"
  PROVE  AsInv'
<1>1. \A c \in Connection : CallHolds(asCall[c])'
  BY CallStays
<1>2. asRuns' \in Seq(RunRecord) /\ asLatest' \in 0..Len(asRuns')
  BY DEF RunsGoOn
<1>3. AsTypeOK'
  BY <1>2 DEF AsInv, AsTypeOK, RunsGoOn
<1> QED BY <1>1, <1>3 DEF AsInv, RunsGoOn

LEMMA FindingsAre ==
  ASSUME NEW findings \in FindingSets, NEW modules
  PROVE  /\ Restricted(findings, modules) \in FindingSets
         /\ DOMAIN Restricted(findings, modules) = {f \in DOMAIN findings : ModuleOf[f] \in modules}
         /\ DOMAIN findings \subseteq Fault
         /\ \A other \in FindingSets :
              /\ Union(findings, other) \in FindingSets
              /\ DOMAIN Union(findings, other) = DOMAIN findings \cup DOMAIN other
<1>1. PICK s \in SUBSET Fault : findings \in [s -> Grade]
  BY DEF FindingSets
<1>2. DOMAIN findings \subseteq Fault
  BY <1>1
<1>3. Restricted(findings, modules) \in [{f \in DOMAIN findings : ModuleOf[f] \in modules} -> Grade]
  BY <1>1 DEF Restricted
<1>4. Restricted(findings, modules) \in FindingSets
  <2>1. {f \in DOMAIN findings : ModuleOf[f] \in modules} \in SUBSET Fault
    BY <1>2
  <2> QED BY <1>3, <2>1 DEF FindingSets
<1>5. ASSUME NEW other \in FindingSets
      PROVE  /\ Union(findings, other) \in FindingSets
             /\ DOMAIN Union(findings, other) = DOMAIN findings \cup DOMAIN other
  <2>1. PICK t \in SUBSET Fault : other \in [t -> Grade]
    BY DEF FindingSets
  <2>2. Union(findings, other) \in [s \cup t -> Grade]
    BY <1>1, <2>1 DEF Union
  <2>3. s \cup t \in SUBSET Fault
    OBVIOUS
  <2> QED BY <1>1, <2>1, <2>2, <2>3 DEF FindingSets
<1> QED BY <1>2, <1>3, <1>4, <1>5

LEMMA AsStarts == AsInit => AsInv
<1> SUFFICES ASSUME AsInit PROVE AsInv
  OBVIOUS
<1> USE DEF AsInit
<1> DEFINE first == [todo |-> {}, done |-> AuditModule, seen |-> asTree, stage |-> "over"]
<1>1. first \in RunRecord
  BY DEF RunRecord
<1>2. asRuns \in Seq(RunRecord) /\ Len(asRuns) = 1 /\ DOMAIN asRuns = {1} /\ asRuns[1] = first
  BY <1>1
<1>3. AsTypeOK
  BY <1>2, OneRunAtLeast DEF AsTypeOK
<1>4. SeesItsPart(first)
  <2>1. DOMAIN asTree \subseteq Fault
    BY FindingsAre
  <2> QED BY <2>1 DEF SeesItsPart, AuditModule
<1> QED BY <1>2, <1>3, <1>4 DEF AsInv, CallHolds

LEMMA ModuleRunsKeeps ==
  ASSUME AsInv, NEW i \in DOMAIN asRuns, NEW errs \in BOOLEAN, ModuleRuns(i, errs)
  PROVE  AsInv'
<1>1. PICK m \in asRuns[i].todo :
        asRuns' = [asRuns EXCEPT ![i].todo = @ \ {m},
                                 ![i].done = IF errs THEN @ ELSE @ \cup {m},
                                 ![i].seen = IF errs THEN @ ELSE Union(@, Restricted(asTree, {m}))]
  BY DEF ModuleRuns
<1> DEFINE old == asRuns[i]
           done == IF errs THEN old.done ELSE old.done \cup {m}
           seen == IF errs THEN old.seen ELSE Union(old.seen, Restricted(asTree, {m}))
           run == [old EXCEPT !.todo = @ \ {m}, !.done = done, !.seen = seen]
<1>2. asRuns \in Seq(RunRecord) /\ old \in RunRecord /\ asTree \in FindingSets /\ SeesItsPart(old)
  BY DEF AsInv, AsTypeOK
<1>3. m \in AuditModule /\ old.seen \in FindingSets /\ old.done \in SUBSET AuditModule
      /\ old.stage = "running"
  BY <1>2 DEF RunRecord, ModuleRuns
<1>4. seen \in FindingSets
      /\ DOMAIN seen = DOMAIN old.seen
                         \cup (IF errs THEN {} ELSE {f \in DOMAIN asTree : ModuleOf[f] = m})
  <2>1. Restricted(asTree, {m}) \in FindingSets
        /\ DOMAIN Restricted(asTree, {m}) = {f \in DOMAIN asTree : ModuleOf[f] \in {m}}
    BY <1>2, FindingsAre
  <2>2. Union(old.seen, Restricted(asTree, {m})) \in FindingSets
        /\ DOMAIN Union(old.seen, Restricted(asTree, {m}))
             = DOMAIN old.seen \cup DOMAIN Restricted(asTree, {m})
    BY <1>3, <2>1, FindingsAre
  <2> QED BY <1>3, <2>1, <2>2
<1>5. DOMAIN asTree \subseteq Fault
  BY <1>2, FindingsAre
<1> HIDE DEF done, seen
<1>6. run \in RunRecord /\ run.done = done /\ run.seen = seen
  <2>1. old.todo \ {m} \in SUBSET AuditModule /\ done \in SUBSET AuditModule
    BY <1>2, <1>3 DEF RunRecord, done
  <2>2. run \in RunRecord
    BY <1>2, <1>4, <2>1 DEF RunRecord
  <2> QED BY <1>2, <2>2 DEF RunRecord
<1>7. asRuns' = [asRuns EXCEPT ![i] = run]
  BY <1>1 DEF done, seen
<1> HIDE DEF run
<1>8. SeesItsPart(run)
  BY <1>2, <1>4, <1>5, <1>6 DEF SeesItsPart, done
<1>9. Agrees(old, asTree) => Agrees(run, asTree)
  BY <1>2, <1>4, <1>5, <1>6 DEF Agrees, SeesItsPart, done
<1>10. RunsGoOn /\ DOMAIN asRuns' = DOMAIN asRuns
       /\ \A j \in DOMAIN asRuns : asRuns[j].stage = "over" => asRuns'[j] = asRuns[j]
  BY <1>3, <1>6, <1>7, <1>8, <1>9, RunGoesOn
<1> QED BY <1>10, RunsKeep DEF ModuleRuns, AsInv

\* A run that only changes its stage.
LEMMA StageKeeps ==
  ASSUME AsInv, NEW i \in DOMAIN asRuns, NEW run \in RunRecord, asRuns' = [asRuns EXCEPT ![i] = run],
         asRuns[i].stage \in {"running", "written"},
         run.seen = asRuns[i].seen, run.done = asRuns[i].done,
         UNCHANGED <<asTree, asCall, asEdits>>,
         asLatest' = asLatest \/ (asLatest' = i /\ run.stage = "over")
  PROVE  AsInv'
<1>1. SeesItsPart(run) /\ (Agrees(asRuns[i], asTree) => Agrees(run, asTree))
  BY DEF AsInv, SeesItsPart, Agrees
<1>2. RunsGoOn /\ DOMAIN asRuns' = DOMAIN asRuns /\ asRuns'[i] = run
      /\ \A j \in DOMAIN asRuns : asRuns[j].stage = "over" => asRuns'[j] = asRuns[j]
  BY <1>1, RunGoesOn
<1> QED BY <1>2, RunsKeep DEF AsInv

LEMMA StagesKeep ==
  ASSUME AsInv, NEW i \in DOMAIN asRuns, WriteReports(i) \/ MovePointer(i) \/ RunRaises(i)
  PROVE  AsInv'
<1>1. asRuns \in Seq(RunRecord) /\ asRuns[i] \in RunRecord
  BY DEF AsInv, AsTypeOK
<1>2. CASE WriteReports(i)
  <2> DEFINE run == [asRuns[i] EXCEPT !.stage = "written"]
  <2>1. run \in RunRecord /\ run.seen = asRuns[i].seen /\ run.done = asRuns[i].done
    BY <1>1 DEF RunRecord
  <2>2. asRuns' = [asRuns EXCEPT ![i] = run]
    BY <1>2 DEF WriteReports
  <2> HIDE DEF run
  <2>3. UNCHANGED <<asTree, asCall, asEdits>> /\ asLatest' = asLatest /\ asRuns[i].stage = "running"
    BY <1>2 DEF WriteReports
  <2> QED BY <2>1, <2>2, <2>3, StageKeeps
<1>3. CASE MovePointer(i)
  <2> DEFINE run == [asRuns[i] EXCEPT !.stage = "over"]
  <2>1. run \in RunRecord /\ run.seen = asRuns[i].seen /\ run.done = asRuns[i].done
        /\ run.stage = "over"
    BY <1>1 DEF RunRecord
  <2>2. asRuns' = [asRuns EXCEPT ![i] = run]
    BY <1>3 DEF MovePointer
  <2> HIDE DEF run
  <2> QED BY <1>3, <2>1, <2>2, StageKeeps DEF MovePointer
<1>4. CASE RunRaises(i)
  <2> DEFINE run == [asRuns[i] EXCEPT !.stage = "failed", !.todo = {}]
  <2>1. run \in RunRecord /\ run.seen = asRuns[i].seen /\ run.done = asRuns[i].done
    BY <1>1 DEF RunRecord
  <2>2. asRuns' = [asRuns EXCEPT ![i] = run]
    BY <1>4 DEF RunRaises
  <2> HIDE DEF run
  <2>3. UNCHANGED <<asTree, asCall, asEdits>> /\ asLatest' = asLatest /\ asRuns[i].stage = "running"
    BY <1>4 DEF RunRaises
  <2> QED BY <2>1, <2>2, <2>3, StageKeeps
<1> QED BY <1>2, <1>3, <1>4

\* The step of one call.
LEMMA CallKeeps ==
  ASSUME AsInv, NEW c \in Connection, NEW new, CallHolds(new), asCall' = [asCall EXCEPT ![c] = new],
         UNCHANGED <<asTree, asRuns, asLatest, asEdits>>
  PROVE  AsInv'
<1>1. DOMAIN asCall' = Connection /\ \A d \in Connection : asCall'[d] = IF d = c THEN new ELSE asCall[d]
  BY DEF AsInv, AsTypeOK
<1>2. \A call : CallHolds(call) => CallHolds(call)'
  BY DEF CallHolds, Verified, ComparedWith
<1>3. \A d \in Connection : CallHolds(asCall'[d])
  BY <1>1 DEF AsInv
<1>4. \A d \in Connection : CallHolds(asCall[d])'
  BY <1>3 DEF CallHolds, Verified, ComparedWith
<1>5. AsTypeOK'
  BY <1>1 DEF AsInv, AsTypeOK
<1> QED BY <1>4, <1>5 DEF AsInv, SeesItsPart

LEMMA WrittenAre ==
  ASSUME AsInv, NEW i \in DOMAIN asRuns
  PROVE  /\ WrittenFindings(i) \in FindingSets
         /\ asRuns[i].stage = "over" => WrittenFindings(i) = asRuns[i].seen
<1>1. asRuns[i] \in RunRecord
  BY DEF AsInv, AsTypeOK
<1>2. <<>> \in FindingSets
  <2>1. <<>> \in [{} -> Grade] /\ {} \in SUBSET Fault
    OBVIOUS
  <2> QED BY <2>1 DEF FindingSets
<1> QED BY <1>1, <1>2 DEF WrittenFindings, RunRecord

LEMMA StartVerifyKeeps ==
  ASSUME AsInv, NEW c \in Connection, NEW prior \in DOMAIN asRuns, NEW target \in Fault \cup {None},
         NEW modules \in SUBSET AuditModule, StartVerify(c, prior, target, modules)
  PROVE  AsInv'
<1> DEFINE new == [kind |-> "verify", stage |-> "audit",
                   target |-> IF target \in DOMAIN WrittenFindings(prior) THEN target ELSE None,
                   old |-> WrittenFindings(prior), run |-> Len(asRuns) + 1,
                   moved |-> FALSE, decision |-> "none"]
<1>1. /\ asRuns \in Seq(RunRecord) /\ Len(asRuns) < MaxRuns /\ Len(asRuns) \in Nat
      /\ asRuns' = Append(asRuns, NewRun(modules))
      /\ asCall' = [asCall EXCEPT ![c] = new]
      /\ UNCHANGED <<asTree, asLatest, asEdits>>
  BY DEF AsInv, AsTypeOK, StartVerify
<1>2. <<>> \in FindingSets
  <2>1. <<>> \in [{} -> Grade] /\ {} \in SUBSET Fault
    OBVIOUS
  <2> QED BY <2>1 DEF FindingSets
<1>3. NewRun(modules) \in RunRecord /\ NewRun(modules).done = {} /\ DOMAIN NewRun(modules).seen = {}
  BY <1>2 DEF NewRun, RunRecord
<1>4. /\ asRuns' \in Seq(RunRecord) /\ Len(asRuns') = Len(asRuns) + 1
      /\ DOMAIN asRuns' = 1..(Len(asRuns) + 1)
      /\ \A i \in DOMAIN asRuns : asRuns'[i] = asRuns[i]
      /\ asRuns'[Len(asRuns) + 1] = NewRun(modules)
  BY <1>1, <1>3
<1>5. DOMAIN asRuns = 1..Len(asRuns) /\ DOMAIN asRuns \subseteq DOMAIN asRuns'
  BY <1>1, <1>4
<1>6. SeesItsPart(NewRun(modules)) /\ Agrees(NewRun(modules), asTree)
  BY <1>3 DEF SeesItsPart, Agrees
<1>7. RunsGoOn
  <2>1. \A i \in DOMAIN asRuns' : i \in DOMAIN asRuns \/ i = Len(asRuns) + 1
    BY <1>1, <1>4, <1>5
  <2>2. Len(asRuns') <= MaxRuns
    BY <1>1, <1>4, OneRunAtLeast
  <2> QED BY <1>4, <1>5, <1>6, <2>1, <2>2 DEF RunsGoOn, AsInv
<1>8. new \in VerifyCall
  <2>1. WrittenFindings(prior) \in FindingSets
    BY WrittenAre
  <2> QED BY <1>1, <2>1 DEF VerifyCall, Decision
<1>9. ASSUME NEW call, call = new PROVE Verified(call)'
  <2>1. call.run \in DOMAIN asRuns' /\ asRuns'[call.run] = NewRun(modules)
    BY <1>1, <1>4, <1>9
  <2>2. call.stage = "audit" /\ (call.target # None => call.target \in DOMAIN call.old)
    BY <1>9
  <2> QED BY <1>1, <1>6, <2>1, <2>2 DEF Verified
<1>10. \A d \in Connection : asCall'[d] = IF d = c THEN new ELSE asCall[d]
  BY <1>1 DEF AsInv, AsTypeOK
<1> HIDE DEF new
<1>11. \A d \in Connection : CallHolds(asCall[d])'
  <2>1. ASSUME NEW d \in Connection, d # c PROVE CallHolds(asCall[d])'
    BY <1>1, <1>7, <1>10, <2>1, CallStays
  <2>2. CallHolds(asCall[c])'
    <3>1. asCall'[c] \in VerifyCall /\ Verified(asCall[c])'
      BY <1>8, <1>9, <1>10
    <3> QED BY <3>1 DEF CallHolds
  <2> QED BY <2>1, <2>2
<1>12. AsTypeOK'
  BY <1>1, <1>4, <1>7 DEF AsInv, AsTypeOK, RunsGoOn
<1> QED BY <1>1, <1>4, <1>5, <1>7, <1>11, <1>12 DEF AsInv, RunsGoOn

\* The tree moves: every fix that is being verified may be seen half.
LEMMA EditTreeKeeps ==
  ASSUME AsInv, EditTree
  PROVE  AsInv'
<1>1. asTree' \in FindingSets
  <2>1. PICK s \in SUBSET Fault : asTree \in [s -> Grade]
    BY DEF AsInv, AsTypeOK, FindingSets
  <2>2. PICK f \in Fault :
          \/ f \in DOMAIN asTree /\ asTree' = [g \in DOMAIN asTree \ {f} |-> asTree[g]]
          \/ \E grade \in Grade : asTree' = [g \in DOMAIN asTree \cup {f} |->
                                              IF g = f THEN grade ELSE asTree[g]]
    BY DEF EditTree
  <2>3. asTree' \in [s \ {f} -> Grade] \/ asTree' \in [s \cup {f} -> Grade]
    BY <2>1, <2>2
  <2>4. s \ {f} \in SUBSET Fault /\ s \cup {f} \in SUBSET Fault
    OBVIOUS
  <2> QED BY <2>3, <2>4 DEF FindingSets
<1>2. asEdits' \in 0..MaxEdits /\ UNCHANGED <<asRuns, asLatest>>
  BY OneRunAtLeast DEF EditTree, AsInv, AsTypeOK
<1>3. DOMAIN asCall' = Connection
  BY DEF EditTree
<1>4. ASSUME NEW c \in Connection PROVE CallHolds(asCall[c])'
  <2> DEFINE call == asCall[c]
  <2>1. asCall'[c] = IF call.kind = "verify" THEN [call EXCEPT !.moved = TRUE] ELSE call
    BY DEF EditTree
  <2>2. CASE call = Nobody
    BY <2>1, <2>2 DEF CallHolds, Nobody
  <2>3. CASE call \in VerifyCall /\ Verified(call)
    <3>1. asCall'[c] = [call EXCEPT !.moved = TRUE]
      BY <2>1, <2>3 DEF VerifyCall
    <3>2. asCall'[c] \in VerifyCall
      BY <2>3, <3>1 DEF VerifyCall
    <3>3. /\ asCall'[c].moved /\ asCall'[c].run = call.run /\ asCall'[c].target = call.target
          /\ asCall'[c].old = call.old
      BY <2>3, <3>1 DEF VerifyCall
    <3>4. asCall'[c].stage = call.stage /\ asCall'[c].decision = call.decision
      BY <2>3, <3>1 DEF VerifyCall
    <3>5. Verified(asCall[c])'
      BY <1>2, <2>3, <3>3, <3>4 DEF Verified
    <3> QED BY <3>2, <3>5 DEF CallHolds
  <2>4. CASE call \in CompareCall /\ ComparedWith(call)
    <3>1. asCall'[c] = call
      BY <2>1, <2>4 DEF CompareCall
    <3>2. ComparedWith(asCall[c])'
      BY <1>2, <2>4, <3>1 DEF ComparedWith
    <3> QED BY <2>4, <3>1, <3>2 DEF CallHolds
  <2> QED BY <2>2, <2>3, <2>4 DEF AsInv, CallHolds
<1> QED BY <1>1, <1>2, <1>3, <1>4 DEF AsInv, AsTypeOK, SeesItsPart

LEMMA AnswerVerifyKeeps ==
  ASSUME AsInv, NEW c \in Connection, AnswerVerify(c)
  PROVE  AsInv'
<1> DEFINE call == asCall[c]
           run == asRuns[call.run]
           decided == Decide(call.target, DOMAIN call.old, DOMAIN run.seen)
<1>1. call \in VerifyCall /\ Verified(call) /\ call.stage = "audit"
  BY DEF AsInv, CallHolds, AnswerVerify, CompareCall, Nobody
<1>2. decided \in Decision
  BY DEF Decide, Decision
<1>3. UNCHANGED <<asTree, asRuns, asLatest, asEdits>>
  BY DEF AnswerVerify
<1>4. \/ run.stage = "over"
         /\ asCall' = [asCall EXCEPT ![c] = [call EXCEPT !.stage = "answered", !.decision = decided]]
      \/ asCall' = [asCall EXCEPT ![c] = [call EXCEPT !.stage = "answered", !.decision = "failure"]]
  BY DEF AnswerVerify
<1>5. ASSUME NEW decision \in Decision, decision = "failure" \/ (run.stage = "over" /\ decision = decided)
      PROVE  CallHolds([call EXCEPT !.stage = "answered", !.decision = decision])
  <2> DEFINE new == [call EXCEPT !.stage = "answered", !.decision = decision]
  <2>1. new \in VerifyCall
    BY <1>1 DEF VerifyCall
  <2>2. new.run = call.run /\ new.target = call.target /\ new.old = call.old /\ new.moved = call.moved
    BY <1>1 DEF VerifyCall
  <2>3. new.stage = "answered" /\ new.decision = decision
    BY <1>1 DEF VerifyCall
  <2> HIDE DEF new
  <2>4. Verified(new)
    BY <1>1, <1>5, <2>2, <2>3 DEF Verified
  <2> QED BY <2>1, <2>4 DEF CallHolds, new
<1>6. "failure" \in Decision
  BY DEF Decision
<1> HIDE DEF decided
<1>7. CASE run.stage = "over"
           /\ asCall' = [asCall EXCEPT ![c] = [call EXCEPT !.stage = "answered", !.decision = decided]]
  BY <1>2, <1>3, <1>5, <1>7, CallKeeps
<1>8. CASE asCall' = [asCall EXCEPT ![c] = [call EXCEPT !.stage = "answered", !.decision = "failure"]]
  BY <1>3, <1>5, <1>6, <1>8, CallKeeps
<1> QED BY <1>4, <1>7, <1>8

LEMMA StartCompareKeeps ==
  ASSUME AsInv, NEW c \in Connection, NEW before \in DOMAIN asRuns, StartCompare(c, before)
  PROVE  AsInv'
<1> DEFINE new == [kind |-> "compare", stage |-> "after", before |-> before, after |-> 0, latest |-> FALSE,
                   old |-> <<>>, new |-> <<>>]
<1>1. before \in Nat
  BY DEF AsInv, AsTypeOK
<1>2. <<>> \in FindingSets
  <2>1. <<>> \in [{} -> Grade] /\ {} \in SUBSET Fault
    OBVIOUS
  <2> QED BY <2>1 DEF FindingSets
<1>3. new \in CompareCall
  BY <1>1, <1>2 DEF CompareCall
<1>4. ComparedWith(new)
  BY DEF ComparedWith
<1> QED BY <1>3, <1>4, CallKeeps DEF StartCompare, CallHolds

\* What a comparison has before and after it looked something up.
LEMMA ComparisonKeeps ==
  ASSUME AsInv, NEW c \in Connection,
         LookUpAfter(c, TRUE) \/ LookUpAfter(c, FALSE) \/ LoadBefore(c) \/ LoadAfter(c)
  PROVE  AsInv'
<1> DEFINE call == asCall[c]
<1>1. call \in CompareCall /\ ComparedWith(call)
  <2>1. call.kind = "compare"
    BY DEF LookUpAfter, LoadBefore, LoadAfter
  <2> QED BY <2>1 DEF AsInv, CallHolds, VerifyCall, Nobody
<1>2. \A i \in DOMAIN asRuns : i \in Nat
  BY DEF AsInv, AsTypeOK
<1>3. ASSUME NEW latest \in BOOLEAN, LookUpAfter(c, latest) PROVE AsInv'
  <2>1. PICK after \in IF latest THEN {asLatest} ELSE 1..Len(asRuns) :
          asCall' = [asCall EXCEPT ![c] = [call EXCEPT !.stage = "load_before", !.after = after,
                                                       !.latest = latest]]
    BY <1>3 DEF LookUpAfter
  <2> DEFINE new == [call EXCEPT !.stage = "load_before", !.after = after, !.latest = latest]
  <2>2. after \in DOMAIN asRuns /\ (latest => asRuns[after].stage = "over") /\ call.stage = "after"
    <3>1. asLatest \in DOMAIN asRuns /\ asRuns[asLatest].stage = "over" /\ DOMAIN asRuns = 1..Len(asRuns)
      BY DEF AsInv, AsTypeOK
    <3>2. after \in IF latest THEN {asLatest} ELSE 1..Len(asRuns)
      OBVIOUS
    <3>3. call.stage = "after"
      BY <1>3 DEF LookUpAfter
    <3>4. CASE latest
      BY <3>1, <3>2, <3>3, <3>4
    <3>5. CASE ~latest
      BY <3>1, <3>2, <3>3, <3>5
    <3> QED BY <3>4, <3>5
  <2>3. new \in CompareCall
    BY <1>1, <1>2, <2>2 DEF CompareCall
  <2>4. new.stage = "load_before" /\ new.after = after /\ new.latest = latest
        /\ new.before = call.before
    BY <1>1 DEF CompareCall
  <2> HIDE DEF new
  <2>5. ComparedWith(new)
    BY <1>1, <2>2, <2>4 DEF ComparedWith
  <2>6. asCall' = [asCall EXCEPT ![c] = new]
    BY <2>1 DEF new
  <2> QED BY <1>3, <2>3, <2>5, <2>6, CallKeeps DEF LookUpAfter, CallHolds
<1>4. ASSUME LoadBefore(c) PROVE AsInv'
  <2> DEFINE new == [call EXCEPT !.stage = "load_after", !.before = 0,
                                 !.old = WrittenFindings(call.before)]
  <2>1. call.stage = "load_before" /\ WrittenFindings(call.before) \in FindingSets
    BY <1>1, <1>4, WrittenAre DEF LoadBefore, ComparedWith
  <2>2. new \in CompareCall
    BY <1>1, <2>1 DEF CompareCall
  <2>3. new.stage = "load_after" /\ new.after = call.after /\ new.latest = call.latest
    BY <1>1 DEF CompareCall
  <2>4. asCall' = [asCall EXCEPT ![c] = new]
    BY <1>4 DEF LoadBefore
  <2> HIDE DEF new
  <2>5. ComparedWith(new)
    BY <1>1, <2>1, <2>3 DEF ComparedWith
  <2> QED BY <1>4, <2>2, <2>4, <2>5, CallKeeps DEF LoadBefore, CallHolds
<1>5. ASSUME LoadAfter(c) PROVE AsInv'
  <2> DEFINE new == [call EXCEPT !.stage = "answered", !.new = WrittenFindings(call.after)]
  <2>1. call.stage = "load_after" /\ call.after \in DOMAIN asRuns
    BY <1>1, <1>5 DEF LoadAfter, ComparedWith
  <2>2. WrittenFindings(call.after) \in FindingSets
        /\ (asRuns[call.after].stage = "over" => WrittenFindings(call.after) = asRuns[call.after].seen)
    BY <2>1, WrittenAre
  <2>3. new \in CompareCall
    BY <1>1, <2>2 DEF CompareCall
  <2>4. new.stage = "answered" /\ new.after = call.after /\ new.latest = call.latest
        /\ new.new = WrittenFindings(call.after)
    BY <1>1 DEF CompareCall
  <2>5. asCall' = [asCall EXCEPT ![c] = new]
    BY <1>5 DEF LoadAfter
  <2> HIDE DEF new
  <2>6. ComparedWith(new)
    BY <1>1, <2>1, <2>2, <2>4 DEF ComparedWith
  <2> QED BY <1>5, <2>3, <2>5, <2>6, CallKeeps DEF LoadAfter, CallHolds
<1> QED BY <1>3, <1>4, <1>5

LEMMA AsSteps == AsInv /\ [AsNext]_asVars => AsInv'
<1> SUFFICES ASSUME AsInv, [AsNext]_asVars PROVE AsInv'
  OBVIOUS
<1>1. CASE UNCHANGED asVars
  BY <1>1 DEF asVars, AsInv, AsTypeOK, SeesItsPart, CallHolds, Verified, ComparedWith
<1>2. ASSUME NEW i \in DOMAIN asRuns, NEW errs \in BOOLEAN, ModuleRuns(i, errs) PROVE AsInv'
  BY <1>2, ModuleRunsKeeps
<1>3. ASSUME NEW i \in DOMAIN asRuns, WriteReports(i) \/ MovePointer(i) \/ RunRaises(i) PROVE AsInv'
  BY <1>3, StagesKeep
<1>4. ASSUME EditTree PROVE AsInv'
  BY <1>4, EditTreeKeeps
<1>5. ASSUME NEW c \in Connection, NEW i \in DOMAIN asRuns, NEW target \in Fault \cup {None},
             NEW modules \in (SUBSET AuditModule) \ {{}}, StartVerify(c, i, target, modules)
      PROVE  AsInv'
  BY <1>5, StartVerifyKeeps
<1>6. ASSUME NEW c \in Connection, NEW i \in DOMAIN asRuns, StartCompare(c, i) PROVE AsInv'
  BY <1>6, StartCompareKeeps
<1>7. ASSUME NEW c \in Connection, AnswerVerify(c) PROVE AsInv'
  BY <1>7, AnswerVerifyKeeps
<1>8. ASSUME NEW c \in Connection, NEW latest \in BOOLEAN, LookUpAfter(c, latest) PROVE AsInv'
  <2>1. latest = TRUE \/ latest = FALSE
    OBVIOUS
  <2> QED BY <1>8, <2>1, ComparisonKeeps
<1>9. ASSUME NEW c \in Connection, LoadBefore(c) \/ LoadAfter(c) PROVE AsInv'
  BY <1>9, ComparisonKeeps
<1>10. ASSUME NEW c \in Connection, TakeAnswer(c) PROVE AsInv'
  BY <1>10, CallKeeps DEF TakeAnswer, CallHolds
<1> QED BY <1>1, <1>2, <1>3, <1>4, <1>5, <1>6, <1>7, <1>8, <1>9, <1>10 DEF AsNext

LEMMA VerdictsServe == ASSUME AsInv PROVE VerdictsAreHonest
<1> SUFFICES ASSUME NEW c \in Connection, asCall[c].kind = "verify", asCall[c].stage = "answered"
             PROVE  LET call == asCall[c]
                        run == asRuns[call.run]
                        wrong == {f \in DOMAIN asTree : ModuleOf[f] \in run.done}
                    IN  /\ call.decision = "fix_verified" /\ ~call.moved => wrong = {}
                        /\ call.decision \in {"still_failing", "regressed"} =>
                             /\ call.target \in DOMAIN call.old
                             /\ ~call.moved => call.target \in DOMAIN asTree
                        /\ call.decision \in {"still_failing", "partial"} /\ ~call.moved => wrong # {}
                        /\ call.decision = "regressed" => ~(DOMAIN run.seen \subseteq DOMAIN call.old)
  BY DEF VerdictsAreHonest
<1> DEFINE call == asCall[c]
           run == asRuns[call.run]
<1>1. call \in VerifyCall /\ Verified(call)
  BY DEF AsInv, CallHolds, CompareCall, Nobody
<1>2. DOMAIN asTree \subseteq Fault
  BY FindingsAre DEF AsInv, AsTypeOK
<1>3. call.run \in DOMAIN asRuns /\ SeesItsPart(run) /\ (~call.moved => Agrees(run, asTree))
      /\ (call.target # None => call.target \in DOMAIN call.old)
  BY <1>1 DEF Verified, AsInv
<1>4. CASE call.decision = "failure"
  BY <1>4
<1>5. CASE call.decision = Decide(call.target, DOMAIN call.old, DOMAIN run.seen)
  <2>1. call.decision = "fix_verified" => DOMAIN run.seen = {}
    BY <1>5 DEF Decide
  <2>2. call.decision \in {"still_failing", "regressed"} => call.target # None /\ call.target \in DOMAIN run.seen
    BY <1>5 DEF Decide
  <2>3. call.decision \in {"still_failing", "partial"} => DOMAIN run.seen # {}
    BY <1>5 DEF Decide
  <2>4. call.decision = "regressed" => (DOMAIN run.seen) \ (DOMAIN call.old) # {}
    BY <1>5 DEF Decide
  <2> QED BY <1>2, <1>3, <2>1, <2>2, <2>3, <2>4 DEF Agrees, SeesItsPart
<1> QED BY <1>1, <1>4, <1>5 DEF Verified

LEMMA ComparisonsServe == ASSUME AsInv PROVE ComparisonsAreWhole
<1> SUFFICES ASSUME NEW c \in Connection, asCall[c].kind = "compare", asCall[c].stage = "answered"
             PROVE  LET call == asCall[c]
                    IN  /\ call.latest => call.new = asRuns[call.after].seen
                                           /\ asRuns[call.after].stage = "over"
                        /\ ~HasRegressions(call) <=>
                             \A f \in DOMAIN call.new :
                               f \in DOMAIN call.old
                               /\ SeverityRank(call.new[f]) <= SeverityRank(call.old[f])
  BY DEF ComparisonsAreWhole
<1> DEFINE call == asCall[c]
<1>1. call \in CompareCall /\ ComparedWith(call)
  BY DEF AsInv, CallHolds, VerifyCall, Nobody
<1>2. \A f \in DOMAIN call.new : SeverityRank(call.new[f]) \in Nat
  BY <1>1 DEF CompareCall, FindingSets, Grade, SeverityRank
<1>3. \A f \in DOMAIN call.old : SeverityRank(call.old[f]) \in Nat
  BY <1>1 DEF CompareCall, FindingSets, Grade, SeverityRank
<1>4. ~HasRegressions(call) <=>
        \A f \in DOMAIN call.new :
          f \in DOMAIN call.old /\ SeverityRank(call.new[f]) <= SeverityRank(call.old[f])
  BY <1>2, <1>3 DEF HasRegressions, Appeared, Worsened, Persistent
<1> QED BY <1>1, <1>4 DEF ComparedWith

LEMMA AsServes == AsInv => AsTypeOK /\ AnswersAreHonest
BY VerdictsServe, ComparisonsServe DEF AsInv, AnswersAreHonest

(***************************************************************************)
(* The audits side by side: whichever of them moves, the others stay, and  *)
(* each keeps its own invariant.                                           *)
(***************************************************************************)
AuditsInv == ScInv /\ BaInv /\ SaInv /\ EvInv

LEMMA AuditsStart == PartsInit => AuditsInv
<1>1. PartsInit => ScInit /\ BaInit /\ SaInit /\ EvInit
  BY DEF PartsInit, StoresRest, SupplyRest, AuditsRest, BrowserRest, SecurityRest, EvidenceRest
<1> QED BY <1>1, ScStarts, BaStarts, SaStarts, EvStarts DEF AuditsInv

LEMMA AuditsStep == AuditsInv /\ [PartsNext]_partsVars => AuditsInv'
<1>1. [PartsNext]_partsVars => [ScNext]_scVars /\ [BaNext]_baVars /\ [SaNext]_saVars /\ [EvNext]_evVars
  BY DEF PartsNext, partsVars, auditVars
<1> QED BY <1>1, ScSteps, BaSteps, SaSteps, EvSteps DEF AuditsInv

\* The verdict of each of the four audits follows from what it saw, and its
\* evidence shows it, for all dependencies, routes, checks and inputs.
THEOREM AuditsStayEarned == PartsSpec => []AuditsAreEarned
<1>1. AuditsInv => AuditsAreEarned
  BY ScServes, BaServes, SaServes, EvServes DEF AuditsInv, AuditsAreEarned
<1> QED BY <1>1, AuditsStart, AuditsStep, PTL DEF PartsSpec

(***************************************************************************)
(* The same for the snapshots of the api module and the agents' server.    *)
(***************************************************************************)
ChangesInv == ApInv /\ AsInv

LEMMA ChangesStart == PartsInit => ChangesInv
<1>1. PartsInit => ApInit /\ AsInit
  BY DEF PartsInit, StoresRest, ServerRest
<1> QED BY <1>1, ApStarts, AsStarts DEF ChangesInv

LEMMA ChangesStep == ChangesInv /\ [PartsNext]_partsVars => ChangesInv'
<1>1. [PartsNext]_partsVars => [ApNext]_apVars /\ [AsNext]_asVars
  BY DEF PartsNext, partsVars
<1> QED BY <1>1, ApSteps, AsSteps DEF ChangesInv

\* Whatever runs select, break or kill, a promise of an API that is broken is
\* told in a report; and what an agent is told about its fix is so, for all
\* documents, faults, runs and connections.
THEOREM ChangesStayReported == PartsSpec => []ChangesAreReported
<1>1. ChangesInv => ChangesAreReported
  BY ApServes, AsServes DEF ChangesInv, ChangesAreReported
<1> QED BY <1>1, ChangesStart, ChangesStep, PTL DEF PartsSpec

(***************************************************************************)
(* All parts side by side: the planner keeps its own invariant while it is *)
(* the one that is checked, the others keep theirs whatever moves.         *)
(***************************************************************************)
PartsInv ==
  /\ ApInv /\ AuthInv /\ VbInv /\ AtInv /\ AsInv
  /\ AuditsInv
  /\ component = "planning" => TpInv

LEMMA PartsStart == PartsInit => PartsInv
<1> SUFFICES ASSUME PartsInit PROVE PartsInv
  OBVIOUS
<1>1. AuInit /\ VbInit /\ AtInit
  BY DEF PartsInit, StoresRest
<1>2. component = "planning" => TpInit
  BY DEF PartsInit
<1> QED BY <1>1, <1>2, AuditsStart, ChangesStart, AuthStarts, VbStarts, AtStarts, TpStarts
        DEF PartsInv, ChangesInv

LEMMA PartsStep == PartsInv /\ [PartsNext]_partsVars => PartsInv'
<1> SUFFICES ASSUME PartsInv, [PartsNext]_partsVars PROVE PartsInv'
  OBVIOUS
<1>1. [AuNext]_auVars /\ [VbNext]_vbVars /\ [AtNext]_atVars
  BY DEF PartsNext, partsVars
<1>2. component' = component /\ (component = "planning" => [TpNext]_tpVars)
  BY DEF PartsNext, partsVars
<1>3. AuditsInv' /\ ApInv' /\ AsInv'
  BY AuditsStep, ChangesStep DEF PartsInv, ChangesInv
<1>4. AuthInv' /\ VbInv' /\ AtInv'
  BY <1>1, AuthSteps, VbSteps, AtSteps DEF PartsInv
<1>5. component' = "planning" => TpInv'
  BY <1>2, TpSteps DEF PartsInv
<1> QED BY <1>3, <1>4, <1>5 DEF PartsInv

LEMMA VbIsTyped == ASSUME VbInv PROVE VbTypeOK
<1>1. VbTyped
  BY DEF VbInv
<1>2. ASSUME NEW a \in Accepter
      PROVE  /\ accepter[a].stage \in AcceptStage
             /\ accepter[a].left \subseteq Shot /\ accepter[a].all \subseteq Shot
             /\ accepter[a].rows \in Capture
             /\ accepter[a].met \in BOOLEAN
  BY <1>1, AcceptFacts DEF Acceptance, VbTyped
<1>3. ASSUME NEW d \in Differ
      PROVE  /\ differ[d].stage \in {"idle", "compare", "attribute", "done"}
             /\ differ[d].left \subseteq Shot /\ differ[d].captured \subseteq Shot
             /\ differ[d].calm \subseteq Shot /\ differ[d].met \in BOOLEAN
             /\ differ[d].outcome \in PartOf(Outcome)
             /\ differ[d].sha \in PartOf(Seen) /\ differ[d].shown \in PartOf(Seen)
             /\ differ[d].seen \in PartOf(Seen)
  BY <1>1 DEF VbTyped, Comparison
<1>4. ASSUME NEW S, NEW part \in PartOf(S), NEW s \in DOMAIN part PROVE part[s] \in S
  BY DEF PartOf
<1>5. \A d \in Differ :
        /\ \A s \in DOMAIN differ[d].outcome : differ[d].outcome[s] \in Outcome
        /\ \A s \in DOMAIN differ[d].sha : differ[d].sha[s] \in Seen
        /\ \A s \in DOMAIN differ[d].shown : differ[d].shown[s] \in Seen
        /\ \A s \in DOMAIN differ[d].seen : differ[d].seen[s] \in Seen
  BY <1>3, <1>4
<1> QED BY <1>1, <1>2, <1>3, <1>5 DEF VbTyped, VbTypeOK, Seen

\* Type correctness of every part, for all values of its constants.
THEOREM PartsTyped == PartsSpec => []PartsTypeOK
<1>1. PartsInv => PartsTypeOK
  <2> SUFFICES ASSUME PartsInv PROVE PartsTypeOK
    OBVIOUS
  <2>1. ApTypeOK /\ AtTypeOK /\ AsTypeOK
    BY ApServes, AtServes, AsServes DEF PartsInv
  <2>2. AuTypeOK /\ VbTypeOK
    BY VbIsTyped DEF PartsInv, AuthInv
  <2>3. ScTypeOK /\ BaTypeOK /\ SaTypeOK /\ EvTypeOK
    BY BaServes, SaServes, EvServes DEF PartsInv, AuditsInv, ScInv
  <2>4. component = "planning" => TpTypeOK
    BY TpServes DEF PartsInv
  <2> QED BY <2>1, <2>2, <2>3, <2>4 DEF PartsTypeOK
<1> QED BY <1>1, PartsStart, PartsStep, PTL DEF PartsSpec
=============================================================================
