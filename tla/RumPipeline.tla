---------------------------- MODULE RumPipeline ----------------------------
(***************************************************************************)
(* The events of real users on their way into a run: pages buffer them and *)
(* send them in batches (packages/rum-browser-sdk/src/index.ts), a         *)
(* receiver with one thread appends them to an inbox file, counts them,    *)
(* and bakes the inbox into the directory of a run (engine/rum/server.py,  *)
(* engine/rum/ingest.py).  The receiver is interrupted or killed anywhere. *)
(***************************************************************************)
EXTENDS Naturals, Sequences, FiniteSets, SequencesExt

CONSTANTS Tab,         \* pages with the SDK
          SloppyTab,   \* those that send a seq which is no integer
          MaxBuffer, Threshold,
          MaxEvents,   \* bound: events recorded by all pages
          MaxMillis,   \* bound: the time stamps
          MaxKills     \* bound: times the receiver is killed

ASSUME RumAssumption ==
  /\ SloppyTab \subseteq Tab
  /\ MaxBuffer \in Nat \ {0, 1} /\ Threshold \in Nat \ {0}
  /\ MaxEvents \in Nat /\ MaxMillis \in Nat /\ MaxKills \in Nat

VARIABLES
  millis, made,        \* the clock, and the events recorded so far
  buffer,              \* of each page whose SDK is active
  transit,             \* batches that were sent and have not arrived
  inbox, counted,      \* rum.jsonl, and _buffered_events
  receiver, closing,   \* what the receiver is doing; in the finally clause
  runDirs,             \* run id -> what its directory holds
  kills,
  acknowledged,        \* history: the events append() has counted
  replaced             \* history: the events of runs another run was written over

rumVars == <<millis, made, buffer, transit, inbox, counted, receiver, closing,
             runDirs, kills, acknowledged, replaced>>

NoJson == [count |-> 0, failed |-> FALSE]   \* no run.json yet
Event == [id : 1..MaxEvents, ts : 0..MaxMillis, error : BOOLEAN, sloppy : BOOLEAN]

\* Half a line, which a killed receiver leaves at the end of the inbox.
Torn == [id |-> 0, ts |-> 0, error |-> FALSE, sloppy |-> FALSE]

Put(f, k, v) == [x \in DOMAIN f \cup {k} |-> IF x = k THEN v ELSE f[x]]

Baking == {"bake", "events", "run", "unlink"}

RumTypeOK ==
  /\ millis \in 0..MaxMillis /\ made \in 0..MaxEvents
  /\ DOMAIN buffer \subseteq Tab
  /\ \A t \in DOMAIN buffer : ToSet(buffer[t]) \subseteq Event
  /\ \A b \in transit : b # <<>> /\ ToSet(b) \subseteq Event
  /\ ToSet(inbox) \subseteq Event \cup {Torn} /\ counted \in 0..MaxEvents
  /\ receiver \in Baking \cup {"serve", "down"} /\ closing \in BOOLEAN
  /\ kills \in 0..MaxKills
  /\ acknowledged \cup replaced \subseteq 1..made

RumInit ==
  /\ millis = 0 /\ made = 0
  /\ buffer = <<>> /\ transit = {}
  /\ inbox = <<>> /\ counted = 0
  /\ receiver = "serve" /\ closing = FALSE
  /\ runDirs = <<>> /\ kills = 0
  /\ acknowledged = {} /\ replaced = {}

----------------------------------------------------------------------------
(* The pages.                                                              *)
ReceiverStays == UNCHANGED <<inbox, counted, receiver, closing, runDirs, kills, acknowledged, replaced>>

Tick ==
  /\ millis < MaxMillis /\ millis' = millis + 1
  /\ UNCHANGED <<made, buffer, transit>> /\ ReceiverStays

\* The events that emit() appends, one for each of the flags.
Stamped(t, errors) ==
  [i \in DOMAIN errors |-> [id |-> made + i, ts |-> millis, error |-> errors[i],
                            sloppy |-> t \in SloppyTab]]

\* emit(); the flush it may end in takes the whole buffer, whatever becomes
\* of the request.
Emit(t, old, errors) ==
  LET all == old \o Stamped(t, errors)
  IN /\ made + Len(errors) <= MaxEvents
     /\ made' = made + Len(errors)
     /\ IF Len(all) >= MaxBuffer
        THEN buffer' = Put(buffer, t, <<>>) /\ transit' = transit \cup {all}
        ELSE buffer' = Put(buffer, t, all) /\ UNCHANGED transit
     /\ UNCHANGED millis

\* run.start and page.view.
InitRum(t) ==
  t \notin DOMAIN buffer /\ Emit(t, <<>>, <<FALSE, FALSE>>) /\ ReceiverStays

Record1(t, error) ==
  t \in DOMAIN buffer /\ Emit(t, buffer[t], <<error>>) /\ ReceiverStays

\* The interval, a page that is hidden, or one that unloads.
Flush(t) ==
  /\ t \in DOMAIN buffer /\ buffer[t] # <<>>
  /\ buffer' = [buffer EXCEPT ![t] = <<>>] /\ transit' = transit \cup {buffer[t]}
  /\ UNCHANGED <<millis, made>> /\ ReceiverStays

\* run.end, and a flush.
Shutdown(t) ==
  /\ t \in DOMAIN buffer /\ made < MaxEvents
  /\ made' = made + 1
  /\ transit' = transit \cup {buffer[t] \o Stamped(t, <<FALSE>>)}
  /\ buffer' = Restrict(buffer, DOMAIN buffer \ {t})
  /\ UNCHANGED millis /\ ReceiverStays

\* The page ends, with a flush or without, or its request is lost; the SDK
\* keeps no copy.
Vanish(t) ==
  /\ t \in DOMAIN buffer
  /\ buffer' = Restrict(buffer, DOMAIN buffer \ {t})
  /\ UNCHANGED <<millis, made, transit>> /\ ReceiverStays

Lose(b) ==
  transit' = transit \ {b} /\ UNCHANGED <<millis, made, buffer>> /\ ReceiverStays

----------------------------------------------------------------------------
(* The receiver.                                                           *)
PagesStay == UNCHANGED <<millis, made, buffer>>

\* Lines put after half a line: the first of them ends that line, and is lost
\* with it.
After(file, lines) ==
  IF file = <<>> \/ Last(file) # Torn \/ lines = <<>> THEN file \o lines
  ELSE IF lines = <<Torn>> THEN file ELSE Front(file) \o Tail(lines)

Receive_CountsRequests_Mutant(b) ==
  /\ receiver = "serve"
  /\ transit' = transit \ {b}
  /\ inbox' = After(inbox, b)
  /\ counted' = counted + 1
  /\ acknowledged' = acknowledged \cup {e.id : e \in ToSet(b)}
  /\ receiver' = IF counted' >= Threshold THEN "bake" ELSE "serve"
  /\ PagesStay /\ UNCHANGED <<closing, runDirs, kills, replaced>>

\* POST /rum: append() and maybe_bake().
Receive(b) ==
  /\ receiver = "serve"
  /\ transit' = transit \ {b}
  /\ inbox' = After(inbox, b)
  /\ counted' = counted + Len(b)
  /\ acknowledged' = acknowledged \cup {e.id : e \in ToSet(b)}
  /\ receiver' = IF counted' >= Threshold THEN "bake" ELSE "serve"
  /\ PagesStay /\ UNCHANGED <<closing, runDirs, kills, replaced>>

\* POST /bake.
AskBake ==
  /\ receiver = "serve" /\ receiver' = "bake"
  /\ PagesStay /\ UNCHANGED <<transit, inbox, counted, closing, runDirs, kills, acknowledged, replaced>>

\* The lines that parse: all but half a line at the end.
Parsed(file) == IF file # <<>> /\ Last(file) = Torn THEN Front(file) ELSE file
AnySloppy == \E e \in ToSet(inbox) : e.sloppy
Finished == receiver' = IF closing THEN "down" ELSE "serve"
Emptied == inbox' = <<>> /\ counted' = 0 /\ Finished

\* _derive_run_id: the path is the same for every run.
RunId(events) == <<events[1].ts, Len(events)>>

\* bake() reads the inbox: nothing to parse empties it, a seq that is no
\* integer raises through bake() and leaves everything as it was.
ReadInbox ==
  /\ receiver = "bake"
  /\ \/ Parsed(inbox) = <<>> /\ Emptied
     \/ AnySloppy /\ Finished /\ UNCHANGED <<inbox, counted>>
     \/ /\ Parsed(inbox) # <<>> /\ ~AnySloppy
        /\ receiver' = "events" /\ UNCHANGED <<inbox, counted>>
  /\ PagesStay /\ UNCHANGED <<transit, closing, runDirs, kills, acknowledged, replaced>>

\* events.jsonl, over the one of a run with the same id.
WriteEvents ==
  LET events == Parsed(inbox)
      dir == RunId(events)
      old == IF dir \in DOMAIN runDirs THEN runDirs[dir] ELSE [events |-> <<>>, run |-> NoJson]
      ids(s) == {e.id : e \in ToSet(s)}
  IN /\ receiver = "events" /\ receiver' = "run"
     /\ runDirs' = Put(runDirs, dir, [old EXCEPT !.events = events])
     /\ replaced' = replaced \cup (ids(old.events) \ ids(events))
     /\ PagesStay /\ UNCHANGED <<transit, inbox, counted, closing, kills, acknowledged>>

WriteRun_Counted_Mutant ==
  LET events == Parsed(inbox)
  IN /\ receiver = "run" /\ receiver' = "unlink"
     /\ runDirs' = [runDirs EXCEPT ![RunId(events)].run =
                      [count |-> counted, failed |-> \E e \in ToSet(events) : e.error]]
     /\ PagesStay /\ UNCHANGED <<transit, inbox, counted, closing, kills, acknowledged, replaced>>

\* findings.json, then run.json, from the events in memory.
WriteRun ==
  LET events == Parsed(inbox)
  IN /\ receiver = "run" /\ receiver' = "unlink"
     /\ runDirs' = [runDirs EXCEPT ![RunId(events)].run =
                      [count |-> Len(events), failed |-> \E e \in ToSet(events) : e.error]]
     /\ PagesStay /\ UNCHANGED <<transit, inbox, counted, closing, kills, acknowledged, replaced>>

Unlink_KeepsInbox_Mutant ==
  /\ receiver = "unlink" /\ counted' = 0 /\ Finished
  /\ PagesStay /\ UNCHANGED <<transit, inbox, closing, runDirs, kills, acknowledged, replaced>>

Unlink_KeepsCount_Mutant ==
  /\ receiver = "unlink" /\ inbox' = <<>> /\ Finished
  /\ PagesStay /\ UNCHANGED <<transit, counted, closing, runDirs, kills, acknowledged, replaced>>

Unlink ==
  /\ receiver = "unlink" /\ Emptied
  /\ PagesStay /\ UNCHANGED <<transit, closing, runDirs, kills, acknowledged, replaced>>

\* The receiver is stopped, perhaps while it appends the first lines of a
\* batch, which are not counted.
CutOff(tail) ==
  \/ UNCHANGED <<transit, inbox>>
  \/ /\ receiver = "serve"
     /\ \E b \in transit : \E n \in 0..(Len(b) - 1) :
          transit' = transit \ {b} /\ inbox' = After(inbox, SubSeq(b, 1, n) \o tail)

Interrupt_NoFinalBake_Mutant ==
  /\ receiver # "down" /\ ~closing /\ CutOff(<<>>)
  /\ closing' = TRUE /\ receiver' = "down"
  /\ PagesStay /\ UNCHANGED <<counted, runDirs, kills, acknowledged, replaced>>

\* KeyboardInterrupt: the handler is abandoned, the finally clause bakes.
Interrupt ==
  /\ receiver # "down" /\ ~closing /\ CutOff(<<>>)
  /\ closing' = TRUE /\ receiver' = "bake"
  /\ PagesStay /\ UNCHANGED <<counted, runDirs, kills, acknowledged, replaced>>

KillReceiver ==
  /\ receiver # "down" /\ kills < MaxKills
  /\ CutOff(<<Torn>>)
  /\ kills' = kills + 1 /\ closing' = FALSE /\ receiver' = "down"
  /\ PagesStay /\ UNCHANGED <<counted, runDirs, acknowledged, replaced>>

Serve_FreshInbox_Mutant ==
  /\ receiver = "down" /\ receiver' = "serve"
  /\ closing' = FALSE /\ counted' = 0 /\ inbox' = <<>>
  /\ PagesStay /\ UNCHANGED <<transit, runDirs, kills, acknowledged, replaced>>

\* sentinel rum serve, in the same directory.
Serve ==
  /\ receiver = "down" /\ receiver' = "serve"
  /\ closing' = FALSE /\ counted' = 0
  /\ PagesStay /\ UNCHANGED <<transit, inbox, runDirs, kills, acknowledged, replaced>>

RumNext ==
  \/ Tick
  \/ \E t \in Tab : InitRum(t) \/ (\E error \in BOOLEAN : Record1(t, error)) \/ Flush(t) \/ Shutdown(t) \/ Vanish(t)
  \/ \E b \in transit : Lose(b) \/ Receive(b)
  \/ AskBake \/ ReadInbox \/ WriteEvents \/ WriteRun \/ Unlink
  \/ Interrupt \/ KillReceiver \/ Serve

RumSpec == RumInit /\ [][RumNext]_rumVars

----------------------------------------------------------------------------
IdsIn(s) == {e.id : e \in ToSet(s)}
Complete(dir) == runDirs[dir].run # NoJson
Underway(dir) == receiver \in Baking /\ Parsed(inbox) # <<>> /\ dir = RunId(Parsed(inbox))

(* An event the receiver has counted is in the inbox or in a run that is   *)
(* complete, however the receiver was stopped; a kill costs at most the    *)
(* one event that was glued to half a line.  (Runs with the same first     *)
(* time stamp and length share an id: the later one takes the directory.)  *)
EventsConserved ==
  LET baked == UNION {IdsIn(runDirs[d].events) : d \in {d \in DOMAIN runDirs : Complete(d)}}
  IN Cardinality(acknowledged \ (IdsIn(inbox) \cup baked \cup replaced)) <= kills

(* Without a kill no event is reported twice: neither in two runs, nor in  *)
(* a run and in an inbox that is still to be baked, though an interrupt    *)
(* makes the receiver bake again what it may have baked already.           *)
ReportedOnce ==
  kills = 0 =>
    /\ \A c, d \in DOMAIN runDirs :
         c # d => IdsIn(runDirs[c].events) \cap IdsIn(runDirs[d].events) = {}
    /\ \A d \in DOMAIN runDirs :
         Underway(d) \/ IdsIn(runDirs[d].events) \cap IdsIn(inbox) = {}

(* What run.json says of a run is what its events say, unless a receiver   *)
(* was killed while it wrote over another run.                             *)
SummaryAgrees ==
  \A d \in DOMAIN runDirs :
    Complete(d) /\ ~Underway(d) /\ (kills = 0 \/ replaced = {}) =>
      /\ runDirs[d].run.count = Len(runDirs[d].events)
      /\ runDirs[d].run.failed <=> \E e \in ToSet(runDirs[d].events) : e.error

(* Nothing lies in the inbox unnoticed: between requests the count is      *)
(* below the threshold and, without kills, is the length of the inbox, and *)
(* a receiver that was interrupted leaves no event behind.  (A seq that is *)
(* no integer stops every bake.)                                           *)
InboxDrains ==
  ~AnySloppy =>
    /\ receiver = "serve" => counted < Threshold /\ (kills = 0 => counted = Len(inbox))
    /\ receiver = "down" /\ closing => inbox = <<>>

(* The four of them: from a page to a run nothing is lost, doubled or      *)
(* forgotten that the code does not give away.                             *)
RumKeepsEvents == EventsConserved /\ ReportedOnce /\ SummaryAgrees /\ InboxDrains
=============================================================================
