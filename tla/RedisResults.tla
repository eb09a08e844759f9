---------------------------- MODULE RedisResults ----------------------------
(***************************************************************************)
(* RedisCoordinator.results (redis_backend.py:237-255): the result list is *)
(* read by popping each entry from its head and pushing it back, one Redis *)
(* command at a time, while workers push new results and other readers     *)
(* rotate the same list.                                                   *)
(***************************************************************************)
EXTENDS Naturals, Sequences, SequencesExt

CONSTANTS Result, Reader, NoResult,
          MaxReads,    \* bound: calls of results() that may start
          MaxCrashes   \* bound: readers that may die in mid-call

ASSUME ResultsAssumption ==
  NoResult \notin Result /\ MaxReads \in Nat /\ MaxCrashes \in Nat

VARIABLES list,      \* the Redis list
          recorded,  \* the results whose complete() has pushed them
          reader,    \* the locals of a call: pc, out, raw; seen = Len(out)
          atStart,   \* recorded, when the call of a reader began
          alone,     \* no other call has overlapped the call of a reader
          answer,    \* what the last call of a reader returned
          reads, crashes

vars == <<list, recorded, reader, atStart, alone, answer, reads, crashes>>

Idle == [pc |-> "idle", out |-> <<>>, raw |-> NoResult]

TypeOK ==
  /\ list \in Seq(Result)
  /\ recorded \subseteq Result
  /\ reader \in [Reader -> [pc: {"idle", "llen", "lpop", "rpush", "done"},
                            out: Seq(Result), raw: Result \cup {NoResult}]]
  /\ atStart \in [Reader -> SUBSET Result]
  /\ alone \in [Reader -> BOOLEAN]
  /\ answer \in [Reader -> Seq(Result)]
  /\ reads \in 0..MaxReads /\ crashes \in 0..MaxCrashes

Init ==
  /\ list = <<>>
  /\ recorded = {}
  /\ reader = [r \in Reader |-> Idle]
  /\ atStart = [r \in Reader |-> {}]
  /\ alone = [r \in Reader |-> TRUE]
  /\ answer = [r \in Reader |-> <<>>]
  /\ reads = 0 /\ crashes = 0

\* The rpush of a complete().
Record(x) ==
  /\ x \notin recorded
  /\ recorded' = recorded \cup {x}
  /\ list' = Append(list, x)
  /\ UNCHANGED <<reader, atStart, alone, answer, reads, crashes>>

Running(r) == reader[r].pc \in {"llen", "lpop", "rpush"}

Call(r) ==
  /\ reads < MaxReads
  /\ reader[r].pc \in {"idle", "done"}
  /\ reader' = [reader EXCEPT ![r] = [Idle EXCEPT !.pc = "llen"]]
  /\ atStart' = [atStart EXCEPT ![r] = recorded]
  /\ LET overlap == \E q \in Reader \ {r} : Running(q)
     IN alone' = [q \in Reader |-> IF q = r \/ Running(q) THEN ~overlap /\ q = r ELSE alone[q]]
  /\ answer' = [answer EXCEPT ![r] = <<>>]
  /\ reads' = reads + 1
  /\ UNCHANGED <<list, recorded, crashes>>

Local == UNCHANGED <<recorded, atStart, alone, reads, crashes>>

Return(r) ==
  /\ reader' = [reader EXCEPT ![r] = [Idle EXCEPT !.pc = "done"]]
  /\ answer' = [answer EXCEPT ![r] = reader[r].out]
  /\ UNCHANGED list /\ Local

More_OffByOne_Mutant(r) == Len(reader[r].out) + 1 < Len(list)

\* The loop condition, seen < llen.
More(r) == Len(reader[r].out) < Len(list)

TestLen(r) ==
  /\ reader[r].pc = "llen"
  /\ \/ /\ More(r)
        /\ reader' = [reader EXCEPT ![r].pc = "lpop"]
        /\ UNCHANGED <<list, answer>> /\ Local
     \/ ~More(r) /\ Return(r)

LPop_NoBreak_Mutant(r) ==
  LET raw == IF list = <<>> THEN NoResult ELSE Head(list) IN
  /\ reader[r].pc = "lpop"
  /\ list' = IF list = <<>> THEN list ELSE Tail(list)
  /\ reader' = [reader EXCEPT ![r] = [pc |-> "rpush", out |-> Append(@.out, raw), raw |-> raw]]
  /\ UNCHANGED answer /\ Local

LPop_NoSeen_Mutant(r) ==
  /\ reader[r].pc = "lpop"
  /\ \/ /\ list # <<>>
        /\ list' = Tail(list)
        /\ reader' = [reader EXCEPT ![r] = [@ EXCEPT !.pc = "rpush", !.raw = Head(list)]]
        /\ UNCHANGED answer /\ Local
     \/ list = <<>> /\ Return(r)

LPop(r) ==
  /\ reader[r].pc = "lpop"
  /\ \/ /\ list # <<>>
        /\ list' = Tail(list)
        /\ reader' = [reader EXCEPT ![r] = [pc |-> "rpush", out |-> Append(@.out, Head(list)),
                                            raw |-> Head(list)]]
        /\ UNCHANGED answer /\ Local
     \/ list = <<>> /\ Return(r)

RPush_Twice_Mutant(r) ==
  /\ reader[r].pc = "rpush"
  /\ list' = list \o <<reader[r].raw, reader[r].raw>>
  /\ reader' = [reader EXCEPT ![r].pc = "llen", ![r].raw = NoResult]
  /\ UNCHANGED answer /\ Local

RPush(r) ==
  /\ reader[r].pc = "rpush"
  /\ list' = Append(list, reader[r].raw)
  /\ reader' = [reader EXCEPT ![r].pc = "llen", ![r].raw = NoResult]
  /\ UNCHANGED answer /\ Local

\* The process of a reader dies with an entry in its hands, or without one.
Crash(r) ==
  /\ crashes < MaxCrashes
  /\ Running(r)
  /\ reader' = [reader EXCEPT ![r] = Idle]
  /\ crashes' = crashes + 1
  /\ UNCHANGED <<list, recorded, atStart, alone, answer, reads>>

Next ==
  \/ \E x \in Result : Record(x)
  \/ \E r \in Reader : Call(r) \/ TestLen(r) \/ LPop(r) \/ RPush(r) \/ Crash(r)

Advance(r) == TestLen(r) \/ LPop(r) \/ RPush(r)

Spec == Init /\ [][Next]_vars

LiveSpec == Spec /\ \A r \in Reader : WF_vars(Advance(r))

----------------------------------------------------------------------------
Held == {r \in Reader : reader[r].raw # NoResult}

(* A recorded result is never lost or duplicated by reading, however many  *)
(* readers rotate the list: it is exactly once in the list or in the hands *)
(* of exactly one reader.  (A reader that dies between lpop and rpush      *)
(* takes the only copy with it, hence the premise.)                        *)
ResultsConserved ==
  crashes = 0 => \A x \in recorded :
    LET inList == {i \in DOMAIN list : list[i] = x}
        inHand == {r \in Held : reader[r].raw = x}
    IN \/ \E i \in DOMAIN list : inList = {i} /\ inHand = {}
       \/ \E r \in Reader : inHand = {r} /\ inList = {}

(* A call that no other call overlaps returns every result recorded when   *)
(* it began, though workers push more while it rotates the list.           *)
LoneAnswerIsComplete ==
  \A r \in Reader : crashes = 0 /\ reader[r].pc = "done" /\ alone[r] =>
    atStart[r] \subseteq ToSet(answer[r])

(* However calls overlap, reading neither loses nor invents a result.      *)
ReadingLosesNothing == ResultsConserved /\ LoneAnswerIsComplete

(* A call whose reader lives returns, though the length that bounds its    *)
(* loop grows with every push.                                             *)
CallReturns == \A r \in Reader : Running(r) ~> ~Running(r)
=============================================================================
