----------------------- MODULE RedisCoordinatorProofs -----------------------
(* Proofs about the Redis coordinator, for any tasks, workers, lease       *)
(* lengths and bounds.  Up to the first expiry it keeps the promises of    *)
(* the protocol; what breaks them later is a run of TLC.                   *)
EXTENDS RedisCoordinator, FiniteSetTheorems, TLAPS

----------------------------------------------------------------------------
(* Types.  A method in progress has the locals its next command reads.     *)
ReclaimPc == {"reclaim", "reclaim_delete", "reclaim_hset", "reclaim_rpush"}
HandPc == {"enqueue_hset", "enqueue_rpush", "hgetall", "set_nx", "requeue", "claim_hset"}
ReportPc == {"complete_hset", "complete_zrem", "complete_delete", "complete_rpush",
             "fail_hset", "fail_zrem", "fail_delete"}

Locals == [pc: Pc, task: Task \cup {NoTask}, expired: Seq(Task), expires: Nat]

LocalsFit(l) ==
  /\ l.pc \in ReclaimPc <=> l.expired # <<>>
  /\ l.pc \in HandPc \cup ReportPc \cup {"claim_zadd"} => l.task \in Task

ServerOK ==
  /\ status \in [Task -> {"absent", "pending", "in_progress", "completed", "failed"}]
  /\ owner \in [Task -> Worker \cup {NoWorker}]
  /\ queue \in Seq(Task)
  /\ lease_holder \in [Task -> Worker \cup {NoWorker}]
  /\ lease_end \in [Task -> Nat]
  /\ index \in [Task -> Nat]
  /\ results \in Seq([task: Task, worker: Worker])

ClientsFit == \A c \in Client : LocalsFit(client[c])
BeatsFit == \A w \in Worker : beat[w].pc # "idle" => beat[w].task \in Task

TypeInv == TypeOK /\ ClientsFit /\ BeatsFit

(* What the next step of one client leaves alone.                          *)
OnlyClient(c, l) == client' = [client EXCEPT ![c] = l]

LEMMA ServerIsTyped == TypeOK => ServerOK
BY DEF TypeOK, ServerOK

(* A step that gives one client fitting locals and keeps the server typed  *)
(* keeps the types.                                                        *)
LEMMA ClientStep ==
  ASSUME TypeInv, NEW c \in Client, NEW l \in Locals, LocalsFit(l), OnlyClient(c, l),
         ServerOK', UNCHANGED <<now, beat, crashes>>,
         leases' \in [Worker -> [Task -> Nat]]
  PROVE  TypeInv'
<1>1. client' \in [Client -> Locals]
  BY DEF TypeInv, TypeOK, OnlyClient, Locals
<1>2. ClientsFit'
  BY DEF TypeInv, TypeOK, OnlyClient, ClientsFit
<1>3. BeatsFit'
  BY DEF TypeInv, BeatsFit
<1> QED BY <1>1, <1>2, <1>3 DEF TypeInv, TypeOK, ServerOK, Locals

(* Each command keeps the server typed.                                    *)
LEMMA CommandsKeepTypes ==
  ASSUME ServerOK, RedisAssumption, now \in Nat, NEW t \in Task, NEW w \in Worker
  PROVE  /\ \A o \in Worker \cup {NoWorker}, s \in {"absent", "pending", "in_progress", "completed", "failed"} :
              HSet(t, s, o) => ServerOK'
         /\ \A score \in Nat : ZAdd(t, score) => ServerOK'
         /\ ZRem(t) => ServerOK'
         /\ RPush(t) => ServerOK'
         /\ DeleteLease(t) => ServerOK'
         /\ \A seconds \in Nat : SetLease(t, w, seconds) => ServerOK'
         /\ UNCHANGED server => ServerOK'
<1> USE DEF ServerOK, hash, leaseKey
<1>1. \A o \in Worker \cup {NoWorker}, s \in {"absent", "pending", "in_progress", "completed", "failed"} :
              HSet(t, s, o) => ServerOK'
  BY DEF HSet
<1>2. \A score \in Nat : ZAdd(t, score) => ServerOK'
  BY DEF ZAdd
<1>3. ZRem(t) => ServerOK'
  BY <1>2 DEF ZRem
<1>4. RPush(t) => ServerOK'
  BY DEF RPush
<1>5. DeleteLease(t) => ServerOK'
  BY DEF DeleteLease
<1>6. \A seconds \in Nat : SetLease(t, w, seconds) => ServerOK'
  BY DEF SetLease
<1>7. UNCHANGED server => ServerOK'
  BY DEF server
<1> QED BY <1>1, <1>2, <1>3, <1>4, <1>5, <1>6, <1>7

(* What a scan of the index brings is a list of tasks.                     *)
LEMMA ScanIsSeq ==
  ASSUME RedisAssumption, NEW p \in ZRangeByScore(Due)
  PROVE  p \in Seq(Task) /\ (Due = {} => p = <<>>)
<1>1. IsFiniteSet(Due) /\ Due \subseteq Task
  BY FS_Subset DEF RedisAssumption, Due
<1>2. Cardinality(Due) \in Nat /\ (Due = {} => Cardinality(Due) = 0)
  BY <1>1, FS_CardinalityType, FS_EmptySet
<1>3. p \in [1..Cardinality(Due) -> Due]
  BY DEF ZRangeByScore
<1> QED BY <1>1, <1>2, <1>3

(* A step of a method to its next command, its return, and its start.      *)
LEMMA ControlFits ==
  ASSUME TypeInv, NEW c \in Client
  PROVE  /\ \A from, to \in Pc :
              Step(c, from, to) =>
                OnlyClient(c, [client[c] EXCEPT !.pc = to]) /\ [client[c] EXCEPT !.pc = to] \in Locals
         /\ \A from \in Pc : Finish(c, from) => OnlyClient(c, Idle)
         /\ \A pc \in Pc, t \in Task :
              Start(c, pc, t) =>
                /\ OnlyClient(c, [client[c] EXCEPT !.pc = pc, !.task = t])
                /\ [client[c] EXCEPT !.pc = pc, !.task = t] \in Locals
         /\ Idle \in Locals /\ LocalsFit(Idle)
         /\ client[c] \in Locals /\ LocalsFit(client[c])
<1>1. client \in [Client -> Locals]
  BY DEF TypeInv, TypeOK, Locals
<1>2. \A from, to \in Pc :
        Step(c, from, to) =>
          OnlyClient(c, [client[c] EXCEPT !.pc = to]) /\ [client[c] EXCEPT !.pc = to] \in Locals
  BY <1>1 DEF Step, OnlyClient, Locals
<1>3. \A from \in Pc : Finish(c, from) => OnlyClient(c, Idle)
  BY DEF Finish, OnlyClient
<1>4. \A pc \in Pc, t \in Task :
        Start(c, pc, t) =>
          /\ OnlyClient(c, [client[c] EXCEPT !.pc = pc, !.task = t])
          /\ [client[c] EXCEPT !.pc = pc, !.task = t] \in Locals
  <2> SUFFICES ASSUME NEW pc \in Pc, NEW t \in Task, Start(c, pc, t)
               PROVE  /\ OnlyClient(c, [client[c] EXCEPT !.pc = pc, !.task = t])
                      /\ [client[c] EXCEPT !.pc = pc, !.task = t] \in Locals
    OBVIOUS
  <2>1. OnlyClient(c, [client[c] EXCEPT !.pc = pc, !.task = t])
    BY <1>1 DEF Start, OnlyClient
  <2>2. [client[c] EXCEPT !.pc = pc, !.task = t] \in Locals
    BY <1>1 DEF Locals
  <2> QED BY <2>1, <2>2
<1>5. Idle \in Locals /\ LocalsFit(Idle)
  BY DEF Idle, Locals, LocalsFit, Pc, ReclaimPc, HandPc, ReportPc
<1> QED BY <1>1, <1>2, <1>3, <1>4, <1>5 DEF TypeInv, ClientsFit

LEMMA Given ==
  ASSUME TypeInv, NEW c \in Client
  PROVE  /\ ServerOK /\ now \in Nat
         /\ client \in [Client -> Locals] /\ client[c] \in Locals /\ LocalsFit(client[c])
         /\ Idle \in Locals /\ LocalsFit(Idle)
         /\ leases \in [Worker -> [Task -> Nat]]
<1>1. ServerOK
  BY ServerIsTyped DEF TypeInv
<1>2. now \in Nat /\ client \in [Client -> Locals] /\ leases \in [Worker -> [Task -> Nat]]
  BY RedisAssumption DEF TypeInv, TypeOK, Locals, RedisAssumption
<1> QED BY <1>1, <1>2, ControlFits

LEMMA EnqueueKeepsTypes ==
  ASSUME TypeInv, NEW p \in Producer, Enqueue(p)
  PROVE  TypeInv'
<1> USE RedisAssumption
<1> DEFINE l == client[p]
<1>0. /\ ServerOK /\ p \in Client /\ l \in Locals /\ LocalsFit(l) /\ now \in Nat
      /\ Idle \in Locals /\ LocalsFit(Idle)
      /\ leases \in [Worker -> [Task -> Nat]]
  <2>1. p \in Client
    BY DEF Client
  <2> QED BY <2>1, Given
<1>1. ASSUME NEW t \in Task, EnqueueCheck(p, t) PROVE TypeInv'
  <2> DEFINE m == [l EXCEPT !.pc = "enqueue_hset", !.task = t]
  <2>1. OnlyClient(p, m) /\ m \in Locals
    BY <1>0, <1>1, ControlFits DEF EnqueueCheck, Pc
  <2>2. LocalsFit(m)
    BY <1>0, <1>1 DEF EnqueueCheck, Start, LocalsFit, Locals, ReclaimPc, HandPc, ReportPc
  <2>3. ServerOK' /\ UNCHANGED <<now, beat, crashes, leases>>
    BY <1>0, <1>1 DEF EnqueueCheck, Start, Others, server, hash, leaseKey, ServerOK
  <2> QED BY <1>0, <2>1, <2>2, <2>3, ClientStep
<1>2. CASE EnqueueHSet(p)
  <2> DEFINE m == [l EXCEPT !.pc = "enqueue_rpush"]
  <2>1. OnlyClient(p, m) /\ m \in Locals
    BY <1>0, <1>2, ControlFits DEF EnqueueHSet, Pc
  <2>2. LocalsFit(m) /\ l.task \in Task
    BY <1>0, <1>2 DEF EnqueueHSet, Step, LocalsFit, Locals, ReclaimPc, HandPc, ReportPc
  <2>3. ServerOK' /\ UNCHANGED <<now, beat, crashes, leases>>
    BY <1>0, <1>2, <2>2 DEF EnqueueHSet, Step, Others, HSet, leaseKey, ServerOK
  <2> QED BY <1>0, <2>1, <2>2, <2>3, ClientStep
<1>3. CASE EnqueuePush(p)
  <2>1. OnlyClient(p, Idle) /\ l.task \in Task
    BY <1>0, <1>3, ControlFits DEF EnqueuePush, Finish, Pc, LocalsFit, HandPc
  <2>2. ServerOK' /\ UNCHANGED <<now, beat, crashes, leases>>
    BY <1>0, <1>3, <2>1 DEF EnqueuePush, Finish, Others, RPush, hash, leaseKey, ServerOK
  <2> QED BY <1>0, <2>1, <2>2, ClientStep
<1> QED BY <1>1, <1>2, <1>3 DEF Enqueue

(* The commands of a worker on the task in its hands: the server stays     *)
(* typed, and the next locals fit.                                         *)
LEMMA ReclaimKeepsTypes ==
  ASSUME TypeInv, NEW w \in Worker, ClaimScan(w) \/ Reclaim(w)
  PROVE  TypeInv'
<1> USE RedisAssumption
<1> DEFINE l == client[w]
<1>0. /\ ServerOK /\ w \in Client /\ l \in Locals /\ LocalsFit(l) /\ now \in Nat
      /\ client \in [Client -> Locals] /\ leases \in [Worker -> [Task -> Nat]]
  <2>1. w \in Client
    BY DEF Client
  <2> QED BY <2>1, Given
<1>1. ASSUME l.pc \in ReclaimPc
      PROVE  /\ Head(l.expired) \in Task /\ Tail(l.expired) \in Seq(Task)
             /\ l.expired \in Seq(Task) /\ l.expired # <<>>
  BY <1>0, <1>1 DEF LocalsFit, Locals
<1>2. CASE ClaimScan(w)
  <2>1. PICK p \in ZRangeByScore(Due) :
          client' = [client EXCEPT ![w].expired = p, ![w].pc = AfterReclaim(p)]
    BY <1>2 DEF ClaimScan
  <2> DEFINE m == [l EXCEPT !.expired = p, !.pc = AfterReclaim(p)]
  <2>2. p \in Seq(Task)
    BY ScanIsSeq
  <2>3. OnlyClient(w, m) /\ m \in Locals /\ LocalsFit(m)
    BY <1>0, <1>2, <2>1, <2>2
       DEF ClaimScan, OnlyClient, AfterReclaim, LocalsFit, Locals, Pc, ReclaimPc, HandPc, ReportPc
  <2>4. ServerOK' /\ UNCHANGED <<now, beat, crashes, leases>>
    BY <1>0, <1>2 DEF ClaimScan, Others, server, hash, leaseKey, ServerOK
  <2> QED BY <1>0, <2>3, <2>4, ClientStep
<1>3. CASE ReclaimZRem(w) \/ ReclaimDelete(w) \/ ReclaimHSet(w)
  <2>1. PICK from, to \in ReclaimPc : Step(w, from, to)
    BY <1>3 DEF ReclaimZRem, ReclaimDelete, ReclaimHSet, ReclaimPc
  <2> DEFINE m == [l EXCEPT !.pc = to]
  <2>2. l.pc \in ReclaimPc /\ OnlyClient(w, m) /\ m \in Locals /\ UNCHANGED <<now, beat, crashes, leases>>
    <3>1. l.pc \in ReclaimPc /\ UNCHANGED <<now, beat, crashes, leases>>
      BY <2>1 DEF Step, Others
    <3>2. from \in Pc /\ to \in Pc
      BY DEF Pc, ReclaimPc
    <3>3. OnlyClient(w, m) /\ m \in Locals
      BY <1>0, <2>1, <3>2, ControlFits
    <3> QED BY <3>1, <3>3
  <2>3. LocalsFit(m)
    <3>1. m.pc = to /\ m.expired = l.expired /\ l.expired # <<>>
      BY <1>0, <1>1, <2>2 DEF Locals
    <3> HIDE DEF m
    <3> QED BY <3>1 DEF LocalsFit, ReclaimPc, HandPc, ReportPc
  <2>4. ServerOK'
    <3>1. Reclaimed(w) \in Task
      BY <1>1, <2>2 DEF Reclaimed
    <3> QED BY <1>0, <1>3, <3>1, CommandsKeepTypes DEF ReclaimZRem, ReclaimDelete, ReclaimHSet
  <2> QED BY <1>0, <2>2, <2>3, <2>4, ClientStep
<1>4. CASE ReclaimPush(w)
  <2> DEFINE rest == Tail(l.expired)
             m == [l EXCEPT !.expired = rest, !.pc = AfterReclaim(rest)]
  <2>1. l.pc \in ReclaimPc
    BY <1>4 DEF ReclaimPush, ReclaimPc
  <2>2. OnlyClient(w, m) /\ m \in Locals /\ LocalsFit(m)
    BY <1>0, <1>1, <1>4, <2>1
       DEF ReclaimPush, OnlyClient, AfterReclaim, LocalsFit, Locals, Pc, ReclaimPc, HandPc, ReportPc
  <2>3. ServerOK' /\ UNCHANGED <<now, beat, crashes, leases>>
    <3>1. Reclaimed(w) \in Task
      BY <1>1, <2>1 DEF Reclaimed
    <3>2. ServerOK'
      BY <1>0, <1>4, <3>1, CommandsKeepTypes DEF ReclaimPush
    <3> QED BY <1>4, <3>2 DEF ReclaimPush, Others
  <2> QED BY <1>0, <2>2, <2>3, ClientStep
<1> QED BY <1>2, <1>3, <1>4 DEF Reclaim

ClaimRest(w) ==
  \/ ClaimPop(w) \/ ClaimNone(w) \/ ClaimRead(w) \/ ClaimSkip(w) \/ SetNx(w) \/ SetNxLost(w)
  \/ ClaimRequeue(w) \/ ClaimHSet(w) \/ ClaimZAdd(w)

LEMMA ClaimKeepsTypes ==
  ASSUME TypeInv, NEW w \in Worker, ClaimRest(w)
  PROVE  TypeInv'
<1> USE RedisAssumption
<1> DEFINE l == client[w]
<1>0. /\ ServerOK /\ w \in Client /\ l \in Locals /\ LocalsFit(l) /\ now \in Nat
      /\ client \in [Client -> Locals] /\ Idle \in Locals /\ LocalsFit(Idle)
      /\ leases \in [Worker -> [Task -> Nat]]
  <2>1. w \in Client
    BY DEF Client
  <2> QED BY <2>1, Given
<1>1. CASE ClaimPop(w)
  <2> DEFINE m == [l EXCEPT !.pc = "hgetall", !.task = Head(queue)]
  <2>1. Head(queue) \in Task /\ Tail(queue) \in Seq(Task)
    BY <1>0, <1>1 DEF ClaimPop, ServerOK
  <2>2. OnlyClient(w, m) /\ m \in Locals /\ LocalsFit(m)
    BY <1>0, <1>1, <2>1 DEF ClaimPop, OnlyClient, LocalsFit, Locals, Pc, ReclaimPc, HandPc, ReportPc
  <2>3. ServerOK' /\ UNCHANGED <<now, beat, crashes, leases>>
    BY <1>0, <1>1, <2>1 DEF ClaimPop, Others, hash, leaseKey, ServerOK
  <2> QED BY <1>0, <2>2, <2>3, ClientStep
<1>2. CASE ClaimNone(w)
  <2>1. OnlyClient(w, Idle)
    BY <1>0, <1>2, ControlFits DEF ClaimNone, Pc
  <2>2. ServerOK' /\ UNCHANGED <<now, beat, crashes, leases>>
    BY <1>0, <1>2 DEF ClaimNone, Finish, Others, server, hash, leaseKey, ServerOK
  <2> QED BY <1>0, <2>1, <2>2, ClientStep
<1>3. CASE ClaimRead(w)
  <2> DEFINE m == [l EXCEPT !.pc = "set_nx", !.expires = now + LeaseSeconds]
  <2>1. OnlyClient(w, m) /\ m \in Locals /\ LocalsFit(m)
    <3>1. l.task \in Task /\ l.expired = <<>>
      BY <1>0, <1>3 DEF ClaimRead, LocalsFit, Locals, ReclaimPc, HandPc
    <3>2. now + LeaseSeconds \in Nat
      BY <1>0
    <3>3. m \in Locals
      BY <1>0, <3>2 DEF Locals, Pc
    <3>4. m.pc = "set_nx" /\ m.expired = <<>> /\ m.task = l.task
      BY <1>0, <3>1 DEF Locals
    <3>5. LocalsFit(m)
      BY <3>1, <3>4 DEF LocalsFit, ReclaimPc
    <3>6. OnlyClient(w, m)
      BY <1>0, <1>3 DEF ClaimRead, OnlyClient
    <3> QED BY <3>3, <3>5, <3>6
  <2>2. ServerOK' /\ UNCHANGED <<now, beat, crashes, leases>>
    BY <1>0, <1>3 DEF ClaimRead, Others, server, hash, leaseKey, ServerOK
  <2> QED BY <1>0, <2>1, <2>2, ClientStep
<1>4. CASE ClaimSkip(w)
  <2> DEFINE m == [l EXCEPT !.pc = "lpop", !.task = NoTask]
  <2>1. OnlyClient(w, m) /\ m \in Locals /\ LocalsFit(m)
    BY <1>0, <1>4 DEF ClaimSkip, OnlyClient, LocalsFit, Locals, Pc, ReclaimPc, HandPc, ReportPc
  <2>2. ServerOK' /\ UNCHANGED <<now, beat, crashes, leases>>
    BY <1>0, <1>4 DEF ClaimSkip, Others, server, hash, leaseKey, ServerOK
  <2> QED BY <1>0, <2>1, <2>2, ClientStep
<1>5. CASE SetNx(w) \/ SetNxLost(w) \/ ClaimHSet(w)
  <2>1. PICK from \in HandPc, to \in HandPc \cup {"claim_zadd"} : Step(w, from, to)
    BY <1>5 DEF SetNx, SetNxLost, ClaimHSet, HandPc
  <2> DEFINE m == [l EXCEPT !.pc = to]
  <2>a. from \in Pc /\ to \in Pc
    BY DEF Pc, HandPc
  <2>b. OnlyClient(w, m) /\ m \in Locals
    BY <1>0, <2>1, <2>a, ControlFits
  <2>2. l.task \in Task /\ OnlyClient(w, m) /\ m \in Locals /\ UNCHANGED <<now, beat, crashes, leases>>
    BY <1>0, <2>1, <2>b DEF Step, Others, LocalsFit
  <2>3. LocalsFit(m)
    BY <1>0, <2>1, <2>2 DEF Step, LocalsFit, Locals, ReclaimPc, HandPc, ReportPc
  <2>4. ServerOK'
    <3>1. CASE SetNx(w)
      BY <1>0, <2>2, <3>1, CommandsKeepTypes DEF SetNx
    <3>2. CASE SetNxLost(w)
      BY <1>0, <2>2, <3>2, CommandsKeepTypes DEF SetNxLost
    <3>3. CASE ClaimHSet(w)
      BY <1>0, <2>2, <3>3, CommandsKeepTypes DEF ClaimHSet
    <3> QED BY <1>5, <3>1, <3>2, <3>3
  <2> QED BY <1>0, <2>2, <2>3, <2>4, ClientStep
<1>6. CASE ClaimRequeue(w)
  <2>1. OnlyClient(w, Idle) /\ l.task \in Task
    BY <1>0, <1>6, ControlFits DEF ClaimRequeue, Finish, Pc, LocalsFit, HandPc
  <2>2. ServerOK' /\ UNCHANGED <<now, beat, crashes, leases>>
    BY <1>0, <1>6, <2>1 DEF ClaimRequeue, Finish, Others, RPush, hash, leaseKey, ServerOK
  <2> QED BY <1>0, <2>1, <2>2, ClientStep
<1>7. CASE ClaimZAdd(w)
  <2>1. OnlyClient(w, Idle) /\ l.task \in Task /\ l.expires \in Nat
    BY <1>0, <1>7 DEF ClaimZAdd, OnlyClient, LocalsFit, Locals
  <2>2. /\ ServerOK' /\ UNCHANGED <<now, beat, crashes>>
        /\ leases' \in [Worker -> [Task -> Nat]]
    BY <1>0, <1>7, <2>1 DEF ClaimZAdd, ZAdd, hash, leaseKey, ServerOK
  <2> QED BY <1>0, <2>1, <2>2, ClientStep
<1> QED BY <1>1, <1>2, <1>3, <1>4, <1>5, <1>6, <1>7 DEF ClaimRest

LEMMA ReportKeepsTypes ==
  ASSUME TypeInv, NEW w \in Worker, Complete(w) \/ Fail(w)
  PROVE  TypeInv'
<1> USE RedisAssumption
<1> DEFINE l == client[w]
<1>0. /\ ServerOK /\ w \in Client /\ l \in Locals /\ LocalsFit(l) /\ now \in Nat
      /\ client \in [Client -> Locals] /\ Idle \in Locals /\ LocalsFit(Idle)
      /\ leases \in [Worker -> [Task -> Nat]]
  <2>1. w \in Client
    BY DEF Client
  <2> QED BY <2>1, Given
<1>1. ASSUME NEW t \in Task, CompleteCheck(w, t) \/ FailCheck(w, t) PROVE TypeInv'
  <2>1. PICK pc \in {"complete_hset", "fail_hset"} : Start(w, pc, t)
    BY <1>1 DEF CompleteCheck, FailCheck
  <2> DEFINE m == [l EXCEPT !.pc = pc, !.task = t]
  <2>2. OnlyClient(w, m) /\ m \in Locals
    BY <1>0, <2>1, ControlFits DEF Pc
  <2>3. LocalsFit(m)
    BY <1>0, <2>1 DEF Start, LocalsFit, Locals, ReclaimPc, HandPc, ReportPc
  <2>4. ServerOK' /\ UNCHANGED <<now, beat, crashes, leases>>
    BY <1>0, <1>1, <2>1 DEF CompleteCheck, FailCheck, Start, Others, server, hash, leaseKey, ServerOK
  <2> QED BY <1>0, <2>2, <2>3, <2>4, ClientStep
<1>2. CASE CompleteHSet(w) \/ CompleteZRem(w) \/ CompleteDelete(w) \/ FailHSet(w) \/ FailZRem(w)
  <2>1. PICK from \in ReportPc, to \in ReportPc : Step(w, from, to)
    BY <1>2 DEF CompleteHSet, CompleteZRem, CompleteDelete, FailHSet, FailZRem, ReportPc
  <2> DEFINE m == [l EXCEPT !.pc = to]
  <2>2. from \in Pc /\ to \in Pc
    BY DEF Pc, ReportPc
  <2>3. OnlyClient(w, m) /\ m \in Locals
    BY <1>0, <2>1, <2>2, ControlFits
  <2>4. l.task \in Task /\ UNCHANGED <<now, beat, crashes, leases>>
    BY <1>0, <2>1 DEF Step, Others, LocalsFit
  <2>5. LocalsFit(m)
    BY <1>0, <2>1, <2>4 DEF Step, LocalsFit, Locals, ReclaimPc, HandPc, ReportPc
  <2>6. ServerOK'
    <3>1. owner[l.task] \in Worker \cup {NoWorker}
      BY <1>0, <2>4 DEF ServerOK
    <3>2. CASE CompleteHSet(w)
      BY <1>0, <2>4, <3>1, <3>2, CommandsKeepTypes DEF CompleteHSet, Keep
    <3>3. CASE FailHSet(w)
      BY <1>0, <2>4, <3>1, <3>3, CommandsKeepTypes DEF FailHSet, Keep
    <3>4. CASE CompleteZRem(w) \/ FailZRem(w)
      BY <1>0, <2>4, <3>4, CommandsKeepTypes DEF CompleteZRem, FailZRem
    <3>5. CASE CompleteDelete(w)
      BY <1>0, <2>4, <3>5, CommandsKeepTypes DEF CompleteDelete
    <3> QED BY <1>2, <3>2, <3>3, <3>4, <3>5
  <2> QED BY <1>0, <2>3, <2>4, <2>5, <2>6, ClientStep
<1>3. CASE CompletePush(w) \/ FailDelete(w)
  <2>1. PICK from \in ReportPc : Finish(w, from)
    BY <1>3 DEF CompletePush, FailDelete, ReportPc
  <2>2. from \in Pc
    BY DEF Pc, ReportPc
  <2>3. OnlyClient(w, Idle) /\ l.task \in Task /\ UNCHANGED <<now, beat, crashes, leases>>
    BY <1>0, <2>1, <2>2, ControlFits DEF Finish, Others, LocalsFit
  <2>4. ServerOK'
    <3>1. CASE CompletePush(w)
      BY <1>0, <2>3, <3>1 DEF CompletePush, hash, leaseKey, ServerOK
    <3>2. CASE FailDelete(w)
      BY <1>0, <2>3, <3>2, CommandsKeepTypes DEF FailDelete
    <3> QED BY <1>3, <3>1, <3>2
  <2> QED BY <1>0, <2>3, <2>4, ClientStep
<1> QED BY <1>1, <1>2, <1>3 DEF Complete, Fail

LEMMA HeartbeatKeepsTypes ==
  ASSUME TypeInv, NEW w \in Worker, Heartbeat(w)
  PROVE  TypeInv'
<1> USE RedisAssumption
<1> DEFINE Beats == [pc: {"idle", "status", "zadd", "set"}, task: Task \cup {NoTask}, expires: Nat]
<1>0. /\ ServerOK /\ now \in Nat /\ beat \in [Worker -> Beats]
      /\ beat[w] \in Beats /\ (beat[w].pc # "idle" => beat[w].task \in Task)
      /\ IdleBeat \in Beats /\ now + HeartbeatSeconds \in Nat
  BY ServerIsTyped DEF TypeInv, TypeOK, BeatsFit, IdleBeat
<1>1. ASSUME NEW b \in Beats, b.pc # "idle" => b.task \in Task, beat' = [beat EXCEPT ![w] = b],
             ServerOK', UNCHANGED <<now, client, leases, crashes>>
      PROVE  TypeInv'
  <2>1. beat' \in [Worker -> Beats] /\ BeatsFit'
    BY <1>0, <1>1 DEF BeatsFit, TypeInv
  <2>2. ClientsFit'
    BY <1>1 DEF TypeInv, ClientsFit
  <2> QED BY <1>1, <2>1, <2>2 DEF TypeInv, TypeOK, ServerOK
<1>2. ASSUME NEW t \in Task, BeatOwner(w, t) PROVE TypeInv'
  <2> DEFINE b == [pc |-> "status", task |-> t, expires |-> 0]
  <2>1. b \in Beats /\ b.task \in Task
    OBVIOUS
  <2>2. ServerOK' /\ UNCHANGED <<now, client, leases, crashes>>
    BY <1>0, <1>2 DEF BeatOwner, server, hash, leaseKey, ServerOK
  <2> QED BY <1>1, <1>2, <2>1, <2>2 DEF BeatOwner
<1>3. CASE BeatStatus(w)
  <2> DEFINE b == IF status[beat[w].task] = "in_progress"
                  THEN [beat[w] EXCEPT !.pc = "zadd", !.expires = now + HeartbeatSeconds]
                  ELSE IdleBeat
  <2>1. b \in Beats /\ (b.pc # "idle" => b.task \in Task)
    BY <1>0, <1>3 DEF BeatStatus, IdleBeat
  <2>2. ServerOK' /\ UNCHANGED <<now, client, leases, crashes>>
    BY <1>0, <1>3 DEF BeatStatus, server, hash, leaseKey, ServerOK
  <2>3. beat' = [beat EXCEPT ![w] = b]
    BY <1>0, <1>3 DEF BeatStatus
  <2> QED BY <1>1, <2>1, <2>2, <2>3
<1>4. CASE BeatZAdd(w)
  <2> DEFINE b == [beat[w] EXCEPT !.pc = "set"]
  <2>1. b \in Beats /\ (b.pc # "idle" => b.task \in Task)
    BY <1>0, <1>4 DEF BeatZAdd
  <2>2. ServerOK'
    BY <1>0, <1>4, CommandsKeepTypes DEF BeatZAdd
  <2>3. beat' = [beat EXCEPT ![w] = b] /\ UNCHANGED <<now, client, leases, crashes>>
    BY <1>0, <1>4 DEF BeatZAdd
  <2> QED BY <1>1, <2>1, <2>2, <2>3
<1>5. CASE BeatSet(w)
  <2>1. ServerOK'
    BY <1>0, <1>5, CommandsKeepTypes DEF BeatSet
  <2>2. IdleBeat.pc = "idle"
    BY DEF IdleBeat
  <2> QED BY <1>0, <1>1, <1>5, <2>1, <2>2 DEF BeatSet
<1> QED BY <1>2, <1>3, <1>4, <1>5 DEF Heartbeat

LEMMA TypeStep == TypeInv /\ [Next]_vars => TypeInv'
<1> SUFFICES ASSUME TypeInv, [Next]_vars PROVE TypeInv'
  OBVIOUS
<1>1. ASSUME NEW p \in Producer, Enqueue(p) PROVE TypeInv'
  BY <1>1, EnqueueKeepsTypes
<1>2. ASSUME NEW w \in Worker, Claim(w) PROVE TypeInv'
  BY <1>2, ReclaimKeepsTypes, ClaimKeepsTypes DEF Claim, ClaimRest
<1>3. ASSUME NEW w \in Worker, Complete(w) \/ Fail(w) PROVE TypeInv'
  BY <1>3, ReportKeepsTypes
<1>4. ASSUME NEW w \in Worker, Heartbeat(w) PROVE TypeInv'
  BY <1>4, HeartbeatKeepsTypes
<1>5. ASSUME NEW c \in Client, Crash(c) PROVE TypeInv'
  <2>1. Idle \in Locals /\ LocalsFit(Idle) /\ client \in [Client -> Locals]
    BY Given
  <2>2. client' \in [Client -> Locals] /\ ClientsFit'
    BY <1>5, <2>1 DEF Crash, ClientsFit, TypeInv
  <2>3. /\ beat' \in [Worker -> [pc: {"idle", "status", "zadd", "set"}, task: Task \cup {NoTask}, expires: Nat]]
        /\ BeatsFit'
    BY <1>5 DEF Crash, BeatsFit, IdleBeat, TypeInv, TypeOK
  <2>4. crashes' \in 0..MaxCrashes
    BY <1>5, RedisAssumption DEF Crash, TypeInv, TypeOK
  <2> QED BY <1>5, <2>2, <2>3, <2>4 DEF Crash, TypeInv, TypeOK, Locals, server, hash, leaseKey
<1>6. CASE Tick
  BY <1>6, RedisAssumption DEF Tick, TypeInv, TypeOK, ClientsFit, BeatsFit, server, hash, leaseKey
<1>7. CASE UNCHANGED vars
  BY <1>7 DEF vars, TypeInv, TypeOK, ClientsFit, BeatsFit, server, hash, leaseKey
<1> QED BY <1>1, <1>2, <1>3, <1>4, <1>5, <1>6, <1>7 DEF Next

LEMMA TypeInit == Init => TypeInv
<1> SUFFICES ASSUME Init PROVE TypeInv
  OBVIOUS
<1>1. Idle \in Locals /\ LocalsFit(Idle)
  BY DEF Idle, Locals, LocalsFit, Pc, ReclaimPc, HandPc, ReportPc
<1> QED BY <1>1, RedisAssumption
        DEF Init, TypeInv, TypeOK, ClientsFit, BeatsFit, IdleBeat, Locals

(* The server and the locals of every method have their types, however the *)
(* commands of the methods interleave and whoever dies.                    *)
THEOREM RedisTypeCorrect == Spec => []TypeOK
<1>1. TypeInv => TypeOK
  BY DEF TypeInv
<1> QED BY TypeInit, TypeStep, <1>1, PTL DEF Spec

----------------------------------------------------------------------------
(* A pending task can be popped, or a method holds it: every step of a     *)
(* client passes on what it holds.                                         *)
Holds(l, t) ==
  \/ l.task = t /\ l.pc \in {"enqueue_rpush", "hgetall", "set_nx", "requeue", "claim_hset"}
  \/ \E i \in DOMAIN l.expired : l.expired[i] = t

Queued(t) == \E i \in DOMAIN queue : queue[i] = t

(* A step of client c to the locals l strands nothing.                     *)
PassesOn(c, l) ==
  \A t \in Task : status'[t] = "pending" =>
    \/ Holds(l, t) \/ Queued(t)'
    \/ status[t] = "pending" /\ ~Holds(client[c], t) /\ ~Queued(t)

LEMMA PassingOn ==
  ASSUME TypeInv, PendingIsReachable, NEW c \in Client, NEW l, OnlyClient(c, l),
         PassesOn(c, l), crashes' = crashes
  PROVE  PendingIsReachable'
<1> SUFFICES ASSUME crashes = 0, NEW t \in Task, status'[t] = "pending"
             PROVE  Queued(t)' \/ InHand(t)'
  BY DEF PendingIsReachable, Queued
<1>1. client \in [Client -> Locals]
  BY Given
<1>2. client'[c] = l /\ \A d \in Client \ {c} : client'[d] = client[d]
  BY <1>1 DEF OnlyClient
<1>3. CASE Holds(l, t)
  BY <1>2, <1>3 DEF Holds, InHand
<1>4. CASE status[t] = "pending" /\ ~Holds(client[c], t) /\ ~Queued(t)
  <2>1. PICK d \in Client : Holds(client[d], t)
    BY <1>4 DEF PendingIsReachable, InHand, Holds, Queued
  <2>2. client'[d] = client[d]
    BY <1>2, <1>4, <2>1
  <2> QED BY <2>1, <2>2 DEF Holds, InHand
<1> QED BY <1>3, <1>4 DEF PassesOn

LEMMA PushedIsQueued ==
  ASSUME ServerOK, NEW u \in Task, RPush(u)
  PROVE  Queued(u)' /\ \A t \in Task : Queued(t) => Queued(t)'
<1>1. queue \in Seq(Task) /\ queue' = Append(queue, u)
  BY DEF RPush, ServerOK
<1>2. /\ Len(queue) + 1 \in DOMAIN queue' /\ queue'[Len(queue) + 1] = u
      /\ \A i \in DOMAIN queue : i \in DOMAIN queue' /\ queue'[i] = queue[i]
  BY <1>1
<1> QED BY <1>2 DEF Queued

LEMMA EnqueuePassesOn ==
  ASSUME TypeInv, PendingIsReachable, NEW p \in Producer, Enqueue(p)
  PROVE  PendingIsReachable'
<1> DEFINE l == client[p]
<1>0. p \in Client /\ ServerOK /\ l \in Locals /\ LocalsFit(l)
  <2>1. p \in Client
    BY DEF Client
  <2> QED BY <2>1, Given
<1>1. ASSUME NEW t \in Task, EnqueueCheck(p, t) PROVE PendingIsReachable'
  <2> DEFINE m == [l EXCEPT !.pc = "enqueue_hset", !.task = t]
  <2>1. OnlyClient(p, m)
    BY <1>0, <1>1, ControlFits DEF EnqueueCheck, Pc
  <2>2. PassesOn(p, m) /\ crashes' = crashes
    <3>1. l.pc = "idle" /\ l.expired = <<>>
      BY <1>0, <1>1 DEF EnqueueCheck, Start, LocalsFit, ReclaimPc
    <3> QED BY <1>0, <1>1, <3>1 DEF EnqueueCheck, Start, Others, server, hash, PassesOn, Holds, Queued
  <2> QED BY <1>0, <2>1, <2>2, PassingOn
<1>2. CASE EnqueueHSet(p)
  <2> DEFINE m == [l EXCEPT !.pc = "enqueue_rpush"]
  <2>1. OnlyClient(p, m)
    BY <1>0, <1>2, ControlFits DEF EnqueueHSet, Pc
  <2>2. l.pc = "enqueue_hset" /\ l.task \in Task /\ l.expired = <<>> /\ crashes' = crashes
    BY <1>0, <1>2 DEF EnqueueHSet, Step, Others, LocalsFit, ReclaimPc, HandPc
  <2>3. PassesOn(p, m)
    <3>1. \A t \in Task : t # l.task => status'[t] = status[t]
      BY <1>0, <1>2, <2>2 DEF EnqueueHSet, HSet, ServerOK
    <3>2. queue' = queue
      BY <1>2 DEF EnqueueHSet, HSet
    <3>3. m.pc = "enqueue_rpush" /\ m.task = l.task
      BY <1>0 DEF Locals
    <3> QED BY <2>2, <3>1, <3>2, <3>3 DEF PassesOn, Holds, Queued
  <2> QED BY <1>0, <2>1, <2>2, <2>3, PassingOn
<1>3. CASE EnqueuePush(p)
  <2>1. OnlyClient(p, Idle)
    BY <1>0, <1>3, ControlFits DEF EnqueuePush, Pc
  <2>2. l.pc = "enqueue_rpush" /\ l.task \in Task /\ l.expired = <<>> /\ crashes' = crashes
    BY <1>0, <1>3 DEF EnqueuePush, Finish, Others, LocalsFit, ReclaimPc, HandPc
  <2>3. PassesOn(p, Idle)
    <3>1. PICK u \in Task : u = l.task
      BY <2>2
    <3>2. Queued(u)' /\ \A t \in Task : Queued(t) => Queued(t)'
      BY <1>0, <1>3, <3>1, PushedIsQueued DEF EnqueuePush
    <3>3. status' = status
      BY <1>3 DEF EnqueuePush, RPush, hash
    <3> QED BY <2>2, <3>1, <3>2, <3>3 DEF PassesOn, Holds
  <2> QED BY <1>0, <2>1, <2>2, <2>3, PassingOn
<1> QED BY <1>1, <1>2, <1>3 DEF Enqueue

LEMMA ReclaimPassesOn ==
  ASSUME TypeInv, PendingIsReachable, NEW w \in Worker, ClaimScan(w) \/ Reclaim(w)
  PROVE  PendingIsReachable'
<1> DEFINE l == client[w]
<1>0. w \in Client /\ ServerOK /\ l \in Locals /\ LocalsFit(l) /\ client \in [Client -> Locals]
  <2>1. w \in Client
    BY DEF Client
  <2> QED BY <2>1, Given
<1>1. CASE ClaimScan(w)
  <2>1. PICK p \in ZRangeByScore(Due) :
          client' = [client EXCEPT ![w].expired = p, ![w].pc = AfterReclaim(p)]
    BY <1>1 DEF ClaimScan
  <2> DEFINE m == [l EXCEPT !.expired = p, !.pc = AfterReclaim(p)]
  <2>2. OnlyClient(w, m)
    BY <1>0, <2>1 DEF OnlyClient
  <2>3. l.pc = "idle" /\ l.expired = <<>>
    BY <1>0, <1>1 DEF ClaimScan, LocalsFit, ReclaimPc
  <2>4. PassesOn(w, m) /\ crashes' = crashes
    <3>1. UNCHANGED <<status, queue, crashes>>
      BY <1>1 DEF ClaimScan, Others, server, hash
    <3>2. \A t \in Task : ~Holds(l, t)
      BY <2>3 DEF Holds
    <3> QED BY <3>1, <3>2 DEF PassesOn, Queued
  <2> QED BY <1>0, <2>2, <2>4, PassingOn
<1>2. CASE ReclaimZRem(w) \/ ReclaimDelete(w) \/ ReclaimHSet(w)
  <2>1. PICK from, to \in ReclaimPc : Step(w, from, to)
    BY <1>2 DEF ReclaimZRem, ReclaimDelete, ReclaimHSet, ReclaimPc
  <2> DEFINE m == [l EXCEPT !.pc = to]
  <2>2. OnlyClient(w, m) /\ l.pc \in ReclaimPc
    BY <1>0, <2>1, ControlFits DEF Step, Pc, ReclaimPc
  <2>3. l.expired \in Seq(Task) /\ l.expired # <<>> /\ m.expired = l.expired /\ crashes' = crashes
    BY <1>0, <2>1, <2>2 DEF LocalsFit, Locals, Step, Others
  <2>4. queue' = queue /\ \A t \in Task : status'[t] = status[t] \/ t = Head(l.expired)
    BY <1>0, <1>2 DEF ReclaimZRem, ReclaimDelete, ReclaimHSet, Reclaimed, ZRem, ZAdd, DeleteLease, HSet,
                      hash, ServerOK
  <2>5. Holds(m, Head(l.expired)) /\ \A t \in Task : Holds(l, t) => Holds(m, t)
    BY <2>2, <2>3 DEF Holds, ReclaimPc
  <2>6. PassesOn(w, m)
    BY <2>4, <2>5 DEF PassesOn, Queued
  <2> QED BY <1>0, <2>2, <2>3, <2>6, PassingOn
<1>3. CASE ReclaimPush(w)
  <2> DEFINE rest == Tail(l.expired)
             m == [l EXCEPT !.expired = rest, !.pc = AfterReclaim(rest)]
  <2>1. OnlyClient(w, m) /\ l.pc = "reclaim_rpush" /\ crashes' = crashes
    BY <1>0, <1>3 DEF ReclaimPush, OnlyClient, Others
  <2>2. l.expired \in Seq(Task) /\ l.expired # <<>> /\ m.expired = rest
    BY <1>0, <2>1 DEF LocalsFit, Locals, ReclaimPc
  <2>3. PICK u \in Task : u = Head(l.expired)
    BY <2>2
  <2>4. Queued(u)' /\ \A t \in Task : Queued(t) => Queued(t)'
    BY <1>0, <1>3, <2>3, PushedIsQueued DEF ReclaimPush, Reclaimed
  <2>5. \A t \in Task : Holds(l, t) => t = Head(l.expired) \/ Holds(m, t)
    <3> SUFFICES ASSUME NEW t \in Task, Holds(l, t), t # Head(l.expired) PROVE Holds(m, t)
      OBVIOUS
    <3>1. PICK i \in DOMAIN l.expired : l.expired[i] = t
      BY <2>1 DEF Holds
    <3>2. i # 1 /\ i \in 1..Len(l.expired)
      BY <2>2, <3>1
    <3>3. i - 1 \in DOMAIN rest /\ rest[i - 1] = t
      BY <2>2, <3>1, <3>2
    <3> QED BY <2>2, <3>3 DEF Holds
  <2>6. status' = status
    BY <1>3 DEF ReclaimPush, RPush, hash
  <2>7. PassesOn(w, m)
    BY <2>3, <2>4, <2>5, <2>6 DEF PassesOn
  <2> QED BY <1>0, <2>1, <2>7, PassingOn
<1> QED BY <1>1, <1>2, <1>3 DEF Reclaim

LEMMA ClaimPassesOn ==
  ASSUME TypeInv, PendingIsReachable, NEW w \in Worker, ClaimRest(w)
  PROVE  PendingIsReachable'
<1> DEFINE l == client[w]
<1>0. w \in Client /\ ServerOK /\ l \in Locals /\ LocalsFit(l) /\ client \in [Client -> Locals]
  <2>1. w \in Client
    BY DEF Client
  <2> QED BY <2>1, Given
<1>1. l.pc \notin ReclaimPc /\ l.expired = <<>> /\ crashes' = crashes
  BY <1>0 DEF ClaimRest, ClaimPop, ClaimNone, ClaimRead, ClaimSkip, SetNx, SetNxLost, ClaimRequeue,
              ClaimHSet, ClaimZAdd, Step, Finish, Others, LocalsFit, ReclaimPc
<1>2. CASE ClaimPop(w)
  <2> DEFINE m == [l EXCEPT !.pc = "hgetall", !.task = Head(queue)]
  <2>1. OnlyClient(w, m) /\ l.pc = "lpop"
    BY <1>0, <1>2 DEF ClaimPop, OnlyClient
  <2>2. queue \in Seq(Task) /\ queue # <<>> /\ queue' = Tail(queue) /\ status' = status
    BY <1>0, <1>2 DEF ClaimPop, ServerOK, hash
  <2>3. m.pc = "hgetall" /\ m.task = Head(queue)
    BY <1>0 DEF Locals
  <2>4. PassesOn(w, m)
    <3> SUFFICES ASSUME NEW t \in Task, status[t] = "pending"
                 PROVE  Holds(m, t) \/ Queued(t)' \/ (~Holds(l, t) /\ ~Queued(t))
      BY <2>2 DEF PassesOn
    <3>1. ~Holds(l, t)
      BY <1>1, <2>1 DEF Holds
    <3>2. ASSUME NEW i \in DOMAIN queue, queue[i] = t PROVE Holds(m, t) \/ Queued(t)'
      <4>1. CASE i = 1
        BY <2>2, <2>3, <3>2, <4>1 DEF Holds
      <4>2. CASE i # 1
        <5>1. i - 1 \in DOMAIN queue' /\ queue'[i - 1] = t
          BY <2>2, <3>2, <4>2
        <5> QED BY <5>1 DEF Queued
      <4> QED BY <4>1, <4>2
    <3> QED BY <3>1, <3>2 DEF Queued
  <2> QED BY <1>0, <1>1, <2>1, <2>4, PassingOn
<1>3. CASE ClaimNone(w)
  <2>1. OnlyClient(w, Idle) /\ l.pc = "lpop" /\ UNCHANGED <<status, queue>>
    BY <1>0, <1>3, ControlFits DEF ClaimNone, Finish, Pc, server, hash
  <2>2. PassesOn(w, Idle)
    BY <1>1, <2>1 DEF PassesOn, Holds, Queued
  <2> QED BY <1>0, <1>1, <2>1, <2>2, PassingOn
<1>4. CASE ClaimRead(w)
  <2> DEFINE m == [l EXCEPT !.pc = "set_nx", !.expires = now + LeaseSeconds]
  <2>1. OnlyClient(w, m) /\ l.pc = "hgetall" /\ UNCHANGED <<status, queue>>
    BY <1>0, <1>4 DEF ClaimRead, OnlyClient, server, hash
  <2>2. m.pc = "set_nx" /\ m.task = l.task
    BY <1>0 DEF Locals
  <2>3. PassesOn(w, m)
    BY <1>1, <2>1, <2>2 DEF PassesOn, Holds, Queued
  <2> QED BY <1>0, <1>1, <2>1, <2>3, PassingOn
<1>5. CASE ClaimSkip(w)
  <2> DEFINE m == [l EXCEPT !.pc = "lpop", !.task = NoTask]
  <2>1. OnlyClient(w, m) /\ l.pc = "hgetall" /\ status[l.task] # "pending" /\ UNCHANGED <<status, queue>>
    BY <1>0, <1>5 DEF ClaimSkip, OnlyClient, server, hash
  <2>2. PassesOn(w, m)
    BY <1>1, <2>1 DEF PassesOn, Holds, Queued
  <2> QED BY <1>0, <1>1, <2>1, <2>2, PassingOn
<1>6. CASE SetNx(w) \/ SetNxLost(w)
  <2>1. PICK to \in {"claim_hset", "requeue"} : Step(w, "set_nx", to)
    BY <1>6 DEF SetNx, SetNxLost
  <2> DEFINE m == [l EXCEPT !.pc = to]
  <2>2. OnlyClient(w, m) /\ l.pc = "set_nx"
    BY <1>0, <2>1, ControlFits DEF Pc, Step
  <2>3. m.pc = to /\ m.task = l.task
    BY <1>0 DEF Locals
  <2>4. UNCHANGED <<status, queue>>
    BY <1>6 DEF SetNx, SetNxLost, SetLease, server, hash
  <2>5. PassesOn(w, m)
    BY <1>1, <2>2, <2>3, <2>4 DEF PassesOn, Holds, Queued
  <2> QED BY <1>0, <1>1, <2>2, <2>5, PassingOn
<1>7. CASE ClaimRequeue(w)
  <2>1. OnlyClient(w, Idle) /\ l.pc = "requeue"
    BY <1>0, <1>7, ControlFits DEF ClaimRequeue, Finish, Pc
  <2>2. PICK u \in Task : u = l.task
    BY <1>0, <2>1 DEF LocalsFit, HandPc
  <2>3. Queued(u)' /\ \A t \in Task : Queued(t) => Queued(t)'
    BY <1>0, <1>7, <2>2, PushedIsQueued DEF ClaimRequeue
  <2>4. status' = status
    BY <1>7 DEF ClaimRequeue, RPush, hash
  <2>5. PassesOn(w, Idle)
    BY <1>1, <2>2, <2>3, <2>4 DEF PassesOn, Holds
  <2> QED BY <1>0, <1>1, <2>1, <2>5, PassingOn
<1>8. CASE ClaimHSet(w)
  <2> DEFINE m == [l EXCEPT !.pc = "claim_zadd"]
  <2>1. OnlyClient(w, m) /\ l.pc = "claim_hset"
    BY <1>0, <1>8, ControlFits DEF ClaimHSet, Step, Pc
  <2>2. l.task \in Task /\ queue' = queue
    BY <1>0, <1>8, <2>1 DEF LocalsFit, HandPc, ClaimHSet, HSet
  <2>3. status'[l.task] = "in_progress" /\ \A t \in Task \ {l.task} : status'[t] = status[t]
    BY <1>0, <1>8, <2>2 DEF ClaimHSet, HSet, ServerOK
  <2>4. PassesOn(w, m)
    BY <1>1, <2>2, <2>3 DEF PassesOn, Holds, Queued
  <2> QED BY <1>0, <1>1, <2>1, <2>4, PassingOn
<1>9. CASE ClaimZAdd(w)
  <2>1. OnlyClient(w, Idle) /\ l.pc = "claim_zadd" /\ UNCHANGED <<status, queue>>
    BY <1>0, <1>9 DEF ClaimZAdd, ZAdd, OnlyClient, hash
  <2>2. PassesOn(w, Idle)
    BY <1>1, <2>1 DEF PassesOn, Holds, Queued
  <2> QED BY <1>0, <1>1, <2>1, <2>2, PassingOn
<1> QED BY <1>2, <1>3, <1>4, <1>5, <1>6, <1>7, <1>8, <1>9 DEF ClaimRest

(* A report holds nothing that is pending, and makes nothing pending.      *)
LEMMA ReportPassesOn ==
  ASSUME TypeInv, PendingIsReachable, NEW w \in Worker, Complete(w) \/ Fail(w)
  PROVE  PendingIsReachable'
<1> DEFINE l == client[w]
<1>0. w \in Client /\ ServerOK /\ l \in Locals /\ LocalsFit(l) /\ client \in [Client -> Locals]
  <2>1. w \in Client
    BY DEF Client
  <2> QED BY <2>1, Given
<1>1. l.pc \in ReportPc \cup {"idle"} /\ crashes' = crashes
  BY DEF Complete, Fail, CompleteCheck, CompleteHSet, CompleteZRem, CompleteDelete, CompletePush,
         FailCheck, FailHSet, FailZRem, FailDelete, Start, Step, Finish, Others, ReportPc
<1>2. \A t \in Task : ~Holds(l, t)
  BY <1>0, <1>1 DEF Holds, LocalsFit, ReclaimPc, ReportPc
<1>3. queue' = queue /\ \A t \in Task : status'[t] = "pending" => status[t] = "pending"
  <2>1. CASE CompleteHSet(w) \/ FailHSet(w)
    <3>1. l.task \in Task
      BY <1>0, <2>1 DEF CompleteHSet, FailHSet, Step, LocalsFit, ReportPc
    <3> QED BY <1>0, <2>1, <3>1 DEF CompleteHSet, FailHSet, HSet, ServerOK
  <2>2. CASE ~(CompleteHSet(w) \/ FailHSet(w))
    BY <2>2 DEF Complete, Fail, CompleteCheck, CompleteZRem, CompleteDelete, CompletePush,
                FailCheck, FailZRem, FailDelete, ZRem, ZAdd, DeleteLease, server, hash
  <2> QED BY <2>1, <2>2
<1>4. PICK m : OnlyClient(w, m)
  <2>1. ASSUME NEW pc, NEW t, Start(w, pc, t) PROVE OnlyClient(w, [l EXCEPT !.pc = pc, !.task = t])
    BY <1>0, <2>1 DEF Start, OnlyClient
  <2>2. ASSUME NEW from, NEW to, Step(w, from, to) PROVE OnlyClient(w, [l EXCEPT !.pc = to])
    BY <1>0, <2>2 DEF Step, OnlyClient
  <2>3. ASSUME NEW from, Finish(w, from) PROVE OnlyClient(w, Idle)
    BY <2>3 DEF Finish, OnlyClient
  <2> QED BY <2>1, <2>2, <2>3
          DEF Complete, Fail, CompleteCheck, CompleteHSet, CompleteZRem, CompleteDelete, CompletePush,
              FailCheck, FailHSet, FailZRem, FailDelete
<1>5. PassesOn(w, m)
  BY <1>2, <1>3 DEF PassesOn, Queued
<1> QED BY <1>0, <1>1, <1>4, <1>5, PassingOn

(* However the methods interleave, a pending task can still be popped, as  *)
(* long as no process has died in the middle of one (enqueue, claim,       *)
(* _reclaim_expired).                                                      *)
THEOREM PendingStaysReachable == Spec => []PendingIsReachable
<1>1. Init => PendingIsReachable
  BY DEF Init, PendingIsReachable
<1>2. TypeInv /\ PendingIsReachable /\ [Next]_vars => PendingIsReachable'
  <2> SUFFICES ASSUME TypeInv, PendingIsReachable, [Next]_vars PROVE PendingIsReachable'
    OBVIOUS
  <2>1. ASSUME NEW p \in Producer, Enqueue(p) PROVE PendingIsReachable'
    BY <2>1, EnqueuePassesOn
  <2>2. ASSUME NEW w \in Worker, Claim(w) PROVE PendingIsReachable'
    BY <2>2, ReclaimPassesOn, ClaimPassesOn DEF Claim, ClaimRest
  <2>3. ASSUME NEW w \in Worker, Complete(w) \/ Fail(w) PROVE PendingIsReachable'
    BY <2>3, ReportPassesOn
  <2>4. ASSUME UNCHANGED <<status, queue, client, crashes>> PROVE PendingIsReachable'
    BY <2>4 DEF PendingIsReachable, InHand
  <2>5. ASSUME NEW w \in Worker, Heartbeat(w) PROVE PendingIsReachable'
    BY <2>4, <2>5 DEF Heartbeat, BeatOwner, BeatStatus, BeatZAdd, BeatSet, ZAdd, SetLease, server, hash
  <2>6. ASSUME NEW c \in Client, Crash(c) PROVE PendingIsReachable'
    <3>1. crashes' # 0
      BY <2>6 DEF Crash, TypeInv, TypeOK
    <3> QED BY <3>1 DEF PendingIsReachable
  <2>7. CASE Tick \/ UNCHANGED vars
    BY <2>4, <2>7 DEF Tick, vars, server, hash
  <2> QED BY <2>1, <2>2, <2>3, <2>5, <2>6, <2>7 DEF Next
<1> QED BY <1>1, <1>2, TypeInit, TypeStep, PTL DEF Spec

----------------------------------------------------------------------------
(* A completed task has its result, or the report that completed it goes   *)
(* on to push it.                                                          *)
Answered(t) == \E i \in DOMAIN results : results[i].task = t
Reporting(l, t) == l.task = t /\ l.pc \in {"complete_zrem", "complete_delete", "complete_rpush"}

LEMMA OneClientMoves ==
  ASSUME TypeInv, NEW c \in Client,
         \/ Enqueue(c) \/ ClaimScan(c) \/ Reclaim(c) \/ ClaimRest(c) \/ Complete(c) \/ Fail(c)
  PROVE  \E m : OnlyClient(c, m)
<1>0. client \in [Client -> Locals]
  BY Given
<1>1. ASSUME NEW pc, NEW t, Start(c, pc, t) PROVE OnlyClient(c, [client[c] EXCEPT !.pc = pc, !.task = t])
  BY <1>0, <1>1 DEF Start, OnlyClient
<1>2. ASSUME NEW from, NEW to, Step(c, from, to) PROVE OnlyClient(c, [client[c] EXCEPT !.pc = to])
  BY <1>0, <1>2 DEF Step, OnlyClient
<1>3. ASSUME NEW from, Finish(c, from) PROVE OnlyClient(c, Idle)
  BY <1>3 DEF Finish, OnlyClient
<1>4. CASE Enqueue(c) \/ Complete(c) \/ Fail(c)
  BY <1>1, <1>2, <1>3, <1>4
     DEF Enqueue, EnqueueCheck, EnqueueHSet, EnqueuePush, Complete, CompleteCheck, CompleteHSet,
         CompleteZRem, CompleteDelete, CompletePush, Fail, FailCheck, FailHSet, FailZRem, FailDelete
<1>5. CASE ClaimScan(c) \/ Reclaim(c)
  <2>1. CASE ClaimScan(c)
    <3>1. PICK p : client' = [client EXCEPT ![c].expired = p, ![c].pc = AfterReclaim(p)]
      BY <2>1 DEF ClaimScan
    <3>2. OnlyClient(c, [client[c] EXCEPT !.expired = p, !.pc = AfterReclaim(p)])
      BY <1>0, <3>1 DEF OnlyClient
    <3> QED BY <3>2
  <2>2. CASE ReclaimPush(c)
    <3> DEFINE rest == Tail(client[c].expired)
    <3>1. OnlyClient(c, [client[c] EXCEPT !.expired = rest, !.pc = AfterReclaim(rest)])
      BY <1>0, <2>2 DEF ReclaimPush, OnlyClient
    <3> QED BY <3>1
  <2> QED BY <1>2, <1>5, <2>1, <2>2 DEF Reclaim, ReclaimZRem, ReclaimDelete, ReclaimHSet
<1>6. CASE ClaimRest(c)
  <2>1. CASE ClaimPop(c)
    <3>1. OnlyClient(c, [client[c] EXCEPT !.pc = "hgetall", !.task = Head(queue)])
      BY <1>0, <2>1 DEF ClaimPop, OnlyClient
    <3> QED BY <3>1
  <2>2. CASE ClaimRead(c)
    <3>1. OnlyClient(c, [client[c] EXCEPT !.pc = "set_nx", !.expires = now + LeaseSeconds])
      BY <1>0, <2>2 DEF ClaimRead, OnlyClient
    <3> QED BY <3>1
  <2>3. CASE ClaimSkip(c)
    <3>1. OnlyClient(c, [client[c] EXCEPT !.pc = "lpop", !.task = NoTask])
      BY <1>0, <2>3 DEF ClaimSkip, OnlyClient
    <3> QED BY <3>1
  <2>4. CASE ClaimZAdd(c)
    BY <2>4 DEF ClaimZAdd, OnlyClient
  <2> QED BY <1>2, <1>3, <1>6, <2>1, <2>2, <2>3, <2>4
          DEF ClaimRest, ClaimNone, SetNx, SetNxLost, ClaimRequeue, ClaimHSet
<1> QED BY <1>4, <1>5, <1>6

(* A step of client c that completes nothing, and leaves no report, keeps  *)
(* what is said of completed tasks.                                        *)
LEMMA NothingNewCompleted ==
  ASSUME TypeInv, CompletedHasResult, NEW c \in Client, NEW m, OnlyClient(c, m),
         \A t \in Task : status'[t] = "completed" => status[t] = "completed",
         \A t \in Task : Reporting(client[c], t) => c \in Worker /\ (Reporting(m, t) \/ Answered(t)'),
         \A t \in Task : Answered(t) => Answered(t)',
         crashes' = crashes
  PROVE  CompletedHasResult'
<1> SUFFICES ASSUME crashes = 0, NEW t \in Task, status[t] = "completed"
             PROVE  Answered(t)' \/ \E w \in Worker : Reporting(client'[w], t)
  BY DEF CompletedHasResult, Answered, Reporting
<1>1. client \in [Client -> Locals] /\ Worker \subseteq Client
  BY Given DEF Client
<1>2. client'[c] = m /\ \A d \in Client \ {c} : client'[d] = client[d]
  BY <1>1 DEF OnlyClient
<1>3. Answered(t) \/ \E w \in Worker : Reporting(client[w], t)
  BY DEF CompletedHasResult, Answered, Reporting
<1> QED BY <1>1, <1>2, <1>3

LEMMA ClaimCompletesNothing ==
  ASSUME TypeInv, CompletedHasResult, NEW c \in Client,
         Enqueue(c) \/ (c \in Worker /\ Claim(c))
  PROVE  CompletedHasResult'
<1> DEFINE l == client[c]
<1>0. ServerOK /\ l \in Locals /\ LocalsFit(l)
  BY Given
<1>1. PICK m : OnlyClient(c, m)
  BY OneClientMoves DEF Claim, ClaimRest
<1>2. \A t \in Task : ~Reporting(l, t)
  BY DEF Enqueue, EnqueueCheck, EnqueueHSet, EnqueuePush, Claim, ClaimScan, Reclaim, ReclaimZRem,
         ReclaimDelete, ReclaimHSet, ReclaimPush, ClaimPop, ClaimNone, ClaimRead, ClaimSkip, SetNx,
         SetNxLost, ClaimRequeue, ClaimHSet, ClaimZAdd, Start, Step, Finish, Reporting
<1>3. results' = results /\ crashes' = crashes
  BY DEF Enqueue, EnqueueCheck, EnqueueHSet, EnqueuePush, Claim, ClaimScan, Reclaim, ReclaimZRem,
         ReclaimDelete, ReclaimHSet, ReclaimPush, ClaimPop, ClaimNone, ClaimRead, ClaimSkip, SetNx,
         SetNxLost, ClaimRequeue, ClaimHSet, ClaimZAdd, Start, Step, Finish, Others,
         HSet, ZAdd, ZRem, RPush, SetLease, DeleteLease, server
<1>4. \A t \in Task : status'[t] = "completed" => status[t] = "completed"
  <2>1. CASE EnqueueHSet(c) \/ ReclaimHSet(c) \/ ClaimHSet(c)
    <3>1. PICK u \in Task, s \in {"pending", "in_progress"}, o \in Client \cup {NoWorker} : HSet(u, s, o)
      <4>1. EnqueueHSet(c) \/ ClaimHSet(c) => l.task \in Task
        BY <1>0 DEF EnqueueHSet, ClaimHSet, Step, LocalsFit, HandPc
      <4>2. ReclaimHSet(c) => Reclaimed(c) \in Task
        <5>1. ReclaimHSet(c) => l.expired # <<>> /\ l.expired \in Seq(Task)
          BY <1>0 DEF ReclaimHSet, Step, LocalsFit, ReclaimPc, Locals
        <5> QED BY <5>1 DEF Reclaimed
      <4> QED BY <2>1, <4>1, <4>2 DEF EnqueueHSet, ReclaimHSet, ClaimHSet
    <3> QED BY <1>0, <3>1 DEF HSet, ServerOK
  <2>2. CASE ~(EnqueueHSet(c) \/ ReclaimHSet(c) \/ ClaimHSet(c))
    <3>1. status' = status
      BY <2>2 DEF Enqueue, EnqueueCheck, EnqueuePush, Claim, ClaimScan, Reclaim, ReclaimZRem,
         ReclaimDelete, ReclaimPush, ClaimPop, ClaimNone, ClaimRead, ClaimSkip, SetNx,
         SetNxLost, ClaimRequeue, ClaimZAdd, ZAdd, ZRem, RPush, SetLease, DeleteLease, server, hash
    <3> QED BY <3>1
  <2> QED BY <2>1, <2>2
<1> QED BY <1>1, <1>2, <1>3, <1>4, NothingNewCompleted DEF Answered

LEMMA ReportBringsResult ==
  ASSUME TypeInv, CompletedHasResult, NEW w \in Worker, Complete(w) \/ Fail(w)
  PROVE  CompletedHasResult'
<1> DEFINE l == client[w]
<1>0. w \in Client /\ ServerOK /\ l \in Locals /\ LocalsFit(l) /\ client \in [Client -> Locals]
  <2>1. w \in Client
    BY DEF Client
  <2> QED BY <2>1, Given
<1>1. crashes' = crashes
  BY DEF Complete, Fail, CompleteCheck, CompleteHSet, CompleteZRem, CompleteDelete, CompletePush,
         FailCheck, FailHSet, FailZRem, FailDelete, Start, Step, Finish, Others
<1>2. CASE CompleteHSet(w)
  <2> DEFINE m == [l EXCEPT !.pc = "complete_zrem"]
  <2>1. OnlyClient(w, m) /\ l.pc = "complete_hset"
    BY <1>0, <1>2, ControlFits DEF CompleteHSet, Step, Pc
  <2>2. l.task \in Task /\ m.pc = "complete_zrem" /\ m.task = l.task
    BY <1>0, <2>1 DEF LocalsFit, ReportPc, Locals
  <2>3. results' = results /\ \A t \in Task \ {l.task} : status'[t] = status[t]
    BY <1>0, <1>2, <2>2 DEF CompleteHSet, HSet, ServerOK
  <2>4. client'[w] = m /\ \A d \in Client \ {w} : client'[d] = client[d]
    BY <1>0, <2>1 DEF OnlyClient
  <2> SUFFICES ASSUME crashes = 0, NEW t \in Task, status'[t] = "completed"
               PROVE  Answered(t)' \/ \E v \in Worker : Reporting(client'[v], t)
    BY <1>1 DEF CompletedHasResult, Answered, Reporting
  <2>5. CASE t = l.task
    BY <2>2, <2>4, <2>5 DEF Reporting
  <2>6. CASE t # l.task
    <3>1. Answered(t) \/ \E v \in Worker : Reporting(client[v], t)
      BY <2>3, <2>6 DEF CompletedHasResult, Answered, Reporting
    <3>2. Worker \subseteq Client /\ ~Reporting(l, t)
      BY <2>6 DEF Client, Reporting
    <3> QED BY <2>3, <2>4, <3>1, <3>2 DEF Answered
  <2> QED BY <2>5, <2>6
<1>3. CASE CompletePush(w)
  <2>1. OnlyClient(w, Idle) /\ l.pc = "complete_rpush" /\ status' = status
    BY <1>0, <1>3, ControlFits DEF CompletePush, Finish, Pc, hash
  <2>2. PICK u \in Task : u = l.task
    BY <1>0, <2>1 DEF LocalsFit, ReportPc
  <2>3. /\ Len(results) + 1 \in DOMAIN results' /\ results'[Len(results) + 1].task = u
        /\ \A i \in DOMAIN results : i \in DOMAIN results' /\ results'[i] = results[i]
    BY <1>0, <1>3, <2>2 DEF CompletePush, ServerOK
  <2>4. Answered(u)' /\ \A t \in Task : Answered(t) => Answered(t)'
    BY <2>3 DEF Answered
  <2> QED BY <1>0, <1>1, <2>1, <2>2, <2>4, NothingNewCompleted DEF Reporting
<1>4. CASE CompleteZRem(w) \/ CompleteDelete(w)
  <2>1. PICK from, to \in {"complete_zrem", "complete_delete", "complete_rpush"} : Step(w, from, to)
    BY <1>4 DEF CompleteZRem, CompleteDelete
  <2> DEFINE m == [l EXCEPT !.pc = to]
  <2>2. OnlyClient(w, m)
    BY <1>0, <2>1, ControlFits DEF Pc
  <2>3. status' = status /\ results' = results
    BY <1>4 DEF CompleteZRem, CompleteDelete, ZRem, ZAdd, DeleteLease, hash
  <2>4. m.task = l.task /\ m.pc = to
    BY <1>0 DEF Locals
  <2>5. ASSUME NEW t \in Task, Reporting(l, t) PROVE Reporting(m, t)
    BY <2>4, <2>5 DEF Reporting
  <2>6. \A t \in Task : Answered(t) => Answered(t)'
    BY <2>3 DEF Answered
  <2>7. \A t \in Task : status'[t] = "completed" => status[t] = "completed"
    BY <2>3
  <2> HIDE DEF m, Reporting, Answered
  <2> QED BY <1>0, <1>1, <2>2, <2>5, <2>6, <2>7, NothingNewCompleted
<1>5. CASE Fail(w) \/ \E t \in Task : CompleteCheck(w, t)
  <2>1. PICK m : OnlyClient(w, m)
    BY <1>0, OneClientMoves
  <2>2. \A t \in Task : ~Reporting(l, t)
    BY <1>5 DEF Fail, CompleteCheck, FailCheck, FailHSet, FailZRem, FailDelete, Start, Step, Finish, Reporting
  <2>3. results' = results
    BY <1>5 DEF Fail, CompleteCheck, FailCheck, FailHSet, FailZRem, FailDelete, HSet, ZRem, ZAdd,
                DeleteLease, server
  <2>4. \A t \in Task : status'[t] = "completed" => status[t] = "completed"
    <3>1. CASE FailHSet(w)
      <4>1. l.task \in Task
        BY <1>0, <3>1 DEF FailHSet, Step, LocalsFit, ReportPc
      <4> QED BY <1>0, <3>1, <4>1 DEF FailHSet, HSet, ServerOK
    <3>2. CASE ~FailHSet(w)
      <4>1. status' = status
        BY <1>5, <3>2 DEF Fail, CompleteCheck, FailCheck, FailZRem, FailDelete, ZRem, ZAdd, DeleteLease,
                          server, hash
      <4> QED BY <4>1
    <3> QED BY <3>1, <3>2
  <2> QED BY <1>0, <1>1, <2>1, <2>2, <2>3, <2>4, NothingNewCompleted DEF Answered
<1> QED BY <1>2, <1>3, <1>4, <1>5 DEF Complete

(* A completed task has its result, or the report is on its way to push    *)
(* it, as long as no process has died (complete).                          *)
THEOREM CompletedKeepsResult == Spec => []CompletedHasResult
<1>1. Init => CompletedHasResult
  BY DEF Init, CompletedHasResult
<1>2. TypeInv /\ CompletedHasResult /\ [Next]_vars => CompletedHasResult'
  <2> SUFFICES ASSUME TypeInv, CompletedHasResult, [Next]_vars PROVE CompletedHasResult'
    OBVIOUS
  <2>1. ASSUME NEW p \in Producer, Enqueue(p) PROVE CompletedHasResult'
    BY <2>1, ClaimCompletesNothing DEF Client
  <2>2. ASSUME NEW w \in Worker, Claim(w) PROVE CompletedHasResult'
    BY <2>2, ClaimCompletesNothing DEF Client
  <2>3. ASSUME NEW w \in Worker, Complete(w) \/ Fail(w) PROVE CompletedHasResult'
    BY <2>3, ReportBringsResult
  <2>4. ASSUME UNCHANGED <<status, results, client, crashes>> PROVE CompletedHasResult'
    BY <2>4 DEF CompletedHasResult
  <2>5. ASSUME NEW w \in Worker, Heartbeat(w) PROVE CompletedHasResult'
    BY <2>4, <2>5 DEF Heartbeat, BeatOwner, BeatStatus, BeatZAdd, BeatSet, ZAdd, SetLease, server, hash
  <2>6. ASSUME NEW c \in Client, Crash(c) PROVE CompletedHasResult'
    <3>1. crashes' # 0
      BY <2>6 DEF Crash, TypeInv, TypeOK
    <3> QED BY <3>1 DEF CompletedHasResult
  <2>7. CASE Tick \/ UNCHANGED vars
    BY <2>4, <2>7 DEF Tick, vars, server, hash
  <2> QED BY <2>1, <2>2, <2>3, <2>5, <2>6, <2>7 DEF Next
<1> QED BY <1>1, <1>2, TypeInit, TypeStep, PTL DEF Spec

----------------------------------------------------------------------------
(* Before the first expiry.  No lease is due and no reclaim has anything   *)
(* to do, so that a pending task has one ticket at most (a place in the    *)
(* queue, or a method that holds it), and who has ever claimed a task is   *)
(* its owner for good.  Two premises: a heartbeat does not shorten a       *)
(* lease, and one producer enqueues (two that enqueue the same task at     *)
(* once both find it absent).                                              *)
Handed == HandPc \ {"enqueue_hset"}
Claimed == {"in_progress", "completed", "failed"}

NothingDue ==
  /\ \A t \in Task : index[t] # 0 => index[t] > LeaseSeconds
  /\ \A c \in Client :
       /\ client[c].expired = <<>>
       /\ client[c].pc \in {"set_nx", "claim_hset", "claim_zadd"} => client[c].expires > LeaseSeconds
  /\ \A w \in Worker : beat[w].pc \in {"zadd", "set"} => beat[w].expires > LeaseSeconds

OneTicket ==
  /\ \A c \in Client :
       /\ client[c].pc \in {"enqueue_hset", "enqueue_rpush"} => c \in Producer
       /\ client[c].pc = "enqueue_hset" => status[client[c].task] = "absent"
       /\ client[c].pc \in Handed =>
            /\ status[client[c].task] = "pending"
            /\ \A i \in DOMAIN queue : queue[i] # client[c].task
  /\ \A i \in DOMAIN queue : status[queue[i]] = "pending"
  /\ \A i, j \in DOMAIN queue : queue[i] = queue[j] => i = j
  /\ \A c, d \in Client :
       client[c].pc \in Handed /\ client[d].pc \in Handed /\ client[c].task = client[d].task => c = d

Owns(w, t) ==
  \/ leases[w][t] # 0
  \/ client[w].task = t /\ client[w].pc \in ReportPc \cup {"claim_zadd"}
  \/ beat[w].task = t /\ beat[w].pc # "idle"

OwnerKnown ==
  /\ \A w \in Worker, t \in Task : Owns(w, t) => status[t] \in Claimed /\ owner[t] = w
  /\ \A c \in Client :
       client[c].pc \in ReportPc \ {"complete_hset", "fail_hset"} => Finished(client[c].task)

Early == NothingDue /\ OneTicket /\ OwnerKnown

EarlyInv == BeforeExpiry => Early

BeatsLengthen == LeaseSeconds <= HeartbeatSeconds
OneProducer == \A p, q \in Producer : p = q

LEMMA NothingToReclaim == ASSUME TypeInv, BeforeExpiry, NothingDue PROVE Due = {}
BY RedisAssumption DEF Due, BeforeExpiry, NothingDue, TypeInv, TypeOK, RedisAssumption

(* A step of client c to locals m that leaves no lease due.                *)
LEMMA DueStep ==
  ASSUME TypeInv, NothingDue, NEW c \in Client, NEW m, OnlyClient(c, m), beat' = beat,
         m.expired = <<>>,
         m.pc \in {"set_nx", "claim_hset", "claim_zadd"} => m.expires > LeaseSeconds,
         \A t \in Task : index'[t] = index[t] \/ index'[t] = 0 \/ index'[t] > LeaseSeconds
  PROVE  NothingDue'
<1>1. client'[c] = m /\ \A d \in Client \ {c} : client'[d] = client[d]
  BY DEF OnlyClient, TypeInv, TypeOK
<1> QED BY <1>1 DEF NothingDue

(* A step that leaves the queue and the unclaimed tasks alone, and by      *)
(* which c keeps its ticket or has none any more.                          *)
LEMMA TicketsKept ==
  ASSUME TypeInv, OneTicket, NEW c \in Client, NEW m, OnlyClient(c, m), queue' = queue,
         \A t \in Task : status[t] \in {"absent", "pending"} => status'[t] = status[t],
         \/ m.pc \notin HandPc
         \/ m.pc \in Handed \ {"enqueue_rpush"} /\ client[c].pc \in Handed /\ m.task = client[c].task
  PROVE  OneTicket'
<1>1. client'[c] = m /\ \A d \in Client \ {c} : client'[d] = client[d]
  BY DEF OnlyClient, TypeInv, TypeOK
<1>2. \A i \in DOMAIN queue : queue[i] \in Task
  BY DEF TypeInv, TypeOK
<1>3. \A d \in Client : client[d].pc \in HandPc => client[d].task \in Task
  BY DEF TypeInv, ClientsFit, LocalsFit
<1> QED BY <1>1, <1>2, <1>3 DEF OneTicket, Handed, HandPc

(* A ticket that c holds goes back to the queue.                           *)
LEMMA TicketPushed ==
  ASSUME TypeInv, OneTicket, NEW c \in Client, NEW m, OnlyClient(c, m), m.pc \notin HandPc,
         client[c].pc \in Handed, RPush(client[c].task)
  PROVE  OneTicket'
<1> DEFINE u == client[c].task
<1>1. client'[c] = m /\ \A d \in Client \ {c} : client'[d] = client[d]
  BY DEF OnlyClient, TypeInv, TypeOK
<1>2. queue \in Seq(Task) /\ u \in Task /\ queue' = Append(queue, u) /\ status' = status
  BY DEF RPush, hash, TypeInv, TypeOK, ClientsFit, LocalsFit, Handed
<1>3. /\ DOMAIN queue' = 1..(Len(queue) + 1) /\ queue'[Len(queue) + 1] = u
      /\ Len(queue) \in Nat /\ DOMAIN queue = 1..Len(queue)
      /\ \A i \in DOMAIN queue : queue'[i] = queue[i]
  BY <1>2
<1>4. \A i \in DOMAIN queue' : i \in DOMAIN queue \/ i = Len(queue) + 1
  BY <1>3
<1>5. status[u] = "pending" /\ \A i \in DOMAIN queue : queue[i] # u
  BY DEF OneTicket
<1>6. \A i \in DOMAIN queue' : status'[queue'[i]] = "pending"
  BY <1>2, <1>3, <1>4, <1>5 DEF OneTicket
<1>7. \A i, j \in DOMAIN queue' : queue'[i] = queue'[j] => i = j
  BY <1>3, <1>4, <1>5 DEF OneTicket
<1>8. \A d \in Client \ {c} : client[d].pc \in Handed => \A i \in DOMAIN queue' : queue'[i] # client[d].task
  BY <1>3, <1>4 DEF OneTicket
<1> QED BY <1>1, <1>2, <1>6, <1>7, <1>8 DEF OneTicket, Handed, HandPc

(* A step by which nobody comes to own a task, and no claimed task changes *)
(* hands.                                                                  *)
LEMMA OwnersKept ==
  ASSUME OwnerKnown,
         \A w \in Worker, t \in Task : Owns(w, t)' => Owns(w, t),
         \A t \in Task : status[t] \in Claimed => status'[t] \in Claimed /\ owner'[t] = owner[t],
         \A c \in Client : client'[c].pc \in ReportPc \ {"complete_hset", "fail_hset"} =>
                             status'[client'[c].task] \in {"completed", "failed"}
  PROVE  OwnerKnown'
<1>1. \A w \in Worker, t \in Task : Owns(w, t)' => status'[t] \in Claimed /\ owner'[t] = w
  BY DEF OwnerKnown
<1> QED BY <1>1 DEF OwnerKnown, Finished

(* A step of client c to locals that own nothing, which leaves every       *)
(* claimed task alone.                                                     *)
LEMMA OwnersUndisturbed ==
  ASSUME TypeInv, OwnerKnown, NEW c \in Client, NEW m, OnlyClient(c, m), UNCHANGED <<beat, leases>>,
         m.pc \notin ReportPc \cup {"claim_zadd"},
         \A t \in Task : status[t] \in Claimed => status'[t] = status[t] /\ owner'[t] = owner[t]
  PROVE  OwnerKnown'
<1>1. client'[c] = m /\ \A d \in Client \ {c} : client'[d] = client[d]
  BY DEF OnlyClient, TypeInv, TypeOK
<1>2. ASSUME NEW w \in Worker, NEW t \in Task, Owns(w, t)' PROVE Owns(w, t)
  <2>1. w \in Client
    BY DEF Client
  <2> QED BY <1>1, <1>2, <2>1 DEF Owns
<1>3. ASSUME NEW d \in Client, client'[d].pc \in ReportPc \ {"complete_hset", "fail_hset"}
      PROVE  status'[client'[d].task] \in {"completed", "failed"}
  <2>1. client'[d] = client[d] /\ client[d].task \in Task
    BY <1>1, <1>3 DEF TypeInv, ClientsFit, LocalsFit
  <2>2. status[client[d].task] \in {"completed", "failed"}
    BY <1>3, <2>1 DEF OwnerKnown, Finished
  <2> QED BY <2>1, <2>2 DEF Claimed
<1> QED BY <1>2, <1>3, OwnersKept

LEMMA EnqueueIsEarly ==
  ASSUME TypeInv, Early, OneProducer, NEW p \in Producer, Enqueue(p)
  PROVE  Early'
<1> DEFINE l == client[p]
<1>0. /\ p \in Client /\ ServerOK /\ l \in Locals /\ LocalsFit(l) /\ l.expired = <<>>
      /\ client \in [Client -> Locals]
  <2>1. p \in Client
    BY DEF Client
  <2> QED BY <2>1, Given DEF Early, NothingDue
<1>a. \A t \in Task : index'[t] = index[t]
  BY DEF Enqueue, EnqueueCheck, EnqueueHSet, EnqueuePush, HSet, RPush, server
<1>b. UNCHANGED <<beat, leases>>
  BY DEF Enqueue, EnqueueCheck, EnqueueHSet, EnqueuePush, Start, Step, Finish, Others
<1>1. ASSUME NEW t \in Task, EnqueueCheck(p, t) PROVE Early'
  <2> DEFINE m == [l EXCEPT !.pc = "enqueue_hset", !.task = t]
  <2>0. OnlyClient(p, m)
    BY <1>0, <1>1, ControlFits DEF EnqueueCheck, Pc
  <2>1. OnlyClient(p, m) /\ m.pc = "enqueue_hset" /\ m.task = t /\ m.expired = <<>>
    BY <1>0, <2>0 DEF Locals
  <2> HIDE DEF m
  <2>2. UNCHANGED <<status, owner, queue>> /\ status[t] = "absent"
    BY <1>1 DEF EnqueueCheck, server, hash
  <2>3. NothingDue'
    BY <1>0, <1>a, <1>b, <2>1, DueStep DEF Early
  <2>4. client'[p] = m /\ \A d \in Client \ {p} : client'[d] = client[d]
    BY <1>0, <2>1 DEF OnlyClient
  <2>5. OneTicket'
    BY <2>1, <2>2, <2>4 DEF Early, OneTicket, Handed
  <2>6. OwnerKnown'
    BY <1>0, <1>b, <2>1, <2>2, OwnersUndisturbed DEF Early, ReportPc
  <2> QED BY <2>3, <2>5, <2>6 DEF Early
<1>2. CASE EnqueueHSet(p)
  <2> DEFINE m == [l EXCEPT !.pc = "enqueue_rpush"]
  <2>0. OnlyClient(p, m) /\ l.pc = "enqueue_hset"
    BY <1>0, <1>2, ControlFits DEF EnqueueHSet, Step, Pc
  <2>1. OnlyClient(p, m) /\ m.pc = "enqueue_rpush" /\ m.task = l.task /\ m.expired = <<>> /\ l.pc = "enqueue_hset"
    BY <1>0, <2>0 DEF Locals
  <2> HIDE DEF m
  <2>2. l.task \in Task /\ status[l.task] = "absent"
    BY <1>0, <2>1 DEF LocalsFit, HandPc, Early, OneTicket
  <2>3. /\ queue' = queue /\ status'[l.task] = "pending"
        /\ \A t \in Task \ {l.task} : status'[t] = status[t] /\ owner'[t] = owner[t]
    BY <1>0, <1>2, <2>2 DEF EnqueueHSet, HSet, ServerOK
  <2>4. NothingDue'
    BY <1>0, <1>a, <1>b, <2>1, DueStep DEF Early
  <2>5. client'[p] = m /\ \A d \in Client \ {p} : client'[d] = client[d]
    BY <1>0, <2>1 DEF OnlyClient
  <2>6. \A d \in Client : client[d].pc \in HandPc => client[d].task \in Task
    BY DEF TypeInv, ClientsFit, LocalsFit
  <2>7. \A i \in DOMAIN queue : queue[i] \in Task /\ queue[i] # l.task
    BY <2>2 DEF TypeInv, TypeOK, Early, OneTicket
  <2>8. \A d \in Client \ {p} : client[d].pc \in Handed => client[d].task # l.task
    BY <2>2 DEF Early, OneTicket
  <2>9. \A d \in Client \ {p} : client[d].pc # "enqueue_hset"
    BY <1>0 DEF OneProducer, Early, OneTicket
  <2>10. OneTicket'
    BY <2>1, <2>3, <2>5, <2>6, <2>7, <2>8, <2>9 DEF Early, OneTicket, Handed, HandPc
  <2>11. OwnerKnown'
    BY <1>0, <1>b, <2>1, <2>2, <2>3, OwnersUndisturbed DEF Early, ReportPc, Claimed
  <2> QED BY <2>4, <2>10, <2>11 DEF Early
<1>3. CASE EnqueuePush(p)
  <2>1. OnlyClient(p, Idle) /\ l.pc = "enqueue_rpush"
    BY <1>0, <1>3, ControlFits DEF EnqueuePush, Finish, Pc
  <2>2. Idle.expired = <<>> /\ Idle.pc = "idle"
    BY DEF Idle
  <2>3. NothingDue'
    BY <1>0, <1>a, <1>b, <2>1, <2>2, DueStep DEF Early
  <2>4. OneTicket'
    BY <1>0, <1>3, <2>1, <2>2, TicketPushed DEF EnqueuePush, Early, Handed, HandPc
  <2>5. UNCHANGED <<status, owner>>
    BY <1>3 DEF EnqueuePush, RPush, hash
  <2>6. OwnerKnown'
    BY <1>0, <1>b, <2>1, <2>2, <2>5, OwnersUndisturbed DEF Early, ReportPc
  <2> QED BY <2>3, <2>4, <2>6 DEF Early
<1> QED BY <1>1, <1>2, <1>3 DEF Enqueue

(* The head of the queue becomes the ticket of c.                          *)
LEMMA TicketPopped ==
  ASSUME TypeInv, OneTicket, NEW c \in Client, NEW m, OnlyClient(c, m), m.pc = "hgetall",
         queue # <<>>, m.task = Head(queue), queue' = Tail(queue), status' = status
  PROVE  OneTicket'
<1>1. client'[c] = m /\ \A d \in Client \ {c} : client'[d] = client[d]
  BY DEF OnlyClient, TypeInv, TypeOK
<1>2. /\ queue \in Seq(Task) /\ Len(queue) \in Nat \ {0} /\ m.task = queue[1] /\ 1 \in DOMAIN queue
      /\ DOMAIN queue = 1..Len(queue) /\ DOMAIN queue' = 1..(Len(queue) - 1)
      /\ \A i \in DOMAIN queue' : i + 1 \in DOMAIN queue /\ queue'[i] = queue[i + 1]
  BY DEF TypeInv, TypeOK
<1>3. \A i \in DOMAIN queue' : status'[queue'[i]] = "pending" /\ queue'[i] # m.task
  BY <1>2 DEF OneTicket
<1>4. \A i, j \in DOMAIN queue' : queue'[i] = queue'[j] => i = j
  <2> SUFFICES ASSUME NEW i \in DOMAIN queue', NEW j \in DOMAIN queue', queue'[i] = queue'[j] PROVE i = j
    OBVIOUS
  <2>1. i + 1 = j + 1
    BY <1>2 DEF OneTicket
  <2> QED BY <1>2, <2>1
<1>5. \A d \in Client \ {c} : client[d].pc \in Handed =>
        client[d].task # m.task /\ \A i \in DOMAIN queue' : queue'[i] # client[d].task
  BY <1>2 DEF OneTicket
<1>6. status[m.task] = "pending"
  BY <1>2 DEF OneTicket
<1> QED BY <1>1, <1>3, <1>4, <1>5, <1>6 DEF OneTicket, Handed, HandPc

LEMMA ScanIsEarly ==
  ASSUME TypeInv, Early, BeforeExpiry, NEW w \in Worker, ClaimScan(w) \/ Reclaim(w)
  PROVE  Early'
<1> DEFINE l == client[w]
<1>0. w \in Client /\ l \in Locals /\ LocalsFit(l) /\ l.expired = <<>> /\ client \in [Client -> Locals]
  <2>1. w \in Client
    BY DEF Client
  <2> QED BY <2>1, Given DEF Early, NothingDue
<1>1. ClaimScan(w)
  BY <1>0 DEF Reclaim, ReclaimZRem, ReclaimDelete, ReclaimHSet, ReclaimPush, Step, LocalsFit, ReclaimPc
<1>2. PICK p \in ZRangeByScore(Due) :
        client' = [client EXCEPT ![w].expired = p, ![w].pc = AfterReclaim(p)]
  BY <1>1 DEF ClaimScan
<1>3. p = <<>>
  BY ScanIsSeq, NothingToReclaim, RedisAssumption DEF Early
<1> DEFINE m == [l EXCEPT !.expired = <<>>, !.pc = "lpop"]
<1>4. OnlyClient(w, m) /\ m.expired = <<>> /\ m.pc = "lpop"
  BY <1>0, <1>2, <1>3 DEF OnlyClient, AfterReclaim, Locals
<1> HIDE DEF m
<1>5. UNCHANGED <<status, owner, queue, index, beat, leases>>
  BY <1>1 DEF ClaimScan, Others, server, hash
<1>6. NothingDue'
  BY <1>0, <1>4, <1>5, DueStep DEF Early
<1>7. OneTicket'
  BY <1>0, <1>4, <1>5, TicketsKept DEF Early, HandPc
<1>8. OwnerKnown'
  BY <1>0, <1>4, <1>5, OwnersUndisturbed DEF Early, ReportPc
<1> QED BY <1>6, <1>7, <1>8 DEF Early

LEMMA PopIsEarly ==
  ASSUME TypeInv, Early, BeforeExpiry, NEW w \in Worker,
         \/ ClaimPop(w) \/ ClaimNone(w) \/ ClaimRead(w) \/ ClaimSkip(w)
         \/ SetNx(w) \/ SetNxLost(w) \/ ClaimRequeue(w)
  PROVE  Early'
<1> DEFINE l == client[w]
<1>0. w \in Client /\ l \in Locals /\ LocalsFit(l) /\ l.expired = <<>> /\ client \in [Client -> Locals]
  <2>1. w \in Client
    BY DEF Client
  <2> QED BY <2>1, Given DEF Early, NothingDue
<1>1. UNCHANGED <<status, owner, index, beat, leases>>
  BY DEF ClaimPop, ClaimNone, ClaimRead, ClaimSkip, SetNx, SetNxLost, ClaimRequeue, Step, Finish, Others,
         SetLease, RPush, server, hash
<1>2. ASSUME NEW m, OnlyClient(w, m), m.expired = <<>>, m.pc \notin ReportPc \cup {"claim_zadd"},
             m.pc \in {"set_nx", "claim_hset"} => m.expires > LeaseSeconds, OneTicket'
      PROVE  Early'
  <2>1. NothingDue'
    BY <1>0, <1>1, <1>2, DueStep DEF Early
  <2>2. OwnerKnown'
    BY <1>0, <1>1, <1>2, OwnersUndisturbed DEF Early
  <2> QED BY <1>2, <2>1, <2>2 DEF Early
<1>3. CASE ClaimPop(w)
  <2> DEFINE m == [l EXCEPT !.pc = "hgetall", !.task = Head(queue)]
  <2>1. OnlyClient(w, m) /\ m.pc = "hgetall" /\ m.task = Head(queue) /\ m.expired = <<>>
    BY <1>0, <1>3 DEF ClaimPop, OnlyClient, Locals
  <2> HIDE DEF m
  <2>2. OneTicket'
    BY <1>0, <1>1, <1>3, <2>1, TicketPopped DEF ClaimPop, Early
  <2> QED BY <1>2, <2>1, <2>2 DEF ReportPc
<1>4. ASSUME NEW m, OnlyClient(w, m), m.expired = <<>>, queue' = queue, m.pc \notin ReportPc \cup {"claim_zadd"},
             m.pc \in {"set_nx", "claim_hset"} => m.expires > LeaseSeconds,
             \/ m.pc \notin HandPc
             \/ m.pc \in Handed \ {"enqueue_rpush"} /\ l.pc \in Handed /\ m.task = l.task
      PROVE  Early'
  <2>1. OneTicket'
    BY <1>0, <1>1, <1>4, TicketsKept DEF Early
  <2> QED BY <1>2, <1>4, <2>1
<1>5. CASE ClaimNone(w)
  <2>1. OnlyClient(w, Idle) /\ queue' = queue
    BY <1>0, <1>5, ControlFits DEF ClaimNone, Pc, server
  <2>2. Idle.expired = <<>> /\ Idle.pc = "idle"
    BY DEF Idle
  <2> QED BY <1>4, <2>1, <2>2 DEF HandPc, ReportPc
<1>6. CASE ClaimRead(w)
  <2> DEFINE m == [l EXCEPT !.pc = "set_nx", !.expires = now + LeaseSeconds]
  <2>1. /\ OnlyClient(w, m) /\ m.pc = "set_nx" /\ m.task = l.task /\ m.expired = <<>>
        /\ m.expires = now + LeaseSeconds /\ l.pc = "hgetall" /\ queue' = queue
    BY <1>0, <1>6 DEF ClaimRead, OnlyClient, Locals, server
  <2> HIDE DEF m
  <2>2. m.expires > LeaseSeconds
    BY <2>1, RedisAssumption DEF RedisAssumption, TypeInv, TypeOK
  <2> QED BY <1>4, <2>1, <2>2 DEF Handed, HandPc, ReportPc
<1>7. CASE ClaimSkip(w)
  <2> DEFINE m == [l EXCEPT !.pc = "lpop", !.task = NoTask]
  <2>1. OnlyClient(w, m) /\ m.pc = "lpop" /\ m.expired = <<>> /\ queue' = queue
    BY <1>0, <1>7 DEF ClaimSkip, OnlyClient, Locals, server
  <2> HIDE DEF m
  <2> QED BY <1>4, <2>1 DEF HandPc, ReportPc
<1>8. CASE SetNx(w) \/ SetNxLost(w)
  <2>1. PICK to \in {"claim_hset", "requeue"} : Step(w, "set_nx", to)
    BY <1>8 DEF SetNx, SetNxLost
  <2> DEFINE m == [l EXCEPT !.pc = to]
  <2>2. OnlyClient(w, m) /\ l.pc = "set_nx"
    BY <1>0, <2>1, ControlFits DEF Pc, Step
  <2>3. m.pc = to /\ m.task = l.task /\ m.expired = <<>> /\ m.expires = l.expires
    BY <1>0 DEF Locals
  <2> HIDE DEF m
  <2>4. l.expires > LeaseSeconds
    BY <1>0, <2>2 DEF Early, NothingDue
  <2>5. queue' = queue
    BY <1>8 DEF SetNx, SetNxLost, SetLease, server
  <2> QED BY <1>4, <2>2, <2>3, <2>4, <2>5 DEF Handed, HandPc, ReportPc
<1>9. CASE ClaimRequeue(w)
  <2>1. OnlyClient(w, Idle) /\ l.pc = "requeue"
    BY <1>0, <1>9, ControlFits DEF ClaimRequeue, Finish, Pc
  <2>2. Idle.expired = <<>> /\ Idle.pc = "idle"
    BY DEF Idle
  <2>3. OneTicket'
    BY <1>0, <1>9, <2>1, <2>2, TicketPushed DEF ClaimRequeue, Early, Handed, HandPc
  <2> QED BY <1>2, <2>1, <2>2, <2>3 DEF ReportPc
<1> QED BY <1>3, <1>5, <1>6, <1>7, <1>8, <1>9

LEMMA ClaimIsEarly ==
  ASSUME TypeInv, Early, BeforeExpiry, NEW w \in Worker, Claim(w)
  PROVE  Early'
<1> DEFINE l == client[w]
<1>0. /\ w \in Client /\ ServerOK /\ l \in Locals /\ LocalsFit(l) /\ l.expired = <<>>
      /\ client \in [Client -> Locals]
  <2>1. w \in Client
    BY DEF Client
  <2> QED BY <2>1, Given DEF Early, NothingDue
<1>1. CASE ClaimHSet(w)
  <2> DEFINE m == [l EXCEPT !.pc = "claim_zadd"]
  <2>0. OnlyClient(w, m) /\ l.pc = "claim_hset"
    BY <1>0, <1>1, ControlFits DEF ClaimHSet, Step, Pc
  <2>1. m.pc = "claim_zadd" /\ m.task = l.task /\ m.expired = <<>> /\ m.expires = l.expires
    BY <1>0 DEF Locals
  <2> HIDE DEF m
  <2>2. l.task \in Task /\ status[l.task] = "pending" /\ l.expires > LeaseSeconds
    BY <1>0, <2>0 DEF LocalsFit, HandPc, Handed, Early, OneTicket, NothingDue
  <2>3. /\ UNCHANGED <<queue, index, beat, leases>>
        /\ status'[l.task] = "in_progress" /\ owner'[l.task] = w
        /\ \A t \in Task \ {l.task} : status'[t] = status[t] /\ owner'[t] = owner[t]
    BY <1>0, <1>1, <2>2 DEF ClaimHSet, Step, Others, HSet, ServerOK
  <2>4. client'[w] = m /\ \A d \in Client \ {w} : client'[d] = client[d]
    BY <1>0, <2>0 DEF OnlyClient
  <2>5. NothingDue'
    BY <1>0, <2>0, <2>1, <2>2, <2>3, DueStep DEF Early
  <2>6. OneTicket'
    <3>1. \A d \in Client \ {w} : client[d].pc \in HandPc => client[d].task \in Task
      BY DEF TypeInv, ClientsFit, LocalsFit
    <3>2. \A d \in Client \ {w} : client[d].pc \in HandPc => client[d].task # l.task
      BY <1>0, <2>0, <2>2 DEF Early, OneTicket, Handed, HandPc
    <3>3. \A i \in DOMAIN queue : queue[i] \in Task /\ queue[i] # l.task
      <4>1. \A i \in DOMAIN queue : queue[i] \in Task
        BY <1>0 DEF ServerOK
      <4> QED BY <1>0, <2>0, <4>1 DEF Early, OneTicket, Handed, HandPc
    <3> QED BY <2>1, <2>3, <2>4, <3>1, <3>2, <3>3 DEF Early, OneTicket, Handed, HandPc
  <2>7. OwnerKnown'
    <3>1. ASSUME NEW v \in Worker, NEW t \in Task, Owns(v, t)'
          PROVE  status'[t] \in Claimed /\ owner'[t] = v
      <4>1. v \in Client
        BY DEF Client
      <4>2. CASE v = w /\ t = l.task
        BY <2>3, <4>2 DEF Claimed
      <4>3. CASE ~(v = w /\ t = l.task)
        <5>1. Owns(v, t)
          BY <2>1, <2>3, <2>4, <3>1, <4>1, <4>3 DEF Owns
        <5>2. status[t] \in Claimed /\ owner[t] = v
          BY <5>1 DEF Early, OwnerKnown
        <5> QED BY <2>2, <2>3, <5>2 DEF Claimed
      <4> QED BY <4>2, <4>3
    <3>2. ASSUME NEW d \in Client, client'[d].pc \in ReportPc \ {"complete_hset", "fail_hset"}
          PROVE  status'[client'[d].task] \in {"completed", "failed"}
      <4>1. d # w
        BY <2>1, <2>4, <3>2 DEF ReportPc
      <4>2. client'[d] = client[d] /\ client[d].task \in Task
        BY <2>4, <3>2, <4>1 DEF TypeInv, ClientsFit, LocalsFit
      <4>3. status[client[d].task] \in {"completed", "failed"}
        BY <3>2, <4>2 DEF Early, OwnerKnown, Finished
      <4> QED BY <2>2, <2>3, <4>2, <4>3
    <3> QED BY <3>1, <3>2 DEF OwnerKnown, Finished
  <2> QED BY <2>5, <2>6, <2>7 DEF Early
<1>2. CASE ClaimZAdd(w)
  <2>0. OnlyClient(w, Idle) /\ l.pc = "claim_zadd"
    BY <1>0, <1>2 DEF ClaimZAdd, OnlyClient
  <2>1. Idle.expired = <<>> /\ Idle.pc = "idle"
    BY DEF Idle
  <2>2. l.task \in Task /\ l.expires > LeaseSeconds
    BY <1>0, <2>0 DEF LocalsFit, Early, NothingDue
  <2>3. /\ UNCHANGED <<queue, status, owner, beat>>
        /\ \A t \in Task : index'[t] = index[t] \/ index'[t] > LeaseSeconds
        /\ \A v \in Worker, t \in Task : leases'[v][t] = leases[v][t] \/ (v = w /\ t = l.task)
    BY <1>0, <1>2, <2>2 DEF ClaimZAdd, ZAdd, hash, ServerOK, TypeInv, TypeOK
  <2>4. client'[w] = Idle /\ \A d \in Client \ {w} : client'[d] = client[d]
    BY <1>0, <2>0 DEF OnlyClient
  <2>5. NothingDue'
    BY <1>0, <2>0, <2>1, <2>3, DueStep DEF Early
  <2>6. OneTicket'
    BY <1>0, <2>0, <2>1, <2>3, TicketsKept DEF Early, HandPc
  <2>7. OwnerKnown'
    <3>1. ASSUME NEW v \in Worker, NEW t \in Task, Owns(v, t)' PROVE Owns(v, t)
      <4>1. v \in Client
        BY DEF Client
      <4> QED BY <2>0, <2>1, <2>3, <2>4, <3>1, <4>1 DEF Owns, ReportPc
    <3>2. ASSUME NEW d \in Client, client'[d].pc \in ReportPc \ {"complete_hset", "fail_hset"}
          PROVE  status'[client'[d].task] \in {"completed", "failed"}
      <4>1. client'[d] = client[d]
        BY <2>1, <2>4, <3>2 DEF ReportPc
      <4> QED BY <2>3, <3>2, <4>1 DEF Early, OwnerKnown, Finished
    <3>3. UNCHANGED <<status, owner>>
      BY <2>3
    <3> QED BY <3>1, <3>2, <3>3, OwnersKept DEF Early
  <2> QED BY <2>5, <2>6, <2>7 DEF Early
<1> QED BY <1>1, <1>2, ScanIsEarly, PopIsEarly DEF Claim

LEMMA ReportIsEarly ==
  ASSUME TypeInv, Early, NEW w \in Worker, Complete(w) \/ Fail(w)
  PROVE  Early'
<1> DEFINE l == client[w]
<1>0. /\ w \in Client /\ ServerOK /\ l \in Locals /\ LocalsFit(l) /\ l.expired = <<>>
      /\ client \in [Client -> Locals]
  <2>1. w \in Client
    BY DEF Client
  <2> QED BY <2>1, Given DEF Early, NothingDue
<1>1. UNCHANGED <<queue, beat, leases>>
  BY DEF Complete, CompleteCheck, CompleteHSet, CompleteZRem, CompleteDelete, CompletePush, Fail, FailCheck,
         FailHSet, FailZRem, FailDelete, Start, Step, Finish, Others, HSet, ZRem, ZAdd, DeleteLease, server
<1>2. PICK m : OnlyClient(w, m)
  BY <1>0, OneClientMoves
<1>3. client'[w] = m /\ \A d \in Client \ {w} : client'[d] = client[d]
  BY <1>0, <1>2 DEF OnlyClient
<1>4. m.expired = <<>> /\ m.pc \in ReportPc \cup {"idle"}
  <2>1. ASSUME NEW from, NEW to \in ReportPc, Step(w, from, to) PROVE client'[w].expired = <<>> /\ client'[w].pc = to
    BY <1>0, <2>1 DEF Step, Locals
  <2>2. ASSUME NEW from, Finish(w, from) PROVE client'[w].expired = <<>> /\ client'[w].pc = "idle"
    BY <1>0, <2>2 DEF Finish, Idle
  <2>3. ASSUME NEW pc \in ReportPc, NEW t \in Task, Start(w, pc, t)
        PROVE  client'[w].expired = <<>> /\ client'[w].pc = pc
    BY <1>0, <2>3 DEF Start, Locals
  <2> QED BY <1>3, <2>1, <2>2, <2>3
          DEF Complete, CompleteCheck, CompleteHSet, CompleteZRem, CompleteDelete, CompletePush, Fail,
              FailCheck, FailHSet, FailZRem, FailDelete, ReportPc
<1>5. \A t \in Task : index'[t] = index[t] \/ index'[t] = 0
  <2>1. CASE CompleteZRem(w) \/ FailZRem(w)
    <3>1. l.task \in Task
      BY <1>0, <2>1 DEF CompleteZRem, FailZRem, Step, LocalsFit, ReportPc
    <3> QED BY <1>0, <2>1, <3>1 DEF CompleteZRem, FailZRem, ZRem, ZAdd, ServerOK
  <2>2. CASE ~(CompleteZRem(w) \/ FailZRem(w))
    BY <2>2 DEF Complete, CompleteCheck, CompleteHSet, CompleteDelete, CompletePush, Fail, FailCheck,
                FailHSet, FailDelete, HSet, DeleteLease, server
  <2> QED BY <2>1, <2>2
<1>6. NothingDue'
  BY <1>0, <1>1, <1>2, <1>4, <1>5, DueStep DEF Early, ReportPc
<1>7. ASSUME NEW t \in Task
      PROVE  /\ owner'[t] = owner[t]
             /\ \/ status'[t] = status[t]
                \/ status[t] \in Claimed /\ status'[t] \in {"completed", "failed"}
  <2>1. CASE CompleteHSet(w) \/ FailHSet(w)
    <3>1. l.task \in Task /\ l.pc \in ReportPc
      BY <1>0, <2>1 DEF CompleteHSet, FailHSet, Step, LocalsFit, ReportPc
    <3>2. Owns(w, l.task)
      BY <3>1 DEF Owns
    <3>3. status[l.task] \in Claimed
      BY <3>1, <3>2 DEF Early, OwnerKnown
    <3>4. PICK s \in {"completed", "failed"} : HSet(l.task, s, owner[l.task])
      BY <2>1 DEF CompleteHSet, FailHSet, Keep
    <3> QED BY <1>0, <3>1, <3>3, <3>4 DEF HSet, ServerOK
  <2>2. CASE ~(CompleteHSet(w) \/ FailHSet(w))
    BY <2>2 DEF Complete, CompleteCheck, CompleteZRem, CompleteDelete, CompletePush, Fail, FailCheck,
                FailZRem, FailDelete, ZRem, ZAdd, DeleteLease, server, hash
  <2> QED BY <2>1, <2>2
<1>8. OneTicket'
  <2>1. \A t \in Task : status[t] \in {"absent", "pending"} => status'[t] = status[t]
    BY <1>7 DEF Claimed
  <2> QED BY <1>0, <1>1, <1>2, <1>4, <2>1, TicketsKept DEF Early, ReportPc, HandPc
<1>9. OwnerKnown'
  <2>1. ASSUME NEW v \in Worker, NEW t \in Task, Owns(v, t)' PROVE Owns(v, t)
    <3>1. v \in Client
      BY DEF Client
    <3>2. CASE v # w \/ client'[w] = l
      BY <1>1, <1>3, <2>1, <3>1, <3>2 DEF Owns
    <3>3. CASE v = w /\ (CompleteCheck(w, t) \/ FailCheck(w, t))
      BY <3>3 DEF CompleteCheck, FailCheck, MayReport, Owns
    <3>4. CASE v = w /\ ~(CompleteCheck(w, t) \/ FailCheck(w, t))
      <4>1. ASSUME NEW u \in Task, CompleteCheck(w, u) \/ FailCheck(w, u), u # t PROVE Owns(v, t)
        <5>1. client'[w].task = u
          BY <1>0, <4>1 DEF CompleteCheck, FailCheck, Start, Locals
        <5> QED BY <1>1, <2>1, <3>4, <4>1, <5>1 DEF Owns
      <4>2. ASSUME NEW from \in ReportPc, NEW to, Step(w, from, to) PROVE Owns(v, t)
        <5>1. client'[w].task = l.task /\ l.pc = from
          BY <1>0, <4>2 DEF Step, Locals
        <5> QED BY <1>1, <2>1, <3>4, <4>2, <5>1 DEF Owns
      <4>3. ASSUME NEW from, Finish(w, from) PROVE Owns(v, t)
        <5>1. client'[w].pc = "idle"
          BY <1>0, <4>3 DEF Finish, Idle
        <5> QED BY <1>1, <2>1, <3>4, <5>1 DEF Owns, ReportPc
      <4> QED BY <3>4, <4>1, <4>2, <4>3
              DEF Complete, CompleteHSet, CompleteZRem, CompleteDelete, CompletePush, Fail,
                  FailHSet, FailZRem, FailDelete, ReportPc
    <3> QED BY <3>2, <3>3, <3>4
  <2>2. ASSUME NEW t \in Task, status[t] \in Claimed PROVE status'[t] \in Claimed /\ owner'[t] = owner[t]
    BY <1>7, <2>2 DEF Claimed
  <2>3. ASSUME NEW d \in Client, client'[d].pc \in ReportPc \ {"complete_hset", "fail_hset"}
        PROVE  status'[client'[d].task] \in {"completed", "failed"}
    <3>1. ASSUME NEW u \in Task, status[u] \in {"completed", "failed"} PROVE status'[u] \in {"completed", "failed"}
      BY <1>7, <3>1
    <3>2. CASE d # w \/ l.pc \in ReportPc \ {"complete_hset", "fail_hset"}
      <4>1. client'[d].task = client[d].task /\ client[d].pc \in ReportPc \ {"complete_hset", "fail_hset"}
        <5>1. CASE d # w
          BY <1>3, <2>3, <5>1
        <5>2. CASE d = w
          <6>1. ~(CompleteHSet(w) \/ FailHSet(w) \/ \E t \in Task : CompleteCheck(w, t) \/ FailCheck(w, t))
            BY <3>2, <5>2 DEF CompleteHSet, FailHSet, CompleteCheck, FailCheck, Start, Step, ReportPc
          <6>2. ~(CompletePush(w) \/ FailDelete(w))
            BY <1>0, <2>3, <5>2 DEF CompletePush, FailDelete, Finish, Idle, ReportPc
          <6>3. PICK from, to \in ReportPc : Step(w, from, to)
            BY <6>1, <6>2 DEF Complete, CompleteZRem, CompleteDelete, Fail, FailZRem, ReportPc
          <6> QED BY <1>0, <3>2, <5>2, <6>3 DEF Step, Locals
        <5> QED BY <5>1, <5>2
      <4>2. client[d].task \in Task /\ status[client[d].task] \in {"completed", "failed"}
        BY <4>1 DEF TypeInv, ClientsFit, LocalsFit, Early, OwnerKnown, Finished
      <4> QED BY <3>1, <4>1, <4>2
    <3>3. CASE d = w /\ l.pc \notin ReportPc \ {"complete_hset", "fail_hset"}
      <4>1. CompleteHSet(w) \/ FailHSet(w)
        <5>1. ~\E t \in Task : CompleteCheck(w, t) \/ FailCheck(w, t)
          BY <1>0, <2>3, <3>3 DEF CompleteCheck, FailCheck, Start, Locals
        <5> QED BY <3>3, <5>1
                DEF Complete, CompleteZRem, CompleteDelete, CompletePush, Fail, FailZRem, FailDelete, Step,
                    Finish, ReportPc
      <4>2. l.task \in Task /\ client'[w].task = l.task
        BY <1>0, <4>1 DEF CompleteHSet, FailHSet, Step, LocalsFit, ReportPc, Locals
      <4> QED BY <1>0, <3>3, <4>1, <4>2 DEF CompleteHSet, FailHSet, HSet, ServerOK
    <3> QED BY <3>2, <3>3
  <2> QED BY <2>1, <2>2, <2>3, OwnersKept DEF Early
<1> QED BY <1>6, <1>8, <1>9 DEF Early

LEMMA HeartbeatIsEarly ==
  ASSUME TypeInv, Early, BeatsLengthen, NEW w \in Worker, Heartbeat(w)
  PROVE  Early'
<1>1. UNCHANGED <<status, owner, queue, client, leases, now>>
  BY DEF Heartbeat, BeatOwner, BeatStatus, BeatZAdd, BeatSet, ZAdd, SetLease, server, hash
<1>2. \A v \in Worker \ {w} : beat'[v] = beat[v]
  BY DEF Heartbeat, BeatOwner, BeatStatus, BeatZAdd, BeatSet, TypeInv, TypeOK
<1>3. OneTicket'
  BY <1>1 DEF Early, OneTicket
<1>4. \A t \in Task : index'[t] = index[t] \/ index'[t] > LeaseSeconds
  <2>1. CASE BeatZAdd(w)
    <3>1. beat[w].task \in Task /\ beat[w].expires > LeaseSeconds
      BY <2>1 DEF BeatZAdd, TypeInv, BeatsFit, Early, NothingDue
    <3> QED BY <2>1, <3>1 DEF BeatZAdd, ZAdd, TypeInv, TypeOK
  <2>2. CASE ~BeatZAdd(w)
    BY <2>2 DEF Heartbeat, BeatOwner, BeatStatus, BeatSet, SetLease, server
  <2> QED BY <2>1, <2>2
<1>5. beat'[w].pc \in {"zadd", "set"} => beat'[w].expires > LeaseSeconds
  <2>0. beat[w] \in [pc: {"idle", "status", "zadd", "set"}, task: Task \cup {NoTask}, expires: Nat]
    BY DEF TypeInv, TypeOK
  <2>1. CASE (\E t \in Task : BeatOwner(w, t)) \/ BeatSet(w)
    BY <2>1 DEF BeatOwner, BeatSet, IdleBeat, TypeInv, TypeOK
  <2>2. CASE BeatStatus(w)
    <3>1. now + HeartbeatSeconds > LeaseSeconds
      BY RedisAssumption DEF BeatsLengthen, RedisAssumption, TypeInv, TypeOK
    <3>2. beat'[w] = IdleBeat \/ beat'[w].expires = now + HeartbeatSeconds
      BY <2>0, <2>2 DEF BeatStatus, TypeInv, TypeOK
    <3> QED BY <3>1, <3>2 DEF IdleBeat
  <2>3. CASE BeatZAdd(w)
    <3>1. beat'[w].expires = beat[w].expires /\ beat[w].pc = "zadd"
      BY <2>0, <2>3 DEF BeatZAdd, TypeInv, TypeOK
    <3> QED BY <3>1 DEF Early, NothingDue
  <2> QED BY <2>1, <2>2, <2>3 DEF Heartbeat
<1>6. NothingDue'
  BY <1>1, <1>2, <1>4, <1>5 DEF Early, NothingDue
<1>7. OwnerKnown'
  <2>1. ASSUME NEW v \in Worker, NEW t \in Task, Owns(v, t)' PROVE Owns(v, t)
    <3>1. CASE v # w
      BY <1>1, <1>2, <2>1, <3>1 DEF Owns
    <3>2. CASE v = w /\ (\E u \in Task : BeatOwner(w, u))
      BY <1>1, <2>1, <3>2 DEF Owns, BeatOwner, TypeInv, TypeOK
    <3>3. CASE v = w /\ (BeatStatus(w) \/ BeatZAdd(w) \/ BeatSet(w))
      <4>0. beat[w] \in [pc: {"idle", "status", "zadd", "set"}, task: Task \cup {NoTask}, expires: Nat]
        BY DEF TypeInv, TypeOK
      <4>1. beat'[w].pc = "idle" \/ (beat'[w].task = beat[w].task /\ beat[w].pc # "idle")
        <5>1. CASE BeatStatus(w)
          <6>1. \/ beat'[w] = IdleBeat
                \/ beat'[w] = [beat[w] EXCEPT !.pc = "zadd", !.expires = now + HeartbeatSeconds]
            BY <4>0, <5>1 DEF BeatStatus, TypeInv, TypeOK
          <6> QED BY <4>0, <5>1, <6>1 DEF BeatStatus, IdleBeat
        <5>2. CASE BeatZAdd(w) \/ BeatSet(w)
          BY <4>0, <5>2 DEF BeatZAdd, BeatSet, IdleBeat, TypeInv, TypeOK
        <5> QED BY <3>3, <5>1, <5>2
      <4> QED BY <1>1, <2>1, <3>3, <4>1 DEF Owns
    <3> QED BY <3>1, <3>2, <3>3 DEF Heartbeat
  <2>2. \A c \in Client : client'[c].pc \in ReportPc \ {"complete_hset", "fail_hset"} =>
                            status'[client'[c].task] \in {"completed", "failed"}
    BY <1>1 DEF Early, OwnerKnown, Finished
  <2> QED BY <1>1, <2>1, <2>2, OwnersKept DEF Early
<1> QED BY <1>3, <1>6, <1>7 DEF Early

LEMMA CrashIsEarly ==
  ASSUME TypeInv, Early, NEW c \in Client, Crash(c)
  PROVE  Early'
<1>1. OnlyClient(c, Idle) /\ UNCHANGED <<status, owner, queue, index, leases>>
  BY DEF Crash, OnlyClient, server, hash
<1>2. Idle.pc = "idle" /\ Idle.expired = <<>>
  BY DEF Idle
<1>3. client'[c] = Idle /\ \A d \in Client \ {c} : client'[d] = client[d]
  BY <1>1 DEF OnlyClient, TypeInv, TypeOK
<1>4. \A w \in Worker : beat'[w].pc = "idle" \/ beat'[w] = beat[w]
  BY DEF Crash, IdleBeat
<1>5. NothingDue'
  BY <1>1, <1>2, <1>3, <1>4 DEF Early, NothingDue
<1>6. OneTicket'
  BY <1>1, <1>2, TicketsKept DEF Early, HandPc
<1>7. OwnerKnown'
  <2>1. ASSUME NEW w \in Worker, NEW t \in Task, Owns(w, t)' PROVE Owns(w, t)
    <3>1. w \in Client
      BY DEF Client
    <3> QED BY <1>1, <1>2, <1>3, <1>4, <2>1, <3>1 DEF Owns, ReportPc
  <2>2. ASSUME NEW d \in Client, client'[d].pc \in ReportPc \ {"complete_hset", "fail_hset"}
        PROVE  status'[client'[d].task] \in {"completed", "failed"}
    <3>1. client'[d] = client[d]
      BY <1>2, <1>3, <2>2 DEF ReportPc
    <3> QED BY <1>1, <2>2, <3>1 DEF Early, OwnerKnown, Finished
  <2> QED BY <1>1, <2>1, <2>2, OwnersKept DEF Early
<1> QED BY <1>5, <1>6, <1>7 DEF Early

LEMMA EarlyInit == Init => EarlyInv
<1> SUFFICES ASSUME Init PROVE Early
  BY DEF EarlyInv
<1>1. NothingDue
  BY DEF Init, NothingDue, Idle, IdleBeat
<1>2. OneTicket
  BY DEF Init, OneTicket, Idle, Handed, HandPc
<1>3. OwnerKnown
  BY DEF Init, OwnerKnown, Owns, Idle, IdleBeat, ReportPc, Client
<1> QED BY <1>1, <1>2, <1>3 DEF Early

(* The methods take no time of their own.                                   *)
LEMMA OnlyTicksTakeTime == Next /\ ~Tick => now' = now
<1>1. ASSUME NEW p, Enqueue(p) PROVE now' = now
  BY <1>1 DEF Enqueue, EnqueueCheck, EnqueueHSet, EnqueuePush, Start, Step, Finish, Others
<1>2. ASSUME NEW w, Reclaim(w) PROVE now' = now
  BY <1>2 DEF Reclaim, ReclaimZRem, ReclaimDelete, ReclaimHSet, ReclaimPush, Step, Others
<1>3. ASSUME NEW w, ClaimScan(w) \/ ClaimRest(w) PROVE now' = now
  BY <1>3 DEF ClaimScan, ClaimRest, ClaimPop, ClaimNone, ClaimRead, ClaimSkip, SetNx, SetNxLost,
       ClaimRequeue, ClaimHSet, ClaimZAdd, Step, Finish, Others
<1>4. ASSUME NEW w, Complete(w) PROVE now' = now
  BY <1>4 DEF Complete, CompleteCheck, CompleteHSet, CompleteZRem, CompleteDelete, CompletePush,
       Start, Step, Finish, Others
<1>5. ASSUME NEW w, Fail(w) PROVE now' = now
  BY <1>5 DEF Fail, FailCheck, FailHSet, FailZRem, FailDelete, Start, Step, Finish, Others
<1>6. ASSUME NEW w, Heartbeat(w) PROVE now' = now
  BY <1>6 DEF Heartbeat, BeatOwner, BeatStatus, BeatZAdd, BeatSet
<1>7. ASSUME NEW c, Crash(c) PROVE now' = now
  BY <1>7 DEF Crash
<1> QED BY <1>1, <1>2, <1>3, <1>4, <1>5, <1>6, <1>7 DEF Next, Claim, ClaimRest

LEMMA EarlyStep ==
  ASSUME BeatsLengthen, OneProducer, TypeInv, EarlyInv, [Next]_vars
  PROVE  EarlyInv'
<1>1. UNCHANGED <<status, owner, queue, index, client, beat, leases>> /\ Early => Early'
  <2> SUFFICES ASSUME UNCHANGED <<status, owner, queue, index, client, beat, leases>>, Early PROVE Early'
    OBVIOUS
  <2>1. NothingDue' /\ OneTicket'
    BY DEF Early, NothingDue, OneTicket
  <2>2. OwnerKnown'
    BY DEF Early, OwnerKnown, Owns, Finished
  <2> QED BY <2>1, <2>2 DEF Early
<1>2. CASE Tick \/ UNCHANGED vars
  <2>1. /\ UNCHANGED <<status, owner, queue, index, client, beat, leases>>
        /\ now \in Nat /\ (now' = now \/ now' = now + 1)
    BY <1>2, RedisAssumption DEF Tick, vars, server, hash, RedisAssumption, TypeInv, TypeOK
  <2>2. BeforeExpiry' => BeforeExpiry
    BY <2>1, RedisAssumption DEF BeforeExpiry, RedisAssumption
  <2> QED BY <1>1, <2>1, <2>2 DEF EarlyInv
<1>3. CASE now' = now /\ BeforeExpiry /\ Next /\ ~Tick
  <2>1. Early
    BY <1>3 DEF EarlyInv
  <2>2. Early'
    BY <1>3, <2>1, EnqueueIsEarly, ClaimIsEarly, ReportIsEarly, HeartbeatIsEarly, CrashIsEarly DEF Next
  <2> QED BY <2>2 DEF EarlyInv
<1>4. CASE now' = now /\ ~BeforeExpiry
  BY <1>4 DEF EarlyInv, BeforeExpiry
<1>5. Next /\ ~Tick => now' = now
  BY OnlyTicksTakeTime
<1> QED BY <1>2, <1>3, <1>4, <1>5

(* Early, the only steps that change what is finished are those of reports *)
(* that finish it again.                                                   *)
LEMMA FinishedStays ==
  ASSUME TypeInv, Early, [Next]_vars, NEW t \in Task, Finished(t)
  PROVE  Finished(t)'
<1>1. ASSUME status' = status PROVE Finished(t)'
  BY <1>1 DEF Finished
<1>2. ASSUME NEW u \in Task, NEW s, NEW o, HSet(u, s, o), u # t \/ s \in {"completed", "failed"}
      PROVE  Finished(t)'
  BY <1>2 DEF HSet, Finished, TypeInv, TypeOK
<1>0. \A c \in Client : LocalsFit(client[c])
  BY DEF TypeInv, ClientsFit
<1>3. ASSUME NEW p \in Producer, Enqueue(p) PROVE Finished(t)'
  <2>1. CASE EnqueueHSet(p)
    <3>1. client[p].task \in Task /\ status[client[p].task] = "absent"
      BY <1>0, <2>1 DEF EnqueueHSet, Step, LocalsFit, HandPc, Early, OneTicket, Client
    <3>2. client[p].task # t
      BY <3>1 DEF Finished
    <3> QED BY <1>2, <2>1, <3>1, <3>2 DEF EnqueueHSet
  <2>2. CASE ~EnqueueHSet(p)
    BY <1>1, <1>3, <2>2 DEF Enqueue, EnqueueCheck, EnqueuePush, RPush, server, hash
  <2> QED BY <2>1, <2>2
<1>4. ASSUME NEW w \in Worker, Claim(w) PROVE Finished(t)'
  <2>0. w \in Client
    BY DEF Client
  <2>1. ~ReclaimHSet(w)
    BY <1>0, <2>0 DEF ReclaimHSet, Step, LocalsFit, ReclaimPc, Early, NothingDue
  <2>2. CASE ClaimHSet(w)
    <3>1. client[w].task \in Task /\ status[client[w].task] = "pending"
      BY <1>0, <2>0, <2>2 DEF ClaimHSet, Step, LocalsFit, Handed, HandPc, Early, OneTicket
    <3>2. client[w].task # t
      BY <3>1 DEF Finished
    <3> QED BY <1>2, <2>2, <3>1, <3>2 DEF ClaimHSet
  <2>3. CASE ~ClaimHSet(w)
    BY <1>1, <1>4, <2>1, <2>3
       DEF Claim, ClaimScan, Reclaim, ReclaimZRem, ReclaimDelete, ReclaimPush, ClaimPop, ClaimNone, ClaimRead,
           ClaimSkip, SetNx, SetNxLost, ClaimRequeue, ClaimZAdd, ZRem, ZAdd, RPush, SetLease, DeleteLease,
           server, hash
  <2> QED BY <2>2, <2>3
<1>5. ASSUME NEW w \in Worker, Complete(w) \/ Fail(w) PROVE Finished(t)'
  <2>1. CASE CompleteHSet(w) \/ FailHSet(w)
    <3>1. client[w].task \in Task
      BY <1>0, <2>1 DEF CompleteHSet, FailHSet, Step, LocalsFit, ReportPc, Client
    <3> QED BY <1>2, <2>1, <3>1 DEF CompleteHSet, FailHSet
  <2>2. CASE ~(CompleteHSet(w) \/ FailHSet(w))
    BY <1>1, <1>5, <2>2
       DEF Complete, CompleteCheck, CompleteZRem, CompleteDelete, CompletePush, Fail, FailCheck,
           FailZRem, FailDelete, ZRem, ZAdd, DeleteLease, server, hash
  <2> QED BY <2>1, <2>2
<1>6. ASSUME NEW w \in Worker, Heartbeat(w) PROVE Finished(t)'
  BY <1>1, <1>6 DEF Heartbeat, BeatOwner, BeatStatus, BeatZAdd, BeatSet, ZAdd, SetLease, server, hash
<1>7. CASE (\E c \in Client : Crash(c)) \/ Tick \/ UNCHANGED vars
  BY <1>1, <1>7 DEF Crash, Tick, vars, server, hash
<1> QED BY <1>3, <1>4, <1>5, <1>6, <1>7 DEF Next

LEMMA OneLeaseEach ==
  ASSUME TypeInv, EarlyInv, RedisAssumption
  PROVE  EarlyLeasesAreExclusive
<1> SUFFICES ASSUME Early, NEW t \in Task, NEW v \in Worker, NEW w \in Worker,
                    leases[v][t] > now, leases[w][t] > now
             PROVE  v = w
  BY DEF EarlyInv, EarlyLeasesAreExclusive, ExclusiveLease
<1>1. leases[v][t] # 0 /\ leases[w][t] # 0
  BY DEF TypeInv, TypeOK, RedisAssumption
<1> QED BY <1>1 DEF Early, OwnerKnown, Owns

(* Up to the first expiry no two workers hold leases on one task and no    *)
(* reported task is handed out again, whoever dies in the middle of a      *)
(* claim, if heartbeats do not shorten leases and one producer enqueues    *)
(* (claim, complete, fail, heartbeat).                                     *)
THEOREM EarlyStaysSafe == ASSUME BeatsLengthen, OneProducer PROVE Spec => EarlyIsSafe
<1>1. TypeInv /\ EarlyInv /\ [Next]_vars => EarlyInv'
  BY EarlyStep
<1>2. TypeInv /\ EarlyInv => EarlyLeasesAreExclusive
  BY OneLeaseEach, RedisAssumption
<1>3. TypeInv /\ EarlyInv /\ [Next]_vars =>
        [BeforeExpiry => \A t \in Task : Finished(t) => Finished(t)']_vars
  BY FinishedStays DEF EarlyInv
<1> QED BY <1>1, <1>2, <1>3, TypeInit, TypeStep, EarlyInit, PTL DEF Spec, EarlyIsSafe, EarlyReportsAreFinal

----------------------------------------------------------------------------
(* Until the first expiry, and as long as no process has died, a task in   *)
(* progress is in the index of leases or about to be added to it.          *)
Adding(l, t) == l.task = t /\ l.pc = "claim_zadd"

(* A step of client c to locals m that puts no task in progress, and       *)
(* neither drops one from the index nor the intent to add it.              *)
LEMMA IndexKept ==
  ASSUME TypeInv, BeforeExpiry, InProgressIsReclaimable, NEW c \in Client, NEW m, OnlyClient(c, m),
         crashes' = crashes,
         \A t \in Task : status'[t] = "in_progress" =>
           \/ c \in Worker /\ Adding(m, t)
           \/ index'[t] # 0
           \/ status[t] = "in_progress" /\ ~Adding(client[c], t) /\ index[t] = 0
  PROVE  InProgressIsReclaimable'
<1>1. client'[c] = m /\ \A d \in Client \ {c} : client'[d] = client[d]
  BY DEF OnlyClient, TypeInv, TypeOK
<1> SUFFICES ASSUME crashes = 0, NEW t \in Task, status'[t] = "in_progress"
             PROVE  index'[t] # 0 \/ \E w \in Worker : client'[w].task = t /\ client'[w].pc = "claim_zadd"
  BY DEF InProgressIsReclaimable
<1>2. CASE c \in Worker /\ Adding(m, t)
  BY <1>1, <1>2 DEF Adding
<1>3. CASE status[t] = "in_progress" /\ ~Adding(client[c], t) /\ index[t] = 0
  <2>1. PICK w \in Worker : Adding(client[w], t)
    BY <1>3 DEF InProgressIsReclaimable, Adding
  <2>2. client'[w] = client[w]
    BY <1>1, <1>3, <2>1 DEF Client
  <2> QED BY <2>1, <2>2 DEF Adding
<1> QED BY <1>2, <1>3

LEMMA EnqueueKeepsIndex ==
  ASSUME TypeInv, BeforeExpiry, InProgressIsReclaimable, NEW p \in Producer, Enqueue(p)
  PROVE  InProgressIsReclaimable'
<1>1. p \in Client
  BY DEF Client
<1>2. PICK m : OnlyClient(p, m)
  BY <1>1, OneClientMoves
<1>3. crashes' = crashes /\ index' = index
  BY DEF Enqueue, EnqueueCheck, EnqueueHSet, EnqueuePush, Start, Step, Finish, Others, HSet, RPush, server
<1>4. \A t \in Task : ~Adding(client[p], t)
  BY DEF Enqueue, EnqueueCheck, EnqueueHSet, EnqueuePush, Start, Step, Finish, Adding
<1>5. \A t \in Task : status'[t] = "in_progress" => status[t] = "in_progress"
  <2>1. CASE EnqueueHSet(p)
    BY <2>1 DEF EnqueueHSet, HSet, TypeInv, TypeOK
  <2>2. CASE ~EnqueueHSet(p)
    BY <2>2 DEF Enqueue, EnqueueCheck, EnqueuePush, RPush, server, hash
  <2> QED BY <2>1, <2>2
<1> QED BY <1>1, <1>2, <1>3, <1>4, <1>5, IndexKept

LEMMA ClaimKeepsIndex ==
  ASSUME TypeInv, Early, BeforeExpiry, InProgressIsReclaimable, NEW w \in Worker, Claim(w)
  PROVE  InProgressIsReclaimable'
<1> DEFINE l == client[w]
<1>0. w \in Client /\ LocalsFit(l) /\ l \in Locals /\ l.expired = <<>> /\ client \in [Client -> Locals]
  <2>1. w \in Client
    BY DEF Client
  <2> QED BY <2>1, Given DEF Early, NothingDue
<1>1. ~Reclaim(w)
  BY <1>0 DEF Reclaim, ReclaimZRem, ReclaimDelete, ReclaimHSet, ReclaimPush, Step, LocalsFit, ReclaimPc
<1>2. PICK m : OnlyClient(w, m)
  BY <1>0, OneClientMoves DEF Claim, ClaimRest
<1>3. crashes' = crashes
  BY <1>1 DEF Claim, ClaimScan, ClaimPop, ClaimNone, ClaimRead, ClaimSkip, SetNx, SetNxLost, ClaimRequeue,
              ClaimHSet, ClaimZAdd, Step, Finish, Others
<1>4. CASE ClaimHSet(w)
  <2>1. l.task \in Task /\ l.pc = "claim_hset"
    BY <1>0, <1>4 DEF ClaimHSet, Step, LocalsFit, HandPc
  <2>2. m.task = l.task /\ m.pc = "claim_zadd"
    <3>1. client'[w] = m
      BY <1>0, <1>2 DEF OnlyClient
    <3> QED BY <1>0, <1>4, <3>1 DEF ClaimHSet, Step, Locals
  <2>3. \A t \in Task \ {l.task} : status'[t] = status[t]
    BY <1>4, <2>1 DEF ClaimHSet, HSet, TypeInv, TypeOK
  <2>4. index' = index
    BY <1>4 DEF ClaimHSet, HSet
  <2> QED BY <1>0, <1>2, <1>3, <2>1, <2>2, <2>3, <2>4, IndexKept DEF Adding
<1>5. CASE ClaimZAdd(w)
  <2>1. l.task \in Task /\ l.pc = "claim_zadd" /\ l.expires > LeaseSeconds /\ l.expires # 0
    BY <1>0, <1>5, RedisAssumption DEF ClaimZAdd, LocalsFit, Early, NothingDue, RedisAssumption, Locals
  <2>2. /\ status' = status /\ index'[l.task] # 0
        /\ \A t \in Task \ {l.task} : index'[t] = index[t]
    BY <1>5, <2>1 DEF ClaimZAdd, ZAdd, hash, TypeInv, TypeOK
  <2> QED BY <1>0, <1>2, <1>3, <2>1, <2>2, IndexKept DEF Adding
<1>6. CASE ~ClaimHSet(w) /\ ~ClaimZAdd(w)
  <2>1. UNCHANGED <<status, index>>
    BY <1>1, <1>6 DEF Claim, ClaimScan, ClaimPop, ClaimNone, ClaimRead, ClaimSkip, SetNx, SetNxLost,
                      ClaimRequeue, SetLease, RPush, server, hash
  <2>2. l.pc # "claim_zadd"
    BY <1>1, <1>6 DEF Claim, ClaimScan, ClaimPop, ClaimNone, ClaimRead, ClaimSkip, SetNx, SetNxLost,
                      ClaimRequeue, Step, Finish
  <2> QED BY <1>0, <1>2, <1>3, <2>1, <2>2, IndexKept DEF Adding
<1> QED BY <1>4, <1>5, <1>6

LEMMA ReportKeepsIndex ==
  ASSUME TypeInv, Early, BeforeExpiry, InProgressIsReclaimable, NEW w \in Worker, Complete(w) \/ Fail(w)
  PROVE  InProgressIsReclaimable'
<1> DEFINE l == client[w]
<1>0. w \in Client /\ LocalsFit(l)
  <2>1. w \in Client
    BY DEF Client
  <2> QED BY <2>1, Given
<1>1. PICK m : OnlyClient(w, m)
  BY <1>0, OneClientMoves
<1>2. crashes' = crashes /\ l.pc # "claim_zadd"
  BY DEF Complete, Fail, CompleteCheck, CompleteHSet, CompleteZRem, CompleteDelete, CompletePush,
         FailCheck, FailHSet, FailZRem, FailDelete, Start, Step, Finish, Others
<1>3. ASSUME NEW t \in Task, status'[t] = "in_progress"
      PROVE  status[t] = "in_progress" /\ index'[t] = index[t]
  <2>1. CASE CompleteHSet(w) \/ FailHSet(w)
    <3>1. l.task \in Task
      BY <1>0, <2>1 DEF CompleteHSet, FailHSet, Step, LocalsFit, ReportPc
    <3> QED BY <1>3, <2>1, <3>1 DEF CompleteHSet, FailHSet, HSet, TypeInv, TypeOK
  <2>2. CASE CompleteZRem(w) \/ FailZRem(w)
    <3>1. l.task \in Task /\ Finished(l.task) /\ status' = status
      BY <1>0, <2>2 DEF CompleteZRem, FailZRem, Step, LocalsFit, ReportPc, Early, OwnerKnown, ZRem, ZAdd, hash
    <3>2. t # l.task
      BY <1>3, <3>1 DEF Finished
    <3> QED BY <1>3, <2>2, <3>1, <3>2 DEF CompleteZRem, FailZRem, ZRem, ZAdd, TypeInv, TypeOK
  <2>3. CASE ~(CompleteHSet(w) \/ FailHSet(w) \/ CompleteZRem(w) \/ FailZRem(w))
    <3>1. UNCHANGED <<status, index>>
      BY <2>3 DEF Complete, Fail, CompleteCheck, CompleteDelete, CompletePush, FailCheck, FailDelete,
                  DeleteLease, server, hash
    <3> QED BY <1>3, <3>1
  <2> QED BY <2>1, <2>2, <2>3
<1>4. \A t \in Task : ~Adding(l, t)
  BY <1>2 DEF Adding
<1> QED BY <1>0, <1>1, <1>2, <1>3, <1>4, IndexKept

LEMMA IndexStep ==
  ASSUME TypeInv, EarlyInv, InProgressIsReclaimable, [Next]_vars
  PROVE  InProgressIsReclaimable'
<1>1. ASSUME UNCHANGED <<status, client, crashes>>, BeforeExpiry' => BeforeExpiry,
             \A t \in Task : index[t] # 0 => index'[t] # 0
      PROVE  InProgressIsReclaimable'
  BY <1>1 DEF InProgressIsReclaimable
<1>2. CASE Tick \/ UNCHANGED vars
  <2>1. /\ UNCHANGED <<status, client, crashes, index>>
        /\ now \in Nat /\ (now' = now \/ now' = now + 1)
    BY <1>2, RedisAssumption DEF Tick, vars, server, hash, RedisAssumption, TypeInv, TypeOK
  <2>2. BeforeExpiry' => BeforeExpiry
    BY <2>1, RedisAssumption DEF BeforeExpiry, RedisAssumption
  <2> QED BY <1>1, <2>1, <2>2
<1>3. ASSUME NEW w \in Worker, Heartbeat(w), BeforeExpiry PROVE InProgressIsReclaimable'
  <2>1. UNCHANGED <<status, client, crashes, now>>
    BY <1>3 DEF Heartbeat, BeatOwner, BeatStatus, BeatZAdd, BeatSet, ZAdd, SetLease, server, hash
  <2>2. \A t \in Task : index[t] # 0 => index'[t] # 0
    <3>1. CASE BeatZAdd(w)
      <4>1. beat[w].expires # 0
        BY <1>3, <3>1, RedisAssumption DEF BeatZAdd, EarlyInv, Early, NothingDue, RedisAssumption
      <4> QED BY <3>1, <4>1 DEF BeatZAdd, ZAdd, TypeInv, TypeOK
    <3>2. CASE ~BeatZAdd(w)
      <4>1. index' = index
        BY <1>3, <3>2 DEF Heartbeat, BeatOwner, BeatStatus, BeatSet, SetLease, server
      <4> QED BY <4>1
    <3> QED BY <3>1, <3>2
  <2>3. BeforeExpiry' => BeforeExpiry
    BY <1>3
  <2> QED BY <1>1, <2>1, <2>2, <2>3
<1>4. ASSUME NEW c \in Client, Crash(c) PROVE InProgressIsReclaimable'
  <2>1. crashes' # 0
    BY <1>4 DEF Crash, TypeInv, TypeOK
  <2> QED BY <2>1 DEF InProgressIsReclaimable
<1>5. CASE BeforeExpiry /\ Next /\ ~Tick
  <2>1. Early
    BY <1>5 DEF EarlyInv
  <2> QED BY <1>3, <1>4, <1>5, <2>1, EnqueueKeepsIndex, ClaimKeepsIndex, ReportKeepsIndex DEF Next
<1>6. CASE ~BeforeExpiry /\ Next /\ ~Tick
  <2>1. now' = now
    BY <1>6, OnlyTicksTakeTime
  <2> QED BY <1>6, <2>1 DEF InProgressIsReclaimable, BeforeExpiry
<1> QED BY <1>2, <1>5, <1>6

(* No task is lost to the workers as long as no process has died: pending  *)
(* ones can be popped, completed ones have their result, and until the     *)
(* first expiry those in progress can expire (claim, complete, fail).      *)
THEOREM NothingGetsStranded ==
  ASSUME BeatsLengthen, OneProducer PROVE Spec => []NothingIsStranded
<1>1. Init => InProgressIsReclaimable
  BY DEF Init, InProgressIsReclaimable
<1>2. TypeInv /\ EarlyInv /\ InProgressIsReclaimable /\ [Next]_vars => InProgressIsReclaimable'
  BY IndexStep
<1>3. TypeInv /\ EarlyInv /\ [Next]_vars => EarlyInv'
  BY EarlyStep
<1>4. PendingIsReachable /\ InProgressIsReclaimable /\ CompletedHasResult => NothingIsStranded
  BY DEF NothingIsStranded
<1> QED BY <1>1, <1>2, <1>3, <1>4, TypeInit, TypeStep, EarlyInit, PendingStaysReachable,
           CompletedKeepsResult, PTL DEF Spec
=============================================================================
