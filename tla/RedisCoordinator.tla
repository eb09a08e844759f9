-------------------------- MODULE RedisCoordinator --------------------------
(***************************************************************************)
(* engine/runner/shards/redis_backend.py: the same protocol over a Redis   *)
(* server shared by many processes.  Only one Redis command is atomic, so  *)
(* every command of every method is an action, and a method in progress is *)
(* a program counter with its local variables.                             *)
(*                                                                         *)
(* Server: the task hash (status, owner), the queue list, the lease key    *)
(* with its TTL (lease_holder until lease_end), the sorted set `index' of  *)
(* expiry scores (0: not a member) and the results list.                   *)
(* Client: a producer enqueues; a worker claims, completes and fails, and  *)
(* runs heartbeat from a second thread, as protocol.py:133-134 asks.       *)
(***************************************************************************)
EXTENDS Naturals, Sequences, FiniteSets

CONSTANTS Task, Worker, Producer, NoWorker, NoTask,
          LeaseSeconds,      \* lease_seconds of every claim
          HeartbeatSeconds,  \* the extension of a heartbeat (60)
          MaxTime,           \* bound: the clock stops here
          MaxReports,        \* bound: completes that may start
          MaxCrashes         \* bound: processes that may die in mid-method

ASSUME RedisAssumption ==
  /\ IsFiniteSet(Task)
  /\ NoWorker \notin Worker /\ NoTask \notin Task
  /\ LeaseSeconds \in Nat \ {0} /\ HeartbeatSeconds \in Nat \ {0}
  /\ MaxTime \in Nat \ {0} /\ MaxReports \in Nat /\ MaxCrashes \in Nat

VARIABLES status, owner, queue, lease_holder, lease_end, index, results, now,
          client, beat, leases, crashes

hash == <<status, owner>>
leaseKey == <<lease_holder, lease_end>>
server == <<hash, queue, leaseKey, index, results>>
vars == <<server, now, client, beat, leases, crashes>>

Client == Worker \cup Producer

Pc == {"idle", "enqueue_hset", "enqueue_rpush",
       "reclaim", "reclaim_delete", "reclaim_hset", "reclaim_rpush",
       "lpop", "hgetall", "set_nx", "requeue", "claim_hset", "claim_zadd",
       "complete_hset", "complete_zrem", "complete_delete", "complete_rpush",
       "fail_hset", "fail_zrem", "fail_delete"}

Idle == [pc |-> "idle", task |-> NoTask, expired |-> <<>>, expires |-> 0]

IdleBeat == [pc |-> "idle", task |-> NoTask, expires |-> 0]

TypeOK ==
  /\ status \in [Task -> {"absent", "pending", "in_progress", "completed", "failed"}]
  /\ owner \in [Task -> Worker \cup {NoWorker}]
  /\ queue \in Seq(Task)
  /\ lease_holder \in [Task -> Worker \cup {NoWorker}]
  /\ lease_end \in [Task -> Nat]
  /\ index \in [Task -> Nat]
  /\ results \in Seq([task: Task, worker: Worker])
  /\ now \in 1..MaxTime
  /\ client \in [Client -> [pc: Pc, task: Task \cup {NoTask}, expired: Seq(Task), expires: Nat]]
  /\ beat \in [Worker -> [pc: {"idle", "status", "zadd", "set"}, task: Task \cup {NoTask}, expires: Nat]]
  /\ leases \in [Worker -> [Task -> Nat]]
  /\ crashes \in 0..MaxCrashes

Init ==
  /\ status = [t \in Task |-> "absent"]
  /\ owner = [t \in Task |-> NoWorker]
  /\ queue = <<>>
  /\ lease_holder = [t \in Task |-> NoWorker]
  /\ lease_end = [t \in Task |-> 0]
  /\ index = [t \in Task |-> 0]
  /\ results = <<>>
  /\ now = 1
  /\ client = [c \in Client |-> Idle]
  /\ beat = [w \in Worker |-> IdleBeat]
  /\ leases = [w \in Worker |-> [t \in Task |-> 0]]
  /\ crashes = 0

----------------------------------------------------------------------------
\* Redis commands: each changes one structure of the server.
LeaseExists(t) == lease_holder[t] # NoWorker /\ lease_end[t] > now

SetLease(t, w, seconds) ==
  /\ lease_holder' = [lease_holder EXCEPT ![t] = w]
  /\ lease_end' = [lease_end EXCEPT ![t] = now + seconds]
  /\ UNCHANGED <<hash, queue, index, results>>

DeleteLease(t) ==
  /\ lease_holder' = [lease_holder EXCEPT ![t] = NoWorker]
  /\ lease_end' = [lease_end EXCEPT ![t] = 0]
  /\ UNCHANGED <<hash, queue, index, results>>

HSet(t, s, o) ==
  /\ status' = [status EXCEPT ![t] = s]
  /\ owner' = [owner EXCEPT ![t] = o]
  /\ UNCHANGED <<queue, leaseKey, index, results>>

ZAdd(t, score) ==
  /\ index' = [index EXCEPT ![t] = score]
  /\ UNCHANGED <<hash, queue, leaseKey, results>>

ZRem(t) == ZAdd(t, 0)

RPush(t) ==
  /\ queue' = Append(queue, t)
  /\ UNCHANGED <<hash, leaseKey, index, results>>

\* The members of `index' with a score up to now, lowest score first.
Due_AnyScore_Mutant == {t \in Task : index[t] # 0}

Due == {t \in Task : index[t] # 0 /\ index[t] <= now}

ZRangeByScore(S) ==
  {p \in [1..Cardinality(S) -> S] :
     /\ \A t \in S : \E i \in DOMAIN p : p[i] = t
     /\ \A i, j \in DOMAIN p : i < j => index[p[i]] <= index[p[j]]}

----------------------------------------------------------------------------
\* Control: a method starts, steps from one command to the next, returns.
Others == UNCHANGED <<now, beat, leases, crashes>>

Start(c, pc, t) ==
  /\ client[c].pc = "idle"
  /\ client' = [client EXCEPT ![c].pc = pc, ![c].task = t]
  /\ Others

Step(c, from, to) ==
  /\ client[c].pc = from
  /\ client' = [client EXCEPT ![c].pc = to]
  /\ Others

Finish(c, from) ==
  /\ client[c].pc = from
  /\ client' = [client EXCEPT ![c] = Idle]
  /\ Others

----------------------------------------------------------------------------
\* enqueue
EnqueueCheck(p, t) ==
  /\ status[t] = "absent"
  /\ Start(p, "enqueue_hset", t)
  /\ UNCHANGED server

EnqueueHSet_Queued_Mutant(p) ==
  Step(p, "enqueue_hset", "enqueue_rpush") /\ HSet(client[p].task, "queued", NoWorker)

EnqueueHSet(p) ==
  Step(p, "enqueue_hset", "enqueue_rpush") /\ HSet(client[p].task, "pending", NoWorker)

EnqueuePush(p) ==
  Finish(p, "enqueue_rpush") /\ RPush(client[p].task)

----------------------------------------------------------------------------
\* claim, first part: _reclaim_expired, four commands for every due task.
AfterReclaim(rest) == IF rest = <<>> THEN "lpop" ELSE "reclaim"

ClaimScan(w) ==
  /\ client[w].pc = "idle"
  /\ \E p \in ZRangeByScore(Due) :
       client' = [client EXCEPT ![w].expired = p, ![w].pc = AfterReclaim(p)]
  /\ Others /\ UNCHANGED server

Reclaimed(w) == Head(client[w].expired)

ReclaimZRem(w) ==
  Step(w, "reclaim", "reclaim_delete") /\ ZRem(Reclaimed(w))

ReclaimDelete(w) ==
  Step(w, "reclaim_delete", "reclaim_hset") /\ DeleteLease(Reclaimed(w))

ReclaimHSet(w) ==
  Step(w, "reclaim_hset", "reclaim_rpush") /\ HSet(Reclaimed(w), "pending", NoWorker)

ReclaimPush(w) ==
  LET rest == Tail(client[w].expired) IN
  /\ client[w].pc = "reclaim_rpush"
  /\ client' = [client EXCEPT ![w].expired = rest, ![w].pc = AfterReclaim(rest)]
  /\ RPush(Reclaimed(w))
  /\ Others

\* claim, second part: lpop until a pending task, then SET NX, hset, zadd.
ClaimPop(w) ==
  /\ queue # <<>>
  /\ client[w].pc = "lpop"
  /\ client' = [client EXCEPT ![w].pc = "hgetall", ![w].task = Head(queue)]
  /\ queue' = Tail(queue)
  /\ Others /\ UNCHANGED <<hash, leaseKey, index, results>>

ClaimNone(w) ==
  queue = <<>> /\ Finish(w, "lpop") /\ UNCHANGED server

ClaimRead(w) ==
  /\ client[w].pc = "hgetall"
  /\ status[client[w].task] = "pending"
  /\ client' = [client EXCEPT ![w].pc = "set_nx", ![w].expires = now + LeaseSeconds]
  /\ Others /\ UNCHANGED server

ClaimSkip(w) ==
  /\ client[w].pc = "hgetall"
  /\ status[client[w].task] # "pending"
  /\ client' = [client EXCEPT ![w].pc = "lpop", ![w].task = NoTask]
  /\ Others /\ UNCHANGED server

SetNx(w) ==
  /\ Step(w, "set_nx", "claim_hset")
  /\ ~LeaseExists(client[w].task)
  /\ SetLease(client[w].task, w, LeaseSeconds)

SetNxLost(w) ==
  /\ Step(w, "set_nx", "requeue")
  /\ LeaseExists(client[w].task)
  /\ UNCHANGED server

ClaimRequeue_Return_Mutant(w) == Finish(w, "requeue") /\ UNCHANGED server

ClaimRequeue(w) ==
  Finish(w, "requeue") /\ RPush(client[w].task)

ClaimHSet(w) ==
  Step(w, "claim_hset", "claim_zadd") /\ HSet(client[w].task, "in_progress", w)

ClaimZAdd_NoIndex_Mutant(w) ==
  /\ client[w].pc = "claim_zadd"
  /\ leases' = [leases EXCEPT ![w][client[w].task] = client[w].expires]
  /\ client' = [client EXCEPT ![w] = Idle]
  /\ UNCHANGED <<server, now, beat, crashes>>

ClaimZAdd(w) ==
  /\ client[w].pc = "claim_zadd"
  /\ ZAdd(client[w].task, client[w].expires)
  /\ leases' = [leases EXCEPT ![w][client[w].task] = client[w].expires]
  /\ client' = [client EXCEPT ![w] = Idle]
  /\ UNCHANGED <<now, beat, crashes>>

----------------------------------------------------------------------------
\* complete and fail, after a hgetall that checks the owner and nothing else.
MayReport(w, t) == leases[w][t] # 0 /\ owner[t] \in {w, NoWorker}

CompleteCheck(w, t) ==
  /\ MayReport(w, t) /\ Len(results) < MaxReports
  /\ Start(w, "complete_hset", t)
  /\ UNCHANGED server

FailCheck(w, t) ==
  MayReport(w, t) /\ Start(w, "fail_hset", t) /\ UNCHANGED server

Keep(t) == owner[t]

CompleteHSet(w) ==
  LET t == client[w].task IN
  Step(w, "complete_hset", "complete_zrem") /\ HSet(t, "completed", Keep(t))

CompleteZRem(w) ==
  Step(w, "complete_zrem", "complete_delete") /\ ZRem(client[w].task)

CompleteDelete(w) ==
  Step(w, "complete_delete", "complete_rpush") /\ DeleteLease(client[w].task)

CompletePush(w) ==
  /\ Finish(w, "complete_rpush")
  /\ results' = Append(results, [task |-> client[w].task, worker |-> w])
  /\ UNCHANGED <<hash, queue, leaseKey, index>>

FailHSet_Completed_Mutant(w) ==
  LET t == client[w].task IN
  Step(w, "fail_hset", "fail_zrem") /\ HSet(t, "completed", Keep(t))

FailHSet(w) ==
  LET t == client[w].task IN
  Step(w, "fail_hset", "fail_zrem") /\ HSet(t, "failed", Keep(t))

FailZRem(w) ==
  Step(w, "fail_zrem", "fail_delete") /\ ZRem(client[w].task)

FailDelete(w) ==
  Finish(w, "fail_delete") /\ DeleteLease(client[w].task)

----------------------------------------------------------------------------
\* heartbeat: hget worker_id, hget status, zadd, set (without NX).
BeatOwner(w, t) ==
  /\ leases[w][t] # 0
  /\ beat[w].pc = "idle"
  /\ owner[t] = w
  /\ beat' = [beat EXCEPT ![w] = [pc |-> "status", task |-> t, expires |-> 0]]
  /\ UNCHANGED <<server, now, client, leases, crashes>>

BeatStatus(w) ==
  /\ beat[w].pc = "status"
  /\ beat' = [beat EXCEPT ![w] = IF status[beat[w].task] = "in_progress"
                                 THEN [@ EXCEPT !.pc = "zadd", !.expires = now + HeartbeatSeconds]
                                 ELSE IdleBeat]
  /\ UNCHANGED <<server, now, client, leases, crashes>>

BeatZAdd(w) ==
  /\ beat[w].pc = "zadd"
  /\ ZAdd(beat[w].task, beat[w].expires)
  /\ beat' = [beat EXCEPT ![w].pc = "set"]
  /\ UNCHANGED <<now, client, leases, crashes>>

BeatSet(w) ==
  /\ beat[w].pc = "set"
  /\ SetLease(beat[w].task, w, HeartbeatSeconds)
  /\ beat' = [beat EXCEPT ![w] = IdleBeat]
  /\ UNCHANGED <<now, client, leases, crashes>>

----------------------------------------------------------------------------
\* A process dies in mid-method; a fresh one with its id may start again.
Crash(c) ==
  /\ crashes < MaxCrashes
  /\ client[c].pc # "idle"
  /\ client' = [client EXCEPT ![c] = Idle]
  /\ beat' = [w \in Worker |-> IF w = c THEN IdleBeat ELSE beat[w]]
  /\ crashes' = crashes + 1
  /\ UNCHANGED <<server, now, leases>>

Tick ==
  /\ now < MaxTime
  /\ now' = now + 1
  /\ UNCHANGED <<server, client, beat, leases, crashes>>

Enqueue(p) == (\E t \in Task : EnqueueCheck(p, t)) \/ EnqueueHSet(p) \/ EnqueuePush(p)

Reclaim(w) == ReclaimZRem(w) \/ ReclaimDelete(w) \/ ReclaimHSet(w) \/ ReclaimPush(w)

Claim(w) ==
  \/ ClaimScan(w) \/ Reclaim(w)
  \/ ClaimPop(w) \/ ClaimNone(w) \/ ClaimRead(w) \/ ClaimSkip(w) \/ SetNx(w) \/ SetNxLost(w)
  \/ ClaimRequeue(w) \/ ClaimHSet(w) \/ ClaimZAdd(w)

Complete(w) ==
  \/ \E t \in Task : CompleteCheck(w, t)
  \/ CompleteHSet(w) \/ CompleteZRem(w) \/ CompleteDelete(w) \/ CompletePush(w)

Fail(w) == (\E t \in Task : FailCheck(w, t)) \/ FailHSet(w) \/ FailZRem(w) \/ FailDelete(w)

Heartbeat(w) == (\E t \in Task : BeatOwner(w, t)) \/ BeatStatus(w) \/ BeatZAdd(w) \/ BeatSet(w)

Next ==
  \/ \E p \in Producer : Enqueue(p)
  \/ \E w \in Worker : Claim(w) \/ Complete(w) \/ Fail(w) \/ Heartbeat(w)
  \/ \E c \in Client : Crash(c)
  \/ Tick

Spec == Init /\ [][Next]_vars

----------------------------------------------------------------------------
Finished(t) == status[t] \in {"completed", "failed"}

\* A method under way that has yet to push t to the queue or to claim it.
InHand(t) ==
  \E c \in Client :
    \/ /\ client[c].task = t
       /\ client[c].pc \in {"enqueue_rpush", "hgetall", "set_nx", "requeue", "claim_hset"}
    \/ \E i \in DOMAIN client[c].expired : client[c].expired[i] = t

(* However methods interleave, and as long as no process has died in the   *)
(* middle of one, a task that is waiting to be run can still be popped: it *)
(* is in the queue, or some method holds it and will push it or claim it.  *)
PendingIsReachable ==
  crashes = 0 => \A t \in Task : status[t] = "pending" =>
    (\E i \in DOMAIN queue : queue[i] = t) \/ InHand(t)

\* No lease has expired yet: the first claim is at 1 at the earliest.
BeforeExpiry == now <= LeaseSeconds

(* Before a reclaim has anything to do, a task in progress is in the index *)
(* of leases, or its claim is about to add it: its lease can expire.  (A   *)
(* worker that dies between the hset and the zadd of its claim breaks this *)
(* for good, and later a stale reclaim can: hence the premises.)           *)
InProgressIsReclaimable ==
  BeforeExpiry /\ crashes = 0 => \A t \in Task : status[t] = "in_progress" =>
    \/ index[t] # 0
    \/ \E w \in Worker : client[w].task = t /\ client[w].pc = "claim_zadd"

(* No two workers hold leases on one task that are both unexpired.  (The   *)
(* sorted set counts a lease as due at its expiry, one instant earlier     *)
(* than InMemoryCoordinator does.)                                         *)
ExclusiveLease ==
  \A t \in Task : \A v, w \in Worker :
    v # w => ~(leases[v][t] > now /\ leases[w][t] > now)

(* Before the first expiry the queue hands a task to one worker at a time, *)
(* also when processes die in the middle of a claim.                       *)
EarlyLeasesAreExclusive == BeforeExpiry => ExclusiveLease

(* Before the first expiry a reported task is not handed out again.        *)
EarlyReportsAreFinal ==
  [][BeforeExpiry => \A t \in Task : Finished(t) => Finished(t)']_vars

(* A completed task has its result, or the worker is about to push it (as  *)
(* long as no worker has died in between).                                 *)
CompletedHasResult ==
  crashes = 0 => \A t \in Task : status[t] = "completed" =>
    \/ \E i \in DOMAIN results : results[i].task = t
    \/ \E w \in Worker :
         /\ client[w].task = t
         /\ client[w].pc \in {"complete_zrem", "complete_delete", "complete_rpush"}

(* However the commands of the methods interleave, no task is lost to the  *)
(* workers: pending ones can be claimed, those in progress can expire, and *)
(* completed ones have their result.                                       *)
NothingIsStranded == PendingIsReachable /\ InProgressIsReclaimable /\ CompletedHasResult

(* Up to the first expiry the coordinator keeps the promises of the        *)
(* protocol: leases are exclusive and reports are final.                   *)
EarlyIsSafe == []EarlyLeasesAreExclusive /\ EarlyReportsAreFinal
=============================================================================
