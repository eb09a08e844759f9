------------------------ MODULE InMemoryCoordinator ------------------------
(***************************************************************************)
(* engine/runner/shards/in_memory.py: the reference ShardCoordinator.      *)
(*                                                                         *)
(* Every method holds one RLock from its first to its last line, so every  *)
(* method is one action.  A _TaskState is spread over the functions        *)
(* status, worker_id and leased_until; inserted is the position of a task  *)
(* in the dict, which fixes the order a reclaim walks it.  Time is the     *)
(* injected clock `now'; a leased_until of 0 stands for None.              *)
(*                                                                         *)
(* A worker (ShardWorker: no implementation in the repository) calls       *)
(* heartbeat, complete and fail for tasks it was once leased, in any order,*)
(* any number of times and however late: crashes, restarts and retried     *)
(* calls are among these.  leases[w][t] is the expires_at it was told.     *)
(***************************************************************************)
EXTENDS Naturals, Sequences, FiniteSets

CONSTANTS Task, Worker, NoWorker,
          LeaseSeconds,      \* the lease_seconds values workers claim with
          HeartbeatSeconds,  \* the extension a heartbeat grants (60)
          MaxTime,           \* bound: the clock stops here
          MaxReports         \* bound: number of accepted complete calls

ASSUME CoordinatorAssumption ==
  /\ IsFiniteSet(Task)
  /\ NoWorker \notin Worker
  /\ LeaseSeconds \subseteq Nat \ {0}
  /\ HeartbeatSeconds \in Nat \ {0}
  /\ MaxTime \in Nat
  /\ MaxReports \in Nat

VARIABLES status, worker_id, leased_until, inserted, queue, results, leases, now

vars == <<status, worker_id, leased_until, inserted, queue, results, leases, now>>

ShardStatus == {"pending", "in_progress", "completed", "failed", "lost"}

ShardResult == [task: Task, worker: Worker]

TypeOK ==
  /\ status \in [Task -> ShardStatus \cup {"absent"}]
  /\ worker_id \in [Task -> Worker \cup {NoWorker}]
  /\ leased_until \in [Task -> Nat]
  /\ inserted \in [Task -> Nat]
  /\ queue \in Seq(Task)
  /\ results \in Seq(ShardResult)
  /\ leases \in [Worker -> [Task -> Nat]]
  /\ now \in Nat \ {0}

Init ==
  /\ status = [t \in Task |-> "absent"]
  /\ worker_id = [t \in Task |-> NoWorker]
  /\ leased_until = [t \in Task |-> 0]
  /\ inserted = [t \in Task |-> 0]
  /\ queue = <<>>
  /\ results = <<>>
  /\ leases = [w \in Worker |-> [t \in Task |-> 0]]
  /\ now = 1

Known == {t \in Task : status[t] # "absent"}

\* A second enqueue of the same id raises and changes nothing.
Enqueue(t) ==
  /\ t \notin Known
  /\ status' = [status EXCEPT ![t] = "pending"]
  /\ inserted' = [inserted EXCEPT ![t] = Cardinality(Known) + 1]
  /\ queue' = Append(queue, t)
  /\ UNCHANGED <<worker_id, leased_until, results, leases, now>>

(* Definitions named ..._Mutant are faulty variants of the definition they  *)
(* stand before: each breaks a property that the original keeps.           *)
Overdue_OffByOne_Mutant(t) == status[t] = "in_progress" /\ leased_until[t] <= now

Overdue_AnyStatus_Mutant(t) == leased_until[t] # 0 /\ leased_until[t] < now

Overdue(t) == status[t] = "in_progress" /\ leased_until[t] < now

Expired == {t \in Task : Overdue(t)}

\* The expired tasks, in the order of the dict.
InsertionOrders(S) ==
  {p \in [1..Cardinality(S) -> S] :
     /\ \A t \in S : \E i \in DOMAIN p : p[i] = t
     /\ \A i, j \in DOMAIN p : i < j => inserted[p[i]] < inserted[p[j]]}

Claimable(t) == status[t] = "pending" \/ t \in Expired

Remaining_Peek_Mutant(q, i) == SubSeq(q, i, Len(q))

\* popleft up to and including the claimed entry.
Remaining(q, i) == SubSeq(q, i + 1, Len(q))

\* _reclaim_expired_locked, then the loop that pops the queue down to the
\* first pending task: what it pops on the way is gone.
Lease(w, seconds, q, i) ==
  /\ status' = [t \in Task |-> IF t = q[i] THEN "in_progress"
                               ELSE IF t \in Expired THEN "pending" ELSE status[t]]
  /\ worker_id' = [t \in Task |-> IF t = q[i] THEN w
                                  ELSE IF t \in Expired THEN NoWorker ELSE worker_id[t]]
  /\ leased_until' = [t \in Task |-> IF t = q[i] THEN now + seconds
                                     ELSE IF t \in Expired THEN 0 ELSE leased_until[t]]
  /\ queue' = Remaining(q, i)
  /\ leases' = [leases EXCEPT ![w][q[i]] = now + seconds]
  /\ UNCHANGED <<inserted, results, now>>

Claim(w, seconds) ==
  \E requeued \in InsertionOrders(Expired) :
    LET q == queue \o requeued IN
    \E i \in DOMAIN q :
      /\ Claimable(q[i])
      /\ \A j \in 1..(i - 1) : ~Claimable(q[j])
      /\ Lease(w, seconds, q, i)

\* A claim that finds no pending task empties the queue and returns None.
ClaimNone(w) ==
  /\ Expired = {}
  /\ \A i \in DOMAIN queue : ~Claimable(queue[i])
  /\ queue' = <<>>
  /\ UNCHANGED <<status, worker_id, leased_until, inserted, results, leases, now>>

HasBeenLeased(w, t) == leases[w][t] # 0

Holds(w, t) == worker_id[t] = w /\ status[t] = "in_progress"

Extend_Revive_Mutant(w, t) ==
  /\ HasBeenLeased(w, t)
  /\ Holds(w, t)
  /\ leased_until' = [leased_until EXCEPT ![t] = now + HeartbeatSeconds]
  /\ UNCHANGED <<status, worker_id, inserted, queue, results, leases, now>>

\* heartbeat in time: returns True.
Extend(w, t) ==
  /\ HasBeenLeased(w, t)
  /\ Holds(w, t)
  /\ leased_until[t] >= now
  /\ leased_until' = [leased_until EXCEPT ![t] = now + HeartbeatSeconds]
  /\ UNCHANGED <<status, worker_id, inserted, queue, results, leases, now>>

\* heartbeat after the expiry, before any claim reclaimed the task.
LateHeartbeat(w, t) ==
  /\ HasBeenLeased(w, t)
  /\ Holds(w, t)
  /\ leased_until[t] < now
  /\ status' = [status EXCEPT ![t] = "lost"]
  /\ UNCHANGED <<worker_id, leased_until, inserted, queue, results, leases, now>>

\* The owner check of complete and fail: a worker_id of "" lets anyone report.
MayReport(w, t) == worker_id[t] \in {w, NoWorker}

Complete(w, t) ==
  /\ HasBeenLeased(w, t)
  /\ MayReport(w, t)
  /\ Len(results) < MaxReports
  /\ status' = [status EXCEPT ![t] = "completed"]
  /\ results' = Append(results, [task |-> t, worker |-> w])
  /\ UNCHANGED <<worker_id, leased_until, inserted, queue, leases, now>>

Fail_Status_Mutant(w, t) ==
  /\ HasBeenLeased(w, t)
  /\ MayReport(w, t)
  /\ status' = [status EXCEPT ![t] = "error"]
  /\ UNCHANGED <<worker_id, leased_until, inserted, queue, results, leases, now>>

Fail(w, t) ==
  /\ HasBeenLeased(w, t)
  /\ MayReport(w, t)
  /\ status' = [status EXCEPT ![t] = "failed"]
  /\ UNCHANGED <<worker_id, leased_until, inserted, queue, results, leases, now>>

Tick ==
  /\ now < MaxTime
  /\ now' = now + 1
  /\ UNCHANGED <<status, worker_id, leased_until, inserted, queue, results, leases>>

Next ==
  \/ \E t \in Task : Enqueue(t)
  \/ \E w \in Worker, seconds \in LeaseSeconds : Claim(w, seconds)
  \/ \E w \in Worker : ClaimNone(w)
  \/ \E w \in Worker, t \in Task :
       Extend(w, t) \/ LateHeartbeat(w, t) \/ Complete(w, t) \/ Fail(w, t)
  \/ Tick

Spec == Init /\ [][Next]_vars

\* pending(run_id): the tasks still expected to produce a result.
Pending == {t \in Task : status[t] \in {"pending", "in_progress"}}

----------------------------------------------------------------------------
Finished(t) == status[t] \in {"completed", "failed"}

(* No task is stranded or queued twice: whatever reclaims, stale reports   *)
(* and pops happen, a pending task has exactly one entry in the queue, and *)
(* a task in progress or lost has none (a second entry would lease it out  *)
(* again while its worker runs).                                           *)
QueueSound ==
  /\ \A t \in Task : status[t] = "pending" => \E i \in DOMAIN queue : queue[i] = t
  /\ \A i, j \in DOMAIN queue : queue[i] = queue[j] => i = j
  /\ \A i \in DOMAIN queue : status[queue[i]] \in {"pending", "completed", "failed"}

(* Two workers never hold leases on one task that are both unexpired by    *)
(* the expires_at each was handed, whatever late heartbeats, reports and   *)
(* reclaims happen in between (__init__.py:19-20, protocol.py:97-99).      *)
(* Stated for leases no longer than a heartbeat's extension (LeasesFit):   *)
(* heartbeat() sets leased_until to now + 60 s, which moves the expiry of  *)
(* a longer lease closer than its worker was told.                         *)
ExclusiveLease ==
  \A t \in Task : \A v, w \in Worker :
    v # w => ~(leases[v][t] >= now /\ leases[w][t] >= now)

(* Why it holds: an unexpired lease pins its worker as the owner, and     *)
(* leased_until never falls below what the worker was told.                *)
PinsOwner(w, t) ==
  /\ leases[w][t] <= now + HeartbeatSeconds
  /\ leases[w][t] # 0 => status[t] # "absent"
  /\ leases[w][t] >= now =>
       /\ worker_id[t] = w
       /\ status[t] \in {"in_progress", "completed", "failed"}
       /\ status[t] = "in_progress" => leased_until[t] >= leases[w][t]

LeaseInv == \A t \in Task : \A w \in Worker : PinsOwner(w, t)

LeasesFit == \A seconds \in LeaseSeconds : seconds <= HeartbeatSeconds

(* A reported task is never handed out again: its stale queue entry (it    *)
(* was reclaimed, then its old worker reported after all) is skipped, and  *)
(* no reclaim or heartbeat puts it back in progress.                       *)
FinishedIsFinal == [][\A t \in Task : Finished(t) => Finished(t)']_vars

(* The results list and the statuses agree: a completed task has a result, *)
(* and a task with a result is out of the pending() count for good.        *)
ResultsMatchStatus ==
  \A t \in Task :
    LET answered == \E i \in DOMAIN results : results[i].task = t IN
    /\ status[t] = "completed" => answered
    /\ answered => Finished(t)

----------------------------------------------------------------------------
(* Refinement of the contract: a lease is overdue once its leased_until is *)
(* in the past, which only the clock decides.                              *)
PhaseOf(t) ==
  CASE status[t] = "absent" -> "absent"
    [] status[t] = "pending" -> "open"
    [] status[t] = "in_progress" -> IF leased_until[t] < now THEN "overdue" ELSE "leased"
    [] status[t] = "lost" -> "dropped"
    [] OTHER -> "closed"

Contract == INSTANCE ShardContract WITH
              phase <- [t \in Task |-> PhaseOf(t)],
              holder <- worker_id

(* Every method of the reference coordinator is a step of the contract.    *)
ImplementsContract == Contract!ContractSpec

(* In particular no call takes an unexpired lease from its holder.         *)
NoTheft == Contract!NoTheft
=============================================================================
