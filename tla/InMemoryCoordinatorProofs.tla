--------------------- MODULE InMemoryCoordinatorProofs ---------------------
(* Proofs about the reference coordinator, for any tasks, workers, lease   *)
(* lengths and bounds.                                                     *)
EXTENDS InMemoryCoordinator, FiniteSetTheorems, TLAPS

(* The dict order of the expired tasks, as a sequence.                     *)
LEMMA RequeuedIsSeq ==
  ASSUME TypeOK, NEW p \in InsertionOrders(Expired)
  PROVE  /\ p \in Seq(Expired)
         /\ p \in Seq(Task)
         /\ \A i \in 1..Len(p) : p[i] \in Expired
         /\ \A t \in Expired : \E i \in 1..Len(p) : p[i] = t
         /\ \A i, j \in 1..Len(p) : p[i] = p[j] => i = j
<1>1. IsFiniteSet(Expired)
  BY CoordinatorAssumption, FS_Subset DEF Expired
<1>2. Cardinality(Expired) \in Nat
  BY <1>1, FS_CardinalityType
<1>3. /\ p \in [1..Cardinality(Expired) -> Expired]
      /\ \A t \in Expired : \E i \in DOMAIN p : p[i] = t
      /\ \A i, j \in DOMAIN p : i < j => inserted[p[i]] < inserted[p[j]]
  BY DEF InsertionOrders
<1>4. p \in Seq(Expired) /\ Len(p) = Cardinality(Expired)
  BY <1>2, <1>3
<1>5. \A i, j \in 1..Len(p) : p[i] = p[j] => i = j
  <2> SUFFICES ASSUME NEW i \in 1..Len(p), NEW j \in 1..Len(p), p[i] = p[j], i # j
               PROVE  FALSE
    OBVIOUS
  <2>1. inserted[p[i]] \in Nat
    BY <1>3, <1>4 DEF Expired, TypeOK
  <2>2. i < j \/ j < i
    BY <1>2, <1>4
  <2> QED BY <1>3, <1>4, <2>1, <2>2
<1>6. p \in Seq(Task)
  BY <1>2, <1>3 DEF Expired
<1> QED BY <1>3, <1>4, <1>5, <1>6

(* What a successful claim works on, whatever the order of the dict: the   *)
(* queue, followed by every expired task once, cut after its first         *)
(* claimable entry.                                                        *)
ClaimsFrom(w, seconds, q, i) ==
  /\ q \in Seq(Task)
  /\ Len(q) >= Len(queue)
  /\ \A k \in 1..Len(queue) : q[k] = queue[k]
  /\ \A k \in (Len(queue) + 1)..Len(q) : q[k] \in Expired
  /\ \A t \in Expired : \E k \in (Len(queue) + 1)..Len(q) : q[k] = t
  /\ \A j, k \in (Len(queue) + 1)..Len(q) : q[j] = q[k] => j = k
  /\ i \in 1..Len(q)
  /\ Claimable(q[i])
  /\ \A j \in 1..(i - 1) : ~Claimable(q[j])
  /\ Lease(w, seconds, q, i)

LEMMA ClaimEffect ==
  ASSUME TypeOK, NEW w \in Worker, NEW seconds \in LeaseSeconds, Claim(w, seconds)
  PROVE  \E q \in Seq(Task), i \in Nat : ClaimsFrom(w, seconds, q, i)
<1>1. PICK p \in InsertionOrders(Expired) :
        \E i \in DOMAIN (queue \o p) :
          /\ Claimable((queue \o p)[i])
          /\ \A j \in 1..(i - 1) : ~Claimable((queue \o p)[j])
          /\ Lease(w, seconds, queue \o p, i)
  BY DEF Claim
<1>2. /\ p \in Seq(Task)
      /\ queue \in Seq(Task)
      /\ \A i \in 1..Len(p) : p[i] \in Expired
      /\ \A t \in Expired : \E i \in 1..Len(p) : p[i] = t
      /\ \A i, j \in 1..Len(p) : p[i] = p[j] => i = j
  BY RequeuedIsSeq DEF TypeOK
<1> DEFINE q == queue \o p
<1>3. /\ q \in Seq(Task)
      /\ Len(q) = Len(queue) + Len(p)
      /\ \A k \in 1..Len(queue) : q[k] = queue[k]
      /\ \A k \in (Len(queue) + 1)..Len(q) : k - Len(queue) \in 1..Len(p) /\ q[k] = p[k - Len(queue)]
      /\ \A k \in 1..Len(p) : Len(queue) + k \in (Len(queue) + 1)..Len(q) /\ q[Len(queue) + k] = p[k]
  BY <1>2
<1>4. PICK i \in DOMAIN q :
        /\ Claimable(q[i])
        /\ \A j \in 1..(i - 1) : ~Claimable(q[j])
        /\ Lease(w, seconds, q, i)
  BY <1>1
<1> HIDE DEF q
<1>5. i \in 1..Len(q) /\ i \in Nat
  BY <1>3, <1>4
<1>6. \A k \in (Len(queue) + 1)..Len(q) : q[k] \in Expired
  BY <1>2, <1>3
<1>7. \A t \in Expired : \E k \in (Len(queue) + 1)..Len(q) : q[k] = t
  BY <1>2, <1>3
<1>8. \A j, k \in (Len(queue) + 1)..Len(q) : q[j] = q[k] => j = k
  <2> SUFFICES ASSUME NEW j \in (Len(queue) + 1)..Len(q), NEW k \in (Len(queue) + 1)..Len(q),
                      q[j] = q[k]
               PROVE  j = k
    OBVIOUS
  <2>1. /\ j - Len(queue) \in 1..Len(p) /\ q[j] = p[j - Len(queue)]
        /\ k - Len(queue) \in 1..Len(p) /\ q[k] = p[k - Len(queue)]
    BY <1>3
  <2>2. j - Len(queue) = k - Len(queue)
    BY <1>2, <2>1
  <2>3. Len(queue) \in Nat /\ j \in Int /\ k \in Int
    BY <1>2, <1>3
  <2> QED BY <2>2, <2>3
<1>9. ClaimsFrom(w, seconds, q, i)
  BY <1>2, <1>3, <1>4, <1>5, <1>6, <1>7, <1>8 DEF ClaimsFrom
<1> QED BY <1>3, <1>5, <1>9

THEOREM TypeCorrect == Spec => []TypeOK
<1>1. Init => TypeOK
  BY CoordinatorAssumption DEF Init, TypeOK
<1>2. TypeOK /\ [Next]_vars => TypeOK'
  <2> SUFFICES ASSUME TypeOK, [Next]_vars PROVE TypeOK'
    OBVIOUS
  <2> USE CoordinatorAssumption
  <2>1. ASSUME NEW t \in Task, Enqueue(t) PROVE TypeOK'
    <3>1. Cardinality(Known) \in Nat
      BY FS_Subset, FS_CardinalityType DEF Known
    <3> QED BY <2>1, <3>1 DEF TypeOK, Enqueue, ShardStatus
  <2>2. ASSUME NEW w \in Worker, NEW seconds \in LeaseSeconds, Claim(w, seconds)
        PROVE  TypeOK'
    <3>1. PICK q \in Seq(Task), i \in Nat : ClaimsFrom(w, seconds, q, i)
      BY <2>2, ClaimEffect
    <3>2. /\ q[i] \in Task
          /\ SubSeq(q, i + 1, Len(q)) \in Seq(Task)
          /\ Lease(w, seconds, q, i)
      BY <3>1 DEF ClaimsFrom
    <3>3. now + seconds \in Nat
      BY DEF TypeOK
    <3> QED BY <3>2, <3>3 DEF TypeOK, Lease, Remaining, ShardStatus
  <2>3. ASSUME NEW w \in Worker, ClaimNone(w) PROVE TypeOK'
    BY <2>3 DEF TypeOK, ClaimNone
  <2>4. ASSUME NEW w \in Worker, NEW t \in Task, Extend(w, t) PROVE TypeOK'
    BY <2>4 DEF TypeOK, Extend
  <2>5. ASSUME NEW w \in Worker, NEW t \in Task, LateHeartbeat(w, t) PROVE TypeOK'
    BY <2>5 DEF TypeOK, LateHeartbeat, ShardStatus
  <2>6. ASSUME NEW w \in Worker, NEW t \in Task, Complete(w, t) PROVE TypeOK'
    BY <2>6 DEF TypeOK, Complete, ShardStatus, ShardResult
  <2>7. ASSUME NEW w \in Worker, NEW t \in Task, Fail(w, t) PROVE TypeOK'
    BY <2>7 DEF TypeOK, Fail, ShardStatus
  <2>8. ASSUME Tick PROVE TypeOK'
    BY <2>8 DEF TypeOK, Tick
  <2>9. ASSUME UNCHANGED vars PROVE TypeOK'
    BY <2>9 DEF TypeOK, vars
  <2> QED BY <2>1, <2>2, <2>3, <2>4, <2>5, <2>6, <2>7, <2>8, <2>9 DEF Next
<1> QED BY <1>1, <1>2, PTL DEF Spec
(* Two workers never hold unexpired leases on one task, when no lease is   *)
(* longer than the extension a heartbeat grants (the defaults: 60 and 60). *)
THEOREM LeasesExclusive == LeasesFit => (Spec => []ExclusiveLease)
<1> SUFFICES ASSUME LeasesFit PROVE Spec => []ExclusiveLease
  OBVIOUS
<1>1. Init => LeaseInv
  BY CoordinatorAssumption DEF Init, LeaseInv, PinsOwner
<1>2. TypeOK /\ LeaseInv /\ [Next]_vars => LeaseInv'
  <2> SUFFICES ASSUME TypeOK, LeaseInv, [Next]_vars,
                      NEW u \in Task, NEW v \in Worker
               PROVE  PinsOwner(v, u)'
    BY DEF LeaseInv
  <2> USE CoordinatorAssumption DEF TypeOK, PinsOwner
  <2>0. PinsOwner(v, u)
    BY DEF LeaseInv
  <2>1. ASSUME NEW t \in Task, Enqueue(t) PROVE PinsOwner(v, u)'
    BY <2>0, <2>1 DEF Enqueue, Known
  <2>2. ASSUME NEW w \in Worker, NEW seconds \in LeaseSeconds, Claim(w, seconds)
        PROVE  PinsOwner(v, u)'
    <3>1. PICK q \in Seq(Task), i \in Nat : ClaimsFrom(w, seconds, q, i)
      BY <2>2, ClaimEffect
    <3>2. /\ q[i] \in Task
          /\ Claimable(q[i])
          /\ Lease(w, seconds, q, i)
      BY <3>1 DEF ClaimsFrom
    <3>3. now + seconds <= now + HeartbeatSeconds /\ now + seconds \in Nat
      BY DEF LeasesFit
    <3>4. Claimable(u) => leases[v][u] < now
      BY <2>0 DEF Claimable, Expired, Overdue
    <3>5. CASE u = q[i]
      <4>1. leases[v][u] < now
        BY <3>2, <3>4, <3>5
      <4>2. leases'[v][u] = IF v = w THEN now + seconds ELSE leases[v][u]
        BY <3>2, <3>5 DEF Lease
      <4>3. /\ now' = now
            /\ worker_id'[u] = w
            /\ status'[u] = "in_progress"
            /\ leased_until'[u] = now + seconds
        BY <3>2, <3>5 DEF Lease
      <4> QED BY <2>0, <3>3, <4>1, <4>2, <4>3
    <3>6. CASE u # q[i]
      <4>1. leases'[v][u] = leases[v][u] /\ now' = now
        BY <3>2, <3>6 DEF Lease
      <4>2. u \in Expired => leases[v][u] < now
        BY <3>4 DEF Claimable
      <4>3. u \in Expired => status'[u] = "pending"
        BY <3>2, <3>6 DEF Lease
      <4>4. u \notin Expired => /\ status'[u] = status[u]
                              /\ worker_id'[u] = worker_id[u]
                              /\ leased_until'[u] = leased_until[u]
        BY <3>2, <3>6 DEF Lease
      <4> QED BY <2>0, <4>1, <4>2, <4>3, <4>4
    <3> QED BY <3>5, <3>6
  <2>3. ASSUME NEW w \in Worker, ClaimNone(w) PROVE PinsOwner(v, u)'
    BY <2>0, <2>3 DEF ClaimNone
  <2>4. ASSUME NEW w \in Worker, NEW t \in Task, Extend(w, t) PROVE PinsOwner(v, u)'
    BY <2>0, <2>4 DEF Extend
  <2>5. ASSUME NEW w \in Worker, NEW t \in Task, LateHeartbeat(w, t) PROVE PinsOwner(v, u)'
    BY <2>0, <2>5 DEF LateHeartbeat, Holds
  <2>6. ASSUME NEW w \in Worker, NEW t \in Task, Complete(w, t) PROVE PinsOwner(v, u)'
    BY <2>0, <2>6 DEF Complete
  <2>7. ASSUME NEW w \in Worker, NEW t \in Task, Fail(w, t) PROVE PinsOwner(v, u)'
    BY <2>0, <2>7 DEF Fail
  <2>8. ASSUME Tick PROVE PinsOwner(v, u)'
    BY <2>0, <2>8 DEF Tick
  <2>9. ASSUME UNCHANGED vars PROVE PinsOwner(v, u)'
    BY <2>0, <2>9 DEF vars
  <2> QED BY <2>1, <2>2, <2>3, <2>4, <2>5, <2>6, <2>7, <2>8, <2>9 DEF Next
<1>3. TypeOK /\ LeaseInv => ExclusiveLease
  BY CoordinatorAssumption DEF LeaseInv, PinsOwner, ExclusiveLease
<1> QED BY <1>1, <1>2, <1>3, TypeCorrect, PTL DEF Spec

(* Every method of the reference coordinator is a step, or a stutter, of   *)
(* the abstract contract.                                                  *)
THEOREM ReferenceMeetsContract == Spec => ImplementsContract
<1> DEFINE HasStatus == \A w \in Worker, t \in Task : leases[w][t] # 0 => status[t] # "absent"
<1>1. Init => HasStatus
  BY DEF Init
<1>2. TypeOK /\ HasStatus /\ [Next]_vars => HasStatus'
  <2> SUFFICES ASSUME TypeOK, HasStatus, [Next]_vars PROVE HasStatus'
    OBVIOUS
  <2> USE CoordinatorAssumption DEF TypeOK
  <2>1. ASSUME NEW w \in Worker, NEW seconds \in LeaseSeconds, Claim(w, seconds)
        PROVE  HasStatus'
    <3>1. PICK q \in Seq(Task), i \in Nat : ClaimsFrom(w, seconds, q, i)
      BY <2>1, ClaimEffect
    <3> QED BY <3>1 DEF ClaimsFrom, Lease
  <2>2. ASSUME NEW t \in Task, Enqueue(t) PROVE HasStatus'
    BY <2>2 DEF Enqueue
  <2>3. ASSUME NEW w \in Worker, ClaimNone(w) PROVE HasStatus'
    BY <2>3 DEF ClaimNone
  <2>4. ASSUME NEW w \in Worker, NEW t \in Task,
               Extend(w, t) \/ LateHeartbeat(w, t) \/ Complete(w, t) \/ Fail(w, t)
        PROVE  HasStatus'
    BY <2>4 DEF Extend, LateHeartbeat, Complete, Fail
  <2>5. ASSUME Tick \/ UNCHANGED vars PROVE HasStatus'
    BY <2>5 DEF Tick, vars
  <2> QED BY <2>1, <2>2, <2>3, <2>4, <2>5 DEF Next
<1>3. Init => Contract!ContractInit
  BY DEF Init, Contract!ContractInit, PhaseOf
<1>4. TypeOK /\ HasStatus /\ [Next]_vars => [Contract!ContractNext]_(Contract!contractVars)
  <2> SUFFICES ASSUME TypeOK, HasStatus, [Next]_vars
               PROVE  [Contract!ContractNext]_(Contract!contractVars)
    OBVIOUS
  <2> USE CoordinatorAssumption DEF TypeOK, PhaseOf, ShardStatus
  <2>1. ASSUME NEW w \in Worker, NEW seconds \in LeaseSeconds, Claim(w, seconds)
        PROVE  \E t \in Task : Contract!Grant(w, t)
    <3>1. PICK q \in Seq(Task), i \in Nat : ClaimsFrom(w, seconds, q, i)
      BY <2>1, ClaimEffect
    <3>2. /\ q[i] \in Task
          /\ Claimable(q[i])
          /\ Lease(w, seconds, q, i)
      BY <3>1 DEF ClaimsFrom
    <3>3. Expired = Contract!In("overdue")
      BY DEF Expired, Overdue, Contract!In
    <3>4. q[i] \in Contract!In("open") \cup Contract!In("overdue")
      BY <3>2, <3>3 DEF Claimable, Contract!In
    <3>5. now + seconds \in Nat /\ ~(now + seconds < now)
      OBVIOUS
    <3> QED BY <3>2, <3>3, <3>4, <3>5 DEF Lease, Contract!Grant
  <2>2. ASSUME NEW t \in Task, Enqueue(t) PROVE Contract!Publish(t)
    BY <2>2 DEF Enqueue, Known, Contract!Publish
  <2>3. ASSUME NEW w \in Worker, ClaimNone(w) PROVE UNCHANGED Contract!contractVars
    BY <2>3 DEF ClaimNone, Contract!contractVars
  <2>4. ASSUME NEW w \in Worker, NEW t \in Task, Extend(w, t)
        PROVE  UNCHANGED Contract!contractVars
    BY <2>4 DEF Extend, Holds, Contract!contractVars
  <2>5. ASSUME NEW w \in Worker, NEW t \in Task, LateHeartbeat(w, t) PROVE Contract!Drop(t)
    BY <2>5 DEF LateHeartbeat, Holds, Contract!Drop
  <2>6. ASSUME NEW w \in Worker, NEW t \in Task, Complete(w, t) \/ Fail(w, t)
        PROVE  Contract!Close(w, t)
    <3>1. PICK s \in {"completed", "failed"} :
            /\ status' = [status EXCEPT ![t] = s]
            /\ UNCHANGED <<worker_id, leased_until, now>>
      BY <2>6 DEF Complete, Fail
    <3>2. status[t] # "absent" /\ worker_id[t] \in {w, NoWorker}
      BY <2>6 DEF Complete, Fail, HasBeenLeased, HasStatus, MayReport
    <3>3. PhaseOf(t) # "absent"
      BY <3>2
    <3>4. \A u \in Task : PhaseOf(u)' = IF u = t THEN "closed" ELSE PhaseOf(u)
      BY <3>1
    <3> HIDE DEF PhaseOf
    <3> QED BY <3>1, <3>2, <3>3, <3>4 DEF Contract!Close
  <2>7. ASSUME Tick PROVE \E S \in SUBSET Task : Contract!Lapse(S)
    <3> DEFINE S == {t \in Task : status[t] = "in_progress" /\ leased_until[t] = now}
    <3> HIDE DEF S
    <3>1. S \subseteq Contract!In("leased")
      BY DEF S, Contract!In
    <3>2. \A t \in Task : PhaseOf(t)' = IF t \in S THEN "overdue" ELSE PhaseOf(t)
      BY <2>7 DEF S, Tick
    <3>3. Contract!Lapse(S)
      BY <2>7, <3>1, <3>2 DEF Tick, Contract!Lapse
    <3>4. S \in SUBSET Task
      BY DEF S
    <3> QED BY <3>3, <3>4 DEF Contract!Lapse
  <2>8. ASSUME UNCHANGED vars PROVE UNCHANGED Contract!contractVars
    BY <2>8 DEF vars, Contract!contractVars
  <2> QED BY <2>1, <2>2, <2>3, <2>4, <2>5, <2>6, <2>7, <2>8
          DEF Next, Contract!ContractNext
<1> QED BY <1>1, <1>2, <1>3, <1>4, TypeCorrect, PTL
        DEF Spec, ImplementsContract, Contract!ContractSpec
(* No pending task is stranded outside the queue, and none is queued twice *)
(* or while it is leased.                                                  *)
THEOREM QueueStaysSound == Spec => []QueueSound
<1>1. Init => QueueSound
  BY DEF Init, QueueSound
<1>2. TypeOK /\ QueueSound /\ [Next]_vars => QueueSound'
  <2> SUFFICES ASSUME TypeOK, QueueSound, [Next]_vars PROVE QueueSound'
    OBVIOUS
  <2> USE CoordinatorAssumption
  <2>0. /\ queue \in Seq(Task) /\ Len(queue) \in Nat /\ DOMAIN queue = 1..Len(queue)
        /\ \A k \in 1..Len(queue) : queue[k] \in Task
    BY DEF TypeOK
  <2>1. ASSUME NEW w \in Worker, NEW seconds \in LeaseSeconds, Claim(w, seconds)
        PROVE  QueueSound'
    <3>1. PICK q \in Seq(Task), i \in Nat : ClaimsFrom(w, seconds, q, i)
      BY <2>1, ClaimEffect
    <3> DEFINE n == Len(queue)
               r == SubSeq(q, i + 1, Len(q))
    <3>2. /\ n \in Nat /\ Len(q) \in Nat /\ Len(q) >= n
          /\ \A k \in 1..Len(q) : q[k] \in Task
          /\ \A k \in 1..n : q[k] = queue[k]
          /\ \A k \in (n + 1)..Len(q) : q[k] \in Expired
          /\ \A t \in Expired : \E k \in (n + 1)..Len(q) : q[k] = t
          /\ \A j, k \in (n + 1)..Len(q) : q[j] = q[k] => j = k
          /\ i \in 1..Len(q)
          /\ \A j \in 1..(i - 1) : ~Claimable(q[j])
      BY <2>0, <3>1 DEF ClaimsFrom
    <3>3. /\ \A t \in Task : t # q[i] /\ t \in Expired => status'[t] = "pending"
          /\ \A t \in Task : t # q[i] /\ t \notin Expired => status'[t] = status[t]
          /\ status'[q[i]] = "in_progress"
          /\ queue' = r
      BY <3>1, <3>2 DEF ClaimsFrom, Lease, Remaining
    <3>4. /\ \A t \in Task : status[t] = "pending" => \E k \in 1..n : queue[k] = t
          /\ \A j, k \in 1..n : queue[j] = queue[k] => j = k
          /\ \A k \in 1..n : status[queue[k]] \in {"pending", "completed", "failed"}
          /\ \A k \in 1..n : queue[k] \notin Expired
      BY <2>0 DEF QueueSound, Expired, Overdue
    <3>5. \A m \in 1..Len(q) : m \in 1..n \/ m \in (n + 1)..Len(q)
      BY <3>2
    <3>6. /\ r \in Seq(Task)
          /\ Len(r) = Len(q) - i
          /\ DOMAIN r = 1..Len(r)
          /\ \A k \in 1..Len(r) : k + i \in 1..Len(q) /\ k + i > i /\ r[k] = q[k + i]
      BY <3>2
    <3> HIDE DEF n, r
    <3>7. \A j, k \in 1..Len(q) : q[j] = q[k] => j = k
      <4> SUFFICES ASSUME NEW j \in 1..Len(q), NEW k \in 1..Len(q), q[j] = q[k]
                   PROVE  j = k
        OBVIOUS
      <4>1. CASE j \in 1..n /\ k \in 1..n
        BY <3>2, <3>4, <4>1
      <4>2. CASE j \in (n + 1)..Len(q) /\ k \in (n + 1)..Len(q)
        BY <3>2, <4>2
      <4>3. CASE j \in 1..n /\ k \in (n + 1)..Len(q)
        BY <3>2, <3>4, <4>3
      <4>4. CASE k \in 1..n /\ j \in (n + 1)..Len(q)
        BY <3>2, <3>4, <4>4
      <4> QED BY <3>5, <4>1, <4>2, <4>3, <4>4
    <3>8. \A t \in Task : status'[t] = "pending" => \E k \in 1..Len(r) : r[k] = t
      <4> SUFFICES ASSUME NEW t \in Task, status'[t] = "pending"
                   PROVE  \E k \in 1..Len(r) : r[k] = t
        OBVIOUS
      <4>1. t # q[i] /\ Claimable(t)
        BY <3>3 DEF Claimable
      <4>2. PICK m \in 1..Len(q) : q[m] = t
        <5>1. CASE t \in Expired
          <6>1. PICK k \in (n + 1)..Len(q) : q[k] = t
            BY <3>2, <5>1
          <6>2. k \in 1..Len(q)
            BY <3>2
          <6> QED BY <6>1, <6>2
        <5>2. CASE status[t] = "pending"
          <6>1. PICK k \in 1..n : queue[k] = t
            BY <3>4, <5>2
          <6>2. k \in 1..Len(q) /\ q[k] = t
            BY <3>2, <6>1
          <6> QED BY <6>2
        <5> QED BY <4>1, <5>1, <5>2 DEF Claimable
      <4>3. m > i
        <5>1. m \notin 1..(i - 1)
          BY <3>2, <4>1, <4>2
        <5>2. m # i
          BY <4>1, <4>2
        <5> QED BY <3>2, <5>1, <5>2
      <4>4. m - i \in 1..Len(r) /\ (m - i) + i = m
        BY <3>2, <3>6, <4>3
      <4> QED BY <3>6, <4>2, <4>4
    <3>9. \A j, k \in 1..Len(r) : r[j] = r[k] => j = k
      <4> SUFFICES ASSUME NEW j \in 1..Len(r), NEW k \in 1..Len(r), r[j] = r[k]
                   PROVE  j = k
        OBVIOUS
      <4>1. j + i = k + i
        BY <3>6, <3>7
      <4> QED BY <3>2, <3>6, <4>1
    <3>10. \A k \in 1..Len(r) : status'[r[k]] \in {"pending", "completed", "failed"}
      <4> SUFFICES ASSUME NEW k \in 1..Len(r)
                   PROVE  status'[r[k]] \in {"pending", "completed", "failed"}
        OBVIOUS
      <4>1. r[k] = q[k + i] /\ k + i \in 1..Len(q) /\ k + i # i
        BY <3>2, <3>6
      <4>2. r[k] # q[i] /\ r[k] \in Task
        BY <3>2, <3>7, <4>1
      <4>3. CASE r[k] \in Expired
        BY <3>3, <4>2, <4>3
      <4>4. CASE r[k] \notin Expired
        <5>1. k + i \in 1..n
          BY <3>2, <3>5, <4>1, <4>4
        <5>2. status[r[k]] \in {"pending", "completed", "failed"}
          BY <3>2, <3>4, <4>1, <5>1
        <5> QED BY <3>3, <4>2, <4>4, <5>2
      <4> QED BY <4>3, <4>4
    <3>11. queue' = r
      BY <3>3
    <3> HIDE DEF Expired, Claimable
    <3> QED BY <3>6, <3>8, <3>9, <3>10, <3>11 DEF QueueSound
  <2>2. ASSUME NEW t \in Task, Enqueue(t) PROVE QueueSound'
    <3>1. /\ queue' = Append(queue, t)
          /\ Len(queue') = Len(queue) + 1
          /\ DOMAIN queue' = 1..(Len(queue) + 1)
          /\ \A k \in 1..Len(queue) : queue'[k] = queue[k]
          /\ queue'[Len(queue) + 1] = t
      BY <2>0, <2>2 DEF Enqueue
    <3>2. \A k \in 1..Len(queue) : queue[k] # t
      BY <2>0, <2>2 DEF Enqueue, Known, QueueSound
    <3>3. /\ status'[t] = "pending"
          /\ \A u \in Task : u # t => status'[u] = status[u]
      BY <2>2 DEF Enqueue, TypeOK
    <3> QED BY <2>0, <3>1, <3>2, <3>3 DEF QueueSound
  <2>3. ASSUME NEW w \in Worker, ClaimNone(w) PROVE QueueSound'
    BY <2>0, <2>3 DEF ClaimNone, Claimable, QueueSound
  <2>4. ASSUME NEW w \in Worker, NEW t \in Task, Extend(w, t) PROVE QueueSound'
    BY <2>4 DEF Extend, QueueSound
  <2>5. ASSUME NEW w \in Worker, NEW t \in Task,
               LateHeartbeat(w, t) \/ Complete(w, t) \/ Fail(w, t)
        PROVE  QueueSound'
    <3>1. /\ queue' = queue
          /\ \A u \in Task : u # t => status'[u] = status[u]
          /\ \/ status'[t] \in {"completed", "failed"}
             \/ status[t] = "in_progress" /\ status'[t] = "lost"
      BY <2>5 DEF LateHeartbeat, Complete, Fail, Holds, TypeOK
    <3> QED BY <2>0, <3>1 DEF QueueSound
  <2>6. ASSUME Tick \/ UNCHANGED vars PROVE QueueSound'
    BY <2>6 DEF Tick, vars, QueueSound
  <2> QED BY <2>1, <2>2, <2>3, <2>4, <2>5, <2>6 DEF Next
<1> QED BY <1>1, <1>2, TypeCorrect, PTL DEF Spec
(* A reported task is never handed out again.                              *)
THEOREM ReportsAreFinal == Spec => FinishedIsFinal
<1>1. ASSUME TypeOK, [Next]_vars, NEW u \in Task, Finished(u)
      PROVE  Finished(u)'
  <2> USE <1>1 DEF TypeOK, Finished
  <2>1. ASSUME NEW w \in Worker, NEW seconds \in LeaseSeconds, Claim(w, seconds)
        PROVE  Finished(u)'
    <3>1. PICK q \in Seq(Task), i \in Nat : ClaimsFrom(w, seconds, q, i)
      BY <2>1, ClaimEffect
    <3>2. u \notin Expired /\ u # q[i]
      BY <3>1 DEF ClaimsFrom, Claimable, Expired, Overdue
    <3> QED BY <3>1, <3>2 DEF ClaimsFrom, Lease
  <2>2. ASSUME NEW t \in Task, Enqueue(t) PROVE Finished(u)'
    BY <2>2 DEF Enqueue, Known
  <2>3. ASSUME NEW w \in Worker, ClaimNone(w) PROVE Finished(u)'
    BY <2>3 DEF ClaimNone
  <2>4. ASSUME NEW w \in Worker, NEW t \in Task,
               Extend(w, t) \/ LateHeartbeat(w, t) \/ Complete(w, t) \/ Fail(w, t)
        PROVE  Finished(u)'
    BY <2>4 DEF Extend, LateHeartbeat, Complete, Fail, Holds
  <2>5. ASSUME Tick \/ UNCHANGED vars PROVE Finished(u)'
    BY <2>5 DEF Tick, vars
  <2> QED BY <2>1, <2>2, <2>3, <2>4, <2>5 DEF Next
<1>2. TypeOK /\ [Next]_vars => [\A t \in Task : Finished(t) => Finished(t)']_vars
  BY <1>1
<1> QED BY <1>2, TypeCorrect, PTL DEF Spec, FinishedIsFinal

(* A completed task has a result, and a task with a result is finished:    *)
(* what reports late cannot undo that, for nothing finished is claimable.  *)
THEOREM ResultsStayMatched == Spec => []ResultsMatchStatus
<1>1. Init => ResultsMatchStatus
  BY DEF Init, ResultsMatchStatus
<1>2. TypeOK /\ ResultsMatchStatus /\ [Next]_vars => ResultsMatchStatus'
  <2> SUFFICES ASSUME TypeOK, ResultsMatchStatus, [Next]_vars
               PROVE  ResultsMatchStatus'
    OBVIOUS
  <2> USE DEF TypeOK, ResultsMatchStatus, Finished
  <2>1. ASSUME NEW w \in Worker, NEW seconds \in LeaseSeconds, Claim(w, seconds)
        PROVE  ResultsMatchStatus'
    <3>1. PICK q \in Seq(Task), i \in Nat : ClaimsFrom(w, seconds, q, i)
      BY <2>1, ClaimEffect
    <3>2. q \in Seq(Task) /\ i \in 1..Len(q) /\ Claimable(q[i]) /\ Lease(w, seconds, q, i)
      BY <3>1 DEF ClaimsFrom
    <3>3. q[i] \in Task
      BY <3>2
    <3>4. \A t \in Expired : status[t] = "in_progress"
      BY DEF Expired, Overdue
    <3>5. status[q[i]] \in {"pending", "in_progress"}
      BY <3>2, <3>4 DEF Claimable
    <3>6. results' = results /\ \A t \in Task :
            \/ status'[t] = status[t]
            \/ status[t] \in {"pending", "in_progress"} /\ status'[t] \in {"pending", "in_progress"}
      BY <3>2, <3>3, <3>4, <3>5 DEF Lease
    <3> QED BY <3>6
  <2>2. ASSUME NEW t \in Task, Enqueue(t) PROVE ResultsMatchStatus'
    BY <2>2 DEF Enqueue, Known
  <2>3. ASSUME NEW w \in Worker, ClaimNone(w) PROVE ResultsMatchStatus'
    BY <2>3 DEF ClaimNone
  <2>4. ASSUME NEW w \in Worker, NEW t \in Task,
               Extend(w, t) \/ LateHeartbeat(w, t) \/ Fail(w, t)
        PROVE  ResultsMatchStatus'
    BY <2>4 DEF Extend, LateHeartbeat, Fail, Holds
  <2>5. ASSUME NEW w \in Worker, NEW t \in Task, Complete(w, t)
        PROVE  ResultsMatchStatus'
    <3>1. /\ DOMAIN results' = 1..(Len(results) + 1) /\ DOMAIN results = 1..Len(results)
          /\ \A i \in 1..Len(results) : results'[i] = results[i]
          /\ results'[Len(results) + 1].task = t
      BY <2>5 DEF Complete, ShardResult
    <3>2. status'[t] = "completed" /\ \A u \in Task \ {t} : status'[u] = status[u]
      BY <2>5 DEF Complete
    <3>3. ASSUME NEW u \in Task
          PROVE  (\E i \in DOMAIN results' : results'[i].task = u)
                   <=> u = t \/ \E i \in DOMAIN results : results[i].task = u
      <4>1. Len(results) + 1 \in DOMAIN results'
        BY <3>1
      <4>2. \A i \in DOMAIN results : i \in DOMAIN results' /\ results'[i] = results[i]
        BY <3>1
      <4>3. \A i \in DOMAIN results' : i \in DOMAIN results \/ results'[i].task = t
        BY <3>1
      <4> QED BY <3>1, <4>1, <4>2, <4>3
    <3> QED BY <3>2, <3>3
  <2>6. ASSUME Tick \/ UNCHANGED vars PROVE ResultsMatchStatus'
    BY <2>6 DEF Tick, vars
  <2> QED BY <2>1, <2>2, <2>3, <2>4, <2>5, <2>6 DEF Next
<1> QED BY <1>1, <1>2, TypeCorrect, PTL DEF Spec
=============================================================================
