--------------------------- MODULE ShardContract ---------------------------
(***************************************************************************)
(* What a shard coordinator promises its workers, without clocks, queues   *)
(* or results: the reading of engine/runner/shards/protocol.py that the    *)
(* reference coordinator (InMemoryCoordinator) actually keeps.             *)
(*                                                                         *)
(* A task is absent, open, leased, overdue (leased, but past its expiry),  *)
(* closed (reported) or dropped (given up by a late heartbeat: the only    *)
(* phase the prose of the protocol does not foresee).                      *)
(***************************************************************************)
CONSTANTS Task, Worker, NoWorker

VARIABLES phase, holder

contractVars == <<phase, holder>>

Phase == {"absent", "open", "leased", "overdue", "closed", "dropped"}

In(p) == {t \in Task : phase[t] = p}

ContractTypeOK ==
  /\ phase \in [Task -> Phase]
  /\ holder \in [Task -> Worker \cup {NoWorker}]

ContractInit ==
  /\ phase = [t \in Task |-> "absent"]
  /\ holder = [t \in Task |-> NoWorker]

Publish(t) ==
  /\ phase[t] = "absent"
  /\ phase' = [phase EXCEPT ![t] = "open"]
  /\ UNCHANGED holder

\* Time passes: some leases reach their expiry.
Lapse(S) ==
  /\ S \subseteq In("leased")
  /\ phase' = [t \in Task |-> IF t \in S THEN "overdue" ELSE phase[t]]
  /\ UNCHANGED holder

\* Every overdue task is taken back and one open task is leased to w.
Grant(w, t) ==
  /\ t \in In("open") \cup In("overdue")
  /\ phase' = [u \in Task |-> IF u = t THEN "leased"
                              ELSE IF u \in In("overdue") THEN "open" ELSE phase[u]]
  /\ holder' = [u \in Task |-> IF u = t THEN w
                               ELSE IF u \in In("overdue") THEN NoWorker ELSE holder[u]]

\* A worker that noticed too late that its lease ran out.
Drop(t) ==
  /\ phase[t] = "overdue"
  /\ phase' = [phase EXCEPT ![t] = "dropped"]
  /\ UNCHANGED holder

\* A report is taken from the holder, or from anyone while there is none.
Close(w, t) ==
  /\ phase[t] # "absent"
  /\ holder[t] \in {w, NoWorker}
  /\ phase' = [phase EXCEPT ![t] = "closed"]
  /\ UNCHANGED holder

ContractNext ==
  \/ \E t \in Task : Publish(t) \/ Drop(t)
  \/ \E S \in SUBSET Task : Lapse(S)
  \/ \E w \in Worker, t \in Task : Grant(w, t) \/ Close(w, t)

ContractSpec == ContractInit /\ [][ContractNext]_contractVars

----------------------------------------------------------------------------
(* A leased task stays with its holder until the lease is overdue: no      *)
(* claim, report or heartbeat of another worker can take it away           *)
(* ("until it expires, no other worker may claim the same task",           *)
(* protocol.py:97-99).                                                     *)
NoTheft == [][\A t \in Task : phase[t] = "leased" => holder'[t] = holder[t]]_contractVars
=============================================================================
