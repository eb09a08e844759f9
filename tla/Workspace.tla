----------------------------- MODULE Workspace -----------------------------
(***************************************************************************)
(* Several runs in one project directory: processes that share the plan    *)
(* cache (engine/cache/store.py, build_execution_plan) and the latest      *)
(* pointer (engine/orchestrator/symlinks.py), one file operation at a      *)
(* time, and that may die between any two.  All of them see one source     *)
(* fingerprint and one module list, hence one cache key; they differ in    *)
(* the ci flag, which the plan carries and the key does not.               *)
(***************************************************************************)
EXTENDS Naturals, FiniteSets

CONSTANTS Run, Nobody,
          MaxKilled   \* bound: processes that may die

ASSUME WorkspaceAssumption == Nobody \notin Run /\ MaxKilled \in Nat

NoFile == 0
Inode == 1..Cardinality(Run)
Empty == "empty"
Plans == {"ci", "local"}   \* the content of plan.json, by its ci flag

VARIABLES
  ci,       \* the plan each run would build for itself
  pc, fd,   \* where each run is, and the inode its put() writes to
  entry, tmp,   \* the inodes of the cache entry and of its temporary file
  content,  \* of each inode; a file is Empty between open and write
  plan,     \* the plan each run works with
  pointer, complete,  \* the pointer; the runs whose reports are written
  killed,
  collided, \* history: two puts have been between open and replace together
  met       \* history: the runs that were under way together with another one

cache == <<entry, tmp, content>>
wsVars == <<ci, pc, fd, cache, plan, pointer, complete, killed, collided, met>>

Steps == {"open", "write", "replace", "check", "unlink", "audit", "linkCheck", "linkRemove", "link"}
Active(r) == pc[r] \in Steps
Putting(r) == pc[r] \in {"write", "replace"}

WsTypeOK ==
  /\ ci \in [Run -> Plans]
  /\ pc \in [Run -> Steps \cup {"lookup", "done", "raised", "crashed"}]
  /\ fd \in [Run -> Inode \cup {NoFile}]
  /\ \A r \in Run : Putting(r) <=> fd[r] # NoFile
  /\ entry \in Inode \cup {NoFile} /\ tmp \in Inode \cup {NoFile}
  /\ content \in [Inode -> Plans \cup {Empty}]
  /\ plan \in [Run -> Plans \cup {"none", Empty}]
  /\ pointer \in Run \cup {Nobody} /\ complete \subseteq Run
  /\ killed \in 0..MaxKilled /\ collided \in BOOLEAN /\ met \subseteq Run

WsInit ==
  /\ ci \in [Run -> Plans]
  /\ pc = [r \in Run |-> "lookup"] /\ fd = [r \in Run |-> NoFile]
  /\ entry = NoFile /\ tmp = NoFile /\ content = [i \in Inode |-> Empty]
  /\ plan = [r \in Run |-> "none"]
  /\ pointer = Nobody /\ complete = {}
  /\ killed = 0 /\ collided = FALSE /\ met = {}

Go(r, p) == pc' = [pc EXCEPT ![r] = p]
Keep == UNCHANGED <<ci, complete, killed, met>>

(* CacheStore.get, and what build_execution_plan does with the answer: a   *)
(* miss builds the plan, a hit takes the bytes, and json.loads raises on   *)
(* an empty file.                                                          *)
Lookup(r) ==
  /\ pc[r] = "lookup"
  /\ plan' = [plan EXCEPT ![r] = IF entry = NoFile THEN ci[r] ELSE content[entry]]
  /\ Go(r, IF entry = NoFile THEN "open" ELSE IF content[entry] = Empty THEN "raised" ELSE "audit")
  /\ LET others == {q \in Run \ {r} : Active(q)}
     IN  met' = met \cup others \cup (IF others = {} THEN {} ELSE {r})
  /\ UNCHANGED <<ci, fd, cache, pointer, complete, killed, collided>>

Unused == Inode \ ({entry, tmp} \cup {fd[q] : q \in Run})

Open_InPlace_Mutant(r) ==
  /\ pc[r] = "open"
  /\ \E i \in IF entry # NoFile THEN {entry} ELSE Unused :
       /\ entry' = i
       /\ content' = [content EXCEPT ![i] = Empty]
       /\ fd' = [fd EXCEPT ![r] = i]
  /\ collided' = (collided \/ \E q \in Run \ {r} : Putting(q))
  /\ Go(r, "write") /\ Keep /\ UNCHANGED <<plan, pointer, tmp>>

(* open(tmp, "wb"): every put of a key uses the same temporary name, and   *)
(* opening it truncates what is there.                                     *)
Open(r) ==
  /\ pc[r] = "open"
  /\ \E i \in IF tmp # NoFile THEN {tmp} ELSE Unused :
       /\ tmp' = i
       /\ content' = [content EXCEPT ![i] = Empty]
       /\ fd' = [fd EXCEPT ![r] = i]
  /\ collided' = (collided \/ \E q \in Run \ {r} : Putting(q))
  /\ Go(r, "write") /\ Keep /\ UNCHANGED <<plan, pointer, entry>>

(* write(): a plan is one small write at offset 0; a shorter plan over a   *)
(* longer one leaves white space after it.                                 *)
Write(r) ==
  /\ pc[r] = "write"
  /\ content' = [content EXCEPT ![fd[r]] = ci[r]]
  /\ Go(r, "replace") /\ Keep /\ UNCHANGED <<fd, entry, tmp, plan, pointer, collided>>

Replace_KeepsHandle_Mutant(r) ==
  /\ pc[r] = "replace"
  /\ IF tmp # NoFile THEN entry' = tmp /\ tmp' = NoFile ELSE UNCHANGED <<entry, tmp>>
  /\ Go(r, "check") /\ Keep /\ UNCHANGED <<fd, content, plan, pointer, collided>>

(* os.replace; if the temporary file is gone the error is suppressed by    *)
(* the lifecycle.                                                          *)
Replace(r) ==
  /\ pc[r] = "replace"
  /\ IF tmp # NoFile THEN entry' = tmp /\ tmp' = NoFile ELSE UNCHANGED <<entry, tmp>>
  /\ fd' = [fd EXCEPT ![r] = NoFile]
  /\ Go(r, "check") /\ Keep /\ UNCHANGED <<content, plan, pointer, collided>>

(* The finally clause: tmp.exists(), then tmp.unlink() in suppress().      *)
CheckTmp(r) ==
  /\ pc[r] = "check"
  /\ Go(r, IF tmp # NoFile THEN "unlink" ELSE "audit")
  /\ Keep /\ UNCHANGED <<fd, cache, plan, pointer, collided>>

UnlinkTmp(r) ==
  /\ pc[r] = "unlink" /\ tmp' = NoFile
  /\ Go(r, "audit") /\ Keep /\ UNCHANGED <<fd, entry, content, plan, pointer, collided>>

Audit_LinkEarly_Mutant(r) ==
  /\ pc[r] = "audit"
  /\ UNCHANGED complete
  /\ Go(r, "linkCheck") /\ UNCHANGED <<ci, fd, cache, plan, pointer, killed, collided, met>>

(* The modules and the reports, in the directory of the run.               *)
Audit(r) ==
  /\ pc[r] = "audit"
  /\ complete' = complete \cup {r}
  /\ Go(r, "linkCheck") /\ UNCHANGED <<ci, fd, cache, plan, pointer, killed, collided, met>>

LinkCheck_NoUnlink_Mutant(r) ==
  /\ pc[r] = "linkCheck"
  /\ Go(r, "link")
  /\ Keep /\ UNCHANGED <<fd, cache, plan, pointer, collided>>

(* update_latest_pointer: three file operations, none of which tolerates   *)
(* what another run has done since the one before.                         *)
LinkCheck(r) ==
  /\ pc[r] = "linkCheck"
  /\ Go(r, IF pointer # Nobody THEN "linkRemove" ELSE "link")
  /\ Keep /\ UNCHANGED <<fd, cache, plan, pointer, collided>>

LinkRemove(r) ==
  /\ pc[r] = "linkRemove" /\ pointer' = Nobody
  /\ Go(r, IF pointer # Nobody THEN "link" ELSE "raised")
  /\ Keep /\ UNCHANGED <<fd, cache, plan, collided>>

Link_Cleanup_Mutant(r) ==
  /\ pc[r] = "link"
  /\ pointer' = IF pointer = Nobody THEN r ELSE Nobody
  /\ Go(r, IF pointer = Nobody THEN "done" ELSE "raised")
  /\ Keep /\ UNCHANGED <<fd, cache, plan, collided>>

Link(r) ==
  /\ pc[r] = "link"
  /\ pointer' = IF pointer = Nobody THEN r ELSE pointer
  /\ Go(r, IF pointer = Nobody THEN "done" ELSE "raised")
  /\ Keep /\ UNCHANGED <<fd, cache, plan, collided>>

(* A process is killed; its open file is closed, nothing is cleaned up.    *)
Kill(r) ==
  /\ killed < MaxKilled /\ Active(r)
  /\ killed' = killed + 1
  /\ fd' = [fd EXCEPT ![r] = NoFile]
  /\ Go(r, "crashed") /\ UNCHANGED <<ci, cache, plan, pointer, complete, collided, met>>

WsNext ==
  \E r \in Run :
    \/ Lookup(r) \/ Open(r) \/ Write(r) \/ Replace(r) \/ CheckTmp(r) \/ UnlinkTmp(r)
    \/ Audit(r) \/ LinkCheck(r) \/ LinkRemove(r) \/ Link(r) \/ Kill(r)

WsSpec == WsInit /\ [][WsNext]_wsVars

----------------------------------------------------------------------------
(* A run reads a plan that is not whole only in a workspace where two puts *)
(* of the key have overlapped between open and replace (store.put).        *)
TornOnlyAfterCollision ==
  (\E r \in Run : plan[r] = Empty) => collided

(* The latest pointer only names runs whose reports are written, whatever  *)
(* the other runs do (persist_artifacts, update_latest_pointer).           *)
LatestIsReported == pointer # Nobody => pointer \in complete

(* Runs that race for the pointer may fail, but together they leave one    *)
(* behind: once a run has reached it, no run is in the middle of it and    *)
(* none was killed there, the pointer exists (update_latest_pointer).      *)
PointerSurvivesRaces ==
  /\ complete # {} /\ killed = 0
  /\ \A r \in Run : pc[r] \notin {"linkCheck", "linkRemove", "link"}
  => pointer # Nobody

(* A run that no other run overlaps never fails on what earlier runs left  *)
(* behind, even runs that were killed, unless two puts had collided.       *)
LoneRunSucceeds ==
  \A r \in Run : pc[r] = "raised" /\ r \notin met => collided

(* What earlier and parallel runs leave in the cache never fails a run,    *)
(* and never reaches it half written, unless two puts have collided.       *)
CacheIsSafe == TornOnlyAfterCollision /\ LoneRunSucceeds

(* Whoever races for the latest pointer and whoever is killed: it names a  *)
(* reported run, and without kills it is there.                            *)
PointerIsSound == LatestIsReported /\ PointerSurvivesRaces
=============================================================================
