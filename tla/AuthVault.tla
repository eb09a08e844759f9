------------------------------ MODULE AuthVault ------------------------------
(***************************************************************************)
(* The encrypted sessions of one host: engine/auth/vault.py with the       *)
(* master key of keyring_store.py, and the commands that come to it.       *)
(*                                                                         *)
(* Nothing locks the vault.  A login captures a session and puts it, a run *)
(* gets it and writes it back with the time of this use, an export gets it *)
(* and leaves it, a revoke deletes it.  A file is emptied and then filled; *)
(* beside every entry lies a card with what "auth list" may show.          *)
(***************************************************************************)
EXTENDS Naturals, FiniteSets

CONSTANTS
  Entry,         \* names of the entries of the host
  Visitor,       \* processes that use the vault
  NoFile,        \* no such file
  CutOff,        \* a file that was emptied and not filled
  MaxVisits      \* bound on the operations in one behaviour

ASSUME FilesDiffer ==
  /\ NoFile # CutOff
  /\ \A file \in {NoFile, CutOff} : file \notin Nat /\ file \notin [session : Nat, key : Nat]
ASSUME MaxVisitsIsNat == MaxVisits \in Nat

VARIABLES
  vaultFile,     \* <name>.json.enc of each entry
  vaultCard,     \* <name>.json.meta of each entry
  vaultDir,      \* the directory of the host exists
  masterKey,     \* the key in the keyring, 0 for none
  visitor,       \* what each process is doing
  captures,      \* how many sessions were captured: they are numbered
  lapsed,        \* the sessions that have expired
  visits,        \* history: operations so far
  settled,       \* history: the session the last login or revoke left, 0 for none
  calm           \* history: no kill, no clash and no half revoke_all since the entry was
                 \* last put right

auVars == <<vaultFile, vaultCard, vaultDir, masterKey, visitor, captures, lapsed, visits,
            settled, calm>>

Command == {"login", "use", "export", "revoke", "revoke_all"}

AuthStage == {"idle", "check", "key", "mint", "read", "rekey", "empty", "fill", "card_empty",
              "card_fill", "unlink", "card_unlink", "card_only", "prune", "failed"}

Resting == {"idle", "failed"}

Session == 1..MaxVisits
Key == 0..MaxVisits

Visit == [stage : AuthStage, command : Command, entries : SUBSET Entry, force : BOOLEAN,
          key : Key, session : Session \cup {0}, clashed : BOOLEAN]

AuTypeOK ==
  /\ vaultFile \in [Entry -> {NoFile, CutOff} \cup [session : Session, key : Key \ {0}]]
  /\ vaultCard \in [Entry -> {NoFile, CutOff} \cup Session]
  /\ vaultDir \in BOOLEAN
  /\ masterKey \in Key
  /\ visitor \in [Visitor -> Visit]
  /\ captures \in 0..MaxVisits
  /\ lapsed \subseteq Session
  /\ visits \in 0..MaxVisits
  /\ settled \in [Entry -> Session \cup {0}]
  /\ calm \in [Entry -> BOOLEAN]

Gone == [stage |-> "idle", command |-> "use", entries |-> {}, force |-> FALSE, key |-> 0,
         session |-> 0, clashed |-> FALSE]

AuInit ==
  /\ vaultFile = [e \in Entry |-> NoFile]
  /\ vaultCard = [e \in Entry |-> NoFile]
  /\ vaultDir = FALSE
  /\ masterKey = 0
  /\ visitor = [v \in Visitor |-> Gone]
  /\ captures = 0
  /\ lapsed = {}
  /\ visits = 0
  /\ settled = [e \in Entry |-> 0]
  /\ calm = [e \in Entry |-> TRUE]

Busy == {v \in Visitor : visitor[v].stage \notin Resting}

\* The one entry of a login, a use, an export or a revoke.
Own(v) == CHOOSE e \in visitor[v].entries : TRUE

Go(v, stage) == visitor' = [visitor EXCEPT ![v].stage = stage]

\* The command returns; it fails with an error nobody catches.
Leave(v) == visitor' = [visitor EXCEPT ![v] = Gone]
Fail(v) ==
  visitor' = [visitor EXCEPT ![v] = [Gone EXCEPT !.stage = "failed", !.command = visitor[v].command,
                                               !.clashed = visitor[v].clashed \/ ~calm[Own(v)]]]

Reads(command) == command \in {"use", "export"}

\* The entries a command has to do with, from its beginning to its end.
Touches(w) == IF visitor[w].command = "revoke_all" THEN Entry ELSE visitor[w].entries

\* A command begins.  A login has captured its session in the browser before
\* it comes to the vault; revoke_all lists the entries there are.
StartVisit(v) ==
  /\ visitor[v].stage \in Resting
  /\ visits < MaxVisits
  /\ visits' = visits + 1
  /\ \E c \in Command, e \in Entry, f \in BOOLEAN :
       /\ c # "login" => ~f
       /\ LET mine == IF c = "revoke_all" THEN Entry ELSE {e}
              met == {w \in Busy : Touches(w) \cap mine # {}}
              both == {x \in mine : \E w \in met :
                         x \in Touches(w) /\ ~(Reads(c) /\ Reads(visitor[w].command))}
          IN  /\ visitor' = [w \in Visitor |->
                   IF w = v THEN
                     [stage |-> IF c = "revoke_all" THEN "unlink" ELSE "check", command |-> c,
                      entries |-> IF c = "revoke_all" THEN {x \in Entry : vaultFile[x] # NoFile}
                                  ELSE mine,
                      force |-> f, key |-> 0, session |-> IF c = "login" THEN captures + 1 ELSE 0,
                      clashed |-> met # {}]
                   ELSE [visitor[w] EXCEPT !.clashed = @ \/ w \in met]]
              /\ calm' = [x \in Entry |-> calm[x] /\ x \notin both]
       /\ captures' = IF c = "login" THEN captures + 1 ELSE captures
  /\ UNCHANGED <<vaultFile, vaultCard, vaultDir, masterKey, lapsed, settled>>

\* put makes the directory and refuses to overwrite; get and revoke look
\* whether the entry is there.
CheckEntry(v) ==
  /\ visitor[v].stage = "check"
  /\ LET there == vaultFile[Own(v)] # NoFile
         login == visitor[v].command = "login"
     IN  /\ IF visitor[v].command = "revoke" THEN Go(v, IF there THEN "unlink" ELSE "card_only")
            ELSE IF there = login /\ ~visitor[v].force THEN Leave(v)
            ELSE Go(v, "key")
         /\ vaultDir' = (vaultDir \/ login)
  /\ UNCHANGED <<vaultFile, vaultCard, masterKey, captures, lapsed, visits, settled, calm>>

FetchKey_NoMint_Mutant(v) ==
  /\ visitor[v].stage \in {"key", "rekey"}
  /\ LET login == visitor[v].command = "login"
     IN  IF masterKey = 0 /\ ~login THEN Fail(v)
         ELSE visitor' = [visitor EXCEPT
                ![v].key = masterKey,
                ![v].stage = IF login \/ @ = "rekey" THEN "empty" ELSE "read"]
  /\ UNCHANGED <<vaultFile, vaultCard, vaultDir, masterKey, captures, lapsed, visits, settled,
                 calm>>

\* load_or_create of a login, load_existing of a get, and load_existing again
\* before the entry is written back.
FetchKey(v) ==
  /\ visitor[v].stage \in {"key", "rekey"}
  /\ LET login == visitor[v].command = "login"
     IN  IF masterKey = 0 THEN IF login THEN Go(v, "mint") ELSE Fail(v)
         ELSE visitor' = [visitor EXCEPT
                ![v].key = masterKey,
                ![v].stage = IF login \/ @ = "rekey" THEN "empty" ELSE "read"]
  /\ UNCHANGED <<vaultFile, vaultCard, vaultDir, masterKey, captures, lapsed, visits, settled,
                 calm>>

\* _mint_and_store_in_keyring: a new key takes the place of whatever is there.
MintKey(v) ==
  /\ visitor[v].stage = "mint"
  /\ masterKey' = visitor[v].session
  /\ LET lost == masterKey # 0
     IN  /\ visitor' = [w \in Visitor |->
              IF w = v THEN [visitor[v] EXCEPT !.key = visitor[v].session, !.stage = "empty"]
              ELSE [visitor[w] EXCEPT !.clashed = @ \/ (lost /\ w \in Busy)]]
         /\ calm' = [e \in Entry |-> calm[e] /\ ~lost]
  /\ UNCHANGED <<vaultFile, vaultCard, vaultDir, captures, lapsed, visits, settled>>

\* get decrypts the file: a file cut off, or one under another key, is an
\* integrity error.  An expired session is refused; an export does not write.
ReadEntry(v) ==
  /\ visitor[v].stage = "read"
  /\ LET file == vaultFile[Own(v)]
     IN  IF file \in {NoFile, CutOff} \/ file.key # visitor[v].key THEN Fail(v)
         ELSE IF file.session \in lapsed \/ visitor[v].command = "export" THEN Leave(v)
         ELSE visitor' = [visitor EXCEPT ![v].stage = "rekey", ![v].session = file.session]
  /\ UNCHANGED <<vaultFile, vaultCard, vaultDir, masterKey, captures, lapsed, visits, settled,
                 calm>>

\* write_bytes of a login and of _rewrite_envelope opens the file; the
\* directory may have been removed by a revoke.
EmptyFile(v) ==
  /\ visitor[v].stage = "empty"
  /\ IF vaultDir
     THEN vaultFile' = [vaultFile EXCEPT ![Own(v)] = CutOff] /\ Go(v, "fill")
     ELSE UNCHANGED vaultFile /\ Fail(v)
  /\ UNCHANGED <<vaultCard, vaultDir, masterKey, captures, lapsed, visits, settled, calm>>

\* The bytes arrive; if the file was deleted meanwhile they go nowhere.
FillFile(v) ==
  /\ visitor[v].stage = "fill"
  /\ vaultFile' = IF vaultFile[Own(v)] = NoFile THEN vaultFile
                  ELSE [vaultFile EXCEPT ![Own(v)] =
                          [session |-> visitor[v].session, key |-> visitor[v].key]]
  /\ Go(v, "card_empty")
  /\ UNCHANGED <<vaultCard, vaultDir, masterKey, captures, lapsed, visits, settled, calm>>

EmptyCard(v) ==
  /\ visitor[v].stage = "card_empty"
  /\ IF vaultDir
     THEN vaultCard' = [vaultCard EXCEPT ![Own(v)] = CutOff] /\ Go(v, "card_fill")
     ELSE UNCHANGED vaultCard /\ Fail(v)
  /\ UNCHANGED <<vaultFile, vaultDir, masterKey, captures, lapsed, visits, settled, calm>>

FillCard(v) ==
  /\ visitor[v].stage = "card_fill"
  /\ vaultCard' = IF vaultCard[Own(v)] = NoFile THEN vaultCard
                  ELSE [vaultCard EXCEPT ![Own(v)] = visitor[v].session]
  /\ Leave(v)
  /\ IF visitor[v].command = "login"
     THEN /\ settled' = [settled EXCEPT ![Own(v)] = visitor[v].session]
          /\ calm' = [calm EXCEPT ![Own(v)] = @ \/ ~visitor[v].clashed]
     ELSE UNCHANGED <<settled, calm>>
  /\ UNCHANGED <<vaultFile, vaultDir, masterKey, captures, lapsed, visits>>

\* revoke unlinks the entry it has seen; revoke_all one entry of its listing
\* after the other, in the order of the directory.  Somebody else may have been
\* faster: revoke_all then ends half way.
UnlinkEntry(v) ==
  /\ visitor[v].stage = "unlink"
  /\ IF visitor[v].entries = {} THEN UNCHANGED <<vaultFile, calm>> /\ Go(v, "card_unlink")
     ELSE \E e \in visitor[v].entries :
            LET all == visitor[v].command = "revoke_all"
            IN  IF vaultFile[e] = NoFile
                THEN /\ Fail(v)
                     /\ calm' = [x \in Entry |-> calm[x] /\ x \notin Touches(v)]
                     /\ UNCHANGED vaultFile
                ELSE /\ vaultFile' = [vaultFile EXCEPT ![e] = NoFile]
                     /\ visitor' = [visitor EXCEPT
                          ![v].entries = IF all THEN @ \ {e} ELSE @,
                          ![v].stage = IF all THEN "unlink" ELSE "card_unlink"]
                     /\ UNCHANGED calm
  /\ UNCHANGED <<vaultCard, vaultDir, masterKey, captures, lapsed, visits, settled>>

UnlinkCard_Kept_Mutant(v) ==
  /\ visitor[v].stage \in {"card_unlink", "card_only"}
  /\ LET gone == {e \in Entry : visitor[v].command = "revoke_all" \/ e = Own(v)}
     IN  /\ settled' = [e \in Entry |-> IF e \in gone THEN 0 ELSE settled[e]]
         /\ calm' = [e \in Entry |-> calm[e] \/ (e \in gone /\ ~visitor[v].clashed)]
         /\ UNCHANGED vaultCard
  /\ IF visitor[v].stage = "card_only" THEN Leave(v) ELSE Go(v, "prune")
  /\ UNCHANGED <<vaultFile, vaultDir, masterKey, captures, lapsed, visits>>

\* The card goes whether or not there was an entry.
UnlinkCard(v) ==
  /\ visitor[v].stage \in {"card_unlink", "card_only"}
  /\ LET gone == {e \in Entry : visitor[v].command = "revoke_all" \/ e = Own(v)}
     IN  /\ vaultCard' = [e \in Entry |-> IF e \in gone THEN NoFile ELSE vaultCard[e]]
         /\ settled' = [e \in Entry |-> IF e \in gone THEN 0 ELSE settled[e]]
         /\ calm' = [e \in Entry |-> calm[e] \/ (e \in gone /\ ~visitor[v].clashed)]
  /\ IF visitor[v].stage = "card_only" THEN Leave(v) ELSE Go(v, "prune")
  /\ UNCHANGED <<vaultFile, vaultDir, masterKey, captures, lapsed, visits>>

\* rmdir of a directory that is empty.
PruneDir(v) ==
  /\ visitor[v].stage = "prune"
  /\ vaultDir' = (vaultDir /\ \E e \in Entry : vaultFile[e] # NoFile \/ vaultCard[e] # NoFile)
  /\ Leave(v)
  /\ UNCHANGED <<vaultFile, vaultCard, masterKey, captures, lapsed, visits, settled, calm>>

\* A session reaches its expires_at; one of them is enough.
Lapse ==
  /\ lapsed = {}
  /\ \E s \in 1..captures : lapsed' = {s}
  /\ UNCHANGED <<vaultFile, vaultCard, vaultDir, masterKey, visitor, captures, visits, settled,
                 calm>>

KillVisitor(v) ==
  /\ v \in Busy
  /\ Leave(v)
  /\ calm' = [e \in Entry |-> calm[e] /\ (e \notin Touches(v) \/ visitor[v].command = "export")]
  /\ UNCHANGED <<vaultFile, vaultCard, vaultDir, masterKey, captures, lapsed, visits, settled>>

AuNext ==
  \/ \E v \in Visitor :
       \/ StartVisit(v)
       \/ CheckEntry(v)
       \/ FetchKey(v)
       \/ MintKey(v)
       \/ ReadEntry(v)
       \/ EmptyFile(v)
       \/ FillFile(v)
       \/ EmptyCard(v)
       \/ FillCard(v)
       \/ UnlinkEntry(v)
       \/ UnlinkCard(v)
       \/ PruneDir(v)
       \/ KillVisitor(v)
  \/ Lapse

AuSpec == AuInit /\ [][AuNext]_auVars

-----------------------------------------------------------------------------

\* Whatever is going on with other entries, and however an earlier kill or
\* clash has left this one: once a login or a revoke had it to itself, and as
\* long as only uses and exports have met on it since, and no use of it was
\* killed nor a revoke_all cut short, the entry at rest is what that login or
\* revoke made of it.  A revoked session
\* stays away; a captured one opens under the key of the keyring, and its card
\* shows that one.
VaultAtRest ==
  \A e \in Entry :
    calm[e] /\ (\A w \in Busy : e \notin Touches(w)) =>
      IF settled[e] = 0 THEN vaultFile[e] = NoFile /\ vaultCard[e] = NoFile
      ELSE /\ vaultFile[e] = [session |-> settled[e], key |-> masterKey]
           /\ vaultCard[e] = settled[e]

\* A use of such an entry holds the settled session in its hands, and one that
\* met nobody on it fails only for want of a session or for its age.
UseIsServed ==
  \A v \in Visitor : Reads(visitor[v].command) =>
    /\ visitor[v].stage \in {"rekey", "empty", "fill", "card_empty", "card_fill"}
         /\ calm[Own(v)] => visitor[v].session = settled[Own(v)]
    /\ visitor[v].stage = "failed" => visitor[v].clashed

VaultKeepsSessions == VaultAtRest /\ UseIsServed
=============================================================================
