---------------------------- MODULE ConfigStore ----------------------------
(***************************************************************************)
(* The configuration file, its backups and the configuration that runs:    *)
(* admin/config_api.py, core/config_store.py and the reload of             *)
(* admin/status.py.                                                        *)
(*                                                                         *)
(* A save runs on the event loop from the check of the version to the swap *)
(* of the configuration without an await, so no other handler moves        *)
(* meanwhile; but an editor may write the file at any time and the process *)
(* may die between any two steps of it.  The lock is held on while the old *)
(* health monitor is awaited.                                              *)
(*                                                                         *)
(* A configuration is its bytes: the version sent to the browser is their  *)
(* hash, so equal versions are equal configurations.  validate_raw and the *)
(* start ask for different things: a configuration without admin keys is   *)
(* refused by the first only; one with a base_url from which no HTTP       *)
(* client can be made (http://host:80a), by the second only.               *)
(***************************************************************************)
EXTENDS Naturals, FiniteSets, FiniteSetsExt, Functions

CONSTANTS
  Admin,      \* sessions of the dashboard or of scripts
  Parsable,   \* configurations that parse
  Valid,      \* those validate_raw accepts
  Startable,  \* those load_config accepts and whose adapters can be built
  Torn,       \* bytes that do not parse
  Down,       \* no configuration runs: the process is not there
  Initial,    \* the configuration the process is first started with
  Keep,       \* KEEP_BACKUPS
  Most,       \* bound: backups in the folder
  Seconds     \* bound: the last second of the clock

ASSUME StoreConstants ==
  /\ Valid \subseteq Parsable /\ Startable \subseteq Parsable
  /\ Initial \in Startable
  /\ Torn \notin Parsable /\ Down \notin Parsable \cup {Torn}
  /\ Keep \in Nat \ {0} /\ Most \in Nat /\ Seconds \in Nat

Bytes == Parsable \cup {Torn}

VARIABLES
  file,       \* OctoFlux.yaml
  backups,    \* backup name -> bytes
  live,       \* the configuration that runs, or Down
  session,    \* what each admin's session is doing
  second,     \* the wall clock, of which backups get their names
  issued,     \* names given since it last moved, up to Keep + 1: then, and
              \* while it is behind an older name, no name need be the latest
  edited      \* an editor wrote the file after the gateway last used it

vars == <<file, backups, live, session, second, issued, edited>>

(* A backup is named by its second and a number within it (0: no suffix).  *)
Name == (0..Seconds) \X Nat

Phase == {"idle", "read", "waiting",
          "backup", "prune", "write", "replace", "swap", "applied"}

Session == [pc : Phase,
            base : Parsable,        \* what the session read
            expects : BOOLEAN,      \* the save is refused if that has changed
            content : Parsable,     \* what it wants to save
            latest : BOOLEAN,       \* its backup has the latest name of all
            raced : BOOLEAN]        \* an editor wrote during the save

NoSession == [pc |-> "idle", base |-> Initial, expects |-> TRUE,
              content |-> Initial, latest |-> FALSE, raced |-> FALSE]

(* A save of which only the wait for the old monitor is left.              *)
Applied == [NoSession EXCEPT !.pc = "applied"]

InSave == {"backup", "prune", "write", "replace", "swap"}

(* Handlers move only while the event loop is not inside a save.           *)
LoopFree == live # Down /\ \A a \in Admin : session[a].pc \notin InSave
LockFree == \A a \in Admin : session[a].pc \notin InSave \cup {"applied"}

Init ==
  /\ file = Initial /\ live = Initial
  /\ backups = <<>>
  /\ session = [a \in Admin |-> NoSession]
  /\ second = 0 /\ issued = 0
  /\ edited = FALSE

-----------------------------------------------------------------------------
(* GET /admin/config, and read_raw at the head of the client-key handlers. *)
Read(a) ==
  /\ LoopFree /\ session[a].pc = "idle"
  /\ file \in Parsable
  /\ session' = [session EXCEPT ![a] = [NoSession EXCEPT !.pc = "read", !.base = file]]
  /\ UNCHANGED <<file, backups, live, second, issued, edited>>

(* PUT /admin/config and the client-key handlers: the new configuration    *)
(* with the version it was made from.  unmask_secrets is part of content.  *)
Submit(a, content) ==
  /\ LoopFree /\ session[a].pc = "read"
  /\ session' = [session EXCEPT ![a].pc = "waiting", ![a].content = content]
  /\ UNCHANGED <<file, backups, live, second, issued, edited>>

(* Restore: read_backup, then a save that expects no version.              *)
Restore(a, name) ==
  /\ LoopFree /\ session[a].pc = "idle"
  /\ backups[name] \in Parsable
  /\ session' = [session EXCEPT ![a] =
       [NoSession EXCEPT !.pc = "waiting", !.expects = FALSE, !.content = backups[name]]]
  /\ UNCHANGED <<file, backups, live, second, issued, edited>>

(* The session ends without a save: 404, 409, 422, or the admin goes away. *)
Abandon(a) ==
  /\ LoopFree /\ session[a].pc \in {"read", "waiting"}
  /\ session' = [session EXCEPT ![a] = NoSession]
  /\ UNCHANGED <<file, backups, live, second, issued, edited>>

(* save_raw up to write_with_backup.                                       *)
AcceptableMutant(s) == file \in Parsable /\ s.content \in Valid

Acceptable(s) ==
  /\ file \in Parsable
  /\ s.expects => file = s.base
  /\ s.content \in Valid

Begin(a) ==
  /\ LoopFree /\ LockFree
  /\ session[a].pc = "waiting"
  /\ Acceptable(session[a])
  /\ session' = [session EXCEPT ![a].pc = "backup"]
  /\ UNCHANGED <<file, backups, live, second, issued, edited>>

-----------------------------------------------------------------------------
(* write_with_backup: the first free name, the newest Keep, a temporary    *)
(* file, and one rename.                                                   *)
FreeName == <<second, Min({n \in 0..Cardinality(DOMAIN backups) :
                             <<second, n>> \notin DOMAIN backups})>>

Older(x, y) == x[1] < y[1] \/ (x[1] = y[1] /\ x[2] < y[2])

NewestMutant(names) ==
  {x \in names : Cardinality({y \in names : Older(y, x)}) < Keep}

NewestLateMutant(names) ==
  {x \in names : Cardinality({y \in names : Older(x, y)}) <= Keep}

Newest(names) ==
  {x \in names : Cardinality({y \in names : Older(x, y)}) < Keep}

WithBackup(bytes) ==
  [x \in DOMAIN backups \cup {FreeName} |->
     IF x = FreeName THEN bytes ELSE backups[x]]

(* One more name of this second.                                           *)
NameOne ==
  /\ Cardinality(DOMAIN backups) < Most
  /\ issued' = Min({issued, Keep}) + 1

Backup(a) ==
  /\ session[a].pc = "backup"
  /\ NameOne
  /\ backups' = WithBackup(file)
  /\ session' = [session EXCEPT ![a].pc = "prune", ![a].latest = issued <= Keep]
  /\ UNCHANGED <<file, live, second, edited>>

Prune(a) ==
  /\ session[a].pc = "prune"
  /\ backups' = Restrict(backups, Newest(DOMAIN backups))
  /\ session' = [session EXCEPT ![a].pc = "write"]
  /\ UNCHANGED <<file, live, second, issued, edited>>

(* The temporary file: nobody reads it, and a torn one is written over.    *)
WriteTmpMutant(a) ==
  /\ session[a].pc = "write"
  /\ file' = Torn
  /\ session' = [session EXCEPT ![a].pc = "replace"]
  /\ UNCHANGED <<backups, live, second, issued, edited>>

WriteTmp(a) ==
  /\ session[a].pc = "write"
  /\ session' = [session EXCEPT ![a].pc = "replace"]
  /\ UNCHANGED <<file, backups, live, second, issued, edited>>

Replace(a) ==
  /\ session[a].pc = "replace"
  /\ file' = session[a].content
  /\ edited' = FALSE
  /\ session' = [session EXCEPT ![a].pc = "swap"]
  /\ UNCHANGED <<backups, live, second, issued>>

(* apply_config up to its await.  It builds the adapters first; if that    *)
(* raises, the admin gets an error and the lock is free, but the file has  *)
(* been replaced.                                                          *)
SwapMutant(a) ==
  /\ session[a].pc = "swap"
  /\ live' = session[a].base
  /\ session' = [session EXCEPT ![a] = Applied]
  /\ UNCHANGED <<file, backups, second, issued, edited>>

Swap(a) ==
  /\ session[a].pc = "swap"
  /\ \/ /\ session[a].content \in Startable
        /\ live' = session[a].content
        /\ session' = [session EXCEPT ![a] = Applied]
     \/ /\ session[a].content \notin Startable
        /\ session' = [session EXCEPT ![a] = NoSession]
        /\ UNCHANGED live
  /\ UNCHANGED <<file, backups, second, issued, edited>>

(* The old monitor has stopped; the lock is released.                      *)
Finish(a) ==
  /\ LoopFree /\ session[a].pc = "applied"
  /\ session' = [session EXCEPT ![a] = NoSession]
  /\ UNCHANGED <<file, backups, live, second, issued, edited>>

-----------------------------------------------------------------------------
(* POST /admin/reload takes no lock; it reads and swaps without an await.  *)
(* A file it cannot load or build from changes nothing.                    *)
Reload ==
  /\ LoopFree
  /\ file \in Startable
  /\ live' = file /\ edited' = FALSE
  /\ UNCHANGED <<file, backups, session, second, issued>>

(* The file is edited by hand.                                             *)
Edit(bytes) ==
  /\ file' = bytes /\ edited' = TRUE
  /\ session' = [a \in Admin |->
       IF session[a].pc \in InSave THEN [session[a] EXCEPT !.raced = TRUE]
                                   ELSE session[a]]
  /\ UNCHANGED <<backups, live, second, issued>>

(* The process dies; a backup that was being written stays torn.  What a   *)
(* browser has read outlives the process.                                  *)
Crash ==
  /\ live # Down
  /\ live' = Down
  /\ \/ UNCHANGED <<backups, issued>>
     \/ /\ \E a \in Admin : session[a].pc = "backup"
        /\ NameOne
        /\ backups' = WithBackup(Torn)
  /\ session' = [a \in Admin |->
       IF session[a].pc = "read" THEN session[a] ELSE NoSession]
  /\ UNCHANGED <<file, second, edited>>

Restart ==
  /\ live = Down
  /\ file \in Startable
  /\ live' = file /\ edited' = FALSE
  /\ UNCHANGED <<file, backups, session, second, issued>>

(* The wall clock moves, and may be set back.                              *)
SetClock(s) ==
  /\ s # second
  /\ second' = s
  /\ issued' = IF \A name \in DOMAIN backups : name[1] < s THEN 0 ELSE Keep + 1
  /\ UNCHANGED <<file, backups, live, session, edited>>

Save(a) ==
  \/ Begin(a) \/ Backup(a) \/ Prune(a) \/ WriteTmp(a) \/ Replace(a)
  \/ Swap(a) \/ Finish(a)

Next ==
  \/ \E a \in Admin :
       \/ Read(a) \/ Abandon(a) \/ Save(a)
       \/ \E content \in Parsable : Submit(a, content)
       \/ \E name \in DOMAIN backups : Restore(a, name)
  \/ \E bytes \in Bytes : Edit(bytes)
  \/ \E s \in 0..Seconds : SetClock(s)
  \/ Reload \/ Crash \/ Restart

Spec == Init /\ [][Next]_vars

-----------------------------------------------------------------------------
(* Types, and the number of backups once a save has pruned them.           *)
TypeOK ==
  /\ file \in Bytes /\ live \in Startable \cup {Down}
  /\ DOMAIN backups \subseteq Name
  /\ \A name \in DOMAIN backups : backups[name] \in Bytes
  /\ session \in [Admin -> Session]
  /\ second \in 0..Seconds /\ issued \in 0..(Keep + 1) /\ edited \in BOOLEAN
  /\ \A a \in Admin : session[a].pc \in {"write", "replace"} =>
       Cardinality(DOMAIN backups) <= Keep

(* Unless an editor wrote it, the file can be started from at every moment *)
(* of a save, whenever the process dies; or it is one that validate_raw    *)
(* has let through although nothing can be built from it.                  *)
FileStartable == edited \/ file \in Startable \cup Valid

(* Outside a save the gateway runs the configuration that is in the file,  *)
(* unless an editor has written it since, or it is one from which nothing  *)
(* can be built: no interleaving of saves, failed and successful ones, of  *)
(* restores, reloads and restarts leaves the two apart.                    *)
LiveIsFile == LoopFree /\ ~edited /\ file \in Startable => live = file

(* A save that carries a version overwrites nothing its author had not     *)
(* seen: what it replaces is what it was made from.  Only an editor who    *)
(* writes during the few steps of the save itself can be overwritten.      *)
NoLostUpdate ==
  \A a \in Admin :
    session[a].pc \in {"backup", "prune", "write", "replace"} /\ session[a].expects
      => session[a].raced \/ file = session[a].base

(* README.md:917: "Before every save the current file is copied": what a   *)
(* save is about to overwrite is in a backup, which the pruning of that    *)
(* save has spared.  That needs two things the code does not see to.  The  *)
(* name of the copy must be the latest, as it is when the clock is past    *)
(* every other name and at most Keep + 1 were given since it moved; and    *)
(* nobody may write the file between the copy and the rename.              *)
BackupKept ==
  \A a \in Admin :
    session[a].pc \in {"write", "replace"} /\ session[a].latest
      => session[a].raced \/ \E name \in DOMAIN backups : backups[name] = file
=============================================================================
