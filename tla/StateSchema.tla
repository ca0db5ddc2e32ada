---------------------------- MODULE StateSchema ----------------------------
(***************************************************************************)
(* Opening the state database (state/sqlite.py, StateDatabase.open).  The  *)
(* daemon opens it when it starts and so does every command that reads it, *)
(* so several processes, of several releases, may be inside open at once   *)
(* and each may be killed there, while those that are through write rows.  *)
(* Every statement outside BEGIN IMMEDIATE commits by itself and sees what *)
(* the others have committed; the write lock and the rollback of a dead    *)
(* writer are SQLite's.                                                    *)
(***************************************************************************)
EXTENDS Naturals, Sequences

CONSTANTS
  Openers,      \* processes that open the database, again and again
  Known,        \* how many migrations the release of each opener ships
  Destructive,  \* the versions whose migration is marked destructive
  MaxRows,      \* bound: transactions of the processes that are through
  MaxCrashes    \* bound: processes killed inside open

Nobody == "nobody"

ASSUME OpenersAssumption ==
  /\ Nobody \notin Openers
  /\ Known \in [Openers -> Nat \ {0}]
  /\ Destructive \subseteq Nat \ {0}
  /\ MaxRows \in Nat
  /\ MaxCrashes \in Nat

VARIABLES
  file,     \* the database file: absent, public (0644) or private (0600)
  db,       \* what is committed
  lock,     \* the opener inside BEGIN IMMEDIATE, or Nobody
  staged,   \* what its transaction would commit
  backup,   \* state-before-vN.sqlite3: what it holds, or NoBackup
  copy,     \* the copy each opener has taken to put in its place
  at,       \* the next statement of each opener
  seen,     \* rows of schema_migrations its _verify_history has read
  next,     \* the migration its _apply_pending is at
  result,   \* how its last open ended
  alone,    \* that open met no other opener and nothing that refuses it
  crashes

vars == <<file, db, lock, staged, backup, copy, at, seen, next, result, alone, crashes>>

NoBackup == [history |-> <<0>>, rows |-> 0]

\* The tables outside the migrations, in the order they are made: the first
\* two by _bootstrap, the others by _ensure_runtime_tables.
Books == <<"schema_migrations", "state_meta">>
Runtime == <<"grant_issuer_keys", "mount_runtime", "audit_retention_boundary">>
Tables == {Books[i] : i \in DOMAIN Books} \cup {Runtime[i] : i \in DOMAIN Runtime}

\* A database: the tables outside the migrations, the tables and changes the
\* migrations made, schema_migrations, state_version (0: no such row), and how
\* many transactions have put rows in.
Empty == [tables |-> {}, schema |-> <<>>, history |-> <<>>, version |-> 0, rows |-> 0]

\* What a copy of a database is compared by.
Copied(d) == [history |-> d.history, rows |-> d.rows]

IsRecorded(v, d) == \E i \in DOMAIN d.history : d.history[i] = v

Init ==
  /\ file = "absent"
  /\ db = Empty
  /\ lock = Nobody
  /\ staged = Empty
  /\ backup = [v \in Destructive |-> NoBackup]
  /\ copy = [o \in Openers |-> NoBackup]
  /\ at = [o \in Openers |-> "closed"]
  /\ seen = [o \in Openers |-> 0]
  /\ next = [o \in Openers |-> 1]
  /\ result = [o \in Openers |-> "none"]
  /\ alone = [o \in Openers |-> FALSE]
  /\ crashes = 0

-----------------------------------------------------------------------------
\* check_private_path: group and others may not read the file.
Private == file # "public"

Goto(o, s) == at' = [at EXCEPT ![o] = s]

\* open ends: its connection is closed, which rolls an open transaction back,
\* and what it had read is gone.  Its temporary copy is removed, or left by a
\* kill where nobody reads it.
End(o, r) ==
  /\ Goto(o, "closed")
  /\ result' = [result EXCEPT ![o] = r]
  /\ lock' = IF lock = o THEN Nobody ELSE lock
  /\ staged' = IF lock = o THEN Empty ELSE staged
  /\ seen' = [seen EXCEPT ![o] = 0]
  /\ next' = [next EXCEPT ![o] = 1]
  /\ copy' = [copy EXCEPT ![o] = NoBackup]

Stay == UNCHANGED <<result, lock, staged, seen, next, copy>>

\* The file, if there is one, must be private.
Open(o) ==
  /\ at[o] = "closed"
  /\ alone' = [p \in Openers |->
                 /\ p = o
                 /\ \A q \in Openers : at[q] = "closed"
                 /\ Private
                 /\ Len(db.history) <= Known[o]]
  /\ IF Private
     THEN /\ Goto(o, "connect")
          /\ result' = [result EXCEPT ![o] = "none"]
          /\ UNCHANGED <<lock, staged, seen, next, copy>>
     ELSE End(o, "permission")
  /\ UNCHANGED <<file, db, backup, crashes>>

\* sqlite3.connect creates a missing file, with the mode the umask gives.
Connect(o) ==
  /\ at[o] = "connect"
  /\ file' = IF file = "absent" THEN "public" ELSE file
  /\ Goto(o, "chmod")
  /\ UNCHANGED <<db, lock, staged, backup, copy, seen, next, result, alone, crashes>>

Chmod(o) ==
  /\ at[o] = "chmod"
  /\ file' = "private"
  /\ Goto(o, Books[1])
  /\ UNCHANGED <<db, lock, staged, backup, copy, seen, next, result, alone, crashes>>

\* A table that is there is left as it is.
Made(t, d) == [d EXCEPT !.tables = @ \cup {t}]

After(t) ==
  CASE t = Books[1] -> Books[2]
    [] t = Books[2] -> "verify"
    [] t = Runtime[1] -> Runtime[2]
    [] t = Runtime[2] -> "boundary"

\* CREATE TABLE IF NOT EXISTS, a transaction of its own.
Create(o, t) ==
  /\ at[o] = t
  /\ t \in db.tables \/ lock = Nobody
  /\ db' = Made(t, db)
  /\ Goto(o, After(t))
  /\ UNCHANGED <<file, lock, staged, backup, copy, seen, next, result, alone, crashes>>

Bootstrap(o) == \E i \in DOMAIN Books : Create(o, Books[i])

EnsureRuntimeTables(o) == \E i \in 1 .. 2 : Create(o, Runtime[i])

\* The table of audit boundaries is looked for first and made without IF NOT
\* EXISTS (an old form of it, which is rebuilt, is AuditLog's subject).
LookForBoundary(o) ==
  /\ at[o] = "boundary"
  /\ IF Runtime[3] \in db.tables
     THEN End(o, "open")
     ELSE Goto(o, Runtime[3]) /\ Stay
  /\ UNCHANGED <<file, db, backup, alone, crashes>>

MakeBoundary(o) ==
  /\ at[o] = Runtime[3]
  /\ \/ /\ Runtime[3] \in db.tables
        /\ End(o, "state_open")
        /\ UNCHANGED db
     \/ /\ Runtime[3] \notin db.tables
        /\ lock = Nobody
        /\ End(o, "open")
        /\ db' = Made(Runtime[3], db)
  /\ UNCHANGED <<file, backup, alone, crashes>>

-----------------------------------------------------------------------------
\* The history and the version are two SELECTs, with no transaction around.
VerifyHistory(o) ==
  /\ at[o] = "verify"
  /\ IF Len(db.history) > Known[o] \/ \E i \in DOMAIN db.history : db.history[i] # i
     THEN End(o, "refused")
     ELSE /\ seen' = [seen EXCEPT ![o] = Len(db.history)]
          /\ Goto(o, "version")
          /\ UNCHANGED <<lock, staged, next, result, copy>>
  /\ UNCHANGED <<file, db, backup, alone, crashes>>

\* No row goes with no migration, and any other row with as many as it says.
VerifyVersion(o) ==
  /\ at[o] = "version"
  /\ IF db.version # seen[o]
     THEN End(o, "corrupt")
     ELSE Goto(o, "count") /\ Stay
  /\ UNCHANGED <<file, db, backup, alone, crashes>>

\* Mutant: one backup before the loop, not one before each migration.
BacksUpOnce(v, o) ==
  IF v > Known[o] THEN Runtime[1]
  ELSE IF v \in Destructive /\ at[o] = "count" THEN "backup" ELSE "begin"

\* Where the loop over the pending migrations goes with version v.
Loop(v, o) ==
  IF v > Known[o] THEN Runtime[1]
  ELSE IF v \in Destructive THEN "backup" ELSE "begin"

CountApplied(o) ==
  /\ at[o] = "count"
  /\ next' = [next EXCEPT ![o] = Len(db.history) + 1]
  /\ Goto(o, Loop(Len(db.history) + 1, o))
  /\ UNCHANGED <<file, db, lock, staged, backup, copy, seen, result, alone, crashes>>

\* The committed database is copied to a file beside it, which then replaces
\* the backup of that version; no lock is held over the two, nor until BEGIN.
BackupBefore(o) ==
  /\ at[o] = "backup"
  /\ copy' = [copy EXCEPT ![o] = Copied(db)]
  /\ Goto(o, "replace")
  /\ UNCHANGED <<file, db, lock, staged, backup, seen, next, result, alone, crashes>>

ReplaceBackup(o) ==
  /\ at[o] = "replace"
  /\ backup' = [backup EXCEPT ![next[o]] = copy[o]]
  /\ copy' = [copy EXCEPT ![o] = NoBackup]
  /\ Goto(o, "begin")
  /\ UNCHANGED <<file, db, lock, staged, seen, next, result, alone, crashes>>

BeginImmediate(o) ==
  /\ at[o] = "begin"
  /\ lock = Nobody
  /\ lock' = o
  /\ staged' = db
  /\ Goto(o, "migrate")
  /\ UNCHANGED <<file, db, backup, copy, seen, next, result, alone, crashes>>

\* Mutant: INSERT OR REPLACE.
Replaces(d, v) == FALSE

\* The version is the key of schema_migrations.
Refuses(d, v) == IsRecorded(v, d)

\* Mutant: BEGIN is missing, every statement commits by itself.
AtOnce(new) == new

\* What the transaction writes shows to others when it commits, not before.
Visible(new) == db

\* What migration v makes of the database it finds: the first makes the tables
\* of grants, sessions, mounts and so on, each of which must not be there yet.
Applied(d, v) == [d EXCEPT !.schema = Append(@, v)]

\* _apply_pending() puts the row of the history behind it.
Migrate(o) ==
  LET new == [Applied(staged, next[o]) EXCEPT !.history = Append(@, next[o])]
  IN /\ at[o] = "migrate"
     /\ IF Refuses(staged, next[o])
        THEN End(o, "state_migration") /\ UNCHANGED db
        ELSE /\ staged' = new
             /\ db' = Visible(new)
             /\ Goto(o, "commit")
             /\ UNCHANGED <<lock, seen, next, result, copy>>
     /\ UNCHANGED <<file, backup, alone, crashes>>

Commit(o) ==
  /\ at[o] = "commit"
  /\ db' = [staged EXCEPT !.version = next[o]]
  /\ lock' = Nobody
  /\ staged' = Empty
  /\ next' = [next EXCEPT ![o] = @ + 1]
  /\ Goto(o, Loop(next[o] + 1, o))
  /\ UNCHANGED <<file, backup, copy, seen, result, alone, crashes>>

\* transaction(write=True) of a process whose open has succeeded, whatever the
\* others are at: one short transaction, a step.
WriteRows(o) ==
  /\ at[o] = "closed" /\ result[o] = "open"
  /\ lock = Nobody
  /\ db.rows < MaxRows
  /\ db' = [db EXCEPT !.rows = @ + 1]
  /\ UNCHANGED <<file, lock, staged, backup, copy, at, seen, next, result, alone, crashes>>

\* A statement that waits for the write lock gives up after five seconds.
Busy(o) ==
  /\ lock \notin {Nobody, o}
  /\ at[o] \in ({"begin"} \cup Tables) \ db.tables
  /\ End(o, IF at[o] = "begin" THEN "state_migration" ELSE "state_open")
  /\ UNCHANGED <<file, db, backup, alone, crashes>>

\* The process is killed or a system call fails: SQLite drops its lock and its
\* transaction.
Crash(o) ==
  /\ at[o] # "closed"
  /\ crashes < MaxCrashes
  /\ crashes' = crashes + 1
  /\ End(o, "none")
  /\ UNCHANGED <<file, db, backup, alone>>

Next ==
  \E o \in Openers :
    \/ Open(o) \/ Connect(o) \/ Chmod(o)
    \/ Bootstrap(o) \/ VerifyHistory(o) \/ VerifyVersion(o)
    \/ CountApplied(o) \/ BackupBefore(o) \/ ReplaceBackup(o)
    \/ BeginImmediate(o) \/ Migrate(o) \/ Commit(o)
    \/ EnsureRuntimeTables(o) \/ LookForBoundary(o) \/ MakeBoundary(o)
    \/ WriteRows(o) \/ Busy(o) \/ Crash(o)

Spec == Init /\ [][Next]_vars

-----------------------------------------------------------------------------
\* Whatever openers race and die, and however old the count they act on, the
\* committed schema is what the migrations make when each is applied once and
\* in order, and the history and the version row say exactly that: nobody is
\* ever left with a half-applied migration (_apply_pending).
SchemaIsItsHistory ==
  /\ db.schema = db.history
  /\ db.version = Len(db.history)
  /\ \A i \in DOMAIN db.history : db.history[i] = i

\* When a destructive migration commits, the backup named after it holds the
\* schema just before it and no row that is not in the database: no other opener
\* has put another copy in its place since, and a pass over several migrations
\* backs up before each of them.  It need not hold the last rows: those written
\* between the copy and BEGIN IMMEDIATE are missing (_backup_before).
BackupPrecedes ==
  [][\A v \in Destructive :
       IsRecorded(v, db') /\ ~ IsRecorded(v, db) =>
         backup[v].history = db.history /\ backup[v].rows <= db.rows]_vars

\* The backup is taken before the change (tests/unit/test_state_sqlite.py:248):
\* every row there is when the migration commits is in it.
BackupMissesNoRow ==
  [][\A v \in Destructive :
       IsRecorded(v, db') /\ ~ IsRecorded(v, db) => backup[v].rows = db.rows]_vars

\* The backup named after a migration is a database that has not been through it
\* (tests/unit/test_state_sqlite.py:265), also when another opener that counted
\* the same migration as pending comes to its own backup later.
BackupIsFromBefore ==
  \A v \in Destructive : ~ IsRecorded(v, backup[v])

\* What a killed open leaves is no obstacle to the next one: an open that
\* meets a private file (or none), no newer history and no other opener
\* succeeds, wherever earlier ones stopped or lost their races.  And a database
\* that reports itself open has every table and every migration of the release
\* that opened it, though other openers made some of them.
OpensSucceed ==
  \A o \in Openers :
    /\ alone[o] => result[o] \in {"none", "open"}
    /\ result[o] = "open" => Len(db.history) >= Known[o] /\ db.tables = Tables

=============================================================================
