---------------------------- MODULE StateProofs ----------------------------
(***************************************************************************)
(* What the state database and the audit log, which keeps its local events *)
(* in it, are proved to do.                                                *)
(*                                                                         *)
(* StateSchema, for any number of openers, releases, destructive           *)
(* migrations and deaths: the schema is its history, a backup precedes     *)
(* every destructive commit, and an open that nobody disturbs succeeds and *)
(* is complete.  What carries these is what an opener knows at each        *)
(* statement: outside the transaction only that the history has grown      *)
(* since it was counted (Counted), inside it that what it stages is what   *)
(* is committed, plus its own migration (Staged).                          *)
(*                                                                         *)
(* AuditLog, for any number of processes, generations, limits and          *)
(* interruptions: the chain of events is whole and its links survive.      *)
(* Neither is inductive: between two steps of an operation the files hold  *)
(* rows twice, or rows about to be removed.  The invariant is about the    *)
(* log these files stand for (Log), what the operation remembers of it     *)
(* (Chain, Fit), the order of the rows, which survives interruptions       *)
(* (Order), and where lines without an end may be (Ends).                  *)
(***************************************************************************)
EXTENDS StateSchema, AuditLog, FiniteSetTheorems, SequenceTheorems, WellFoundedInduction,
        TLAPS

(***************************************************************************)
(* StateSchema: what an opener knows at each statement.                    *)
(***************************************************************************)
Databases ==
  [tables : SUBSET Tables, schema : Seq(Nat), history : Seq(Nat), version : Nat, rows : Nat]

Copies == [history : Seq(Nat), rows : Nat]

AtCreate == {"schema_migrations", "state_meta"}
AtVerify == {"verify", "version", "count"}
AtMigrate == {"backup", "replace", "begin", "migrate", "commit"}
AtRuntime == {"grant_issuer_keys", "mount_runtime", "boundary", "audit_retention_boundary"}
Places == {"closed", "connect", "chmod"} \cup AtCreate \cup AtVerify \cup AtMigrate \cup AtRuntime
InTransaction == {"migrate", "commit"}

Results == {"none", "open", "permission", "refused", "corrupt", "state_migration", "state_open"}
Files == {"absent", "public", "private"}

\* Every variable has its type; alone is a history of Booleans.
TypeOK ==
  /\ file \in Files
  /\ db \in Databases
  /\ lock \in Openers \cup {Nobody}
  /\ staged \in Databases
  /\ backup \in [Destructive -> Copies]
  /\ copy \in [Openers -> Copies]
  /\ at \in [Openers -> Places]
  /\ seen \in [Openers -> Nat]
  /\ next \in [Openers -> Nat \ {0}]
  /\ result \in [Openers -> Results]
  /\ crashes \in Nat

\* The write lock is held exactly inside the transaction.
Locked(o) == lock = o <=> at[o] \in InTransaction

\* The count an opener acts on is not ahead of the history.
Counted(o) ==
  at[o] \in AtMigrate => next[o] <= Len(db.history) + 1 /\ next[o] <= Known[o]

\* What a transaction has staged.
Staged(o) ==
  /\ at[o] = "migrate" => staged = db
  /\ at[o] = "commit" =>
       /\ next[o] = Len(db.history) + 1
       /\ staged = [db EXCEPT !.schema = Append(@, next[o]), !.history = Append(@, next[o])]

\* What a copy for the next migration must have: the schema, and no row that is
\* not in the database.
Timely(c) == c.history = db.history /\ c.rows <= db.rows

\* A copy or a backup that was taken for the next migration is still good.
BackedUp(o) ==
  next[o] = Len(db.history) + 1 =>
    /\ at[o] = "replace" => Timely(copy[o])
    /\ at[o] \in {"begin", "migrate", "commit"} /\ next[o] \in Destructive =>
         Timely(backup[next[o]])

\* The tables and migrations an opener has passed are there.
Passed(o) ==
  /\ at[o] \in {"state_meta"} \cup AtVerify \cup AtMigrate \cup AtRuntime =>
       "schema_migrations" \in db.tables
  /\ at[o] \in AtVerify \cup AtMigrate \cup AtRuntime => "state_meta" \in db.tables
  /\ at[o] \in {"mount_runtime", "boundary", "audit_retention_boundary"} =>
       "grant_issuer_keys" \in db.tables
  /\ at[o] \in {"boundary", "audit_retention_boundary"} => "mount_runtime" \in db.tables
  /\ at[o] \in AtRuntime => Len(db.history) >= Known[o]
  /\ result[o] = "open" => Len(db.history) >= Known[o] /\ db.tables = Tables

\* What an opener may count on while nobody else is there.
Undisturbed(o) ==
  alone[o] =>
    /\ \A q \in Openers : q # o => at[q] = "closed"
    /\ Len(db.history) <= Known[o]
    /\ result[o] \in {"none", "open"}
    /\ at[o] = "version" => seen[o] = Len(db.history)
    /\ at[o] \in {"backup", "replace", "begin", "migrate"} => next[o] = Len(db.history) + 1
    /\ at[o] = "audit_retention_boundary" => "audit_retention_boundary" \notin db.tables

Sound(o) ==
  Locked(o) /\ Counted(o) /\ Staged(o) /\ BackedUp(o) /\ Passed(o) /\ Undisturbed(o)

IInv == TypeOK /\ SchemaIsItsHistory /\ \A o \in Openers : Sound(o)

\* The tables by name.
LEMMA TableNames ==
  /\ DOMAIN Books = {1, 2} /\ Books[1] = "schema_migrations" /\ Books[2] = "state_meta"
  /\ DOMAIN Runtime = 1 .. 3
  /\ Runtime[1] = "grant_issuer_keys" /\ Runtime[2] = "mount_runtime"
  /\ Runtime[3] = "audit_retention_boundary"
  /\ Tables = {"schema_migrations", "state_meta", "grant_issuer_keys", "mount_runtime",
               "audit_retention_boundary"}
BY DEF Books, Runtime, Tables

LEMMA EmptyIsDatabase == Empty \in Databases
BY DEF Empty, Databases

LEMMA NoBackupIsCopy == NoBackup \in Copies
BY DEF NoBackup, Copies

LEMMA InitIInv == Init => IInv
<1>1. SUFFICES ASSUME Init PROVE IInv
  OBVIOUS
<1>2. TypeOK
  BY <1>1, EmptyIsDatabase, NoBackupIsCopy, OpenersAssumption
     DEF Init, TypeOK, Files, Places, Results
<1>3. SchemaIsItsHistory
  BY <1>1 DEF Init, SchemaIsItsHistory, Empty
<1>4. ASSUME NEW o \in Openers PROVE Sound(o)
  BY <1>1, OpenersAssumption
     DEF Init, Sound, AtVerify, AtMigrate, AtRuntime, InTransaction, Locked, Counted,
         Staged, BackedUp, Passed, Undisturbed, Nobody
<1> QED
  BY <1>2, <1>3, <1>4 DEF IInv

-----------------------------------------------------------------------------
\* A step that commits no migration: it may make a table, when nobody is in a
\* transaction.
Same ==
  /\ db' \in Databases
  /\ db'.schema = db.schema /\ db'.history = db.history /\ db'.version = db.version
  /\ db.tables \subseteq db'.tables /\ db.rows <= db'.rows
  /\ lock # Nobody => db' = db

LEMMA UnchangedIsSame == ASSUME TypeOK, db' = db PROVE Same
BY DEF Same, TypeOK, Databases

LEMMA MadeIsSame ==
  ASSUME TypeOK, NEW t \in Tables, lock = Nobody, db' = Made(t, db)
  PROVE  Same /\ db'.tables = db.tables \cup {t}
<1>1. db \in Databases /\ db' = [db EXCEPT !.tables = @ \cup {t}]
  BY DEF TypeOK, Made
<1>2. /\ db'.tables = db.tables \cup {t} /\ db'.schema = db.schema
      /\ db'.history = db.history /\ db'.version = db.version /\ db'.rows = db.rows
      /\ db' \in Databases
  BY <1>1 DEF Databases
<1>3. db.rows <= db.rows
  BY <1>1 DEF Databases
<1> QED
  BY <1>2, <1>3 DEF Same

LEMMA HistoryStays ==
  ASSUME SchemaIsItsHistory, Same PROVE SchemaIsItsHistory'
BY DEF SchemaIsItsHistory, Same

\* The backup of an opener's migration is its copy.
Renamed(p) == /\ at[p] = "replace" /\ next[p] \in Destructive
               /\ backup' = [backup EXCEPT ![next[p]] = copy[p]]

\* An opener that does not take the step keeps what it knows.
LEMMA OthersKeep ==
  ASSUME IInv, NEW q \in Openers, Same,
         at'[q] = at[q], next'[q] = next[q], result'[q] = result[q], ~alone'[q],
         copy'[q] = copy[q], lock' = q <=> lock = q, lock = q => staged' = staged,
         backup' = backup \/ \E p \in Openers : Renamed(p)
  PROVE  Sound(q)'
<1> USE DEF IInv, Sound
<1>1. Locked(q)' /\ Counted(q)'
  BY DEF Locked, Counted, Same
<1>2. Staged(q)'
  BY OpenersAssumption DEF Staged, Locked, Same, InTransaction
<1>3. BackedUp(q)'
  <2>1. \A c \in Copies : Timely(c) => Timely(c)'
    BY DEF Timely, Same, TypeOK, Databases, Copies
  <2>2. next[q] = Len(db.history) + 1 => \A p \in Openers : Renamed(p) /\ next[p] = next[q] => Timely(copy[p])
    BY DEF BackedUp, Renamed
  <2> QED
    BY <2>1, <2>2 DEF BackedUp, Renamed, Same, TypeOK, Copies
<1>4. Passed(q)'
  BY TableNames DEF Passed, Same, TypeOK, Databases
<1>5. Undisturbed(q)'
  BY DEF Undisturbed
<1> QED
  BY <1>1, <1>2, <1>3, <1>4, <1>5

\* While an opener is inside open, no other one is alone.
LEMMA OthersAreNotAlone ==
  ASSUME IInv, NEW o \in Openers, NEW q \in Openers, q # o, at[o] # "closed"
  PROVE  ~alone[q]
BY DEF IInv, Sound, Undisturbed

\* open ends, well or badly.
LEMMA EndKeeps ==
  ASSUME IInv, NEW o \in Openers, NEW r \in Results, End(o, r), Same,
         at[o] # "closed", UNCHANGED <<backup, alone>>, file' \in Files, crashes' \in Nat,
         alone[o] => r \in {"none", "open"},
         r = "open" => Len(db.history) >= Known[o] /\ db'.tables = Tables
  PROVE  IInv'
<1>1. TypeOK'
  BY EmptyIsDatabase DEF IInv, TypeOK, End, Goto, Same, Places, NoBackup, Copies
<1>2. at'[o] = "closed" /\ lock' # o /\ result'[o] = r
  BY OpenersAssumption DEF IInv, TypeOK, End, Goto
<1>3. Sound(o)'
  <2>1. Locked(o)' /\ Counted(o)' /\ Staged(o)' /\ BackedUp(o)'
    BY <1>2 DEF Locked, Counted, Staged, BackedUp, InTransaction, AtMigrate
  <2>2. Passed(o)'
    BY <1>2 DEF Passed, Same, AtVerify, AtMigrate, AtRuntime
  <2>3. \A q \in Openers : q # o => at'[q] = at[q]
    BY DEF IInv, TypeOK, End, Goto
  <2>4. Undisturbed(o)'
    BY <1>2, <2>3 DEF IInv, Sound, Undisturbed, Same
  <2> QED
    BY <2>1, <2>2, <2>4 DEF Sound
<1>4. ASSUME NEW q \in Openers, q # o PROVE Sound(q)'
  <2>1. at'[q] = at[q] /\ next'[q] = next[q] /\ result'[q] = result[q] /\ copy'[q] = copy[q]
    BY <1>4 DEF IInv, TypeOK, End, Goto
  <2>2. (lock' = q <=> lock = q) /\ (lock = q => staged' = staged)
    BY <1>4, OpenersAssumption DEF IInv, TypeOK, End
  <2>3. ~alone'[q]
    BY <1>4, OthersAreNotAlone
  <2> QED
    BY <2>1, <2>2, <2>3, OthersKeep
<1> QED
  BY <1>1, <1>3, <1>4, HistoryStays DEF IInv

\* An opener goes on, outside the transaction.
LEMMA MoveKeeps ==
  ASSUME IInv, NEW o \in Openers, NEW s \in Places \ InTransaction, Goto(o, s), Same,
         at[o] \notin InTransaction \cup {"closed"},
         UNCHANGED <<lock, staged, result, alone>>,
         file' \in Files, crashes' = crashes,
         seen' \in [Openers -> Nat], next' \in [Openers -> Nat \ {0}],
         \A q \in Openers : q # o => next'[q] = next[q] /\ copy'[q] = copy[q],
         copy' \in [Openers -> Copies],
         backup' = backup \/ Renamed(o),
         Counted(o)', BackedUp(o)', Passed(o)', Undisturbed(o)'
  PROVE  IInv'
<1>1. TypeOK'
  <2>1. backup' \in [Destructive -> Copies]
    BY DEF IInv, TypeOK, Renamed
  <2> QED
    BY <2>1 DEF IInv, TypeOK, Goto, Same
<1>2. at'[o] = s
  BY DEF IInv, TypeOK, Goto
<1>3. Locked(o)' /\ Staged(o)'
  BY <1>2 DEF IInv, Sound, Locked, Staged, InTransaction
<1>4. ASSUME NEW q \in Openers, q # o PROVE Sound(q)'
  <2>1. at'[q] = at[q] /\ ~alone'[q]
    BY <1>4, OthersAreNotAlone DEF IInv, TypeOK, Goto
  <2>2. backup' = backup \/ \E p \in Openers : Renamed(p)
    OBVIOUS
  <2> QED
    BY <1>4, <2>1, <2>2, OthersKeep
<1> QED
  BY <1>1, <1>3, <1>4, HistoryStays DEF IInv, Sound

-----------------------------------------------------------------------------
LEMMA OpenKeeps ==
  ASSUME IInv, NEW o \in Openers, Open(o)
  PROVE  IInv'
<1> USE DEF IInv, Sound
<1>1. at'[o] \in {"closed", "connect"} /\ result'[o] \in {"none", "permission"}
  BY DEF Open, Goto, End, TypeOK
<1>2. lock' = lock /\ lock # o /\ staged' = staged /\ db' = db /\ backup' = backup
  BY DEF Open, End, Locked, InTransaction
<1>3. \A q \in Openers : q # o => /\ at'[q] = at[q] /\ next'[q] = next[q] /\ copy'[q] = copy[q]
                                  /\ result'[q] = result[q] /\ ~alone'[q]
  BY DEF Open, Goto, End, TypeOK
<1>4. TypeOK'
  <2>1. /\ at' \in [Openers -> Places] /\ result' \in [Openers -> Results]
        /\ seen' \in [Openers -> Nat] /\ next' \in [Openers -> Nat \ {0}]
        /\ copy' \in [Openers -> Copies]
    <3>1. CASE Private
      BY <3>1 DEF Open, Goto, TypeOK, Places, Results
    <3>2. CASE ~Private
      <4>1. End(o, "permission")
        BY <3>2 DEF Open
      <4> QED
        BY <4>1 DEF End, Goto, TypeOK, Places, Results, NoBackup, Copies
    <3> QED
      BY <3>1, <3>2
  <2>2. UNCHANGED <<file, crashes>>
    BY DEF Open
  <2> QED
    BY <1>2, <2>1, <2>2 DEF TypeOK
<1>5. Sound(o)'
  <2>1. Locked(o)' /\ Counted(o)' /\ Staged(o)' /\ BackedUp(o)'
    BY <1>1, <1>2 DEF Locked, Counted, Staged, BackedUp, InTransaction, AtMigrate
  <2>2. Passed(o)'
    BY <1>1 DEF Passed, AtVerify, AtMigrate, AtRuntime
  <2>3. CASE Private
    <3>1. result'[o] = "none"
      BY <2>3 DEF Open, TypeOK
    <3>2. alone'[o] => /\ \A q \in Openers : at[q] = "closed"
                       /\ Len(db.history) <= Known[o]
      BY DEF Open
    <3> QED
      BY <2>1, <2>2, <3>1, <3>2, <1>1, <1>2, <1>3 DEF Undisturbed
  <2>4. CASE ~Private
    <3>1. ~alone'[o]
      BY <2>4 DEF Open
    <3> QED
      BY <2>1, <2>2, <3>1 DEF Undisturbed
  <2> QED
    BY <2>3, <2>4
<1>6. ASSUME NEW q \in Openers, q # o PROVE Sound(q)'
  BY <1>2, <1>3, <1>6, OthersKeep, UnchangedIsSame
<1>7. SchemaIsItsHistory'
  BY <1>2 DEF SchemaIsItsHistory
<1> QED
  BY <1>4, <1>5, <1>6, <1>7

\* connect, chmod and the statements that only read.
LEMMA ConnectKeeps ==
  ASSUME IInv, NEW o \in Openers, Connect(o) \/ Chmod(o)
  PROVE  IInv'
<1> DEFINE s == IF Connect(o) THEN "chmod" ELSE "schema_migrations"
<1>1. /\ Goto(o, s) /\ s \in Places \ InTransaction /\ s \notin AtMigrate
      /\ at[o] \in {"connect", "chmod"}
  BY TableNames DEF Connect, Chmod, Places, AtCreate, AtMigrate, InTransaction
<1>2. at'[o] = s
  BY <1>1 DEF Goto, IInv, TypeOK
<1>3. /\ UNCHANGED <<db, lock, staged, backup, copy, seen, next, result, alone, crashes>>
      /\ file' \in Files
  BY DEF Connect, Chmod, IInv, TypeOK, Files
<1>4. Counted(o)' /\ BackedUp(o)' /\ Passed(o)'
  BY <1>2, <1>3
     DEF Counted, BackedUp, Passed, AtVerify, AtMigrate, AtRuntime, IInv, Sound
<1>5. Undisturbed(o)'
  BY <1>1, <1>2, <1>3 DEF Undisturbed, IInv, Sound, Goto, TypeOK
<1> QED
  BY <1>1, <1>3, <1>4, <1>5, MoveKeeps, UnchangedIsSame DEF IInv, TypeOK, InTransaction

LEMMA CreateKeeps ==
  ASSUME IInv, NEW o \in Openers, NEW t \in Tables \ {"audit_retention_boundary"}, Create(o, t)
  PROVE  IInv'
<1>1. /\ Goto(o, After(t)) /\ at[o] = t
      /\ UNCHANGED <<file, lock, staged, backup, copy, seen, next, result, alone, crashes>>
  BY DEF Create
<1>2. Same /\ db'.tables = db.tables \cup {t}
  <2>1. CASE t \in db.tables
    <3>1. db' = db
      BY <2>1 DEF Create, Made, IInv, TypeOK, Databases
    <3> QED
      BY <2>1, <3>1, UnchangedIsSame DEF IInv
  <2>2. CASE t \notin db.tables
    BY <2>2, MadeIsSame DEF Create, IInv
  <2> QED
    BY <2>1, <2>2
<1>3. /\ t = "schema_migrations" => After(t) = "state_meta"
      /\ t = "state_meta" => After(t) = "verify"
      /\ t = "grant_issuer_keys" => After(t) = "mount_runtime"
      /\ t = "mount_runtime" => After(t) = "boundary"
      /\ t \in {"schema_migrations", "state_meta", "grant_issuer_keys", "mount_runtime"}
  BY TableNames DEF After
<1>4. at'[o] = After(t) /\ \A q \in Openers : q # o => at'[q] = at[q]
  BY <1>1 DEF Goto, IInv, TypeOK
<1>5. Counted(o)' /\ BackedUp(o)'
  BY <1>3, <1>4 DEF Counted, BackedUp, AtMigrate
<1>6. Passed(o)'
  BY <1>1, <1>2, <1>3, <1>4, TableNames
     DEF Passed, AtVerify, AtMigrate, AtRuntime, IInv, Sound, Same, TypeOK, Databases
<1>7. Undisturbed(o)'
  BY <1>1, <1>2, <1>3, <1>4 DEF Undisturbed, IInv, Sound, Same
<1>8. After(t) \in Places \ InTransaction /\ at[o] \notin InTransaction \cup {"closed"}
  BY <1>1, <1>3 DEF Places, AtCreate, AtVerify, AtRuntime, InTransaction
<1> QED
  BY <1>1, <1>2, <1>5, <1>6, <1>7, <1>8, MoveKeeps DEF IInv, TypeOK

LEMMA VerifyHistoryKeeps ==
  ASSUME IInv, NEW o \in Openers, VerifyHistory(o)
  PROVE  IInv'
<1>1. Same /\ at[o] = "verify"
  BY UnchangedIsSame DEF VerifyHistory, IInv
<1>2. CASE End(o, "refused")
  <2>1. ~alone[o] \/ ~(Len(db.history) > Known[o] \/ \E i \in DOMAIN db.history : db.history[i] # i)
    BY OpenersAssumption DEF IInv, Sound, Undisturbed, SchemaIsItsHistory, TypeOK, Databases
  <2>2. CASE Len(db.history) > Known[o] \/ \E i \in DOMAIN db.history : db.history[i] # i
    BY <1>1, <1>2, <2>1, <2>2, EndKeeps DEF VerifyHistory, IInv, TypeOK, Results
  <2>3. CASE ~(Len(db.history) > Known[o] \/ \E i \in DOMAIN db.history : db.history[i] # i)
    BY <1>2, <2>3 DEF VerifyHistory, Goto, End, IInv, TypeOK
  <2> QED
    BY <2>2, <2>3
<1>3. CASE /\ seen' = [seen EXCEPT ![o] = Len(db.history)]
           /\ Goto(o, "version")
           /\ UNCHANGED <<lock, staged, next, result, copy>>
  <2>1. at'[o] = "version" /\ seen'[o] = Len(db.history)
        /\ \A q \in Openers : q # o => at'[q] = at[q]
    BY <1>3 DEF Goto, IInv, TypeOK
  <2>2. Counted(o)' /\ BackedUp(o)'
    BY <2>1 DEF Counted, BackedUp, AtMigrate
  <2>3. Passed(o)'
    BY <1>1, <1>3, <2>1
       DEF Passed, AtVerify, AtMigrate, AtRuntime, IInv, Sound, VerifyHistory
  <2>4. Undisturbed(o)'
    BY <1>1, <1>3, <2>1 DEF Undisturbed, IInv, Sound, VerifyHistory
  <2>5. seen' \in [Openers -> Nat] /\ "version" \in Places \ InTransaction
    BY <1>3 DEF IInv, TypeOK, Databases, Places, AtVerify, InTransaction
  <2> QED
    BY <1>1, <1>3, <2>2, <2>3, <2>4, <2>5, MoveKeeps
       DEF VerifyHistory, IInv, TypeOK, InTransaction
<1> QED
  BY <1>2, <1>3 DEF VerifyHistory

LEMMA VerifyVersionKeeps ==
  ASSUME IInv, NEW o \in Openers, VerifyVersion(o)
  PROVE  IInv'
<1>1. Same /\ at[o] = "version"
  BY UnchangedIsSame DEF VerifyVersion, IInv
<1>2. CASE db.version # seen[o]
  <2>1. ~alone[o]
    BY <1>1, <1>2 DEF IInv, Sound, Undisturbed, SchemaIsItsHistory
  <2> QED
    BY <1>1, <1>2, <2>1, EndKeeps DEF VerifyVersion, IInv, TypeOK, Results
<1>3. CASE db.version = seen[o]
  <2>1. /\ Goto(o, "count")
        /\ UNCHANGED <<file, db, backup, copy, alone, crashes, result, lock, staged, seen, next>>
    BY <1>3 DEF VerifyVersion, Stay
  <2>2. at'[o] = "count" /\ \A q \in Openers : q # o => at'[q] = at[q]
    BY <2>1 DEF Goto, IInv, TypeOK
  <2>3. Counted(o)' /\ BackedUp(o)'
    BY <2>2 DEF Counted, BackedUp, AtMigrate
  <2>4. Passed(o)'
    BY <1>1, <2>1, <2>2 DEF Passed, AtVerify, AtMigrate, AtRuntime, IInv, Sound
  <2>5. Undisturbed(o)'
    BY <1>1, <2>1, <2>2 DEF Undisturbed, IInv, Sound
  <2>6. "count" \in Places \ InTransaction
    BY DEF Places, AtVerify, InTransaction
  <2> QED
    BY <1>1, <2>1, <2>3, <2>4, <2>5, <2>6, MoveKeeps DEF IInv, TypeOK, InTransaction
<1> QED
  BY <1>2, <1>3

\* Where the loop goes.
LEMMA LoopGoes ==
  ASSUME NEW v \in Nat \ {0}, NEW o \in Openers
  PROVE  \/ v > Known[o] /\ Loop(v, o) = "grant_issuer_keys"
         \/ v <= Known[o] /\ v \in Destructive /\ Loop(v, o) = "backup"
         \/ v <= Known[o] /\ v \notin Destructive /\ Loop(v, o) = "begin"
BY OpenersAssumption, TableNames DEF Loop

LEMMA CountAppliedKeeps ==
  ASSUME IInv, NEW o \in Openers, CountApplied(o)
  PROVE  IInv'
<1> DEFINE v == Len(db.history) + 1
<1>1. /\ Same /\ at[o] = "count" /\ v \in Nat \ {0} /\ Known[o] \in Nat
      /\ UNCHANGED <<file, db, lock, staged, backup, copy, seen, result, alone, crashes>>
  <2>1. Len(db.history) \in Nat
    BY DEF IInv, TypeOK, Databases
  <2> QED
    BY <2>1, UnchangedIsSame, OpenersAssumption DEF CountApplied, IInv
<1>2. /\ at'[o] = Loop(v, o) /\ next'[o] = v
      /\ \A q \in Openers : q # o => at'[q] = at[q] /\ next'[q] = next[q]
  BY DEF CountApplied, Goto, IInv, TypeOK
<1>3. Counted(o)' /\ BackedUp(o)'
  BY <1>1, <1>2, LoopGoes DEF Counted, BackedUp, AtMigrate
<1>4. Passed(o)'
  <2>1. at'[o] = "grant_issuer_keys" => Len(db.history) >= Known[o]
    BY <1>1, <1>2, LoopGoes
  <2> QED
    BY <1>1, <1>2, <2>1, LoopGoes DEF Passed, AtVerify, AtMigrate, AtRuntime, IInv, Sound
<1>5. Undisturbed(o)'
  BY <1>1, <1>2, LoopGoes DEF Undisturbed, IInv, Sound
<1>6. Loop(v, o) \in Places \ InTransaction
  BY <1>1, LoopGoes DEF Places, AtMigrate, AtRuntime, InTransaction
<1>7. Goto(o, Loop(v, o)) /\ next' \in [Openers -> Nat \ {0}]
  BY <1>1 DEF CountApplied, IInv, TypeOK
<1> QED
  BY <1>1, <1>2, <1>3, <1>4, <1>5, <1>6, <1>7, MoveKeeps DEF IInv, TypeOK, InTransaction

LEMMA BackupBeforeKeeps ==
  ASSUME IInv, NEW o \in Openers, BackupBefore(o)
  PROVE  IInv'
<1>1. /\ Same /\ at[o] = "backup" /\ Goto(o, "replace") /\ "replace" \in Places \ InTransaction
      /\ UNCHANGED <<file, db, lock, staged, backup, seen, next, result, alone, crashes>>
  BY UnchangedIsSame DEF BackupBefore, IInv, Places, AtMigrate, InTransaction
<1>2. at'[o] = "replace" /\ \A q \in Openers : q # o => at'[q] = at[q] /\ copy'[q] = copy[q]
  BY <1>1 DEF BackupBefore, Goto, IInv, TypeOK
<1>3. Copied(db) \in Copies /\ Timely(Copied(db))
  BY DEF Copied, Copies, Timely, IInv, TypeOK, Databases
<1>4. copy' \in [Openers -> Copies] /\ copy'[o] = Copied(db)
  BY <1>3 DEF BackupBefore, IInv, TypeOK
<1>5. Counted(o)'
  BY <1>1, <1>2 DEF Counted, AtMigrate, IInv, Sound
<1>6. BackedUp(o)'
  BY <1>1, <1>2, <1>3, <1>4 DEF BackedUp, Timely
<1>7. Passed(o)'
  BY <1>1, <1>2 DEF Passed, AtVerify, AtMigrate, AtRuntime, IInv, Sound
<1>8. Undisturbed(o)'
  BY <1>1, <1>2 DEF Undisturbed, IInv, Sound
<1> QED
  BY <1>1, <1>2, <1>4, <1>5, <1>6, <1>7, <1>8, MoveKeeps DEF IInv, TypeOK, InTransaction

LEMMA ReplaceBackupKeeps ==
  ASSUME IInv, NEW o \in Openers, ReplaceBackup(o)
  PROVE  IInv'
<1>1. /\ Same /\ at[o] = "replace" /\ Goto(o, "begin") /\ "begin" \in Places \ InTransaction
      /\ UNCHANGED <<file, db, lock, staged, seen, next, result, alone, crashes>>
  BY UnchangedIsSame DEF ReplaceBackup, IInv, Places, AtMigrate, InTransaction
<1>2. at'[o] = "begin" /\ \A q \in Openers : q # o => at'[q] = at[q] /\ copy'[q] = copy[q]
  BY <1>1 DEF ReplaceBackup, Goto, IInv, TypeOK
<1>3. copy' \in [Openers -> Copies]
  BY DEF ReplaceBackup, IInv, TypeOK, NoBackup, Copies
<1>4. backup' = backup \/ Renamed(o)
  <2>1. CASE next[o] \in Destructive
    BY <1>1, <2>1 DEF ReplaceBackup, Renamed
  <2>2. CASE next[o] \notin Destructive
    BY <2>2 DEF ReplaceBackup, IInv, TypeOK
  <2> QED
    BY <2>1, <2>2
<1>5. Counted(o)'
  BY <1>1, <1>2 DEF Counted, AtMigrate, IInv, Sound
<1>6. BackedUp(o)'
  BY <1>1, <1>2 DEF BackedUp, Timely, ReplaceBackup, IInv, Sound, TypeOK
<1>7. Passed(o)'
  BY <1>1, <1>2 DEF Passed, AtVerify, AtMigrate, AtRuntime, IInv, Sound
<1>8. Undisturbed(o)'
  BY <1>1, <1>2 DEF Undisturbed, IInv, Sound
<1> QED
  BY <1>1, <1>2, <1>3, <1>4, <1>5, <1>6, <1>7, <1>8, MoveKeeps DEF IInv, TypeOK, InTransaction

LEMMA BeginKeeps ==
  ASSUME IInv, NEW o \in Openers, BeginImmediate(o)
  PROVE  IInv'
<1>1. /\ Same /\ at[o] = "begin" /\ lock = Nobody /\ lock' = o /\ staged' = db
      /\ UNCHANGED <<file, db, backup, copy, seen, next, result, alone, crashes>>
  BY UnchangedIsSame DEF BeginImmediate, IInv
<1>2. at'[o] = "migrate" /\ \A q \in Openers : q # o => at'[q] = at[q]
  BY DEF BeginImmediate, Goto, IInv, TypeOK
<1>3. TypeOK'
  BY <1>1 DEF BeginImmediate, Goto, IInv, TypeOK, Places, AtMigrate
<1>4. Sound(o)'
  <2>1. Locked(o)' /\ Staged(o)' /\ Counted(o)' /\ BackedUp(o)'
    <3>1. Locked(o)' /\ Staged(o)' /\ Counted(o)'
      BY <1>1, <1>2 DEF Locked, Staged, Counted, InTransaction, AtMigrate, IInv, Sound
    <3>2. BackedUp(o) /\ at[o] = "begin"
      BY DEF BeginImmediate, IInv, Sound
    <3>3. BackedUp(o)'
      BY <1>1, <1>2, <3>2 DEF BackedUp, Timely
    <3> QED
      BY <3>1, <3>3
  <2>2. Passed(o)' /\ Undisturbed(o)'
    BY <1>1, <1>2 DEF Passed, Undisturbed, AtVerify, AtMigrate, AtRuntime, IInv, Sound
  <2> QED
    BY <2>1, <2>2 DEF Sound
<1>5. ASSUME NEW q \in Openers, q # o PROVE Sound(q)'
  <2>1. ~alone'[q] /\ lock # q
    BY <1>1, <1>5, OthersAreNotAlone, OpenersAssumption
  <2> QED
    BY <1>1, <1>2, <1>5, <2>1, OthersKeep
<1> QED
  BY <1>1, <1>3, <1>4, <1>5, HistoryStays DEF IInv

\* The pending migration is recorded exactly if another opener was faster.
LEMMA RefusedIfBehind ==
  ASSUME IInv, NEW o \in Openers, at[o] = "migrate"
  PROVE  /\ staged = db
         /\ Refuses(staged, next[o]) <=> next[o] # Len(db.history) + 1
<1>1. staged = db
  BY DEF IInv, Sound, Staged
<1>2. /\ next[o] \in Nat \ {0} /\ next[o] <= Len(db.history) + 1
      /\ Len(db.history) \in Nat /\ DOMAIN db.history = 1 .. Len(db.history)
      /\ \A i \in DOMAIN db.history : db.history[i] = i
  BY DEF IInv, Sound, Counted, AtMigrate, TypeOK, Databases, SchemaIsItsHistory
<1> QED
  BY <1>1, <1>2 DEF Refuses, IsRecorded

LEMMA MigrateKeeps ==
  ASSUME IInv, NEW o \in Openers, Migrate(o)
  PROVE  IInv'
<1> DEFINE n == next[o]
<1>1. /\ at[o] = "migrate" /\ UNCHANGED <<file, backup, alone, crashes, db>>
      /\ Same
  BY UnchangedIsSame DEF Migrate, Visible, IInv
<1>2. CASE n # Len(db.history) + 1
  <2>1. End(o, "state_migration")
    BY <1>1, <1>2, RefusedIfBehind DEF Migrate
  <2>2. ~alone[o]
    BY <1>1, <1>2 DEF IInv, Sound, Undisturbed
  <2> QED
    BY <1>1, <2>1, <2>2, EndKeeps DEF IInv, TypeOK, Results
<1>3. CASE n = Len(db.history) + 1
  <2>1. /\ staged = db
        /\ staged' = [db EXCEPT !.schema = Append(@, n), !.history = Append(@, n)]
        /\ Goto(o, "commit") /\ UNCHANGED <<lock, seen, next, result, copy>>
    BY <1>1, <1>3, RefusedIfBehind DEF Migrate, Applied
  <2>2. at'[o] = "commit" /\ \A q \in Openers : q # o => at'[q] = at[q]
    BY <2>1 DEF Goto, IInv, TypeOK
  <2>3. TypeOK'
    <3>1. staged' \in Databases
      <4>1. n \in Nat /\ db \in Databases
        BY DEF IInv, TypeOK
      <4>2. Append(db.schema, n) \in Seq(Nat) /\ Append(db.history, n) \in Seq(Nat)
        BY <4>1 DEF Databases
      <4> QED
        BY <2>1, <4>1, <4>2 DEF Databases
    <3>2. at' \in [Openers -> Places]
      BY <2>1 DEF Goto, IInv, TypeOK, Places, AtMigrate
    <3> QED
      BY <1>1, <2>1, <3>1, <3>2 DEF IInv, TypeOK
  <2>4. Sound(o)'
    <3>1. Locked(o)' /\ Staged(o)' /\ Counted(o)' /\ BackedUp(o)'
      <4>1. Locked(o)' /\ Staged(o)' /\ Counted(o)'
        BY <1>1, <1>3, <2>1, <2>2
           DEF Locked, Staged, Counted, InTransaction, AtMigrate, IInv, Sound
      <4>2. BackedUp(o)
        BY DEF IInv, Sound
      <4>3. BackedUp(o)'
        BY <1>1, <2>1, <2>2, <4>2 DEF BackedUp, Timely
      <4> QED
        BY <4>1, <4>3
    <3>2. Passed(o)' /\ Undisturbed(o)'
      BY <1>1, <2>1, <2>2
         DEF Passed, Undisturbed, AtVerify, AtMigrate, AtRuntime, IInv, Sound
    <3> QED
      BY <3>1, <3>2 DEF Sound
  <2>5. ASSUME NEW q \in Openers, q # o PROVE Sound(q)'
    <3>1. lock = o /\ lock # q
      BY <1>1, <2>5 DEF IInv, Sound, Locked, InTransaction
    <3>2. ~alone'[q]
      BY <1>1, <2>5, OthersAreNotAlone
    <3> QED
      BY <1>1, <2>1, <2>2, <2>5, <3>1, <3>2, OthersKeep
  <2> QED
    BY <1>1, <2>3, <2>4, <2>5, HistoryStays DEF IInv
<1> QED
  BY <1>2, <1>3

\* What a commit adds to the history.
LEMMA CommitAdds ==
  ASSUME IInv, NEW o \in Openers, Commit(o)
  PROVE  /\ next[o] = Len(db.history) + 1
         /\ db' = [tables |-> db.tables, schema |-> Append(db.schema, next[o]),
                   history |-> Append(db.history, next[o]), version |-> next[o], rows |-> db.rows]
         /\ db' \in Databases
         /\ Len(db'.history) = Len(db.history) + 1
         /\ lock = o
<1>1. /\ at[o] = "commit" /\ lock = o /\ next[o] = Len(db.history) + 1
      /\ staged = [db EXCEPT !.schema = Append(@, next[o]), !.history = Append(@, next[o])]
      /\ db' = [staged EXCEPT !.version = next[o]]
  BY DEF Commit, IInv, Sound, Staged, Locked, InTransaction
<1>2. /\ db = [tables |-> db.tables, schema |-> db.schema, history |-> db.history,
               version |-> db.version, rows |-> db.rows]
      /\ db.rows \in Nat /\ db.tables \in SUBSET Tables /\ db.schema \in Seq(Nat) /\ db.history \in Seq(Nat)
      /\ next[o] \in Nat
  BY DEF IInv, TypeOK, Databases
<1>3. /\ Append(db.schema, next[o]) \in Seq(Nat) /\ Append(db.history, next[o]) \in Seq(Nat)
      /\ Len(Append(db.history, next[o])) = Len(db.history) + 1
  BY <1>2
<1>4. db' = [tables |-> db.tables, schema |-> Append(db.schema, next[o]),
             history |-> Append(db.history, next[o]), version |-> next[o], rows |-> db.rows]
  BY <1>1, <1>2
<1> QED
  BY <1>1, <1>2, <1>3, <1>4 DEF Databases

LEMMA CommitKeeps ==
  ASSUME IInv, NEW o \in Openers, Commit(o)
  PROVE  IInv'
<1> DEFINE n == next[o]
<1>1. /\ n = Len(db.history) + 1 /\ n \in Nat \ {0} /\ Len(db.history) \in Nat
      /\ db'.tables = db.tables /\ db'.schema = Append(db.schema, n)
      /\ db'.history = Append(db.history, n) /\ db'.version = n
      /\ db' \in Databases /\ Len(db'.history) = n /\ lock = o
  <2>1. /\ next[o] = Len(db.history) + 1 /\ db' \in Databases
        /\ db' = [tables |-> db.tables, schema |-> Append(db.schema, next[o]),
                  history |-> Append(db.history, next[o]), version |-> next[o], rows |-> db.rows]
        /\ Len(db'.history) = Len(db.history) + 1 /\ lock = o
    BY CommitAdds
  <2>2. db.history \in Seq(Nat)
    BY DEF IInv, TypeOK, Databases
  <2>3. Len(db.history) \in Nat
    BY <2>2
  <2> QED
    BY <2>1, <2>3
<1>2. /\ at[o] = "commit" /\ lock' = Nobody /\ staged' = Empty /\ next'[o] = n + 1
      /\ at'[o] = Loop(n + 1, o)
      /\ \A q \in Openers : q # o => at'[q] = at[q] /\ next'[q] = next[q]
      /\ UNCHANGED <<file, backup, copy, seen, result, alone, crashes>>
  BY DEF Commit, Goto, IInv, TypeOK
<1>3. n + 1 \in Nat \ {0} /\ n <= Known[o] /\ Known[o] \in Nat
  BY <1>1, <1>2, OpenersAssumption DEF IInv, Sound, Counted, AtMigrate
<1>4. /\ \/ n + 1 > Known[o] /\ at'[o] = "grant_issuer_keys"
         \/ n + 1 <= Known[o] /\ n + 1 \in Destructive /\ at'[o] = "backup"
         \/ n + 1 <= Known[o] /\ n + 1 \notin Destructive /\ at'[o] = "begin"
      /\ at'[o] \in Places
  <2> HIDE DEF n
  <2> QED
    BY <1>2, <1>3, LoopGoes DEF Places, AtMigrate, AtRuntime
<1>5. TypeOK'
  <2>1. at' \in [Openers -> Places]
    BY <1>2, <1>4 DEF Commit, Goto, IInv, TypeOK
  <2>2. next' \in [Openers -> Nat \ {0}]
    BY <1>3 DEF Commit, IInv, TypeOK
  <2> QED
    BY <1>1, <1>2, <2>1, <2>2, EmptyIsDatabase DEF IInv, TypeOK
<1>6. SchemaIsItsHistory'
  <2>1. db.history \in Seq(Nat) /\ db.schema = db.history
        /\ \A i \in DOMAIN db.history : db.history[i] = i
    BY DEF IInv, SchemaIsItsHistory, TypeOK, Databases
  <2>2. \A i \in DOMAIN Append(db.history, n) : Append(db.history, n)[i] = i
    BY <1>1, <2>1
  <2> QED
    BY <1>1, <2>1, <2>2 DEF SchemaIsItsHistory
<1>7. Sound(o)'
  <2>1. Locked(o)' /\ Staged(o)' /\ Counted(o)' /\ BackedUp(o)'
    BY <1>1, <1>2, <1>3, <1>4, OpenersAssumption
       DEF Locked, Staged, Counted, BackedUp, InTransaction, AtMigrate
  <2>2. Passed(o)'
    BY <1>1, <1>2, <1>3, <1>4
       DEF Passed, AtVerify, AtMigrate, AtRuntime, IInv, Sound
  <2>3. Undisturbed(o)'
    BY <1>1, <1>2, <1>3, <1>4 DEF Undisturbed, IInv, Sound
  <2> QED
    BY <2>1, <2>2, <2>3 DEF Sound
<1>8. ASSUME NEW q \in Openers, q # o PROVE Sound(q)'
  <2>1. /\ at[q] \notin InTransaction /\ at'[q] = at[q] /\ next'[q] = next[q]
        /\ lock' # q /\ ~alone'[q] /\ result'[q] = result[q] /\ backup' = backup
    BY <1>1, <1>2, <1>8, OthersAreNotAlone, OpenersAssumption DEF IInv, Sound, Locked
  <2>2. /\ at[q] \in AtMigrate => next[q] <= Len(db.history) + 1 /\ next[q] <= Known[q]
        /\ next[q] \in Nat /\ Known[q] \in Nat
    BY OpenersAssumption DEF IInv, Sound, Counted, TypeOK
  <2>3. Locked(q)' /\ Staged(q)' /\ Counted(q)' /\ BackedUp(q)'
    BY <1>1, <2>1, <2>2
       DEF Locked, Staged, Counted, BackedUp, InTransaction, AtMigrate
  <2>4. Passed(q)'
    BY <1>1, <2>1, <2>2 DEF Passed, IInv, Sound
  <2>5. Undisturbed(q)'
    BY <2>1 DEF Undisturbed
  <2> QED
    BY <2>3, <2>4, <2>5 DEF Sound
<1> QED
  BY <1>5, <1>6, <1>7, <1>8 DEF IInv

LEMMA LookForBoundaryKeeps ==
  ASSUME IInv, NEW o \in Openers, LookForBoundary(o)
  PROVE  IInv'
<1>1. /\ Same /\ at[o] = "boundary"
      /\ UNCHANGED <<file, db, backup, alone, crashes>>
  BY UnchangedIsSame DEF LookForBoundary, IInv
<1>2. CASE "audit_retention_boundary" \in db.tables
  <2>1. End(o, "open")
    BY <1>2, TableNames DEF LookForBoundary
  <2>2. db'.tables = Tables /\ Len(db.history) >= Known[o]
    BY <1>1, <1>2, TableNames
       DEF IInv, Sound, Passed, AtRuntime, TypeOK, Databases
  <2> QED
    BY <1>1, <2>1, <2>2, EndKeeps DEF IInv, TypeOK, Results
<1>3. CASE "audit_retention_boundary" \notin db.tables
  <2>1. Goto(o, "audit_retention_boundary") /\ UNCHANGED <<lock, staged, seen, next, result, copy>>
    BY <1>3, TableNames DEF LookForBoundary, Stay
  <2>2. at'[o] = "audit_retention_boundary" /\ \A q \in Openers : q # o => at'[q] = at[q]
    BY <2>1 DEF Goto, IInv, TypeOK
  <2>3. Counted(o)' /\ BackedUp(o)'
    BY <2>2 DEF Counted, BackedUp, AtMigrate
  <2>4. Passed(o)'
    BY <1>1, <2>1, <2>2 DEF Passed, AtVerify, AtMigrate, AtRuntime, IInv, Sound
  <2>5. Undisturbed(o)'
    BY <1>1, <1>3, <2>1, <2>2 DEF Undisturbed, IInv, Sound
  <2>6. "audit_retention_boundary" \in Places \ InTransaction
    BY DEF Places, AtRuntime, InTransaction
  <2> QED
    BY <1>1, <2>1, <2>3, <2>4, <2>5, <2>6, MoveKeeps DEF IInv, TypeOK, InTransaction
<1> QED
  BY <1>2, <1>3

LEMMA MakeBoundaryKeeps ==
  ASSUME IInv, NEW o \in Openers, MakeBoundary(o)
  PROVE  IInv'
<1>1. /\ at[o] = "audit_retention_boundary"
      /\ UNCHANGED <<file, backup, alone, crashes>>
  BY TableNames DEF MakeBoundary
<1>2. CASE "audit_retention_boundary" \in db.tables
  <2>1. End(o, "state_open") /\ db' = db
    BY <1>2, TableNames DEF MakeBoundary
  <2>2. Same /\ ~alone[o]
    BY <1>1, <1>2, <2>1, UnchangedIsSame DEF IInv, Sound, Undisturbed
  <2> QED
    BY <1>1, <2>1, <2>2, EndKeeps DEF IInv, TypeOK, Results
<1>3. CASE "audit_retention_boundary" \notin db.tables
  <2>1. /\ End(o, "open") /\ lock = Nobody
        /\ db' = Made("audit_retention_boundary", db)
    BY <1>3, TableNames DEF MakeBoundary
  <2>2. Same /\ db'.tables = db.tables \cup {"audit_retention_boundary"}
    BY <2>1, TableNames, MadeIsSame DEF IInv
  <2>3. db'.tables = Tables /\ Len(db.history) >= Known[o]
    BY <1>1, <2>2, TableNames
       DEF IInv, Sound, Passed, AtRuntime, TypeOK, Databases
  <2> QED
    BY <1>1, <2>1, <2>2, <2>3, EndKeeps DEF IInv, TypeOK, Results
<1> QED
  BY <1>2, <1>3

\* A transaction of a process that is through: the schema stays, and whoever
\* holds a copy holds no more rows than there are.
LEMMA WriteRowsKeeps ==
  ASSUME IInv, NEW w \in Openers, WriteRows(w)
  PROVE  IInv'
<1>1. /\ lock = Nobody
      /\ UNCHANGED <<file, lock, staged, backup, copy, at, seen, next, result, alone, crashes>>
  BY DEF WriteRows
<1>2. Same /\ db'.tables = db.tables
  <2>1. db' = [db EXCEPT !.rows = @ + 1] /\ db \in Databases
    BY DEF WriteRows, IInv, TypeOK
  <2>2. db.rows \in Nat /\ db.rows + 1 \in Nat
    BY <2>1 DEF Databases
  <2>3. /\ db'.tables = db.tables /\ db'.schema = db.schema
        /\ db'.history = db.history /\ db'.version = db.version
        /\ db'.rows = db.rows + 1
    BY <2>1 DEF Databases
  <2>4. db' \in Databases
    BY <2>1, <2>2 DEF Databases
  <2> QED
    BY <1>1, <2>2, <2>3, <2>4 DEF Same
<1>3. TypeOK'
  BY <1>1, <1>2 DEF IInv, TypeOK, Same
<1>4. ASSUME NEW o \in Openers PROVE Sound(o)'
  <2>1. Sound(o) /\ lock # o
    BY <1>1, OpenersAssumption DEF IInv
  <2>2. Locked(o)' /\ Counted(o)' /\ Staged(o)'
    BY <1>1, <1>2, <2>1 DEF Sound, Locked, Counted, Staged, Same, InTransaction
  <2>3. BackedUp(o)'
    <3>1. \A c \in Copies : Timely(c) => Timely(c)'
      BY <1>2 DEF Timely, Same, IInv, TypeOK, Databases, Copies
    <3> QED
      BY <1>1, <1>2, <2>1, <3>1 DEF Sound, BackedUp, Same, IInv, TypeOK
  <2>4. Passed(o)' /\ Undisturbed(o)'
    BY <1>1, <1>2, <2>1 DEF Sound, Passed, Undisturbed, Same
  <2> QED
    BY <2>2, <2>3, <2>4 DEF Sound
<1> QED
  BY <1>2, <1>3, <1>4, HistoryStays DEF IInv

\* A statement that waits in vain, and a killed opener.
LEMMA GivesUpKeeps ==
  ASSUME IInv, NEW o \in Openers, Busy(o) \/ Crash(o)
  PROVE  IInv'
<1>1. Same /\ at[o] # "closed"
  BY UnchangedIsSame, TableNames DEF Busy, Crash, IInv
<1>2. CASE Busy(o)
  <2>1. PICK q \in Openers : q # o /\ at[q] # "closed"
    BY <1>2 DEF Busy, IInv, TypeOK, Sound, Locked, InTransaction
  <2>2. ~alone[o]
    BY <2>1, OthersAreNotAlone
  <2>3. PICK r \in {"state_migration", "state_open"} : End(o, r)
    BY <1>2 DEF Busy
  <2> QED
    BY <1>1, <1>2, <2>2, <2>3, EndKeeps DEF Busy, IInv, TypeOK, Results
<1>3. CASE Crash(o)
  BY <1>1, <1>3, EndKeeps DEF Crash, IInv, TypeOK, Results
<1> QED
  BY <1>2, <1>3

-----------------------------------------------------------------------------
LEMMA StepKeeps ==
  ASSUME IInv, [Next]_vars PROVE IInv'
<1>1. CASE UNCHANGED vars
  <2>1. UNCHANGED <<file, db, lock, staged, backup, copy, at, seen, next, result, alone, crashes>>
    BY <1>1 DEF vars
  <2>2. TypeOK' BY <2>1 DEF IInv, TypeOK
  <2>3. SchemaIsItsHistory' BY <2>1 DEF IInv, SchemaIsItsHistory
  <2>4. ASSUME NEW o \in Openers PROVE Sound(o)'
    <3>1. Sound(o) BY DEF IInv
    <3>2. Locked(o)' /\ Counted(o)' BY <2>1, <3>1 DEF Sound, Locked, Counted
    <3>3. Staged(o)' /\ BackedUp(o)' BY <2>1, <3>1 DEF Sound, Staged, BackedUp, Timely
    <3>4. Passed(o)' /\ Undisturbed(o)' BY <2>1, <3>1 DEF Sound, Passed, Undisturbed
    <3> QED BY <3>2, <3>3, <3>4 DEF Sound
  <2> QED BY <2>2, <2>3, <2>4 DEF IInv
<1>2. ASSUME NEW o \in Openers, Bootstrap(o) \/ EnsureRuntimeTables(o) PROVE IInv'
  <2>1. PICK t \in Tables \ {"audit_retention_boundary"} : Create(o, t)
    BY <1>2, TableNames DEF Bootstrap, EnsureRuntimeTables
  <2> QED
    BY <2>1, CreateKeeps
<1> QED
  BY <1>1, <1>2, OpenKeeps, ConnectKeeps, VerifyHistoryKeeps, VerifyVersionKeeps,
     CountAppliedKeeps, BackupBeforeKeeps, ReplaceBackupKeeps, WriteRowsKeeps, BeginKeeps, MigrateKeeps, CommitKeeps,
     LookForBoundaryKeeps, MakeBoundaryKeeps, GivesUpKeeps DEF Next

\* The inductive invariant holds, for any openers, releases and deaths.
THEOREM Inductive == Spec => []IInv
<1>1. IInv /\ [Next]_vars => IInv'
  BY StepKeeps
<1> QED
  BY <1>1, InitIInv, PTL DEF Spec

\* What is committed is what the migrations make, each applied once, in order.
THEOREM SchemaStaysItsHistory == Spec => []SchemaIsItsHistory
<1>1. IInv => SchemaIsItsHistory
  BY DEF IInv
<1> QED
  BY <1>1, Inductive, PTL

\* An open nobody disturbs succeeds, and an open database is complete.
THEOREM OpensDoSucceed == Spec => []OpensSucceed
<1>1. IInv => OpensSucceed
  BY DEF IInv, Sound, OpensSucceed, Undisturbed, Passed
<1> QED
  BY <1>1, Inductive, PTL

\* When a destructive migration commits, its backup has the schema before it and
\* no row that is not in the database; rows committed since the copy it may lack.
THEOREM BackupsPrecede == Spec => BackupPrecedes
<1> DEFINE Precedes == \A v \in Destructive :
              IsRecorded(v, db') /\ ~ IsRecorded(v, db) =>
                backup[v].history = db.history /\ backup[v].rows <= db.rows
<1>1. ASSUME IInv, [Next]_vars PROVE [Precedes]_vars
  <2>1. CASE db'.history = db.history
    BY <2>1 DEF IsRecorded
  <2>2. ASSUME NEW o \in Openers, Commit(o) PROVE Precedes
    <3>1. SUFFICES ASSUME NEW v \in Destructive, IsRecorded(v, db'), ~ IsRecorded(v, db)
                   PROVE  backup[v].history = db.history /\ backup[v].rows <= db.rows
      OBVIOUS
    <3>2. /\ db.history \in Seq(Nat) /\ next[o] = Len(db.history) + 1
          /\ db'.history = Append(db.history, next[o])
      <4>1. /\ next[o] = Len(db.history) + 1
            /\ db' = [tables |-> db.tables, schema |-> Append(db.schema, next[o]),
                      history |-> Append(db.history, next[o]), version |-> next[o], rows |-> db.rows]
        BY <1>1, <2>2, CommitAdds
      <4>2. db.history \in Seq(Nat)
        BY <1>1 DEF IInv, TypeOK, Databases
      <4> QED
        BY <4>1, <4>2
    <3>3. v = next[o]
      BY <3>1, <3>2 DEF IsRecorded
    <3> QED
      BY <1>1, <2>2, <3>2, <3>3 DEF Commit, IInv, Sound, BackedUp, Timely
  <2>3. Next => \/ \E o \in Openers : Commit(o)
                \/ db'.history = db.history
    BY <1>1
       DEF Next, Open, Connect, Chmod, Bootstrap, EnsureRuntimeTables, Create, Made,
           VerifyHistory, VerifyVersion, CountApplied, BackupBefore, ReplaceBackup, WriteRows, BeginImmediate,
           Migrate, Visible, LookForBoundary, MakeBoundary, Busy, Crash, IInv, TypeOK, Databases
  <2> QED
    BY <1>1, <2>1, <2>2, <2>3
<1>2. IInv /\ [Next]_vars => [Precedes]_vars
  BY <1>1
<1> QED
  BY <1>2, Inductive, PTL DEF Spec, BackupPrecedes

-----------------------------------------------------------------------------
(***************************************************************************)
(* Induction over numbers and sequences, without an operator for the predicate.*)
(***************************************************************************)
LEMMA FiniteMinimum ==
  ASSUME NEW U, NEW T, T \subseteq FiniteSubsetsOf(U), T # {}
  PROVE  \E x \in T : \A y \in T : ~(y \subseteq x /\ y # x)
<1>1. IsWellFoundedOn(StrictSubsetOrdering(U), FiniteSubsetsOf(U))
  BY FS_StrictSubsetOrderingWellFounded
<1>2. PICK x \in T : \A y \in T : ~(<<y, x>> \in StrictSubsetOrdering(U))
  BY ONLY <1>1, WFMin, T \subseteq FiniteSubsetsOf(U), T # {}, Zenon
<1> QED BY <1>2 DEF StrictSubsetOrdering, FiniteSubsetsOf

LEMMA Least ==
  ASSUME NEW T \in SUBSET Nat, T # {}
  PROVE  \E n \in T : \A m \in T : n <= m
<1> DEFINE S == {1 .. n : n \in T}
<1>1. S \subseteq FiniteSubsetsOf(Nat)
  <2>1. SUFFICES ASSUME NEW n \in T PROVE 1 .. n \in SUBSET Nat /\ IsFiniteSet(1 .. n)
    BY DEF FiniteSubsetsOf
  <2>2. n \in Int /\ 1 \in Int BY SMT
  <2>3. IsFiniteSet(1 .. n) BY <2>2, FS_Interval
  <2> QED BY <2>3, SMT
<1>2. S # {}
  OBVIOUS
<1>3. PICK x \in S : \A y \in S : ~(y \subseteq x /\ y # x)
  <2> HIDE DEF S
  <2> QED BY <1>1, <1>2, FiniteMinimum
<1>4. PICK n \in T : x = 1 .. n
  OBVIOUS
<1>5. ASSUME NEW m \in T PROVE n <= m
  <2>1. CASE m < n
    <3>1. 1 .. m \in S OBVIOUS
    <3>2. 1 .. m \subseteq 1 .. n BY <2>1, SMT
    <3>3. n \in 1 .. n /\ n \notin 1 .. m BY <2>1, SMT
    <3> QED BY <3>1, <3>2, <3>3, <1>3, <1>4, Zenon
  <2> QED BY <2>1, SMT
<1> QED BY <1>5

\* Induction over the numbers, with the predicate as a set.
LEMMA Induction ==
  ASSUME NEW T, 0 \in T, \A n \in Nat : n \in T => n + 1 \in T
  PROVE  Nat \subseteq T
<1> SUFFICES ASSUME Nat \ T # {} PROVE FALSE
  OBVIOUS
<1>1. PICK n \in Nat \ T : \A m \in Nat \ T : n <= m
  BY Least
<1>2. n # 0 /\ n - 1 \in Nat /\ ~(n <= n - 1) /\ n = (n - 1) + 1
  BY <1>1, SMT
<1>3. n - 1 \in T
  BY <1>1, <1>2
<1> QED BY <1>1, <1>2, <1>3

\* Induction over sequences, from the empty one by appending.
LEMMA SeqInduction ==
  ASSUME NEW S, NEW T, <<>> \in T,
         \A s \in Seq(S), x \in S : s \in T => Append(s, x) \in T
  PROVE  Seq(S) \subseteq T
<1> DEFINE N == {n \in Nat : \A s \in Seq(S) : Len(s) = n => s \in T}
<1>1. 0 \in N
  BY EmptySeq
<1>2. ASSUME NEW n \in N, n \in Nat PROVE n + 1 \in N
  <2>1. SUFFICES ASSUME NEW s \in Seq(S), Len(s) = n + 1 PROVE s \in T
    OBVIOUS
  <2>2. SubSeq(s, 1, n) \in Seq(S) /\ Len(SubSeq(s, 1, n)) = n /\ s[n + 1] \in S
    BY <2>1, <1>2
  <2>3. s = Append(SubSeq(s, 1, n), s[n + 1])
    BY <2>1, <2>2
  <2> QED BY <1>2, <2>2, <2>3
<1>3. Nat \subseteq N
  <2>1. \A n \in Nat : n \in N => n + 1 \in N BY <1>2
  <2> HIDE DEF N
  <2> QED BY <1>1, <2>1, Induction
<1> QED BY <1>3

\* Applying one function after the other.
LEMMA Iteration ==
  ASSUME NEW b \in Seq(Rows), NEW n \in Nat, NEW step \in [1 .. n -> [Seq(Rows) -> Seq(Rows)]]
  PROVE  \E g \in [0 .. n -> Seq(Rows)] : g[0] = b /\ \A i \in 1 .. n : g[i] = step[i][g[i - 1]]
<1> DEFINE Good(g, k) == g \in [0 .. k -> Seq(Rows)] /\ g[0] = b /\ \A i \in 1 .. k : g[i] = step[i][g[i - 1]]
<1> DEFINE T == {k \in Nat : k <= n => \E g : Good(g, k)}
<1>1. 0 \in T
  <2>1. Good([i \in 0 .. 0 |-> b], 0) OBVIOUS
  <2> QED BY <2>1
<1>2. ASSUME NEW k \in Nat, k \in T, k + 1 <= n PROVE \E g : Good(g, k + 1)
  <2>1. PICK g : Good(g, k)
    <3> HIDE DEF Good
    <3> QED BY <1>2
  <2> DEFINE h == [i \in 0 .. k + 1 |-> IF i <= k THEN g[i] ELSE step[k + 1][g[k]]]
  <2>2. g[k] \in Seq(Rows) /\ k + 1 \in 1 .. n BY <2>1, <1>2
  <2>3. step[k + 1][g[k]] \in Seq(Rows) BY <2>2
  <2>4. h \in [0 .. k + 1 -> Seq(Rows)] /\ h[0] = b BY <2>1, <2>3
  <2>5. ASSUME NEW i \in 1 .. k + 1 PROVE h[i] = step[i][h[i - 1]]
    BY <2>1, <2>5
  <2>6. Good(h, k + 1) BY <2>4, <2>5
  <2> QED BY <2>6
<1>3. Nat \subseteq T
  <2> HIDE DEF Good
  <2>1. \A k \in Nat : k \in T => k + 1 \in T BY <1>2
  <2> HIDE DEF T
  <2> QED BY <1>1, <2>1, Induction
<1>4. \E g : Good(g, n)
  <2> HIDE DEF Good
  <2> QED BY <1>3
<1> QED BY <1>4

\* What holds of 0 and goes on, up to n.
LEMMA Upto ==
  ASSUME NEW n \in Nat, NEW T, 0 \in T, \A i \in 1 .. n : i - 1 \in T => i \in T
  PROVE  \A i \in 0 .. n : i \in T
<1> DEFINE U == {k \in Nat : k <= n => k \in T}
<1>1. 0 \in U OBVIOUS
<1>2. ASSUME NEW k \in Nat, k \in U PROVE k + 1 \in U
  <2>1. CASE k + 1 <= n
    <3>1. k + 1 \in 1 .. n /\ (k + 1) - 1 = k /\ k \in T BY <1>2, <2>1
    <3> QED BY <3>1
  <2>2. CASE ~(k + 1 <= n) BY <2>2
  <2> QED BY <2>1, <2>2
<1>3. Nat \subseteq U
  <2> HIDE DEF U
  <2> QED BY <1>1, <1>2, Induction
<1> QED BY <1>3

-----------------------------------------------------------------------------
(***************************************************************************)
(* AuditLog: the events among the rows of a file (Events).                 *)
(***************************************************************************)
LEMMA ConstantsAreNumbers ==
  /\ Retain \in Nat /\ Retain >= 1 /\ Retention \in Nat /\ Retention >= 1
  /\ MaxEvents \in Nat /\ MaxEvents >= 2 /\ MaxInterrupts \in Nat
  /\ "free" \notin Procs
BY ConstantsAssumption

LEMMA RowFacts ==
  /\ Junk \in Rows /\ Torn \in Rows
  /\ ~IsEvent(Junk) /\ ~IsEvent(Torn) /\ ~Unended(Junk) /\ Unended(Torn)
BY ConstantsAreNumbers DEF Junk, Torn, Event, Rows, IsEvent, Unended

(* Events *)

\* How many rows have been looked at, and what was kept of them.
EventSteps(s, k) ==
  /\ k \in [0 .. Len(s) -> Seq(Rows)] /\ k[0] = <<>>
  /\ \A i \in 1 .. Len(s) :
       k[i] = IF IsEvent(s[i]) THEN Append(k[i - 1], s[i]) ELSE k[i - 1]

LEMMA EventsHasSteps ==
  ASSUME NEW s \in Seq(Rows)
  PROVE  \E k : EventSteps(s, k) /\ Events(s) = k[Len(s)]
<1> DEFINE n == Len(s)
           step == [i \in 1 .. n |-> [a \in Seq(Rows) |-> IF IsEvent(s[i]) THEN Append(a, s[i]) ELSE a]]
           Body(k) == [i \in 0 .. n |-> IF i = 0 THEN <<>>
                         ELSE IF IsEvent(s[i]) THEN Append(k[i - 1], s[i]) ELSE k[i - 1]]
           chosen == CHOOSE k : k = Body(k)
<1>1. n \in Nat /\ <<>> \in Seq(Rows)
  OBVIOUS
<1>2. step \in [1 .. n -> [Seq(Rows) -> Seq(Rows)]]
  OBVIOUS
<1>3. PICK g \in [0 .. n -> Seq(Rows)] :
        g[0] = <<>> /\ \A i \in 1 .. n : g[i] = step[i][g[i - 1]]
  <2>1. \A f \in [1 .. Len(s) -> [Seq(Rows) -> Seq(Rows)]] :
          \E g \in [0 .. Len(s) -> Seq(Rows)] :
            g[0] = <<>> /\ \A i \in 1 .. Len(s) : g[i] = f[i][g[i - 1]]
    BY <1>1, Iteration
  <2> HIDE DEF step
  <2> QED BY <1>2, <2>1
<1>4. g = Body(g)
  <2>1. ASSUME NEW i \in 0 .. n, i # 0
        PROVE  g[i] = IF IsEvent(s[i]) THEN Append(g[i - 1], s[i]) ELSE g[i - 1]
    <3>1. i \in 1 .. n /\ g[i - 1] \in Seq(Rows)
      <4> HIDE DEF step, Body, chosen
      <4>1. i \in 1 .. n /\ i - 1 \in 0 .. n BY <2>1, <1>1
      <4> HIDE DEF n
      <4> QED BY <4>1, <1>3
    <3> QED BY <3>1, <1>3
  <2> QED BY <1>3, <2>1
<1>5. chosen = Body(chosen)
  BY <1>4
<1>6. Events(s) = chosen[n]
  BY Zenon DEF Events
<1> HIDE DEF chosen
<1>7. \A i \in 0 .. n : chosen[i] = g[i]
  <2>1. chosen[0] = g[0] BY <1>3, <1>5
  <2>2. \A i \in 1 .. n : chosen[i - 1] = g[i - 1] => chosen[i] = g[i]
    <3>1. SUFFICES ASSUME NEW i \in 1 .. n, chosen[i - 1] = g[i - 1] PROVE chosen[i] = g[i]
      OBVIOUS
    <3>2. i \in 0 .. n /\ i # 0 OBVIOUS
    <3>3. chosen[i] = IF IsEvent(s[i]) THEN Append(chosen[i - 1], s[i]) ELSE chosen[i - 1]
      BY <1>5, <3>2, Zenon
    <3>4. g[i] = IF IsEvent(s[i]) THEN Append(g[i - 1], s[i]) ELSE g[i - 1]
      BY <1>4, <3>2, Zenon
    <3> QED BY <3>1, <3>3, <3>4
  <2> DEFINE T == {i \in 0 .. n : chosen[i] = g[i]}
  <2>3. 0 \in T BY <1>1, <2>1
  <2>4. \A i \in 1 .. n : i - 1 \in T => i \in T BY <1>1, <2>2
  <2>5. \A i \in 0 .. n : i \in T
    <3> HIDE DEF T
    <3> QED BY <1>1, <2>3, <2>4, Upto
  <2> QED BY <2>5
<1>8. EventSteps(s, g)
  <2>1. \A i \in 1 .. n : g[i] = IF IsEvent(s[i]) THEN Append(g[i - 1], s[i]) ELSE g[i - 1]
    <3>1. \A i \in 1 .. n : i \in 0 .. n /\ i # 0 OBVIOUS
    <3> QED BY <1>4, <3>1, Zenon
  <2> QED BY <1>3, <2>1 DEF EventSteps
<1> QED BY <1>1, <1>6, <1>7, <1>8

LEMMA EventsOfNone == Events(<<>>) = <<>>
<1>1. <<>> \in Seq(Rows) /\ Len(<<>>) = 0 OBVIOUS
<1> QED BY <1>1, EventsHasSteps DEF EventSteps

LEMMA EventsOfMore ==
  ASSUME NEW s \in Seq(Rows), NEW x \in Rows
  PROVE  /\ Events(s) \in Seq(Rows)
         /\ Events(Append(s, x)) = IF IsEvent(x) THEN Append(Events(s), x) ELSE Events(s)
<1> DEFINE t == Append(s, x)
<1>1. t \in Seq(Rows) /\ Len(t) = Len(s) + 1 /\ t[Len(s) + 1] = x
      /\ \A i \in 1 .. Len(s) : t[i] = s[i]
  OBVIOUS
<1>2. PICK k : EventSteps(s, k) /\ Events(s) = k[Len(s)]
  BY EventsHasSteps
<1>3. PICK m : EventSteps(t, m) /\ Events(t) = m[Len(t)]
  BY <1>1, EventsHasSteps
<1> HIDE DEF t
<1>4. \A i \in 0 .. Len(s) : m[i] = k[i]
  <2>1. Len(s) \in Nat /\ m[0] = k[0] BY <1>2, <1>3 DEF EventSteps
  <2>2. \A i \in 1 .. Len(s) : m[i - 1] = k[i - 1] => m[i] = k[i]
    BY <1>1, <1>2, <1>3 DEF EventSteps
  <2> DEFINE T == {i \in 0 .. Len(s) : m[i] = k[i]}
  <2>3. 0 \in T BY <2>1
  <2>4. \A i \in 1 .. Len(s) : i - 1 \in T => i \in T BY <2>1, <2>2
  <2>5. \A i \in 0 .. Len(s) : i \in T
    <3> HIDE DEF T
    <3> QED BY <2>1, <2>3, <2>4, Upto
  <2> QED BY <2>5
<1>5. m[Len(s) + 1] = IF IsEvent(x) THEN Append(m[Len(s)], x) ELSE m[Len(s)]
  BY <1>1, <1>3 DEF EventSteps
<1> QED BY <1>1, <1>2, <1>3, <1>4, <1>5 DEF EventSteps, t

\* The events of some rows are some of the rows, in their order, and all that
\* are events.
EventsAt(s, m) ==
  /\ m \in [1 .. Len(Events(s)) -> 1 .. Len(s)]
  /\ \A a, b \in 1 .. Len(Events(s)) : a < b => m[a] < m[b]
  /\ \A a \in 1 .. Len(Events(s)) : Events(s)[a] = s[m[a]] /\ IsEvent(s[m[a]])
  /\ \A j \in 1 .. Len(s) : IsEvent(s[j]) => \E a \in 1 .. Len(Events(s)) : m[a] = j

LEMMA EventsAreRows ==
  ASSUME NEW s \in Seq(Rows)
  PROVE  \E m : EventsAt(s, m)
<1> DEFINE T == {r \in Seq(Rows) : \E m : EventsAt(r, m)}
<1>1. <<>> \in T
  <2>1. EventsAt(<<>>, [a \in 1 .. 0 |-> 0])
    BY EventsOfNone DEF EventsAt
  <2> QED BY <2>1
<1>2. ASSUME NEW r \in Seq(Rows), NEW x \in Rows, \E m : EventsAt(r, m)
      PROVE  \E m : EventsAt(Append(r, x), m)
  <2>1. PICK m : EventsAt(r, m)
    BY <1>2
  <2>2. Events(r) \in Seq(Rows)
    BY EventsOfMore
  <2> DEFINE n == Len(Events(r))
             h == [a \in 1 .. n + 1 |-> IF a <= n THEN m[a] ELSE Len(r) + 1]
             t == Append(r, x)
  <2>3. /\ t \in Seq(Rows) /\ Len(t) = Len(r) + 1 /\ t[Len(r) + 1] = x
        /\ \A i \in 1 .. Len(r) : t[i] = r[i]
    OBVIOUS
  <2>4. n \in Nat /\ Len(r) \in Nat
    BY <2>2
  <2>5. CASE IsEvent(x)
    <3>1. Events(t) = Append(Events(r), x)
      BY EventsOfMore, <2>5
    <3>2. /\ Len(Events(t)) = n + 1 /\ Events(t)[n + 1] = x
          /\ \A i \in 1 .. n : Events(t)[i] = Events(r)[i]
      BY <2>2, <3>1
    <3> HIDE DEF t
    <3>3. h \in [1 .. n + 1 -> 1 .. Len(t)]
      BY <2>1, <2>3, <2>4 DEF EventsAt
    <3>4. \A a, b \in 1 .. n + 1 : a < b => h[a] < h[b]
      BY <2>1, <2>4, SMTT(20) DEF EventsAt
    <3>5. \A a \in 1 .. n + 1 : Events(t)[a] = t[h[a]] /\ IsEvent(t[h[a]])
      <4>1. SUFFICES ASSUME NEW a \in 1 .. n + 1 PROVE Events(t)[a] = t[h[a]] /\ IsEvent(t[h[a]])
        OBVIOUS
      <4>2. CASE a = n + 1
        <5>1. h[a] = Len(r) + 1 BY <4>2, <2>4
        <5> QED BY <5>1, <4>2, <2>3, <3>2, <2>5
      <4>3. CASE a # n + 1
        <5>1. a \in 1 .. n /\ h[a] = m[a] BY <4>3, <2>4
        <5>2. m[a] \in 1 .. Len(r) /\ Events(r)[a] = r[m[a]] /\ IsEvent(r[m[a]])
          BY <5>1, <2>1 DEF EventsAt
        <5> QED BY <5>1, <5>2, <3>2, <2>3
      <4> QED BY <4>2, <4>3
    <3>6. \A j \in 1 .. Len(t) : IsEvent(t[j]) => \E a \in 1 .. n + 1 : h[a] = j
      <4>1. SUFFICES ASSUME NEW j \in 1 .. Len(t), IsEvent(t[j]) PROVE \E a \in 1 .. n + 1 : h[a] = j
        OBVIOUS
      <4>2. CASE j = Len(r) + 1
        <5>1. n + 1 \in 1 .. n + 1 /\ h[n + 1] = j BY <4>2, <2>4
        <5> QED BY <5>1
      <4>3. CASE j # Len(r) + 1
        <5>1. j \in 1 .. Len(r) BY <4>3, <2>3, <2>4
        <5>2. PICK a \in 1 .. n : m[a] = j
          BY <5>1, <4>1, <2>1, <2>3 DEF EventsAt
        <5>3. a \in 1 .. n + 1 /\ h[a] = j BY <5>2, <2>4
        <5> QED BY <5>3
      <4> QED BY <4>2, <4>3
    <3>7. EventsAt(t, h)
      <4> HIDE DEF h
      <4> QED BY <3>2, <3>3, <3>4, <3>5, <3>6 DEF EventsAt
    <3> QED BY <3>7 DEF t
  <2>6. CASE ~IsEvent(x)
    <3>1. Events(t) = Events(r)
      BY EventsOfMore, <2>6
    <3> HIDE DEF t
    <3>2. \A j \in 1 .. Len(t) : IsEvent(t[j]) => j \in 1 .. Len(r)
      BY <2>3, <2>4, <2>6
    <3>3. EventsAt(t, m)
      <4>1. m \in [1 .. n -> 1 .. Len(t)]
        BY <2>1, <2>3, <2>4 DEF EventsAt
      <4>2. \A a \in 1 .. n : m[a] \in 1 .. Len(r)
        BY <2>1 DEF EventsAt
      <4>3. \A a \in 1 .. n : Events(t)[a] = t[m[a]] /\ IsEvent(t[m[a]])
        BY <2>1, <3>1, <4>2, <2>3 DEF EventsAt
      <4>4. \A j \in 1 .. Len(t) : IsEvent(t[j]) => \E a \in 1 .. n : m[a] = j
        BY <2>1, <3>2, <2>3 DEF EventsAt
      <4> QED BY <2>1, <3>1, <4>1, <4>3, <4>4 DEF EventsAt
    <3> QED BY <3>3 DEF t
  <2> QED BY <2>5, <2>6
<1>3. Seq(Rows) \subseteq T
  <2>1. \A r \in Seq(Rows), x \in Rows : r \in T => Append(r, x) \in T BY <1>2
  <2> HIDE DEF T
  <2> QED BY <1>1, <2>1, SeqInduction
<1> QED BY <1>3

\* What follows for the events of a file.
LEMMA EventsType ==
  ASSUME NEW s \in Seq(Rows)
  PROVE  /\ Events(s) \in Seq(Rows) /\ Len(Events(s)) <= Len(s)
         /\ \A a \in 1 .. Len(Events(s)) : IsEvent(Events(s)[a])
<1> DEFINE T == {r \in Seq(Rows) : Len(Events(r)) <= Len(r)}
<1>1. <<>> \in T
  BY EventsOfNone
<1>2. ASSUME NEW r \in Seq(Rows), NEW x \in Rows, r \in T PROVE Append(r, x) \in T
  <2>1. Events(r) \in Seq(Rows)
        /\ Events(Append(r, x)) = IF IsEvent(x) THEN Append(Events(r), x) ELSE Events(r)
    BY EventsOfMore
  <2> QED BY <1>2, <2>1
<1>3. Seq(Rows) \subseteq T
  <2> HIDE DEF T
  <2> QED BY <1>1, <1>2, SeqInduction
<1>4. Events(s) \in Seq(Rows)
  BY RowFacts, EventsOfMore
<1>5. PICK m : EventsAt(s, m)
  BY EventsAreRows
<1> QED BY <1>3, <1>4, <1>5 DEF EventsAt

LEMMA EventsOfAll ==
  ASSUME NEW s \in Seq(Rows), \A i \in 1 .. Len(s) : IsEvent(s[i])
  PROVE  Events(s) = s
<1> DEFINE T == {r \in Seq(Rows) : (\A i \in 1 .. Len(r) : IsEvent(r[i])) => Events(r) = r}
<1>1. <<>> \in T
  BY EventsOfNone
<1>2. ASSUME NEW r \in Seq(Rows), NEW x \in Rows, r \in T PROVE Append(r, x) \in T
  <2>0. Append(r, x) \in Seq(Rows) OBVIOUS
  <2>1. SUFFICES ASSUME \A i \in 1 .. Len(Append(r, x)) : IsEvent(Append(r, x)[i])
                 PROVE  Events(Append(r, x)) = Append(r, x)
    BY <2>0
  <2>2. IsEvent(x) /\ \A i \in 1 .. Len(r) : IsEvent(r[i])
    <3>1. Append(r, x)[Len(r) + 1] = x /\ Len(Append(r, x)) = Len(r) + 1
          /\ \A i \in 1 .. Len(r) : Append(r, x)[i] = r[i]
      OBVIOUS
    <3> QED BY <2>1, <3>1
  <2>3. Events(r) = r BY <1>2, <2>2
  <2> QED BY <2>2, <2>3, EventsOfMore
<1>3. Seq(Rows) \subseteq T
  <2> HIDE DEF T
  <2> QED BY <1>1, <1>2, SeqInduction
<1> QED BY <1>3

-----------------------------------------------------------------------------
(***************************************************************************)
(* What is written behind a row that lacks its end (Behind, Joined).       *)
(***************************************************************************)
\* What is written behind the rows of a file.
LEMMA BehindOne ==
  ASSUME NEW s \in Seq(Rows), NEW r \in Rows
  PROVE  Behind(s, <<r>>) =
           IF s # <<>> /\ Unended(s[Len(s)])
           THEN Append(SubSeq(s, 1, Len(s) - 1), IF Unended(r) THEN Torn ELSE Junk)
           ELSE Append(s, r)
<1>1. CASE s = <<>>
  <2>1. Behind(s, <<r>>) = s \o <<r>> BY <1>1 DEF Behind
  <2> QED BY <1>1, <2>1
<1>2. CASE s # <<>> /\ Unended(s[Len(s)])
  <2>1. Behind(s, <<r>>) =
          SubSeq(s, 1, Len(s) - 1) \o <<IF Unended(Head(<<r>>)) THEN Torn ELSE Junk>> \o Tail(<<r>>)
    BY <1>2 DEF Behind, Front, Last
  <2>2. Head(<<r>>) = r /\ Tail(<<r>>) = <<>>
    OBVIOUS
  <2> DEFINE j == IF Unended(r) THEN Torn ELSE Junk
  <2>3. j \in Rows /\ SubSeq(s, 1, Len(s) - 1) \in Seq(Rows)
    BY <1>2, RowFacts
  <2>4. Behind(s, <<r>>) = SubSeq(s, 1, Len(s) - 1) \o <<j>> \o <<>>
    BY <2>1, <2>2
  <2> DEFINE q == SubSeq(s, 1, Len(s) - 1)
  <2> HIDE DEF j, q
  <2>5. \A x \in Seq(Rows), y \in Rows : x \o <<y>> \o <<>> = Append(x, y)
    OBVIOUS
  <2>6. q \in Seq(Rows) /\ Behind(s, <<r>>) = q \o <<j>> \o <<>>
    BY <2>3, <2>4 DEF q
  <2>7. Behind(s, <<r>>) = Append(SubSeq(s, 1, Len(s) - 1), j)
    BY <2>3, <2>5, <2>6 DEF q
  <2> QED BY <1>2, <2>7 DEF j
<1>3. CASE s # <<>> /\ ~Unended(s[Len(s)])
  <2>1. Behind(s, <<r>>) = s \o <<r>> BY <1>3 DEF Behind, Last
  <2> QED BY <1>3, <2>1
<1> QED BY <1>1, <1>2, <1>3

\* No line but the last lacks its end.
Ended(s) == \A j \in 1 .. Len(s) - 1 : ~Unended(s[j])
AllEnded(s) == \A j \in 1 .. Len(s) : ~Unended(s[j])

LEMMA BehindType ==
  ASSUME NEW s \in Seq(Rows), NEW r \in Rows
  PROVE  /\ Behind(s, <<r>>) \in Seq(Rows)
         /\ Len(Behind(s, <<r>>)) \in {Len(s), Len(s) + 1} /\ Len(Behind(s, <<r>>)) >= 1
         /\ Ended(s) => Ended(Behind(s, <<r>>))
         /\ ~Unended(r) => ~Unended(Behind(s, <<r>>)[Len(Behind(s, <<r>>))])
         /\ AllEnded(s) => Behind(s, <<r>>) = Append(s, r)
<1> DEFINE b == Behind(s, <<r>>)
<1>1. CASE s # <<>> /\ Unended(s[Len(s)])
  <2>1. b = Append(SubSeq(s, 1, Len(s) - 1), IF Unended(r) THEN Torn ELSE Junk)
    BY <1>1, BehindOne
  <2>2. /\ SubSeq(s, 1, Len(s) - 1) \in Seq(Rows) /\ Len(SubSeq(s, 1, Len(s) - 1)) = Len(s) - 1
        /\ \A i \in 1 .. Len(s) - 1 : SubSeq(s, 1, Len(s) - 1)[i] = s[i]
        /\ Len(s) \in Nat /\ Len(s) >= 1
    <3> HIDE DEF b
    <3>1. PICK l \in Nat : l = Len(s) /\ l >= 1 BY <1>1
    <3>2. PICK u : u = SubSeq(s, 1, l - 1) OBVIOUS
    <3>3. u \in Seq(Rows) /\ Len(u) = l - 1 /\ \A i \in 1 .. l - 1 : u[i] = s[i]
      BY <3>1, <3>2
    <3> QED BY <3>1, <3>2, <3>3
  <2> HIDE DEF b
  <2>3. /\ b \in Seq(Rows) /\ Len(b) = Len(s)
        /\ \A i \in 1 .. Len(s) - 1 : b[i] = s[i]
        /\ b[Len(s)] = IF Unended(r) THEN Torn ELSE Junk
    BY <2>1, <2>2, RowFacts
  <2>4. ~AllEnded(s)
    BY <1>1, <2>2 DEF AllEnded
  <2>5. Ended(s) => Ended(b)
    BY <2>2, <2>3 DEF Ended
  <2>6. ~Unended(r) => ~Unended(b[Len(b)])
    BY <2>3, RowFacts
  <2> QED BY <2>2, <2>3, <2>4, <2>5, <2>6 DEF b
<1>2. CASE ~(s # <<>> /\ Unended(s[Len(s)]))
  <2>1. b = Append(s, r)
    BY <1>2, BehindOne
  <2> HIDE DEF b
  <2>2. /\ b \in Seq(Rows) /\ Len(b) = Len(s) + 1 /\ b[Len(s) + 1] = r
        /\ \A i \in 1 .. Len(s) : b[i] = s[i]
        /\ Len(s) \in Nat
    BY <2>1
  <2>3. Ended(s) => Ended(b)
    <3>1. Len(s) >= 1 => ~Unended(s[Len(s)]) BY <1>2
    <3> QED BY <2>2, <3>1 DEF Ended
  <2> QED BY <2>1, <2>2, <2>3 DEF b
<1> QED BY <1>1, <1>2

(* Joined *)

JoinedSteps(s, k) ==
  /\ k \in [0 .. Len(s) -> Seq(Rows)] /\ k[0] = <<>>
  /\ \A i \in 1 .. Len(s) : k[i] = Behind(k[i - 1], <<s[i]>>)

LEMMA JoinedHasSteps ==
  ASSUME NEW s \in Seq(Rows)
  PROVE  \E k : JoinedSteps(s, k) /\ Joined(s) = k[Len(s)]
<1> DEFINE n == Len(s)
           step == [i \in 1 .. n |-> [a \in Seq(Rows) |-> Behind(a, <<s[i]>>)]]
           Body(k) == [i \in 0 .. n |-> IF i = 0 THEN <<>> ELSE Behind(k[i - 1], <<s[i]>>)]
           chosen == CHOOSE k : k = Body(k)
<1>1. n \in Nat /\ <<>> \in Seq(Rows) /\ \A i \in 1 .. n : s[i] \in Rows
  OBVIOUS
<1>2. step \in [1 .. n -> [Seq(Rows) -> Seq(Rows)]]
  BY <1>1, BehindType
<1>3. PICK g \in [0 .. n -> Seq(Rows)] :
        g[0] = <<>> /\ \A i \in 1 .. n : g[i] = step[i][g[i - 1]]
  <2> HIDE DEF step
  <2> QED BY <1>1, <1>2, Iteration
<1>4. g = Body(g)
  <2>1. ASSUME NEW i \in 0 .. n, i # 0
        PROVE  g[i] = Behind(g[i - 1], <<s[i]>>)
    <3>1. i \in 1 .. n /\ g[i - 1] \in Seq(Rows)
      <4> HIDE DEF step, Body, chosen
      <4>1. i \in 1 .. n /\ i - 1 \in 0 .. n BY <2>1, <1>1
      <4> HIDE DEF n
      <4> QED BY <4>1, <1>3
    <3> QED BY <3>1, <1>3
  <2> QED BY <1>3, <2>1
<1>5. chosen = Body(chosen)
  BY <1>4
<1>6. Joined(s) = chosen[n]
  BY Zenon DEF Joined
<1> HIDE DEF chosen
<1>7. \A i \in 0 .. n : chosen[i] = g[i]
  <2>1. chosen[0] = g[0] BY <1>3, <1>5
  <2>2. \A i \in 1 .. n : chosen[i - 1] = g[i - 1] => chosen[i] = g[i]
    <3>1. SUFFICES ASSUME NEW i \in 1 .. n, chosen[i - 1] = g[i - 1] PROVE chosen[i] = g[i]
      OBVIOUS
    <3>2. i \in 0 .. n /\ i # 0 OBVIOUS
    <3>3. chosen[i] = Behind(chosen[i - 1], <<s[i]>>)
      BY <1>5, <3>2, Zenon
    <3>4. g[i] = Behind(g[i - 1], <<s[i]>>)
      BY <1>4, <3>2, Zenon
    <3> QED BY <3>1, <3>3, <3>4
  <2> DEFINE T == {i \in 0 .. n : chosen[i] = g[i]}
  <2>3. 0 \in T BY <1>1, <2>1
  <2>4. \A i \in 1 .. n : i - 1 \in T => i \in T BY <1>1, <2>2
  <2>5. \A i \in 0 .. n : i \in T
    <3> HIDE DEF T
    <3> QED BY <1>1, <2>3, <2>4, Upto
  <2> QED BY <2>5
<1>8. JoinedSteps(s, g)
  <2>1. \A i \in 1 .. n : g[i] = Behind(g[i - 1], <<s[i]>>)
    <3>1. \A i \in 1 .. n : i \in 0 .. n /\ i # 0 OBVIOUS
    <3> QED BY <1>4, <3>1, Zenon
  <2> QED BY <1>3, <2>1 DEF JoinedSteps
<1> QED BY <1>1, <1>6, <1>7, <1>8

LEMMA JoinedOfNone == Joined(<<>>) = <<>>
<1>1. <<>> \in Seq(Rows) /\ Len(<<>>) = 0 OBVIOUS
<1> QED BY <1>1, JoinedHasSteps DEF JoinedSteps

LEMMA JoinedOfMore ==
  ASSUME NEW s \in Seq(Rows), NEW x \in Rows
  PROVE  Joined(s) \in Seq(Rows) /\ Joined(Append(s, x)) = Behind(Joined(s), <<x>>)
<1> DEFINE t == Append(s, x)
<1>1. t \in Seq(Rows) /\ Len(t) = Len(s) + 1 /\ t[Len(s) + 1] = x
      /\ \A i \in 1 .. Len(s) : t[i] = s[i]
  OBVIOUS
<1>2. PICK k : JoinedSteps(s, k) /\ Joined(s) = k[Len(s)]
  BY JoinedHasSteps
<1>3. PICK m : JoinedSteps(t, m) /\ Joined(t) = m[Len(t)]
  BY <1>1, JoinedHasSteps
<1> HIDE DEF t
<1>4. \A i \in 0 .. Len(s) : m[i] = k[i]
  <2>1. Len(s) \in Nat /\ m[0] = k[0] BY <1>2, <1>3 DEF JoinedSteps
  <2>2. ASSUME NEW i \in 1 .. Len(s), m[i - 1] = k[i - 1] PROVE m[i] = k[i]
    <3>1. i \in 1 .. Len(t) /\ t[i] = s[i] BY <1>1
    <3>2. m[i] = Behind(m[i - 1], <<t[i]>>) BY <1>3, <3>1 DEF JoinedSteps
    <3>3. k[i] = Behind(k[i - 1], <<s[i]>>) BY <1>2 DEF JoinedSteps
    <3> QED BY <2>2, <3>1, <3>2, <3>3
  <2> DEFINE T == {i \in 0 .. Len(s) : m[i] = k[i]}
  <2>3. 0 \in T BY <2>1
  <2>4. \A i \in 1 .. Len(s) : i - 1 \in T => i \in T BY <2>1, <2>2
  <2>5. \A i \in 0 .. Len(s) : i \in T
    <3> HIDE DEF T
    <3> QED BY <2>1, <2>3, <2>4, Upto
  <2> QED BY <2>5
<1>5. m[Len(s) + 1] = Behind(m[Len(s)], <<x>>)
  BY <1>1, <1>3 DEF JoinedSteps
<1> QED BY <1>1, <1>2, <1>3, <1>4, <1>5 DEF JoinedSteps, t

LEMMA JoinedType ==
  ASSUME NEW s \in Seq(Rows)
  PROVE  Joined(s) \in Seq(Rows) /\ Len(Joined(s)) <= Len(s) /\ Ended(Joined(s))
<1> DEFINE T == {r \in Seq(Rows) : Joined(r) \in Seq(Rows) /\ Len(Joined(r)) <= Len(r) /\ Ended(Joined(r))}
<1>1. <<>> \in T
  <2>1. ASSUME NEW e, e = <<>> PROVE e \in Seq(Rows) /\ Len(e) = 0 /\ Ended(e)
    BY <2>1 DEF Ended
  <2>2. Joined(<<>>) \in Seq(Rows) /\ Len(Joined(<<>>)) = 0 /\ Ended(Joined(<<>>))
    BY <2>1, JoinedOfNone
  <2> QED BY <2>2
<1>2. ASSUME NEW r \in Seq(Rows), NEW x \in Rows, r \in T PROVE Append(r, x) \in T
  <2>1. Joined(Append(r, x)) = Behind(Joined(r), <<x>>)
    BY JoinedOfMore
  <2>2. /\ Behind(Joined(r), <<x>>) \in Seq(Rows) /\ Ended(Behind(Joined(r), <<x>>))
        /\ Len(Behind(Joined(r), <<x>>)) \in {Len(Joined(r)), Len(Joined(r)) + 1}
    BY <1>2, BehindType
  <2> QED BY <1>2, <2>1, <2>2
<1>3. Seq(Rows) \subseteq T
  <2> HIDE DEF T
  <2> QED BY <1>1, <1>2, SeqInduction
<1> QED BY <1>3

\* Lines that all have their end, but for the last, stay as they are.
LEMMA JoinedOfEnded ==
  ASSUME NEW s \in Seq(Rows), Ended(s)
  PROVE  Joined(s) = s
<1> DEFINE T == {r \in Seq(Rows) : AllEnded(r) => Joined(r) = r}
<1>1. <<>> \in T
  BY JoinedOfNone
<1>2. ASSUME NEW r \in Seq(Rows), NEW x \in Rows, r \in T PROVE Append(r, x) \in T
  <2>0. Append(r, x) \in Seq(Rows) OBVIOUS
  <2>1. SUFFICES ASSUME AllEnded(Append(r, x)) PROVE Joined(Append(r, x)) = Append(r, x)
    BY <2>0
  <2>2. AllEnded(r)
    BY <2>1 DEF AllEnded
  <2>3. Joined(r) = r BY <1>2, <2>2
  <2> QED BY <2>2, <2>3, JoinedOfMore, BehindType
<1>3. Seq(Rows) \subseteq T
  <2> HIDE DEF T
  <2> QED BY <1>1, <1>2, SeqInduction
<1>4. CASE s = <<>>
  BY <1>4, JoinedOfNone
<1>5. CASE s # <<>>
  <2> DEFINE r == SubSeq(s, 1, Len(s) - 1)
  <2>1. r \in Seq(Rows) /\ s[Len(s)] \in Rows /\ s = Append(r, s[Len(s)]) /\ AllEnded(r)
    BY <1>5 DEF Ended, AllEnded
  <2>2. Joined(r) = r
    BY <1>3, <2>1
  <2> HIDE DEF r
  <2> QED BY <2>1, <2>2, JoinedOfMore, BehindType
<1> QED BY <1>4, <1>5

-----------------------------------------------------------------------------
(***************************************************************************)
(* The lines of all the generations (Lines).                               *)
(***************************************************************************)
(* Lines *)
Generations == [0 .. Retain -> Seq(Rows)]

LinesSteps(f, k) ==
  /\ k \in [0 .. Retain -> Seq(Rows)] /\ k[0] = f[Retain]
  /\ \A i \in 1 .. Retain : k[i] = k[i - 1] \o f[Retain - i]

\* FlattenSeq of at least one sequence.
LEMMA Flattening ==
  ASSUME NEW s \in Seq(Seq(Rows)), Len(s) >= 1
  PROVE  \E g \in [1 .. Len(s) -> Seq(Rows)] :
           /\ FlattenSeq(s) = g[Len(s)] /\ g[1] = s[1]
           /\ \A i \in 2 .. Len(s) : g[i] = g[i - 1] \o s[i]
<1> DEFINE Body(k) == [i \in 1 .. Len(s) |-> IF i = 1 THEN s[i] ELSE k[i - 1] \o s[i]]
           chosen == CHOOSE k : k = Body(k)
           Good(g, n) == /\ g \in [1 .. n -> Seq(Rows)] /\ g[1] = s[1]
                         /\ \A i \in 2 .. n : g[i] = g[i - 1] \o s[i]
           T == {n \in Nat : n + 1 <= Len(s) => \E g : Good(g, n + 1)}
<1>1. Len(s) \in Nat /\ \A i \in 1 .. Len(s) : s[i] \in Seq(Rows)
  OBVIOUS
<1>2. 0 \in T
  <2>1. Good([i \in 1 .. 1 |-> s[1]], 0 + 1) BY <1>1
  <2> HIDE DEF Good
  <2> QED BY <2>1
<1>3. ASSUME NEW n \in Nat, n \in T, n + 1 + 1 <= Len(s) PROVE \E g : Good(g, n + 1 + 1)
  <2>1. PICK g : Good(g, n + 1)
    <3> HIDE DEF Good
    <3> QED BY <1>1, <1>3
  <2> DEFINE h == [i \in 1 .. n + 1 + 1 |-> IF i <= n + 1 THEN g[i] ELSE g[n + 1] \o s[n + 1 + 1]]
  <2>2. g[n + 1] \in Seq(Rows) /\ s[n + 1 + 1] \in Seq(Rows) BY <2>1, <1>1, <1>3
  <2>3. g[n + 1] \o s[n + 1 + 1] \in Seq(Rows) BY <2>2
  <2>4. h \in [1 .. n + 1 + 1 -> Seq(Rows)] /\ h[1] = s[1] BY <2>1, <2>3
  <2>5. ASSUME NEW i \in 2 .. n + 1 + 1 PROVE h[i] = h[i - 1] \o s[i]
    <3>1. i \in 1 .. n + 1 + 1 /\ i - 1 \in 1 .. n + 1 + 1 /\ i - 1 <= n + 1 BY <2>5, <1>3
    <3>2. h[i - 1] = g[i - 1] BY <3>1
    <3>3. CASE i <= n + 1
      <4>1. i \in 2 .. n + 1 BY <3>3, <1>3
      <4>2. h[i] = g[i] BY <3>1, <3>3
      <4>3. g[i] = g[i - 1] \o s[i] BY <2>1, <4>1, Zenon
      <4> QED BY <4>2, <4>3, <3>2
    <3>4. CASE ~(i <= n + 1)
      <4>1. i = n + 1 + 1 /\ i - 1 = n + 1 BY <3>4, <3>1, <1>3
      <4>2. h[i] = g[n + 1] \o s[n + 1 + 1] BY <3>1, <3>4
      <4> QED BY <3>2, <4>1, <4>2
    <3> QED BY <3>3, <3>4
  <2>6. Good(h, n + 1 + 1) BY <2>4, <2>5
  <2> QED BY <2>6
<1>4. Nat \subseteq T
  <2> HIDE DEF Good
  <2>1. \A n \in Nat : n \in T => n + 1 \in T BY <1>3
  <2> HIDE DEF T
  <2> QED BY <1>2, <2>1, Induction
<1>5. PICK g : Good(g, Len(s))
  <2>1. Len(s) - 1 + 1 = Len(s) /\ Len(s) - 1 \in Nat BY <1>1
  <2>2. Len(s) - 1 \in T
    <3> HIDE DEF T
    <3> QED BY <2>1, <1>4
  <2> HIDE DEF Good
  <2> QED BY <1>1, <2>1, <2>2
<1>6. g = Body(g)
  <2>1. ASSUME NEW i \in 1 .. Len(s) PROVE g[i] = IF i = 1 THEN s[i] ELSE g[i - 1] \o s[i]
    <3>1. CASE i = 1 BY <3>1, <1>5
    <3>2. CASE i # 1
      <4>1. i \in 2 .. Len(s)
        <5>1. PICK l \in Nat : l = Len(s) BY <1>1
        <5>2. \A j \in 1 .. l : j # 1 => j \in 2 .. l BY ONLY l \in Nat
        <5> QED BY ONLY <5>1, <5>2, <3>2, i \in 1 .. Len(s)
      <4> QED BY <3>2, <4>1, <1>5
    <3> QED BY <3>1, <3>2
  <2> QED BY <1>5, <2>1
<1>7. chosen = Body(chosen)
  BY <1>6
<1>8. FlattenSeq(s) = chosen[Len(s)]
  <2>1. FlattenSeq(s) = IF Len(s) = 0 THEN s ELSE chosen[Len(s)]
    BY Zenon DEF FlattenSeq
  <2> HIDE DEF chosen
  <2> QED BY <1>1, <2>1
<1>9. chosen[Len(s)] = g[Len(s)]
  <2> HIDE DEF chosen
  <2> DEFINE U == {n \in Nat : n + 1 <= Len(s) => chosen[n + 1] = g[n + 1]}
  <2>1. \A i \in 1 .. Len(s) : chosen[i] = IF i = 1 THEN s[i] ELSE chosen[i - 1] \o s[i]
    BY <1>7, Zenon
  <2>2. 0 \in U
    <3>1. 1 \in 1 .. Len(s) BY <1>1
    <3> QED BY <2>1, <3>1, <1>5
  <2>3. ASSUME NEW n \in Nat, n \in U, n + 1 + 1 <= Len(s) PROVE chosen[n + 1 + 1] = g[n + 1 + 1]
    <3>1. n + 1 + 1 \in 2 .. Len(s) /\ n + 1 + 1 \in 1 .. Len(s) /\ n + 1 + 1 - 1 = n + 1
          /\ n + 1 <= Len(s) /\ n + 1 + 1 # 1
      BY <2>3, <1>1
    <3>2. PICK i \in 2 .. Len(s) : i = n + 1 + 1 BY <3>1
    <3>3. i \in 1 .. Len(s) /\ i # 1 /\ i - 1 = n + 1 BY <3>1, <3>2
    <3>4. chosen[i] = chosen[i - 1] \o s[i] BY <2>1, <3>3, Zenon
    <3>5. g[i] = g[i - 1] \o s[i] BY <1>5, Zenon
    <3>6. chosen[i - 1] = g[i - 1] BY <2>3, <3>1, <3>3
    <3> QED BY <3>2, <3>4, <3>5, <3>6
  <2>4. Nat \subseteq U
    <3>1. \A n \in Nat : n \in U => n + 1 \in U BY <2>3
    <3> HIDE DEF U
    <3> QED BY <2>2, <3>1, Induction
  <2>5. Len(s) - 1 \in Nat /\ Len(s) - 1 + 1 = Len(s) /\ Len(s) - 1 + 1 <= Len(s) BY <1>1
  <2>6. Len(s) - 1 \in U
    <3> HIDE DEF U
    <3> QED BY <2>4, <2>5
  <2> QED BY <2>5, <2>6
<1> QED BY <1>5, <1>8, <1>9

LEMMA LinesAreFlattened ==
  ASSUME NEW f, NEW s, s = [i \in 1 .. Retain + 1 |-> f[Retain + 1 - i]]
  PROVE  Lines(f) = FlattenSeq(s)
BY DEF Lines

LEMMA LinesHasSteps ==
  ASSUME NEW f \in Generations
  PROVE  \E k : LinesSteps(f, k) /\ Lines(f) = k[Retain]
<1>1. PICK s : s = [i \in 1 .. Retain + 1 |-> f[Retain + 1 - i]]
  OBVIOUS
<1>2. Retain \in Nat /\ Retain >= 1
  BY ConstantsAreNumbers
<1>3. s \in Seq(Seq(Rows)) /\ Len(s) = Retain + 1 /\ s[1] = f[Retain]
      /\ \A i \in 1 .. Retain + 1 : s[i] = f[Retain + 1 - i]
  BY <1>1, <1>2 DEF Generations
<1>4. PICK g \in [1 .. Len(s) -> Seq(Rows)] :
        /\ FlattenSeq(s) = g[Len(s)] /\ g[1] = s[1]
        /\ \A i \in 2 .. Len(s) : g[i] = g[i - 1] \o s[i]
  <2>1. s \in Seq(Seq(Rows)) /\ Len(s) >= 1 BY <1>2, <1>3
  <2> QED BY <2>1, Flattening
<1>5. Lines(f) = FlattenSeq(s)
  BY <1>1, LinesAreFlattened
<1> DEFINE k == [i \in 0 .. Retain |-> g[i + 1]]
<1>6. k \in [0 .. Retain -> Seq(Rows)] /\ k[0] = f[Retain] /\ k[Retain] = g[Retain + 1]
  BY <1>2, <1>3, <1>4
<1>7. ASSUME NEW i \in 1 .. Retain PROVE k[i] = k[i - 1] \o f[Retain - i]
  <2>1. PICK j \in 2 .. Retain + 1 : j = i + 1
    BY <1>2
  <2>2. j \in 2 .. Len(s) /\ Retain + 1 - j = Retain - i /\ j - 1 = i /\ i - 1 + 1 = i
        /\ i - 1 \in 0 .. Retain /\ i \in 0 .. Retain /\ j \in 1 .. Retain + 1
    BY <1>2, <1>3, <2>1
  <2>3. g[j] = g[j - 1] \o s[j]
    BY <1>4, <2>2, Zenon
  <2>4. s[j] = f[Retain - i]
    BY <1>3, <2>2
  <2>5. k[i] = g[j] /\ k[i - 1] = g[j - 1] BY <2>1, <2>2
  <2> HIDE DEF k
  <2> QED BY <2>3, <2>4, <2>5
<1> QED
  <2> HIDE DEF k
  <2>1. LinesSteps(f, k) BY <1>6, <1>7 DEF LinesSteps
  <2> QED BY <2>1, <1>3, <1>4, <1>5, <1>6

\* The active file comes last.
LEMMA LinesSplit ==
  ASSUME NEW f \in Generations, NEW x \in Seq(Rows)
  PROVE  \E o \in Seq(Rows) : /\ Lines(f) = o \o f[0]
                              /\ Lines([f EXCEPT ![0] = x]) = o \o x
<1> DEFINE h == [f EXCEPT ![0] = x]
<1>1. Retain \in Nat /\ Retain >= 1 BY ConstantsAreNumbers
<1>2. h \in Generations /\ h[0] = x /\ \A i \in 1 .. Retain : h[i] = f[i]
  BY <1>1 DEF Generations
<1> HIDE DEF h
<1>3. PICK k : LinesSteps(f, k) /\ Lines(f) = k[Retain]
  BY LinesHasSteps
<1>4. PICK m : LinesSteps(h, m) /\ Lines(h) = m[Retain]
  BY <1>2, LinesHasSteps
<1>5. \A i \in 0 .. Retain - 1 : m[i] = k[i]
  <2>1. Retain - 1 \in Nat /\ m[0] = k[0] BY <1>1, <1>2, <1>3, <1>4 DEF LinesSteps
  <2>2. ASSUME NEW i \in 1 .. Retain - 1, m[i - 1] = k[i - 1] PROVE m[i] = k[i]
    <3>1. i \in 1 .. Retain /\ Retain - i \in 1 .. Retain BY <1>1
    <3>2. k[i] = k[i - 1] \o f[Retain - i] /\ m[i] = m[i - 1] \o h[Retain - i]
      BY <3>1, <1>3, <1>4 DEF LinesSteps
    <3> QED BY <2>2, <3>1, <3>2, <1>2
  <2> DEFINE T == {i \in 0 .. Retain - 1 : m[i] = k[i]}
  <2>3. 0 \in T BY <2>1
  <2>4. \A i \in 1 .. Retain - 1 : i - 1 \in T => i \in T BY <2>1, <2>2
  <2>5. \A i \in 0 .. Retain - 1 : i \in T
    <3> HIDE DEF T
    <3> QED BY <2>1, <2>3, <2>4, Upto
  <2> QED BY <2>5
<1>6. Retain \in 1 .. Retain /\ Retain - Retain = 0 /\ Retain - 1 \in 0 .. Retain - 1
      /\ Retain - 1 \in 0 .. Retain
  BY <1>1
<1>7. k[Retain] = k[Retain - 1] \o f[0] /\ m[Retain] = m[Retain - 1] \o h[0]
      /\ k[Retain - 1] \in Seq(Rows)
  BY <1>3, <1>4, <1>6 DEF LinesSteps
<1> QED BY <1>2, <1>3, <1>4, <1>5, <1>6, <1>7 DEF h

LEMMA LinesType ==
  ASSUME NEW f \in Generations
  PROVE  Lines(f) \in Seq(Rows)
<1>1. PICK k : LinesSteps(f, k) /\ Lines(f) = k[Retain]
  BY LinesHasSteps
<1> QED BY <1>1, ConstantsAreNumbers DEF LinesSteps

LEMMA LinesOfFlat ==
  ASSUME NEW f \in Generations, \A i \in 1 .. Retain : f[i] = <<>>
  PROVE  Lines(f) = f[0]
<1>1. Retain \in Nat /\ Retain >= 1 BY ConstantsAreNumbers
<1>2. PICK k : LinesSteps(f, k) /\ Lines(f) = k[Retain]
  BY LinesHasSteps
<1>6. PICK e : e = [i \in 0 .. Retain - 1 |-> <<>>]
  OBVIOUS
<1>3. \A i \in 0 .. Retain - 1 : k[i] = e[i]
  <2>1. k[0] = e[0] BY <1>1, <1>2, <1>6 DEF LinesSteps
  <2>2. \A i \in 1 .. Retain - 1 : k[i - 1] = e[i - 1] => k[i] = e[i]
    <3>1. SUFFICES ASSUME NEW i \in 1 .. Retain - 1, k[i - 1] = e[i - 1] PROVE k[i] = e[i]
      OBVIOUS
    <3>2. i \in 1 .. Retain /\ Retain - i \in 1 .. Retain /\ i - 1 \in 0 .. Retain - 1 /\ i \in 0 .. Retain - 1
      BY <1>1
    <3>3. k[i] = k[i - 1] \o f[Retain - i] /\ f[Retain - i] = <<>> /\ k[i - 1] = <<>>
      BY <1>2, <1>6, <3>1, <3>2 DEF LinesSteps
    <3>4. k[i] = <<>> \o <<>> BY <3>3
    <3>5. <<>> \o <<>> = <<>> OBVIOUS
    <3> QED BY <3>2, <3>4, <3>5, <1>6
  <2>3. Retain - 1 \in Nat BY <1>1
  <2> DEFINE T == {i \in 0 .. Retain - 1 : k[i] = e[i]}
  <2>4. 0 \in T BY <2>1, <2>3
  <2>5. \A i \in 1 .. Retain - 1 : i - 1 \in T => i \in T BY <2>2, <2>3
  <2>6. \A i \in 0 .. Retain - 1 : i \in T
    <3> HIDE DEF T
    <3> QED BY <2>3, <2>4, <2>5, Upto
  <2> QED BY <2>6
<1>4. Retain \in 1 .. Retain /\ Retain - Retain = 0 /\ Retain - 1 \in 0 .. Retain - 1
  BY <1>1
<1>5. k[Retain] = k[Retain - 1] \o f[0] /\ k[Retain - 1] = <<>>
  BY <1>2, <1>3, <1>4, <1>6 DEF LinesSteps
<1>8. f[0] \in Seq(Rows)
  <2>1. 0 \in 0 .. Retain BY <1>1
  <2> QED BY <2>1 DEF Generations
<1>7. \A s \in Seq(Rows) : <<>> \o s = s OBVIOUS
<1> QED BY <1>2, <1>5, <1>8, <1>7

\* A generation moves up: what was above it is lost, the rest is read as before.
LEMMA LinesShift ==
  ASSUME NEW f \in Generations, NEW a \in 1 .. Retain, f[a] = <<>> \/ a = Retain
  PROVE  LET h == [f EXCEPT ![a] = f[a - 1], ![a - 1] = <<>>]
         IN  h \in Generations /\ Lines(f) = f[a] \o Lines(h)
<1> DEFINE h == [f EXCEPT ![a] = f[a - 1], ![a - 1] = <<>>]
<1>1. Retain \in Nat /\ Retain >= 1 /\ a \in Nat /\ a - 1 \in 0 .. Retain /\ a \in 0 .. Retain
  BY ConstantsAreNumbers
<1>2. h \in Generations /\ h[a] = f[a - 1] /\ h[a - 1] = <<>>
      /\ \A i \in 0 .. Retain : i # a /\ i # a - 1 => h[i] = f[i]
  <2>1. h \in [0 .. Retain -> Seq(Rows)]
    <3>1. <<>> \in Seq(Rows) /\ f[a - 1] \in Seq(Rows) BY <1>1 DEF Generations
    <3> QED BY <1>1, <3>1 DEF Generations
  <2>2. h[a] = f[a - 1] /\ h[a - 1] = <<>> BY <1>1 DEF Generations
  <2>3. \A i \in 0 .. Retain : i # a /\ i # a - 1 => h[i] = f[i] BY <1>1 DEF Generations
  <2> HIDE DEF h
  <2> QED BY <2>1, <2>2, <2>3 DEF Generations
<1> HIDE DEF h
<1>3. PICK k : LinesSteps(f, k) /\ Lines(f) = k[Retain]
  BY LinesHasSteps
<1>4. PICK m : LinesSteps(h, m) /\ Lines(h) = m[Retain]
  BY <1>2, LinesHasSteps
<1> DEFINE q == Retain - a
<1>5. q \in Nat /\ q + 1 \in 1 .. Retain /\ q \in 0 .. Retain /\ Retain - (q + 1) = a - 1
  BY <1>1
<1>6. \A i \in 0 .. Retain : f[i] \in Seq(Rows) /\ h[i] \in Seq(Rows) /\ k[i] \in Seq(Rows) /\ m[i] \in Seq(Rows)
  BY <1>2, <1>3, <1>4 DEF Generations, LinesSteps
<1>7. \A r, s, u \in Seq(Rows) : (r \o s) \o u = r \o (s \o u) /\ r \o <<>> = r /\ <<>> \o r = r
  OBVIOUS
<1>8. k[q + 1] = f[a] \o m[q + 1]
  <2>1. k[q + 1] = k[q] \o f[a - 1] /\ m[q + 1] = m[q] \o <<>>
    <3>1. PICK j \in 1 .. Retain : j = q + 1 BY <1>5
    <3>2. j - 1 = q /\ Retain - j = a - 1 BY <3>1, <1>5
    <3>3. k[j] = k[j - 1] \o f[Retain - j] /\ m[j] = m[j - 1] \o h[Retain - j]
      BY <1>3, <1>4, Zenon DEF LinesSteps
    <3> QED BY <3>1, <3>2, <3>3, <1>2
  <2>2. CASE a = Retain
    <3>1. q = 0 /\ k[0] = f[a] /\ m[0] = f[a - 1] BY <2>2, <1>1, <1>2, <1>3, <1>4 DEF LinesSteps
    <3>2. m[q + 1] = f[a - 1]
      BY <2>1, <3>1, <1>1, <1>6, <1>7
    <3> QED BY <2>1, <3>1, <3>2
  <2>3. CASE a # Retain
    <3>1. f[a] = <<>> BY <2>3
    <3>2. \A i \in 0 .. q - 1 : k[i] = m[i]
      <4>1. q - 1 \in Nat /\ k[0] = m[0]
        <5>1. q >= 1 /\ Retain # a /\ Retain # a - 1 /\ Retain \in 0 .. Retain BY <2>3, <1>1, <1>5
        <5>2. h[Retain] = f[Retain] BY <5>1, <1>2
        <5>3. k[0] = f[Retain] /\ m[0] = h[Retain] BY <1>3, <1>4 DEF LinesSteps
        <5>4. q - 1 \in Nat BY <5>1, <1>5
        <5> QED BY <5>2, <5>3, <5>4
      <4>2. \A i \in 1 .. q - 1 : k[i - 1] = m[i - 1] => k[i] = m[i]
        <5>1. SUFFICES ASSUME NEW i \in 1 .. q - 1, k[i - 1] = m[i - 1] PROVE k[i] = m[i]
          OBVIOUS
        <5>2. i \in 1 .. Retain /\ Retain - i \in 0 .. Retain /\ Retain - i # a /\ Retain - i # a - 1
          BY <1>1, <1>5
        <5>3. h[Retain - i] = f[Retain - i] BY <5>2, <1>2
        <5> QED BY <5>1, <5>2, <5>3, <1>3, <1>4 DEF LinesSteps
      <4> DEFINE T == {i \in 0 .. q - 1 : k[i] = m[i]}
      <4>3. 0 \in T BY <4>1
      <4>4. \A i \in 1 .. q - 1 : i - 1 \in T => i \in T BY <4>1, <4>2
      <4>5. \A i \in 0 .. q - 1 : i \in T
        <5> HIDE DEF T
        <5> QED BY <4>1, <4>3, <4>4, Upto
      <4> QED BY <4>5
    <3>3. q \in 1 .. Retain /\ Retain - q = a /\ q - 1 \in 0 .. q - 1 /\ q - 1 \in 0 .. Retain
      BY <2>3, <1>1, <1>5
    <3>4. k[q] = k[q - 1] \o <<>> /\ m[q] = m[q - 1] \o f[a - 1] /\ k[q - 1] = m[q - 1]
      <4>1. k[q] = k[q - 1] \o f[Retain - q] /\ m[q] = m[q - 1] \o h[Retain - q]
        BY <3>3, <1>3, <1>4 DEF LinesSteps
      <4>2. k[q - 1] = m[q - 1] BY <3>2, <3>3
      <4>3. f[Retain - q] = <<>> /\ h[Retain - q] = f[a - 1] BY <3>1, <3>3, <1>2
      <4> QED BY <4>1, <4>2, <4>3
    <3>5. k[q] = m[q - 1] BY <3>3, <3>4, <1>6, <1>7
    <3>6. m[q + 1] = m[q] BY <2>1, <1>5, <1>6, <1>7
    <3>7. k[q + 1] = m[q + 1] BY <2>1, <3>4, <3>5, <3>6
    <3> QED BY <3>1, <3>7, <1>5, <1>6, <1>7
  <2> QED BY <2>2, <2>3
<1>9. \A j \in 0 .. a - 1 : k[q + 1 + j] = f[a] \o m[q + 1 + j]
  <2> DEFINE x == [j \in 0 .. a - 1 |-> k[q + 1 + j]]
             y == [j \in 0 .. a - 1 |-> f[a] \o m[q + 1 + j]]
  <2>1. a - 1 \in Nat /\ x[0] = y[0]
    <3>1. a - 1 \in Nat /\ 0 \in 0 .. a - 1 /\ q + 1 + 0 = q + 1 BY <1>1, <1>5
    <3>2. x[0] = k[q + 1 + 0] /\ y[0] = f[a] \o m[q + 1 + 0] BY <3>1
    <3> HIDE DEF x, y, q
    <3> QED BY <3>1, <3>2, <1>8
  <2>2. ASSUME NEW j \in 1 .. a - 1, x[j - 1] = y[j - 1] PROVE x[j] = y[j]
    <3> DEFINE i == q + 1 + j
    <3>1. /\ i \in 1 .. Retain /\ i - 1 \in 0 .. Retain /\ i \in 0 .. Retain /\ i - 1 = q + 1 + (j - 1)
          /\ Retain - i \in 0 .. Retain /\ Retain - i # a /\ Retain - i # a - 1
          /\ j - 1 \in 0 .. a - 1 /\ j \in 0 .. a - 1
      BY <1>1, <1>5
    <3>2. k[i] = k[i - 1] \o f[Retain - i] /\ m[i] = m[i - 1] \o f[Retain - i]
      BY <3>1, <1>2, <1>3, <1>4 DEF LinesSteps
    <3>3. k[i - 1] = f[a] \o m[i - 1]
      BY <2>2, <3>1
    <3>4. x[j] = k[i] /\ y[j] = f[a] \o m[i]
      BY <3>1
    <3> HIDE DEF i
    <3>5. (f[a] \o m[i - 1]) \o f[Retain - i] = f[a] \o (m[i - 1] \o f[Retain - i])
      <4>1. f[a] \in Seq(Rows) /\ m[i - 1] \in Seq(Rows) /\ f[Retain - i] \in Seq(Rows)
        BY <1>1, <1>6, <3>1
      <4> QED BY <4>1, <1>7
    <3> QED BY <3>2, <3>3, <3>4, <3>5
  <2>3. \A j \in 0 .. a - 1 : x[j] = y[j]
    <3>1. \A j \in 1 .. a - 1 : x[j - 1] = y[j - 1] => x[j] = y[j] BY <2>2
    <3> HIDE DEF x, y
    <3>0. a - 1 \in Nat BY <1>1
    <3> DEFINE T == {i \in 0 .. a - 1 : x[i] = y[i]}
    <3>2. 0 \in T BY <2>1, <3>0
    <3>3. \A i \in 1 .. a - 1 : i - 1 \in T => i \in T BY <3>0, <3>1
    <3>4. \A i \in 0 .. a - 1 : i \in T
      <4> HIDE DEF T
      <4> QED BY <3>0, <3>2, <3>3, Upto
    <3> QED BY <3>4
  <2> QED BY <2>3
<1>10. a - 1 \in 0 .. a - 1 /\ q + 1 + (a - 1) = Retain
  BY <1>1
<1> QED BY <1>2, <1>3, <1>4, <1>9, <1>10 DEF h

-----------------------------------------------------------------------------
(***************************************************************************)
(* The inductive invariant of the audit log.                               *)
(***************************************************************************)
\* Where the holder of the lock is.
Place == IF holder \in Procs THEN pc[holder] ELSE "idle"

\* There are no rotated generations.
Flat == \A i \in 1 .. Retain : files[i] = <<>>

\* The events that count: what a reader finds, but for what an operation is
\* about to remove.
Log ==
  IF Place = "drop" THEN files[0]
  ELSE IF Place = "cut" THEN SubSeq(files[0], 1, Retention)
  ELSE Lines(files)

IdOfLast(log) == IF log = <<>> THEN 0 ELSE log[Len(log)].id

\* An event that has been made is to be written.
Pending == Place = "write" \/ (holder \in Procs /\ event[holder] # Junk /\ ~wrote)

PlainPlaces == {"shift", "record", "trim", "drop", "mark", "next", "write"}
WantedPlaces == {"trim", "drop", "mark", "next", "arm"}
ArmedPlaces == {"armed", "write", "overwrite", "cut", "mark", "next"}

\* What an operation has in its variables at each of its steps.
Shape ==
  /\ \A p \in Procs : holder # p => event[p] = Junk
  /\ \A p \in Procs : event[p] # Junk => event[p].id < upcoming
  /\ holder = "free" => old = <<>> /\ edge = NoEdge /\ reached = 0 /\ ~wrote /\ armed = "no"
  /\ holder # "free" =>
       /\ armed = "no" => Place \in PlainPlaces
       /\ armed = "wanted" => Place \in WantedPlaces /\ event[holder] = Junk
       /\ armed \in {"bare", "reserved"} => Place \in ArmedPlaces
       /\ Place \in {"armed", "write", "overwrite", "cut"} => armed # "wanted"
       /\ (Place \in {"write", "overwrite", "cut"} \/ wrote) => event[holder] # Junk
  /\ surface = "local" => holder = "free" /\ limit = 0 /\ wounds = 0 /\ ~marked /\ ~raised
  /\ (limit = 0 \/ (armed # "no" /\ Place \notin {"trim", "drop"})) => Flat
  /\ limit = 0 => Place \notin {"shift", "record"}
  /\ Place = "shift" => reached \in 1 .. Retain /\ (reached < Retain => files[reached] = <<>>)
  /\ Place \in {"shift", "record"} => armed = "no" /\ ~wrote /\ edge = NoEdge
  /\ old # <<>> => Place \in {"shift", "record", "mark"} /\ armed = "no"
  /\ edge # NoEdge => Place \in {"drop", "cut", "mark"}

\* Lines without an end are the last of their files, and a recorder keeps room
\* for its event.
Ends ==
  /\ \A i \in 0 .. Retain : Ended(files[i])
  /\ Place = "overwrite" => files[0] # <<>> /\ ~Unended(files[0][Len(files[0])])
  /\ Place = "cut" => Len(files[0]) > Retention
  /\ (armed # "no" /\ Place = "drop") => Len(files[0]) <= Retention
  /\ (armed # "no" /\ Place \in {"mark", "next", "arm", "armed", "write"}) =>
       Len(Events(files[0])) <= Retention
  /\ Place = "overwrite" => Len(Events(files[0])) <= Retention + 1

\* The second of two events follows the first, or repeats it.
Follows(a, b) == (a.id = b.id /\ a.prev = b.prev) \/ (a.id <= b.prev /\ b.prev < b.id)
InOrder(rows) ==
  \A i, j \in 1 .. Len(rows) :
    i < j /\ IsEvent(rows[i]) /\ IsEvent(rows[j]) => Follows(rows[i], rows[j])
Before(rows, n) ==
  \A i \in 1 .. Len(rows) : IsEvent(rows[i]) => rows[i].id < n /\ rows[i].prev < rows[i].id

\* A file that is never rotated is in order, whatever was interrupted.
Order ==
  /\ surface = "remote" =>
       \A i \in 0 .. Retain : \A j \in 1 .. Len(files[i]) : files[i][j].kind # "legacy"
  /\ (limit = 0 /\ surface = "remote") =>
       /\ InOrder(files[0]) /\ Before(files[0], upcoming)
       /\ Pending =>
            /\ event[holder].prev < event[holder].id
            /\ \A j \in 1 .. Len(files[0]) :
                 IsEvent(files[0][j]) => files[0][j].id <= event[holder].prev

Kinds == IF surface = "local" THEN {"event", "legacy"} ELSE {"event"}

\* Events numbered below n, each linked to the one before it.
Whole(log, n) ==
  /\ \A i \in 1 .. Len(log) : log[i].kind \in Kinds /\ log[i].id >= 1 /\ log[i].id < n
  /\ \A i, j \in 1 .. Len(log) : i < j => log[i].id < log[j].id
  /\ \A i \in 1 .. Len(log) - 1 : log[i + 1].kind = "event" => log[i + 1].prev = log[i].id

\* How many events a rotation has lost so far.
Lost == Len(old) - Len(Log)

\* A log that nobody interrupted is whole, and what an operation remembers of
\* it is true.
Chain == wounds = 0 =>
  /\ Whole(Log, upcoming)
  /\ Pending => /\ event[holder].prev = IdOfLast(Log)
                /\ \A i \in 1 .. Len(Log) : Log[i].id < event[holder].id
  /\ Place = "overwrite" => Log # <<>>
  /\ Place \in {"shift", "record"} =>
       /\ Lost >= 0 /\ \A i \in 1 .. Len(Log) : Log[i].id = old[Lost + i]
       /\ \A i, j \in 1 .. Len(old) : i < j => old[i] < old[j]
       /\ \A i \in 1 .. Len(old) : old[i] >= 1
       /\ Lost > 0 => Log # <<>> /\ Log[1].prev = old[Lost]
  /\ (Place = "shift" /\ reached = Retain) => Lost = 0
  /\ Place \in {"cut", "mark"} => edge # NoEdge
  /\ edge # NoEdge =>
       Log # <<>> /\ Log[1].id = edge.first /\ Log[1].prev = edge.pruned /\ edge.pruned >= 1

\* The boundaries continue each other.
Linear ==
  /\ \A j \in 1 .. Len(marks) : 1 <= marks[j].pruned
  /\ \A j \in 2 .. Len(marks) : marks[j].pruned = marks[j - 1].first

\* The last boundary is where the log begins.
Begins(log, bs) ==
  /\ bs = <<>> => (log = <<>> \/ log[1].kind # "event" \/ log[1].prev = 0)
  /\ bs # <<>> => /\ log # <<>> /\ log[1].id = bs[Len(bs)].first
                  /\ log[1].kind = "event" => log[1].prev = bs[Len(bs)].pruned

\* As long as each pruning could be recorded, the boundaries fit the log and
\* nothing was refused.
Fit == (wounds = 0 /\ ~leaped) =>
  /\ ~raised /\ Linear
  /\ (edge = NoEdge /\ (Place \in {"shift", "record"} => Lost = 0)) => Begins(Log, marks)
  /\ edge # NoEdge => (marks = <<>> \/ marks[Len(marks)].first = edge.pruned)
  /\ (Place \in {"shift", "record"} /\ marks # <<>>) =>
       old # <<>> /\ old[1] = marks[Len(marks)].first
  /\ marked /\ marks = <<>> => armed = "reserved"
  /\ (armed = "reserved" /\ marks = <<>>) =>
       /\ Place \in {"armed", "write"} => Len(Log) >= Retention
       /\ Place = "overwrite" => Len(Log) > Retention
       /\ Place # "next"
  /\ surface = "local" => marks = <<>> \/ Len(files[0]) <= Retention

AuditIInv == AuditTypeOK /\ Shape /\ Ends /\ Order /\ Chain /\ Fit

LEMMA Here ==
  ASSUME AuditTypeOK, NEW p \in Procs, pc[p] # "idle"
  PROVE  holder = p /\ Place = pc[p]
BY DEF AuditTypeOK, Place

LEMMA Idle ==
  ASSUME AuditTypeOK, holder = "free"
  PROVE  Place = "idle" /\ \A p \in Procs : pc[p] = "idle"
BY ConstantsAreNumbers DEF AuditTypeOK, Place

LEMMA LogType ==
  ASSUME AuditTypeOK, Ends
  PROVE  Log \in Seq(Rows) /\ files[0] \in Seq(Rows) /\ files \in Generations
<1>1. files \in Generations /\ files[0] \in Seq(Rows)
  BY ConstantsAreNumbers DEF AuditTypeOK, Generations
<1>2. Lines(files) \in Seq(Rows)
  BY <1>1, LinesType
<1>3. Place = "cut" => SubSeq(files[0], 1, Retention) \in Seq(Rows)
  BY <1>1, ConstantsAreNumbers DEF Ends
<1> QED BY <1>1, <1>2, <1>3 DEF Log

\* The newest events of a whole log.
LEMMA NewestIsWhole ==
  ASSUME NEW log \in Seq(Rows), NEW n, Whole(log, n), NEW k \in 0 .. Len(log)
  PROVE  LET s == SubSeq(log, k + 1, Len(log))
         IN  /\ s \in Seq(Rows) /\ Len(s) = Len(log) - k /\ Whole(s, n)
             /\ \A i \in 1 .. Len(log) - k : s[i] = log[k + i]
             /\ k < Len(log) => s # <<>> /\ IdOfLast(s) = IdOfLast(log)
<1> DEFINE s == SubSeq(log, k + 1, Len(log))
<1>1. s \in Seq(Rows) /\ Len(s) = Len(log) - k /\ \A i \in 1 .. Len(log) - k : s[i] = log[k + i]
  OBVIOUS
<1> HIDE DEF s
<1>2. Whole(s, n)
  <2>1. \A i \in 1 .. Len(s) : k + i \in 1 .. Len(log) /\ s[i] = log[k + i]
    BY <1>1
  <2>2. \A i \in 1 .. Len(s) : s[i].kind \in Kinds /\ s[i].id >= 1 /\ s[i].id < n
    BY <2>1 DEF Whole
  <2>3. \A i, j \in 1 .. Len(s) : i < j => s[i].id < s[j].id
    <3>1. SUFFICES ASSUME NEW i \in 1 .. Len(s), NEW j \in 1 .. Len(s), i < j PROVE s[i].id < s[j].id
      OBVIOUS
    <3>2. k + i < k + j BY <3>1, <1>1
    <3> QED BY <2>1, <3>1, <3>2 DEF Whole
  <2>4. \A i \in 1 .. Len(s) - 1 : s[i + 1].kind = "event" => s[i + 1].prev = s[i].id
    <3>1. SUFFICES ASSUME NEW i \in 1 .. Len(s) - 1, s[i + 1].kind = "event"
                   PROVE  s[i + 1].prev = s[i].id
      OBVIOUS
    <3>2. PICK j \in 1 .. Len(log) - 1 : j = k + i BY <1>1
    <3>4. i \in 1 .. Len(log) - k /\ i + 1 \in 1 .. Len(log) - k /\ k + (i + 1) = j + 1
      BY <1>1, <3>2
    <3>3. s[i] = log[j] /\ s[i + 1] = log[j + 1]
      <4>1. s[i] = log[k + i] /\ s[i + 1] = log[k + (i + 1)] BY <1>1, <3>4
      <4> QED BY <4>1, <3>2, <3>4
    <3> QED BY <3>1, <3>3 DEF Whole
  <2> QED BY <2>2, <2>3, <2>4 DEF Whole
<1>3. k < Len(log) => s # <<>> /\ IdOfLast(s) = IdOfLast(log)
  <2>1. SUFFICES ASSUME k < Len(log) PROVE s # <<>> /\ IdOfLast(s) = IdOfLast(log)
    OBVIOUS
  <2>2. s # <<>> /\ log # <<>> /\ Len(s) \in 1 .. Len(log) - k /\ k + Len(s) = Len(log)
    BY <1>1, <2>1
  <2>3. s[Len(s)] = log[Len(log)] BY <1>1, <2>2
  <2> QED BY <2>2, <2>3 DEF IdOfLast
<1> QED BY <1>1, <1>2, <1>3 DEF s

\* A whole log with one event more.
LEMMA MoreIsWhole ==
  ASSUME NEW log \in Seq(Rows), NEW n \in Nat, Whole(log, n), NEW e \in Rows,
         e.kind = "event", e.id >= 1, e.id < n, e.prev = IdOfLast(log),
         \A i \in 1 .. Len(log) : log[i].id < e.id
  PROVE  Whole(Append(log, e), n)
<1> DEFINE s == Append(log, e)
<1>1. /\ s \in Seq(Rows) /\ Len(s) = Len(log) + 1 /\ s[Len(log) + 1] = e
      /\ \A i \in 1 .. Len(log) : s[i] = log[i]
      /\ Len(log) \in Nat
  OBVIOUS
<1> HIDE DEF s
<1>2. \A i \in 1 .. Len(s) : s[i].kind \in Kinds /\ s[i].id >= 1 /\ s[i].id < n
  <2>1. "event" \in Kinds BY DEF Kinds
  <2> QED BY <1>1, <2>1 DEF Whole
<1>3. \A i, j \in 1 .. Len(s) : i < j => s[i].id < s[j].id
  BY <1>1 DEF Whole
<1>4. \A i \in 1 .. Len(s) - 1 : s[i + 1].kind = "event" => s[i + 1].prev = s[i].id
  <2>1. SUFFICES ASSUME NEW i \in 1 .. Len(s) - 1, s[i + 1].kind = "event"
                 PROVE  s[i + 1].prev = s[i].id
    OBVIOUS
  <2>2. CASE i = Len(log)
    <3>1. s[i + 1] = e /\ s[i] = log[Len(log)] /\ log # <<>> BY <2>2, <1>1
    <3> QED BY <3>1 DEF IdOfLast
  <2>3. CASE i # Len(log)
    <3>1. i \in 1 .. Len(log) - 1 /\ s[i + 1] = log[i + 1] /\ s[i] = log[i] BY <2>3, <1>1
    <3> QED BY <3>1, <2>1 DEF Whole
  <2> QED BY <2>2, <2>3
<1> QED BY <1>2, <1>3, <1>4 DEF Whole, s

\* A log of events alone is read as it is.
LEMMA WholeIsRead ==
  ASSUME AuditTypeOK, Ends, \A i \in 1 .. Len(Lines(files)) : Lines(files)[i].kind = "event"
  PROVE  Parsed(files) = Lines(files) /\ Readable(files) = Lines(files)
<1>1. Lines(files) \in Seq(Rows)
  BY LogType, LinesType
<1> DEFINE l == Lines(files)
<1>3. Parsed(files) = l
  BY <1>1, EventsOfAll DEF Parsed, IsEvent
<1>4. Readable(files) = [i \in 1 .. Len(l) |-> l[i]]
  <2>1. Readable(files) = Linked(l) BY <1>3 DEF Readable
  <2>2. \A i \in 1 .. Len(l) : l[i].kind = "event" OBVIOUS
  <2> HIDE DEF l
  <2> QED BY <2>1, <2>2 DEF Linked
<1>5. l = [i \in 1 .. Len(l) |-> l[i]]
  <2> HIDE DEF l
  <2> QED BY <1>1 DEF l
<1> QED BY <1>3, <1>4, <1>5

-----------------------------------------------------------------------------
(***************************************************************************)
(* It holds initially.                                                     *)
(***************************************************************************)
LEMMA FirstRowsFacts ==
  ASSUME NEW rows \in FirstRows
  PROVE  /\ rows \in Seq(Rows) /\ Len(rows) <= 2
         /\ \A i \in 1 .. Len(rows) : rows[i].kind \in {"event", "legacy"} /\ rows[i].id \in 1 .. 2
         /\ \A i \in 1 .. Len(rows) : rows[i].prev = 1 => Len(rows) = 1 /\ rows[i].kind = "event" /\ rows[i].id = 2
         /\ \A i \in 1 .. Len(rows) : rows[i].prev # 1 => rows[i].kind = "legacy" /\ rows[i].id = i
<1>1. CASE \E n \in 0 .. 2 : rows = Legacy(n)
  <2>1. PICK n \in 0 .. 2 : rows = [i \in 1 .. n |-> [kind |-> "legacy", id |-> i, prev |-> 0]]
    BY <1>1 DEF Legacy, Event
  <2>2. \A i \in 1 .. n : rows[i] = [kind |-> "legacy", id |-> i, prev |-> 0] /\ rows[i] \in Rows
    BY <2>1, ConstantsAreNumbers DEF Rows
  <2>3. rows \in Seq(Rows) /\ Len(rows) = n
    BY <2>1, <2>2
  <2> QED BY <2>2, <2>3
<1>2. CASE rows = <<Event("event", 2, 1)>>
  <2>1. rows = <<[kind |-> "event", id |-> 2, prev |-> 1]>> BY <1>2 DEF Event
  <2>2. [kind |-> "event", id |-> 2, prev |-> 1] \in Rows BY ConstantsAreNumbers DEF Rows
  <2> QED BY <2>1, <2>2
<1> QED BY <1>1, <1>2 DEF FirstRows

LEMMA FirstLog ==
  ASSUME AuditInit
  PROVE  \E rows \in Seq(Rows) :
           /\ files = [i \in 0 .. Retain |-> IF i = 0 THEN rows ELSE <<>>]
           /\ surface = "remote" => rows = <<>>
           /\ rows \in FirstRows
           /\ upcoming = IF rows = <<>> THEN 1 ELSE rows[Len(rows)].id + 1
           /\ marks = IF rows # <<>> /\ rows[1].prev = 1
                      THEN <<[pruned |-> 1, first |-> 2]>> ELSE <<>>
<1>1. PICK rows \in IF surface = "remote" THEN {<<>>} ELSE FirstRows :
        /\ files = [i \in 0 .. Retain |-> IF i = 0 THEN rows ELSE <<>>]
        /\ upcoming = IF rows = <<>> THEN 1 ELSE Last(rows).id + 1
        /\ marks = IF rows # <<>> /\ Head(rows).prev = 1 THEN <<Boundary(1, 2)>> ELSE <<>>
  BY DEF AuditInit
<1>2. <<>> \in FirstRows
  <2>1. Legacy(0) = <<>> BY DEF Legacy
  <2>2. Legacy(0) \in FirstRows BY DEF FirstRows
  <2> QED BY <2>1, <2>2
<1>3. rows \in FirstRows
  BY <1>1, <1>2
<1>4. rows \in Seq(Rows)
  BY <1>3, FirstRowsFacts
<1>5. rows # <<>> => Head(rows) = rows[1]
  BY <1>4
<1> QED BY <1>1, <1>3, <1>4, <1>5 DEF Boundary, Last

LEMMA InitAuditIInv == AuditInit => AuditIInv
<1> SUFFICES ASSUME AuditInit PROVE AuditIInv
  OBVIOUS
<1>0. PICK rows \in Seq(Rows) :
        /\ files = [i \in 0 .. Retain |-> IF i = 0 THEN rows ELSE <<>>]
        /\ surface = "remote" => rows = <<>>
        /\ rows \in FirstRows
        /\ upcoming = IF rows = <<>> THEN 1 ELSE rows[Len(rows)].id + 1
        /\ marks = IF rows # <<>> /\ rows[1].prev = 1
                   THEN <<[pruned |-> 1, first |-> 2]>> ELSE <<>>
  BY FirstLog
<1>1. /\ Len(rows) <= 2
      /\ \A i \in 1 .. Len(rows) : rows[i].kind \in {"event", "legacy"} /\ rows[i].id \in 1 .. 2
      /\ \A i \in 1 .. Len(rows) : rows[i].prev = 1 => Len(rows) = 1 /\ rows[i].kind = "event" /\ rows[i].id = 2
      /\ \A i \in 1 .. Len(rows) : rows[i].prev # 1 => rows[i].kind = "legacy" /\ rows[i].id = i
  BY <1>0, FirstRowsFacts
<1>2. Place = "idle" /\ holder = "free"
  BY ConstantsAreNumbers DEF AuditInit, Place
<1>3. /\ files \in Generations /\ files[0] = rows /\ \A i \in 1 .. Retain : files[i] = <<>>
      /\ rows # <<>> => Len(rows) >= 1
  BY <1>0, ConstantsAreNumbers DEF Generations
<1>4. Log = rows
  BY <1>2, <1>3, LinesOfFlat DEF Log
<1>5. AuditTypeOK
  <2>1. upcoming \in 1 .. MaxEvents + 1
    BY <1>0, <1>1, <1>3, ConstantsAreNumbers
  <2>2. marks \in Seq([pruned : 0 .. MaxEvents, first : 0 .. MaxEvents])
    <3>1. [pruned |-> 1, first |-> 2] \in [pruned : 0 .. MaxEvents, first : 0 .. MaxEvents]
      BY ConstantsAreNumbers
    <3>2. ASSUME NEW S, NEW r \in S PROVE <<r>> \in Seq(S) /\ <<>> \in Seq(S)
      OBVIOUS
    <3>3. <<[pruned |-> 1, first |-> 2]>> \in Seq([pruned : 0 .. MaxEvents, first : 0 .. MaxEvents])
          /\ <<>> \in Seq([pruned : 0 .. MaxEvents, first : 0 .. MaxEvents])
      BY <3>1, <3>2, Zenon
    <3> QED BY <1>0, <3>3, Zenon
  <2>3. edge \in [pruned : 0 .. MaxEvents, first : 0 .. MaxEvents]
    BY ConstantsAreNumbers DEF AuditInit, NoEdge, Boundary
  <2>4. surface \in {"remote", "local"} /\ limit \in Limits \cup {0}
    BY DEF AuditInit
  <2>5. /\ pc \in [Procs -> Labels] /\ holder \in Procs \cup {"free"}
        /\ \A p \in Procs : pc[p] = "idle" <=> holder # p
    BY ConstantsAreNumbers DEF AuditInit, Labels
  <2>6. event \in [Procs -> {Junk} \cup [kind : {"event"}, id : 1..MaxEvents, prev : 0..MaxEvents]]
    BY DEF AuditInit
  <2>7. /\ old \in Seq(0..MaxEvents) /\ reached \in 0..Retain /\ wrote \in BOOLEAN
        /\ armed \in {"no", "wanted", "bare", "reserved"} /\ acked \subseteq 1..MaxEvents
        /\ raised \in BOOLEAN /\ wounds \in 0..MaxInterrupts /\ leaped \in BOOLEAN /\ marked \in BOOLEAN
    BY ConstantsAreNumbers DEF AuditInit
  <2>8. files \in [0 .. Retain -> Seq(Rows)]
    BY <1>3 DEF Generations
  <2> QED BY <2>1, <2>2, <2>3, <2>4, <2>5, <2>6, <2>7, <2>8 DEF AuditTypeOK
<1>6. Shape
  <2>1. \A p \in Procs : event[p] = Junk BY DEF AuditInit
  <2>2. old = <<>> /\ edge = NoEdge /\ reached = 0 /\ ~wrote /\ armed = "no" /\ wounds = 0 /\ ~marked /\ ~raised
    BY DEF AuditInit
  <2>3. surface = "local" => limit = 0 BY DEF AuditInit
  <2> QED BY <1>2, <1>3, <2>1, <2>2, <2>3 DEF Shape, Flat
<1>7. Ends
  <2>1. \A i \in 0 .. Retain : Ended(files[i])
    <3>1. SUFFICES ASSUME NEW i \in 0 .. Retain PROVE Ended(files[i])
      OBVIOUS
    <3>2. files[i] = rows \/ files[i] = <<>> BY <1>0
    <3>3. Ended(rows) BY <1>1 DEF Ended, Unended
    <3>4. ASSUME NEW e, e = <<>> PROVE Ended(e) BY <3>4 DEF Ended
    <3> QED BY <3>2, <3>3, <3>4
  <2>2. armed = "no" BY DEF AuditInit
  <2> QED BY <1>2, <2>1, <2>2 DEF Ends
<1>8. Order
  <2>1. surface = "remote" => \A i \in 0 .. Retain : files[i] = <<>> BY <1>0
  <2>2. ~Pending BY <1>2, ConstantsAreNumbers DEF Pending
  <2> QED BY <2>1, <2>2, ConstantsAreNumbers DEF Order, InOrder, Before
<1>9. surface \in {"remote", "local"} BY DEF AuditInit
<1>10. Chain
  <2>1. Whole(rows, upcoming)
    <3>1. \A i \in 1 .. Len(rows) : rows[i].kind \in Kinds
      <4>1. CASE surface = "local" BY <1>1, <4>1 DEF Kinds
      <4>2. CASE surface = "remote" BY <1>0, <4>2
      <4> QED BY <4>1, <4>2, <1>9
    <3>2. \A i, j \in 1 .. Len(rows) : i < j => rows[i].id < rows[j].id
      BY <1>1
    <3>3. \A i \in 1 .. Len(rows) : rows[i].id >= 1 /\ rows[i].id < upcoming
      BY <1>0, <1>1
    <3>4. \A i \in 1 .. Len(rows) - 1 : rows[i + 1].kind = "event" => rows[i + 1].prev = rows[i].id
      BY <1>1
    <3> QED BY <3>1, <3>2, <3>3, <3>4 DEF Whole
  <2>2. ~Pending /\ edge = NoEdge BY <1>2, ConstantsAreNumbers DEF Pending, AuditInit
  <2> QED BY <1>2, <1>4, <2>1, <2>2 DEF Chain
<1>11. Fit
  <2>1. Linear BY <1>0 DEF Linear
  <2>2. Begins(rows, marks)
    <3>1. CASE rows = <<>> BY <1>0, <3>1 DEF Begins
    <3>2. CASE rows # <<>> /\ rows[1].prev = 1
      <4>1. marks = <<[pruned |-> 1, first |-> 2]>> /\ rows[1].id = 2 BY <3>2, <1>0, <1>1, <1>3
      <4>2. marks # <<>> /\ marks[Len(marks)] = [pruned |-> 1, first |-> 2] BY <4>1
      <4> QED BY <3>2, <4>1, <4>2 DEF Begins
    <3>3. CASE rows # <<>> /\ rows[1].prev # 1
      <4>1. marks = <<>> /\ rows[1].kind = "legacy" BY <3>3, <1>0, <1>1, <1>3
      <4> QED BY <4>1 DEF Begins
    <3> QED BY <3>1, <3>2, <3>3
  <2>3. edge = NoEdge /\ ~marked /\ ~raised /\ armed = "no" BY DEF AuditInit
  <2>4. marks = <<>> \/ Len(rows) <= Retention
    BY <1>0, <1>1, <1>3, ConstantsAreNumbers
  <2> QED BY <1>2, <1>3, <1>4, <2>1, <2>2, <2>3, <2>4 DEF Fit
<1> QED BY <1>5, <1>6, <1>7, <1>8, <1>10, <1>11 DEF AuditIInv

-----------------------------------------------------------------------------
(***************************************************************************)
(* What follows from it.                                                   *)
(***************************************************************************)
LEMMA ChainFollows == AuditIInv => ChainIsWhole
<1> SUFFICES ASSUME AuditIInv, holder = "free", wounds = 0, ~leaped,
                    \A i \in 1 .. Len(files[0]) : files[0][i].kind # "legacy"
             PROVE  ChainErrors = {} /\ ~raised
  BY DEF ChainIsWhole
<1>1. AuditTypeOK /\ Shape /\ Ends /\ Order /\ Chain /\ Fit
  BY DEF AuditIInv
<1>2. /\ Place = "idle" /\ Log = Lines(files) /\ Log \in Seq(Rows) /\ files \in Generations
      /\ files[0] \in Seq(Rows)
  BY <1>1, Idle, LogType DEF Log
<1>3. Whole(Log, upcoming)
  BY <1>1 DEF Chain
<1>4. armed = "no" /\ edge = NoEdge
  BY <1>1 DEF Shape
<1>5. ~raised /\ Linear /\ Begins(Log, marks) /\ ~(marked /\ marks = <<>>)
  BY <1>1, <1>2, <1>4 DEF Fit
<1>6. \A i \in 1 .. Len(Log) : Log[i].kind = "event"
  <2>1. CASE surface = "remote"
    BY <2>1, <1>3 DEF Whole, Kinds
  <2>2. CASE surface = "local"
    <3>1. Flat BY <2>2, <1>1 DEF Shape
    <3>2. Log = files[0] BY <3>1, <1>2, LinesOfFlat DEF Flat
    <3> QED BY <3>2, <2>2, <1>3 DEF Whole, Kinds
  <2> QED BY <2>1, <2>2, <1>1 DEF AuditTypeOK
<1>7. Readable(files) = Log
  BY <1>1, <1>2, <1>6, WholeIsRead
<1>8. MarksParse
  <2>1. marks \in Seq([pruned : 0..MaxEvents, first : 0..MaxEvents]) BY <1>1 DEF AuditTypeOK
  <2>2. BadMark.pruned = 0 BY DEF BadMark, Boundary
  <2>3. \A j \in 1 .. Len(marks) : marks[j] # BadMark BY <2>2, <1>5 DEF Linear
  <2> QED BY <2>1, <2>3 DEF MarksParse, ToSet
<1>9. \A j \in 1 .. Len(Log), k \in 1 .. Len(Log) : k < j => Log[k].id # Log[j].id
  <2>0. \A i \in 1 .. Len(Log) : Log[i] \in Rows BY <1>2
  <2>1. \A i \in 1 .. Len(Log) : Log[i].id \in Nat BY <2>0, ConstantsAreNumbers DEF Rows
  <2> QED BY <2>1, <1>3, SMTT(20) DEF Whole
<1>10. ASSUME NEW j \in 1 .. Len(Log)
       PROVE  Log[j].prev = IF j > 1 THEN Log[j - 1].id
                            ELSE IF marks = <<>> THEN 0
                            ELSE IF Log[1].id # Last(marks).first THEN 0
                            ELSE Last(marks).pruned
  <2>1. CASE j > 1
    <3>1. PICK i \in 1 .. Len(Log) - 1 : j = i + 1 BY <2>1, <1>2
    <3>2. Log[i + 1].prev = Log[i].id BY <1>3, <1>6, <3>1 DEF Whole
    <3> QED BY <2>1, <3>1, <3>2
  <2>2. CASE j = 1
    <3>1. Log # <<>> BY <1>2
    <3>2. Log[1].kind = "event" BY <2>2, <1>6
    <3> QED BY <2>2, <3>1, <3>2, <1>5 DEF Begins, Last
  <2> QED BY <2>1, <2>2
<1>11. Log # <<>> /\ marks # <<>> => Log[1].id = Last(marks).first
  BY <1>5 DEF Begins, Last
<1>12. \A j \in 2 .. Len(marks) : marks[j].pruned = marks[j - 1].first
  BY <1>5 DEF Linear
<1>13. {j \in 1 .. Len(Log) :
          \/ Log[j].prev # (IF j > 1 THEN Log[j - 1].id
                            ELSE IF marks = <<>> THEN 0
                            ELSE IF Log[1].id # Last(marks).first THEN 0
                            ELSE Last(marks).pruned)
          \/ \E k \in 1 .. j - 1 : Log[k].id = Log[j].id} = {}
  <2>1. \A j \in 1 .. Len(Log) : \A k \in 1 .. j - 1 : k \in 1 .. Len(Log) /\ k < j BY <1>2
  <2> QED BY <1>9, <1>10, <2>1
<1>14. ChainErrors = {}
  <2>1. {j \in 2 .. Len(marks) : marks[j].pruned # marks[j - 1].first} = {} BY <1>12
  <2>2. ChainErrors =
          {0 : i \in {j \in 2 .. Len(marks) : marks[j].pruned # marks[j - 1].first}}
            \cup {Log[i].id : i \in
                    {j \in 1 .. Len(Log) :
                       \/ Log[j].prev # (IF j > 1 THEN Log[j - 1].id
                                         ELSE IF marks = <<>> THEN 0
                                         ELSE IF Log[1].id # Last(marks).first THEN 0
                                         ELSE Last(marks).pruned)
                       \/ \E k \in 1 .. j - 1 : Log[k].id = Log[j].id}}
    BY <1>5, <1>7, <1>8, <1>11, SMTT(30) DEF ChainErrors
  <2>3. \A S : S = {} => {0 : i \in S} = {} /\ {Log[i].id : i \in S} = {} OBVIOUS
  <2> QED BY <1>13, <2>1, <2>2, <2>3
<1> QED BY <1>5, <1>14

LEMMA LinksFollow == AuditIInv => LinksSurvive
<1> SUFFICES ASSUME AuditIInv, limit = 0, holder = "free"
             PROVE  \A i \in 1 .. Len(Readable(files)) - 1 :
                      LET a == Readable(files)[i]
                          b == Readable(files)[i + 1]
                      IN  b.id = a.id \/ (a.id <= b.prev /\ b.prev < b.id)
  BY DEF LinksSurvive
<1>1. AuditTypeOK /\ Shape /\ Ends /\ Order /\ Chain
  BY DEF AuditIInv
<1>2. /\ Place = "idle" /\ Log = Lines(files) /\ Log \in Seq(Rows) /\ files \in Generations
      /\ files[0] \in Seq(Rows)
  BY <1>1, Idle, LogType DEF Log
<1>3. Log = files[0]
  <2>1. Flat BY <1>1 DEF Shape
  <2> QED BY <2>1, <1>2, LinesOfFlat DEF Flat
<1> DEFINE l == files[0]
           e == Events(l)
<1>4. Parsed(files) = e
  BY <1>2, <1>3 DEF Parsed
<1>5. e \in Seq(Rows)
  BY <1>2, EventsType
<1>6. Readable(files) = Linked(e)
  BY <1>4 DEF Readable
<1>7. PICK m : EventsAt(l, m)
  BY <1>2, EventsAreRows
<1> HIDE DEF e, l
<1>8. /\ Len(Linked(e)) = Len(e) /\ \A i \in 1 .. Len(e) : Linked(e)[i].id = e[i].id
      /\ \A i \in 1 .. Len(e) : e[i].kind # "legacy" => Linked(e)[i] = e[i]
      /\ \A i \in 1 .. Len(e) : e[i].kind = "legacy" =>
            Linked(e)[i].prev = IF i = 1 THEN 0 ELSE e[i - 1].id
  <2>1. Linked(e) = [i \in 1 .. Len(e) |->
     IF e[i].kind # "legacy" THEN e[i]
     ELSE [e[i] EXCEPT !.prev = IF i = 1 THEN 0 ELSE e[i - 1].id]]
    BY DEF Linked
  <2>2. Len(e) \in Nat BY <1>5
  <2>3. Len(Linked(e)) = Len(e) BY <2>1, <2>2
  <2>4. \A i \in 1 .. Len(e) : e[i] \in Rows BY <1>5
  <2> QED BY <2>1, <2>3, <2>4 DEF Rows
<1> SUFFICES ASSUME NEW i \in 1 .. Len(e) - 1
             PROVE  LET a == Linked(e)[i]
                        b == Linked(e)[i + 1]
                    IN  b.id = a.id \/ (a.id <= b.prev /\ b.prev < b.id)
  BY <1>6, <1>8
<1>9. i \in 1 .. Len(e) /\ i + 1 \in 1 .. Len(e) /\ i < i + 1 /\ i + 1 # 1
  BY <1>5
<1>10. PICK x \in 1 .. Len(l), y \in 1 .. Len(l) :
         x < y /\ e[i] = l[x] /\ e[i + 1] = l[y] /\ IsEvent(l[x]) /\ IsEvent(l[y])
  BY <1>7, <1>9 DEF EventsAt, e
<1>11. e[i] \in Rows /\ e[i + 1] \in Rows
  BY <1>5, <1>9
<1>12. CASE surface = "remote"
  <2>1. Follows(l[x], l[y])
    BY <1>1, <1>10, <1>12 DEF Order, InOrder, l
  <2>2. l[x].kind # "legacy" /\ l[y].kind # "legacy"
    BY <1>1, <1>10, <1>12, ConstantsAreNumbers DEF Order, l
  <2>3. Linked(e)[i] = l[x] /\ Linked(e)[i + 1] = l[y]
    BY <2>2, <1>8, <1>9, <1>10
  <2> QED BY <2>1, <2>3 DEF Follows
<1>13. CASE surface = "local"
  <2>1. Whole(l, upcoming)
    BY <1>1, <1>3, <1>13 DEF Shape, Chain, l
  <2>2. e = l
    BY <2>1, <1>2, <1>13, EventsOfAll DEF Whole, Kinds, IsEvent, e, l
  <2>3. e[i].id < e[i + 1].id
    BY <2>1, <2>2, <1>9 DEF Whole
  <2>4. e[i + 1].kind = "event" => e[i + 1].prev = e[i].id
    BY <2>1, <2>2 DEF Whole
  <2>5. e[i + 1].kind \in {"event", "legacy"}
    BY <2>1, <2>2, <1>9, <1>13 DEF Whole, Kinds
  <2>6. (i + 1) - 1 = i OBVIOUS
  <2>7. Linked(e)[i + 1].prev = e[i].id
    BY <2>4, <2>5, <2>6, <1>8, <1>9
  <2>8. e[i].id \in Nat /\ e[i + 1].id \in Nat BY <1>11, ConstantsAreNumbers DEF Rows
  <2> QED BY <2>3, <2>7, <2>8, <1>8, <1>9
<1> QED BY <1>12, <1>13, <1>1 DEF AuditTypeOK

-----------------------------------------------------------------------------
(***************************************************************************)
(* What most steps need: where the holder is, and what a reader gets.      *)
(***************************************************************************)
\* A step of the process that has the lock, or gets it.
LEMMA HolderStays ==
  ASSUME AuditTypeOK, NEW p \in Procs, holder \in {p, "free"}, holder' = p,
         NEW l \in Labels \ {"idle"}, Go(p, l)
  PROVE  /\ Place' = l /\ pc' \in [Procs -> Labels] /\ pc'[p] = l
         /\ holder' \in Procs \cup {"free"}
         /\ \A q \in Procs : pc'[q] = "idle" <=> holder' # q
BY ConstantsAreNumbers DEF AuditTypeOK, Place, Go

\* A step that leaves the process where it was.
LEMMA Wait ==
  ASSUME AuditTypeOK, holder' = holder, pc' = pc
  PROVE  /\ Place' = Place /\ pc' \in [Procs -> Labels]
         /\ holder' \in Procs \cup {"free"}
         /\ \A q \in Procs : pc'[q] = "idle" <=> holder' # q
BY DEF AuditTypeOK, Place

\* The last step of an operation.
LEMMA Depart ==
  ASSUME AuditTypeOK, NEW p \in Procs, holder = p, Leave(p)
  PROVE  /\ Place' = "idle" /\ pc' \in [Procs -> Labels] /\ holder' = "free"
         /\ \A q \in Procs : pc'[q] = "idle" <=> holder' # q
         /\ event' = [event EXCEPT ![p] = Junk]
         /\ event' \in [Procs -> {Junk} \cup [kind : {"event"}, id : 1..MaxEvents, prev : 0..MaxEvents]]
         /\ old' = <<>> /\ edge' = NoEdge /\ reached' = 0 /\ wrote' = FALSE /\ armed' = "no"
         /\ edge' \in [pruned : 0..MaxEvents, first : 0..MaxEvents]
         /\ old' \in Seq(0..MaxEvents)
         /\ ~Pending'
<1>1. Place' = "idle" /\ holder' = "free" /\ ~Pending'
  BY ConstantsAreNumbers DEF Place, Leave, Pending
<1>2. pc' \in [Procs -> Labels] /\ \A q \in Procs : pc'[q] = "idle" <=> holder' # q
  BY ConstantsAreNumbers DEF AuditTypeOK, Leave, Go, Labels
<1>3. event' \in [Procs -> {Junk} \cup [kind : {"event"}, id : 1..MaxEvents, prev : 0..MaxEvents]]
  BY DEF AuditTypeOK, Leave
<1>4. edge' \in [pruned : 0..MaxEvents, first : 0..MaxEvents]
  BY ConstantsAreNumbers DEF Leave, NoEdge, Boundary
<1>5. old' \in Seq(0..MaxEvents)
  <2>1. <<>> \in Seq(0..MaxEvents) OBVIOUS
  <2> QED BY <2>1 DEF Leave
<1> QED BY <1>1, <1>2, <1>3, <1>4, <1>5 DEF Leave

LEMMA LogStays ==
  ASSUME files' = files, Place \notin {"drop", "cut"}, Place' \notin {"drop", "cut"}
  PROVE  Log' = Log /\ Log = Lines(files)
BY DEF Log

LEMMA StaysWhole ==
  ASSUME Log \in Seq(Rows), upcoming \in Nat, upcoming' \in Nat, upcoming <= upcoming',
         Log' = Log, surface' = surface, Whole(Log, upcoming)
  PROVE  Whole(Log, upcoming)'
<1>1. \A i \in 1 .. Len(Log) : Log[i] \in Rows OBVIOUS
<1>2. \A i \in 1 .. Len(Log) : Log[i].id \in Nat BY <1>1, ConstantsAreNumbers DEF Rows
<1> QED BY <1>2 DEF Whole, Kinds

LEMMA StaysBegun ==
  ASSUME Log' = Log, marks' = marks, Begins(Log, marks)
  PROVE  Begins(Log, marks)'
BY DEF Begins

LEMMA StaysLinear ==
  ASSUME marks' = marks, Linear PROVE Linear'
BY DEF Linear

LEMMA StaysFlat ==
  ASSUME files' = files, Flat PROVE Flat'
BY DEF Flat

\* What a reader gets, and the event a new one is linked to.
LEMMA ReadableType ==
  ASSUME NEW f \in Generations
  PROVE  /\ Parsed(f) \in Seq(Rows) /\ Readable(f) \in Seq(Rows)
         /\ Len(Readable(f)) = Len(Parsed(f))
         /\ \A i \in 1 .. Len(Parsed(f)) : IsEvent(Parsed(f)[i]) /\ Readable(f)[i].id = Parsed(f)[i].id
         /\ Ids(Readable(f)) \in Seq(0 .. MaxEvents)
         /\ LastId(f) \in 0 .. MaxEvents
         /\ LastId(f) = IF Parsed(f) = <<>> THEN 0 ELSE Parsed(f)[Len(Parsed(f))].id
<1>1. Lines(f) \in Seq(Rows)
  BY LinesType
<1> DEFINE e == Parsed(f)
<1>2. e \in Seq(Rows) /\ \A i \in 1 .. Len(e) : IsEvent(e[i])
  BY <1>1, EventsType DEF Parsed
<1>3. Readable(f) = [i \in 1 .. Len(e) |->
     IF e[i].kind # "legacy" THEN e[i]
     ELSE [e[i] EXCEPT !.prev = IF i = 1 THEN 0 ELSE e[i - 1].id]]
  BY DEF Readable, Linked
<1> HIDE DEF e
<1>4. \A i \in 1 .. Len(e) : e[i] \in Rows /\ (i # 1 => e[i - 1] \in Rows) /\ Len(e) \in Nat
  BY <1>2
<1>5. \A i \in 1 .. Len(e) : Readable(f)[i] \in Rows /\ Readable(f)[i].id = e[i].id
  <2>1. ASSUME NEW i \in 1 .. Len(e), NEW a \in 0 .. MaxEvents
        PROVE  [e[i] EXCEPT !.prev = a] \in Rows /\ [e[i] EXCEPT !.prev = a].id = e[i].id
    <3>1. e[i] \in Rows BY <1>4
    <3> QED BY <3>1 DEF Rows
  <2>2. ASSUME NEW i \in 1 .. Len(e) PROVE Readable(f)[i] \in Rows /\ Readable(f)[i].id = e[i].id
    <3>1. CASE e[i].kind # "legacy" BY <3>1, <1>3, <1>4
    <3>2. CASE e[i].kind = "legacy"
      <4>1. PICK a \in 0 .. MaxEvents : a = IF i = 1 THEN 0 ELSE e[i - 1].id
        <5>1. i # 1 => e[i - 1].id \in 0 .. MaxEvents BY <1>4 DEF Rows
        <5> QED BY <5>1, ConstantsAreNumbers
      <4>2. Readable(f)[i] = [e[i] EXCEPT !.prev = a] BY <3>2, <4>1, <1>3
      <4> QED BY <4>2, <2>1
    <3> QED BY <3>1, <3>2
  <2> QED BY <2>2
<1>6. Len(Readable(f)) = Len(e) /\ Readable(f) \in Seq(Rows)
  <2>1. Len(e) \in Nat BY <1>2
  <2>2. Readable(f) = [i \in 1 .. Len(e) |-> Readable(f)[i]] BY <1>3
  <2>3. ASSUME NEW s, s = [i \in 1 .. Len(e) |-> s[i]], \A i \in 1 .. Len(e) : s[i] \in Rows
        PROVE  Len(s) = Len(e) /\ s \in Seq(Rows)
    BY <2>1, <2>3
  <2> QED BY <2>2, <2>3, <1>5
<1>7. Ids(Readable(f)) \in Seq(0 .. MaxEvents)
  BY <1>5, <1>6 DEF Ids, Rows
<1>8. /\ LastId(f) \in 0 .. MaxEvents
      /\ LastId(f) = IF e = <<>> THEN 0 ELSE e[Len(e)].id
  <2>1. CASE e = <<>>
    <3>1. Readable(f) = <<>> BY <2>1, <1>6
    <3> QED BY <2>1, <3>1, ConstantsAreNumbers DEF LastId
  <2>2. CASE e # <<>>
    <3>1. Len(e) \in 1 .. Len(e) /\ Readable(f) # <<>> BY <2>2, <1>2, <1>6
    <3>2. LastId(f) = Readable(f)[Len(e)].id BY <3>1, <1>6 DEF LastId, Last
    <3>3. e[Len(e)] \in Rows BY <3>1, <1>4
    <3> QED BY <3>1, <3>2, <3>3, <2>2, <1>5 DEF Rows
  <2> QED BY <2>1, <2>2
<1> QED BY <1>2, <1>5, <1>6, <1>7, <1>8 DEF e

\* Who reads a log that nobody interrupted gets the log.
LEMMA LogIsRead ==
  ASSUME AuditTypeOK, Ends, Chain, surface = "remote", wounds = 0, Place \notin {"drop", "cut"}
  PROVE  /\ Log = Lines(files) /\ Parsed(files) = Log /\ Readable(files) = Log
         /\ LastId(files) = IdOfLast(Log)
         /\ Ids(Readable(files)) = [i \in 1 .. Len(Log) |-> Log[i].id]
<1>1. Log = Lines(files) BY DEF Log
<1>2. \A i \in 1 .. Len(Log) : Log[i].kind = "event" BY DEF Chain, Whole, Kinds
<1>3. Parsed(files) = Log /\ Readable(files) = Log BY <1>1, <1>2, WholeIsRead
<1> QED BY <1>1, <1>3 DEF LastId, IdOfLast, Last, Ids

\* The last event of a file that is in order comes after the others.
LEMMA LastIsLatest ==
  ASSUME NEW s \in Seq(Rows), InOrder(s), NEW n \in Nat, n >= 1, Before(s, n)
  PROVE  LET e == Events(s)
             last == IF e = <<>> THEN 0 ELSE e[Len(e)].id
         IN  last < n /\ \A j \in 1 .. Len(s) : IsEvent(s[j]) => s[j].id <= last
<1> DEFINE e == Events(s)
<1>1. e \in Seq(Rows) BY EventsType
<1>2. PICK m : EventsAt(s, m) BY EventsAreRows
<1>3. \A j \in 1 .. Len(s) : s[j] \in Rows OBVIOUS
<1>4. \A j \in 1 .. Len(s) : s[j].id \in Nat /\ s[j].prev \in Nat
  BY <1>3, ConstantsAreNumbers DEF Rows
<1>5. CASE e = <<>>
  <2>1. \A j \in 1 .. Len(s) : ~IsEvent(s[j]) BY <1>5, <1>2 DEF EventsAt
  <2> QED BY <1>5, <2>1
<1>6. CASE e # <<>>
  <2>1. Len(e) \in 1 .. Len(e) BY <1>1, <1>6
  <2>2. PICK y \in 1 .. Len(s) : y = m[Len(e)] /\ e[Len(e)] = s[y] /\ IsEvent(s[y])
    BY <2>1, <1>2 DEF EventsAt
  <2>3. ASSUME NEW j \in 1 .. Len(s), IsEvent(s[j]) PROVE j <= y
    <3>1. PICK a \in 1 .. Len(e) : m[a] = j BY <2>3, <1>2 DEF EventsAt
    <3>2. a = Len(e) \/ a < Len(e) BY <1>1
    <3> QED BY <3>1, <3>2, <2>1, <2>2, <1>2 DEF EventsAt
  <2>4. ASSUME NEW j \in 1 .. Len(s), IsEvent(s[j]) PROVE s[j].id <= s[y].id
    <3>1. CASE j = y BY <3>1, <1>4
    <3>2. CASE j < y
      <4>1. Follows(s[j], s[y]) BY <3>2, <2>2, <2>4 DEF InOrder
      <4>2. s[y].prev < s[y].id BY <2>2 DEF Before
      <4> QED BY <4>1, <4>2, <1>4 DEF Follows
    <3> QED BY <3>1, <3>2, <2>3, <2>4
  <2>5. s[y].id < n BY <2>2 DEF Before
  <2> QED BY <2>2, <2>4, <2>5, <1>6
<1> QED BY <1>5, <1>6

-----------------------------------------------------------------------------
(***************************************************************************)
(* An operation takes the lock.                                            *)
(***************************************************************************)
\* Whoever has no lock reads a log that is at rest.
LEMMA AtRest ==
  ASSUME AuditIInv, holder = "free"
  PROVE  /\ Place = "idle" /\ Log = Lines(files) /\ old = <<>> /\ edge = NoEdge /\ reached = 0
         /\ ~wrote /\ armed = "no" /\ \A q \in Procs : event[q] = Junk
         /\ wounds = 0 => Whole(Log, upcoming)
         /\ (wounds = 0 /\ ~leaped) =>
              ~raised /\ Linear /\ Begins(Log, marks) /\ ~(marked /\ marks = <<>>)
         /\ wounds = 0 /\ surface = "remote" =>
              /\ LastId(files) = IdOfLast(Log)
              /\ Ids(Readable(files)) = [i \in 1 .. Len(Log) |-> Log[i].id]
<1>1. AuditTypeOK /\ Shape /\ Ends /\ Chain /\ Fit BY DEF AuditIInv
<1>2. Place = "idle" /\ \A q \in Procs : holder # q BY <1>1, Idle, ConstantsAreNumbers
<1>3. Log = Lines(files) BY <1>2 DEF Log
<1>4. /\ old = <<>> /\ edge = NoEdge /\ reached = 0 /\ ~wrote /\ armed = "no"
      /\ \A q \in Procs : event[q] = Junk
  BY <1>1, <1>2 DEF Shape
<1>5. wounds = 0 => Whole(Log, upcoming) BY <1>1 DEF Chain
<1>6. (wounds = 0 /\ ~leaped) =>
              ~raised /\ Linear /\ Begins(Log, marks) /\ ~(marked /\ marks = <<>>)
  BY <1>1, <1>2, <1>4 DEF Fit
<1>7. wounds = 0 /\ surface = "remote" =>
              /\ LastId(files) = IdOfLast(Log)
              /\ Ids(Readable(files)) = [i \in 1 .. Len(Log) |-> Log[i].id]
  BY <1>1, <1>2, LogIsRead
<1> QED BY <1>2, <1>3, <1>4, <1>5, <1>6, <1>7

\* What a rotation remembers as it begins.
LEMMA RotationBegins ==
  ASSUME AuditIInv, holder = "free", surface = "remote", Log' = Log,
         old' = Ids(Readable(files)), Place' = "shift", marks' = marks, wounds = 0
  PROVE  /\ Lost' = 0
         /\ \A i \in 1 .. Len(Log) : Log[i].id = old'[i]
         /\ \A i, j \in 1 .. Len(old') : i < j => old'[i] < old'[j]
         /\ \A i \in 1 .. Len(old') : old'[i] >= 1
         /\ Len(old') = Len(Log)
<1>1. AuditTypeOK /\ Ends /\ Log \in Seq(Rows)
  BY LogType DEF AuditIInv
<1>2. old' = [i \in 1 .. Len(Log) |-> Log[i].id] /\ Whole(Log, upcoming)
  BY AtRest
<1>3. Len(Log) \in Nat /\ Len(old') = Len(Log)
  BY <1>1, <1>2
<1> QED BY <1>2, <1>3 DEF Whole, Lost

LEMMA BeginAppendKeeps ==
  ASSUME AuditIInv, NEW p \in Procs, BeginAppend(p)
  PROVE  AuditIInv'
<1>1. AuditTypeOK /\ Shape /\ Ends /\ Order /\ Chain /\ Fit
  BY DEF AuditIInv
<1>2. /\ holder = "free" /\ surface = "remote" /\ pc[p] = "idle" /\ upcoming <= MaxEvents /\ holder' = p
      /\ event' = [event EXCEPT ![p] = NewEvent] /\ upcoming' = upcoming + 1
      /\ UNCHANGED <<surface, limit, files, marks, marked, edge, wrote, armed,
                     acked, raised, wounds, leaped>>
  BY DEF BeginAppend, Free, disk, past
<1>3. \/ /\ limit # 0 /\ Go(p, "shift") /\ reached' = Retain /\ old' = Ids(Readable(files))
         /\ Place' = "shift"
      \/ Go(p, "write") /\ reached' = reached /\ old' = old /\ Place' = "write"
  <2>1. \/ limit # 0 /\ Go(p, "shift") /\ reached' = Retain /\ old' = Ids(Readable(files))
        \/ Go(p, "write") /\ reached' = reached /\ old' = old
    BY DEF BeginAppend
  <2>2. "shift" \in Labels \ {"idle"} /\ "write" \in Labels \ {"idle"} BY DEF Labels
  <2> QED BY <1>1, <1>2, <2>1, <2>2, HolderStays
<1>4. /\ Place = "idle" /\ Log = Lines(files) /\ old = <<>> /\ edge = NoEdge /\ reached = 0
      /\ ~wrote /\ armed = "no" /\ \A q \in Procs : event[q] = Junk
  BY <1>2, AtRest
<1>5. /\ Log' = Log /\ Log \in Seq(Rows) /\ files \in Generations /\ files[0] \in Seq(Rows)
  BY <1>1, <1>2, <1>3, <1>4, LogStays, LogType
<1>6. /\ NewEvent = [kind |-> "event", id |-> upcoming, prev |-> LastId(files)]
      /\ LastId(files) \in 0 .. MaxEvents /\ Ids(Readable(files)) \in Seq(0 .. MaxEvents)
      /\ upcoming \in 1 .. MaxEvents /\ NewEvent # Junk /\ NewEvent.kind = "event"
      /\ NewEvent.id = upcoming /\ NewEvent.prev = LastId(files)
  <2>1. NewEvent.kind # Junk.kind BY DEF NewEvent, Junk, Event
  <2>2. upcoming \in 1 .. MaxEvents BY <1>1, <1>2, ConstantsAreNumbers DEF AuditTypeOK
  <2>3. LastId(files) \in 0 .. MaxEvents /\ Ids(Readable(files)) \in Seq(0 .. MaxEvents)
    BY <1>5, ReadableType
  <2> QED BY <2>1, <2>2, <2>3 DEF NewEvent, Event
<1>7. event'[p] = NewEvent /\ \A q \in Procs : q # p => event'[q] = Junk
  BY <1>1, <1>2, <1>4 DEF AuditTypeOK
<1>8. AuditTypeOK'
  <2>1. /\ pc' \in [Procs -> Labels] /\ holder' \in Procs \cup {"free"}
        /\ \A q \in Procs : pc'[q] = "idle" <=> holder' # q
    <3>1. "shift" \in Labels \ {"idle"} /\ "write" \in Labels \ {"idle"} BY DEF Labels
    <3> QED BY <1>1, <1>2, <1>3, <3>1, HolderStays
  <2>2. event' \in [Procs -> {Junk} \cup [kind : {"event"}, id : 1..MaxEvents, prev : 0..MaxEvents]]
    BY <1>1, <1>2, <1>6 DEF AuditTypeOK
  <2>3. upcoming' \in 1 .. MaxEvents + 1 BY <1>2, <1>6, ConstantsAreNumbers
  <2>4. old' \in Seq(0 .. MaxEvents) /\ reached' \in 0 .. Retain
    BY <1>1, <1>3, <1>6, ConstantsAreNumbers, SMTT(20) DEF AuditTypeOK
  <2> QED BY <1>1, <1>2, <2>1, <2>2, <2>3, <2>4 DEF AuditTypeOK
<1>9. Shape'
  <2>1. limit = 0 => Flat' BY <1>1, <1>2, StaysFlat DEF Shape
  <2>2. \A q \in Procs : event'[q] # Junk => q = p BY <1>7
  <2>3. event'[p].id < upcoming' BY <1>2, <1>6, <1>7
  <2> QED BY <1>2, <1>3, <1>4, <1>6, <1>7, <2>1, <2>2, <2>3, ConstantsAreNumbers
       DEF Shape, PlainPlaces
<1>10. Ends'
  BY <1>1, <1>2, <1>3, <1>4 DEF Ends
<1>11. Order'
  <2>1. surface = "remote" =>
       \A i \in 0 .. Retain : \A j \in 1 .. Len(files[i]) : files[i][j].kind # "legacy"
    BY <1>1 DEF Order
  <2>2. ASSUME limit = 0
        PROVE  /\ InOrder(files'[0]) /\ Before(files'[0], upcoming')
               /\ NewEvent.prev < NewEvent.id
               /\ \A j \in 1 .. Len(files[0]) : IsEvent(files[0][j]) => files[0][j].id <= NewEvent.prev
    <3>1. InOrder(files[0]) /\ Before(files[0], upcoming) BY <1>1, <1>2, <2>2 DEF Order
    <3>2. Flat BY <1>1, <2>2 DEF Shape
    <3>3. Parsed(files) = Events(files[0]) BY <1>5, <3>2, LinesOfFlat DEF Flat, Parsed
    <3>4. LastId(files) = IF Events(files[0]) = <<>> THEN 0 ELSE Events(files[0])[Len(Events(files[0]))].id
      BY <1>5, <3>3, ReadableType
    <3>5. LastId(files) < upcoming
          /\ \A j \in 1 .. Len(files[0]) : IsEvent(files[0][j]) => files[0][j].id <= LastId(files)
      BY <1>5, <1>6, <3>1, <3>4, LastIsLatest
    <3>6. Before(files[0], upcoming + 1)
      <4>1. \A j \in 1 .. Len(files[0]) : files[0][j] \in Rows BY <1>5
      <4> QED BY <3>1, <4>1, <1>6, ConstantsAreNumbers DEF Before, Rows
    <3> QED BY <3>1, <3>5, <3>6, <1>2, <1>6
  <2> QED BY <1>2, <1>7, <2>1, <2>2 DEF Order
<1>12. Chain'
  <2>1. SUFFICES ASSUME wounds = 0 PROVE Chain'
    BY <1>2 DEF Chain
  <2>2. Whole(Log, upcoming) /\ LastId(files) = IdOfLast(Log)
    BY <2>1, <1>2, AtRest
  <2>3. Whole(Log, upcoming)'
    BY <2>2, <1>2, <1>5, <1>6, StaysWhole
  <2>4. event'[p].prev = IdOfLast(Log)' /\ \A i \in 1 .. Len(Log') : Log'[i].id < event'[p].id
    BY <2>2, <1>5, <1>6, <1>7 DEF Whole, IdOfLast
  <2>5. Place' = "shift" =>
         /\ Lost' = 0 /\ \A i \in 1 .. Len(Log) : Log[i].id = old'[i]
         /\ \A i, j \in 1 .. Len(old') : i < j => old'[i] < old'[j]
         /\ \A i \in 1 .. Len(old') : old'[i] >= 1
    BY <2>1, <1>2, <1>3, <1>5, RotationBegins
  <2>6. Place' = "shift" => \A i \in 1 .. Len(Log') : Log'[i].id = old'[Lost' + i]
    BY <2>5, <1>5
  <2>7. edge' = NoEdge /\ Place' \in {"shift", "write"} BY <1>2, <1>3, <1>4
  <2> QED BY <1>2, <2>3, <2>4, <2>5, <2>6, <2>7 DEF Chain
<1>13. Fit'
  <2>1. SUFFICES ASSUME wounds = 0, ~leaped PROVE Fit'
    BY <1>2 DEF Fit
  <2>2. ~raised /\ Linear /\ Begins(Log, marks) /\ ~(marked /\ marks = <<>>)
    BY <2>1, <1>2, AtRest
  <2>3. Linear' /\ Begins(Log, marks)'
    BY <2>2, <1>2, <1>5, StaysBegun, StaysLinear
  <2>4. Place' = "shift" /\ marks # <<>> => old' # <<>> /\ old'[1] = marks[Len(marks)].first
    <3>1. SUFFICES ASSUME Place' = "shift", marks # <<>>
                   PROVE  old' # <<>> /\ old'[1] = marks[Len(marks)].first
      OBVIOUS
    <3>2. Len(old') = Len(Log) /\ \A i \in 1 .. Len(Log) : Log[i].id = old'[i]
      BY <2>1, <3>1, <1>2, <1>3, <1>5, RotationBegins
    <3>3. Log # <<>> /\ Log[1].id = marks[Len(marks)].first BY <2>2, <3>1 DEF Begins
    <3> QED BY <3>2, <3>3, <1>5
  <2> QED BY <1>2, <1>3, <1>4, <2>2, <2>3, <2>4 DEF Fit
<1> QED BY <1>8, <1>9, <1>10, <1>11, <1>12, <1>13 DEF AuditIInv

LEMMA BeginRotateKeeps ==
  ASSUME AuditIInv, NEW p \in Procs, BeginRotate(p)
  PROVE  AuditIInv'
<1>1. AuditTypeOK /\ Shape /\ Ends /\ Order /\ Chain /\ Fit
  BY DEF AuditIInv
<1>2. /\ holder = "free" /\ surface = "remote" /\ pc[p] = "idle" /\ holder' = p
      /\ UNCHANGED <<surface, limit, files, marks, marked, event, edge, wrote, armed, upcoming,
                     acked, raised, wounds, leaped>>
  BY DEF BeginRotate, Free, disk, past
<1>3. /\ pc' \in [Procs -> Labels] /\ holder' \in Procs \cup {"free"}
      /\ \A q \in Procs : pc'[q] = "idle" <=> holder' # q
      /\ \/ limit # 0 /\ reached' = Retain /\ old' = Ids(Readable(files)) /\ Place' = "shift"
         \/ reached' = reached /\ old' = old /\ Place' = "trim"
  <2>1. \/ limit # 0 /\ Go(p, "shift") /\ reached' = Retain /\ old' = Ids(Readable(files))
        \/ Go(p, "trim") /\ reached' = reached /\ old' = old
    BY DEF BeginRotate
  <2>2. "shift" \in Labels \ {"idle"} /\ "trim" \in Labels \ {"idle"} BY DEF Labels
  <2> QED BY <1>1, <1>2, <2>1, <2>2, HolderStays
<1>4. /\ Place = "idle" /\ Log = Lines(files) /\ old = <<>> /\ edge = NoEdge /\ reached = 0
      /\ ~wrote /\ armed = "no" /\ \A q \in Procs : event[q] = Junk
  BY <1>2, AtRest
<1>5. /\ Log' = Log /\ Log \in Seq(Rows) /\ files \in Generations /\ files[0] \in Seq(Rows)
  BY <1>1, <1>2, <1>3, <1>4, LogStays, LogType
<1>6. ~Pending'
  BY <1>2, <1>3, <1>4 DEF Pending
<1>8. AuditTypeOK'
  <2>1. old' \in Seq(0 .. MaxEvents) /\ reached' \in 0 .. Retain
    <3>1. Ids(Readable(files)) \in Seq(0 .. MaxEvents) BY <1>5, ReadableType
    <3> QED BY <3>1, <1>1, <1>3, ConstantsAreNumbers DEF AuditTypeOK
  <2> QED BY <1>1, <1>2, <1>3, <2>1 DEF AuditTypeOK
<1>9. Shape'
  <2>1. limit = 0 => Flat' BY <1>1, <1>2, StaysFlat DEF Shape
  <2> QED BY <1>2, <1>3, <1>4, <2>1, ConstantsAreNumbers DEF Shape, PlainPlaces
<1>10. Ends'
  BY <1>1, <1>2, <1>3, <1>4 DEF Ends
<1>11. Order'
  <2>1. Before(files[0], upcoming) => Before(files'[0], upcoming') BY <1>2
  <2> QED BY <1>1, <1>2, <1>6, <2>1 DEF Order, InOrder
<1>12. Chain'
  <2>1. SUFFICES ASSUME wounds = 0 PROVE Chain'
    BY <1>2 DEF Chain
  <2>2. Whole(Log, upcoming)
    BY <2>1, <1>2, AtRest
  <2>3. Whole(Log, upcoming)'
    <3>1. upcoming \in Nat BY <1>1, ConstantsAreNumbers DEF AuditTypeOK
    <3> QED BY <2>2, <3>1, <1>2, <1>5, StaysWhole
  <2>5. Place' = "shift" =>
         /\ Lost' = 0 /\ \A i \in 1 .. Len(Log) : Log[i].id = old'[i]
         /\ \A i, j \in 1 .. Len(old') : i < j => old'[i] < old'[j]
         /\ \A i \in 1 .. Len(old') : old'[i] >= 1
    BY <2>1, <1>2, <1>3, <1>5, RotationBegins
  <2>6. Place' = "shift" => \A i \in 1 .. Len(Log') : Log'[i].id = old'[Lost' + i]
    BY <2>5, <1>5
  <2>7. edge' = NoEdge /\ Place' \in {"shift", "trim"} BY <1>2, <1>3, <1>4
  <2> QED BY <1>2, <1>6, <2>3, <2>5, <2>6, <2>7 DEF Chain
<1>13. Fit'
  <2>1. SUFFICES ASSUME wounds = 0, ~leaped PROVE Fit'
    BY <1>2 DEF Fit
  <2>2. ~raised /\ Linear /\ Begins(Log, marks) /\ ~(marked /\ marks = <<>>)
    BY <2>1, <1>2, AtRest
  <2>3. Linear' /\ Begins(Log, marks)'
    BY <2>2, <1>2, <1>5, StaysBegun, StaysLinear
  <2>4. Place' = "shift" /\ marks # <<>> => old' # <<>> /\ old'[1] = marks[Len(marks)].first
    <3>1. SUFFICES ASSUME Place' = "shift", marks # <<>>
                   PROVE  old' # <<>> /\ old'[1] = marks[Len(marks)].first
      OBVIOUS
    <3>2. Len(old') = Len(Log) /\ \A i \in 1 .. Len(Log) : Log[i].id = old'[i]
      BY <2>1, <3>1, <1>2, <1>3, <1>5, RotationBegins
    <3>3. Log # <<>> /\ Log[1].id = marks[Len(marks)].first BY <2>2, <3>1 DEF Begins
    <3> QED BY <3>2, <3>3, <1>5
  <2> QED BY <1>2, <1>3, <1>4, <2>2, <2>3, <2>4 DEF Fit
<1> QED BY <1>8, <1>9, <1>10, <1>11, <1>12, <1>13 DEF AuditIInv

LEMMA BeginRecorderKeeps ==
  ASSUME AuditIInv, NEW p \in Procs, BeginRecorder(p)
  PROVE  AuditIInv'
<1>1. AuditTypeOK /\ Shape /\ Ends /\ Order /\ Chain /\ Fit
  BY DEF AuditIInv
<1>2. /\ holder = "free" /\ surface = "remote" /\ pc[p] = "idle" /\ holder' = p /\ armed' = "wanted"
      /\ UNCHANGED <<surface, limit, files, marks, marked, event, old, edge, reached, wrote, upcoming,
                     acked, raised, wounds, leaped>>
  BY DEF BeginRecorder, Free, disk, past
<1>3. /\ pc' \in [Procs -> Labels] /\ holder' \in Procs \cup {"free"} /\ Place' = "trim"
      /\ \A q \in Procs : pc'[q] = "idle" <=> holder' # q
  <2>1. "trim" \in Labels \ {"idle"} BY DEF Labels
  <2> QED BY <1>1, <1>2, <2>1, HolderStays DEF BeginRecorder
<1>4. /\ Place = "idle" /\ Log = Lines(files) /\ old = <<>> /\ edge = NoEdge /\ reached = 0
      /\ ~wrote /\ armed = "no" /\ \A q \in Procs : event[q] = Junk
  BY <1>2, AtRest
<1>5. /\ Log' = Log /\ Log \in Seq(Rows) /\ files \in Generations /\ files[0] \in Seq(Rows)
  BY <1>1, <1>2, <1>3, <1>4, LogStays, LogType
<1>6. ~Pending'
  BY <1>2, <1>3, <1>4 DEF Pending
<1>8. AuditTypeOK'
  BY <1>1, <1>2, <1>3 DEF AuditTypeOK
<1>9. Shape'
  <2>1. limit = 0 => Flat' BY <1>1, <1>2, StaysFlat DEF Shape
  <2> QED BY <1>2, <1>3, <1>4, <2>1, ConstantsAreNumbers DEF Shape, WantedPlaces
<1>10. Ends'
  BY <1>1, <1>2, <1>3, <1>4 DEF Ends
<1>11. Order'
  <2>1. Before(files[0], upcoming) => Before(files'[0], upcoming') BY <1>2
  <2> QED BY <1>1, <1>2, <1>6, <2>1 DEF Order, InOrder
<1>12. Chain'
  <2>1. SUFFICES ASSUME wounds = 0 PROVE Chain'
    BY <1>2 DEF Chain
  <2>2. Whole(Log, upcoming)
    BY <2>1, <1>2, AtRest
  <2>3. Whole(Log, upcoming)'
    <3>1. upcoming \in Nat BY <1>1, ConstantsAreNumbers DEF AuditTypeOK
    <3> QED BY <2>2, <3>1, <1>2, <1>5, StaysWhole
  <2> QED BY <1>2, <1>3, <1>4, <1>6, <2>3 DEF Chain
<1>13. Fit'
  <2>1. SUFFICES ASSUME wounds = 0, ~leaped PROVE Fit'
    BY <1>2 DEF Fit
  <2>2. ~raised /\ Linear /\ Begins(Log, marks) /\ ~(marked /\ marks = <<>>)
    BY <2>1, <1>2, AtRest
  <2>3. Linear' /\ Begins(Log, marks)'
    BY <2>2, <1>2, <1>5, StaysBegun, StaysLinear
  <2> QED BY <1>2, <1>3, <1>4, <2>2, <2>3 DEF Fit
<1> QED BY <1>8, <1>9, <1>10, <1>11, <1>12, <1>13 DEF AuditIInv

-----------------------------------------------------------------------------
(***************************************************************************)
(* An operation ends, goes on, or opens its descriptors.                   *)
(***************************************************************************)
\* The operation ends and leaves the files as they are.
LEMMA DepartKeeps ==
  ASSUME AuditIInv, NEW p \in Procs, holder = p, Leave(p), Place \notin {"drop", "cut"},
         files' = files, surface' = surface, limit' = limit, upcoming' = upcoming,
         wounds' = wounds, leaped' = leaped,
         marks' = marks, marked' \in BOOLEAN,
         acked' \subseteq 1 .. MaxEvents, raised' \in BOOLEAN,
         (wounds = 0 /\ ~leaped) =>
            Begins(Log, marks) /\ ~raised' /\ ~(marked' /\ marks = <<>>)
  PROVE  AuditIInv'
<1>1. AuditTypeOK /\ Shape /\ Ends /\ Order /\ Chain /\ Fit
  BY DEF AuditIInv
<1>2. /\ Place' = "idle" /\ pc' \in [Procs -> Labels] /\ holder' = "free"
      /\ \A q \in Procs : pc'[q] = "idle" <=> holder' # q
      /\ event' = [event EXCEPT ![p] = Junk]
      /\ event' \in [Procs -> {Junk} \cup [kind : {"event"}, id : 1..MaxEvents, prev : 0..MaxEvents]]
      /\ old' = <<>> /\ edge' = NoEdge /\ reached' = 0 /\ wrote' = FALSE /\ armed' = "no"
      /\ edge' \in [pruned : 0..MaxEvents, first : 0..MaxEvents]
      /\ old' \in Seq(0..MaxEvents)
      /\ ~Pending'
  BY <1>1, Depart
<1>3. Log' = Log /\ Log \in Seq(Rows)
  BY <1>1, <1>2, LogStays, LogType
<1>4. \A q \in Procs : event'[q] = Junk
  BY <1>1, <1>2 DEF AuditTypeOK, Shape
<1>5. AuditTypeOK'
  <2>1. reached' \in 0 .. Retain /\ wrote' \in BOOLEAN /\ armed' \in {"no", "wanted", "bare", "reserved"}
        /\ holder' \in Procs \cup {"free"}
    <3>1. reached' = 0 /\ wrote' = FALSE /\ armed' = "no" /\ holder' = "free" BY <1>2, Zenon
    <3>2. 0 \in 0 .. Retain BY ConstantsAreNumbers
    <3>3. FALSE \in BOOLEAN OBVIOUS
    <3> QED BY <3>1, <3>2, <3>3, Zenon
  <2>2. /\ surface' \in {"remote", "local"} /\ limit' \in Limits \cup {0}
        /\ files' \in [0..Retain -> Seq(Rows)]
        /\ marks' \in Seq([pruned : 0..MaxEvents, first : 0..MaxEvents])
        /\ upcoming' \in 1..MaxEvents + 1 /\ wounds' \in 0..MaxInterrupts /\ leaped' \in BOOLEAN
    BY <1>1 DEF AuditTypeOK
  <2> QED BY <1>2, <2>1, <2>2 DEF AuditTypeOK
<1>6. surface # "local"
  BY <1>1, ConstantsAreNumbers DEF Shape
<1>7. Shape'
  <2>1. limit = 0 => Flat' BY <1>1, StaysFlat DEF Shape
  <2> QED BY <1>2, <1>4, <1>6, <2>1 DEF Shape
<1>8. Ends'
  BY <1>1, <1>2 DEF Ends
<1>9. Order'
  <2>1. Before(files[0], upcoming) => Before(files'[0], upcoming') OBVIOUS
  <2> QED BY <1>1, <1>2, <2>1 DEF Order, InOrder
<1>10. Chain'
  <2>1. SUFFICES ASSUME wounds = 0 PROVE Chain'
    BY DEF Chain
  <2>2. Whole(Log, upcoming)'
    <3>1. upcoming \in Nat BY <1>1, ConstantsAreNumbers DEF AuditTypeOK
    <3>2. Whole(Log, upcoming) BY <1>1, <2>1 DEF Chain
    <3> QED BY <3>1, <3>2, <1>3, StaysWhole
  <2> QED BY <1>2, <2>2 DEF Chain
<1>11. Fit'
  <2>1. SUFFICES ASSUME wounds = 0, ~leaped PROVE Fit'
    BY DEF Fit
  <2>2. Linear' /\ Begins(Log, marks)'
    <3>1. Linear BY <1>1, <2>1 DEF Fit
    <3> QED BY <3>1, <2>1, <1>3, StaysBegun, StaysLinear
  <2> QED BY <1>2, <1>6, <2>1, <2>2 DEF Fit
<1> QED BY <1>5, <1>7, <1>8, <1>9, <1>10, <1>11 DEF AuditIInv

LEMMA ContinueKeeps ==
  ASSUME AuditIInv, NEW p \in Procs, Continue(p)
  PROVE  AuditIInv'
<1>1. AuditTypeOK /\ Shape /\ Ends /\ Order /\ Chain /\ Fit
  BY DEF AuditIInv
<1>2. /\ pc[p] = "next"
      /\ UNCHANGED <<surface, limit, files, marks, marked, upcoming, raised, wounds, leaped>>
  BY DEF Continue, disk
<1>3. holder = p /\ Place = "next" /\ p # "free"
  BY <1>1, <1>2, Here, ConstantsAreNumbers
<1>4. old = <<>> /\ edge = NoEdge /\ surface # "local"
  BY <1>1, <1>3 DEF Shape
<1>5. wounds = 0 /\ ~leaped =>
        ~raised /\ Linear /\ Begins(Log, marks) /\ ~(marked /\ marks = <<>>)
        /\ ~(armed = "reserved" /\ marks = <<>>)
  BY <1>1, <1>3, <1>4 DEF Fit
<1>6. CASE armed = "wanted" \/ (event[p] # Junk /\ ~wrote)
  <2>1. /\ Go(p, IF armed = "wanted" THEN "arm" ELSE "write")
        /\ UNCHANGED <<holder, event, old, edge, reached, wrote, armed, acked>>
    BY <1>6 DEF Continue
  <2>2. /\ pc' \in [Procs -> Labels] /\ holder' \in Procs \cup {"free"}
        /\ Place' = IF armed = "wanted" THEN "arm" ELSE "write"
        /\ \A q \in Procs : pc'[q] = "idle" <=> holder' # q
    <3>1. (IF armed = "wanted" THEN "arm" ELSE "write") \in Labels \ {"idle"} BY DEF Labels
    <3> QED BY <1>1, <1>3, <2>1, <3>1, HolderStays
  <2>3. Log' = Log /\ Log \in Seq(Rows)
    BY <1>1, <1>2, <1>3, <2>2, LogStays, LogType
  <2>4. armed # "wanted" => event[p] # Junk
    BY <1>6
  <2>5. Pending' => Pending
    <3>1. armed = "wanted" => event[p] = Junk BY <1>1, <1>3 DEF Shape
    <3>2. armed # "wanted" => Pending BY <1>3, <1>6 DEF Pending
    <3>3. armed = "wanted" => ~Pending' BY <1>3, <2>1, <2>2, <3>1 DEF Pending
    <3> QED BY <3>2, <3>3
  <2>6. AuditTypeOK'
    BY <1>1, <1>2, <2>1, <2>2 DEF AuditTypeOK
  <2>7. Shape'
    <3>1. Flat => Flat' BY <1>2, StaysFlat
    <3> QED BY <1>1, <1>2, <1>3, <1>4, <2>1, <2>2, <2>4, <3>1
         DEF Shape, PlainPlaces, WantedPlaces, ArmedPlaces, AuditTypeOK
  <2>8. Ends'
    BY <1>1, <1>2, <1>3, <2>1, <2>2 DEF Ends
  <2>9. Order'
    <3>1. Before(files[0], upcoming) => Before(files'[0], upcoming') BY <1>2
    <3> QED BY <1>1, <1>2, <2>1, <2>5, <3>1 DEF Order, InOrder
  <2>10. Chain'
    <3>1. SUFFICES ASSUME wounds = 0 PROVE Chain'
      BY <1>2 DEF Chain
    <3>2. Whole(Log, upcoming)'
      <4>1. upcoming \in Nat BY <1>1, ConstantsAreNumbers DEF AuditTypeOK
      <4>2. Whole(Log, upcoming) BY <1>1, <3>1 DEF Chain
      <4> QED BY <4>1, <4>2, <1>2, <2>3, StaysWhole
    <3>3. Pending' => /\ event'[holder'].prev = IdOfLast(Log)'
                      /\ \A i \in 1 .. Len(Log') : Log'[i].id < event'[holder'].id
      BY <1>1, <2>1, <2>3, <2>5, <3>1 DEF Chain, IdOfLast
    <3> QED BY <1>4, <2>1, <2>2, <3>2, <3>3 DEF Chain
  <2>11. Fit'
    <3>1. SUFFICES ASSUME wounds = 0, ~leaped PROVE Fit'
      BY <1>2 DEF Fit
    <3>2. Linear' /\ Begins(Log, marks)'
      BY <3>1, <1>2, <1>5, <2>3, StaysBegun, StaysLinear
    <3> QED BY <1>2, <1>4, <1>5, <2>1, <2>2, <3>1, <3>2 DEF Fit
  <2> QED BY <2>6, <2>7, <2>8, <2>9, <2>10, <2>11 DEF AuditIInv
<1>7. CASE ~(armed = "wanted" \/ (event[p] # Junk /\ ~wrote))
  <2>1. Leave(p) /\ acked' = IF wrote THEN acked \cup {event[p].id} ELSE acked
    BY <1>7 DEF Continue
  <2>2. acked' \subseteq 1 .. MaxEvents
    <3>1. wrote => event[p] # Junk BY <1>1, <1>3 DEF Shape
    <3>2. wrote => event[p].id \in 1 .. MaxEvents BY <1>1, <3>1 DEF AuditTypeOK
    <3> QED BY <1>1, <2>1, <3>2 DEF AuditTypeOK
  <2>3. marked' \in BOOLEAN /\ raised' \in BOOLEAN BY <1>1, <1>2 DEF AuditTypeOK
  <2> QED BY <1>2, <1>3, <1>5, <2>1, <2>2, <2>3, DepartKeeps
<1> QED BY <1>6, <1>7

LEMMA ArmKeeps ==
  ASSUME AuditIInv, NEW p \in Procs, Arm(p)
  PROVE  AuditIInv'
<1>1. AuditTypeOK /\ Shape /\ Ends /\ Order /\ Chain /\ Fit
  BY DEF AuditIInv
<1>2. /\ pc[p] = "arm"
      /\ UNCHANGED <<surface, limit, files, marks, upcoming, acked, wounds, leaped>>
  BY DEF Arm
<1>3. holder = p /\ Place = "arm" /\ p # "free"
  BY <1>1, <1>2, Here, ConstantsAreNumbers
<1>4. old = <<>> /\ edge = NoEdge /\ surface = "remote" /\ armed = "wanted" /\ event[p] = Junk
      /\ ~wrote /\ Flat
  BY <1>1, <1>3 DEF Shape, AuditTypeOK, PlainPlaces, ArmedPlaces
<1>5. wounds = 0 /\ ~leaped =>
        ~raised /\ Linear /\ Begins(Log, marks) /\ ~(marked /\ marks = <<>>)
  BY <1>1, <1>3, <1>4 DEF Fit
<1>6. CASE Leave(p) /\ marked' = marked /\ raised' = raised
  <2>1. marked' \in BOOLEAN /\ raised' \in BOOLEAN /\ acked' \subseteq 1 .. MaxEvents
    BY <1>1, <1>2, <1>6 DEF AuditTypeOK
  <2> QED BY <1>2, <1>3, <1>5, <1>6, <2>1, DepartKeeps
<1>7. CASE Leave(p) /\ raised' = TRUE /\ marked' = marked /\ marked /\ (marks = <<>> \/ ~MarksParse)
  <2>1. marked' \in BOOLEAN /\ raised' \in BOOLEAN /\ acked' \subseteq 1 .. MaxEvents
    BY <1>1, <1>2, <1>7 DEF AuditTypeOK
  <2>2. ~(wounds = 0 /\ ~leaped)
    <3>1. Linear => MarksParse
      <4>1. \A j \in 1 .. Len(marks) : marks[j].pruned >= 1 => marks[j] # BadMark
        BY DEF BadMark, Boundary
      <4>2. marks \in Seq([pruned : 0..MaxEvents, first : 0..MaxEvents]) BY <1>1 DEF AuditTypeOK
      <4>3. \A j \in 1 .. Len(marks) : marks[j] \in [pruned : 0..MaxEvents, first : 0..MaxEvents]
        BY <4>2, ElementOfSeq, Zenon
      <4> QED BY <4>1, <4>3, ConstantsAreNumbers DEF Linear, MarksParse, ToSet
    <3> QED BY <3>1, <1>5, <1>7
  <2> QED BY <1>2, <1>3, <1>7, <2>1, <2>2, DepartKeeps
<1>8. CASE /\ ~(marked /\ (marks = <<>> \/ ~MarksParse))
           /\ Go(p, "armed")
           /\ armed' = IF ~marked /\ Len(Readable(files)) < Retention THEN "bare" ELSE "reserved"
           /\ marked' = (armed' = "reserved")
           /\ UNCHANGED <<holder, event, old, edge, reached, wrote, raised>>
  <2>2. /\ pc' \in [Procs -> Labels] /\ holder' \in Procs \cup {"free"}
        /\ Place' = "armed"
        /\ \A q \in Procs : pc'[q] = "idle" <=> holder' # q
    <3>1. "armed" \in Labels \ {"idle"} BY DEF Labels
    <3> QED BY <1>1, <1>3, <1>8, <3>1, HolderStays
  <2>3. Log' = Log /\ Log \in Seq(Rows)
    BY <1>1, <1>2, <1>3, <2>2, LogStays, LogType
  <2>5. ~Pending'
    BY <1>3, <1>4, <1>8, <2>2 DEF Pending
  <2>6. AuditTypeOK'
    BY <1>1, <1>2, <1>8, <2>2 DEF AuditTypeOK
  <2>7. Shape'
    <3>1. Flat' BY <1>2, <1>4, StaysFlat
    <3> QED BY <1>1, <1>2, <1>3, <1>4, <1>8, <2>2, <3>1
         DEF Shape, PlainPlaces, WantedPlaces, ArmedPlaces
  <2>8. Ends'
    BY <1>1, <1>2, <1>3, <1>4, <2>2 DEF Ends
  <2>9. Order'
    <3>1. Before(files[0], upcoming) => Before(files'[0], upcoming') BY <1>2
    <3> QED BY <1>1, <1>2, <2>5, <3>1 DEF Order, InOrder
  <2>10. Chain'
    <3>1. SUFFICES ASSUME wounds = 0 PROVE Chain'
      BY <1>2 DEF Chain
    <3>2. Whole(Log, upcoming)'
      <4>1. upcoming \in Nat BY <1>1, ConstantsAreNumbers DEF AuditTypeOK
      <4>2. Whole(Log, upcoming) BY <1>1, <3>1 DEF Chain
      <4> QED BY <4>1, <4>2, <1>2, <2>3, StaysWhole
    <3> QED BY <1>4, <1>8, <2>2, <2>5, <3>2 DEF Chain
  <2>11. Fit'
    <3>1. SUFFICES ASSUME wounds = 0, ~leaped PROVE Fit'
      BY <1>2 DEF Fit
    <3>2. Linear' /\ Begins(Log, marks)'
      BY <3>1, <1>2, <1>5, <2>3, StaysBegun, StaysLinear
    <3>3. armed' = "reserved" /\ marks = <<>> => Len(Log) >= Retention
      <4>1. Readable(files) = Log BY <1>1, <1>3, <1>4, <3>1, LogIsRead
      <4> QED BY <1>8, <2>3, <4>1, ConstantsAreNumbers
    <3> QED BY <1>2, <1>4, <1>5, <1>8, <2>2, <2>3, <3>1, <3>2, <3>3 DEF Fit
  <2> QED BY <2>6, <2>7, <2>8, <2>9, <2>10, <2>11 DEF AuditIInv
<1> QED BY <1>6, <1>7, <1>8 DEF Arm

-----------------------------------------------------------------------------
(***************************************************************************)
(* A recorder makes its event.                                             *)
(***************************************************************************)
\* An event is made to follow those of a file that is never rotated.
LEMMA NewFollows ==
  ASSUME AuditIInv, surface = "remote", limit = 0, Place \notin {"drop", "cut"}
  PROVE  /\ InOrder(files[0]) /\ Before(files[0], upcoming + 1)
         /\ LastId(files) < upcoming
         /\ \A j \in 1 .. Len(files[0]) : IsEvent(files[0][j]) => files[0][j].id <= LastId(files)
<1>1. AuditTypeOK /\ Shape /\ Ends /\ Order
  BY DEF AuditIInv
<1>2. files \in Generations /\ files[0] \in Seq(Rows)
  BY <1>1, LogType
<1>3. InOrder(files[0]) /\ Before(files[0], upcoming) BY <1>1 DEF Order
<1>4. Flat BY <1>1 DEF Shape
<1>5. Parsed(files) = Events(files[0]) BY <1>2, <1>4, LinesOfFlat DEF Flat, Parsed
<1>6. LastId(files) = IF Events(files[0]) = <<>> THEN 0 ELSE Events(files[0])[Len(Events(files[0]))].id
  BY <1>2, <1>5, ReadableType
<1>7. upcoming \in Nat /\ upcoming >= 1 BY <1>1, ConstantsAreNumbers DEF AuditTypeOK
<1>8. LastId(files) < upcoming
      /\ \A j \in 1 .. Len(files[0]) : IsEvent(files[0][j]) => files[0][j].id <= LastId(files)
  BY <1>2, <1>3, <1>6, <1>7, LastIsLatest
<1>9. Before(files[0], upcoming + 1)
  <2>1. \A j \in 1 .. Len(files[0]) : files[0][j] \in Rows BY <1>2
  <2> QED BY <1>3, <1>7, <2>1, ConstantsAreNumbers DEF Before, Rows
<1> QED BY <1>3, <1>8, <1>9

LEMMA RecorderAppendKeeps ==
  ASSUME AuditIInv, NEW p \in Procs, RecorderAppend(p)
  PROVE  AuditIInv'
<1>1. AuditTypeOK /\ Shape /\ Ends /\ Order /\ Chain /\ Fit
  BY DEF AuditIInv
<1>2. /\ pc[p] = "armed" /\ upcoming <= MaxEvents
      /\ event' = [event EXCEPT ![p] = NewEvent] /\ upcoming' = upcoming + 1
      /\ UNCHANGED <<surface, limit, files, marks, marked, holder, old, edge, reached, wrote, armed,
                     acked, raised, wounds, leaped>>
  BY DEF RecorderAppend, disk, past
<1>3. holder = p /\ Place = "armed" /\ p # "free"
  BY <1>1, <1>2, Here, ConstantsAreNumbers
<1>4. /\ old = <<>> /\ edge = NoEdge /\ surface = "remote" /\ armed \in {"bare", "reserved"} /\ Flat
      /\ \A q \in Procs : q # p => event[q] = Junk
  BY <1>1, <1>3 DEF Shape, AuditTypeOK, PlainPlaces, WantedPlaces
<1>5. /\ pc' \in [Procs -> Labels] /\ holder' \in Procs \cup {"free"} /\ Place' = "write"
      /\ \A q \in Procs : pc'[q] = "idle" <=> holder' # q
  <2>1. "write" \in Labels \ {"idle"} BY DEF Labels
  <2> QED BY <1>1, <1>2, <1>3, <2>1, HolderStays DEF RecorderAppend
<1>6. /\ Log' = Log /\ Log \in Seq(Rows) /\ files \in Generations /\ files[0] \in Seq(Rows)
  BY <1>1, <1>2, <1>3, <1>5, LogStays, LogType
<1>7. /\ NewEvent = [kind |-> "event", id |-> upcoming, prev |-> LastId(files)]
      /\ LastId(files) \in 0 .. MaxEvents
      /\ upcoming \in 1 .. MaxEvents /\ NewEvent # Junk /\ NewEvent.kind = "event"
      /\ NewEvent.id = upcoming /\ NewEvent.prev = LastId(files)
  <2>1. NewEvent.kind # Junk.kind BY DEF NewEvent, Junk, Event
  <2>2. upcoming \in 1 .. MaxEvents BY <1>1, <1>2, ConstantsAreNumbers DEF AuditTypeOK
  <2>3. LastId(files) \in 0 .. MaxEvents
    BY <1>6, ReadableType
  <2> QED BY <2>1, <2>2, <2>3 DEF NewEvent, Event
<1>8. event'[p] = NewEvent /\ \A q \in Procs : q # p => event'[q] = Junk
  BY <1>1, <1>2, <1>4 DEF AuditTypeOK
<1>9. AuditTypeOK'
  <2>2. event' \in [Procs -> {Junk} \cup [kind : {"event"}, id : 1..MaxEvents, prev : 0..MaxEvents]]
    BY <1>1, <1>2, <1>7 DEF AuditTypeOK
  <2>3. upcoming' \in 1 .. MaxEvents + 1 BY <1>2, <1>7, ConstantsAreNumbers
  <2> QED BY <1>1, <1>2, <1>5, <2>2, <2>3 DEF AuditTypeOK
<1>10. Shape'
  <2>1. Flat' BY <1>2, <1>4, StaysFlat
  <2>2. \A q \in Procs : event'[q] # Junk => q = p BY <1>8
  <2>3. event'[p].id < upcoming' BY <1>2, <1>7, <1>8
  <2> QED BY <1>2, <1>3, <1>4, <1>5, <1>7, <1>8, <2>1, <2>2, <2>3
       DEF Shape, ArmedPlaces
<1>11. Ends'
  BY <1>1, <1>2, <1>3, <1>4, <1>5 DEF Ends
<1>12. Order'
  <2>1. limit = 0 =>
          /\ InOrder(files[0]) /\ Before(files[0], upcoming + 1)
          /\ LastId(files) < upcoming
          /\ \A j \in 1 .. Len(files[0]) : IsEvent(files[0][j]) => files[0][j].id <= LastId(files)
    BY <1>3, <1>4, NewFollows
  <2>2. surface = "remote" =>
       \A i \in 0 .. Retain : \A j \in 1 .. Len(files[i]) : files[i][j].kind # "legacy"
    BY <1>1 DEF Order
  <2>3. limit = 0 => InOrder(files'[0]) /\ Before(files'[0], upcoming') BY <1>2, <2>1
  <2> QED BY <1>2, <1>3, <1>7, <1>8, <2>1, <2>2, <2>3 DEF Order
<1>13. Chain'
  <2>1. SUFFICES ASSUME wounds = 0 PROVE Chain'
    BY <1>2 DEF Chain
  <2>2. Whole(Log, upcoming) /\ LastId(files) = IdOfLast(Log)
    BY <2>1, <1>1, <1>3, <1>4, LogIsRead DEF Chain
  <2>3. Whole(Log, upcoming)'
    BY <2>2, <1>2, <1>6, <1>7, StaysWhole
  <2>4. event'[p].prev = IdOfLast(Log)' /\ \A i \in 1 .. Len(Log') : Log'[i].id < event'[p].id
    BY <2>2, <1>6, <1>7, <1>8 DEF Whole, IdOfLast
  <2> QED BY <1>2, <1>3, <1>4, <1>5, <2>3, <2>4 DEF Chain
<1>14. Fit'
  <2>1. SUFFICES ASSUME wounds = 0, ~leaped PROVE Fit'
    BY <1>2 DEF Fit
  <2>2. /\ ~raised /\ Linear /\ Begins(Log, marks) /\ (marked /\ marks = <<>> => armed = "reserved")
        /\ armed = "reserved" /\ marks = <<>> => Len(Log) >= Retention
    BY <2>1, <1>1, <1>3, <1>4 DEF Fit
  <2>3. Linear' /\ Begins(Log, marks)'
    BY <2>2, <1>2, <1>6, StaysBegun, StaysLinear
  <2> QED BY <1>2, <1>4, <1>5, <1>6, <2>2, <2>3 DEF Fit
<1> QED BY <1>9, <1>10, <1>11, <1>12, <1>13, <1>14 DEF AuditIInv

\* Boundaries that continue each other parse.
LEMMA LinearParses ==
  ASSUME AuditTypeOK, Linear PROVE MarksParse
<1>1. \A j \in 1 .. Len(marks) : marks[j].pruned >= 1 => marks[j] # BadMark
  BY DEF BadMark, Boundary
<1>2. marks \in Seq([pruned : 0..MaxEvents, first : 0..MaxEvents]) BY DEF AuditTypeOK
<1>3. \A j \in 1 .. Len(marks) : marks[j] \in [pruned : 0..MaxEvents, first : 0..MaxEvents]
  BY <1>2, ElementOfSeq, Zenon
<1> QED BY <1>1, <1>3, ConstantsAreNumbers DEF Linear, MarksParse, ToSet

\* One boundary more.
LEMMA OneMark ==
  ASSUME AuditTypeOK, NEW e \in [pruned : 0..MaxEvents, first : 0..MaxEvents]
  PROVE  /\ Append(marks, e) \in Seq([pruned : 0..MaxEvents, first : 0..MaxEvents])
         /\ Append(marks, e) # <<>> /\ Len(Append(marks, e)) = Len(marks) + 1
         /\ Append(marks, e)[Len(marks) + 1] = e
         /\ \A j \in 1 .. Len(marks) : Append(marks, e)[j] = marks[j]
         /\ Len(marks) \in Nat
<1>1. ASSUME NEW S, NEW s \in Seq(S), NEW x \in S
      PROVE  /\ Append(s, x) \in Seq(S)
             /\ Append(s, x) # <<>> /\ Len(Append(s, x)) = Len(s) + 1
             /\ Append(s, x)[Len(s) + 1] = x
             /\ \A j \in 1 .. Len(s) : Append(s, x)[j] = s[j]
             /\ Len(s) \in Nat
  OBVIOUS
<1>2. marks \in Seq([pruned : 0..MaxEvents, first : 0..MaxEvents])
  BY DEF AuditTypeOK
<1> QED BY <1>1, <1>2, Zenon

-----------------------------------------------------------------------------
(***************************************************************************)
(* A boundary is recorded, and the rows it stands for are removed.         *)
(***************************************************************************)
\* What is known where a boundary is about to be recorded.
LEMMA AtMark ==
  ASSUME AuditIInv, Place = "mark"
  PROVE  /\ surface = "remote" /\ holder \in Procs
         /\ Log = Lines(files)
         /\ wounds = 0 =>
              /\ edge # NoEdge /\ Whole(Log, upcoming) /\ edge.pruned >= 1
              /\ Log # <<>> /\ Log[1].id = edge.first /\ Log[1].prev = edge.pruned
         /\ (wounds = 0 /\ ~leaped) =>
              /\ ~raised /\ Linear /\ (marks = <<>> \/ marks[Len(marks)].first = edge.pruned)
              /\ ~MarkRefused(edge, armed = "reserved")
<1>1. AuditTypeOK /\ Shape /\ Chain /\ Fit
  BY DEF AuditIInv
<1>2. holder \in Procs /\ holder # "free"
  BY <1>1, ConstantsAreNumbers DEF Place, AuditTypeOK
<1>3. surface = "remote"
  BY <1>1, <1>2 DEF Shape, AuditTypeOK
<1>4. wounds = 0 =>
              /\ edge # NoEdge /\ Whole(Log, upcoming) /\ edge.pruned >= 1
              /\ Log # <<>> /\ Log[1].id = edge.first /\ Log[1].prev = edge.pruned
  BY <1>1 DEF Chain
<1>5. ASSUME wounds = 0, ~leaped
      PROVE  /\ ~raised /\ Linear /\ (marks = <<>> \/ marks[Len(marks)].first = edge.pruned)
             /\ (marked /\ marks = <<>> => armed = "reserved")
  BY <1>1, <1>4, <1>5 DEF Fit
<1>6. ASSUME wounds = 0, ~leaped PROVE ~MarkRefused(edge, armed = "reserved")
  <2>1. MarksParse BY <1>1, <1>5, <1>6, LinearParses
  <2> QED BY <1>5, <1>6, <2>1 DEF MarkRefused, Last
<1>7. Log = Lines(files) BY DEF Log
<1> QED BY <1>2, <1>3, <1>4, <1>5, <1>6, <1>7

LEMMA MarkKeeps ==
  ASSUME AuditIInv, NEW p \in Procs, Mark(p)
  PROVE  AuditIInv'
<1>1. AuditTypeOK /\ Shape /\ Ends /\ Order /\ Chain /\ Fit
  BY DEF AuditIInv
<1>2. /\ pc[p] = "mark"
      /\ UNCHANGED <<surface, limit, files, upcoming, acked, wounds, leaped>>
  BY DEF Mark
<1>3. holder = p /\ Place = "mark" /\ p # "free"
  BY <1>1, <1>2, Here, ConstantsAreNumbers
<1>4. surface = "remote" /\ Log = Lines(files) /\ Log \in Seq(Rows) /\ (armed # "no" => old = <<>> /\ Flat)
  BY <1>1, <1>3, AtMark, LogType DEF Shape
<1>5. CASE MarkRefused(edge, armed = "reserved") /\ armed = "reserved" /\ reached = 0
  <2>1. /\ raised' = TRUE /\ UNCHANGED <<marks, marked>>
        /\ Go(p, "armed") /\ reached' = 1 /\ edge' = NoEdge
        /\ UNCHANGED <<holder, event, old, wrote, armed>>
    BY <1>5 DEF Mark
  <2>2. ~(wounds = 0 /\ ~leaped)
    BY <1>3, <1>5, AtMark
  <2>3. /\ pc' \in [Procs -> Labels] /\ holder' \in Procs \cup {"free"} /\ Place' = "armed"
        /\ \A q \in Procs : pc'[q] = "idle" <=> holder' # q
    <3>1. "armed" \in Labels \ {"idle"} BY DEF Labels
    <3> QED BY <1>1, <1>3, <2>1, <3>1, HolderStays
  <2>4. Log' = Log
    BY <1>2, <1>3, <2>3, LogStays
  <2>5. Pending' => Pending
    BY <2>1, <2>3 DEF Pending
  <2>6. AuditTypeOK'
    <3>1. NoEdge \in [pruned : 0..MaxEvents, first : 0..MaxEvents]
      BY ConstantsAreNumbers DEF NoEdge, Boundary
    <3>2. 1 \in 0 .. Retain BY ConstantsAreNumbers
    <3> QED BY <1>1, <1>2, <2>1, <2>3, <3>1, <3>2 DEF AuditTypeOK
  <2>7. Shape'
    <3>1. Flat' BY <1>2, <1>4, <1>5, StaysFlat
    <3> QED BY <1>1, <1>2, <1>3, <1>4, <1>5, <2>1, <2>3, <3>1 DEF Shape, ArmedPlaces
  <2>8. Ends'
    BY <1>1, <1>2, <1>3, <1>5, <2>1, <2>3 DEF Ends
  <2>9. Order'
    <3>1. Before(files[0], upcoming) => Before(files'[0], upcoming') BY <1>2
    <3> QED BY <1>1, <1>2, <2>1, <2>5, <3>1 DEF Order, InOrder
  <2>10. Chain'
    <3>1. SUFFICES ASSUME wounds = 0 PROVE Chain'
      BY <1>2 DEF Chain
    <3>2. Whole(Log, upcoming)'
      <4>1. upcoming \in Nat BY <1>1, ConstantsAreNumbers DEF AuditTypeOK
      <4>2. Whole(Log, upcoming) BY <1>1, <3>1 DEF Chain
      <4> QED BY <4>1, <4>2, <1>2, <1>4, <2>4, StaysWhole
    <3>3. Pending' => /\ event'[holder'].prev = IdOfLast(Log)'
                      /\ \A i \in 1 .. Len(Log') : Log'[i].id < event'[holder'].id
      BY <1>1, <2>1, <2>4, <2>5, <3>1 DEF Chain, IdOfLast
    <3> QED BY <2>1, <2>3, <3>2, <3>3 DEF Chain
  <2>11. Fit'
    BY <1>2, <2>2 DEF Fit
  <2> QED BY <2>6, <2>7, <2>8, <2>9, <2>10, <2>11 DEF AuditIInv
<1>6. CASE MarkRefused(edge, armed = "reserved") /\ ~(armed = "reserved" /\ reached = 0)
  <2>1. raised' = TRUE /\ UNCHANGED <<marks, marked>> /\ Leave(p)
    BY <1>6 DEF Mark
  <2>2. ~(wounds = 0 /\ ~leaped)
    BY <1>3, <1>6, AtMark
  <2>3. marked' \in BOOLEAN /\ raised' \in BOOLEAN /\ acked' \subseteq 1 .. MaxEvents
    BY <1>1, <1>2, <2>1 DEF AuditTypeOK
  <2> QED BY <1>2, <1>3, <2>1, <2>2, <2>3, DepartKeeps
<1>7. CASE ~MarkRefused(edge, armed = "reserved")
  <2>1. /\ marks' = IF marks # <<>> /\ Last(marks) = edge THEN marks ELSE Append(marks, edge)
        /\ marked' = TRUE /\ edge' = NoEdge /\ old' = <<>>
        /\ Go(p, IF old # <<>> THEN "trim" ELSE "next")
        /\ UNCHANGED <<raised, holder, event, reached, wrote, armed>>
    BY <1>7 DEF Mark
  <2>2. /\ pc' \in [Procs -> Labels] /\ holder' \in Procs \cup {"free"}
        /\ Place' = IF old # <<>> THEN "trim" ELSE "next"
        /\ \A q \in Procs : pc'[q] = "idle" <=> holder' # q
    <3>1. (IF old # <<>> THEN "trim" ELSE "next") \in Labels \ {"idle"} BY DEF Labels
    <3> QED BY <1>1, <1>3, <2>1, <3>1, HolderStays
  <2>3. /\ Append(marks, edge) \in Seq([pruned : 0..MaxEvents, first : 0..MaxEvents])
        /\ Append(marks, edge) # <<>> /\ Len(Append(marks, edge)) = Len(marks) + 1
        /\ Append(marks, edge)[Len(marks) + 1] = edge
        /\ \A j \in 1 .. Len(marks) : Append(marks, edge)[j] = marks[j]
        /\ Len(marks) \in Nat
    <3>1. edge \in [pruned : 0..MaxEvents, first : 0..MaxEvents] BY <1>1 DEF AuditTypeOK
    <3> QED BY <1>1, <3>1, OneMark
  <2>4. Log' = Log
    BY <1>2, <1>3, <2>2, LogStays
  <2>5. Pending' => Pending
    BY <2>1, <2>2 DEF Pending
  <2>6. AuditTypeOK'
    <3>1. NoEdge \in [pruned : 0..MaxEvents, first : 0..MaxEvents]
      BY ConstantsAreNumbers DEF NoEdge, Boundary
    <3>2. <<>> \in Seq(0 .. MaxEvents) OBVIOUS
    <3>3. marks' \in Seq([pruned : 0..MaxEvents, first : 0..MaxEvents])
      BY <1>1, <2>1, <2>3, Zenon DEF AuditTypeOK
    <3> QED BY <1>1, <1>2, <2>1, <2>2, <3>1, <3>2, <3>3 DEF AuditTypeOK
  <2>7. Shape'
    <3>1. Flat => Flat' BY <1>2, StaysFlat
    <3> QED BY <1>1, <1>2, <1>3, <1>4, <2>1, <2>2, <3>1
         DEF Shape, PlainPlaces, WantedPlaces, ArmedPlaces
  <2>8. Ends'
    BY <1>1, <1>2, <1>3, <2>1, <2>2 DEF Ends
  <2>9. Order'
    <3>1. Before(files[0], upcoming) => Before(files'[0], upcoming') BY <1>2
    <3> QED BY <1>1, <1>2, <2>1, <2>5, <3>1 DEF Order, InOrder
  <2>10. Chain'
    <3>1. SUFFICES ASSUME wounds = 0 PROVE Chain'
      BY <1>2 DEF Chain
    <3>2. Whole(Log, upcoming)'
      <4>1. upcoming \in Nat BY <1>1, ConstantsAreNumbers DEF AuditTypeOK
      <4>2. Whole(Log, upcoming) BY <1>1, <3>1 DEF Chain
      <4> QED BY <4>1, <4>2, <1>2, <1>4, <2>4, StaysWhole
    <3>3. Pending' => /\ event'[holder'].prev = IdOfLast(Log)'
                      /\ \A i \in 1 .. Len(Log') : Log'[i].id < event'[holder'].id
      BY <1>1, <2>1, <2>4, <2>5, <3>1 DEF Chain, IdOfLast
    <3> QED BY <2>1, <2>2, <3>2, <3>3 DEF Chain
  <2>11. Fit'
    <3>1. SUFFICES ASSUME wounds = 0, ~leaped PROVE Fit'
      BY <1>2 DEF Fit
    <3>2. /\ ~raised /\ Linear /\ (marks = <<>> \/ marks[Len(marks)].first = edge.pruned)
          /\ edge.pruned >= 1
          /\ Log # <<>> /\ Log[1].id = edge.first /\ Log[1].prev = edge.pruned
      BY <3>1, <1>3, AtMark
    <3>3. marks' # <<>> /\ marks'[Len(marks')] = edge
      BY <2>1, <2>3 DEF Last
    <3>4. Linear'
      <4>1. CASE marks' = marks BY <4>1, <3>2, StaysLinear
      <4>2. CASE marks' = Append(marks, edge)
        <5>1. /\ Len(marks') = Len(marks) + 1 /\ marks'[Len(marks) + 1] = edge
              /\ \A j \in 1 .. Len(marks) : marks'[j] = marks[j]
          BY <4>2, <2>3
        <5>2. \A j \in 1 .. Len(marks') : 1 <= marks'[j].pruned
          <6>1. \A j \in 1 .. Len(marks') : j = Len(marks) + 1 \/ j \in 1 .. Len(marks)
            BY <5>1, <2>3
          <6>2. 1 <= marks'[Len(marks) + 1].pruned BY <5>1, <3>2
          <6>3. \A j \in 1 .. Len(marks) : 1 <= marks'[j].pruned BY <5>1, <3>2 DEF Linear
          <6> QED BY <6>1, <6>2, <6>3
        <5>3. \A j \in 2 .. Len(marks') : marks'[j].pruned = marks'[j - 1].first
          <6>1. SUFFICES ASSUME NEW j \in 2 .. Len(marks') PROVE marks'[j].pruned = marks'[j - 1].first
            OBVIOUS
          <6>2. CASE j = Len(marks) + 1
            <7>1. j - 1 = Len(marks) /\ Len(marks) \in 1 .. Len(marks) /\ marks # <<>>
              BY <6>1, <6>2, <2>3
            <7> QED BY <7>1, <6>2, <5>1, <3>2
          <6>3. CASE j # Len(marks) + 1
            <7>1. j \in 2 .. Len(marks) /\ j - 1 \in 1 .. Len(marks) /\ j \in 1 .. Len(marks)
              BY <6>1, <6>3, <5>1, <2>3
            <7> QED BY <7>1, <5>1, <3>2 DEF Linear
          <6> QED BY <6>2, <6>3
        <5> QED BY <5>2, <5>3 DEF Linear
      <4> QED BY <4>1, <4>2, <2>1
    <3>5. Begins(Log, marks)'
      BY <2>4, <3>2, <3>3 DEF Begins
    <3> QED BY <1>2, <1>4, <2>1, <2>2, <3>1, <3>2, <3>3, <3>4, <3>5 DEF Fit
  <2> QED BY <2>6, <2>7, <2>8, <2>9, <2>10, <2>11 DEF AuditIInv
<1> QED BY <1>5, <1>6, <1>7

LEMMA DropKeeps ==
  ASSUME AuditIInv, NEW p \in Procs, Drop(p)
  PROVE  AuditIInv'
<1>1. AuditTypeOK /\ Shape /\ Ends /\ Order /\ Chain /\ Fit
  BY DEF AuditIInv
<1>2. /\ pc[p] = "drop"
      /\ UNCHANGED <<surface, limit, marks, marked, holder, event, old, edge, reached, wrote, armed,
                     upcoming, acked, raised, wounds, leaped>>
  BY DEF Drop, past
<1>3. holder = p /\ Place = "drop" /\ p # "free"
  BY <1>1, <1>2, Here, ConstantsAreNumbers
<1>4. /\ surface = "remote" /\ Log = files[0] /\ Log \in Seq(Rows) /\ files \in Generations
      /\ armed \in {"no", "wanted"} /\ old = <<>>
  BY <1>1, <1>3, LogType DEF Shape, Log, AuditTypeOK, ArmedPlaces
<1>5. Pending' => Pending \/ Place' = "write"
  BY <1>2 DEF Pending
<1>6. upcoming \in Nat
  BY <1>1, ConstantsAreNumbers DEF AuditTypeOK
<1>7. CASE Flat
  <2>1. {i \in 1 .. Retain : files[i] # <<>>} = {} BY <1>7 DEF Flat
  <2>2. Go(p, IF edge = NoEdge THEN "next" ELSE "mark") /\ files' = files
    BY <2>1 DEF Drop
  <2>3. /\ pc' \in [Procs -> Labels] /\ holder' \in Procs \cup {"free"}
        /\ Place' = IF edge = NoEdge THEN "next" ELSE "mark"
        /\ \A q \in Procs : pc'[q] = "idle" <=> holder' # q
    <3>1. (IF edge = NoEdge THEN "next" ELSE "mark") \in Labels \ {"idle"} BY DEF Labels
    <3> QED BY <1>1, <1>2, <1>3, <2>2, <3>1, HolderStays
  <2>4. Log' = Log
    <3>1. Lines(files) = files[0] BY <1>4, <1>7, LinesOfFlat DEF Flat
    <3>2. Log' = Lines(files)' BY <2>3 DEF Log
    <3> QED BY <3>1, <3>2, <2>2, <1>4
  <2>5. AuditTypeOK'
    BY <1>1, <1>2, <2>2, <2>3 DEF AuditTypeOK
  <2>6. Shape'
    <3>1. Flat' BY <1>7, <2>2, StaysFlat
    <3> QED BY <1>1, <1>2, <1>3, <1>4, <2>2, <2>3, <3>1 DEF Shape, PlainPlaces, WantedPlaces
  <2>7. Ends'
    <3>1. Len(Events(files[0])) <= Len(files[0]) /\ Events(files[0]) \in Seq(Rows)
      BY <1>4, EventsType
    <3>2. armed # "no" => Len(Events(files[0])) <= Retention
      BY <1>1, <1>3, <1>4, <3>1, ConstantsAreNumbers DEF Ends
    <3> QED BY <1>1, <1>2, <2>2, <2>3, <3>2 DEF Ends
  <2>8. Order'
    <3>1. Before(files[0], upcoming) => Before(files'[0], upcoming') BY <1>2, <2>2
    <3> QED BY <1>1, <1>2, <1>5, <2>2, <2>3, <3>1 DEF Order, InOrder
  <2>9. Chain'
    <3>1. SUFFICES ASSUME wounds = 0 PROVE Chain'
      BY <1>2 DEF Chain
    <3>2. Whole(Log, upcoming)'
      <4>1. Whole(Log, upcoming) BY <1>1, <3>1 DEF Chain
      <4> QED BY <4>1, <1>2, <1>4, <1>6, <2>4, StaysWhole
    <3>3. Pending' => /\ event'[holder'].prev = IdOfLast(Log)'
                      /\ \A i \in 1 .. Len(Log') : Log'[i].id < event'[holder'].id
      BY <1>1, <1>2, <1>5, <2>3, <2>4, <3>1 DEF Chain, IdOfLast
    <3>4. edge # NoEdge =>
            Log # <<>> /\ Log[1].id = edge.first /\ Log[1].prev = edge.pruned /\ edge.pruned >= 1
      BY <1>1, <3>1 DEF Chain
    <3>5. edge' = edge /\ NoEdge' = NoEdge BY <1>2
    <3> QED BY <2>3, <2>4, <3>2, <3>3, <3>4, <3>5 DEF Chain
  <2>10. Fit'
    <3>1. SUFFICES ASSUME wounds = 0, ~leaped PROVE Fit'
      BY <1>2 DEF Fit
    <3>2. /\ ~raised /\ Linear /\ (edge = NoEdge => Begins(Log, marks))
          /\ edge # NoEdge => (marks = <<>> \/ marks[Len(marks)].first = edge.pruned)
          /\ ~(marked /\ marks = <<>>)
      BY <3>1, <1>1, <1>3, <1>4 DEF Fit
    <3>3. Linear' /\ (Begins(Log, marks) => Begins(Log, marks)')
      BY <3>2, <1>2, <2>4, StaysBegun, StaysLinear
    <3> QED BY <1>2, <1>4, <2>2, <2>3, <3>2, <3>3 DEF Fit
  <2> QED BY <2>5, <2>6, <2>7, <2>8, <2>9, <2>10 DEF AuditIInv
<1>8. CASE ~Flat
  <2> DEFINE full == {i \in 1 .. Retain : files[i] # <<>>}
  <2>1. full # {} /\ full \subseteq Nat BY <1>8, ConstantsAreNumbers DEF Flat
  <2>2. \E i \in full : \A j \in full : i <= j BY <2>1, Least
  <2>3. PICK c \in 1 .. Retain : files' = [files EXCEPT ![c] = <<>>]
    <3>1. files' = [files EXCEPT ![CHOOSE i \in full : \A j \in full : i <= j] = <<>>]
      BY <2>1 DEF Drop
    <3>2. (CHOOSE i \in full : \A j \in full : i <= j) \in full BY <2>2
    <3> QED BY <3>1, <3>2
  <2>4. pc' = pc
    BY <2>1 DEF Drop
  <2>5. /\ Place' = Place /\ pc' \in [Procs -> Labels] /\ holder' \in Procs \cup {"free"}
        /\ \A q \in Procs : pc'[q] = "idle" <=> holder' # q
    BY <1>1, <1>2, <2>4, Wait
  <2>6. files'[0] = files[0] /\ files' \in [0 .. Retain -> Seq(Rows)]
        /\ \A i \in 0 .. Retain : files'[i] = files[i] \/ files'[i] = <<>>
    BY <1>4, <2>3, ConstantsAreNumbers DEF Generations
  <2>7. Log' = Log
    BY <1>3, <1>4, <2>5, <2>6 DEF Log
  <2>8. Pending' => Pending
    BY <1>3, <1>5, <2>5
  <2>9. AuditTypeOK'
    BY <1>1, <1>2, <2>4, <2>5, <2>6 DEF AuditTypeOK
  <2>10. Shape'
    <3>1. limit # 0 BY <1>1, <1>8 DEF Shape
    <3> QED BY <1>1, <1>2, <1>3, <1>4, <2>4, <2>5, <3>1 DEF Shape, PlainPlaces, WantedPlaces
  <2>11. Ends'
    <3>1. \A i \in 0 .. Retain : Ended(files'[i])
      <4>1. ASSUME NEW e, e = <<>> PROVE Ended(e) BY <4>1 DEF Ended
      <4> QED BY <1>1, <2>6, <4>1 DEF Ends
    <3> QED BY <1>1, <1>2, <1>3, <2>5, <2>6, <3>1 DEF Ends
  <2>12. Order'
    <3>1. Before(files[0], upcoming) => Before(files'[0], upcoming') BY <1>2, <2>6
    <3>2. \A i \in 0 .. Retain : \A j \in 1 .. Len(files'[i]) : files'[i][j].kind # "legacy"
      <4>1. SUFFICES ASSUME NEW i \in 0 .. Retain PROVE \A j \in 1 .. Len(files'[i]) : files'[i][j].kind # "legacy"
        OBVIOUS
      <4>2. CASE files'[i] = <<>>
        BY <4>2
      <4>3. CASE files'[i] = files[i]
        BY <4>3, <1>1, <1>4 DEF Order
      <4> QED BY <2>6, <4>2, <4>3
    <3>3. InOrder(files[0]) => InOrder(files'[0]) BY <2>6
    <3> QED BY <1>1, <1>2, <2>6, <2>8, <3>1, <3>2, <3>3 DEF Order
  <2>13. Chain'
    <3>1. SUFFICES ASSUME wounds = 0 PROVE Chain'
      BY <1>2 DEF Chain
    <3>2. Whole(Log, upcoming)'
      <4>1. Whole(Log, upcoming) BY <1>1, <3>1 DEF Chain
      <4> QED BY <4>1, <1>2, <1>4, <1>6, <2>7, StaysWhole
    <3>3. Pending' => /\ event'[holder'].prev = IdOfLast(Log)'
                      /\ \A i \in 1 .. Len(Log') : Log'[i].id < event'[holder'].id
      BY <1>1, <1>2, <2>7, <2>8, <3>1 DEF Chain, IdOfLast
    <3>4. edge # NoEdge =>
            Log # <<>> /\ Log[1].id = edge.first /\ Log[1].prev = edge.pruned /\ edge.pruned >= 1
      BY <1>1, <3>1 DEF Chain
    <3> QED BY <1>2, <1>3, <2>5, <2>7, <3>2, <3>3, <3>4 DEF Chain
  <2>14. Fit'
    <3>1. SUFFICES ASSUME wounds = 0, ~leaped PROVE Fit'
      BY <1>2 DEF Fit
    <3>2. /\ ~raised /\ Linear /\ (edge = NoEdge => Begins(Log, marks))
          /\ edge # NoEdge => (marks = <<>> \/ marks[Len(marks)].first = edge.pruned)
          /\ ~(marked /\ marks = <<>>)
      BY <3>1, <1>1, <1>3, <1>4 DEF Fit
    <3>3. Linear' /\ (Begins(Log, marks) => Begins(Log, marks)')
      BY <3>2, <1>2, <2>7, StaysBegun, StaysLinear
    <3> QED BY <1>2, <1>3, <1>4, <2>5, <3>2, <3>3 DEF Fit
  <2> QED BY <2>9, <2>10, <2>11, <2>12, <2>13, <2>14 DEF AuditIInv
<1> QED BY <1>7, <1>8

-----------------------------------------------------------------------------
(***************************************************************************)
(* A rotation: the generations move up, and what was lost is recorded.     *)
(***************************************************************************)
\* What a rotation finds out about the events it has lost.
RecordOf(kept, first) ==
  /\ kept = {i \in 1 .. Len(old) : old[i] \in ToSet(Ids(Readable(files)))}
  /\ kept # {} => first \in kept /\ \A j \in kept : first <= j

LEMMA RecordCases ==
  ASSUME AuditTypeOK, NEW p \in Procs, Record(p)
  PROVE  \E kept, first :
           /\ RecordOf(kept, first)
           /\ \/ /\ kept = {} \/ first = 1
                 /\ Go(p, "trim") /\ old' = <<>> /\ edge' = edge /\ leaped' = leaped
              \/ /\ kept # {} /\ first # 1
                 /\ Go(p, "mark") /\ edge' = Boundary(old[first - 1], old[first])
                 /\ leaped' = (leaped \/ first > 2) /\ old' = old
<1> DEFINE kept == {i \in 1 .. Len(old) : old[i] \in ToSet(Ids(Readable(files)))}
           first == CHOOSE i \in kept : \A j \in kept : i <= j
<1>1. RecordOf(kept, first)
  <2>1. kept \subseteq Nat
    <3>1. old \in Seq(0 .. MaxEvents) BY DEF AuditTypeOK
    <3> QED BY <3>1
  <2>2. kept # {} => \E i \in kept : \A j \in kept : i <= j
    <3> HIDE DEF kept
    <3> QED BY <2>1, Least
  <2>3. kept # {} => first \in kept /\ \A j \in kept : first <= j
    <3> HIDE DEF kept
    <3> QED BY <2>2
  <2> QED BY <2>3 DEF RecordOf
<1>2. \/ /\ kept = {} \/ first = 1
         /\ Go(p, "trim") /\ old' = <<>> /\ edge' = edge /\ leaped' = leaped
      \/ /\ kept # {} /\ first # 1
         /\ Go(p, "mark") /\ edge' = Boundary(old[first - 1], old[first])
         /\ leaped' = (leaped \/ first > 2) /\ old' = old
  BY DEF Record
<1> HIDE DEF kept, first
<1> QED BY <1>1, <1>2

\* On a log that nobody interrupted: the first event left is behind those lost.
LEMMA FirstLeft ==
  ASSUME AuditIInv, Place = "record", wounds = 0, NEW kept, NEW first, RecordOf(kept, first)
  PROVE  /\ Lost \in Nat /\ Len(old) = Lost + Len(Log)
         /\ kept = {} => Log = <<>> /\ Lost = 0
         /\ kept # {} => Log # <<>> /\ first = Lost + 1
<1>1. AuditTypeOK /\ Shape /\ Ends /\ Chain
  BY DEF AuditIInv
<1>2. holder \in Procs /\ holder # "free" /\ surface = "remote"
  BY <1>1, ConstantsAreNumbers DEF Place, AuditTypeOK, Shape
<1>3. Log \in Seq(Rows) /\ Readable(files) = Log
  BY <1>1, <1>2, LogType, LogIsRead
<1>4. /\ Lost >= 0 /\ \A i \in 1 .. Len(Log) : Log[i].id = old[Lost + i]
      /\ \A i, j \in 1 .. Len(old) : i < j => old[i] < old[j]
      /\ Lost > 0 => Log # <<>>
  BY <1>1 DEF Chain
<1>5. old \in Seq(0 .. MaxEvents) /\ Lost \in Nat /\ Len(old) = Lost + Len(Log) /\ Len(Log) \in Nat
  BY <1>1, <1>3, <1>4 DEF Lost, AuditTypeOK
<1>6. ToSet(Ids(Readable(files))) = {Log[i].id : i \in 1 .. Len(Log)}
  <2>1. Ids(Log) = [i \in 1 .. Len(Log) |-> Log[i].id] BY DEF Ids
  <2>2. Len(Ids(Log)) = Len(Log) BY <2>1, <1>5
  <2> QED BY <1>3, <2>1, <2>2 DEF ToSet
<1>7. ASSUME NEW i \in 1 .. Len(old) PROVE i \in kept <=> i > Lost
  <2>1. CASE i > Lost
    <3>1. PICK k \in 1 .. Len(Log) : Lost + k = i BY <2>1, <1>5
    <3>2. old[i] = Log[k].id BY <3>1, <1>4
    <3> QED BY <2>1, <3>2, <1>6 DEF RecordOf
  <2>2. CASE ~(i > Lost)
    <3>1. ASSUME NEW k \in 1 .. Len(Log) PROVE old[i] # Log[k].id
      <4>1. PICK j \in 1 .. Len(old) : j = Lost + k BY <1>5
      <4>2. i < j BY <4>1, <2>2, <1>5
      <4>3. old[i] < old[j] /\ Log[k].id = old[j] BY <4>1, <4>2, <1>4
      <4>4. old[i] \in Nat /\ old[j] \in Nat
        <5>1. \A U : \A q \in Seq(U) : \A l \in 1 .. Len(q) : q[l] \in U OBVIOUS
        <5>2. \A v \in 0 .. MaxEvents : v \in Nat OBVIOUS
        <5>3. \A l \in 1 .. Len(old) : old[l] \in 0 .. MaxEvents BY ONLY <5>1, <1>5, Zenon
        <5> QED BY <5>2, <5>3
      <4> QED BY <4>3, <4>4
    <3> QED BY <2>2, <3>1, <1>6 DEF RecordOf
  <2> QED BY <2>1, <2>2
<1>8. kept \subseteq 1 .. Len(old) BY DEF RecordOf
<1>9. CASE Log = <<>>
  <2>1. Lost = 0 /\ Len(old) = 0 BY <1>9, <1>4, <1>5
  <2>2. kept \subseteq 1 .. 0 BY <2>1, <1>8
  <2>3. kept = {} BY <2>2
  <2> QED BY <2>1, <2>3, <1>5, <1>9
<1>10. CASE Log # <<>>
  <2>1. Lost + 1 \in 1 .. Len(old) /\ Lost + 1 > Lost BY <1>10, <1>3, <1>5
  <2>2. Lost + 1 \in kept BY <2>1, <1>7
  <2>3. first \in kept /\ first <= Lost + 1 BY <2>2 DEF RecordOf
  <2>4. first > Lost /\ first \in Nat BY <2>3, <1>7, <1>8, <1>5
  <2> QED BY <2>2, <2>3, <2>4, <1>5, <1>10
<1> QED BY <1>9, <1>10

LEMMA RecordKeeps ==
  ASSUME AuditIInv, NEW p \in Procs, Record(p)
  PROVE  AuditIInv'
<1>1. AuditTypeOK /\ Shape /\ Ends /\ Order /\ Chain /\ Fit
  BY DEF AuditIInv
<1>2. /\ pc[p] = "record"
      /\ UNCHANGED <<surface, limit, files, marks, marked, holder, event, reached, wrote, armed,
                     upcoming, acked, raised, wounds>>
  BY DEF Record, disk
<1>3. holder = p /\ Place = "record" /\ p # "free"
  BY <1>1, <1>2, Here, ConstantsAreNumbers
<1>4. /\ surface = "remote" /\ armed = "no" /\ ~wrote /\ edge = NoEdge /\ limit # 0
      /\ Log = Lines(files) /\ Log \in Seq(Rows)
  BY <1>1, <1>3, LogType DEF Shape, AuditTypeOK, Log
<1>5. PICK kept, first :
           /\ RecordOf(kept, first)
           /\ \/ /\ kept = {} \/ first = 1
                 /\ Go(p, "trim") /\ old' = <<>> /\ edge' = edge /\ leaped' = leaped
              \/ /\ kept # {} /\ first # 1
                 /\ Go(p, "mark") /\ edge' = Boundary(old[first - 1], old[first])
                 /\ leaped' = (leaped \/ first > 2) /\ old' = old
  BY <1>1, RecordCases
<1>6. /\ pc' \in [Procs -> Labels] /\ holder' \in Procs \cup {"free"} /\ Place' \in {"trim", "mark"}
      /\ \A q \in Procs : pc'[q] = "idle" <=> holder' # q
      /\ Go(p, "trim") => Place' = "trim"
      /\ Go(p, "mark") => Place' = "mark"
  <2>1. "trim" \in Labels \ {"idle"} /\ "mark" \in Labels \ {"idle"} BY DEF Labels
  <2> QED BY <1>1, <1>2, <1>3, <1>5, <2>1, HolderStays
<1>7. Log' = Log
  BY <1>2, <1>3, <1>6, LogStays
<1>8. Pending' => Pending
  BY <1>2, <1>6 DEF Pending
<1>9. old' \in Seq(0 .. MaxEvents) /\ edge' \in [pruned : 0..MaxEvents, first : 0..MaxEvents]
      /\ leaped' \in BOOLEAN
  <2>1. old \in Seq(0 .. MaxEvents) /\ edge \in [pruned : 0..MaxEvents, first : 0..MaxEvents]
        /\ leaped \in BOOLEAN
    BY <1>1 DEF AuditTypeOK
  <2>2. <<>> \in Seq(0 .. MaxEvents) OBVIOUS
  <2>3. kept # {} /\ first # 1 => old[first - 1] \in 0 .. MaxEvents /\ old[first] \in 0 .. MaxEvents
    <3>1. kept # {} => first \in 1 .. Len(old) BY <1>5 DEF RecordOf
    <3>2. kept # {} /\ first # 1 => first - 1 \in 1 .. Len(old) BY <3>1, <2>1
    <3> QED BY <3>1, <3>2, <2>1, ElementOfSeq, Zenon
  <2>4. kept # {} /\ first # 1 =>
          Boundary(old[first - 1], old[first]) \in [pruned : 0..MaxEvents, first : 0..MaxEvents]
    BY <2>3 DEF Boundary
  <2>5. leaped' \in BOOLEAN
    BY <1>5, <2>1
  <2> QED BY <1>5, <2>1, <2>2, <2>4, <2>5, Zenon
<1>10. AuditTypeOK'
  BY <1>1, <1>2, <1>6, <1>9 DEF AuditTypeOK
<1>11. Shape'
  BY <1>1, <1>2, <1>3, <1>4, <1>5, <1>6 DEF Shape, PlainPlaces
<1>12. Ends'
  BY <1>1, <1>2, <1>4, <1>6 DEF Ends
<1>13. Order'
  <2>1. Before(files[0], upcoming) => Before(files'[0], upcoming') BY <1>2
  <2> QED BY <1>1, <1>2, <1>8, <2>1 DEF Order, InOrder
<1>14. Chain'
  <2>1. SUFFICES ASSUME wounds = 0 PROVE Chain'
    BY <1>2 DEF Chain
  <2>2. Whole(Log, upcoming)'
    <3>1. upcoming \in Nat BY <1>1, ConstantsAreNumbers DEF AuditTypeOK
    <3>2. Whole(Log, upcoming) BY <1>1, <2>1 DEF Chain
    <3> QED BY <3>1, <3>2, <1>2, <1>4, <1>7, StaysWhole
  <2>3. Pending' => /\ event'[holder'].prev = IdOfLast(Log)'
                    /\ \A i \in 1 .. Len(Log') : Log'[i].id < event'[holder'].id
    BY <1>1, <1>2, <1>7, <1>8, <2>1 DEF Chain, IdOfLast
  <2>4. /\ Lost \in Nat /\ Len(old) = Lost + Len(Log)
        /\ kept = {} => Log = <<>> /\ Lost = 0
        /\ kept # {} => Log # <<>> /\ first = Lost + 1
    BY <2>1, <1>3, <1>5, FirstLeft
  <2>5. ASSUME kept # {}, first # 1, edge' = Boundary(old[first - 1], old[first])
        PROVE  edge' # NoEdge /\ Log # <<>> /\ Log[1].id = edge'.first /\ Log[1].prev = edge'.pruned
               /\ edge'.pruned >= 1
    <3>1. Log # <<>> /\ first = Lost + 1 /\ Lost > 0 /\ first - 1 = Lost BY <2>4, <2>5
    <3>2. 1 \in 1 .. Len(Log) BY <3>1, <1>4
    <3>3. Log[1].id = old[Lost + 1] /\ Log[1].prev = old[Lost] BY <3>1, <3>2, <1>1, <1>3, <2>1 DEF Chain
    <3>4. Lost \in 1 .. Len(old) BY <3>1, <2>4, <1>4
    <3>5. old[Lost] >= 1 BY <3>4, <1>1, <1>3, <2>1 DEF Chain
    <3>6. edge'.pruned = old[Lost] /\ edge'.first = old[Lost + 1] BY <3>1, <2>5 DEF Boundary
    <3>7. NoEdge.pruned = 0 BY DEF NoEdge, Boundary
    <3>8. edge' # NoEdge BY <3>5, <3>6, <3>7
    <3> QED BY <3>1, <3>3, <3>5, <3>6, <3>8
  <2>6. Place' = "mark" => edge' # NoEdge
    BY <2>5, <1>5, <1>6, Zenon DEF Go
  <2>7. edge' # NoEdge => Log # <<>> /\ Log[1].id = edge'.first /\ Log[1].prev = edge'.pruned
               /\ edge'.pruned >= 1
    BY <2>5, <1>4, <1>5
  <2> QED BY <1>6, <1>7, <2>2, <2>3, <2>6, <2>7 DEF Chain
<1>15. Fit'
  <2>0. ~leaped' => ~leaped
    BY <1>5, Zenon
  <2>1. SUFFICES ASSUME wounds = 0, ~leaped, ~leaped' PROVE Fit'
    BY <1>2, <2>0, Zenon DEF Fit
  <2>2. /\ ~raised /\ Linear /\ (Lost = 0 => Begins(Log, marks))
        /\ marks # <<>> => old # <<>> /\ old[1] = marks[Len(marks)].first
        /\ ~(marked /\ marks = <<>>)
    BY <2>1, <1>1, <1>3, <1>4 DEF Fit
  <2>3. Linear' /\ (Begins(Log, marks) => Begins(Log, marks)')
    BY <2>2, <1>2, <1>7, StaysBegun, StaysLinear
  <2>4. /\ Lost \in Nat /\ Len(old) = Lost + Len(Log)
        /\ kept = {} => Log = <<>> /\ Lost = 0
        /\ kept # {} => Log # <<>> /\ first = Lost + 1
    BY <2>1, <1>3, <1>5, FirstLeft
  <2>5. edge' = NoEdge => Lost = 0
    <3>1. CASE kept = {} \/ first = 1 BY <3>1, <2>4
    <3>2. CASE kept # {} /\ first # 1
      <4>1. edge' = Boundary(old[first - 1], old[first]) BY <3>2, <1>5
      <4>2. edge'.pruned = old[Lost] /\ Lost \in 1 .. Len(old) BY <3>2, <4>1, <2>4, <1>4 DEF Boundary
      <4>3. old[Lost] >= 1 BY <4>2, <1>1, <1>3, <2>1 DEF Chain
      <4>4. NoEdge.pruned = 0 BY DEF NoEdge, Boundary
      <4> QED BY <4>2, <4>3, <4>4
    <3> QED BY <3>1, <3>2
  <2>6. edge' # NoEdge => (marks = <<>> \/ marks[Len(marks)].first = edge'.pruned)
    <3>1. SUFFICES ASSUME edge' # NoEdge, marks # <<>> PROVE marks[Len(marks)].first = edge'.pruned
      OBVIOUS
    <3>2. kept # {} /\ first # 1 /\ edge' = Boundary(old[first - 1], old[first]) /\ ~(first > 2)
      BY <3>1, <1>4, <1>5, <2>1
    <3>3. first - 1 = 1 BY <3>2, <2>4
    <3> QED BY <3>1, <3>2, <3>3, <2>2 DEF Boundary
  <2> QED BY <1>2, <1>4, <1>6, <2>2, <2>3, <2>5, <2>6 DEF Fit
<1> QED BY <1>10, <1>11, <1>12, <1>13, <1>14, <1>15 DEF AuditIInv

\* There are lines when a file has some.
LEMMA LinesHold ==
  ASSUME NEW f \in Generations, NEW a \in 0 .. Retain, f[a] # <<>>
  PROVE  Lines(f) # <<>>
<1>1. Retain \in Nat /\ Retain >= 1 BY ConstantsAreNumbers
<1>2. PICK k : LinesSteps(f, k) /\ Lines(f) = k[Retain]
  BY LinesHasSteps
<1>3. PICK q \in 0 .. Retain : Retain - q = a
  <2>1. Retain - a \in 0 .. Retain /\ Retain - (Retain - a) = a BY <1>1
  <2> QED BY <2>1
<1>4. \A i \in 0 .. Retain : k[i] \in Seq(Rows) /\ f[i] \in Seq(Rows)
  BY <1>2 DEF LinesSteps, Generations
<1>5. \A r, s \in Seq(Rows) : r # <<>> \/ s # <<>> => r \o s # <<>>
  <2>1. ASSUME NEW r \in Seq(Rows), NEW s \in Seq(Rows), r # <<>> \/ s # <<>> PROVE r \o s # <<>>
    <3>1. Len(r \o s) = Len(r) + Len(s) /\ Len(r) \in Nat /\ Len(s) \in Nat OBVIOUS
    <3>2. Len(r) # 0 \/ Len(s) # 0 BY <2>1
    <3> QED BY <3>1, <3>2
  <2> QED BY <2>1
<1> DEFINE T == {n \in Nat : q + n <= Retain => k[q + n] # <<>>}
<1>6. 0 \in T
  <2>1. CASE q = 0
    <3>1. k[0] = f[Retain] /\ Retain = a BY <2>1, <1>1, <1>2, <1>3 DEF LinesSteps
    <3> QED BY <2>1, <3>1
  <2>2. CASE q # 0
    <3>1. q \in 1 .. Retain /\ q - 1 \in 0 .. Retain BY <2>2, <1>1
    <3>2. k[q] = k[q - 1] \o f[a] BY <3>1, <1>2, <1>3 DEF LinesSteps
    <3>3. k[q] # <<>> BY <3>1, <3>2, <1>4, <1>5
    <3> QED BY <3>3
  <2> QED BY <2>1, <2>2
<1>7. ASSUME NEW n \in Nat, n \in T, q + (n + 1) <= Retain PROVE k[q + (n + 1)] # <<>>
  <2>1. PICK i \in 1 .. Retain : i = q + (n + 1) BY <1>1, <1>7
  <2>2. i - 1 = q + n /\ i - 1 \in 0 .. Retain /\ Retain - i \in 0 .. Retain BY <1>1, <2>1
  <2>3. k[i] = k[i - 1] \o f[Retain - i] BY <1>2 DEF LinesSteps
  <2>4. k[q + n] # <<>> BY <1>7, <2>2
  <2> QED BY <2>1, <2>2, <2>3, <2>4, <1>4, <1>5
<1>8. Nat \subseteq T
  <2>1. \A n \in Nat : n \in T => n + 1 \in T BY <1>7
  <2> HIDE DEF T
  <2> QED BY <1>6, <2>1, Induction
<1>9. a \in T /\ q + a = Retain
  <2>1. a \in Nat /\ q + a = Retain BY <1>1, <1>3
  <2> HIDE DEF T
  <2> QED BY <2>1, <1>8
<1> QED BY <1>1, <1>2, <1>9

\* What comes behind others is their newest.
LEMMA Behinds ==
  ASSUME NEW x \in Seq(Rows), NEW y \in Seq(Rows)
  PROVE  SubSeq(x \o y, Len(x) + 1, Len(x \o y)) = y /\ Len(x \o y) = Len(x) + Len(y)
<1>1. Len(x \o y) = Len(x) + Len(y) /\ Len(x) \in Nat /\ Len(y) \in Nat
      /\ \A i \in 1 .. Len(y) : (x \o y)[Len(x) + i] = y[i]
      /\ x \o y \in Seq(Rows)
  OBVIOUS
<1>2. PICK z : z = x \o y OBVIOUS
<1>3. PICK n \in Nat : n = Len(x) BY <1>1
<1>4. /\ SubSeq(z, n + 1, Len(z)) \in Seq(Rows)
      /\ Len(SubSeq(z, n + 1, Len(z))) = Len(y)
      /\ \A i \in 1 .. Len(y) : SubSeq(z, n + 1, Len(z))[i] = y[i]
  <2>1. z \in Seq(Rows) /\ Len(z) = n + Len(y) BY <1>1, <1>2, <1>3
  <2>2. \A i \in 1 .. Len(y) : z[n + i] = y[i] BY <1>1, <1>2, <1>3
  <2>3. ASSUME NEW i \in 1 .. Len(y) PROVE SubSeq(z, n + 1, Len(z))[i] = z[n + i]
    BY <2>1, <1>1
  <2>4. SubSeq(z, n + 1, Len(z)) \in Seq(Rows)
    <3>1. \A i \in n + 1 .. Len(z) : i \in 1 .. Len(z) BY <2>1
    <3> QED BY <2>1, <3>1
  <2>5. Len(SubSeq(z, n + 1, Len(z))) = Len(y)
    <3>1. n + 1 <= Len(z) + 1 /\ Len(z) + 1 - (n + 1) = Len(y) /\ Len(z) \in Nat BY <2>1, <1>1
    <3> QED BY <2>1, <3>1
  <2> QED BY <2>2, <2>3, <2>4, <2>5
<1>5. SubSeq(z, n + 1, Len(z)) = y
  <2>1. PICK w : w = SubSeq(z, n + 1, Len(z)) OBVIOUS
  <2>2. w \in Seq(Rows) /\ Len(w) = Len(y) /\ \A i \in 1 .. Len(w) : w[i] = y[i]
    BY <1>4, <2>1
  <2>3. w = y
    BY <2>2, SeqEqual
  <2> QED BY <2>1, <2>3
<1> QED BY <1>1, <1>2, <1>3, <1>5

\* A generation that moves up replaces the oldest, and the others are read as before.
LEMMA ShiftLog ==
  ASSUME AuditIInv, NEW p \in Procs, Shift(p), Place = "shift", Place' \in {"shift", "record"}
  PROVE  /\ files' \in Generations
         /\ \A i \in 0 .. Retain : files'[i] \in {files[i], files[reached - 1]} \/ files'[i] = <<>>
         /\ files'[reached - 1] = <<>>
         /\ \E n \in 0 .. Len(Log) :
              /\ n > 0 => reached = Retain
              /\ n = 0 => Log' = Log
              /\ Log' = SubSeq(Log, n + 1, Len(Log))
              /\ n = Len(Log) => n = 0
<1>1. AuditTypeOK /\ Shape /\ Ends
  BY DEF AuditIInv
<1>2. reached \in 1 .. Retain /\ (reached < Retain => files[reached] = <<>>)
      /\ reached \in 0 .. Retain /\ reached - 1 \in 0 .. Retain
  BY <1>1, ConstantsAreNumbers DEF Shape
<1>3. files \in Generations /\ Log \in Seq(Rows) /\ Log = Lines(files) /\ Log' = Lines(files')
  BY <1>1, LogType DEF Log
<1>4. CASE files[reached - 1] = <<>>
  <2>1. files' = files BY <1>4 DEF Shift
  <2>2. Log' = SubSeq(Log, 0 + 1, Len(Log)) /\ Log' = Log
    BY <1>3, <2>1
  <2>3. 0 \in 0 .. Len(Log) BY <1>3
  <2> QED BY <1>3, <1>4, <2>1, <2>2, <2>3
<1>5. CASE files[reached - 1] # <<>>
  <2>1. files' = [files EXCEPT ![reached] = files[reached - 1], ![reached - 1] = <<>>]
    BY <1>5 DEF Shift
  <2>2. files[reached] = <<>> \/ reached = Retain
    BY <1>2, ConstantsAreNumbers
  <2>3. files' \in Generations /\ Lines(files) = files[reached] \o Lines(files')
    BY <1>2, <1>3, <2>1, <2>2, LinesShift
  <2>4. /\ files'[reached - 1] = <<>> /\ files'[reached] = files[reached - 1]
        /\ \A i \in 0 .. Retain : i # reached /\ i # reached - 1 => files'[i] = files[i]
    BY <1>2, <1>3, <2>1 DEF Generations
  <2>5. Log' # <<>> /\ Log' \in Seq(Rows)
    BY <1>2, <1>3, <1>5, <2>3, <2>4, LinesHold, LinesType
  <2>6. files[reached] \in Seq(Rows) BY <1>2, <1>3 DEF Generations
  <2>7. /\ Log' = SubSeq(Log, Len(files[reached]) + 1, Len(Log))
        /\ Len(Log) = Len(files[reached]) + Len(Log')
    <3>1. PICK x \in Seq(Rows) : x = files[reached] BY <2>6
    <3>2. PICK y \in Seq(Rows) : y = Log' BY <2>5
    <3>3. Log = x \o y BY <1>3, <2>3, <3>1, <3>2
    <3>4. SubSeq(x \o y, Len(x) + 1, Len(x \o y)) = y /\ Len(x \o y) = Len(x) + Len(y)
      BY Behinds
    <3> QED BY <3>1, <3>2, <3>3, <3>4
  <2>8. PICK n \in 0 .. Len(Log) : n = Len(files[reached])
    <3>1. PICK a \in Nat : a = Len(files[reached]) BY <2>6
    <3>2. PICK b \in Nat : b = Len(Log') BY <2>5
    <3>3. Len(Log) = a + b BY <2>7, <3>1, <3>2
    <3> QED BY <3>1, <3>3
  <2>9. n > 0 => reached = Retain BY <2>2, <2>6, <2>8
  <2>10. n # Len(Log)
    <3>1. PICK b \in Nat : b = Len(Log') /\ b # 0 BY <2>5
    <3>2. Len(Log) = n + b BY <2>7, <2>8, <3>1
    <3> QED BY <3>1, <3>2
  <2>11. n = 0 => Log' = Log BY <1>3, <2>7, <2>8
  <2>12. \A i \in 0 .. Retain : files'[i] \in {files[i], files[reached - 1]} \/ files'[i] = <<>>
    BY <2>4, <1>2
  <2> QED BY <2>3, <2>4, <2>7, <2>8, <2>9, <2>10, <2>11, <2>12
<1> QED BY <1>4, <1>5

LEMMA ShiftKeeps ==
  ASSUME AuditIInv, NEW p \in Procs, Shift(p)
  PROVE  AuditIInv'
<1>1. AuditTypeOK /\ Shape /\ Ends /\ Order /\ Chain /\ Fit
  BY DEF AuditIInv
<1>2. /\ pc[p] = "shift"
      /\ UNCHANGED <<surface, limit, marks, marked, holder, event, old, edge, wrote, armed,
                     upcoming, acked, raised, wounds, leaped>>
  BY DEF Shift, past
<1>3. holder = p /\ Place = "shift" /\ p # "free"
  BY <1>1, <1>2, Here, ConstantsAreNumbers
<1>4. /\ surface = "remote" /\ armed = "no" /\ ~wrote /\ edge = NoEdge /\ limit # 0
      /\ Log = Lines(files) /\ Log \in Seq(Rows) /\ upcoming \in Nat
      /\ reached \in 1 .. Retain
  BY <1>1, <1>3, LogType, ConstantsAreNumbers DEF Shape, AuditTypeOK, Log
<1>5. /\ pc' \in [Procs -> Labels] /\ holder' \in Procs \cup {"free"}
      /\ \A q \in Procs : pc'[q] = "idle" <=> holder' # q
      /\ \/ reached = 1 /\ Place' = "record" /\ reached' = 0
         \/ reached # 1 /\ Place' = "shift" /\ reached' = reached - 1
  <2>1. CASE reached = 1
    <3>1. Go(p, "record") /\ reached' = 0 BY <2>1 DEF Shift
    <3>2. "record" \in Labels \ {"idle"} BY DEF Labels
    <3> QED BY <2>1, <3>1, <3>2, <1>1, <1>2, <1>3, HolderStays
  <2>2. CASE reached # 1
    <3>1. pc' = pc /\ reached' = reached - 1 BY <2>2 DEF Shift
    <3> QED BY <2>2, <3>1, <1>1, <1>2, <1>3, Wait
  <2> QED BY <2>1, <2>2
<1>6. /\ files' \in Generations
      /\ \A i \in 0 .. Retain : files'[i] \in {files[i], files[reached - 1]} \/ files'[i] = <<>>
      /\ files'[reached - 1] = <<>>
  BY <1>3, <1>5, ShiftLog
<1>7. PICK n \in 0 .. Len(Log) :
              /\ n > 0 => reached = Retain
              /\ n = 0 => Log' = Log
              /\ Log' = SubSeq(Log, n + 1, Len(Log))
              /\ n = Len(Log) => n = 0
  BY <1>3, <1>5, ShiftLog
<1>8. Pending' => Pending
  BY <1>2, <1>5 DEF Pending
<1>9. reached - 1 \in 0 .. Retain /\ reached' \in 0 .. Retain
  BY <1>4, <1>5, ConstantsAreNumbers
<1>10. AuditTypeOK'
  BY <1>1, <1>2, <1>5, <1>6, <1>9 DEF AuditTypeOK, Generations
<1>11. Shape'
  <2>1. Place' = "shift" => reached' \in 1 .. Retain /\ files'[reached'] = <<>>
    BY <1>4, <1>5, <1>6, ConstantsAreNumbers
  <2> QED BY <1>1, <1>2, <1>3, <1>4, <1>5, <2>1 DEF Shape, PlainPlaces
<1>12. Ends'
  <2>1. \A i \in 0 .. Retain : Ended(files'[i])
    <3>1. ASSUME NEW e, e = <<>> PROVE Ended(e) BY <3>1 DEF Ended
    <3>2. Ended(files[reached - 1]) BY <1>1, <1>9 DEF Ends
    <3>3. \A i \in 0 .. Retain : Ended(files[i]) BY <1>1 DEF Ends
    <3> QED BY <1>6, <3>1, <3>2, <3>3
  <2> QED BY <1>2, <1>4, <1>5, <2>1 DEF Ends
<1>13. Order'
  <2>2. \A i \in 0 .. Retain : \A j \in 1 .. Len(files'[i]) : files'[i][j].kind # "legacy"
    <3>1. SUFFICES ASSUME NEW i \in 0 .. Retain PROVE \A j \in 1 .. Len(files'[i]) : files'[i][j].kind # "legacy"
      OBVIOUS
    <3>2. CASE files'[i] = <<>>
      BY <3>2
    <3>3. CASE files'[i] = files[i]
      BY <3>3, <1>1, <1>4 DEF Order
    <3>4. CASE files'[i] = files[reached - 1]
      BY <3>4, <1>1, <1>4, <1>9 DEF Order
    <3> QED BY <1>6, <3>2, <3>3, <3>4
  <2> QED BY <1>2, <1>4, <2>2 DEF Order
<1>14. Log' \in Seq(Rows) /\ Len(Log') = Len(Log) - n /\ \A i \in 1 .. Len(Log) - n : Log'[i] = Log[n + i]
  BY <1>4, <1>7
<1>15. Chain'
  <2>1. SUFFICES ASSUME wounds = 0 PROVE Chain'
    BY <1>2 DEF Chain
  <2>2. Whole(Log, upcoming)
    BY <1>1, <2>1 DEF Chain
  <2>3. /\ Whole(Log', upcoming)
        /\ n < Len(Log) => Log' # <<>> /\ IdOfLast(Log') = IdOfLast(Log)
    BY <2>2, <1>4, <1>7, NewestIsWhole
  <2>4. Whole(Log, upcoming)'
    BY <2>3, <1>2 DEF Whole, Kinds
  <2>5. IdOfLast(Log)' = IdOfLast(Log)
    <3>1. n = Len(Log) \/ n < Len(Log) BY <1>4
    <3>2. n < Len(Log) => IdOfLast(Log') = IdOfLast(Log) BY <2>3
    <3>3. n = Len(Log) => Log' = Log BY <1>7
    <3> QED BY <3>1, <3>2, <3>3 DEF IdOfLast
  <2>6. Pending' => /\ event'[holder'].prev = IdOfLast(Log)'
                    /\ \A i \in 1 .. Len(Log') : Log'[i].id < event'[holder'].id
    <3>1. SUFFICES ASSUME Pending' PROVE /\ event'[holder'].prev = IdOfLast(Log)'
                    /\ \A i \in 1 .. Len(Log') : Log'[i].id < event'[holder'].id
      OBVIOUS
    <3>2. /\ event[holder].prev = IdOfLast(Log)
          /\ \A i \in 1 .. Len(Log) : Log[i].id < event[holder].id
      BY <1>1, <1>8, <2>1, <3>1 DEF Chain
    <3>3. \A i \in 1 .. Len(Log') : n + i \in 1 .. Len(Log) /\ Log'[i] = Log[n + i]
      BY <1>4, <1>14
    <3> QED BY <1>2, <2>5, <3>2, <3>3
  <2>7. /\ Lost >= 0 /\ \A i \in 1 .. Len(Log) : Log[i].id = old[Lost + i]
        /\ \A i, j \in 1 .. Len(old) : i < j => old[i] < old[j]
        /\ \A i \in 1 .. Len(old) : old[i] >= 1
        /\ Lost > 0 => Log # <<>> /\ Log[1].prev = old[Lost]
        /\ reached = Retain => Lost = 0
    BY <1>1, <1>3, <2>1 DEF Chain
  <2>8. Lost \in Nat /\ Lost' = Lost + n /\ n \in Nat
    <3>1. old \in Seq(0 .. MaxEvents) BY <1>1 DEF AuditTypeOK
    <3>2. Len(old) \in Nat /\ Len(Log) \in Nat BY <3>1, <1>4
    <3>3. Lost = Len(old) - Len(Log) /\ Lost' = Len(old) - Len(Log') BY <1>2 DEF Lost
    <3> QED BY <3>2, <3>3, <1>14, <2>7
  <2>9. \A i \in 1 .. Len(Log') : Log'[i].id = old[Lost' + i]
    <3>1. SUFFICES ASSUME NEW i \in 1 .. Len(Log') PROVE Log'[i].id = old[Lost' + i]
      OBVIOUS
    <3>2. n + i \in 1 .. Len(Log) /\ Log'[i] = Log[n + i] BY <1>4, <1>14
    <3>3. Log[n + i].id = old[Lost + (n + i)] BY <3>2, <2>7
    <3>4. Lost + (n + i) = Lost' + i BY <2>8
    <3> QED BY <3>2, <3>3, <3>4
  <2>10. Lost' > 0 => Log' # <<>> /\ Log'[1].prev = old[Lost']
    <3>1. CASE n = 0
      BY <3>1, <1>7, <2>7, <2>8
    <3>2. CASE n # 0
      <4>1. n \in 1 .. Len(Log) - 1 /\ Lost = 0 /\ Lost' = n /\ 1 \in 1 .. Len(Log) - n
        BY <3>2, <1>4, <1>7, <2>7, <2>8
      <4>2. Log'[1] = Log[n + 1] BY <4>1, <1>14
      <4>3. n + 1 \in 1 .. Len(Log) /\ n \in 1 .. Len(Log) BY <4>1, <1>4
      <4>4. Log[n + 1].kind = "event" BY <4>3, <2>2, <1>4 DEF Whole, Kinds
      <4>5. Log[n + 1].prev = Log[n].id BY <4>1, <4>4, <2>2 DEF Whole
      <4>6. Log[n].id = old[Lost + n] BY <4>3, <2>7
      <4>7. Lost + n = Lost' /\ Log' # <<>> BY <4>1, <1>14
      <4> QED BY <4>2, <4>5, <4>6, <4>7
    <3> QED BY <3>1, <3>2
  <2>11. Lost' >= 0 /\ ~(Place' = "shift" /\ reached' = Retain)
    BY <1>4, <1>5, <2>8, ConstantsAreNumbers
  <2> QED BY <1>2, <1>4, <1>5, <2>4, <2>6, <2>7, <2>9, <2>10, <2>11 DEF Chain
<1>16. Fit'
  <2>1. SUFFICES ASSUME wounds = 0, ~leaped PROVE Fit'
    BY <1>2 DEF Fit
  <2>2. /\ ~raised /\ Linear /\ (Lost = 0 => Begins(Log, marks))
        /\ marks # <<>> => old # <<>> /\ old[1] = marks[Len(marks)].first
        /\ ~(marked /\ marks = <<>>)
    BY <2>1, <1>1, <1>3, <1>4 DEF Fit
  <2>3. Linear' BY <2>2, <1>2, StaysLinear
  <2>4. Lost' = 0 => Begins(Log, marks)'
    <3>1. Lost >= 0 BY <2>1, <1>1, <1>3 DEF Chain
    <3>2. old \in Seq(0 .. MaxEvents) BY <1>1 DEF AuditTypeOK
    <3>3. Len(old) \in Nat /\ Len(Log) \in Nat BY <3>2, <1>4
    <3>4. Lost = Len(old) - Len(Log) /\ Lost' = Len(old) - Len(Log') BY <1>2 DEF Lost
    <3>5. Lost' = 0 => n = 0 /\ Lost = 0 BY <3>1, <3>3, <3>4, <1>14
    <3> QED BY <3>5, <1>2, <1>7, <2>2, StaysBegun
  <2> QED BY <1>2, <1>4, <1>5, <2>2, <2>3, <2>4 DEF Fit
<1> QED BY <1>10, <1>11, <1>12, <1>13, <1>15, <1>16 DEF AuditIInv

-----------------------------------------------------------------------------
(***************************************************************************)
(* An event is written behind the log.                                     *)
(***************************************************************************)
\* The rows of a file behind which a row was written.
LEMMA BehindRows ==
  ASSUME NEW s \in Seq(Rows), NEW r \in Rows
  PROVE  LET b == Behind(s, <<r>>)
         IN  /\ b \in Seq(Rows)
             /\ \A j \in 1 .. Len(b) :
                  \/ j \in 1 .. Len(s) /\ b[j] = s[j]
                  \/ j = Len(s) + 1 /\ b[j] = r
                  \/ b[j] \in {Junk, Torn}
             /\ Len(Events(b)) <= Len(Events(s)) + 1
<1> DEFINE b == Behind(s, <<r>>)
<1>1. CASE s # <<>> /\ Unended(s[Len(s)])
  <2>1. PICK x \in {Junk, Torn} : b = Append(SubSeq(s, 1, Len(s) - 1), x)
    BY <1>1, BehindOne
  <2>2. PICK u \in Seq(Rows) : /\ u = SubSeq(s, 1, Len(s) - 1) /\ Len(u) = Len(s) - 1
                               /\ \A j \in 1 .. Len(s) - 1 : u[j] = s[j]
    <3>1. Len(s) \in Nat /\ Len(s) # 0 BY <1>1
    <3>2. PICK u : u = SubSeq(s, 1, Len(s) - 1) OBVIOUS
    <3>3. PICK n \in Nat : n = Len(s) - 1 /\ Len(s) = n + 1 BY <3>1
    <3>4. SubSeq(s, 1, n) \in Seq(Rows) /\ Len(SubSeq(s, 1, n)) = n
      BY <3>3
    <3>5. \A j \in 1 .. n : SubSeq(s, 1, n)[j] = s[j]
      BY <3>3
    <3>6. u \in Seq(Rows) /\ Len(u) = Len(s) - 1 /\ \A j \in 1 .. Len(s) - 1 : u[j] = s[j]
      BY <3>2, <3>3, <3>4, <3>5
    <3> QED BY <3>2, <3>6
  <2>3. x \in Rows /\ ~IsEvent(x) BY RowFacts
  <2>4. PICK y \in Rows : y = s[Len(s)] BY <1>1
  <2>5. s = Append(u, y) BY <1>1, <2>2, <2>4
  <2>6. Len(Events(u)) <= Len(Events(s)) /\ Events(b) = Events(u) /\ Events(u) \in Seq(Rows)
        /\ Len(Events(s)) \in Nat
    <3>1. Events(u) \in Seq(Rows) /\ Events(Append(u, y)) \in {Events(u), Append(Events(u), y)}
      BY <2>4, EventsOfMore
    <3>2. Events(Append(u, x)) = Events(u) BY <2>3, EventsOfMore
    <3>3. Events(s) \in {Events(u), Append(Events(u), y)} BY <3>1, <2>5
    <3>4. PICK a \in Nat : a = Len(Events(u)) BY <3>1
    <3>5. Len(Append(Events(u), y)) = a + 1 BY <3>1, <3>4
    <3>6. Len(Events(s)) \in {a, a + 1} BY <3>3, <3>4, <3>5
    <3>7. Len(Events(s)) \in Nat /\ a <= Len(Events(s)) BY <3>6
    <3> QED BY <3>1, <3>2, <3>4, <3>7, <2>1, <2>2
  <2>7. b = Append(u, x) BY <2>1, <2>2
  <2> HIDE DEF b
  <2>8. b \in Seq(Rows) /\ \A j \in 1 .. Len(b) : j \in 1 .. Len(s) /\ (b[j] = s[j] \/ b[j] = x)
    BY <2>2, <2>3, <2>7, <1>1
  <2>9. Len(Events(u)) <= Len(Events(s)) + 1
    <3>1. Len(Events(u)) \in Nat BY <2>6
    <3> QED BY <3>1, <2>6
  <2>10. Len(Events(b)) <= Len(Events(s)) + 1 BY <2>6, <2>9
  <2>11. x \in {Junk, Torn} OBVIOUS
  <2> QED BY <2>8, <2>10, <2>11 DEF b
<1>2. CASE ~(s # <<>> /\ Unended(s[Len(s)]))
  <2>1. b = Append(s, r) BY <1>2, BehindOne
  <2>2. Events(s) \in Seq(Rows) /\ Events(b) \in {Events(s), Append(Events(s), r)}
    BY <2>1, EventsOfMore
  <2>3. Len(Append(Events(s), r)) = Len(Events(s)) + 1 /\ Len(Events(s)) \in Nat BY <2>2
  <2>4. Len(Events(b)) <= Len(Events(s)) + 1
    BY <2>2, <2>3
  <2> HIDE DEF b
  <2>5. b \in Seq(Rows) /\ \A j \in 1 .. Len(b) : (j \in 1 .. Len(s) /\ b[j] = s[j]) \/ (j = Len(s) + 1 /\ b[j] = r)
    BY <2>1
  <2> QED BY <2>4, <2>5 DEF b
<1> QED BY <1>1, <1>2

\* What is written behind a file that is in order leaves it in order.
LEMMA BehindInOrder ==
  ASSUME NEW s \in Seq(Rows), NEW r \in Rows, NEW n \in Nat, InOrder(s), Before(s, n),
         r.id < n, r.prev < r.id, \A j \in 1 .. Len(s) : IsEvent(s[j]) => s[j].id <= r.prev
  PROVE  InOrder(Behind(s, <<r>>)) /\ Before(Behind(s, <<r>>), n)
<1>1. PICK b \in Seq(Rows) :
        /\ b = Behind(s, <<r>>)
        /\ \A j \in 1 .. Len(b) :
                  \/ j \in 1 .. Len(s) /\ b[j] = s[j]
                  \/ j = Len(s) + 1 /\ b[j] = r
                  \/ b[j] \in {Junk, Torn}
  BY BehindRows
<1>2. \A j \in 1 .. Len(b) : IsEvent(b[j]) =>
                  \/ j \in 1 .. Len(s) /\ b[j] = s[j]
                  \/ j = Len(s) + 1 /\ b[j] = r
  BY <1>1, RowFacts
<1>3. Before(b, n)
  BY <1>2 DEF Before
<1>4. InOrder(b)
  <2>1. SUFFICES ASSUME NEW i \in 1 .. Len(b), NEW j \in 1 .. Len(b), i < j, IsEvent(b[i]), IsEvent(b[j])
                 PROVE  Follows(b[i], b[j])
    BY DEF InOrder
  <2>2. i \in 1 .. Len(s) /\ b[i] = s[i]
    <3>1. Len(b) \in Nat /\ Len(s) \in Nat BY <1>1
    <3>2. ~(i = Len(s) + 1 /\ j \in 1 .. Len(s)) /\ ~(i = Len(s) + 1 /\ j = Len(s) + 1) BY <2>1, <3>1
    <3> QED BY <3>2, <2>1, <1>2
  <2>3. CASE j \in 1 .. Len(s) /\ b[j] = s[j]
    BY <2>1, <2>2, <2>3 DEF InOrder
  <2>4. CASE b[j] = r
    BY <2>1, <2>2, <2>4 DEF Follows
  <2> QED BY <2>1, <2>3, <2>4, <1>2
<1> QED BY <1>1, <1>3, <1>4

\* The event is written behind the log.
LEMMA WriteLog ==
  ASSUME NEW f \in Generations, \A i \in 1 .. Len(Lines(f)) : ~Unended(Lines(f)[i]),
         NEW r \in Rows
  PROVE  Lines([f EXCEPT ![0] = Behind(f[0], <<r>>)]) = Append(Lines(f), r)
<1>1. PICK s \in Seq(Rows) : s = f[0]
  BY ConstantsAreNumbers DEF Generations
<1>2. Append(s, r) \in Seq(Rows) OBVIOUS
<1>3. PICK o \in Seq(Rows) : /\ Lines(f) = o \o s
                             /\ Lines([f EXCEPT ![0] = Append(s, r)]) = o \o Append(s, r)
  BY <1>1, <1>2, LinesSplit
<1>4. AllEnded(s)
  <2>1. SUFFICES ASSUME NEW j \in 1 .. Len(s) PROVE ~Unended(s[j])
    BY DEF AllEnded
  <2>2. Len(o \o s) = Len(o) + Len(s) /\ (o \o s)[Len(o) + j] = s[j] OBVIOUS
  <2>3. PICK k : k = Len(o) + j OBVIOUS
  <2>4. k \in 1 .. Len(o \o s) BY <2>2, <2>3
  <2>5. ~Unended((o \o s)[k]) BY <2>4, <1>3
  <2> QED BY <2>2, <2>3, <2>5
<1>5. Behind(s, <<r>>) = Append(s, r)
  BY <1>4, BehindType
<1>6. o \o Append(s, r) = Append(o \o s, r)
  OBVIOUS
<1> QED BY <1>1, <1>3, <1>5, <1>6

\* The event of the holder, where it has made one.
LEMMA MadeEvent ==
  ASSUME AuditTypeOK, NEW p \in Procs, event[p] # Junk
  PROVE  /\ event[p] \in Rows /\ event[p].kind = "event" /\ event[p].id \in 1 .. MaxEvents
         /\ event[p].prev \in 0 .. MaxEvents
         /\ IsEvent(event[p]) /\ ~Unended(event[p]) /\ event[p].kind # "legacy"
<1>1. event[p] \in [kind : {"event"}, id : 1..MaxEvents, prev : 0..MaxEvents]
  BY DEF AuditTypeOK
<1> QED BY <1>1, ConstantsAreNumbers DEF Rows, IsEvent, Unended

LEMMA WriteKeeps ==
  ASSUME AuditIInv, NEW p \in Procs, Write(p)
  PROVE  AuditIInv'
<1>1. AuditTypeOK /\ Shape /\ Ends /\ Order /\ Chain /\ Fit
  BY DEF AuditIInv
<1>2. /\ pc[p] = "write"
      /\ files' = [files EXCEPT ![0] = Behind(files[0], <<event[p]>>)]
      /\ wrote' = TRUE
      /\ Go(p, IF armed = "no" THEN "trim" ELSE "overwrite")
      /\ UNCHANGED <<surface, limit, marks, marked, holder, event, old, edge, reached, armed,
                     upcoming, acked, raised, wounds, leaped>>
  BY DEF Write, past
<1>3. holder = p /\ Place = "write" /\ p # "free"
  BY <1>1, <1>2, Here, ConstantsAreNumbers
<1>4. /\ surface = "remote" /\ armed # "wanted" /\ edge = NoEdge /\ old = <<>>
      /\ Log = Lines(files) /\ Log \in Seq(Rows) /\ upcoming \in Nat /\ event[p] # Junk
      /\ files \in Generations /\ files[0] \in Seq(Rows) /\ event[p].id < upcoming /\ Pending
  <2>1. /\ armed # "wanted" /\ edge = NoEdge /\ old = <<>> /\ event[p] # Junk
        /\ surface # "local" /\ event[p].id < upcoming
    BY <1>1, <1>3 DEF Shape
  <2>2. surface = "remote" /\ upcoming \in Nat
    BY <1>1, <2>1, ConstantsAreNumbers DEF AuditTypeOK
  <2>3. Log = Lines(files) /\ Pending
    BY <1>3 DEF Log, Pending
  <2>4. Log \in Seq(Rows) /\ files \in Generations /\ files[0] \in Seq(Rows)
    BY <1>1, LogType
  <2> QED BY <2>1, <2>2, <2>3, <2>4
<1>5. /\ pc' \in [Procs -> Labels] /\ holder' \in Procs \cup {"free"}
      /\ Place' = IF armed = "no" THEN "trim" ELSE "overwrite"
      /\ \A q \in Procs : pc'[q] = "idle" <=> holder' # q
  <2>1. (IF armed = "no" THEN "trim" ELSE "overwrite") \in Labels \ {"idle"} BY DEF Labels
  <2> QED BY <1>1, <1>2, <1>3, <2>1, HolderStays
<1>6. /\ event[p] \in Rows /\ event[p].kind = "event" /\ event[p].id \in 1 .. MaxEvents
      /\ IsEvent(event[p]) /\ ~Unended(event[p]) /\ event[p].kind # "legacy"
  BY <1>1, <1>4, MadeEvent
<1> DEFINE s == files[0]
           b == Behind(s, <<event[p]>>)
<1>7. /\ b \in Seq(Rows) /\ b # <<>> /\ Ended(b) /\ ~Unended(b[Len(b)])
      /\ Len(Events(b)) <= Len(Events(s)) + 1
      /\ \A j \in 1 .. Len(b) : b[j].kind = "legacy" => \E k \in 1 .. Len(s) : s[k].kind = "legacy"
  <2>1. Ended(s) BY <1>1, ConstantsAreNumbers DEF Ends
  <2>2. b \in Seq(Rows) /\ Len(b) >= 1 /\ Ended(b) /\ ~Unended(b[Len(b)])
    BY <1>4, <1>6, <2>1, BehindType
  <2>3. /\ Len(Events(b)) <= Len(Events(s)) + 1
        /\ \A j \in 1 .. Len(b) :
                  \/ j \in 1 .. Len(s) /\ b[j] = s[j]
                  \/ j = Len(s) + 1 /\ b[j] = event[p]
                  \/ b[j] \in {Junk, Torn}
    BY <1>4, <1>6, BehindRows
  <2>4. Junk.kind # "legacy" /\ Torn.kind # "legacy" BY DEF Junk, Torn, Event
  <2> HIDE DEF b, s
  <2> QED BY <2>2, <2>3, <2>4, <1>6
<1>8. files' \in Generations /\ files'[0] = b /\ \A i \in 1 .. Retain : files'[i] = files[i]
  <2> HIDE DEF b
  <2> QED BY <1>2, <1>4, <1>7, ConstantsAreNumbers DEF Generations, b
<1> HIDE DEF b
<1>9. ~Pending'
  BY <1>2, <1>5 DEF Pending
<1>10. AuditTypeOK'
  BY <1>1, <1>2, <1>5, <1>8 DEF AuditTypeOK, Generations
<1>11. Shape'
  <2>1. Flat => Flat' BY <1>8 DEF Flat
  <2> QED BY <1>1, <1>2, <1>3, <1>4, <1>5, <2>1 DEF Shape, PlainPlaces, ArmedPlaces, AuditTypeOK
<1>12. Ends'
  <2>1. \A i \in 0 .. Retain : Ended(files'[i])
    <3>1. \A i \in 0 .. Retain : i = 0 \/ i \in 1 .. Retain BY ConstantsAreNumbers
    <3> QED BY <1>1, <1>7, <1>8, <3>1 DEF Ends
  <2>2. armed # "no" => Len(Events(b)) <= Retention + 1
    <3>1. armed # "no" => Len(Events(s)) <= Retention BY <1>1, <1>3 DEF Ends
    <3>2. PICK m \in Nat : m = Len(Events(s)) BY <1>4, EventsType
    <3>3. PICK n \in Nat : n = Len(Events(b)) BY <1>7, EventsType
    <3> QED BY <1>7, <3>1, <3>2, <3>3, ConstantsAreNumbers
  <2> QED BY <1>2, <1>4, <1>5, <1>7, <1>8, <2>1, <2>2 DEF Ends
<1>13. Order'
  <2>1. \A i \in 0 .. Retain : \A j \in 1 .. Len(files'[i]) : files'[i][j].kind # "legacy"
    <3>1. SUFFICES ASSUME NEW i \in 0 .. Retain PROVE \A j \in 1 .. Len(files'[i]) : files'[i][j].kind # "legacy"
      OBVIOUS
    <3>2. \A k \in 0 .. Retain : \A j \in 1 .. Len(files[k]) : files[k][j].kind # "legacy"
      BY <1>1, <1>4 DEF Order
    <3>3. CASE i = 0
      <4>1. \A j \in 1 .. Len(s) : s[j].kind # "legacy" BY <3>2, <3>3
      <4> QED BY <4>1, <3>3, <1>7, <1>8
    <3>4. CASE i # 0
      <4>1. files'[i] = files[i] BY <3>4, <1>8, ConstantsAreNumbers
      <4> QED BY <4>1, <3>2
    <3> QED BY <3>3, <3>4
  <2>2. limit = 0 => InOrder(b) /\ Before(b, upcoming)
    <3>1. SUFFICES ASSUME limit = 0 PROVE InOrder(b) /\ Before(b, upcoming)
      OBVIOUS
    <3>2. /\ InOrder(s) /\ Before(s, upcoming) /\ event[p].prev < event[p].id
          /\ \A j \in 1 .. Len(s) : IsEvent(s[j]) => s[j].id <= event[p].prev
      BY <1>1, <1>3, <1>4, <3>1 DEF Order
    <3> QED BY <1>4, <1>6, <3>2, BehindInOrder DEF b
  <2>3. limit = 0 => InOrder(files'[0]) /\ Before(files'[0], upcoming') BY <1>2, <1>8, <2>2
  <2> QED BY <1>2, <1>9, <2>1, <2>3 DEF Order
<1>14. wounds = 0 => Whole(Log, upcoming) /\ Log' = Append(Log, event[p])
         /\ event[p].prev = IdOfLast(Log) /\ \A i \in 1 .. Len(Log) : Log[i].id < event[p].id
  <2>1. SUFFICES ASSUME wounds = 0 PROVE Whole(Log, upcoming) /\ Log' = Append(Log, event[p])
         /\ event[p].prev = IdOfLast(Log) /\ \A i \in 1 .. Len(Log) : Log[i].id < event[p].id
    OBVIOUS
  <2>2. Whole(Log, upcoming)
         /\ event[p].prev = IdOfLast(Log) /\ \A i \in 1 .. Len(Log) : Log[i].id < event[p].id
    BY <2>1, <1>1, <1>3, <1>4 DEF Chain
  <2>3. \A i \in 1 .. Len(Lines(files)) : ~Unended(Lines(files)[i])
    BY <2>2, <1>4 DEF Whole, Kinds, Unended
  <2>4. Lines(files') = Append(Lines(files), event[p])
    BY <2>3, <1>2, <1>4, <1>6, WriteLog
  <2>5. Log' = Lines(files') BY <1>5 DEF Log
  <2> QED BY <2>2, <2>4, <2>5, <1>4
<1>15. Chain'
  <2>1. SUFFICES ASSUME wounds = 0 PROVE Chain'
    BY <1>2 DEF Chain
  <2>2. Whole(Append(Log, event[p]), upcoming)
    BY <2>1, <1>4, <1>6, <1>14, MoreIsWhole, SMTT(20)
  <2>3. Whole(Log, upcoming)'
    BY <2>1, <2>2, <1>2, <1>14 DEF Whole, Kinds
  <2>4. Log' # <<>> BY <2>1, <1>4, <1>6, <1>14
  <2> QED BY <1>2, <1>4, <1>5, <1>9, <2>3, <2>4 DEF Chain
<1>16. Fit'
  <2>1. SUFFICES ASSUME wounds = 0, ~leaped PROVE Fit'
    BY <1>2 DEF Fit
  <2>2. /\ ~raised /\ Linear /\ Begins(Log, marks)
        /\ marked /\ marks = <<>> => armed = "reserved"
        /\ armed = "reserved" /\ marks = <<>> => Len(Log) >= Retention
    BY <2>1, <1>1, <1>3, <1>4 DEF Fit
  <2>3. Linear' BY <2>2, <1>2, StaysLinear
  <2>4. /\ Log' # <<>> /\ Len(Log') = Len(Log) + 1 /\ Len(Log) \in Nat
        /\ Log = <<>> => Log'[1] = event[p] /\ event[p].prev = 0
        /\ Log # <<>> => Log'[1] = Log[1]
    BY <2>1, <1>4, <1>6, <1>14 DEF IdOfLast
  <2>5. Begins(Log, marks)'
    BY <1>2, <2>2, <2>4 DEF Begins
  <2>6. armed = "reserved" /\ marks = <<>> => Len(Log') > Retention
    BY <2>2, <2>4, ConstantsAreNumbers
  <2> QED BY <1>2, <1>4, <1>5, <2>2, <2>3, <2>5, <2>6 DEF Fit
<1> QED BY <1>10, <1>11, <1>12, <1>13, <1>15, <1>16 DEF AuditIInv

-----------------------------------------------------------------------------
(***************************************************************************)
(* The retention is applied: what a file rewritten from the log holds.     *)
(***************************************************************************)
\* The events of some rows are events of others, in their order, perhaps repeated.
Within(a, s) ==
  \E m : /\ \A j \in 1 .. Len(a) : IsEvent(a[j]) => m[j] \in 1 .. Len(s) /\ a[j] = s[m[j]]
         /\ \A i, j \in 1 .. Len(a) : i < j /\ IsEvent(a[i]) /\ IsEvent(a[j]) => m[i] <= m[j]

LEMMA WithinInOrder ==
  ASSUME NEW a \in Seq(Rows), NEW s \in Seq(Rows), Within(a, s)
  PROVE  /\ InOrder(s) => InOrder(a)
         /\ \A n : Before(s, n) => Before(a, n)
<1>1. PICK m : /\ \A j \in 1 .. Len(a) : IsEvent(a[j]) => m[j] \in 1 .. Len(s) /\ a[j] = s[m[j]]
               /\ \A i, j \in 1 .. Len(a) : i < j /\ IsEvent(a[i]) /\ IsEvent(a[j]) => m[i] <= m[j]
  BY DEF Within
<1>2. ASSUME InOrder(s), NEW i \in 1 .. Len(a), NEW j \in 1 .. Len(a), i < j, IsEvent(a[i]), IsEvent(a[j])
      PROVE  Follows(a[i], a[j])
  <2>1. PICK x \in 1 .. Len(s), y \in 1 .. Len(s) : a[i] = s[x] /\ a[j] = s[y] /\ x <= y
    BY <1>1, <1>2
  <2>2. CASE x = y BY <2>1, <2>2 DEF Follows
  <2>3. CASE x # y
    <3>1. x < y BY <2>1, <2>3
    <3> QED BY <2>1, <3>1, <1>2 DEF InOrder
  <2> QED BY <2>2, <2>3
<1> QED BY <1>1, <1>2 DEF InOrder, Before

LEMMA JoinedWithin ==
  ASSUME NEW s \in Seq(Rows)
  PROVE  Within(Joined(s), s)
<1> DEFINE T == {r \in Seq(Rows) : Within(Joined(r), r)}
<1>1. <<>> \in T
  BY JoinedOfNone DEF Within
<1>2. ASSUME NEW r \in Seq(Rows), NEW x \in Rows, Within(Joined(r), r)
      PROVE  Within(Joined(Append(r, x)), Append(r, x))
  <2>1. PICK g \in Seq(Rows) : g = Joined(r) BY JoinedType
  <2>2. PICK m : /\ \A j \in 1 .. Len(g) : IsEvent(g[j]) => m[j] \in 1 .. Len(r) /\ g[j] = r[m[j]]
                 /\ \A i, j \in 1 .. Len(g) : i < j /\ IsEvent(g[i]) /\ IsEvent(g[j]) => m[i] <= m[j]
    BY <1>2, <2>1 DEF Within
  <2>3. PICK b \in Seq(Rows) :
          /\ b = Joined(Append(r, x))
          /\ \A j \in 1 .. Len(b) :
                  \/ j \in 1 .. Len(g) /\ b[j] = g[j]
                  \/ j = Len(g) + 1 /\ b[j] = x
                  \/ b[j] \in {Junk, Torn}
    BY <2>1, JoinedOfMore, BehindRows
  <2>4. \A j \in 1 .. Len(b) : IsEvent(b[j]) =>
                  \/ j \in 1 .. Len(g) /\ b[j] = g[j]
                  \/ j = Len(g) + 1 /\ b[j] = x
    BY <2>3, RowFacts
  <2>5. PICK t \in Seq(Rows) : /\ t = Append(r, x) /\ Len(t) = Len(r) + 1 /\ t[Len(r) + 1] = x
                               /\ \A j \in 1 .. Len(r) : t[j] = r[j]
    <3>1. /\ Append(r, x) \in Seq(Rows) /\ Len(Append(r, x)) = Len(r) + 1 /\ Append(r, x)[Len(r) + 1] = x
          /\ \A j \in 1 .. Len(r) : Append(r, x)[j] = r[j]
      OBVIOUS
    <3> QED BY <3>1
  <2>6. Len(g) \in Nat /\ Len(r) \in Nat /\ Len(b) \in Nat BY <2>1, <2>3
  <2>7. PICK h : h = [j \in 1 .. Len(b) |-> IF j <= Len(g) THEN m[j] ELSE Len(r) + 1]
    OBVIOUS
  <2>8. \A j \in 1 .. Len(b) : IsEvent(b[j]) => h[j] \in 1 .. Len(t) /\ b[j] = t[h[j]]
    <3>1. SUFFICES ASSUME NEW j \in 1 .. Len(b), IsEvent(b[j]) PROVE h[j] \in 1 .. Len(t) /\ b[j] = t[h[j]]
      OBVIOUS
    <3>2. CASE j \in 1 .. Len(g) /\ b[j] = g[j]
      <4>1. h[j] = m[j] BY <3>2, <2>6, <2>7
      <4>2. m[j] \in 1 .. Len(r) /\ g[j] = r[m[j]] BY <3>1, <3>2, <2>2
      <4> QED BY <4>1, <4>2, <3>2, <2>5, <2>6
    <3>3. CASE j = Len(g) + 1 /\ b[j] = x
      <4>1. h[j] = Len(r) + 1 BY <3>3, <2>6, <2>7
      <4> QED BY <4>1, <3>3, <2>5, <2>6
    <3> QED BY <3>1, <3>2, <3>3, <2>4
  <2>9. \A i, j \in 1 .. Len(b) : i < j /\ IsEvent(b[i]) /\ IsEvent(b[j]) => h[i] <= h[j]
    <3>1. SUFFICES ASSUME NEW i \in 1 .. Len(b), NEW j \in 1 .. Len(b), i < j, IsEvent(b[i]), IsEvent(b[j])
                   PROVE  h[i] <= h[j]
      OBVIOUS
    <3>2. i \in 1 .. Len(g) /\ b[i] = g[i]
      <4>1. ~(i = Len(g) + 1 /\ j \in 1 .. Len(g)) /\ ~(i = Len(g) + 1 /\ j = Len(g) + 1) BY <3>1, <2>6
      <4> QED BY <4>1, <3>1, <2>4
    <3>3. h[i] = m[i] /\ m[i] \in 1 .. Len(r)
      <4>1. h[i] = m[i] BY <3>2, <2>6, <2>7
      <4>2. m[i] \in 1 .. Len(r) BY <3>1, <3>2, <2>2
      <4> QED BY <4>1, <4>2
    <3>4. CASE j \in 1 .. Len(g) /\ b[j] = g[j]
      <4>1. h[j] = m[j] BY <3>4, <2>6, <2>7
      <4>2. m[i] <= m[j] BY <3>1, <3>2, <3>4, <2>2
      <4> QED BY <3>3, <4>1, <4>2
    <3>5. CASE j = Len(g) + 1 /\ b[j] = x
      <4>1. h[j] = Len(r) + 1 BY <3>5, <2>6, <2>7
      <4> QED BY <3>3, <4>1, <2>6
    <3> QED BY <3>1, <3>4, <3>5, <2>4
  <2>10. Within(b, t) BY <2>8, <2>9 DEF Within
  <2> QED BY <2>3, <2>5, <2>10
<1>3. Seq(Rows) \subseteq T
  <2>1. \A r \in Seq(Rows), x \in Rows : r \in T => Append(r, x) \in T
    <3>1. \A r \in Seq(Rows), x \in Rows : Append(r, x) \in Seq(Rows) OBVIOUS
    <3> QED BY <1>2, <3>1
  <2> HIDE DEF T
  <2> QED BY <1>1, <2>1, SeqInduction
<1> QED BY <1>3

LEMMA EventsWithin ==
  ASSUME NEW s \in Seq(Rows)
  PROVE  Within(Events(s), s)
<1>1. PICK m : EventsAt(s, m) BY EventsAreRows
<1>2. \A a \in 1 .. Len(Events(s)) : m[a] \in 1 .. Len(s) BY <1>1 DEF EventsAt
<1>3. \A a, b \in 1 .. Len(Events(s)) : a < b => m[a] <= m[b]
  BY <1>1, <1>2 DEF EventsAt
<1> QED BY <1>1, <1>2, <1>3 DEF EventsAt, Within

\* Rows of which none is a legacy row.
Linking == {r \in Rows : r.kind # "legacy"}

LEMMA LinkingLines ==
  ASSUME NEW f \in Generations, \A i \in 0 .. Retain : \A j \in 1 .. Len(f[i]) : f[i][j].kind # "legacy"
  PROVE  \A j \in 1 .. Len(Lines(f)) : Lines(f)[j].kind # "legacy"
<1>1. Retain \in Nat /\ Retain >= 1 BY ConstantsAreNumbers
<1>2. PICK k : LinesSteps(f, k) /\ Lines(f) = k[Retain]
  BY LinesHasSteps
<1>3. \A i \in 0 .. Retain : f[i] \in Seq(Linking)
  <2>1. SUFFICES ASSUME NEW i \in 0 .. Retain PROVE f[i] \in Seq(Linking)
    OBVIOUS
  <2>2. PICK s \in Seq(Rows) : s = f[i] BY DEF Generations
  <2>3. \A j \in 1 .. Len(s) : s[j] \in Linking BY <2>2 DEF Linking
  <2>4. s \in Seq(Linking) BY <2>3
  <2> QED BY <2>2, <2>4
<1> DEFINE T == {n \in Nat : n <= Retain => k[n] \in Seq(Linking)}
<1>4. 0 \in T BY <1>1, <1>2, <1>3 DEF LinesSteps
<1>5. ASSUME NEW n \in Nat, n \in T, n + 1 <= Retain PROVE k[n + 1] \in Seq(Linking)
  <2>1. PICK i \in 1 .. Retain : i = n + 1 BY <1>1, <1>5
  <2>2. i - 1 = n /\ Retain - i \in 0 .. Retain BY <1>1, <2>1
  <2>3. k[i] = k[i - 1] \o f[Retain - i] BY <1>2 DEF LinesSteps
  <2>0. n <= Retain BY <1>1, <1>5
  <2>4. k[n] \in Seq(Linking) /\ f[Retain - i] \in Seq(Linking) BY <2>0, <1>3, <1>5, <2>1, <2>2
  <2>5. \A r, s \in Seq(Linking) : r \o s \in Seq(Linking) OBVIOUS
  <2> QED BY <2>1, <2>2, <2>3, <2>4, <2>5
<1>6. Nat \subseteq T
  <2>1. \A n \in Nat : n \in T => n + 1 \in T BY <1>5
  <2> HIDE DEF T
  <2> QED BY <1>4, <2>1, Induction
<1>7. Lines(f) \in Seq(Linking) BY <1>1, <1>2, <1>6
<1>8. \A j \in 1 .. Len(Lines(f)) : Lines(f)[j] \in Linking BY <1>7
<1> QED BY <1>8 DEF Linking

\* The newest rows.
LEMMA NewestRows ==
  ASSUME NEW s \in Seq(Rows), NEW k \in 0 .. Len(s)
  PROVE  /\ Newest(s, k) \in Seq(Rows) /\ Len(Newest(s, k)) = k
         /\ \A i \in 1 .. k : Len(s) - k + i \in 1 .. Len(s) /\ Newest(s, k)[i] = s[Len(s) - k + i]
         /\ Within(Newest(s, k), s)
<1>1. PICK d \in 0 .. Len(s) : d = Len(s) - k /\ Len(s) = d + k
  <2>1. PICK n \in Nat : n = Len(s) OBVIOUS
  <2>2. n - k \in 0 .. n /\ n = (n - k) + k BY <2>1
  <2> QED BY <2>1, <2>2
<1>2. Newest(s, k) = SubSeq(s, d + 1, Len(s))
  BY <1>1 DEF Newest
<1>3. PICK u : u = SubSeq(s, d + 1, Len(s)) OBVIOUS
<1>4. u \in Seq(Rows) /\ Len(u) = Len(s) - d /\ \A i \in 1 .. Len(s) - d : u[i] = s[d + i]
  BY <1>3
<1>5. u \in Seq(Rows) /\ Len(u) = k /\ \A i \in 1 .. k : d + i \in 1 .. Len(s) /\ u[i] = s[d + i]
  <2>1. Len(s) - d = k BY <1>1
  <2>2. \A i \in 1 .. k : d + i \in 1 .. Len(s) BY <1>1
  <2>3. u \in Seq(Rows) /\ Len(u) = k /\ \A i \in 1 .. k : u[i] = s[d + i] BY <1>4, <2>1
  <2> QED BY <2>2, <2>3
<1>6. Within(u, s)
  <2>1. PICK m : m = [i \in 1 .. k |-> d + i] OBVIOUS
  <2>2. \A i \in 1 .. k : m[i] \in 1 .. Len(s) /\ u[i] = s[m[i]] BY <1>5, <2>1
  <2>3. \A i, j \in 1 .. k : i < j => m[i] <= m[j] BY <1>1, <2>1
  <2> QED BY <1>5, <2>2, <2>3 DEF Within
<1> QED BY <1>1, <1>2, <1>3, <1>5, <1>6

LEMMA WithinTrans ==
  ASSUME NEW a \in Seq(Rows), NEW b \in Seq(Rows), NEW c \in Seq(Rows), Within(a, b), Within(b, c)
  PROVE  Within(a, c)
<1>1. PICK m : /\ \A j \in 1 .. Len(a) : IsEvent(a[j]) => m[j] \in 1 .. Len(b) /\ a[j] = b[m[j]]
               /\ \A i, j \in 1 .. Len(a) : i < j /\ IsEvent(a[i]) /\ IsEvent(a[j]) => m[i] <= m[j]
  BY DEF Within
<1>2. PICK n : /\ \A j \in 1 .. Len(b) : IsEvent(b[j]) => n[j] \in 1 .. Len(c) /\ b[j] = c[n[j]]
               /\ \A i, j \in 1 .. Len(b) : i < j /\ IsEvent(b[i]) /\ IsEvent(b[j]) => n[i] <= n[j]
  BY DEF Within
<1>3. PICK h : h = [j \in 1 .. Len(a) |-> n[m[j]]] OBVIOUS
<1>4. \A j \in 1 .. Len(a) : IsEvent(a[j]) => h[j] \in 1 .. Len(c) /\ a[j] = c[h[j]]
  BY <1>1, <1>2, <1>3
<1>5. ASSUME NEW i \in 1 .. Len(a), NEW j \in 1 .. Len(a), i < j, IsEvent(a[i]), IsEvent(a[j])
      PROVE  h[i] <= h[j]
  <2>1. PICK x \in 1 .. Len(b), y \in 1 .. Len(b) :
          x = m[i] /\ y = m[j] /\ a[i] = b[x] /\ a[j] = b[y] /\ x <= y
    BY <1>1, <1>5
  <2>2. h[i] = n[x] /\ h[j] = n[y] BY <1>3, <2>1
  <2>3. n[x] \in 1 .. Len(c) BY <1>2, <1>5, <2>1
  <2>4. CASE x = y BY <2>2, <2>3, <2>4
  <2>5. CASE x # y
    <3>1. x < y BY <2>1, <2>5
    <3> QED BY <3>1, <2>1, <2>2, <1>2, <1>5
  <2> QED BY <2>4, <2>5
<1> QED BY <1>4, <1>5 DEF Within

\* A file that is written from the events of the log keeps their order.
LEMMA Rewritten ==
  ASSUME AuditIInv, surface = "remote", NEW x \in Seq(Rows), Within(x, Parsed(files))
  PROVE  /\ \A j \in 1 .. Len(x) : x[j].kind # "legacy"
         /\ limit = 0 => InOrder(x) /\ Before(x, upcoming)
<1>1. AuditTypeOK /\ Shape /\ Ends /\ Order
  BY DEF AuditIInv
<1>2. files \in Generations /\ files[0] \in Seq(Rows) /\ Lines(files) \in Seq(Rows)
  BY <1>1, LogType, LinesType
<1>3. Parsed(files) = Events(Lines(files)) /\ Parsed(files) \in Seq(Rows)
  BY <1>2, EventsType DEF Parsed
<1>4. Within(x, Lines(files))
  BY <1>2, <1>3, EventsWithin, WithinTrans
<1>5. \A j \in 1 .. Len(x) : x[j].kind # "legacy"
  <2>1. \A j \in 1 .. Len(Lines(files)) : Lines(files)[j].kind # "legacy"
    BY <1>1, <1>2, LinkingLines DEF Order
  <2>2. \A j \in 1 .. Len(x) : IsEvent(x[j]) => x[j].kind # "legacy"
    BY <1>4, <2>1 DEF Within
  <2> QED BY <2>2 DEF IsEvent
<1>6. ASSUME limit = 0 PROVE InOrder(x) /\ Before(x, upcoming)
  <2>1. Flat BY <1>1, <1>6 DEF Shape
  <2>2. Lines(files) = files[0] BY <1>2, <2>1, LinesOfFlat DEF Flat
  <2>3. InOrder(files[0]) /\ Before(files[0], upcoming) BY <1>1, <1>6 DEF Order
  <2> QED BY <1>2, <1>4, <2>2, <2>3, WithinInOrder
<1> QED BY <1>5, <1>6

\* The boundary of a pruning is made of identifiers.
LEMMA EdgeType ==
  ASSUME NEW s \in Seq(Rows), NEW k \in Nat, k >= 1, k < Len(s)
  PROVE  /\ EdgeOf(s, k) \in [pruned : 0..MaxEvents, first : 0..MaxEvents]
         /\ Len(s) - k \in 1 .. Len(s) - 1 /\ Len(s) - k + 1 \in 1 .. Len(s)
         /\ EdgeOf(s, k).pruned = s[Len(s) - k].id /\ EdgeOf(s, k).first = s[Len(s) - k + 1].id
<1>1. PICK n \in Nat : n = Len(s) OBVIOUS
<1>2. n - k \in 1 .. n - 1 /\ n - k + 1 \in 1 .. n /\ n - k \in 1 .. n BY <1>1
<1>3. s[n - k] \in Rows /\ s[n - k + 1] \in Rows BY <1>1, <1>2
<1>4. s[n - k].id \in 0 .. MaxEvents /\ s[n - k + 1].id \in 0 .. MaxEvents BY <1>3 DEF Rows
<1> QED BY <1>1, <1>2, <1>4 DEF EdgeOf, Boundary

\* A log that nobody interrupted, pruned.
LEMMA PrunedLog ==
  ASSUME AuditIInv, Place \in {"trim", "overwrite"}, wounds = 0, Len(Parsed(files)) > Retention
  PROVE  LET new == Newest(Parsed(files), Retention)
             e == EdgeOf(Parsed(files), Retention)
         IN  /\ Parsed(files) = Log
             /\ new \in Seq(Rows) /\ Len(new) = Retention /\ AllEnded(new)
             /\ Whole(new, upcoming) /\ IdOfLast(new) = IdOfLast(Log)
             /\ \A i \in 1 .. Len(new) : \E j \in 1 .. Len(Log) : new[i] = Log[j]
             /\ e # NoEdge /\ new # <<>> /\ new[1].id = e.first /\ new[1].prev = e.pruned /\ e.pruned >= 1
             /\ (~leaped /\ ~(Len(Parsed(files)) > Retention + 1)) =>
                   (marks = <<>> \/ marks[Len(marks)].first = e.pruned)
<1>1. AuditTypeOK /\ Shape /\ Ends /\ Order /\ Chain /\ Fit
  BY DEF AuditIInv
<1>2. holder \in Procs /\ holder # "free"
  BY ConstantsAreNumbers DEF Place
<1>3. surface = "remote" /\ edge = NoEdge
  BY <1>1, <1>2 DEF Shape, AuditTypeOK
<1>4. Log \in Seq(Rows) /\ Parsed(files) = Log /\ Whole(Log, upcoming)
  BY <1>1, <1>3, LogType, LogIsRead DEF Chain
<1>5. PICK n \in Nat : n = Len(Log) BY <1>4
<1>6. PICK k \in 0 .. Len(Log) : k = n - Retention
  BY <1>4, <1>5, ConstantsAreNumbers
<1>7. PICK new : new = SubSeq(Log, k + 1, Len(Log)) OBVIOUS
<1>8. /\ new = Newest(Parsed(files), Retention)
      /\ k \in 1 .. Len(Log) - 1 /\ k < Len(Log) /\ Len(Log) - Retention = k /\ Len(Log) - k = Retention
      /\ Retention >= 1 /\ Retention \in Nat
  BY <1>4, <1>5, <1>6, <1>7, ConstantsAreNumbers DEF Newest
<1>9. /\ new \in Seq(Rows) /\ Len(new) = Len(Log) - k /\ Whole(new, upcoming)
      /\ \A i \in 1 .. Len(Log) - k : new[i] = Log[k + i]
      /\ new # <<>> /\ IdOfLast(new) = IdOfLast(Log)
  BY <1>4, <1>7, <1>8, NewestIsWhole
<1>10. AllEnded(new)
  BY <1>3, <1>9 DEF Whole, Kinds, AllEnded, Unended
<1>11. \A i \in 1 .. Len(new) : \E j \in 1 .. Len(Log) : new[i] = Log[j]
  <2>1. \A i \in 1 .. Len(new) : k + i \in 1 .. Len(Log) BY <1>5, <1>8, <1>9
  <2> QED BY <2>1, <1>9
<1>12. PICK e : e = EdgeOf(Parsed(files), Retention) OBVIOUS
<1>13. e.pruned = Log[k].id /\ e.first = Log[k + 1].id
  BY <1>4, <1>8, <1>12 DEF EdgeOf, Boundary
<1>14. new[1] = Log[k + 1]
  <2>1. 1 \in 1 .. Len(Log) - k BY <1>8
  <2> QED BY <2>1, <1>9
<1>15. k + 1 \in 1 .. Len(Log) /\ k \in 1 .. Len(Log) BY <1>5, <1>8
<1>16. Log[k + 1].kind = "event" BY <1>3, <1>4, <1>15 DEF Whole, Kinds
<1>17. Log[k + 1].prev = Log[k].id /\ Log[k].id >= 1 BY <1>4, <1>8, <1>15, <1>16 DEF Whole
<1>18. e # NoEdge
  <2>1. NoEdge.pruned = 0 BY DEF NoEdge, Boundary
  <2> QED BY <2>1, <1>13, <1>17
<1>19. ASSUME ~leaped, ~(Len(Parsed(files)) > Retention + 1), marks # <<>>
       PROVE  marks[Len(marks)].first = e.pruned
  <2>1. Begins(Log, marks) BY <1>1, <1>3, <1>19 DEF Fit
  <2>2. k = 1 BY <1>4, <1>5, <1>6, <1>8, <1>19
  <2> QED BY <2>1, <2>2, <1>13, <1>19 DEF Begins
<1> QED BY <1>4, <1>8, <1>9, <1>10, <1>11, <1>12, <1>13, <1>14, <1>17, <1>18, <1>19

\* The active file is replaced.
LEMMA Replaced ==
  ASSUME AuditTypeOK, NEW x \in Seq(Rows), files' = [files EXCEPT ![0] = x]
  PROVE  /\ files' \in Generations /\ files' \in [0 .. Retain -> Seq(Rows)] /\ files'[0] = x
         /\ \A i \in 1 .. Retain : files'[i] = files[i]
         /\ Flat => Flat'
         /\ (Ends /\ Ended(x)) => \A i \in 0 .. Retain : Ended(files'[i])
         /\ (Order /\ surface = "remote" /\ \A j \in 1 .. Len(x) : x[j].kind # "legacy") =>
               \A i \in 0 .. Retain : \A j \in 1 .. Len(files'[i]) : files'[i][j].kind # "legacy"
<1>1. files' \in [0 .. Retain -> Seq(Rows)] /\ files'[0] = x /\ \A i \in 1 .. Retain : files'[i] = files[i]
  BY ConstantsAreNumbers DEF AuditTypeOK
<1>2. \A i \in 0 .. Retain : i = 0 \/ i \in 1 .. Retain
  BY ConstantsAreNumbers
<1>3. Flat => Flat' BY <1>1 DEF Flat
<1>4. (Ends /\ Ended(x)) => \A i \in 0 .. Retain : Ended(files'[i])
  BY <1>1, <1>2 DEF Ends
<1>5. (Order /\ surface = "remote" /\ \A j \in 1 .. Len(x) : x[j].kind # "legacy") =>
               \A i \in 0 .. Retain : \A j \in 1 .. Len(files'[i]) : files'[i][j].kind # "legacy"
  <2>1. ASSUME Order, surface = "remote", \A j \in 1 .. Len(x) : x[j].kind # "legacy",
               NEW i \in 0 .. Retain, NEW j \in 1 .. Len(files'[i])
        PROVE  files'[i][j].kind # "legacy"
    <3>1. CASE i = 0 BY <2>1, <3>1, <1>1
    <3>2. CASE i # 0
      <4>1. files'[i] = files[i] BY <3>2, <1>1, <1>2
      <4> QED BY <4>1, <2>1 DEF Order
    <3> QED BY <3>1, <3>2
  <2> QED BY <2>1
<1> QED BY <1>1, <1>3, <1>4, <1>5 DEF Generations

\* What is known where the retention is about to be applied.
LEMMA AtTrim ==
  ASSUME AuditIInv, NEW p \in Procs, pc[p] = "trim"
  PROVE  /\ holder = p /\ p # "free" /\ Place = "trim" /\ surface = "remote"
         /\ armed \in {"no", "wanted"} /\ edge = NoEdge /\ old = <<>>
         /\ Log = Lines(files) /\ Log \in Seq(Rows) /\ files \in Generations /\ upcoming \in Nat
         /\ Parsed(files) \in Seq(Rows)
         /\ wounds = 0 => Parsed(files) = Log /\ Whole(Log, upcoming)
         /\ (wounds = 0 /\ ~leaped) =>
              ~raised /\ Linear /\ Begins(Log, marks) /\ ~(marked /\ marks = <<>>)
<1>1. AuditTypeOK /\ Shape /\ Ends /\ Order /\ Chain /\ Fit
  BY DEF AuditIInv
<1>2. holder = p /\ Place = "trim" /\ p # "free"
  BY <1>1, Here, ConstantsAreNumbers
<1>3. surface = "remote" /\ armed \in {"no", "wanted"} /\ edge = NoEdge /\ old = <<>>
  BY <1>1, <1>2 DEF Shape, AuditTypeOK, ArmedPlaces
<1>4. Log = Lines(files) /\ Log \in Seq(Rows) /\ files \in Generations /\ upcoming \in Nat
  BY <1>1, <1>2, LogType, ConstantsAreNumbers DEF Log, AuditTypeOK
<1>5. Parsed(files) \in Seq(Rows) BY <1>4, EventsType DEF Parsed
<1>6. wounds = 0 => Parsed(files) = Log /\ Whole(Log, upcoming)
  BY <1>1, <1>2, <1>3, LogIsRead DEF Chain
<1>7. (wounds = 0 /\ ~leaped) =>
              ~raised /\ Linear /\ Begins(Log, marks) /\ ~(marked /\ marks = <<>>)
  BY <1>1, <1>2, <1>3 DEF Fit
<1> QED BY <1>2, <1>3, <1>4, <1>5, <1>6, <1>7

LEMMA TrimPrunes ==
  ASSUME AuditIInv, NEW p \in Procs, Trim(p), Len(Parsed(files)) > Retention
  PROVE  AuditIInv'
<1>1. AuditTypeOK /\ Shape /\ Ends /\ Order /\ Chain /\ Fit
  BY DEF AuditIInv
<1>2. /\ pc[p] = "trim"
      /\ files' = [files EXCEPT ![0] = Joined(Newest(Parsed(files), Retention))]
      /\ edge' = EdgeOf(Parsed(files), Retention)
      /\ leaped' = (leaped \/ Len(Parsed(files)) > Retention + 1)
      /\ Go(p, "drop")
      /\ UNCHANGED <<surface, limit, marks, marked, holder, event, old, reached, wrote,
                     armed, upcoming, acked, raised, wounds>>
  BY DEF Trim
<1>3. /\ holder = p /\ p # "free" /\ Place = "trim" /\ surface = "remote"
      /\ armed \in {"no", "wanted"} /\ edge = NoEdge /\ old = <<>>
      /\ Log = Lines(files) /\ Log \in Seq(Rows) /\ files \in Generations /\ upcoming \in Nat
      /\ Parsed(files) \in Seq(Rows)
      /\ (wounds = 0 /\ ~leaped) =>
              ~raised /\ Linear /\ Begins(Log, marks) /\ ~(marked /\ marks = <<>>)
  BY <1>2, AtTrim
<1>4. PICK new : new = Newest(Parsed(files), Retention) OBVIOUS
<1>5. Retention \in 0 .. Len(Parsed(files)) /\ Retention \in Nat /\ Retention >= 1
  <2>1. PICK n \in Nat : n = Len(Parsed(files)) BY <1>3
  <2> QED BY <2>1, ConstantsAreNumbers
<1>6. new \in Seq(Rows) /\ Len(new) = Retention /\ Within(new, Parsed(files))
  BY <1>3, <1>4, <1>5, NewestRows
<1>7. PICK x \in Seq(Rows) : x = Joined(new) /\ Len(x) <= Retention /\ Ended(x) /\ Within(x, Parsed(files))
  <2>1. Joined(new) \in Seq(Rows) /\ Len(Joined(new)) <= Len(new) /\ Ended(Joined(new))
    BY <1>6, JoinedType
  <2>2. Within(Joined(new), Parsed(files))
    BY <1>3, <1>6, <2>1, JoinedWithin, WithinTrans
  <2> QED BY <1>6, <2>1, <2>2
<1>8. /\ files' \in [0 .. Retain -> Seq(Rows)] /\ files'[0] = x
      /\ Flat => Flat'
      /\ \A i \in 0 .. Retain : Ended(files'[i])
  BY <1>1, <1>2, <1>4, <1>7, Replaced
<1>9. /\ \A i \in 0 .. Retain : \A j \in 1 .. Len(files'[i]) : files'[i][j].kind # "legacy"
      /\ limit = 0 => InOrder(x) /\ Before(x, upcoming)
  <2>1. /\ \A j \in 1 .. Len(x) : x[j].kind # "legacy"
        /\ limit = 0 => InOrder(x) /\ Before(x, upcoming)
    BY <1>3, <1>7, Rewritten
  <2> QED BY <1>1, <1>2, <1>3, <1>4, <1>7, <2>1, Replaced
<1>10. /\ pc' \in [Procs -> Labels] /\ holder' \in Procs \cup {"free"} /\ Place' = "drop"
       /\ \A q \in Procs : pc'[q] = "idle" <=> holder' # q
  <2>1. "drop" \in Labels \ {"idle"} BY DEF Labels
  <2> QED BY <1>1, <1>2, <1>3, <2>1, HolderStays
<1>11. Pending' => Pending
  BY <1>2, <1>10 DEF Pending
<1>12. edge' \in [pruned : 0..MaxEvents, first : 0..MaxEvents]
  BY <1>2, <1>3, <1>5, EdgeType
<1>13. leaped' \in BOOLEAN BY <1>1, <1>2 DEF AuditTypeOK
<1>14. AuditTypeOK'
  BY <1>1, <1>2, <1>8, <1>10, <1>12, <1>13 DEF AuditTypeOK
<1>15. Shape'
  BY <1>1, <1>2, <1>3, <1>8, <1>10 DEF Shape, PlainPlaces, WantedPlaces
<1>16. Ends'
  BY <1>2, <1>3, <1>7, <1>8, <1>10 DEF Ends
<1>17. Order'
  <2>1. limit = 0 => InOrder(files'[0]) /\ Before(files'[0], upcoming')
    BY <1>2, <1>8, <1>9
  <2>2. limit = 0 /\ Pending' =>
          /\ event'[holder'].prev < event'[holder'].id
          /\ \A j \in 1 .. Len(files'[0]) : IsEvent(files'[0][j]) => files'[0][j].id <= event'[holder'].prev
    <3>1. SUFFICES ASSUME limit = 0, Pending'
                   PROVE  /\ event'[holder'].prev < event'[holder'].id
                          /\ \A j \in 1 .. Len(x) : IsEvent(x[j]) => x[j].id <= event'[holder'].prev
      BY <1>8
    <3>2. /\ event[holder].prev < event[holder].id
          /\ \A j \in 1 .. Len(files[0]) : IsEvent(files[0][j]) => files[0][j].id <= event[holder].prev
      BY <3>1, <1>1, <1>3, <1>11 DEF Order
    <3>3. Flat BY <1>1, <3>1 DEF Shape
    <3>4. Lines(files) = files[0] BY <1>3, <3>3, LinesOfFlat DEF Flat
    <3>5. Parsed(files) = Events(files[0]) /\ files[0] \in Seq(Rows)
      BY <1>3, <3>4 DEF Parsed
    <3>6. Within(x, files[0])
      BY <1>3, <1>7, <3>5, EventsWithin, WithinTrans
    <3> QED BY <1>2, <3>2, <3>6 DEF Within
  <2> QED BY <1>2, <1>9, <2>1, <2>2 DEF Order
<1>18. wounds = 0 =>
             /\ Log' = new
             /\ Whole(new, upcoming) /\ IdOfLast(new) = IdOfLast(Log)
             /\ \A i \in 1 .. Len(new) : \E j \in 1 .. Len(Log) : new[i] = Log[j]
             /\ edge' # NoEdge /\ new # <<>> /\ new[1].id = edge'.first /\ new[1].prev = edge'.pruned
             /\ edge'.pruned >= 1
             /\ (~leaped /\ ~(Len(Parsed(files)) > Retention + 1)) =>
                   (marks = <<>> \/ marks[Len(marks)].first = edge'.pruned)
  <2>1. SUFFICES ASSUME wounds = 0 PROVE
             /\ Log' = new
             /\ Whole(new, upcoming) /\ IdOfLast(new) = IdOfLast(Log)
             /\ \A i \in 1 .. Len(new) : \E j \in 1 .. Len(Log) : new[i] = Log[j]
             /\ edge' # NoEdge /\ new # <<>> /\ new[1].id = edge'.first /\ new[1].prev = edge'.pruned
             /\ edge'.pruned >= 1
             /\ (~leaped /\ ~(Len(Parsed(files)) > Retention + 1)) =>
                   (marks = <<>> \/ marks[Len(marks)].first = edge'.pruned)
    OBVIOUS
  <2>2. /\ AllEnded(new) /\ Whole(new, upcoming) /\ IdOfLast(new) = IdOfLast(Log)
        /\ \A i \in 1 .. Len(new) : \E j \in 1 .. Len(Log) : new[i] = Log[j]
        /\ edge' # NoEdge /\ new # <<>> /\ new[1].id = edge'.first /\ new[1].prev = edge'.pruned
        /\ edge'.pruned >= 1
        /\ (~leaped /\ ~(Len(Parsed(files)) > Retention + 1)) =>
                   (marks = <<>> \/ marks[Len(marks)].first = edge'.pruned)
    BY <2>1, <1>2, <1>3, <1>4, PrunedLog
  <2>3. x = new
    <3>1. Ended(new) BY <2>2 DEF Ended, AllEnded
    <3> QED BY <3>1, <1>6, <1>7, JoinedOfEnded
  <2>4. Log' = files'[0] BY <1>10 DEF Log
  <2> QED BY <2>2, <2>3, <2>4, <1>8
<1>19. Chain'
  <2>1. SUFFICES ASSUME wounds = 0 PROVE Chain'
    BY <1>2 DEF Chain
  <2>2. Whole(Log, upcoming)'
    BY <2>1, <1>2, <1>18 DEF Whole, Kinds
  <2>3. Pending' => /\ event'[holder'].prev = IdOfLast(Log)'
                    /\ \A i \in 1 .. Len(Log') : Log'[i].id < event'[holder'].id
    <3>1. SUFFICES ASSUME Pending' PROVE /\ event'[holder'].prev = IdOfLast(Log)'
                    /\ \A i \in 1 .. Len(Log') : Log'[i].id < event'[holder'].id
      OBVIOUS
    <3>2. /\ event[holder].prev = IdOfLast(Log)
          /\ \A i \in 1 .. Len(Log) : Log[i].id < event[holder].id
      BY <1>1, <1>11, <2>1, <3>1 DEF Chain
    <3>3. IdOfLast(Log)' = IdOfLast(Log) BY <2>1, <1>18 DEF IdOfLast
    <3> QED BY <1>2, <1>18, <2>1, <3>2, <3>3
  <2> QED BY <1>10, <1>18, <2>1, <2>2, <2>3 DEF Chain
<1>20. Fit'
  <2>0. ~leaped' => ~leaped /\ ~(Len(Parsed(files)) > Retention + 1)
    BY <1>2, Zenon
  <2>1. SUFFICES ASSUME wounds = 0, ~leaped, ~(Len(Parsed(files)) > Retention + 1) PROVE Fit'
    BY <1>2, <2>0, Zenon DEF Fit
  <2>2. Linear' BY <2>1, <1>2, <1>3, StaysLinear
  <2> QED BY <1>2, <1>3, <1>10, <1>18, <2>1, <2>2 DEF Fit
<1> QED BY <1>14, <1>15, <1>16, <1>17, <1>19, <1>20 DEF AuditIInv

\* A recorder flattens generations of which nothing is to be pruned.
LEMMA TrimFlattens ==
  ASSUME AuditIInv, NEW p \in Procs, Trim(p), ~(Len(Parsed(files)) > Retention),
         armed = "wanted", ~Flat
  PROVE  AuditIInv'
<1>1. AuditTypeOK /\ Shape /\ Ends /\ Order /\ Chain /\ Fit
  BY DEF AuditIInv
<1>2. /\ pc[p] = "trim"
      /\ files' = [files EXCEPT ![0] = Joined(Parsed(files))]
      /\ Go(p, "drop")
      /\ UNCHANGED <<surface, limit, marks, marked, holder, event, old, edge, reached, wrote,
                     armed, upcoming, acked, raised, wounds, leaped>>
  BY DEF Trim, Flat
<1>3. /\ holder = p /\ p # "free" /\ Place = "trim" /\ surface = "remote"
      /\ edge = NoEdge /\ old = <<>> /\ limit # 0
      /\ Log = Lines(files) /\ Log \in Seq(Rows) /\ files \in Generations /\ upcoming \in Nat
      /\ Parsed(files) \in Seq(Rows)
      /\ wounds = 0 => Parsed(files) = Log /\ Whole(Log, upcoming)
      /\ (wounds = 0 /\ ~leaped) =>
              ~raised /\ Linear /\ Begins(Log, marks) /\ ~(marked /\ marks = <<>>)
  BY <1>1, <1>2, AtTrim DEF Shape
<1>4. PICK x \in Seq(Rows) :
        /\ x = Joined(Parsed(files)) /\ Len(x) <= Retention /\ Ended(x) /\ Within(x, Parsed(files))
  <2>1. PICK rows \in Seq(Rows) : rows = Parsed(files) BY <1>3
  <2>2. Joined(rows) \in Seq(Rows) /\ Len(Joined(rows)) <= Len(rows) /\ Ended(Joined(rows))
        /\ Within(Joined(rows), rows)
    BY JoinedType, JoinedWithin
  <2>3. PICK x \in Seq(Rows) : x = Joined(rows) BY <2>2
  <2>4. Len(x) \in Nat /\ Len(rows) \in Nat OBVIOUS
  <2>5. Len(x) <= Retention
    BY <2>1, <2>2, <2>3, <2>4, ConstantsAreNumbers
  <2> QED BY <2>1, <2>2, <2>3, <2>5
<1>5. /\ files' \in [0 .. Retain -> Seq(Rows)] /\ files'[0] = x
      /\ \A i \in 0 .. Retain : Ended(files'[i])
  BY <1>1, <1>2, <1>4, Replaced
<1>6. \A i \in 0 .. Retain : \A j \in 1 .. Len(files'[i]) : files'[i][j].kind # "legacy"
  <2>1. \A j \in 1 .. Len(x) : x[j].kind # "legacy" BY <1>3, <1>4, Rewritten
  <2> QED BY <1>1, <1>2, <1>3, <1>4, <2>1, Replaced
<1>7. /\ pc' \in [Procs -> Labels] /\ holder' \in Procs \cup {"free"} /\ Place' = "drop"
      /\ \A q \in Procs : pc'[q] = "idle" <=> holder' # q
  <2>1. "drop" \in Labels \ {"idle"} BY DEF Labels
  <2> QED BY <1>1, <1>2, <1>3, <2>1, HolderStays
<1>8. Pending' => Pending
  BY <1>2, <1>7 DEF Pending
<1>9. AuditTypeOK'
  BY <1>1, <1>2, <1>5, <1>7 DEF AuditTypeOK
<1>10. Shape'
  BY <1>1, <1>2, <1>3, <1>5, <1>7 DEF Shape, PlainPlaces, WantedPlaces
<1>11. Ends'
  BY <1>2, <1>3, <1>4, <1>5, <1>7 DEF Ends
<1>12. Order'
  BY <1>2, <1>3, <1>6 DEF Order
<1>13. wounds = 0 => Log' = Log
  <2>1. SUFFICES ASSUME wounds = 0 PROVE Log' = Log
    OBVIOUS
  <2>2. Ended(Log)
    BY <2>1, <1>3 DEF Whole, Kinds, Ended, Unended
  <2>3. Joined(Log) = Log BY <2>2, <1>3, JoinedOfEnded
  <2>4. Log' = files'[0] BY <1>7 DEF Log
  <2> QED BY <2>1, <2>3, <2>4, <1>3, <1>4, <1>5
<1>14. Chain'
  <2>1. SUFFICES ASSUME wounds = 0 PROVE Chain'
    BY <1>2 DEF Chain
  <2>2. Whole(Log, upcoming)'
    BY <2>1, <1>2, <1>3, <1>13, StaysWhole
  <2>3. Pending' => /\ event'[holder'].prev = IdOfLast(Log)'
                    /\ \A i \in 1 .. Len(Log') : Log'[i].id < event'[holder'].id
    BY <1>1, <1>2, <1>8, <1>13, <2>1 DEF Chain, IdOfLast
  <2> QED BY <1>2, <1>3, <1>7, <2>2, <2>3 DEF Chain
<1>15. Fit'
  <2>1. SUFFICES ASSUME wounds = 0, ~leaped PROVE Fit'
    BY <1>2 DEF Fit
  <2>2. Linear' /\ Begins(Log, marks)'
    BY <2>1, <1>2, <1>3, <1>13, StaysLinear, StaysBegun
  <2> QED BY <1>2, <1>3, <1>7, <2>1, <2>2 DEF Fit
<1> QED BY <1>9, <1>10, <1>11, <1>12, <1>14, <1>15 DEF AuditIInv

\* Nothing is to be pruned.
LEMMA TrimPasses ==
  ASSUME AuditIInv, NEW p \in Procs, Trim(p), ~(Len(Parsed(files)) > Retention),
         armed = "wanted" => Flat
  PROVE  AuditIInv'
<1>1. AuditTypeOK /\ Shape /\ Ends /\ Order /\ Chain /\ Fit
  BY DEF AuditIInv
<1>2. /\ pc[p] = "trim" /\ files' = files
      /\ Go(p, "next")
      /\ UNCHANGED <<surface, limit, marks, marked, holder, event, old, edge, reached, wrote,
                     armed, upcoming, acked, raised, wounds, leaped>>
  BY DEF Trim, Flat
<1>3. /\ holder = p /\ p # "free" /\ Place = "trim" /\ surface = "remote"
      /\ edge = NoEdge /\ old = <<>> /\ armed \in {"no", "wanted"}
      /\ Log = Lines(files) /\ Log \in Seq(Rows) /\ files \in Generations /\ upcoming \in Nat
      /\ Parsed(files) \in Seq(Rows)
      /\ wounds = 0 => Parsed(files) = Log /\ Whole(Log, upcoming)
      /\ (wounds = 0 /\ ~leaped) =>
              ~raised /\ Linear /\ Begins(Log, marks) /\ ~(marked /\ marks = <<>>)
  BY <1>1, <1>2, AtTrim
<1>4. /\ pc' \in [Procs -> Labels] /\ holder' \in Procs \cup {"free"} /\ Place' = "next"
      /\ \A q \in Procs : pc'[q] = "idle" <=> holder' # q
  <2>1. "next" \in Labels \ {"idle"} BY DEF Labels
  <2> QED BY <1>1, <1>2, <1>3, <2>1, HolderStays
<1>5. Log' = Log
  BY <1>2, <1>3, <1>4, LogStays
<1>6. Pending' => Pending
  BY <1>2, <1>4 DEF Pending
<1>7. AuditTypeOK'
  BY <1>1, <1>2, <1>4 DEF AuditTypeOK
<1>8. Shape'
  <2>1. Flat => Flat' BY <1>2, StaysFlat
  <2>2. armed = "wanted" => Flat' BY <2>1
  <2> QED BY <1>1, <1>2, <1>3, <1>4, <2>1, <2>2 DEF Shape, PlainPlaces, WantedPlaces
<1>9. Ends'
  <2>1. armed # "no" => Len(Events(files[0])) <= Retention
    <3>1. SUFFICES ASSUME armed = "wanted" PROVE Len(Events(files[0])) <= Retention
      BY <1>3
    <3>2. Lines(files) = files[0] BY <3>1, <1>3, LinesOfFlat DEF Flat
    <3>3. PICK n \in Nat : n = Len(Parsed(files)) BY <1>3
    <3> QED BY <3>2, <3>3, ConstantsAreNumbers DEF Parsed
  <2> QED BY <1>1, <1>2, <1>3, <1>4, <2>1 DEF Ends
<1>10. Order'
  <2>1. Before(files[0], upcoming) => Before(files'[0], upcoming') BY <1>2
  <2> QED BY <1>1, <1>2, <1>6, <2>1 DEF Order, InOrder
<1>11. Chain'
  <2>1. SUFFICES ASSUME wounds = 0 PROVE Chain'
    BY <1>2 DEF Chain
  <2>2. Whole(Log, upcoming)'
    BY <2>1, <1>2, <1>3, <1>5, StaysWhole
  <2>3. Pending' => /\ event'[holder'].prev = IdOfLast(Log)'
                    /\ \A i \in 1 .. Len(Log') : Log'[i].id < event'[holder'].id
    BY <1>1, <1>2, <1>6, <1>5, <2>1 DEF Chain, IdOfLast
  <2> QED BY <1>2, <1>3, <1>4, <2>2, <2>3 DEF Chain
<1>12. Fit'
  <2>1. SUFFICES ASSUME wounds = 0, ~leaped PROVE Fit'
    BY <1>2 DEF Fit
  <2>2. Linear' /\ Begins(Log, marks)'
    BY <2>1, <1>2, <1>3, <1>5, StaysLinear, StaysBegun
  <2> QED BY <1>2, <1>3, <1>4, <2>1, <2>2 DEF Fit
<1> QED BY <1>7, <1>8, <1>9, <1>10, <1>11, <1>12 DEF AuditIInv

LEMMA TrimKeeps ==
  ASSUME AuditIInv, NEW p \in Procs, Trim(p)
  PROVE  AuditIInv'
BY TrimPrunes, TrimFlattens, TrimPasses

-----------------------------------------------------------------------------
(***************************************************************************)
(* A recorder overwrites the log with its newest rows, and cuts the rest off.*)
(***************************************************************************)
\* What is known where a recorder is about to overwrite the log.
LEMMA AtOverwrite ==
  ASSUME AuditIInv, NEW p \in Procs, pc[p] = "overwrite"
  PROVE  /\ holder = p /\ p # "free" /\ Place = "overwrite" /\ surface = "remote"
         /\ armed \in {"bare", "reserved"} /\ edge = NoEdge /\ old = <<>> /\ Flat
         /\ Log = files[0] /\ Lines(files) = files[0] /\ Log \in Seq(Rows) /\ upcoming \in Nat
         /\ files \in Generations /\ files[0] \in Seq(Rows)
         /\ Parsed(files) = Events(files[0]) /\ Parsed(files) \in Seq(Rows)
         /\ Within(Parsed(files), files[0])
         /\ Len(Parsed(files)) <= Retention + 1 /\ AllEnded(Parsed(files))
         /\ wounds = 0 => Parsed(files) = Log /\ Whole(Log, upcoming)
         /\ (wounds = 0 /\ ~leaped) =>
              /\ ~raised /\ Linear /\ Begins(Log, marks)
              /\ marked /\ marks = <<>> => armed = "reserved"
              /\ armed = "reserved" /\ marks = <<>> => Len(Log) > Retention
<1>1. AuditTypeOK /\ Shape /\ Ends /\ Order /\ Chain /\ Fit
  BY DEF AuditIInv
<1>2. holder = p /\ Place = "overwrite" /\ p # "free"
  BY <1>1, Here, ConstantsAreNumbers
<1>3. surface = "remote" /\ armed \in {"bare", "reserved"} /\ edge = NoEdge /\ old = <<>> /\ Flat
  BY <1>1, <1>2 DEF Shape, AuditTypeOK, PlainPlaces, WantedPlaces
<1>4. /\ Log = Lines(files) /\ Log \in Seq(Rows) /\ files \in Generations /\ files[0] \in Seq(Rows)
      /\ upcoming \in Nat
  BY <1>1, <1>2, LogType, ConstantsAreNumbers DEF Log, AuditTypeOK
<1>5. Lines(files) = files[0] BY <1>3, <1>4, LinesOfFlat DEF Flat
<1>6. /\ Parsed(files) = Events(files[0]) /\ Parsed(files) \in Seq(Rows)
      /\ Within(Parsed(files), files[0]) /\ Len(Parsed(files)) <= Retention + 1
  BY <1>1, <1>2, <1>4, <1>5, EventsType, EventsWithin DEF Parsed, Ends
<1>7. AllEnded(Parsed(files))
  <2>1. PICK s \in Seq(Rows) : s = files[0] BY <1>4
  <2>2. Ended(s) /\ s # <<>> /\ ~Unended(s[Len(s)])
    BY <1>1, <1>2, <2>1, ConstantsAreNumbers DEF Ends
  <2>3. PICK n \in Nat : n = Len(s) OBVIOUS
  <2>4. \A j \in 1 .. Len(s) : ~Unended(s[j])
    BY <2>2, <2>3 DEF Ended
  <2>5. \A j \in 1 .. Len(Parsed(files)) : IsEvent(Parsed(files)[j])
    BY <1>4, <1>6, EventsType
  <2>6. Within(Parsed(files), s) BY <1>6, <2>1
  <2> QED BY <2>4, <2>5, <2>6 DEF Within, AllEnded
<1>8. wounds = 0 => Parsed(files) = Log /\ Whole(Log, upcoming)
  BY <1>1, <1>2, <1>3, LogIsRead DEF Chain
<1>9. (wounds = 0 /\ ~leaped) =>
              /\ ~raised /\ Linear /\ Begins(Log, marks)
              /\ marked /\ marks = <<>> => armed = "reserved"
              /\ armed = "reserved" /\ marks = <<>> => Len(Log) > Retention
  BY <1>1, <1>2, <1>3 DEF Fit
<1> QED BY <1>2, <1>3, <1>4, <1>5, <1>6, <1>7, <1>8, <1>9

\* The newest rows, and behind them what is left of the old ones.
LEMMA Residue ==
  ASSUME NEW rows \in Seq(Rows), NEW k \in 1 .. Len(rows), AllEnded(rows),
         NEW rest \in Residues(rows)
  PROVE  LET x == Joined(Newest(rows, k)) \o rest
         IN  /\ x \in Seq(Rows) /\ Len(x) > k /\ Ended(x) /\ Within(x, rows)
             /\ SubSeq(x, 1, k) = Newest(rows, k)
<1>1. PICK new \in Seq(Rows) :
        /\ new = Newest(rows, k) /\ Len(new) = k
        /\ \A i \in 1 .. k : Len(rows) - k + i \in 1 .. Len(rows) /\ new[i] = rows[Len(rows) - k + i]
  BY NewestRows
<1>2. Ended(new)
  <2>1. \A i \in 1 .. k : ~Unended(new[i]) BY <1>1 DEF AllEnded
  <2>2. \A i \in 1 .. k - 1 : i \in 1 .. k OBVIOUS
  <2> QED BY <1>1, <2>1, <2>2 DEF Ended
<1>3. Joined(new) = new
  BY <1>2, JoinedOfEnded
<1>4. PICK n \in Nat : n = Len(rows) /\ n >= 1 /\ k <= n OBVIOUS
<1>5. PICK l \in Rows : l = rows[n] /\ l = Last(rows) /\ ~Unended(l)
  <2>1. n \in 1 .. Len(rows) BY <1>4
  <2>2. rows[n] \in Rows /\ ~Unended(rows[n]) BY <2>1 DEF AllEnded
  <2> QED BY <1>4, <2>2 DEF Last
<1>6. /\ rest \in Seq(Rows) /\ Len(rest) \in {1, 2}
      /\ \A j \in 1 .. Len(rest) : rest[j] \in {l, Junk}
  <2>1. rest \in {<<l>>, <<Junk>>, <<Junk, l>>} BY <1>5 DEF Residues
  <2>2. PICK z \in Rows : z = Junk BY RowFacts
  <2>3. CASE rest = <<l>> BY <2>3
  <2>4. CASE rest = <<z>> BY <2>2, <2>4
  <2>5. CASE rest = <<z, l>> BY <2>2, <2>5
  <2> QED BY <2>1, <2>2, <2>3, <2>4, <2>5
<1>7. PICK x \in Seq(Rows) :
        /\ x = new \o rest /\ Len(x) = k + Len(rest)
        /\ \A j \in 1 .. k : x[j] = new[j]
        /\ \A j \in 1 .. Len(x) : j <= k \/ x[j] \in {l, Junk}
  <2>1. PICK x : x = new \o rest OBVIOUS
  <2>2. x \in Seq(Rows) /\ Len(x) = k + Len(rest)
    <3>1. new \in Seq(Rows) /\ rest \in Seq(Rows) BY <1>6
    <3>2. x \in Seq(Rows) /\ Len(x) = Len(new) + Len(rest) BY <3>1, <2>1
    <3> QED BY <3>2, <1>1
  <2>3. \A j \in 1 .. k : x[j] = new[j] BY <1>1, <1>6, <2>1
  <2>4. \A j \in 1 .. Len(rest) : x[k + j] = rest[j] BY <1>1, <1>6, <2>1
  <2>5. ASSUME NEW j \in 1 .. Len(x), j > k PROVE x[j] \in {l, Junk}
    <3>1. PICK i \in 1 .. Len(rest) : j = k + i BY <2>2, <2>5, <1>6
    <3> QED BY <3>1, <2>4, <1>6
  <2>6. \A j \in 1 .. Len(x) : j <= k \/ x[j] \in {l, Junk} BY <2>5, <2>2
  <2> QED BY <2>1, <2>2, <2>3, <2>6
<1>8. Ended(x)
  <2>1. \A j \in 1 .. Len(x) : ~Unended(x[j])
    <3>1. SUFFICES ASSUME NEW j \in 1 .. Len(x) PROVE ~Unended(x[j])
      OBVIOUS
    <3>2. CASE j <= k
      <4>1. j \in 1 .. k BY <3>2
      <4> QED BY <4>1, <1>1, <1>7 DEF AllEnded
    <3>3. CASE ~(j <= k)
      BY <3>3, <1>5, <1>7, RowFacts
    <3> QED BY <3>2, <3>3
  <2>2. PICK m \in Nat : m = Len(x) OBVIOUS
  <2> QED BY <2>1, <2>2 DEF Ended
<1>9. Within(x, rows)
  <2>1. PICK m : m = [j \in 1 .. Len(x) |-> IF j <= k THEN n - k + j ELSE n] OBVIOUS
  <2>2. \A j \in 1 .. Len(x) : m[j] \in 1 .. n
    BY <2>1, <1>4
  <2>3. \A i, j \in 1 .. Len(x) : i < j => m[i] <= m[j]
    BY <2>1, <1>4, <1>7, <1>6
  <2>4. \A j \in 1 .. Len(x) : IsEvent(x[j]) => x[j] = rows[m[j]]
    <3>1. SUFFICES ASSUME NEW j \in 1 .. Len(x), IsEvent(x[j]) PROVE x[j] = rows[m[j]]
      OBVIOUS
    <3>2. CASE j <= k
      <4>1. j \in 1 .. k /\ m[j] = n - k + j BY <3>2, <2>1
      <4> QED BY <4>1, <1>1, <1>4, <1>7
    <3>3. CASE ~(j <= k)
      <4>1. m[j] = n /\ x[j] = l BY <3>1, <3>3, <2>1, <1>7, RowFacts
      <4> QED BY <4>1, <1>5
    <3> QED BY <3>2, <3>3
  <2> QED BY <2>2, <2>3, <2>4, <1>4 DEF Within
<1>10. Len(x) > k
  <2>1. Len(x) = k + 1 \/ Len(x) = k + 2 BY <1>6, <1>7
  <2> QED BY <2>1, <1>4
<1>11. SubSeq(x, 1, k) = new
  <2>1. Len(x) \in Nat /\ k \in Nat /\ k <= Len(x) BY <1>4, <1>10
  <2>2. PICK y : y = SubSeq(x, 1, k) OBVIOUS
  <2>3. y \in Seq(Rows) /\ Len(y) = k /\ \A i \in 1 .. k : y[i] = x[i]
    BY <2>1, <2>2
  <2>4. y = new BY <2>3, <1>1, <1>7, SeqEqual
  <2> QED BY <2>2, <2>4
<1> QED BY <1>1, <1>3, <1>7, <1>8, <1>9, <1>10, <1>11

\* Nothing is to be pruned.
LEMMA OverwritePasses ==
  ASSUME AuditIInv, NEW p \in Procs, Overwrite(p), Len(Parsed(files)) <= Retention
  PROVE  AuditIInv'
<1>1. AuditTypeOK /\ Shape /\ Ends /\ Order /\ Chain /\ Fit
  BY DEF AuditIInv
<1>2. /\ pc[p] = "overwrite" /\ Go(p, "next") /\ files' = files
      /\ UNCHANGED <<surface, limit, marks, marked, holder, event, old, edge, reached, wrote,
                     armed, upcoming, acked, raised, wounds, leaped>>
  BY DEF Overwrite
<1>3. /\ holder = p /\ p # "free" /\ Place = "overwrite" /\ surface = "remote"
      /\ armed \in {"bare", "reserved"} /\ edge = NoEdge /\ old = <<>> /\ Flat
      /\ Log \in Seq(Rows) /\ upcoming \in Nat /\ Parsed(files) = Events(files[0])
      /\ wounds = 0 => Parsed(files) = Log /\ Whole(Log, upcoming)
      /\ (wounds = 0 /\ ~leaped) =>
              /\ ~raised /\ Linear /\ Begins(Log, marks)
              /\ marked /\ marks = <<>> => armed = "reserved"
              /\ armed = "reserved" /\ marks = <<>> => Len(Log) > Retention
  BY <1>1, <1>2, AtOverwrite
<1>4. /\ pc' \in [Procs -> Labels] /\ holder' \in Procs \cup {"free"} /\ Place' = "next"
      /\ \A q \in Procs : pc'[q] = "idle" <=> holder' # q
  <2>1. "next" \in Labels \ {"idle"} BY DEF Labels
  <2> QED BY <1>1, <1>2, <1>3, <2>1, HolderStays
<1>5. Log' = Log
  BY <1>2, <1>3, <1>4, LogStays
<1>6. Pending' => Pending
  BY <1>2, <1>4 DEF Pending
<1>7. AuditTypeOK'
  BY <1>1, <1>2, <1>4 DEF AuditTypeOK
<1>8. Shape'
  <2>1. Flat' BY <1>2, <1>3, StaysFlat
  <2> QED BY <1>1, <1>2, <1>3, <1>4, <2>1 DEF Shape, ArmedPlaces
<1>9. Ends'
  <2>1. Len(Events(files[0])) <= Retention BY <1>3
  <2> QED BY <1>1, <1>2, <1>3, <1>4, <2>1 DEF Ends
<1>10. Order'
  <2>1. Before(files[0], upcoming) => Before(files'[0], upcoming') BY <1>2
  <2> QED BY <1>1, <1>2, <1>6, <2>1 DEF Order, InOrder
<1>11. Chain'
  <2>1. SUFFICES ASSUME wounds = 0 PROVE Chain'
    BY <1>2 DEF Chain
  <2>2. Whole(Log, upcoming)'
    BY <2>1, <1>2, <1>3, <1>5, StaysWhole
  <2>3. Pending' => /\ event'[holder'].prev = IdOfLast(Log)'
                    /\ \A i \in 1 .. Len(Log') : Log'[i].id < event'[holder'].id
    BY <1>1, <1>2, <1>6, <1>5, <2>1 DEF Chain, IdOfLast
  <2> QED BY <1>2, <1>3, <1>4, <2>2, <2>3 DEF Chain
<1>12. Fit'
  <2>1. SUFFICES ASSUME wounds = 0, ~leaped PROVE Fit'
    BY <1>2 DEF Fit
  <2>2. Linear' /\ Begins(Log, marks)'
    BY <2>1, <1>2, <1>3, <1>5, StaysLinear, StaysBegun
  <2>3. ~(armed = "reserved" /\ marks = <<>>)
    <3>1. PICK n \in Nat : n = Len(Log) BY <1>3
    <3>2. n <= Retention BY <2>1, <1>3, <3>1
    <3>3. ~(n > Retention) BY <3>2, ConstantsAreNumbers
    <3> QED BY <2>1, <1>3, <3>1, <3>3
  <2>4. ~(marked /\ marks = <<>>) BY <2>1, <2>3, <1>3
  <2> QED BY <1>2, <1>3, <1>4, <2>1, <2>2, <2>3, <2>4 DEF Fit
<1> QED BY <1>7, <1>8, <1>9, <1>10, <1>11, <1>12 DEF AuditIInv

\* The newest rows are written over the others, of which some are left.
LEMMA OverwritePrunes ==
  ASSUME AuditIInv, NEW p \in Procs, Overwrite(p), ~(Len(Parsed(files)) <= Retention)
  PROVE  AuditIInv'
<1>1. AuditTypeOK /\ Shape /\ Ends /\ Order /\ Chain /\ Fit
  BY DEF AuditIInv
<1>2. /\ pc[p] = "overwrite"
      /\ edge' = EdgeOf(Parsed(files), Retention)
      /\ leaped' = (leaped \/ Len(Parsed(files)) > Retention + 1)
      /\ Go(p, "cut")
      /\ UNCHANGED <<surface, limit, marks, marked, holder, event, old, reached, wrote,
                     armed, upcoming, acked, raised, wounds>>
  BY DEF Overwrite
<1>3. /\ holder = p /\ p # "free" /\ Place = "overwrite" /\ surface = "remote"
      /\ armed \in {"bare", "reserved"} /\ edge = NoEdge /\ old = <<>> /\ Flat
      /\ Log = files[0] /\ Lines(files) = files[0] /\ Log \in Seq(Rows) /\ upcoming \in Nat
      /\ files \in Generations
      /\ Parsed(files) \in Seq(Rows) /\ Within(Parsed(files), files[0]) /\ AllEnded(Parsed(files))
      /\ (wounds = 0 /\ ~leaped) =>
              /\ ~raised /\ Linear /\ Begins(Log, marks)
              /\ marked /\ marks = <<>> => armed = "reserved"
  BY <1>1, <1>2, AtOverwrite
<1>4. /\ Retention \in 1 .. Len(Parsed(files)) /\ Retention < Len(Parsed(files))
      /\ Len(Parsed(files)) > Retention
  <2>1. PICK n \in Nat : n = Len(Parsed(files)) BY <1>3
  <2> QED BY <2>1, ConstantsAreNumbers
<1>5. PICK new : new = Newest(Parsed(files), Retention) OBVIOUS
<1>6. PICK x \in Seq(Rows) :
        /\ files' = [files EXCEPT ![0] = x]
        /\ Len(x) > Retention /\ Ended(x) /\ Within(x, Parsed(files))
        /\ SubSeq(x, 1, Retention) = new
  <2>1. PICK rest \in Residues(Parsed(files)) :
          files' = [files EXCEPT ![0] = Joined(Newest(Parsed(files), Retention)) \o rest]
    BY DEF Overwrite
  <2>2. PICK x : x = Joined(Newest(Parsed(files), Retention)) \o rest OBVIOUS
  <2>3. x \in Seq(Rows) /\ Len(x) > Retention /\ Ended(x) /\ Within(x, Parsed(files))
        /\ SubSeq(x, 1, Retention) = new
    BY <1>3, <1>4, <1>5, <2>2, Residue
  <2> QED BY <2>1, <2>2, <2>3
<1>7. /\ files' \in [0 .. Retain -> Seq(Rows)] /\ files'[0] = x /\ Flat'
      /\ \A i \in 0 .. Retain : Ended(files'[i])
  BY <1>1, <1>3, <1>6, Replaced
<1>8. /\ \A i \in 0 .. Retain : \A j \in 1 .. Len(files'[i]) : files'[i][j].kind # "legacy"
      /\ limit = 0 => InOrder(x) /\ Before(x, upcoming)
  <2>1. /\ \A j \in 1 .. Len(x) : x[j].kind # "legacy"
        /\ limit = 0 => InOrder(x) /\ Before(x, upcoming)
    BY <1>3, <1>6, Rewritten
  <2> QED BY <1>1, <1>3, <1>6, <2>1, Replaced
<1>9. /\ pc' \in [Procs -> Labels] /\ holder' \in Procs \cup {"free"} /\ Place' = "cut"
      /\ \A q \in Procs : pc'[q] = "idle" <=> holder' # q
  <2>1. "cut" \in Labels \ {"idle"} BY DEF Labels
  <2> QED BY <1>1, <1>2, <1>3, <2>1, HolderStays
<1>10. Pending' => Pending
  BY <1>2, <1>9 DEF Pending
<1>11. edge' \in [pruned : 0..MaxEvents, first : 0..MaxEvents]
  BY <1>2, <1>3, <1>4, EdgeType, ConstantsAreNumbers
<1>12. leaped' \in BOOLEAN BY <1>1, <1>2 DEF AuditTypeOK
<1>13. AuditTypeOK'
  BY <1>1, <1>2, <1>7, <1>9, <1>11, <1>12 DEF AuditTypeOK
<1>14. Shape'
  BY <1>1, <1>2, <1>3, <1>7, <1>9 DEF Shape, ArmedPlaces
<1>15. Ends'
  BY <1>2, <1>3, <1>6, <1>7, <1>9 DEF Ends
<1>16. Order'
  <2>1. limit = 0 => InOrder(files'[0]) /\ Before(files'[0], upcoming')
    BY <1>2, <1>7, <1>8
  <2>2. limit = 0 /\ Pending' =>
          /\ event'[holder'].prev < event'[holder'].id
          /\ \A j \in 1 .. Len(files'[0]) : IsEvent(files'[0][j]) => files'[0][j].id <= event'[holder'].prev
    <3>1. SUFFICES ASSUME limit = 0, Pending'
                   PROVE  /\ event'[holder'].prev < event'[holder'].id
                          /\ \A j \in 1 .. Len(x) : IsEvent(x[j]) => x[j].id <= event'[holder'].prev
      BY <1>7
    <3>2. /\ event[holder].prev < event[holder].id
          /\ \A j \in 1 .. Len(files[0]) : IsEvent(files[0][j]) => files[0][j].id <= event[holder].prev
      BY <3>1, <1>1, <1>3, <1>10 DEF Order
    <3>3. Within(x, files[0])
      BY <1>3, <1>6, WithinTrans
    <3> QED BY <1>2, <3>2, <3>3 DEF Within
  <2> QED BY <1>2, <1>8, <2>1, <2>2 DEF Order
<1>17. Log' = new
  <2>1. Log' = SubSeq(files'[0], 1, Retention) BY <1>9 DEF Log
  <2> QED BY <2>1, <1>6, <1>7
<1>18. wounds = 0 =>
             /\ Whole(new, upcoming) /\ IdOfLast(new) = IdOfLast(Log)
             /\ \A i \in 1 .. Len(new) : \E j \in 1 .. Len(Log) : new[i] = Log[j]
             /\ edge' # NoEdge /\ new # <<>> /\ new[1].id = edge'.first /\ new[1].prev = edge'.pruned
             /\ edge'.pruned >= 1
             /\ (~leaped /\ ~(Len(Parsed(files)) > Retention + 1)) =>
                   (marks = <<>> \/ marks[Len(marks)].first = edge'.pruned)
  BY <1>2, <1>3, <1>4, <1>5, PrunedLog
<1>19. Chain'
  <2>1. SUFFICES ASSUME wounds = 0 PROVE Chain'
    BY <1>2 DEF Chain
  <2>2. Whole(Log, upcoming)'
    BY <2>1, <1>2, <1>17, <1>18 DEF Whole, Kinds
  <2>3. Pending' => /\ event'[holder'].prev = IdOfLast(Log)'
                    /\ \A i \in 1 .. Len(Log') : Log'[i].id < event'[holder'].id
    <3>1. SUFFICES ASSUME Pending' PROVE /\ event'[holder'].prev = IdOfLast(Log)'
                    /\ \A i \in 1 .. Len(Log') : Log'[i].id < event'[holder'].id
      OBVIOUS
    <3>2. /\ event[holder].prev = IdOfLast(Log)
          /\ \A i \in 1 .. Len(Log) : Log[i].id < event[holder].id
      BY <1>1, <1>10, <2>1, <3>1 DEF Chain
    <3>3. IdOfLast(Log)' = IdOfLast(Log) BY <2>1, <1>17, <1>18 DEF IdOfLast
    <3> QED BY <1>2, <1>17, <1>18, <2>1, <3>2, <3>3
  <2> QED BY <1>9, <1>17, <1>18, <2>1, <2>2, <2>3 DEF Chain
<1>20. Fit'
  <2>0. ~leaped' => ~leaped /\ ~(Len(Parsed(files)) > Retention + 1)
    BY <1>2, Zenon
  <2>1. SUFFICES ASSUME wounds = 0, ~leaped, ~(Len(Parsed(files)) > Retention + 1) PROVE Fit'
    BY <1>2, <2>0, Zenon DEF Fit
  <2>2. Linear' BY <2>1, <1>2, <1>3, StaysLinear
  <2> QED BY <1>2, <1>3, <1>9, <1>18, <2>1, <2>2 DEF Fit
<1> QED BY <1>13, <1>14, <1>15, <1>16, <1>19, <1>20 DEF AuditIInv

LEMMA OverwriteKeeps ==
  ASSUME AuditIInv, NEW p \in Procs, Overwrite(p)
  PROVE  AuditIInv'
BY OverwritePasses, OverwritePrunes

LEMMA Prefix ==
  ASSUME NEW s \in Seq(Rows), NEW k \in Nat, k <= Len(s)
  PROVE  LET u == SubSeq(s, 1, k)
         IN  /\ u \in Seq(Rows) /\ Len(u) = k /\ \A i \in 1 .. k : i \in 1 .. Len(s) /\ u[i] = s[i]
             /\ Within(u, s) /\ (Ended(s) => Ended(u))
<1>1. PICK u : u = SubSeq(s, 1, k) OBVIOUS
<1>2. u \in Seq(Rows) /\ Len(u) = k /\ \A i \in 1 .. k : i \in 1 .. Len(s) /\ u[i] = s[i]
  BY <1>1
<1>3. Within(u, s)
  <2>1. PICK m : m = [j \in 1 .. k |-> j] OBVIOUS
  <2> QED BY <2>1, <1>2 DEF Within
<1>4. ASSUME Ended(s) PROVE Ended(u)
  <2>1. PICK n \in Nat : n = Len(s) OBVIOUS
  <2>2. \A j \in 1 .. k - 1 : j \in 1 .. n - 1 /\ j \in 1 .. k BY <2>1
  <2> QED BY <1>2, <1>4, <2>1, <2>2 DEF Ended
<1> QED BY <1>1, <1>2, <1>3, <1>4

LEMMA CutKeeps ==
  ASSUME AuditIInv, NEW p \in Procs, Cut(p)
  PROVE  AuditIInv'
<1>1. AuditTypeOK /\ Shape /\ Ends /\ Order /\ Chain /\ Fit
  BY DEF AuditIInv
<1>2. /\ pc[p] = "cut" /\ Go(p, "mark")
      /\ files' = [files EXCEPT ![0] = SubSeq(files[0], 1, Retention)]
      /\ UNCHANGED <<surface, limit, marks, marked, holder, event, old, edge, reached, wrote,
                     armed, upcoming, acked, raised, wounds, leaped>>
  BY DEF Cut, past
<1>3. /\ holder = p /\ Place = "cut" /\ p # "free"
  BY <1>1, <1>2, Here, ConstantsAreNumbers
<1>4. /\ surface = "remote" /\ armed \in {"bare", "reserved"} /\ old = <<>> /\ Flat
      /\ Log \in Seq(Rows) /\ upcoming \in Nat /\ files[0] \in Seq(Rows) /\ files \in Generations
      /\ Len(files[0]) > Retention
  <2>1. surface = "remote" /\ armed \in {"bare", "reserved"} /\ old = <<>> /\ Flat
    BY <1>1, <1>3 DEF Shape, AuditTypeOK, PlainPlaces, WantedPlaces
  <2>2. Log \in Seq(Rows) /\ files[0] \in Seq(Rows) /\ files \in Generations
    BY <1>1, LogType
  <2>3. upcoming \in Nat BY <1>1, ConstantsAreNumbers DEF AuditTypeOK
  <2>4. Len(files[0]) > Retention BY <1>1, <1>3 DEF Ends
  <2> QED BY <2>1, <2>2, <2>3, <2>4
<1>5. PICK x \in Seq(Rows) :
        /\ x = SubSeq(files[0], 1, Retention) /\ Len(x) = Retention /\ Within(x, files[0])
        /\ Ended(x) /\ \A i \in 1 .. Retention : i \in 1 .. Len(files[0]) /\ x[i] = files[0][i]
  <2>1. PICK s \in Seq(Rows) : s = files[0] BY <1>4
  <2>2. PICK n \in Nat : n = Len(s) OBVIOUS
  <2>3. Retention \in Nat /\ Retention <= Len(s) BY <2>1, <2>2, <1>4, ConstantsAreNumbers
  <2>4. Ended(s) BY <2>1, <1>1, ConstantsAreNumbers DEF Ends
  <2> QED BY <2>1, <2>3, <2>4, Prefix
<1>6. /\ files' \in [0 .. Retain -> Seq(Rows)] /\ files' \in Generations /\ files'[0] = x /\ Flat'
      /\ \A i \in 0 .. Retain : Ended(files'[i])
  BY <1>1, <1>2, <1>4, <1>5, Replaced
<1>7. \A i \in 0 .. Retain : \A j \in 1 .. Len(files'[i]) : files'[i][j].kind # "legacy"
  <2>1. \A j \in 1 .. Len(files[0]) : files[0][j].kind # "legacy"
    BY <1>1, <1>4, ConstantsAreNumbers DEF Order
  <2>2. \A j \in 1 .. Len(x) : x[j].kind # "legacy" BY <2>1, <1>5
  <2> QED BY <1>1, <1>2, <1>4, <1>5, <2>2, Replaced
<1>8. /\ pc' \in [Procs -> Labels] /\ holder' \in Procs \cup {"free"} /\ Place' = "mark"
      /\ \A q \in Procs : pc'[q] = "idle" <=> holder' # q
  <2>1. "mark" \in Labels \ {"idle"} BY DEF Labels
  <2> QED BY <1>1, <1>2, <1>3, <2>1, HolderStays
<1>9. Pending' => Pending
  BY <1>2, <1>8 DEF Pending
<1>10. Log' = Log
  <2>1. Lines(files') = files'[0] BY <1>6, LinesOfFlat DEF Flat
  <2>2. Log' = Lines(files') BY <1>8 DEF Log
  <2>3. Log = SubSeq(files[0], 1, Retention) BY <1>3 DEF Log
  <2> QED BY <2>1, <2>2, <2>3, <1>5, <1>6
<1>11. AuditTypeOK'
  BY <1>1, <1>2, <1>6, <1>8 DEF AuditTypeOK
<1>12. Shape'
  BY <1>1, <1>2, <1>3, <1>4, <1>6, <1>8 DEF Shape, ArmedPlaces
<1>13. Ends'
  <2>1. Len(Events(x)) <= Retention BY <1>5, EventsType
  <2> QED BY <1>2, <1>6, <1>8, <2>1 DEF Ends
<1>14. Order'
  <2>1. limit = 0 => InOrder(files'[0]) /\ Before(files'[0], upcoming')
    BY <1>1, <1>2, <1>4, <1>5, <1>6, WithinInOrder DEF Order
  <2>2. limit = 0 /\ Pending' =>
          /\ event'[holder'].prev < event'[holder'].id
          /\ \A j \in 1 .. Len(files'[0]) : IsEvent(files'[0][j]) => files'[0][j].id <= event'[holder'].prev
    <3>1. SUFFICES ASSUME limit = 0, Pending'
                   PROVE  /\ event'[holder'].prev < event'[holder'].id
                          /\ \A j \in 1 .. Len(x) : IsEvent(x[j]) => x[j].id <= event'[holder'].prev
      BY <1>6
    <3>2. /\ event[holder].prev < event[holder].id
          /\ \A j \in 1 .. Len(files[0]) : IsEvent(files[0][j]) => files[0][j].id <= event[holder].prev
      BY <3>1, <1>1, <1>4, <1>9 DEF Order
    <3> QED BY <1>2, <1>5, <3>2
  <2> QED BY <1>2, <1>7, <2>1, <2>2 DEF Order
<1>15. Chain'
  <2>1. SUFFICES ASSUME wounds = 0 PROVE Chain'
    BY <1>2 DEF Chain
  <2>2. Whole(Log, upcoming)'
    <3>1. Whole(Log, upcoming) BY <1>1, <2>1 DEF Chain
    <3> QED BY <3>1, <1>2, <1>4, <1>10, StaysWhole
  <2>3. Pending' => /\ event'[holder'].prev = IdOfLast(Log)'
                    /\ \A i \in 1 .. Len(Log') : Log'[i].id < event'[holder'].id
    BY <1>1, <1>2, <1>9, <1>10, <2>1 DEF Chain, IdOfLast
  <2>4. /\ edge # NoEdge
        /\ Log # <<>> /\ Log[1].id = edge.first /\ Log[1].prev = edge.pruned /\ edge.pruned >= 1
    BY <1>1, <1>3, <2>1 DEF Chain
  <2>5. edge' = edge /\ NoEdge' = NoEdge BY <1>2
  <2> QED BY <1>8, <1>10, <2>2, <2>3, <2>4, <2>5 DEF Chain
<1>16. Fit'
  <2>1. SUFFICES ASSUME wounds = 0, ~leaped PROVE Fit'
    BY <1>2 DEF Fit
  <2>2. /\ ~raised /\ Linear /\ edge # NoEdge
        /\ (marks = <<>> \/ marks[Len(marks)].first = edge.pruned)
        /\ marked /\ marks = <<>> => armed = "reserved"
    BY <2>1, <1>1, <1>3 DEF Fit, Chain
  <2>3. Linear' BY <2>2, <1>2, StaysLinear
  <2>4. edge' # NoEdge BY <1>2, <2>2
  <2> QED BY <1>2, <1>4, <1>8, <2>2, <2>3, <2>4 DEF Fit
<1> QED BY <1>11, <1>12, <1>13, <1>14, <1>15, <1>16 DEF AuditIInv

-----------------------------------------------------------------------------
(***************************************************************************)
(* An operation breaks off, or its process is killed.                      *)
(***************************************************************************)
\* What an operation that breaks off may leave behind.
LEMMA BreakKeeps ==
  ASSUME AuditIInv, NEW p \in Procs, holder = p, Leave(p), wounds < MaxInterrupts,
         wounds' = wounds + 1,
         surface' = surface, limit' = limit, upcoming' = upcoming, acked' = acked,
         raised' = raised, leaped' = leaped,
         marks' \in Seq([pruned : 0..MaxEvents, first : 0..MaxEvents]), marked' \in BOOLEAN,
         NEW x \in Seq(Rows), files' = [files EXCEPT ![0] = x],
         Ended(x), \A j \in 1 .. Len(x) : x[j].kind # "legacy",
         limit = 0 => InOrder(x) /\ Before(x, upcoming)
  PROVE  AuditIInv'
<1>1. AuditTypeOK /\ Shape /\ Ends /\ Order /\ Chain /\ Fit
  BY DEF AuditIInv
<1>2. /\ Place' = "idle" /\ pc' \in [Procs -> Labels] /\ holder' = "free"
      /\ \A q \in Procs : pc'[q] = "idle" <=> holder' # q
      /\ event' = [event EXCEPT ![p] = Junk]
      /\ event' \in [Procs -> {Junk} \cup [kind : {"event"}, id : 1..MaxEvents, prev : 0..MaxEvents]]
      /\ old' = <<>> /\ edge' = NoEdge /\ reached' = 0 /\ wrote' = FALSE /\ armed' = "no"
      /\ edge' \in [pruned : 0..MaxEvents, first : 0..MaxEvents]
      /\ old' \in Seq(0..MaxEvents)
      /\ ~Pending'
  BY <1>1, Depart
<1>3. surface = "remote"
  BY <1>1, ConstantsAreNumbers DEF Shape, AuditTypeOK
<1>4. \A q \in Procs : event'[q] = Junk
  BY <1>1, <1>2 DEF AuditTypeOK, Shape
<1>5. /\ files' \in [0 .. Retain -> Seq(Rows)] /\ files'[0] = x /\ (Flat => Flat')
      /\ \A i \in 0 .. Retain : Ended(files'[i])
      /\ \A i \in 0 .. Retain : \A j \in 1 .. Len(files'[i]) : files'[i][j].kind # "legacy"
  BY <1>1, <1>3, Replaced
<1>6. wounds' \in 0 .. MaxInterrupts /\ wounds' # 0
  <2>1. wounds \in 0 .. MaxInterrupts BY <1>1 DEF AuditTypeOK
  <2> QED BY <2>1, ConstantsAreNumbers
<1>7. AuditTypeOK'
  <2>1. reached' \in 0 .. Retain /\ wrote' \in BOOLEAN /\ armed' \in {"no", "wanted", "bare", "reserved"}
        /\ holder' \in Procs \cup {"free"}
    <3>1. reached' = 0 /\ wrote' = FALSE /\ armed' = "no" /\ holder' = "free" BY <1>2, Zenon
    <3>2. 0 \in 0 .. Retain BY ConstantsAreNumbers
    <3>3. FALSE \in BOOLEAN OBVIOUS
    <3> QED BY <3>1, <3>2, <3>3, Zenon
  <2>2. /\ surface' \in {"remote", "local"} /\ limit' \in Limits \cup {0}
        /\ upcoming' \in 1..MaxEvents + 1 /\ leaped' \in BOOLEAN
        /\ acked' \subseteq 1 .. MaxEvents /\ raised' \in BOOLEAN
    BY <1>1 DEF AuditTypeOK
  <2> QED BY <1>2, <1>5, <1>6, <2>1, <2>2 DEF AuditTypeOK
<1>8. Shape'
  <2>1. limit = 0 => Flat' BY <1>1, <1>5 DEF Shape
  <2> QED BY <1>2, <1>3, <1>4, <2>1 DEF Shape
<1>9. Ends'
  BY <1>2, <1>5 DEF Ends
<1>10. Order'
  <2>1. limit = 0 => InOrder(files'[0]) /\ Before(files'[0], upcoming') BY <1>5
  <2> QED BY <1>2, <1>5, <2>1 DEF Order
<1>11. Chain' /\ Fit'
  BY <1>6 DEF Chain, Fit
<1> QED BY <1>7, <1>8, <1>9, <1>10, <1>11 DEF AuditIInv

\* Nothing of a file was changed.
LEMMA AsItWas ==
  ASSUME AuditIInv, surface = "remote"
  PROVE  /\ files = [files EXCEPT ![0] = files[0]] /\ files[0] \in Seq(Rows) /\ Ended(files[0])
         /\ \A j \in 1 .. Len(files[0]) : files[0][j].kind # "legacy"
         /\ limit = 0 => InOrder(files[0]) /\ Before(files[0], upcoming)
<1>1. AuditTypeOK /\ Ends /\ Order
  BY DEF AuditIInv
<1>2. files \in [0 .. Retain -> Seq(Rows)] /\ 0 \in 0 .. Retain
  BY <1>1, ConstantsAreNumbers DEF AuditTypeOK
<1> QED BY <1>1, <1>2 DEF Ends, Order

\* A write that breaks off leaves nothing of its line, a part, or all but its newline.
LEMMA PartWritten ==
  ASSUME AuditIInv, NEW p \in Procs, pc[p] = "write", NEW part \in Parts(event[p])
  PROVE  LET x == Behind(files[0], part)
         IN  /\ x \in Seq(Rows) /\ Ended(x)
             /\ \A j \in 1 .. Len(x) : x[j].kind # "legacy"
             /\ limit = 0 => InOrder(x) /\ Before(x, upcoming)
<1>1. AuditTypeOK /\ Shape /\ Ends /\ Order
  BY DEF AuditIInv
<1>2. holder = p /\ Place = "write" /\ p # "free"
  BY <1>1, Here, ConstantsAreNumbers
<1>3. /\ surface = "remote" /\ upcoming \in Nat /\ event[p] # Junk /\ event[p].id < upcoming /\ Pending
  BY <1>1, <1>2, ConstantsAreNumbers DEF Shape, AuditTypeOK, Pending
<1>4. PICK s \in Seq(Rows) :
        /\ s = files[0] /\ Ended(s) /\ \A j \in 1 .. Len(s) : s[j].kind # "legacy"
        /\ limit = 0 => InOrder(s) /\ Before(s, upcoming)
        /\ limit = 0 => /\ event[p].prev < event[p].id
                        /\ \A j \in 1 .. Len(s) : IsEvent(s[j]) => s[j].id <= event[p].prev
  <2>1. limit = 0 => /\ event[p].prev < event[p].id
                     /\ \A j \in 1 .. Len(files[0]) : IsEvent(files[0][j]) => files[0][j].id <= event[p].prev
    BY <1>1, <1>2, <1>3 DEF Order
  <2> QED BY <1>3, <2>1, AsItWas
<1>5. PICK open : open = [event[p] EXCEPT !.kind = "open"] OBVIOUS
<1>6. /\ open \in Rows /\ open.kind = "open" /\ open.id = event[p].id /\ open.prev = event[p].prev
  <2>1. event[p] \in Rows BY <1>1, <1>3, MadeEvent
  <2> QED BY <2>1, <1>5 DEF Rows
<1>7. CASE part = <<>>
  <2>1. Behind(s, part) = s
    <3>1. s \o <<>> = s OBVIOUS
    <3> QED BY <1>7, <3>1 DEF Behind
  <2> QED BY <2>1, <1>4
<1>8. CASE part = <<Torn>>
  <2>1. PICK b \in Seq(Rows) :
          /\ b = Behind(s, <<Torn>>) /\ Ended(b)
          /\ \A j \in 1 .. Len(b) :
                    \/ j \in 1 .. Len(s) /\ b[j] = s[j]
                    \/ j = Len(s) + 1 /\ b[j] = Torn
                    \/ b[j] \in {Junk, Torn}
    <3>1. PICK r \in Rows : r = Torn BY RowFacts
    <3>2. PICK b : b = Behind(s, <<r>>) OBVIOUS
    <3>3. b \in Seq(Rows) /\ Ended(b) BY <1>4, <3>2, BehindType
    <3>4. \A j \in 1 .. Len(b) :
                    \/ j \in 1 .. Len(s) /\ b[j] = s[j]
                    \/ j = Len(s) + 1 /\ b[j] = r
                    \/ b[j] \in {Junk, Torn}
      BY <3>2, BehindRows
    <3> QED BY <3>1, <3>2, <3>3, <3>4
  <2>2. Junk.kind # "legacy" /\ Torn.kind # "legacy" BY DEF Junk, Torn, Event
  <2>3. \A j \in 1 .. Len(b) : b[j].kind # "legacy" BY <2>1, <2>2, <1>4
  <2>4. \A j \in 1 .. Len(b) : IsEvent(b[j]) => j \in 1 .. Len(s) /\ b[j] = s[j]
    BY <2>1, RowFacts
  <2>5. limit = 0 => InOrder(b) /\ Before(b, upcoming)
    BY <1>4, <2>4 DEF InOrder, Before
  <2> QED BY <2>1, <2>3, <2>5, <1>4, <1>8
<1>9. CASE part = <<open>>
  <2>1. PICK b \in Seq(Rows) :
          /\ b = Behind(s, <<open>>) /\ Ended(b)
          /\ \A j \in 1 .. Len(b) :
                    \/ j \in 1 .. Len(s) /\ b[j] = s[j]
                    \/ j = Len(s) + 1 /\ b[j] = open
                    \/ b[j] \in {Junk, Torn}
    <3>1. PICK r \in Rows : r = open BY <1>6
    <3>2. PICK b : b = Behind(s, <<r>>) OBVIOUS
    <3>3. b \in Seq(Rows) /\ Ended(b) BY <1>4, <3>2, BehindType
    <3>4. \A j \in 1 .. Len(b) :
                    \/ j \in 1 .. Len(s) /\ b[j] = s[j]
                    \/ j = Len(s) + 1 /\ b[j] = r
                    \/ b[j] \in {Junk, Torn}
      BY <3>2, BehindRows
    <3> QED BY <3>1, <3>2, <3>3, <3>4
  <2>2. Junk.kind # "legacy" /\ Torn.kind # "legacy" BY DEF Junk, Torn, Event
  <2>3. \A j \in 1 .. Len(b) : b[j].kind # "legacy" BY <2>1, <2>2, <1>4, <1>6
  <2>4. limit = 0 => InOrder(b) /\ Before(b, upcoming)
    BY <1>3, <1>4, <1>6, <2>1, BehindInOrder
  <2> QED BY <2>1, <2>3, <2>4, <1>4, <1>9
<1> QED BY <1>4, <1>5, <1>7, <1>8, <1>9 DEF Parts

\* An overwrite that breaks off: new lines, one that is half of each, old lines.
LEMMA Splice ==
  ASSUME NEW rows \in Seq(Rows), AllEnded(rows), NEW r \in Nat, Len(rows) = r + 1,
         NEW k \in 0 .. r, NEW skip \in 0 .. 2
  PROVE  LET x == SubSeq(Newest(rows, r), 1, k) \o <<Junk>> \o SubSeq(rows, k + 1 + skip, Len(rows))
         IN  x \in Seq(Rows) /\ Ended(x) /\ Within(x, rows)
<1>1. PICK new \in Seq(Rows) :
        /\ new = Newest(rows, r) /\ Len(new) = r
        /\ \A i \in 1 .. r : 1 + i \in 1 .. Len(rows) /\ new[i] = rows[1 + i]
  <2>1. r \in 0 .. Len(rows) /\ Len(rows) - r = 1 OBVIOUS
  <2>2. PICK new : new = Newest(rows, r) OBVIOUS
  <2>3. new \in Seq(Rows) /\ Len(new) = r
    BY <2>1, <2>2, NewestRows
  <2>4. \A i \in 1 .. r :
          Len(rows) - r + i \in 1 .. Len(rows) /\ new[i] = rows[Len(rows) - r + i]
    BY <2>1, <2>2, NewestRows
  <2>5. \A i \in 1 .. r : 1 + i \in 1 .. Len(rows) /\ new[i] = rows[1 + i]
    BY <2>1, <2>4
  <2> QED BY <2>2, <2>3, <2>5
<1>2. PICK a \in Seq(Rows) :
        /\ a = SubSeq(new, 1, k) /\ Len(a) = k /\ \A i \in 1 .. k : a[i] = rows[1 + i]
  <2>1. k \in Nat /\ k <= Len(new) BY <1>1
  <2>2. \A i \in 1 .. k : i \in 1 .. r OBVIOUS
  <2>3. PICK a : a = SubSeq(new, 1, k) OBVIOUS
  <2>4. a \in Seq(Rows) /\ Len(a) = k /\ \A i \in 1 .. k : a[i] = new[i]
    BY <2>1, <2>3, Prefix
  <2> QED BY <2>2, <2>3, <2>4, <1>1
<1>3. PICK b \in Nat : b = k + 1 + skip OBVIOUS
<1>4. PICK c \in Seq(Rows) :
        /\ c = SubSeq(rows, b, Len(rows))
        /\ \A i \in 1 .. Len(c) : b + i - 1 \in 1 .. Len(rows) /\ c[i] = rows[b + i - 1]
  <2>1. b >= 1 BY <1>3
  <2>2. PICK c : c = SubSeq(rows, b, Len(rows)) OBVIOUS
  <2>3. c \in Seq(Rows) /\ \A i \in 1 .. Len(c) : b + i - 1 \in 1 .. Len(rows) /\ c[i] = rows[b + i - 1]
    BY <2>1, <2>2
  <2> QED BY <2>2, <2>3
<1>5. PICK z \in Rows : z = Junk BY RowFacts
<1>6. PICK y \in Seq(Rows) :
        /\ y = a \o <<z>> /\ Len(y) = k + 1 /\ y[k + 1] = z /\ \A i \in 1 .. k : y[i] = rows[1 + i]
  <2>1. PICK y : y = a \o <<z>> OBVIOUS
  <2>2. y \in Seq(Rows) /\ Len(y) = Len(a) + 1 /\ y[Len(a) + 1] = z /\ \A i \in 1 .. Len(a) : y[i] = a[i]
    BY <2>1
  <2>3. Len(a) = k /\ \A i \in 1 .. k : a[i] = rows[1 + i] BY <1>2
  <2>4. Len(y) = k + 1 /\ y[k + 1] = z BY <2>2, <2>3
  <2>5. \A i \in 1 .. k : y[i] = rows[1 + i] BY <2>2, <2>3
  <2> QED BY <2>1, <2>2, <2>4, <2>5
<1>7. PICK x \in Seq(Rows) :
        /\ x = y \o c /\ Len(x) = k + 1 + Len(c)
        /\ \A j \in 1 .. Len(x) :
             \/ j <= k /\ x[j] = rows[1 + j] /\ 1 + j \in 1 .. Len(rows)
             \/ j = k + 1 /\ x[j] = z
             \/ j > k + 1 /\ x[j] = rows[skip + j - 1] /\ skip + j - 1 \in 1 .. Len(rows)
  <2>1. PICK x : x = y \o c OBVIOUS
  <2>2. /\ x \in Seq(Rows) /\ Len(x) = Len(y) + Len(c)
        /\ \A j \in 1 .. Len(y) : x[j] = y[j]
        /\ \A i \in 1 .. Len(c) : x[Len(y) + i] = c[i]
    BY <2>1
  <2>3. ASSUME NEW j \in 1 .. Len(x)
        PROVE  \/ j <= k /\ x[j] = rows[1 + j] /\ 1 + j \in 1 .. Len(rows)
               \/ j = k + 1 /\ x[j] = z
               \/ j > k + 1 /\ x[j] = rows[skip + j - 1] /\ skip + j - 1 \in 1 .. Len(rows)
    <3>1. CASE j <= k
      <4>1. j \in 1 .. k /\ j \in 1 .. Len(y) BY <3>1, <1>6
      <4>2. x[j] = y[j] BY <4>1, <2>2
      <4>3. y[j] = rows[1 + j] BY <4>1, <1>6
      <4>4. 1 + j \in 1 .. Len(rows) BY <4>1
      <4> QED BY <3>1, <4>2, <4>3, <4>4
    <3>2. CASE j = k + 1
      <4>1. j \in 1 .. Len(y) BY <3>2, <1>6
      <4> QED BY <3>2, <4>1, <2>2, <1>6
    <3>3. CASE j > k + 1
      <4>1. PICK i \in 1 .. Len(c) : j = k + 1 + i
        <5>1. PICK n \in Nat : n = Len(c) OBVIOUS
        <5>2. j \in 1 .. k + 1 + n BY <2>2, <1>6, <5>1
        <5>3. j - (k + 1) \in 1 .. n BY <3>3, <5>2
        <5> QED BY <5>1, <5>3
      <4>2. Len(y) + i = j BY <4>1, <1>6
      <4>3. x[Len(y) + i] = c[i] BY <2>2
      <4>4. x[j] = c[i] BY <4>2, <4>3
      <4>5. b + i - 1 = skip + j - 1 BY <4>1, <1>3
      <4> QED BY <3>3, <4>4, <4>5, <1>4
    <3> QED BY <3>1, <3>2, <3>3
  <2> QED BY <2>1, <2>2, <2>3, <1>6
<1>8. Ended(x)
  <2>1. \A j \in 1 .. Len(x) : ~Unended(x[j])
    BY <1>5, <1>7, RowFacts DEF AllEnded
  <2>2. PICK n \in Nat : n = Len(x) OBVIOUS
  <2> QED BY <2>1, <2>2 DEF Ended
<1>9. Within(x, rows)
  <2>1. PICK m : m = [j \in 1 .. Len(x) |-> IF j <= k THEN 1 + j ELSE skip + j - 1] OBVIOUS
  <2>2. \A j \in 1 .. Len(x) : IsEvent(x[j]) =>
           \/ j <= k /\ x[j] = rows[1 + j] /\ 1 + j \in 1 .. Len(rows)
           \/ j > k + 1 /\ x[j] = rows[skip + j - 1] /\ skip + j - 1 \in 1 .. Len(rows)
    BY <1>5, <1>7, RowFacts
  <2>3. \A j \in 1 .. Len(x) : IsEvent(x[j]) => m[j] \in 1 .. Len(rows) /\ x[j] = rows[m[j]]
    <3>1. SUFFICES ASSUME NEW j \in 1 .. Len(x), IsEvent(x[j])
                   PROVE  m[j] \in 1 .. Len(rows) /\ x[j] = rows[m[j]]
      OBVIOUS
    <3>2. m[j] = IF j <= k THEN 1 + j ELSE skip + j - 1 BY <2>1
    <3>3. CASE j <= k
      <4>1. ~(j > k + 1) BY <3>3
      <4> QED BY <3>1, <3>2, <3>3, <4>1, <2>2
    <3>4. CASE ~(j <= k) BY <3>1, <3>2, <3>4, <2>2
    <3> QED BY <3>3, <3>4
  <2>4. \A i, j \in 1 .. Len(x) : i < j /\ IsEvent(x[i]) /\ IsEvent(x[j]) => m[i] <= m[j]
    <3>1. SUFFICES ASSUME NEW i \in 1 .. Len(x), NEW j \in 1 .. Len(x), i < j, IsEvent(x[i]), IsEvent(x[j])
                   PROVE  m[i] <= m[j]
      OBVIOUS
    <3>2. (i <= k \/ i > k + 1) /\ (j <= k \/ j > k + 1) BY <3>1, <2>2
    <3>3. /\ m[i] = IF i <= k THEN 1 + i ELSE skip + i - 1
          /\ m[j] = IF j <= k THEN 1 + j ELSE skip + j - 1
      BY <2>1
    <3>4. i \in Nat /\ j \in Nat /\ k \in Nat /\ skip \in Nat BY <1>7
    <3> QED BY <3>1, <3>2, <3>3, <3>4
  <2> QED BY <2>3, <2>4 DEF Within
<1> QED BY <1>1, <1>2, <1>3, <1>4, <1>5, <1>6, <1>7, <1>8, <1>9

LEMMA InterruptKeeps ==
  ASSUME AuditIInv, NEW p \in Procs, Interrupt(p)
  PROVE  AuditIInv'
<1>1. AuditTypeOK /\ Shape /\ Ends /\ Order
  BY DEF AuditIInv
<1>2. /\ holder = p /\ wounds < MaxInterrupts /\ wounds' = wounds + 1 /\ Leave(p)
      /\ surface' = surface /\ limit' = limit /\ upcoming' = upcoming /\ acked' = acked
      /\ raised' = raised /\ leaped' = leaped
  BY DEF Interrupt
<1>3. surface = "remote" /\ p # "free" /\ Place = pc[p]
  BY <1>1, <1>2, ConstantsAreNumbers DEF Shape, AuditTypeOK, Place
<1>4. /\ files = [files EXCEPT ![0] = files[0]] /\ files[0] \in Seq(Rows) /\ Ended(files[0])
      /\ \A j \in 1 .. Len(files[0]) : files[0][j].kind # "legacy"
      /\ limit = 0 => InOrder(files[0]) /\ Before(files[0], upcoming)
  BY <1>3, AsItWas
<1>5. marks \in Seq([pruned : 0..MaxEvents, first : 0..MaxEvents]) /\ marked \in BOOLEAN
  BY <1>1 DEF AuditTypeOK
<1>6. CASE pc[p] = "write"
  <2>1. PICK part \in Parts(event[p]) : files' = [files EXCEPT ![0] = Behind(files[0], part)]
    BY <1>6 DEF Interrupt
  <2>2. marks' = marks /\ marked' = marked
    BY <1>6 DEF Interrupt
  <2>3. PICK x \in Seq(Rows) :
          /\ x = Behind(files[0], part) /\ Ended(x)
          /\ \A j \in 1 .. Len(x) : x[j].kind # "legacy"
          /\ limit = 0 => InOrder(x) /\ Before(x, upcoming)
    BY <1>6, PartWritten
  <2> QED BY <1>2, <1>5, <2>1, <2>2, <2>3, BreakKeeps
<1>7. CASE pc[p] = "mark" /\ ~MarkRefused(edge, armed = "reserved")
  <2>1. /\ marks' \in {marks, Append(marks, BadMark)}
        /\ marked' \in IF marks' = marks THEN {marked, TRUE} ELSE {TRUE}
        /\ files' = files
    BY <1>7 DEF Interrupt
  <2>2. BadMark \in [pruned : 0..MaxEvents, first : 0..MaxEvents]
    BY ConstantsAreNumbers DEF BadMark, Boundary
  <2>3. Append(marks, BadMark) \in Seq([pruned : 0..MaxEvents, first : 0..MaxEvents])
    BY <1>1, <2>2, OneMark
  <2>4. marks' \in Seq([pruned : 0..MaxEvents, first : 0..MaxEvents])
    BY <1>5, <2>1, <2>3
  <2>5. marked' \in BOOLEAN BY <1>5, <2>1
  <2> QED BY <1>2, <1>4, <2>1, <2>4, <2>5, BreakKeeps
<1>8. CASE pc[p] = "overwrite" /\ ~(Len(Parsed(files)) <= Retention)
  <2>1. PICK k \in 0 .. Retention, skip \in 0 .. 2 :
          files' = [files EXCEPT ![0] = SubSeq(Newest(Parsed(files), Retention), 1, k) \o <<Junk>>
                                          \o SubSeq(Parsed(files), k + 1 + skip, Len(Parsed(files)))]
    BY <1>8 DEF Interrupt
  <2>2. marks' = marks /\ marked' = marked
    BY <1>8 DEF Interrupt
  <2>3. /\ Parsed(files) \in Seq(Rows) /\ AllEnded(Parsed(files)) /\ Len(Parsed(files)) <= Retention + 1
    BY <1>8, AtOverwrite
  <2>4. PICK rows \in Seq(Rows) : rows = Parsed(files) BY <2>3
  <2>5. Len(rows) = Retention + 1 /\ Retention \in Nat
    <3>1. PICK n \in Nat : n = Len(rows) OBVIOUS
    <3> QED BY <3>1, <1>8, <2>3, <2>4, ConstantsAreNumbers
  <2>6. PICK x : x = SubSeq(Newest(rows, Retention), 1, k) \o <<Junk>> \o SubSeq(rows, k + 1 + skip, Len(rows))
    OBVIOUS
  <2>7. x \in Seq(Rows) /\ Ended(x) /\ Within(x, rows)
    BY <2>3, <2>4, <2>5, <2>6, Splice
  <2>8. /\ \A j \in 1 .. Len(x) : x[j].kind # "legacy"
        /\ limit = 0 => InOrder(x) /\ Before(x, upcoming)
    BY <1>3, <2>4, <2>7, Rewritten
  <2>9. files' = [files EXCEPT ![0] = x] BY <2>1, <2>4, <2>6
  <2> QED BY <1>2, <1>5, <2>2, <2>7, <2>8, <2>9, BreakKeeps
<1>9. CASE /\ pc[p] # "write" /\ ~(pc[p] = "mark" /\ ~MarkRefused(edge, armed = "reserved"))
           /\ ~(pc[p] = "overwrite" /\ ~(Len(Parsed(files)) <= Retention))
  <2>1. files' = files /\ marks' = marks /\ marked' = marked
    <3>1. CASE pc[p] = "overwrite" BY <1>9, <3>1 DEF Interrupt
    <3>2. CASE pc[p] # "overwrite" BY <1>9, <3>2 DEF Interrupt, disk
    <3> QED BY <3>1, <3>2
  <2> QED BY <1>2, <1>4, <1>5, <2>1, BreakKeeps
<1> QED BY <1>6, <1>7, <1>8, <1>9

-----------------------------------------------------------------------------
(***************************************************************************)
(* The local log: two tables and one transaction.                          *)
(***************************************************************************)
Boundaries == [pruned : 0..MaxEvents, first : 0..MaxEvents]

\* The boundaries continue each other (Linear, of any boundaries).
Continues(bs) ==
  /\ \A j \in 1 .. Len(bs) : 1 <= bs[j].pruned
  /\ \A j \in 2 .. Len(bs) : bs[j].pruned = bs[j - 1].first

\* The local tables are a whole log, and its boundaries.
IsTable(t, n) ==
  /\ t \in [rows : Seq(Rows), marks : Seq(Boundaries)]
  /\ Whole(t.rows, n)
Fits(t) ==
  /\ Continues(t.marks) /\ Begins(t.rows, t.marks)
  /\ t.marks = <<>> \/ Len(t.rows) <= Retention

LEMMA MarkMore ==
  ASSUME NEW bs \in Seq(Boundaries), NEW e \in Boundaries
  PROVE  /\ Append(bs, e) \in Seq(Boundaries) /\ Append(bs, e) # <<>>
         /\ Append(bs, e)[Len(Append(bs, e))] = e
         /\ (Continues(bs) /\ e.pruned >= 1 /\ (bs = <<>> \/ bs[Len(bs)].first = e.pruned)) =>
               Continues(Append(bs, e))
<1>1. ASSUME NEW S, NEW s \in Seq(S), NEW x \in S
      PROVE  /\ Append(s, x) \in Seq(S) /\ Append(s, x) # <<>> /\ Len(Append(s, x)) = Len(s) + 1
             /\ Append(s, x)[Len(s) + 1] = x
             /\ \A j \in 1 .. Len(s) : Append(s, x)[j] = s[j]
             /\ Len(s) \in Nat /\ (Len(s) = 0 => s = <<>>)
  OBVIOUS
<1>2. PICK b : b = Append(bs, e) OBVIOUS
<1>3. /\ b \in Seq(Boundaries) /\ b # <<>> /\ Len(b) = Len(bs) + 1 /\ b[Len(bs) + 1] = e
      /\ \A j \in 1 .. Len(bs) : b[j] = bs[j]
      /\ Len(bs) \in Nat /\ (Len(bs) = 0 => bs = <<>>)
  BY <1>1, <1>2
<1>4. ASSUME Continues(bs), e.pruned >= 1, bs = <<>> \/ bs[Len(bs)].first = e.pruned
      PROVE  Continues(b)
  <2>1. \A j \in 1 .. Len(b) : 1 <= b[j].pruned
    <3>1. \A j \in 1 .. Len(b) : j = Len(bs) + 1 \/ j \in 1 .. Len(bs) BY <1>3
    <3>2. 1 <= b[Len(bs) + 1].pruned
      <4>1. e.pruned \in Nat BY ConstantsAreNumbers DEF Boundaries
      <4> QED BY <4>1, <1>3, <1>4
    <3>3. \A j \in 1 .. Len(bs) : 1 <= b[j].pruned BY <1>3, <1>4 DEF Continues
    <3> QED BY <3>1, <3>2, <3>3
  <2>2. \A j \in 2 .. Len(b) : b[j].pruned = b[j - 1].first
    <3>1. SUFFICES ASSUME NEW j \in 2 .. Len(b) PROVE b[j].pruned = b[j - 1].first
      OBVIOUS
    <3>2. CASE j = Len(bs) + 1
      <4>1. j - 1 = Len(bs) /\ Len(bs) \in 1 .. Len(bs) /\ bs # <<>>
        <5>1. PICK n \in Nat : n = Len(bs) BY <1>3
        <5>2. n # 0 BY <3>1, <3>2, <5>1
        <5>3. bs # <<>>
          <6>1. ASSUME bs = <<>> PROVE Len(bs) = 0 BY <6>1
          <6> QED BY <6>1, <5>1, <5>2
        <5> QED BY <3>2, <5>1, <5>2, <5>3
      <4> QED BY <4>1, <3>2, <1>3, <1>4
    <3>3. CASE j # Len(bs) + 1
      <4>1. j \in 2 .. Len(bs) /\ j - 1 \in 1 .. Len(bs) /\ j \in 1 .. Len(bs)
        BY <3>1, <3>3, <1>3
      <4> QED BY <4>1, <1>3, <1>4 DEF Continues
    <3> QED BY <3>2, <3>3
  <2> QED BY <2>1, <2>2 DEF Continues
<1> QED BY <1>2, <1>3, <1>4

\* _apply_audit_retention()
LEMMA PrunedTable ==
  ASSUME surface = "local", NEW n, NEW t, IsTable(t, n), NEW k \in 1 .. Retention
  PROVE  /\ IsTable(Pruned(t, k), n)
         /\ (/\ Continues(t.marks) /\ Begins(t.rows, t.marks)
             /\ (t.marks = <<>> \/ Len(t.rows) <= k + 1)) => Fits(Pruned(t, k))
<1>1. t \in [rows : Seq(Rows), marks : Seq(Boundaries)] /\ Whole(t.rows, n)
  BY DEF IsTable
<1>2. PICK rows \in Seq(Rows), bs \in Seq(Boundaries) : rows = t.rows /\ bs = t.marks
  BY <1>1
<1>3. PICK l \in Nat : l = Len(rows) OBVIOUS
<1>4. k \in Nat /\ k >= 1 /\ k <= Retention BY ConstantsAreNumbers
<1>5. CASE l <= k
  <2>1. Pruned(t, k) = t BY <1>2, <1>3, <1>5 DEF Pruned
  <2>2. Len(t.rows) <= Retention BY <1>2, <1>3, <1>4, <1>5, ConstantsAreNumbers
  <2> QED BY <2>1, <2>2 DEF Fits
<1>6. CASE ~(l <= k)
  <2>1. Pruned(t, k) = [rows |-> Newest(rows, k), marks |-> Append(bs, EdgeOf(rows, k))]
    BY <1>2, <1>3, <1>6 DEF Pruned
  <2>2. PICK d \in 0 .. Len(rows) : d = l - k /\ d >= 1 /\ d < l /\ Len(rows) - d = k
                                   /\ d \in 1 .. Len(rows) /\ d + 1 \in 1 .. Len(rows)
    <3>0. l - k \in Nat
      <4>1. PICK m \in Nat : m = k BY <1>4
      <4> QED BY <1>3, <1>6, <4>1
    <3>1. PICK d \in Nat : d = l - k BY <3>0
    <3>2. d >= 1 /\ d < l /\ l - d = k /\ d \in 0 .. l /\ d \in 1 .. l /\ d + 1 \in 1 .. l
      BY <1>3, <1>4, <1>6, <3>1
    <3> QED BY <1>3, <3>1, <3>2
  <2>3. PICK new : new = SubSeq(rows, d + 1, Len(rows)) OBVIOUS
  <2>4. /\ new \in Seq(Rows) /\ Len(new) = k /\ Whole(new, n) /\ new # <<>>
        /\ \A i \in 1 .. k : new[i] = rows[d + i]
    BY <1>1, <1>2, <1>3, <2>2, <2>3, NewestIsWhole, SMTT(30)
  <2>5. Newest(rows, k) = new BY <1>3, <2>2, <2>3 DEF Newest
  <2>6. PICK e \in Boundaries : /\ e = EdgeOf(rows, k)
                                /\ e.pruned = rows[d].id /\ e.first = rows[d + 1].id
    <3>1. k < Len(rows) BY <1>3, <1>6, <1>4
    <3>2. EdgeOf(rows, k) \in Boundaries
          /\ EdgeOf(rows, k).pruned = rows[Len(rows) - k].id
          /\ EdgeOf(rows, k).first = rows[Len(rows) - k + 1].id
      BY <1>4, <3>1, EdgeType DEF Boundaries
    <3>3. Len(rows) - k = d /\ Len(rows) - k + 1 = d + 1 BY <1>3, <2>2
    <3> QED BY <3>2, <3>3
  <2>7. Append(bs, e) \in Seq(Boundaries) /\ Append(bs, e) # <<>> /\ Append(bs, e)[Len(Append(bs, e))] = e
    BY MarkMore
  <2>8. PICK u : u = Pruned(t, k) OBVIOUS
  <2>9. u = [rows |-> new, marks |-> Append(bs, e)]
    BY <2>1, <2>5, <2>6, <2>8
  <2>10. IsTable(u, n)
    BY <2>4, <2>7, <2>9 DEF IsTable
  <2>11. rows[d].id >= 1 /\ rows[d].id \in Nat
    <3>1. rows[d] \in Rows BY <2>2
    <3> QED BY <3>1, <1>1, <1>2, <2>2, ConstantsAreNumbers DEF Whole, Rows
  <2>12. new[1] = rows[d + 1] BY <2>4, <1>4
  <2>13. rows[d + 1].kind = "event" => rows[d + 1].prev = rows[d].id
    <3>1. d \in 1 .. Len(rows) - 1 BY <1>3, <2>2
    <3> QED BY <3>1, <1>1, <1>2 DEF Whole
  <2>14. ASSUME Continues(t.marks), Begins(t.rows, t.marks), t.marks = <<>> \/ Len(t.rows) <= k + 1
         PROVE  Fits(u)
    <3>1. bs = <<>> \/ bs[Len(bs)].first = e.pruned
      <4>1. SUFFICES ASSUME bs # <<>> PROVE bs[Len(bs)].first = e.pruned
        OBVIOUS
      <4>2. d = 1
        <5>1. l <= k + 1 BY <4>1, <2>14, <1>2, <1>3
        <5> QED BY <5>1, <1>4, <1>6, <2>2
      <4>3. rows[1].id = bs[Len(bs)].first BY <4>1, <2>14, <1>2 DEF Begins
      <4> QED BY <4>2, <4>3, <2>6
    <3>2. Continues(Append(bs, e))
      <4>1. Continues(bs) BY <2>14, <1>2
      <4> QED BY <3>1, <4>1, <2>6, <2>11, MarkMore
    <3>3. Begins(new, Append(bs, e))
      BY <2>4, <2>6, <2>7, <2>12, <2>13 DEF Begins
    <3>4. Len(new) <= Retention BY <2>4, <1>4
    <3> QED BY <3>2, <3>3, <3>4, <2>9 DEF Fits
  <2> QED BY <2>8, <2>10, <2>14
<1> QED BY <1>5, <1>6

\* _audit()
LEMMA AuditedTable ==
  ASSUME surface = "local", NEW i \in 1 .. MaxEvents, NEW t, IsTable(t, i)
  PROVE  /\ IsTable(Audited(t, i), i + 1)
         /\ Fits(t) => Fits(Audited(t, i))
<1>1. t \in [rows : Seq(Rows), marks : Seq(Boundaries)] /\ Whole(t.rows, i)
  BY DEF IsTable
<1>2. PICK rows \in Seq(Rows), bs \in Seq(Boundaries) : rows = t.rows /\ bs = t.marks
  BY <1>1
<1>3. i \in Nat /\ i >= 1 /\ i \in 0 .. MaxEvents BY ConstantsAreNumbers
<1>4. PICK e \in Rows : /\ e = Event("event", i, IF rows = <<>> THEN 0 ELSE Last(rows).id)
                        /\ e.kind = "event" /\ e.id = i /\ e.prev = IdOfLast(rows)
  <2>1. IdOfLast(rows) \in 0 .. MaxEvents
    <3>1. CASE rows = <<>> BY <3>1, ConstantsAreNumbers DEF IdOfLast
    <3>2. CASE rows # <<>>
      <4>1. rows[Len(rows)] \in Rows BY <3>2
      <4> QED BY <4>1, <3>2 DEF IdOfLast, Rows
    <3> QED BY <3>1, <3>2
  <2>2. (IF rows = <<>> THEN 0 ELSE Last(rows).id) = IdOfLast(rows)
    BY DEF IdOfLast, Last
  <2>3. Event("event", i, IdOfLast(rows)) \in Rows
    BY <1>3, <2>1 DEF Event, Rows
  <2> QED BY <2>2, <2>3 DEF Event
<1>5. PICK more : more = Append(rows, e) OBVIOUS
<1>6. PICK u : u = [t EXCEPT !.rows = more] OBVIOUS
<1>7. Audited(t, i) = Pruned(u, Retention)
  BY <1>2, <1>4, <1>5, <1>6 DEF Audited
<1>8. /\ more \in Seq(Rows) /\ Len(more) = Len(rows) + 1 /\ Len(rows) \in Nat /\ more # <<>>
      /\ rows = <<>> => more[1] = e
      /\ rows # <<>> => more[1] = rows[1]
  BY <1>5
<1>9. Whole(more, i + 1)
  <2>1. \A j \in 1 .. Len(rows) : rows[j] \in Rows OBVIOUS
  <2>2. \A j \in 1 .. Len(rows) : rows[j].id \in Nat BY <2>1, ConstantsAreNumbers DEF Rows
  <2>3. Whole(rows, i + 1) BY <1>1, <1>2, <1>3, <2>2 DEF Whole
  <2>4. \A j \in 1 .. Len(rows) : rows[j].id < e.id BY <1>1, <1>2, <1>4 DEF Whole
  <2>5. e.id >= 1 /\ e.id < i + 1 /\ i + 1 \in Nat BY <1>3, <1>4
  <2> QED BY <1>4, <1>5, <2>3, <2>4, <2>5, MoreIsWhole
<1>10. u \in [rows : Seq(Rows), marks : Seq(Boundaries)] /\ u.rows = more /\ u.marks = bs
  BY <1>1, <1>2, <1>6, <1>8
<1>11. IsTable(u, i + 1)
  BY <1>9, <1>10 DEF IsTable
<1>12. Retention \in 1 .. Retention BY ConstantsAreNumbers
<1>13. IsTable(Pruned(u, Retention), i + 1)
  BY <1>11, <1>12, PrunedTable
<1>14. ASSUME Fits(t) PROVE Fits(Pruned(u, Retention))
  <2>1. Begins(more, bs)
    BY <1>2, <1>4, <1>8, <1>14 DEF Fits, Begins, IdOfLast
  <2>2. bs = <<>> \/ Len(more) <= Retention + 1
    BY <1>2, <1>8, <1>14, ConstantsAreNumbers DEF Fits
  <2>3. Continues(bs) BY <1>2, <1>14 DEF Fits
  <2> QED BY <1>10, <1>11, <1>12, <2>1, <2>2, <2>3, PrunedTable
<1> QED BY <1>7, <1>13, <1>14

\* The tables that a local operation starts from.
LEMMA AtLocal ==
  ASSUME AuditIInv, surface = "local"
  PROVE  /\ IsTable(AuditTables, upcoming) /\ AuditTables.rows = files[0] /\ AuditTables.marks = marks
         /\ ~leaped => Fits(AuditTables)
         /\ holder = "free" /\ Place = "idle" /\ Flat /\ wounds = 0 /\ ~marked /\ ~raised /\ limit = 0
         /\ files \in Generations /\ upcoming \in Nat /\ upcoming >= 1
         /\ old = <<>> /\ edge = NoEdge /\ reached = 0 /\ ~wrote /\ armed = "no"
         /\ \A p \in Procs : event[p] = Junk
<1>1. AuditTypeOK /\ Shape /\ Ends /\ Chain /\ Fit
  BY DEF AuditIInv
<1>2. holder = "free" /\ limit = 0 /\ wounds = 0 /\ ~marked /\ ~raised /\ Flat
  BY <1>1 DEF Shape
<1>3. Place = "idle" BY <1>1, <1>2, Idle
<1>4. old = <<>> /\ edge = NoEdge /\ reached = 0 /\ ~wrote /\ armed = "no"
  BY <1>1, <1>2 DEF Shape
<1>5. \A p \in Procs : event[p] = Junk
  BY <1>1, <1>2, ConstantsAreNumbers DEF Shape
<1>6. files \in Generations /\ files[0] \in Seq(Rows) BY <1>1, LogType
<1>7. Lines(files) = files[0] BY <1>2, <1>6, LinesOfFlat DEF Flat
<1>8. Log = files[0] BY <1>3, <1>7 DEF Log
<1>9. Whole(files[0], upcoming) BY <1>1, <1>2, <1>8 DEF Chain
<1>10. marks \in Seq(Boundaries) BY <1>1 DEF AuditTypeOK, Boundaries
<1>11. /\ AuditTables \in [rows : Seq(Rows), marks : Seq(Boundaries)]
       /\ AuditTables.rows = files[0] /\ AuditTables.marks = marks
  BY <1>6, <1>10 DEF AuditTables
<1>12. ASSUME ~leaped PROVE Fits(AuditTables)
  <2>1. Linear /\ Begins(files[0], marks) /\ (marks = <<>> \/ Len(files[0]) <= Retention)
    BY <1>1, <1>2, <1>3, <1>4, <1>8, <1>12 DEF Fit
  <2>2. Continues(marks) BY <2>1 DEF Linear, Continues
  <2> QED BY <1>11, <2>1, <2>2 DEF Fits
<1>13. upcoming \in Nat /\ upcoming >= 1 BY <1>1, ConstantsAreNumbers DEF AuditTypeOK
<1> QED BY <1>2, <1>3, <1>4, <1>5, <1>6, <1>9, <1>11, <1>12, <1>13 DEF IsTable

\* What a local operation leaves.
LEMMA LocalKeeps ==
  ASSUME AuditIInv, surface = "local",
         surface' = surface, limit' = limit, marked' = marked, holder' = holder,
         pc' = pc, event' = event, old' = old, edge' = edge, reached' = reached, wrote' = wrote,
         armed' = armed, raised' = raised, wounds' = wounds,
         upcoming' \in 1 .. MaxEvents + 1, acked' \subseteq 1 .. MaxEvents, leaped' \in BOOLEAN,
         NEW t, IsTable(t, upcoming'), ~leaped' => Fits(t),
         files' = [files EXCEPT ![0] = t.rows], marks' = t.marks
  PROVE  AuditIInv'
<1>1. AuditTypeOK /\ Shape /\ Ends /\ Order
  BY DEF AuditIInv
<1>2. /\ holder = "free" /\ Place = "idle" /\ Flat /\ wounds = 0 /\ ~marked /\ ~raised /\ limit = 0
      /\ old = <<>> /\ edge = NoEdge /\ reached = 0 /\ ~wrote /\ armed = "no"
      /\ \A p \in Procs : event[p] = Junk
  BY AtLocal
<1>3. PICK x \in Seq(Rows) : x = t.rows BY DEF IsTable
<1>4. marks' \in Seq(Boundaries) /\ Whole(x, upcoming') BY <1>3 DEF IsTable
<1>5. Ended(x)
  <2>1. \A j \in 1 .. Len(x) : x[j].kind \in {"event", "legacy"} BY <1>4 DEF Whole, Kinds
  <2>2. \A j \in 1 .. Len(x) - 1 : j \in 1 .. Len(x) BY <1>3
  <2> QED BY <2>1, <2>2 DEF Ended, Unended
<1>6. /\ files' \in Generations /\ files' \in [0 .. Retain -> Seq(Rows)] /\ files'[0] = x /\ Flat'
      /\ \A i \in 0 .. Retain : Ended(files'[i])
  BY <1>1, <1>2, <1>3, <1>5, Replaced
<1>7. Place' = "idle" /\ ~Pending'
  BY <1>2, ConstantsAreNumbers DEF Place, Pending
<1>8. Log' = x
  <2>1. Lines(files') = files'[0] BY <1>6, LinesOfFlat DEF Flat
  <2>2. Log' = Lines(files') BY <1>7 DEF Log
  <2> QED BY <2>1, <2>2, <1>6
<1>9. AuditTypeOK'
  BY <1>1, <1>4, <1>6 DEF AuditTypeOK, Boundaries
<1>10. Shape'
  BY <1>1, <1>2, <1>6, <1>7 DEF Shape
<1>11. Ends'
  BY <1>2, <1>6, <1>7 DEF Ends
<1>12. Order'
  BY DEF Order
<1>13. Chain'
  <2>1. Whole(Log, upcoming)' BY <1>4, <1>8 DEF Whole, Kinds
  <2> QED BY <1>2, <1>7, <2>1 DEF Chain
<1>14. Fit'
  <2>1. SUFFICES ASSUME ~leaped' PROVE Fit'
    BY DEF Fit
  <2>2. /\ Continues(marks') /\ Begins(x, marks') /\ (marks' = <<>> \/ Len(x) <= Retention)
    BY <2>1, <1>3 DEF Fits
  <2>3. Linear' BY <2>2 DEF Linear, Continues
  <2>4. Begins(Log, marks)' BY <2>2, <1>8 DEF Begins
  <2> QED BY <1>2, <1>6, <1>7, <2>2, <2>3, <2>4 DEF Fit
<1> QED BY <1>9, <1>10, <1>11, <1>12, <1>13, <1>14 DEF AuditIInv

LEMMA LocalRotateKeeps ==
  ASSUME AuditIInv, NEW k \in 1 .. Retention, LocalRotate(k)
  PROVE  AuditIInv'
<1>1. /\ surface = "local"
      /\ files' = [files EXCEPT ![0] = Pruned(AuditTables, k).rows] /\ marks' = Pruned(AuditTables, k).marks
      /\ leaped' = (leaped \/ Len(files[0]) > k + 1)
      /\ UNCHANGED <<surface, limit, marked, holder, pc, event, old, edge, reached, wrote, armed,
                     upcoming, acked, raised, wounds>>
  BY DEF LocalRotate, Local, ctl
<1>2. AuditTypeOK BY DEF AuditIInv
<1>3. /\ IsTable(AuditTables, upcoming) /\ AuditTables.rows = files[0] /\ AuditTables.marks = marks
      /\ ~leaped => Fits(AuditTables)
      /\ files \in Generations
  BY <1>1, AtLocal
<1>4. PICK t : t = Pruned(AuditTables, k) OBVIOUS
<1>5. IsTable(t, upcoming)
  BY <1>1, <1>3, <1>4, PrunedTable
<1>6. ASSUME ~leaped' PROVE Fits(t)
  <2>1. ~leaped /\ ~(Len(files[0]) > k + 1) BY <1>1, <1>6, Zenon
  <2>2. Len(files[0]) <= k + 1
    <3>1. PICK s \in Seq(Rows) : s = files[0] BY <1>3, ConstantsAreNumbers DEF Generations
    <3>2. PICK n \in Nat : n = Len(s) OBVIOUS
    <3>3. PICK m \in Nat : m = k BY ConstantsAreNumbers
    <3> QED BY <2>1, <3>1, <3>2, <3>3
  <2>3. Continues(AuditTables.marks) /\ Begins(AuditTables.rows, AuditTables.marks)
    BY <1>3, <2>1 DEF Fits
  <2> QED BY <1>1, <1>3, <1>4, <2>2, <2>3, PrunedTable
<1>7. leaped' \in BOOLEAN BY <1>1, <1>2 DEF AuditTypeOK
<1>8. upcoming' \in 1 .. MaxEvents + 1 /\ acked' \subseteq 1 .. MaxEvents
  BY <1>1, <1>2 DEF AuditTypeOK
<1> QED BY <1>1, <1>4, <1>5, <1>6, <1>7, <1>8, LocalKeeps

-----------------------------------------------------------------------------
(***************************************************************************)
(* Every step, and the theorems.                                           *)
(***************************************************************************)
\* The tables after one or two events.
LEMMA AfterEvents ==
  ASSUME NEW n \in 1 .. 2
  PROVE  LET after[i \in 0..n] ==
               IF i = 0 THEN AuditTables ELSE Audited(after[i - 1], upcoming + i - 1)
             one == Audited(AuditTables, upcoming + 1 - 1)
         IN  after[n] = IF n = 1 THEN one ELSE Audited(one, upcoming + 2 - 1)
<1> DEFINE Body(k) == [i \in 0 .. n |-> IF i = 0 THEN AuditTables ELSE Audited(k[i - 1], upcoming + i - 1)]
           one == Audited(AuditTables, upcoming + 1 - 1)
           two == Audited(one, upcoming + 2 - 1)
           chosen == CHOOSE k : k = Body(k)
<1>1. PICK g : g = [i \in 0 .. n |-> IF i = 0 THEN AuditTables ELSE IF i = 1 THEN one ELSE two]
  OBVIOUS
<1>2. g = Body(g)
  <2>1. \A i \in 0 .. n : i = 0 \/ (i = 1 /\ 0 \in 0 .. n) \/ (i = 2 /\ 1 \in 0 .. n) OBVIOUS
  <2>2. g[0] = AuditTables /\ (1 \in 0 .. n => g[1] = one)
    <3> HIDE DEF one, two
    <3> QED BY <1>1
  <2>3. ASSUME NEW i \in 0 .. n PROVE g[i] = IF i = 0 THEN AuditTables ELSE Audited(g[i - 1], upcoming + i - 1)
    <3>1. CASE i = 0 BY <2>2, <3>1
    <3>2. CASE i = 1 BY <2>2, <3>2
    <3>3. CASE i = 2
      <4>1. g[2] = two
        <5> HIDE DEF one, two
        <5> QED BY <1>1, <3>3
      <4>2. g[1] = one BY <2>1, <2>2, <3>3
      <4> QED BY <3>3, <4>1, <4>2
    <3> QED BY <2>1, <3>1, <3>2, <3>3
  <2>4. g = [i \in 0 .. n |-> g[i]]
    <3> HIDE DEF one, two
    <3> QED BY <1>1
  <2> QED BY <2>3, <2>4
<1>3. chosen = Body(chosen)
  BY <1>2
<1> HIDE DEF chosen
<1>4. /\ 0 \in 0 .. n /\ 1 \in 0 .. n /\ n \in 0 .. n /\ n \in {1, 2} OBVIOUS
<1>5. chosen[0] = AuditTables
  BY <1>3, <1>4, Zenon
<1>6. chosen[1] = one
  <2>1. chosen[1] = Audited(chosen[1 - 1], upcoming + 1 - 1)
    <3>1. 1 # 0 OBVIOUS
    <3> QED BY <1>3, <1>4, <3>1, Zenon
  <2>2. 1 - 1 = 0 OBVIOUS
  <2> QED BY <2>1, <2>2, <1>5
<1>7. n = 2 => chosen[2] = two
  <2>1. SUFFICES ASSUME n = 2 PROVE chosen[2] = two
    OBVIOUS
  <2>2. chosen[2] = Audited(chosen[2 - 1], upcoming + 2 - 1)
    <3>1. 2 # 0 /\ 2 \in 0 .. n BY <2>1
    <3> QED BY <1>3, <3>1, Zenon
  <2>3. 2 - 1 = 1 OBVIOUS
  <2> QED BY <2>2, <2>3, <1>6
<1>8. chosen[n] = IF n = 1 THEN one ELSE two
  BY <1>4, <1>6, <1>7
<1> QED BY <1>8, Zenon DEF chosen

LEMMA LocalAppendKeeps ==
  ASSUME AuditIInv, NEW n \in 1 .. 2, LocalAppend(n)
  PROVE  AuditIInv'
<1> DEFINE one == Audited(AuditTables, upcoming + 1 - 1)
           last == IF n = 1 THEN one ELSE Audited(one, upcoming + 2 - 1)
<1>1. /\ surface = "local" /\ upcoming + n <= MaxEvents + 1
      /\ upcoming' = upcoming + n
      /\ acked' = acked \cup (upcoming..upcoming + n - 1)
      /\ UNCHANGED <<surface, limit, marked, holder, pc, event, old, edge, reached, wrote, armed,
                     raised, wounds, leaped>>
  BY DEF LocalAppend, Local, ctl
<1>2. files' = [files EXCEPT ![0] = last.rows] /\ marks' = last.marks
  <2> DEFINE after[i \in 0..n] ==
               IF i = 0 THEN AuditTables ELSE Audited(after[i - 1], upcoming + i - 1)
  <2>1. files' = [files EXCEPT ![0] = after[n].rows] /\ marks' = after[n].marks
    BY DEF LocalAppend
  <2>2. after[n] = last
    BY AfterEvents
  <2> HIDE DEF after, last
  <2> QED BY <2>1, <2>2
<1>3. /\ IsTable(AuditTables, upcoming) /\ (~leaped => Fits(AuditTables))
      /\ upcoming \in Nat /\ upcoming >= 1
  BY <1>1, AtLocal
<1>4. /\ upcoming \in 1 .. MaxEvents /\ upcoming' \in 1 .. MaxEvents + 1
      /\ upcoming + 1 - 1 = upcoming /\ upcoming + 2 - 1 = upcoming + 1
      /\ (n = 2 => upcoming + 1 \in 1 .. MaxEvents) /\ n \in {1, 2}
      /\ (n = 2 => upcoming' = upcoming + 1 + 1) /\ (n = 1 => upcoming' = upcoming + 1)
      /\ upcoming..upcoming + n - 1 \subseteq 1 .. MaxEvents
  BY <1>1, <1>3, ConstantsAreNumbers
<1>5. IsTable(one, upcoming + 1) /\ (~leaped => Fits(one))
  BY <1>1, <1>3, <1>4, AuditedTable
<1> HIDE DEF one
<1>6. n = 2 => IsTable(Audited(one, upcoming + 1), upcoming + 1 + 1)
               /\ (~leaped => Fits(Audited(one, upcoming + 1)))
  BY <1>1, <1>4, <1>5, AuditedTable
<1>7. IsTable(last, upcoming') /\ (~leaped' => Fits(last))
  <2>1. CASE n = 1 BY <2>1, <1>1, <1>4, <1>5
  <2>2. CASE n = 2
    <3>1. last = Audited(one, upcoming + 1) BY <2>2, <1>4
    <3> QED BY <2>2, <3>1, <1>1, <1>4, <1>6
  <2> QED BY <2>1, <2>2, <1>4
<1> HIDE DEF last
<1>8. AuditTypeOK BY DEF AuditIInv
<1>9. acked' \subseteq 1 .. MaxEvents /\ leaped' \in BOOLEAN
  BY <1>1, <1>4, <1>8 DEF AuditTypeOK
<1> QED BY <1>1, <1>2, <1>4, <1>7, <1>9, LocalKeeps

LEMMA StutterKeeps ==
  ASSUME AuditIInv, UNCHANGED auditVars
  PROVE  AuditIInv'
<1>1. /\ UNCHANGED <<surface, limit, files, marks, marked, holder, pc, event, old, edge, reached,
                     wrote, armed, upcoming, acked, raised, wounds, leaped>>
  BY DEF auditVars, disk, ctl, past
<1>2. Place' = Place BY <1>1 DEF Place
<1>3. Log' = Log BY <1>1, <1>2 DEF Log
<1>4. AuditTypeOK' BY <1>1 DEF AuditIInv, AuditTypeOK
<1>5. Shape' BY <1>1, <1>2 DEF AuditIInv, Shape, Flat
<1>6. Ends' BY <1>1, <1>2 DEF AuditIInv, Ends
<1>7. Order' BY <1>1, <1>2 DEF AuditIInv, Order, InOrder, Before, Pending
<1>8. Chain' BY <1>1, <1>2, <1>3 DEF AuditIInv, Chain, Whole, Kinds, Pending, IdOfLast, Lost
<1>9. Fit' BY <1>1, <1>2, <1>3 DEF AuditIInv, Fit, Linear, Begins, Lost
<1> QED BY <1>4, <1>5, <1>6, <1>7, <1>8, <1>9 DEF AuditIInv

LEMMA NextAuditIInv == AuditIInv /\ [AuditNext]_auditVars => AuditIInv'
<1>1. SUFFICES ASSUME AuditIInv, [AuditNext]_auditVars PROVE AuditIInv'
  OBVIOUS
<1>2. ASSUME NEW p \in Procs, RemoteStep(p) PROVE AuditIInv'
  BY <1>1, <1>2, BeginAppendKeeps, BeginRotateKeeps, ShiftKeeps, RecordKeeps, WriteKeeps, TrimKeeps,
     DropKeeps, MarkKeeps, ContinueKeeps, BeginRecorderKeeps, ArmKeeps, RecorderAppendKeeps,
     OverwriteKeeps, CutKeeps, InterruptKeeps DEF RemoteStep
<1>3. ASSUME NEW n \in 1 .. 2, LocalAppend(n) PROVE AuditIInv'
  BY <1>1, <1>3, LocalAppendKeeps
<1>4. ASSUME NEW k \in 1 .. Retention, LocalRotate(k) PROVE AuditIInv'
  BY <1>1, <1>4, LocalRotateKeeps
<1>5. ASSUME UNCHANGED auditVars PROVE AuditIInv'
  BY <1>1, <1>5, StutterKeeps
<1> QED BY <1>1, <1>2, <1>3, <1>4, <1>5 DEF AuditNext

\* What an operation of the audit log keeps in its variables and its files is
\* true at each of its steps, in every process, after any interruption.
THEOREM AuditIsInvariant == AuditSpec => []AuditIInv
<1>1. AuditInit => AuditIInv BY InitAuditIInv
<1>2. AuditIInv /\ [AuditNext]_auditVars => AuditIInv' BY NextAuditIInv
<1> QED BY <1>1, <1>2, PTL DEF AuditSpec

\* The files, the boundaries and the variables of every operation stay well-formed.
THEOREM AuditIsTyped == AuditSpec => []AuditTypeOK
<1>1. AuditIInv => AuditTypeOK BY DEF AuditIInv
<1> QED BY <1>1, AuditIsInvariant, PTL

\* While no operation was interrupted, each event is linked to the one before
\* it, across generations and boundaries, and no operation has refused the log
\* (verify_event_chain, AuditLog.events).
THEOREM ChainStaysWhole == AuditSpec => []ChainIsWhole
<1>1. AuditIInv => ChainIsWhole BY ChainFollows
<1> QED BY <1>1, AuditIsInvariant, PTL

\* A remote log without a size limit never shows an event linked to something
\* other than the event before it, whatever was interrupted.
THEOREM LinksAlwaysSurvive == AuditSpec => []LinksSurvive
<1>1. AuditIInv => LinksSurvive BY LinksFollow
<1> QED BY <1>1, AuditIsInvariant, PTL
=============================================================================
