------------------------------ MODULE AuditLog ------------------------------
(***************************************************************************)
(* The two audit stores of Astral Project.                                 *)
(*                                                                         *)
(*   audit/events.py   AuditLog: JSONL file with rotated generations and   *)
(*                     a file of pruning boundaries, all under one flock;  *)
(*                     AuditFailureRecorder, which keeps the lock and      *)
(*                     writes in place; validate_chain()                   *)
(*   state/sqlite.py   the audit_events and audit_retention_boundary       *)
(*                     tables, written inside the caller's transaction     *)
(*                                                                         *)
(* Both chain their events, prune the oldest beyond a limit and record     *)
(* the boundary.  A behaviour is one of either surface.  On the remote     *)
(* surface every system call is a step and any of them may be the last of  *)
(* its process, or fail: what is on disk then is what was written so far.  *)
(* Sizes are counted in lines.                                             *)
(***************************************************************************)
EXTENDS Naturals, Sequences, SequencesExt, FiniteSets

CONSTANTS
  Procs,          \* processes that may hold the remote log open
  Retain,         \* AuditLog.retain: number of rotated generations
  Retention,      \* AuditLog.retention, StateDatabase.retention_limit
  Limits,         \* values AuditLog.max_bytes may have, 0 for None
  MaxEvents,      \* bound on events ever created
  MaxInterrupts   \* bound on processes killed, or failing, halfway

ASSUME ConstantsAssumption ==
  /\ Retain \in Nat \ {0} /\ Retention \in Nat \ {0}
  /\ Limits \subseteq Nat
  /\ MaxEvents \in Nat \ {0, 1} /\ MaxInterrupts \in Nat
  /\ "free" \notin Procs

VARIABLES
  surface,     \* "remote" (JSONL) or "local" (SQLite)
  limit,       \* max_bytes of this log, 0 for None
  files,       \* rows of the active file (0) and its generations; local: of the table
  marks,       \* rows of the boundary file or table
  marked,      \* the boundary file exists
  holder,      \* who has the exclusive flock
  pc,          \* where each process is in its operation
  event,       \* the event an append has made
  old,         \* identifiers readable when a rotation began
  edge,        \* the boundary an operation is about to record
  reached,     \* generation a loop has reached
  wrote,       \* whether the operation has written its event
  armed,       \* a recorder: "no", "wanted" until its descriptors are open, then
               \* "bare" or "reserved" (it has a boundary descriptor)
  upcoming,    \* next event identifier
  acked,       \* events whose append returned
  raised,      \* some operation failed by AuditEventError
  wounds,      \* number of interruptions
  leaped       \* one step pruned several events, or an event without a link

disk == <<files, marks, marked>>
ctl == <<pc, event, old, edge, reached, wrote, armed>>
past == <<acked, raised, wounds, leaped>>
auditVars == <<surface, limit, disk, holder, ctl, upcoming, past>>

-----------------------------------------------------------------------------
(* Rows                                                                    *)

\* A parsed line; "open" lacks only its newline, "legacy" has no link.
Event(k, i, p) == [kind |-> k, id |-> i, prev |-> p]
Junk == Event("junk", 0, 0)    \* a line that does not parse
Torn == Event("torn", 0, 0)    \* the same, without a newline
IsEvent(r) == r.kind \in {"event", "open", "legacy"}
Unended(r) == r.kind \in {"open", "torn"}

\* What a file holds after `more` is written behind its rows: the first line
\* joins one that has no end.
Behind(rows, more) ==
  IF rows = <<>> \/ more = <<>> THEN rows \o more
  ELSE IF Unended(Last(rows))
       THEN Front(rows) \o <<IF Unended(Head(more)) THEN Torn ELSE Junk>> \o Tail(more)
       ELSE rows \o more

\* Mutant: lines taken without their newline.
JoinedWithoutEnds(rows) == IF Len(rows) < 2 THEN rows ELSE <<Junk>>

\* Lines taken from several files and written one behind the other.
Joined(rows) ==
  LET sofar[i \in 0..Len(rows)] ==
        IF i = 0 THEN <<>> ELSE Behind(sofar[i - 1], <<rows[i]>>)
  IN  sofar[Len(rows)]

\* All lines, oldest first, as _read_paths() visits them.
Lines(f) == FlattenSeq([i \in 1..Retain + 1 |-> f[Retain + 1 - i]])

\* list_audit_events(): a legacy row is linked to the one before it.
Linked(rows) ==
  [i \in 1..Len(rows) |->
     IF rows[i].kind # "legacy" THEN rows[i]
     ELSE [rows[i] EXCEPT !.prev = IF i = 1 THEN 0 ELSE rows[i - 1].id]]

\* Those of the rows that are events (what SelectSeq returns, as a function).
Events(rows) ==
  LET kept[i \in 0..Len(rows)] ==
        IF i = 0 THEN <<>>
        ELSE IF IsEvent(rows[i]) THEN Append(kept[i - 1], rows[i]) ELSE kept[i - 1]
  IN  kept[Len(rows)]

\* The lines that parse, and the events a reader gets from them.
Parsed(f) == Events(Lines(f))
Readable(f) == Linked(Parsed(f))

Ids(rows) == [i \in 1..Len(rows) |-> rows[i].id]
LastId(f) == IF Readable(f) = <<>> THEN 0 ELSE Last(Readable(f)).id

\* Mutant: the new event is linked to the oldest event that is read.
NewEventOnOldest ==
  Event("event", upcoming, IF Readable(files) = <<>> THEN 0 ELSE Head(Readable(files)).id)

NewEvent == Event("event", upcoming, LastId(files))

-----------------------------------------------------------------------------
(* Boundaries and the chain                                                *)

Boundary(p, f) == [pruned |-> p, first |-> f]
NoEdge == Boundary(0, 0)
BadMark == Boundary(0, 1)      \* a line that does not parse
MarksParse == BadMark \notin ToSet(marks)

\* validate_chain(): identifiers that do not link, 0 for "retention-boundary".
ChainErrors ==
  LET events == Readable(files)
      Expected(i) == IF i > 1 THEN events[i - 1].id
                     ELSE IF marks = <<>> THEN 0
                     ELSE IF events[1].id # Last(marks).first THEN 0
                     ELSE Last(marks).pruned
  IN  IF ~MarksParse \/ (marked /\ marks = <<>>) THEN {0}
      ELSE {0 : i \in {j \in 2..Len(marks) : marks[j].pruned # marks[j - 1].first}}
             \cup (IF events # <<>> /\ marks # <<>> /\ events[1].id # Last(marks).first
                   THEN {0} ELSE {})
             \cup {events[i].id : i \in {j \in 1..Len(events) :
                     \/ events[j].prev # Expected(j)
                     \/ \E k \in 1..j - 1 : events[k].id = events[j].id}}

\* _append_boundary_unlocked() refuses a history that is not linear.
MarkRefused(e, allowEmpty) ==
  \/ ~MarksParse
  \/ marked /\ marks = <<>> /\ ~allowEmpty
  \/ marks # <<>> /\ Last(marks) # e /\ Last(marks).first # e.pruned

\* Mutant: the boundary names the first event that is kept as the last pruned.
EdgeOfKept(rows, keep) ==
  Boundary(rows[Len(rows) - keep + 1].id, rows[Len(rows) - keep + 1].id)

\* The boundary of pruning `rows` to its newest `keep`.
EdgeOf(rows, keep) ==
  Boundary(rows[Len(rows) - keep].id, rows[Len(rows) - keep + 1].id)
Newest(rows, keep) == SubSeq(rows, Len(rows) - keep + 1, Len(rows))

-----------------------------------------------------------------------------
\* A database made by an older release has rows without links, or has been
\* migrated by _ensure_audit_boundary_table() with its one boundary.
Legacy(n) == [i \in 1..n |-> Event("legacy", i, 0)]
FirstRows == {Legacy(n) : n \in 0..2} \cup {<<Event("event", 2, 1)>>}

AuditInit ==
  /\ surface \in {"remote", "local"}
  /\ limit \in IF surface = "remote" THEN Limits ELSE {0}
  /\ \E rows \in IF surface = "remote" THEN {<<>>} ELSE FirstRows :
       /\ files = [i \in 0..Retain |-> IF i = 0 THEN rows ELSE <<>>]
       /\ upcoming = IF rows = <<>> THEN 1 ELSE Last(rows).id + 1
       /\ marks = IF rows # <<>> /\ Head(rows).prev = 1 THEN <<Boundary(1, 2)>> ELSE <<>>
  /\ marked = FALSE
  /\ holder = "free"
  /\ pc = [p \in Procs |-> "idle"]
  /\ event = [p \in Procs |-> Junk] /\ old = <<>> /\ edge = NoEdge /\ reached = 0
  /\ wrote = FALSE /\ armed = "no"
  /\ acked = {} /\ raised = FALSE /\ wounds = 0 /\ leaped = FALSE

Go(p, l) == pc' = [pc EXCEPT ![p] = l]

\* The operation of p is over and its lock is released.
Leave(p) ==
  /\ Go(p, "idle")
  /\ holder' = "free"
  /\ event' = [event EXCEPT ![p] = Junk]
  /\ old' = <<>> /\ edge' = NoEdge /\ reached' = 0 /\ wrote' = FALSE /\ armed' = "no"

-----------------------------------------------------------------------------
(* The remote file: append() and rotate()                                  *)

Free(p) == surface = "remote" /\ pc[p] = "idle" /\ holder = "free"

\* append(): the lock, the event with its link, and _rotate_if_needed().
BeginAppend(p) ==
  /\ Free(p) /\ upcoming <= MaxEvents
  /\ holder' = p
  /\ event' = [event EXCEPT ![p] = NewEvent]
  /\ upcoming' = upcoming + 1
  /\ IF limit # 0 /\ Len(files[0]) >= limit
     THEN Go(p, "shift") /\ reached' = Retain /\ old' = Ids(Readable(files))
     ELSE Go(p, "write") /\ UNCHANGED <<reached, old>>
  /\ UNCHANGED <<surface, limit, disk, edge, wrote, armed, past>>

\* rotate(): without max_bytes it only applies the retention.
BeginRotate(p) ==
  /\ Free(p)
  /\ holder' = p
  /\ IF limit = 0 THEN Go(p, "trim") /\ UNCHANGED <<reached, old>>
     ELSE Go(p, "shift") /\ reached' = Retain /\ old' = Ids(Readable(files))
  /\ UNCHANGED <<surface, limit, disk, event, edge, wrote, armed, upcoming, past>>

\* _rotate_unlocked(): generations move up from the oldest, then the active
\* file becomes the first; a file that does not exist is left out.
Shift(p) ==
  /\ pc[p] = "shift"
  /\ files' = IF files[reached - 1] = <<>> THEN files
              ELSE [files EXCEPT ![reached] = files[reached - 1], ![reached - 1] = <<>>]
  /\ IF reached = 1 THEN Go(p, "record") /\ reached' = 0
     ELSE reached' = reached - 1 /\ UNCHANGED pc
  /\ UNCHANGED <<surface, limit, marks, marked, holder, event, old, edge, wrote,
                 armed, upcoming, past>>

\* _record_pruning_boundary_unlocked(): where the first event that is left was.
Record(p) ==
  /\ pc[p] = "record"
  /\ LET left == ToSet(Ids(Readable(files)))
         kept == {i \in 1..Len(old) : old[i] \in left}
         first == CHOOSE i \in kept : \A j \in kept : i <= j
     IN  IF kept = {} \/ first = 1
         THEN Go(p, "trim") /\ old' = <<>> /\ UNCHANGED <<edge, leaped>>
         ELSE /\ Go(p, "mark")
              /\ edge' = Boundary(old[first - 1], old[first])
              /\ leaped' = (leaped \/ first > 2)
              /\ UNCHANGED old
  /\ UNCHANGED <<surface, limit, disk, holder, event, reached, wrote, armed, upcoming,
                 acked, raised, wounds>>

\* The event's line, in one write() and an fsync().
Write(p) ==
  /\ pc[p] = "write"
  /\ files' = [files EXCEPT ![0] = Behind(@, <<event[p]>>)]
  /\ wrote' = TRUE
  /\ Go(p, IF armed = "no" THEN "trim" ELSE "overwrite")
  /\ UNCHANGED <<surface, limit, marks, marked, holder, event, old, edge, reached,
                 armed, upcoming, past>>

\* _apply_retention_unlocked(): the newest lines replace the active file.
\* A recorder flattens the generations even when nothing is to be pruned.
Trim(p) ==
  /\ pc[p] = "trim"
  /\ LET rows == Parsed(files)
         recorder == armed = "wanted"
         flat == \A i \in 1..Retain : files[i] = <<>>
     IN  IF Len(rows) > Retention
         THEN /\ files' = [files EXCEPT ![0] = Joined(Newest(rows, Retention))]
              /\ edge' = EdgeOf(rows, Retention)
              /\ leaped' = (leaped \/ Len(rows) > Retention + 1)
              /\ Go(p, "drop")
         ELSE IF recorder /\ ~flat
         THEN /\ files' = [files EXCEPT ![0] = Joined(rows)]
              /\ Go(p, "drop")
              /\ UNCHANGED <<edge, leaped>>
         ELSE /\ Go(p, "next")
              /\ UNCHANGED <<files, edge, leaped>>
  /\ UNCHANGED <<surface, limit, marks, marked, holder, event, old, reached, wrote,
                 armed, upcoming, acked, raised, wounds>>

\* The generations are unlinked one by one, then the boundary is due.
Drop(p) ==
  /\ pc[p] = "drop"
  /\ LET full == {i \in 1..Retain : files[i] # <<>>}
     IN  IF full = {}
         THEN /\ Go(p, IF edge = NoEdge THEN "next" ELSE "mark")
              /\ UNCHANGED files
         ELSE /\ files' = [files EXCEPT ![CHOOSE i \in full : \A j \in full : i <= j] = <<>>]
              /\ UNCHANGED pc
  /\ UNCHANGED <<surface, limit, marks, marked, holder, event, old, edge, reached,
                 wrote, armed, upcoming, past>>

\* _append_boundary_unlocked(): refuse, find it recorded already, or add it.
\* A refusal ends the operation by its exception; a recorder's owner tries once
\* more, to report that failure.
Mark(p) ==
  /\ pc[p] = "mark"
  /\ IF MarkRefused(edge, armed = "reserved")
     THEN /\ raised' = TRUE
          /\ UNCHANGED <<marks, marked>>
          /\ IF armed = "reserved" /\ reached = 0
             THEN /\ Go(p, "armed") /\ reached' = 1 /\ edge' = NoEdge
                  /\ UNCHANGED <<holder, event, old, wrote, armed>>
             ELSE Leave(p)
     ELSE /\ marks' = IF marks # <<>> /\ Last(marks) = edge THEN marks
                      ELSE Append(marks, edge)
          /\ marked' = TRUE
          /\ edge' = NoEdge /\ old' = <<>>
          /\ Go(p, IF old # <<>> THEN "trim" ELSE "next")
          /\ UNCHANGED <<raised, holder, event, reached, wrote, armed>>
  /\ UNCHANGED <<surface, limit, files, upcoming, acked, wounds, leaped>>

\* What follows the retention: an append that rotated first writes, one that
\* has written returns its event, a rotation ends, a recorder opens its files.
Continue(p) ==
  /\ pc[p] = "next"
  /\ IF armed = "wanted" \/ (event[p] # Junk /\ ~wrote)
     THEN /\ Go(p, IF armed = "wanted" THEN "arm" ELSE "write")
          /\ UNCHANGED <<holder, event, old, edge, reached, wrote, armed, acked>>
     ELSE /\ Leave(p)
          /\ acked' = IF wrote THEN acked \cup {event[p].id} ELSE acked
  /\ UNCHANGED <<surface, limit, disk, upcoming, raised, wounds, leaped>>

-----------------------------------------------------------------------------
(* AuditFailureRecorder: one event through descriptors opened beforehand,  *)
(* with the lock held from prepare_failure_recorder() to close().          *)

BeginRecorder(p) ==
  /\ Free(p)
  /\ holder' = p /\ armed' = "wanted" /\ Go(p, "trim")
  /\ UNCHANGED <<surface, limit, disk, event, old, edge, reached, wrote, upcoming, past>>

\* The descriptors: there must be a log; boundaries that are there must parse;
\* a boundary file is created empty when the log is full.  Only an empty log
\* whose first append broke off has a file without a line.
Arm(p) ==
  /\ pc[p] = "arm"
  /\ \/ /\ files[0] = <<>>
        /\ Leave(p) /\ UNCHANGED <<marked, raised>>
     \/ /\ files[0] # <<>> \/ wounds > 0
        /\ IF marked /\ (marks = <<>> \/ ~MarksParse)
           THEN Leave(p) /\ raised' = TRUE /\ UNCHANGED marked
           ELSE /\ Go(p, "armed")
                /\ armed' = IF ~marked /\ Len(Readable(files)) < Retention
                            THEN "bare" ELSE "reserved"
                /\ marked' = (armed' = "reserved")
                /\ UNCHANGED <<holder, event, old, edge, reached, wrote, raised>>
  /\ UNCHANGED <<surface, limit, files, marks, upcoming, acked, wounds, leaped>>

\* AuditFailureRecorder.append()
RecorderAppend(p) ==
  /\ pc[p] = "armed" /\ upcoming <= MaxEvents
  /\ event' = [event EXCEPT ![p] = NewEvent]
  /\ upcoming' = upcoming + 1
  /\ Go(p, "write")
  /\ UNCHANGED <<surface, limit, disk, holder, old, edge, reached, wrote, armed, past>>

\* Where the rest of the old content begins when the new is written over it:
\* its last line again, or part of one.
Residues(rows) == {<<Last(rows)>>, <<Junk>>, <<Junk, Last(rows)>>}

\* _apply_retention_with_descriptors_unlocked(): the newest lines over the old.
Overwrite(p) ==
  /\ pc[p] = "overwrite"
  /\ LET rows == Parsed(files)
     IN  IF Len(rows) <= Retention
         THEN Go(p, "next") /\ UNCHANGED <<files, edge, leaped>>
         ELSE /\ \E rest \in Residues(rows) :
                   files' = [files EXCEPT ![0] = Joined(Newest(rows, Retention)) \o rest]
              /\ edge' = EdgeOf(rows, Retention)
              /\ leaped' = (leaped \/ Len(rows) > Retention + 1)
              /\ Go(p, "cut")
  /\ UNCHANGED <<surface, limit, marks, marked, holder, event, old, reached, wrote,
                 armed, upcoming, acked, raised, wounds>>

\* ftruncate() to the new length.
Cut(p) ==
  /\ pc[p] = "cut"
  /\ files' = [files EXCEPT ![0] = SubSeq(@, 1, Retention)]
  /\ Go(p, "mark")
  /\ UNCHANGED <<surface, limit, marks, marked, holder, event, old, edge, reached,
                 wrote, armed, upcoming, past>>

-----------------------------------------------------------------------------
(* A process killed, or failed by its disk, in the middle of an operation. *)

\* What a write that broke off leaves of a line: nothing, a part, or all but
\* its newline.
Parts(r) == {<<>>, <<Torn>>, <<[r EXCEPT !.kind = "open"]>>}

Interrupt(p) ==
  /\ holder = p /\ wounds < MaxInterrupts
  /\ wounds' = wounds + 1
  /\ Leave(p)
  /\ CASE pc[p] = "write" ->
            /\ \E part \in Parts(event[p]) :
                 files' = [files EXCEPT ![0] = Behind(@, part)]
            /\ UNCHANGED <<marks, marked>>
       [] pc[p] = "mark" /\ ~MarkRefused(edge, armed = "reserved") ->
            /\ marks' \in {marks, Append(marks, BadMark)}
            /\ marked' \in IF marks' = marks THEN {marked, TRUE} ELSE {TRUE}
            /\ UNCHANGED files
       [] pc[p] = "overwrite" ->
            LET rows == Parsed(files)
                new == Newest(rows, Retention)
            IN  /\ IF Len(rows) <= Retention THEN UNCHANGED files
                   ELSE \E k \in 0..Retention, skip \in 0..2 :
                          files' = [files EXCEPT ![0] = SubSeq(new, 1, k) \o <<Junk>>
                                      \o SubSeq(rows, k + 1 + skip, Len(rows))]
                /\ UNCHANGED <<marks, marked>>
       [] OTHER -> UNCHANGED disk
  /\ UNCHANGED <<surface, limit, upcoming, acked, raised, leaped>>

-----------------------------------------------------------------------------
(* The local tables, changed and read in one transaction                   *)

\* _apply_audit_retention(): drop what is older than the newest `keep`.
Pruned(tables, keep) ==
  IF Len(tables.rows) <= keep THEN tables
  ELSE [rows |-> Newest(tables.rows, keep),
        marks |-> Append(tables.marks, EdgeOf(tables.rows, keep))]

\* _audit(): the event with its link, then the retention.
Audited(tables, i) ==
  Pruned([tables EXCEPT !.rows = Append(@, Event("event", i,
            IF tables.rows = <<>> THEN 0 ELSE Last(tables.rows).id))], Retention)

Local == surface = "local"
AuditTables == [rows |-> files[0], marks |-> marks]

\* record_audit(), or a state transaction that audits several changes.
LocalAppend(n) ==
  /\ Local /\ upcoming + n <= MaxEvents + 1
  /\ LET after[i \in 0..n] ==
           IF i = 0 THEN AuditTables ELSE Audited(after[i - 1], upcoming + i - 1)
     IN  files' = [files EXCEPT ![0] = after[n].rows] /\ marks' = after[n].marks
  /\ upcoming' = upcoming + n
  /\ acked' = acked \cup (upcoming..upcoming + n - 1)
  /\ UNCHANGED <<surface, limit, marked, holder, ctl, raised, wounds, leaped>>

\* rotate_audit(retain)
LocalRotate(keep) ==
  /\ Local
  /\ LET after == Pruned(AuditTables, keep)
     IN  files' = [files EXCEPT ![0] = after.rows] /\ marks' = after.marks
  /\ leaped' = (leaped \/ Len(files[0]) > keep + 1)
  /\ UNCHANGED <<surface, limit, marked, holder, ctl, upcoming, acked, raised, wounds>>

-----------------------------------------------------------------------------
RemoteStep(p) ==
  \/ BeginAppend(p) \/ BeginRotate(p) \/ Shift(p) \/ Record(p) \/ Write(p)
  \/ Trim(p) \/ Drop(p) \/ Mark(p) \/ Continue(p)
  \/ BeginRecorder(p) \/ Arm(p) \/ RecorderAppend(p) \/ Overwrite(p) \/ Cut(p)
  \/ Interrupt(p)

AuditNext ==
  \/ \E p \in Procs : RemoteStep(p)
  \/ \E n \in 1..2 : LocalAppend(n)
  \/ \E keep \in 1..Retention : LocalRotate(keep)

AuditSpec == AuditInit /\ [][AuditNext]_auditVars

-----------------------------------------------------------------------------
Rows == [kind : {"event", "open", "legacy", "junk", "torn"},
         id : 0..MaxEvents, prev : 0..MaxEvents]
Labels == {"idle", "shift", "record", "write", "trim", "drop", "mark", "next",
           "arm", "armed", "overwrite", "cut"}

\* Every variable has a value of its kind, and a process is inside an operation
\* exactly while it holds the lock of AuditLog._lock().
AuditTypeOK ==
  /\ surface \in {"remote", "local"} /\ limit \in Limits \cup {0}
  /\ files \in [0..Retain -> Seq(Rows)]
  /\ marks \in Seq([pruned : 0..MaxEvents, first : 0..MaxEvents])
  /\ marked \in BOOLEAN
  /\ holder \in Procs \cup {"free"}
  /\ pc \in [Procs -> Labels]
  /\ event \in [Procs -> {Junk} \cup [kind : {"event"}, id : 1..MaxEvents, prev : 0..MaxEvents]]
  /\ \A p \in Procs : pc[p] = "idle" <=> holder # p
  /\ old \in Seq(0..MaxEvents)
  /\ edge \in [pruned : 0..MaxEvents, first : 0..MaxEvents]
  /\ reached \in 0..Retain /\ wrote \in BOOLEAN
  /\ armed \in {"no", "wanted", "bare", "reserved"}
  /\ upcoming \in 1..MaxEvents + 1 /\ acked \subseteq 1..MaxEvents
  /\ raised \in BOOLEAN /\ wounds \in 0..MaxInterrupts /\ leaped \in BOOLEAN

\* However appends, rotations, prunings and recorders follow each other, the
\* chain of a log nobody interrupted validates and no operation on it is
\* refused: each pruning recorded the boundary the next one continues, and the
\* event an append writes behind is the one it named (append, _append_boundary,
\* validate_chain).  It leaves out what the code is not able to record: prunings
\* of several events at once, and first events that never had a link.
ChainIsWhole ==
  (/\ holder = "free" /\ wounds = 0 /\ ~leaped
   /\ \A i \in 1..Len(files[0]) : files[0][i].kind # "legacy")
    => ChainErrors = {} /\ ~raised

\* Readers find the events in the order they happened and no link passes over
\* an event that is still there, also after interruptions: torn lines, lines
\* joined to them and partial in-place rewrites lose events but never fork the
\* chain (append reads the previous event under the lock it writes under).
LinksSurvive ==
  LET events == Readable(files)
  IN  (limit = 0 /\ holder = "free")
        => \A i \in 1..Len(events) - 1 :
             \/ events[i + 1].id = events[i].id
             \/ /\ events[i].id <= events[i + 1].prev
                /\ events[i + 1].prev < events[i + 1].id

\* An event whose append returned is readable until a pruning has left it
\* behind, but for one event for each interruption: it is not missing between
\* others and, where only the count prunes, not while it is one of the newest.
LossIsBounded ==
  LET there == ToSet(Ids(Readable(files)))
      Young(e) == surface = "remote" /\ limit = 0 /\ e + Retention >= upcoming
      lost == {e \in acked \ there : Young(e) \/ \E older \in there : older < e}
  IN  holder = "free" => Cardinality(lost) <= wounds

\* The lock admits one process at a time, the rows are well formed, and what is
\* lost is bounded, whatever was interrupted.
LogIsSound == AuditTypeOK /\ LossIsBounded
=============================================================================
