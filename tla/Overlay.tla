------------------------------- MODULE Overlay -------------------------------
(***************************************************************************)
(* The writable overlay of a projected home: homed/overlay.py.             *)
(*                                                                         *)
(* The lower tree is the user's home and is only read.  Changes go to an   *)
(* upper tree that belongs to the profile: copies and new nodes, and a     *)
(* whiteout marker beside every name deleted from the lower tree.  An      *)
(* operation is a plan of small steps on the upper tree, its intent        *)
(* written to a journal first; sessions of one profile take turns under a  *)
(* flock.  A step can fail and a session can be killed between any two of  *)
(* them.  A session that starts replays what the journal says was begun    *)
(* and not finished.                                                       *)
(*                                                                         *)
(* A temporary file and the rename that publishes it are one step: an      *)
(* abandoned one is removed by every start before anything reads it.  The  *)
(* kernel walks a path before it calls, so an operation's parent is a      *)
(* directory of the view.  A file's content is an atom.                    *)
(*                                                                         *)
(* Bound: MaxPending limits the unfinished records an operation may find.  *)
(***************************************************************************)
EXTENDS Naturals, Sequences, FiniteSets, SequencesExt

CONSTANTS
  Sessions,    \* processes that mount the overlay of one profile
  Paths,       \* the names there can be, as sequences of components
  Lower,       \* the lower tree: "absent", "dir" or a content, by path
  Contents,    \* what files hold
  Empty,       \* the content of a new file
  MaxPending   \* bound: unfinished journal records before an operation

Parent(p) == SubSeq(p, 1, Len(p) - 1)
Above == [p \in Paths |-> {q \in Paths : q # p /\ IsPrefix(q, p)}]
From == [p \in Paths |-> {q \in Paths : IsPrefix(p, q)}]
Below == [p \in Paths |-> From[p] \ {p}]
Children == [p \in Paths |-> {q \in Below[p] : Len(q) = Len(p) + 1}]

\* The name below to that stands where q stands below from
Rebase(q, from, to) == to \o SubSeq(q, Len(from) + 1, Len(q))

ASSUME ConstantsAssumption ==
  /\ "nobody" \notin Sessions
  /\ IsFiniteSet(Paths) /\ \A p \in Paths : p \in Seq(ToSet(p))
  /\ \A p \in Paths : Len(p) > 0 /\ (Len(p) > 1 => Parent(p) \in Paths)
  /\ Lower \in [Paths -> Contents \union {"absent", "dir"}]
  /\ \A p \in Paths, q \in Paths : p \in Above[q] /\ Lower[q] # "absent" => Lower[p] = "dir"
  /\ Empty \in Contents /\ Contents \intersect {"absent", "dir"} = {}
  /\ MaxPending \in Nat

VARIABLES
  upper,    \* the upper tree, by path
  marks,    \* the names a whiteout marker hides
  pending,  \* the journal, folded: records begun, neither committed nor aborted
  up,       \* the sessions that serve
  holder,   \* who holds the flock
  phase,    \* what for: idle, an operation, or the replay of a start
  todo,     \* the steps still to be taken
  replay,   \* the journal records a start has still to look at
  goal,     \* history: the view the operation is to end with, if it is judged
  allowed   \* history: the views a start may find after the operation is cut off

vars == <<upper, marks, pending, up, holder, phase, todo, replay, goal, allowed>>
treeVars == <<upper, marks>>
historyVars == <<goal, allowed>>

Nodes == Contents \union {"absent", "dir"}
Kinds == {"copy-up", "copy-up-dir", "create", "mkdir", "rename", "unlink", "rmdir", "whiteout"}
Entries == [kind : Kinds, path : Paths, dest : Paths, lower : BOOLEAN]
StepNames == {"clear", "parents", "begin", "put", "mkdir", "remove", "rmtree", "move", "mark", "commit"}
Steps == [do : StepNames, path : Paths, entry : Entries]

\* _is_whiteouted(): a marker on the name or on a name above it.
Hidden(ms, p) == \E q \in Above[p] \union {p} : q \in ms

\* _existing(): the marker first, then the upper tree, then the lower one.
Node(u, ms, p) ==
  IF Hidden(ms, p) THEN "absent" ELSE IF u[p] # "absent" THEN u[p] ELSE Lower[p]

\* What the kernel finds, walking down from the root.
ViewOf(u, ms) ==
  [p \in Paths |->
    IF \A q \in Above[p] : Node(u, ms, q) = "dir" THEN Node(u, ms, p) ELSE "absent"]

View == ViewOf(upper, marks)
NoView == [p \in {} |-> "absent"]

\* _upper_parent(create=True)
WithParents(p) ==
  [q \in Paths |-> IF q \in Above[p] /\ upper[q] = "absent" THEN "dir" ELSE upper[q]]

Bare(p) == \A q \in Below[p] : upper[q] = "absent" /\ q \notin marks

-----------------------------------------------------------------------------
(* Plans                                                                   *)

Entry(kind, p, dest, lower) == [kind |-> kind, path |-> p, dest |-> dest, lower |-> lower]
Do(name, p, e) == [do |-> name, path |-> p, entry |-> e]
\* Mutant of Journaled: the intent is written when the work is done.
JournaledLate(e, steps) == steps \o <<Do("begin", e.path, e), Do("commit", e.path, e)>>

Journaled(e, steps) == <<Do("begin", e.path, e)>> \o steps \o <<Do("commit", e.path, e)>>
IfThen(condition, steps) == IF condition THEN steps ELSE <<>>

\* _copy_up() of what the upper tree has nothing of: a directory goes with all
\* its children, each a journaled copy-up of its own.
CopyUp[p \in Paths] ==
  IF Lower[p] = "dir"
  THEN LET e == Entry("copy-up-dir", p, p, FALSE)
           children == SetToSeq({q \in Children[p] : Lower[q] # "absent"})
       IN <<Do("parents", p, e)>>
          \o Journaled(e, <<Do("mkdir", p, e)>>
                          \o FlattenSeq([i \in DOMAIN children |-> CopyUp[children[i]]]))
  ELSE LET e == Entry("copy-up", p, p, FALSE)
       IN <<Do("parents", p, e)>> \o Journaled(e, <<Do("put", p, e)>>)

CopiedUp(p) == IfThen(upper[p] = "absent", CopyUp[p])

Cleared(p, e) == IfThen(p \in marks, <<Do("clear", p, e)>>)

\* Mutant of CreatePlan: the marker of a deleted file stays.
CreateUncleared(p) ==
  LET e == Entry("create", p, p, FALSE)
  IN <<Do("parents", p, e)>> \o Journaled(e, <<Do("put", p, e)>>)

CreatePlan(p) ==
  LET e == Entry("create", p, p, FALSE)
  IN Cleared(p, e) \o <<Do("parents", p, e)>> \o Journaled(e, <<Do("put", p, e)>>)

MkdirPlan(p) ==
  LET e == Entry("mkdir", p, p, FALSE)
  IN Cleared(p, e)
     \o IfThen(Len(p) > 1, CopiedUp(Parent(p)))
     \o Journaled(e, <<Do("mkdir", p, e)>>)

\* Mutant of RemovePlan: the name in the lower tree is not hidden.
RemoveUnmarked(kind, p) ==
  LET e == Entry(kind, p, p, Lower[p] # "absent")
      w == Entry("whiteout", p, p, TRUE)
  IN IF upper[p] # "absent"
     THEN Journaled(e, <<Do("remove", p, e)>>)
     ELSE <<Do("parents", p, w)>> \o Journaled(w, <<Do("mark", p, w)>>)

\* unlink(): an upper node is removed and what it hid is marked; a name that
\* is only in the lower tree is marked.
RemovePlan(kind, p) ==
  LET e == Entry(kind, p, p, Lower[p] # "absent")
      w == Entry("whiteout", p, p, TRUE)
  IN IF upper[p] # "absent"
     THEN Journaled(e, <<Do("remove", p, e)>> \o IfThen(e.lower, <<Do("mark", p, e)>>))
     ELSE <<Do("parents", p, w)>> \o Journaled(w, <<Do("mark", p, w)>>)

RenamePlan(p, dest) ==
  LET e == Entry("rename", p, dest, Lower[p] # "absent")
  IN Cleared(dest, e)
     \o CopiedUp(p)
     \o <<Do("parents", dest, e)>>
     \o Journaled(e, <<Do("move", p, e)>> \o IfThen(e.lower, <<Do("mark", p, e)>>))

-----------------------------------------------------------------------------
Init ==
  /\ upper = [p \in Paths |-> "absent"]
  /\ marks = {} /\ pending = <<>>
  /\ up = {} /\ holder = "nobody" /\ phase = "idle"
  /\ todo = <<>> /\ replay = <<>>
  /\ goal = NoView /\ allowed = {}

(* Operations.  wanted is the view a program expects of a completed one, or *)
(* NoView where this specification does not judge it.                       *)

Begins(s, plan, wanted, named) ==
  /\ s \in up /\ phase = "idle" /\ plan # <<>>
  /\ Len(pending) <= MaxPending
  /\ holder' = s /\ phase' = "operation" /\ todo' = plan
  /\ goal' = wanted
  /\ allowed' = IF wanted = NoView \/ pending # <<>> THEN {}
                ELSE {View, wanted, ViewOf(upper, marks \ {named})}
  /\ UNCHANGED <<treeVars, pending, up, replay>>

HasParent(p) == Len(p) > 1 => View[Parent(p)] = "dir"

Create(s, p) ==
  /\ HasParent(p) /\ View[p] = "absent"
  /\ Begins(s, CreatePlan(p), [View EXCEPT ![p] = Empty], p)

\* open() for writing: a file that is only in the lower tree is copied up.
OpenForWrite(s, p) ==
  /\ View[p] \in Contents
  /\ Begins(s, CopiedUp(p), View, p)

\* chmod() of a file copies it up like open(); of a directory, the whole tree.
Chmod(s, p) ==
  /\ View[p] = "dir"
  /\ Begins(s, CopiedUp(p), View, p)

\* write() and truncate() through a descriptor of the upper file.  They take the
\* lock of their process only, so that another session may be in an operation.
\* No step of an operation or of a replay reads what an upper file holds (files
\* are copied up from the lower tree), and so a write in the midst of one is taken
\* as one before it.
Write(s, p) ==
  /\ s \in up /\ phase = "idle"
  /\ View[p] \in Contents /\ upper[p] # "absent"
  /\ \E c \in Contents : upper' = [upper EXCEPT ![p] = c]
  /\ allowed' = {}
  /\ UNCHANGED <<marks, pending, up, holder, phase, todo, replay, goal>>

\* Not judged where a deleted directory of the lower tree had the name.
Mkdir(s, p) ==
  /\ HasParent(p) /\ View[p] = "absent"
  /\ Begins(s, MkdirPlan(p),
            IF Lower[p] = "dir" THEN NoView ELSE [View EXCEPT ![p] = "dir"], p)

Unlink(s, p) ==
  /\ View[p] \in Contents
  /\ Begins(s, RemovePlan("unlink", p), [View EXCEPT ![p] = "absent"], p)

\* Not judged where the directory still has something in it.
Rmdir(s, p) ==
  /\ View[p] = "dir"
  /\ Begins(s, RemovePlan("rmdir", p),
            IF \A q \in Below[p] : View[q] = "absent"
            THEN [View EXCEPT ![p] = "absent"] ELSE NoView, p)

\* Of the destination only the tree it is found in is asked whether it is
\* empty: the listing of the upper one, or of the lower one.
DestinationAllows(p, dest) ==
  \/ View[dest] = "absent"
  \/ View[p] # "dir" /\ View[dest] # "dir"
  \/ /\ View[p] = "dir" /\ View[dest] = "dir"
     /\ IF upper[dest] # "absent" THEN Bare(dest)
        ELSE \A q \in Below[dest] : Lower[q] = "absent"

Renamed(p, dest) ==
  [q \in Paths |->
    IF q \in From[dest]
    THEN IF Rebase(q, dest, p) \in Paths THEN View[Rebase(q, dest, p)] ELSE "absent"
    ELSE IF q \in From[p] THEN "absent" ELSE View[q]]

\* Not judged where a directory is merged of both trees, or replaces one of
\* the lower tree.
Rename(s, p, dest) ==
  /\ View[p] # "absent" /\ HasParent(dest)
  /\ dest \notin From[p] /\ p \notin From[dest]
  /\ \A q \in From[p] : Rebase(q, p, dest) \in Paths
  /\ DestinationAllows(p, dest)
  /\ Begins(s, RenamePlan(p, dest),
            IF View[p] # "dir" \/ ((upper[p] = "absent" \/ Lower[p] # "dir") /\ Lower[dest] # "dir")
            THEN Renamed(p, dest) ELSE NoView, dest)

-----------------------------------------------------------------------------
(* The steps of an operation or of a replay                                *)

Current == Head(todo)

\* The step is taken; after the last one of an operation the flock is free.
Taken ==
  /\ todo' = Tail(todo)
  /\ IF phase = "operation" /\ Len(todo) = 1
     THEN /\ holder' = "nobody" /\ phase' = "idle"
          /\ goal' = NoView /\ allowed' = {}
     ELSE UNCHANGED <<holder, phase, goal, allowed>>
  /\ UNCHANGED <<up, replay>>

Is(name) == todo # <<>> /\ Current.do = name

StepClear ==
  /\ Is("clear") /\ Taken
  /\ marks' = marks \ {Current.path}
  /\ UNCHANGED <<upper, pending>>

\* Directories are made only where nothing above is hidden or a file.
Markable(p) == \A q \in Above[p] : q \notin marks /\ upper[q] \in {"absent", "dir"}

StepParents ==
  /\ Is("parents") /\ Markable(Current.path) /\ Taken
  /\ upper' = WithParents(Current.path)
  /\ UNCHANGED <<marks, pending>>

StepBegin ==
  /\ Is("begin") /\ Taken
  /\ pending' = Append(pending, Current.entry)
  /\ UNCHANGED treeVars

StepPut ==
  /\ Is("put") /\ upper[Current.path] # "dir" /\ Taken
  /\ upper' = [upper EXCEPT ![Current.path] =
                 IF Current.entry.kind = "create" THEN Empty ELSE Lower[Current.path]]
  /\ UNCHANGED <<marks, pending>>

StepMkdir ==
  /\ Is("mkdir") /\ upper[Current.path] = "absent" /\ Taken
  /\ upper' = [upper EXCEPT ![Current.path] = "dir"]
  /\ UNCHANGED <<marks, pending>>

\* os.unlink() or os.rmdir() of the upper node
Removable(kind, p) ==
  IF kind = "rmdir" THEN upper[p] = "dir" /\ Bare(p) ELSE upper[p] # "dir"

StepRemove ==
  /\ Is("remove") /\ Removable(Current.entry.kind, Current.path) /\ Taken
  /\ upper' = [upper EXCEPT ![Current.path] = "absent"]
  /\ UNCHANGED <<marks, pending>>

\* _remove_upper_tree(): the markers in the tree are files like any other.
TreeRemoved(p) ==
  /\ upper' = [q \in Paths |-> IF q \in From[p] THEN "absent" ELSE upper[q]]
  /\ marks' = marks \ Below[p]

StepRemoveTree ==
  /\ Is("rmtree") /\ Taken
  /\ TreeRemoved(Current.path)
  /\ UNCHANGED pending

\* rename(2): a directory takes its children and their markers along.
Movable(p, dest) ==
  \/ upper[dest] = "absent"
  \/ upper[p] # "dir" /\ upper[dest] # "dir"
  \/ upper[p] = "dir" /\ upper[dest] = "dir" /\ Bare(dest)

StepMove ==
  /\ Is("move") /\ Taken
  /\ LET p == Current.path
         dest == Current.entry.dest
         Moved(q) == Rebase(q, dest, p)
     IN /\ Movable(p, dest)
        /\ upper' = [q \in Paths |->
             IF q \in From[dest]
             THEN IF Moved(q) \in Paths THEN upper[Moved(q)] ELSE "absent"
             ELSE IF q \in From[p] THEN "absent" ELSE upper[q]]
        /\ marks' = (marks \ Below[p]) \union {q \in Below[dest] : Moved(q) \in marks}
  /\ UNCHANGED pending

\* Mutant of StepMark: the marker names the directory.
MarkDirectory ==
  /\ Is("mark") /\ Markable(Current.path) /\ Taken
  /\ upper' = WithParents(Current.path)
  /\ marks' = marks \union (IF Len(Current.path) > 1 THEN {Parent(Current.path)} ELSE {Current.path})
  /\ UNCHANGED pending

\* _write_whiteout(): the directory of the marker is made if need be.
StepMark ==
  /\ Is("mark") /\ Markable(Current.path) /\ Taken
  /\ upper' = WithParents(Current.path)
  /\ marks' = marks \union {Current.path}
  /\ UNCHANGED pending

\* A commit or an abort takes away the last record of its kind and path.
Resolved(e) ==
  LET same == {i \in DOMAIN pending : pending[i].kind = e.kind /\ pending[i].path = e.path}
      last == CHOOSE i \in same : \A j \in same : j <= i
  IN IF same = {} THEN pending ELSE RemoveAt(pending, last)

StepCommit ==
  /\ Is("commit") /\ Taken
  /\ pending' = Resolved(Current.entry)
  /\ UNCHANGED treeVars

-----------------------------------------------------------------------------
(* Failure.  A step raises: no space, a journal that is locked, a node that *)
(* is in the way.  The handlers on the way out undo what they can, and what *)
(* they try may itself fail and is then let go.                             *)

\* The journal has the intent, and the handler of the operation is in force.
Begun(e) ==
  /\ \E i \in DOMAIN todo : todo[i].do = "commit" /\ todo[i].entry = e
  /\ ~\E i \in DOMAIN todo : todo[i].do = "begin" /\ todo[i].entry = e

LastEntry == todo[Len(todo)].entry
Remaining(name) == \E i \in DOMAIN todo : todo[i].do = name

\* _copy_up(): a directory copied in part is removed again.
UndoCopy ==
  \/ UNCHANGED <<treeVars, pending>>
  \/ /\ \E i \in DOMAIN todo :
          /\ todo[i].entry.kind = "copy-up-dir" /\ Begun(todo[i].entry)
          /\ TreeRemoved(todo[i].path)
     /\ UNCHANGED pending

\* _journaled_mkdir(): a directory that was made is removed, and only then the
\* intent.
UndoMkdir ==
  /\ LastEntry.kind = "mkdir" /\ Begun(LastEntry)
  /\ IF Remaining("mkdir") THEN UNCHANGED upper
     ELSE upper' = [upper EXCEPT ![LastEntry.path] = "absent"]
  /\ pending' \in {pending, Resolved(LastEntry)}
  /\ UNCHANGED marks

\* _journaled_remove(): the intent is dropped if nothing was removed yet.
UndoRemove ==
  /\ Begun(LastEntry) /\ Remaining("remove")
  /\ pending' = Resolved(LastEntry)
  /\ UNCHANGED treeVars

\* rename(): the intent is dropped, wherever the rename had got to.  (It is
\* kept when the same rename has ever been committed; so it is here when the
\* abort cannot be written.)
UndoRename ==
  /\ LastEntry.kind = "rename" /\ Begun(LastEntry)
  /\ pending' = Resolved(LastEntry)
  /\ UNCHANGED treeVars

Fail ==
  /\ todo # <<>> /\ phase = "operation"
  /\ UndoCopy \/ UndoMkdir \/ UndoRemove \/ UndoRename
  /\ todo' = <<>> /\ holder' = "nobody" /\ phase' = "idle"
  /\ goal' = NoView /\ allowed' = {}
  /\ UNCHANGED <<up, replay>>

\* The session is killed, or stops: the flock and the plan are gone.
Crash(s) ==
  /\ s \in up \/ s = holder
  /\ up' = up \ {s}
  /\ IF s = holder
     THEN /\ holder' = "nobody" /\ phase' = "idle" /\ todo' = <<>> /\ replay' = <<>>
          /\ goal' = NoView
     ELSE UNCHANGED <<holder, phase, todo, replay, goal>>
  /\ UNCHANGED <<treeVars, pending, allowed>>

-----------------------------------------------------------------------------
(* The start of a session: _recover()                                      *)

Start(s) ==
  /\ s \notin up /\ phase = "idle"
  /\ holder' = s /\ phase' = "replay" /\ replay' = pending
  /\ UNCHANGED <<treeVars, pending, up, todo, historyVars>>

InPlace(p) == \A q \in Above[p] : upper[q] = "dir"
Reachable(p) == \A q \in Above[p] : upper[q] \in {"absent", "dir"}

\* What a start does about one unfinished record
Redo(e) ==
  CASE e.kind \in {"create", "copy-up"} ->
         IfThen(InPlace(e.path), <<Do("remove", e.path, e)>>)
    [] e.kind \in {"mkdir", "copy-up-dir"} ->
         IfThen(upper[e.path] = "dir", <<Do("rmtree", e.path, e)>>)
    [] e.kind = "rename" ->
         IfThen(upper[e.path] # "absent", <<Do("parents", e.dest, e), Do("move", e.path, e)>>)
         \o IfThen(e.lower, <<Do("mark", e.path, e)>>)
    [] e.kind \in {"unlink", "rmdir"} ->
         IfThen(upper[e.path] # "absent", <<Do("remove", e.path, e)>>)
         \o IfThen(e.lower, <<Do("mark", e.path, e)>>)
    [] e.kind = "whiteout" -> <<Do("mark", e.path, e)>>

\* What the record names is of another kind by now: the start raises.
Redoable(e) ==
  /\ Reachable(e.path) /\ Reachable(e.dest)
  /\ e.kind \in {"mkdir", "copy-up-dir"} => upper[e.path] \in {"absent", "dir"}

Replay ==
  /\ phase = "replay" /\ todo = <<>> /\ replay # <<>>
  /\ Redoable(Head(replay))
  /\ todo' = Redo(Head(replay)) /\ replay' = Tail(replay)
  /\ UNCHANGED <<treeVars, pending, up, holder, phase, historyVars>>

\* The constructor returns.  No record is written: what was pending stays so.
Started ==
  /\ phase = "replay" /\ todo = <<>> /\ replay = <<>>
  /\ up' = up \union {holder}
  /\ holder' = "nobody" /\ phase' = "idle"
  /\ allowed' = {}
  /\ UNCHANGED <<treeVars, pending, todo, replay, goal>>

\* The constructor raises, at any step of the replay.
StartFails ==
  /\ phase = "replay"
  /\ holder' = "nobody" /\ phase' = "idle" /\ todo' = <<>> /\ replay' = <<>>
  /\ UNCHANGED <<treeVars, pending, up, historyVars>>

Step ==
  \/ StepClear \/ StepParents \/ StepBegin \/ StepPut \/ StepMkdir \/ StepRemove
  \/ StepRemoveTree \/ StepMove \/ StepMark \/ StepCommit

Next ==
  \/ \E s \in Sessions :
       \/ Start(s) \/ Crash(s)
       \/ \E p \in Paths :
            \/ Create(s, p) \/ OpenForWrite(s, p) \/ Chmod(s, p) \/ Write(s, p)
            \/ Mkdir(s, p) \/ Unlink(s, p) \/ Rmdir(s, p)
            \/ \E dest \in Paths : Rename(s, p, dest)
  \/ Step \/ Fail
  \/ Replay \/ Started \/ StartFails

Spec == Init /\ [][Next]_vars

-----------------------------------------------------------------------------
(* Types: the upper tree is a tree, and every marker lies in a directory.   *)
TypeOK ==
  /\ upper \in [Paths -> Nodes]
  /\ marks \subseteq Paths
  /\ \A p \in Paths : (upper[p] # "absent" \/ p \in marks) => InPlace(p)
  /\ pending \in Seq(Entries)
  /\ up \subseteq Sessions /\ holder \in Sessions \union {"nobody"}
  /\ phase \in {"idle", "operation", "replay"}
  /\ todo \in Seq(Steps) /\ replay \in Seq(Entries)
  /\ phase = "idle" <=> holder = "nobody"

(* A file the overlay holds is never buried under a marker of its own name,  *)
(* as long as the journal has nothing unfinished: _clear_whiteout() and      *)
(* _write_whiteout() go in step with the upper tree.                         *)
NothingBuried ==
  phase = "idle" /\ pending = <<>> => \A p \in marks : upper[p] = "absent"

(* Whatever is cut off or fails: the upper tree and its markers stay a tree, *)
(* and nothing is buried once the journal is clean.                          *)
TreesAreSound == TypeOK /\ NothingBuried

(* An operation that reports success has done what was asked and no more:   *)
(* the merged view of every name is the one a plain directory would show.    *)
CompletesExactly ==
  [][StepCommit /\ Len(todo) = 1 /\ goal # NoView => ViewOf(upper', marks') = goal]_vars

(* An operation cut off at any step, with a journal that was clean before,   *)
(* is undone or completed by the next start, itself cut off any number of    *)
(* times.  (A whiteout is cleared before the journal knows: the deleted file *)
(* may show again.)                                                          *)
CrashIsAllOrNothing ==
  [][phase = "replay" /\ up' # up /\ up \subseteq up' /\ allowed # {}
     => ViewOf(upper', marks') \in allowed]_vars

(* No step, failure handler or replay changes what is seen of a name that    *)
(* the operation, or the record being replayed, does not name.  (A replayed  *)
(* rename makes the directories above its destination again.)                *)
Concerned(q) == From[q] \union (IF phase = "replay" THEN Above[q] ELSE {})
Named == IF phase = "operation" THEN {LastEntry.path, LastEntry.dest}
         ELSE {Current.entry.path, Current.entry.dest}

ChangesStayLocal ==
  [][todo # <<>>
     => LET after == ViewOf(upper', marks')
        IN \A p \in Paths : after[p] # View[p] => \E q \in Named : p \in Concerned(q)]_vars

=============================================================================
