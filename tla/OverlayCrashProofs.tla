------------------------- MODULE OverlayCrashProofs -------------------------
(***************************************************************************)
(* Overlay: an operation of a session that is cut off at any step, with a  *)
(* journal that was clean before, is undone or completed by the next       *)
(* start, for all names, lower trees, sessions and bounds.  The proof      *)
(* rests on the inductive invariant of ProfileProofs and on Recoverable,   *)
(* which says of an operation that is judged, wherever it is cut off:      *)
(*   - Untouched: there are only copies, and a marker may be cleared; what *)
(*     is left of the plan is quiet up to the begin of its record; or      *)
(*   - InHand: the journal has that one record, and wherever a replay of   *)
(*     it can lead (Redone) is a view that a start may find (Safe).        *)
(* The steps of the work and of a replay only narrow what Redone holds of  *)
(* (GoesStep, RemainsStep); at its begin, it holds of what is there and of *)
(* what the rest of the plan leads to (WorkIsRedone), which is the goal.   *)
(***************************************************************************)
EXTENDS ProfileProofs

-----------------------------------------------------------------------------
(* Overlay: an operation that is cut off is undone or completed            *)

\* The record of a copy-up.
IsCopy(e) == e = CopyEntry(e.path)

\* The upper tree has nothing else from p on than copies.
OnlyCopies(u, ms, p) == \A q \in From[p] : Faithful(u, q) /\ q \notin ms

\* Steps that change nothing that is seen: directories are made where there are some, and
\* copies, whose records are begun once and committed after.
Quiet(u, ms, s) ==
  /\ AllNear(u, ms, {}, s)
  /\ \A i \in DOMAIN s : s[i].do \in {"begin", "commit"} =>
       IsCopy(s[i].entry) /\ OnlyCopies(u, ms, s[i].entry.path)
  /\ \A i \in DOMAIN s, j \in DOMAIN s :
       s[i].do = s[j].do /\ s[i].do \in {"begin", "commit"} /\ s[i].entry = s[j].entry => i = j
  /\ \A i \in DOMAIN s : s[i].do = "begin" =>
       \E j \in DOMAIN s : i < j /\ s[j].do = "commit" /\ s[j].entry = s[i].entry

\* The steps between the begin and the commit of a record.
Works(e, s) ==
  \/ e.kind = "create" /\ s = <<Do("put", e.path, e)>>
  \/ e.kind = "mkdir" /\ s = <<Do("mkdir", e.path, e)>>
  \/ e.kind \in {"unlink", "rmdir"}
     /\ s = <<Do("remove", e.path, e)>> \o IfThen(e.lower, <<Do("mark", e.path, e)>>)
  \/ e.kind = "whiteout" /\ s = <<Do("mark", e.path, e)>>
  \/ e.kind = "rename"
     /\ s = <<Do("move", e.path, e)>> \o IfThen(e.lower, <<Do("mark", e.path, e)>>)

\* What the upper tree is when a record is begun.
Fit(u, e) ==
  /\ e.kind \in {"create", "mkdir"} => u[e.path] = "absent"
  /\ e.kind \in {"unlink", "rmdir", "rename"} => u[e.path] # "absent"
  /\ e.kind = "rename" => Opened(u, e.dest) = u

\* After the steps a there is one record to begin, which fits then, or none.
Outlook(u, ms, a, b) ==
  b # <<>> =>
    \E e \in Entries, s \in Seq(Steps) :
      /\ b = Journaled(e, s) /\ Works(e, s)
      /\ \A v, ns : Leads(u, ms, a, v, ns) => Fit(v, e)

\* A node that went is hidden in the lower tree.
Marked(u, ms, e, v, ns) ==
  IF e.lower THEN v = Opened(u, e.path) /\ ns = ms \union {e.path} ELSE v = u /\ ns = ms

\* A replay of the record e that is complete makes the tree v and the markers ns of u and ms.
Redone(u, ms, e, v, ns) ==
  \/ e.kind = "create" /\ v = [u EXCEPT ![e.path] = "absent"] /\ ns = ms
  \/ /\ e.kind = "mkdir" /\ ns = ms \ Below[e.path]
     /\ v = [q \in Paths |-> IF q \in From[e.path] THEN "absent" ELSE u[q]]
  \/ e.kind \in {"unlink", "rmdir"} /\ Marked([u EXCEPT ![e.path] = "absent"], ms, e, v, ns)
  \/ e.kind = "whiteout" /\ v = Opened(u, e.path) /\ ns = ms \union {e.path}
  \/ e.kind = "rename" /\ u[e.path] = "absent" /\ Marked(u, ms, e, v, ns)
  \/ /\ e.kind = "rename" /\ u[e.path] # "absent"
     /\ u[e.dest] = "dir" => \A q \in Below[e.dest] : u[q] = "absent" /\ q \notin ms
     /\ Marked(MovedTree(Opened(u, e.dest), e.path, e.dest), MovedMarks(ms, e.path, e.dest), e, v, ns)

\* The steps s are what is left of a replay of e.
Remains(u, ms, e, s) ==
  \/ s = <<>> /\ Redone(u, ms, e, u, ms)
  \/ e.kind = "create" /\ s = <<Do("remove", e.path, e)>>
  \/ e.kind = "mkdir" /\ s = <<Do("rmtree", e.path, e)>>
  \/ e.kind \in {"unlink", "rmdir"}
     /\ s = <<Do("remove", e.path, e)>> \o IfThen(e.lower, <<Do("mark", e.path, e)>>)
  \/ e.kind \in {"unlink", "rmdir", "rename"} /\ u[e.path] = "absent" /\ e.lower
     /\ s = <<Do("mark", e.path, e)>>
  \/ e.kind = "whiteout" /\ s = <<Do("mark", e.path, e)>>
  \/ e.kind = "rename" /\ u[e.path] # "absent" /\ Opened(u, e.dest) = u
     /\ s = <<Do("move", e.path, e)>> \o IfThen(e.lower, <<Do("mark", e.path, e)>>)
  \/ e.kind = "rename" /\ u[e.path] # "absent"
     /\ s = <<Do("parents", e.dest, e)>>
              \o (<<Do("move", e.path, e)>> \o IfThen(e.lower, <<Do("mark", e.path, e)>>))

\* The steps s are what is left of the work on e.
Goes(u, ms, e, s) ==
  \/ s = <<>>
  \/ e.kind = "create" /\ s = <<Do("put", e.path, e)>>
  \/ e.kind = "mkdir" /\ s = <<Do("mkdir", e.path, e)>>
  \/ Remains(u, ms, e, s)

Judged == {"create", "mkdir", "unlink", "rmdir", "whiteout", "rename"}

\* Wherever a replay of e leads, a start may find it.
Safe(e) ==
  \A v, ns : Redone(upper, marks, e, v, ns) => ViewOf(v, ns) \in allowed

\* Nothing has changed that is seen, but for a cleared marker.
Unharmed ==
  /\ View \in allowed
  /\ \A i \in DOMAIN pending : IsCopy(pending[i]) /\ OnlyCopies(upper, marks, pending[i].path)

Clearing ==
  \E x \in Steps, a \in Seq(Steps), b \in Seq(Steps) :
    /\ todo = <<x>> \o (a \o b) /\ x.do = "clear" /\ pending = <<>>
    /\ Quiet(upper, marks \ {x.path}, a) /\ Outlook(upper, marks \ {x.path}, a, b)
    /\ ViewOf(upper, marks \ {x.path}) \in allowed

\* The records ps are different ones, and the steps s have their commits.
Waiting(ps, s) ==
  \A i \in DOMAIN ps : Unfinished(s, ps[i]) /\ \A j \in DOMAIN ps : ps[i] = ps[j] => i = j

Preparing ==
  \E a \in Seq(Steps), b \in Seq(Steps) :
    /\ todo = a \o b /\ Quiet(upper, marks, a) /\ Outlook(upper, marks, a, b)
    /\ Waiting(pending, a)

Discarding ==
  /\ \A i \in DOMAIN replay : \E k \in DOMAIN pending : replay[i] = pending[k]
  /\ \A i \in DOMAIN todo : /\ todo[i].do \in {"remove", "rmtree"}
                            /\ \E k \in DOMAIN pending : todo[i].path = pending[k].path

Doing(e) ==
  \E s \in Seq(Steps) : todo = s \o <<Do("commit", e.path, e)>> /\ Goes(upper, marks, e, s)

Redoing(e) == (replay = <<e>> /\ todo = <<>>) \/ (replay = <<>> /\ Remains(upper, marks, e, todo))

\* Only copies and directories have been made, and no other work is begun.
Untouched ==
  /\ Unharmed
  /\ phase = "operation" => Clearing \/ Preparing
  /\ phase = "replay" => Discarding

\* There is the one record e, and it is safe.
InHand(e) ==
  /\ pending = <<e>> /\ e.kind \in Judged /\ Safe(e)
  /\ phase = "operation" => Doing(e)
  /\ phase = "replay" => Redoing(e)

\* Until a start has returned, or a failure or another operation made it another story.
Recoverable ==
  allowed # {} =>
    /\ phase = "operation" => goal \in allowed /\ goal # NoView
    /\ Untouched \/ \E e \in Entries : InHand(e)

\* Trees that are alike everywhere show the same, and have copies in the same places.
LEMMA AlikeEverywhere ==
  ASSUME NEW u, NEW ms, NEW v, NEW ns, Alike(u, ms, v, ns, {})
  PROVE  /\ ViewOf(v, ns) = ViewOf(u, ms)
         /\ \A p \in Paths : OnlyCopies(u, ms, p) => OnlyCopies(v, ns, p)
<1>1. \A p \in Paths : ViewOf(v, ns)[p] = ViewOf(u, ms)[p]
  <2>1. \A q \in Paths \ {} : \A r \in Above[q] : r \in Paths \ {}
    BY Subsets
  <2>2. \A p \in Paths \ {} : ViewOf(v, ns)[p] = ViewOf(u, ms)[p]
    BY <2>1, ViewStays
  <2> QED BY <2>2
<1>2. ViewOf(v, ns) = ViewOf(u, ms)
  BY <1>1 DEF ViewOf
<1>3. ASSUME NEW p \in Paths, OnlyCopies(u, ms, p) PROVE OnlyCopies(v, ns, p)
  <2>1. \A q \in From[p] : q \in Paths
    BY Subsets
  <2> QED BY <2>1, <1>3 DEF OnlyCopies, Faithful, Alike
<1> QED BY <1>2, <1>3

\* No steps are quiet.
LEMMA QuietNone ==
  ASSUME NEW u, NEW ms
  PROVE  Quiet(u, ms, <<>>)
<1>1. DOMAIN <<>> = {} /\ AllNear(u, ms, {}, <<>>)
  BY NearNone
<1> QED BY <1>1 DEF Quiet

\* The first of quiet steps leaves the tree alike, and the others quiet.
LEMMA QuietStep ==
  ASSUME NEW u \in Trees, NEW ms, NEW s, Quiet(u, ms, s), s # <<>>, NEW v, NEW ns, Takes(u, ms, s[1], v, ns)
  PROVE  ns = ms /\ Alike(u, ms, v, ns, {}) /\ Quiet(v, ns, Tail(s))
<1>1. s \in Seq(Steps) /\ \A i \in DOMAIN s : Near(u, ms, {}, s[i])
  BY DEF Quiet, AllNear
<1>2. /\ 1 \in DOMAIN s /\ s[1] \in Steps /\ Tail(s) \in Seq(Steps)
  BY <1>1, TailFacts
<1>3. PICK x \in Steps : x = s[1] /\ Near(u, ms, {}, x) /\ Takes(u, ms, x, v, ns)
  BY <1>1, <1>2
<1>4. x.path \in Paths
  BY DEF Steps
<1>5. x.do \notin {"clear", "remove", "move", "mark", "rmtree"}
  BY <1>3 DEF Near
<1>6. ns = ms /\ Alike(u, ms, v, ns, {})
  <2>1. CASE x.do = "parents"
    <3>1. v = Opened(u, x.path) /\ ns = ms
      BY <2>1, <1>3 DEF Takes
    <3>2. \A q \in Above[x.path] \ {} : u[q] = "dir" \/ Lower[q] = "dir"
      BY <2>1, <1>3 DEF Near
    <3> QED BY <1>4, <3>1, <3>2, ParentsAreAlike DEF Opened
  <2>2. CASE x.do \in {"begin", "commit"}
    <3>1. v = u /\ ns = ms
      BY <2>2, <1>3 DEF Takes
    <3> QED BY <3>1 DEF Alike
  <2>3. CASE x.do = "put"
    <3>1. x.entry.kind = "copy-up" /\ u[x.path] \in {"absent", Lower[x.path]}
      BY <2>3, <1>3 DEF Near, Faithful
    <3>2. v = [u EXCEPT ![x.path] = Lower[x.path]] /\ ns = ms
      BY <2>3, <3>1, <1>3 DEF Takes
    <3>3. v[x.path] = Lower[x.path] /\ \A q \in Paths : q # x.path => v[q] = u[q]
      BY <3>2, <1>4 DEF Trees
    <3> QED BY <3>1, <3>2, <3>3 DEF Alike
  <2>4. CASE x.do = "mkdir"
    <3>1. Lower[x.path] = "dir"
      BY <2>4, <1>3 DEF Near
    <3>2. u[x.path] = "absent" /\ v = [u EXCEPT ![x.path] = "dir"] /\ ns = ms
      BY <2>4, <1>3 DEF Takes
    <3>3. v[x.path] = "dir" /\ \A q \in Paths : q # x.path => v[q] = u[q]
      BY <3>2, <1>4 DEF Trees
    <3> QED BY <3>1, <3>2, <3>3 DEF Alike
  <2> QED BY <1>3, <1>5, <2>1, <2>2, <2>3, <2>4 DEF Takes
<1>7. PICK t \in Seq(Steps) : t = Tail(s)
  BY <1>2
<1>8. /\ \A i \in DOMAIN t : i + 1 \in DOMAIN s /\ t[i] = s[i + 1] /\ i \in Nat
      /\ \A j \in DOMAIN s : j = 1 \/ (j - 1 \in DOMAIN t /\ t[j - 1] = s[j])
      /\ \A j \in DOMAIN s : j \in Nat
  BY <1>1, <1>7, TailPlaces
<1>9. AllNear(v, ns, {}, t)
  <2>1. ASSUME NEW i \in DOMAIN t PROVE Near(v, ns, {}, t[i])
    <3>1. t[i] \in Steps
      BY <1>7
    <3>2. Near(u, ms, {}, t[i])
      BY <1>1, <1>8
    <3> QED BY <1>6, <3>1, <3>2, NearGoesOn
  <2> QED BY <2>1, <1>7 DEF AllNear
<1>10. ASSUME NEW i \in DOMAIN t, t[i].do \in {"begin", "commit"}
       PROVE  IsCopy(t[i].entry) /\ OnlyCopies(v, ns, t[i].entry.path)
  <2>1. IsCopy(t[i].entry) /\ OnlyCopies(u, ms, t[i].entry.path)
    BY <1>8, <1>10 DEF Quiet
  <2>2. t[i] \in Steps
    BY <1>7
  <2>3. t[i].entry.path \in Paths
    BY <2>2 DEF Steps, Entries
  <2> QED BY <2>1, <2>3, <1>6, AlikeEverywhere
<1>11. ASSUME NEW i \in DOMAIN t, NEW j \in DOMAIN t, t[i].do = t[j].do, t[i].do \in {"begin", "commit"},
              t[i].entry = t[j].entry
       PROVE  i = j
  <2>1. i + 1 = j + 1
    BY <1>8, <1>11 DEF Quiet
  <2> QED BY <2>1, <1>8
<1>12. ASSUME NEW i \in DOMAIN t, t[i].do = "begin"
       PROVE  \E j \in DOMAIN t : i < j /\ t[j].do = "commit" /\ t[j].entry = t[i].entry
  <2>1. PICK j \in DOMAIN s : i + 1 < j /\ s[j].do = "commit" /\ s[j].entry = t[i].entry
    BY <1>8, <1>12 DEF Quiet
  <2>2. j - 1 \in DOMAIN t /\ t[j - 1] = s[j] /\ i < j - 1
    BY <1>8, <2>1
  <2> QED BY <2>1, <2>2
<1> QED BY <1>6, <1>7, <1>9, <1>10, <1>11, <1>12 DEF Quiet

\* A step put before others is the first, and they are the rest.
LEMMA FirstOf ==
  ASSUME NEW x \in Steps, NEW t \in Seq(Steps), NEW s, s = <<x>> \o t
  PROVE  s \in Seq(Steps) /\ s # <<>> /\ s[1] = x /\ Head(s) = x /\ Tail(s) = t
<1>1. /\ s \in Seq(Steps) /\ Len(t) \in Nat /\ Len(s) = Len(t) + 1 /\ s[1] = x
      /\ \A i \in 1 .. Len(t) : s[1 + i] = t[i]
  BY Prepended
<1>2. PICK n \in Nat : n = Len(t) /\ Len(s) = n + 1 /\ n + 1 > 0
  BY <1>1
<1>3. s # <<>>
  BY <1>1, <1>2
<1>8. /\ Tail(s) \in Seq(Steps) /\ Len(Tail(s)) = Len(s) - 1
      /\ \A i \in 1 .. Len(s) - 1 : Tail(s)[i] = s[i + 1]
  BY <1>1, <1>3, TailFacts
<1>9. PICK r : r = Tail(s)
  OBVIOUS
<1>4. r = Tail(s) /\ r \in Seq(Steps) /\ Len(r) = Len(s) - 1 /\ \A i \in 1 .. Len(s) - 1 : r[i] = s[i + 1]
  BY <1>8, <1>9, Zenon
<1>5. Len(r) = n /\ \A i \in 1 .. n : r[i] = t[i]
  <2>1. Len(s) - 1 = n
    BY <1>2
  <2>2. \A i \in 1 .. n : r[i] = s[i + 1] /\ s[i + 1] = t[i]
    <3>1. \A i \in 1 .. n : i + 1 = 1 + i
      BY <1>2
    <3> QED BY <1>1, <1>2, <1>4, <2>1, <3>1
  <2> QED BY <1>4, <2>1, <2>2
<1>6. r = t
  BY <1>2, <1>4, <1>5, SeqEqual
<1>7. Head(s) = x
  BY <1>1, <1>3, TailFacts
<1> QED BY <1>1, <1>3, <1>4, <1>6, <1>7

\* A single step has nothing after it.
LEMMA OnlyOne ==
  ASSUME NEW x \in Steps
  PROVE  <<x>> \in Seq(Steps) /\ <<x>> # <<>> /\ <<x>>[1] = x /\ Head(<<x>>) = x /\ Tail(<<x>>) = <<>>
OBVIOUS

\* Making directories again makes nothing.
LEMMA OpenedTwice ==
  ASSUME NEW u \in Trees, NEW p \in Paths
  PROVE  /\ Opened(u, p) \in Trees /\ Opened(Opened(u, p), p) = Opened(u, p)
         /\ \A q \in Paths : q \notin Above[p] => Opened(u, p)[q] = u[q]
         /\ Opened(u, p)[p] = u[p]
<1>1. p \notin Above[p]
  BY Subsets, AboveIsOrder
<1> QED BY <1>1 DEF Opened, Trees, Nodes

\* The steps of a record.
LEMMA StepsOf ==
  ASSUME NEW e \in Entries
  PROVE  \A name \in StepNames :
           /\ Do(name, e.path, e) \in Steps /\ Do(name, e.dest, e) \in Steps
           /\ Do(name, e.path, e).do = name /\ Do(name, e.path, e).path = e.path
           /\ Do(name, e.path, e).entry = e
           /\ Do(name, e.dest, e).do = name /\ Do(name, e.dest, e).path = e.dest
           /\ Do(name, e.dest, e).entry = e
BY DEF Do, Steps, Entries

-----------------------------------------------------------------------------
(* Overlay: the work on a record, and its replay                         *)

\* A step that is taken under a condition.
LEMMA Conditional ==
  ASSUME NEW x \in Steps, NEW b
  PROVE  /\ IfThen(b, <<x>>) \in Seq(Steps)
         /\ b => IfThen(b, <<x>>) = <<x>>
         /\ ~b => IfThen(b, <<x>>) = <<>>
BY OnlyOne, EmptySeq DEF IfThen

\* What a record concerns.
LEMMA EntryNames ==
  ASSUME NEW e \in Entries
  PROVE  /\ e.path \in Paths /\ e.dest \in Paths /\ e.kind \in Kinds /\ e.lower \in BOOLEAN
         /\ Apart(e) /\ e.kind = "rename" => e.path \notin Above[e.dest] /\ e.path \notin From[e.dest]
<1>1. e.path \in Paths /\ e.dest \in Paths /\ e.kind \in Kinds /\ e.lower \in BOOLEAN
  BY DEF Entries
<1>2. ASSUME Apart(e), e.kind = "rename" PROVE e.path \notin Above[e.dest] /\ e.path \notin From[e.dest]
  <2>1. e.dest \notin From[e.path] /\ e.path \notin From[e.dest]
    BY <1>2 DEF Apart
  <2>2. e.path \in Above[e.dest] => e.dest \in Below[e.path]
    BY <1>1, AboveIsOrder
  <2> QED BY <1>1, <2>1, <2>2, Subsets
<1> QED BY <1>1, <1>2

\* The steps a replay has left: after the first of them the others are left, and whatever
\* completes the replay from there completes it from before.
LEMMA RemainsStep ==
  ASSUME NEW u \in Trees, NEW ms, NEW e \in Entries, Apart(e), NEW s, Remains(u, ms, e, s), s # <<>>,
         NEW w, NEW os, Takes(u, ms, s[1], w, os)
  PROVE  /\ s \in Seq(Steps) /\ s[1].do \notin {"begin", "commit"}
         /\ Remains(w, os, e, Tail(s))
         /\ \A v, ns : Redone(w, os, e, v, ns) => Redone(u, ms, e, v, ns)
<1>1. PICK p \in Paths : p = e.path
  BY EntryNames
<1>2. PICK d \in Paths : d = e.dest
  BY EntryNames
<1>3. e.lower \in BOOLEAN
  BY EntryNames
<1>4. PICK x \in Steps : x = Do("remove", e.path, e) /\ x.do = "remove" /\ x.path = p /\ x.entry = e
  BY <1>1, StepIs DEF StepNames
<1>5. PICK y \in Steps : y = Do("rmtree", e.path, e) /\ y.do = "rmtree" /\ y.path = p /\ y.entry = e
  BY <1>1, StepIs DEF StepNames
<1>6. PICK k \in Steps : k = Do("mark", e.path, e) /\ k.do = "mark" /\ k.path = p /\ k.entry = e
  BY <1>1, StepIs DEF StepNames
<1>7. PICK m \in Steps : m = Do("move", e.path, e) /\ m.do = "move" /\ m.path = p /\ m.entry = e
  BY <1>1, StepIs DEF StepNames
<1>8. PICK o \in Steps : o = Do("parents", e.dest, e) /\ o.do = "parents" /\ o.path = d /\ o.entry = e
  BY <1>2, StepIs DEF StepNames
<1>9. PICK t \in Seq(Steps) : t = IfThen(e.lower, <<k>>) /\ (e.lower => t = <<k>>) /\ (~e.lower => t = <<>>)
  BY Conditional
<1>10. p \notin Above[p] /\ d \notin Above[d]
  BY Subsets
<1>11. u[p] \in Nodes /\ \A q \in Paths : Opened(u, p)[q] \in Nodes
  BY OpenedTwice DEF Trees
<1>12. CASE e.kind = "create" /\ s = <<x>>
  <2>1. s \in Seq(Steps) /\ s[1] = x /\ Tail(s) = <<>>
    BY <1>12, OnlyOne
  <2>2. w = [u EXCEPT ![p] = "absent"] /\ os = ms
    BY <2>1, <1>4 DEF Takes
  <2>3. [w EXCEPT ![p] = "absent"] = w
    BY <2>2 DEF Trees
  <2>4. Redone(w, os, e, w, os)
    BY <1>1, <1>12, <2>3 DEF Redone
  <2>5. \A v, ns : Redone(w, os, e, v, ns) => Redone(u, ms, e, v, ns)
    BY <1>1, <1>12, <2>2, <2>3 DEF Redone
  <2> QED BY <1>4, <2>1, <2>4, <2>5 DEF Remains
<1>13. CASE e.kind = "mkdir" /\ s = <<y>>
  <2>1. s \in Seq(Steps) /\ s[1] = y /\ Tail(s) = <<>>
    BY <1>13, OnlyOne
  <2>2. w = [q \in Paths |-> IF q \in From[p] THEN "absent" ELSE u[q]] /\ os = ms \ Below[p]
    BY <2>1, <1>5 DEF Takes
  <2>3. [q \in Paths |-> IF q \in From[p] THEN "absent" ELSE w[q]] = w /\ os \ Below[p] = os
    BY <2>2
  <2>4. Redone(w, os, e, w, os)
    BY <1>1, <1>13, <2>3 DEF Redone
  <2>5. \A v, ns : Redone(w, os, e, v, ns) => Redone(u, ms, e, v, ns)
    BY <1>1, <1>13, <2>2, <2>3 DEF Redone
  <2> QED BY <1>5, <2>1, <2>4, <2>5 DEF Remains
<1>14. CASE e.kind \in {"unlink", "rmdir"} /\ s = <<x>> \o t
  <2>1. s \in Seq(Steps) /\ s[1] = x /\ Tail(s) = t
    BY <1>14, FirstOf
  <2>2. w = [u EXCEPT ![p] = "absent"] /\ os = ms
    BY <2>1, <1>4 DEF Takes
  <2>3. [w EXCEPT ![p] = "absent"] = w /\ w[p] = "absent"
    BY <2>2 DEF Trees
  <2>4. \A v, ns : Redone(w, os, e, v, ns) => Redone(u, ms, e, v, ns)
    BY <1>1, <1>14, <2>2, <2>3 DEF Redone
  <2>5. CASE e.lower
    <3>1. Tail(s) = <<k>>
      BY <2>1, <2>5, <1>9
    <3> QED BY <1>1, <1>4, <1>6, <1>14, <2>1, <2>3, <2>4, <2>5, <3>1 DEF Remains
  <2>6. CASE ~e.lower
    <3>1. Tail(s) = <<>>
      BY <2>1, <2>6, <1>9
    <3>2. Redone(w, os, e, w, os)
      BY <1>1, <1>14, <2>3, <2>6 DEF Redone, Marked
    <3> QED BY <1>4, <2>1, <2>4, <3>1, <3>2 DEF Remains
  <2> QED BY <2>5, <2>6
<1>15. CASE e.kind \in {"unlink", "rmdir", "rename"} /\ u[p] = "absent" /\ e.lower /\ s = <<k>>
  <2>1. s \in Seq(Steps) /\ s[1] = k /\ Tail(s) = <<>>
    BY <1>15, OnlyOne
  <2>2. w = Opened(u, p) /\ os = ms \union {p}
    BY <2>1, <1>6 DEF Takes
  <2>3. Opened(w, p) = w /\ w[p] = "absent" /\ w \in Trees /\ os \union {p} = os
    BY <1>15, <2>2, OpenedTwice
  <2>4. [w EXCEPT ![p] = "absent"] = w /\ [u EXCEPT ![p] = "absent"] = u
    BY <1>15, <2>3 DEF Trees
  <2>5. Redone(w, os, e, w, os)
    BY <1>1, <1>15, <2>3, <2>4 DEF Redone, Marked
  <2>6. \A v, ns : Redone(w, os, e, v, ns) => Redone(u, ms, e, v, ns)
    BY <1>1, <1>15, <2>2, <2>3, <2>4 DEF Redone, Marked
  <2> QED BY <1>6, <2>1, <2>5, <2>6 DEF Remains
<1>16. CASE e.kind = "whiteout" /\ s = <<k>>
  <2>1. s \in Seq(Steps) /\ s[1] = k /\ Tail(s) = <<>>
    BY <1>16, OnlyOne
  <2>2. w = Opened(u, p) /\ os = ms \union {p}
    BY <2>1, <1>6 DEF Takes
  <2>3. Opened(w, p) = w /\ os \union {p} = os
    BY <2>2, OpenedTwice
  <2>4. Redone(w, os, e, w, os)
    BY <1>1, <1>16, <2>3 DEF Redone
  <2>5. \A v, ns : Redone(w, os, e, v, ns) => Redone(u, ms, e, v, ns)
    BY <1>1, <1>16, <2>2, <2>3 DEF Redone
  <2> QED BY <1>6, <2>1, <2>4, <2>5 DEF Remains
<1>17. CASE e.kind = "rename" /\ u[p] # "absent" /\ Opened(u, d) = u /\ s = <<m>> \o t
  <2>1. s \in Seq(Steps) /\ s[1] = m /\ Tail(s) = t
    BY <1>17, FirstOf
  <2>2. /\ w = MovedTree(u, p, d) /\ os = MovedMarks(ms, p, d)
        /\ u[d] = "dir" => \A q \in Below[d] : u[q] = "absent" /\ q \notin ms
    BY <2>1, <1>2, <1>7 DEF Takes
  <2>3. w[p] = "absent"
    <3>1. p \notin From[d] /\ p \in From[p]
      BY <1>1, <1>2, <1>17, EntryNames, Subsets
    <3> QED BY <2>2, <3>1 DEF MovedTree
  <2>4. \A v, ns : Redone(w, os, e, v, ns) => Redone(u, ms, e, v, ns)
    BY <1>1, <1>2, <1>17, <2>2, <2>3 DEF Redone
  <2>5. CASE e.lower
    <3>1. Tail(s) = <<k>>
      BY <2>1, <2>5, <1>9
    <3> QED BY <1>1, <1>6, <1>7, <1>17, <2>1, <2>3, <2>4, <2>5, <3>1 DEF Remains
  <2>6. CASE ~e.lower
    <3>1. Tail(s) = <<>>
      BY <2>1, <2>6, <1>9
    <3>2. Redone(w, os, e, w, os)
      BY <1>1, <1>17, <2>3, <2>6 DEF Redone, Marked
    <3> QED BY <1>7, <2>1, <2>4, <3>1, <3>2 DEF Remains
  <2> QED BY <2>5, <2>6
<1>18. CASE e.kind = "rename" /\ u[p] # "absent" /\ s = <<o>> \o (<<m>> \o t)
  <2>1. <<m>> \o t \in Seq(Steps)
    BY FirstOf
  <2>2. s \in Seq(Steps) /\ s[1] = o /\ Tail(s) = <<m>> \o t
    BY <1>18, <2>1, FirstOf
  <2>3. w = Opened(u, d) /\ os = ms
    BY <2>2, <1>8 DEF Takes
  <2>4. Opened(w, d) = w /\ w[d] = u[d] /\ \A q \in Paths : q \notin Above[d] => w[q] = u[q]
    BY <2>3, OpenedTwice
  <2>5. w[p] = u[p]
    BY <1>1, <1>2, <1>18, <2>4, EntryNames
  <2>6. \A q \in Below[d] : w[q] = u[q]
    <3>1. \A q \in Below[d] : q \in Paths /\ q \notin Above[d]
      BY Subsets, AboveIsOrder, PathIsSeq
    <3> QED BY <2>4, <3>1
  <2>7. ASSUME NEW v, NEW ns, Redone(w, os, e, v, ns) PROVE Redone(u, ms, e, v, ns)
    <3>1. /\ w[d] = "dir" => \A q \in Below[d] : w[q] = "absent" /\ q \notin os
          /\ Marked(MovedTree(Opened(w, d), p, d), MovedMarks(os, p, d), e, v, ns)
      BY <1>1, <1>2, <1>18, <2>5, <2>7 DEF Redone
    <3>2. /\ u[d] = "dir" => \A q \in Below[d] : u[q] = "absent" /\ q \notin ms
          /\ Marked(MovedTree(Opened(u, d), p, d), MovedMarks(ms, p, d), e, v, ns)
      BY <2>3, <2>4, <2>6, <3>1
    <3> QED BY <1>1, <1>2, <1>18, <3>2 DEF Redone
  <2>8. Remains(w, os, e, Tail(s))
    BY <1>1, <1>2, <1>6, <1>7, <1>9, <1>18, <2>2, <2>4, <2>5 DEF Remains
  <2> QED BY <1>8, <2>2, <2>7, <2>8
<1>19. \/ e.kind = "create" /\ s = <<x>>
       \/ e.kind = "mkdir" /\ s = <<y>>
       \/ e.kind \in {"unlink", "rmdir"} /\ s = <<x>> \o t
       \/ e.kind \in {"unlink", "rmdir", "rename"} /\ u[p] = "absent" /\ e.lower /\ s = <<k>>
       \/ e.kind = "whiteout" /\ s = <<k>>
       \/ e.kind = "rename" /\ u[p] # "absent" /\ Opened(u, d) = u /\ s = <<m>> \o t
       \/ e.kind = "rename" /\ u[p] # "absent" /\ s = <<o>> \o (<<m>> \o t)
  BY <1>1, <1>2, <1>4, <1>5, <1>6, <1>7, <1>8, <1>9 DEF Remains
<1> QED BY <1>12, <1>13, <1>14, <1>15, <1>16, <1>17, <1>18, <1>19

\* The steps of the work on a record: after the first of them the others are left, and
\* whatever completes a replay from there completes it from before.
LEMMA GoesStep ==
  ASSUME NEW u \in Trees, NEW ms, NEW e \in Entries, Apart(e), NEW s, Goes(u, ms, e, s), s # <<>>,
         NEW w, NEW os, Takes(u, ms, s[1], w, os)
  PROVE  /\ s \in Seq(Steps) /\ s[1].do \notin {"begin", "commit"}
         /\ Goes(w, os, e, Tail(s))
         /\ \A v, ns : Redone(w, os, e, v, ns) => Redone(u, ms, e, v, ns)
<1>1. PICK p \in Paths : p = e.path
  BY EntryNames
<1>2. PICK x \in Steps : x = Do("put", e.path, e) /\ x.do = "put" /\ x.path = p /\ x.entry = e
  BY <1>1, StepIs DEF StepNames
<1>3. PICK y \in Steps : y = Do("mkdir", e.path, e) /\ y.do = "mkdir" /\ y.path = p /\ y.entry = e
  BY <1>1, StepIs DEF StepNames
<1>4. CASE e.kind = "create" /\ s = <<x>>
  <2>1. s \in Seq(Steps) /\ s[1] = x /\ Tail(s) = <<>>
    BY <1>4, OnlyOne
  <2>2. w = [u EXCEPT ![p] = Empty] /\ os = ms
    BY <2>1, <1>2, <1>4 DEF Takes
  <2>3. [w EXCEPT ![p] = "absent"] = [u EXCEPT ![p] = "absent"]
    BY <2>2 DEF Trees
  <2>4. \A v, ns : Redone(w, os, e, v, ns) => Redone(u, ms, e, v, ns)
    BY <1>1, <1>4, <2>2, <2>3 DEF Redone
  <2> QED BY <1>2, <2>1, <2>4 DEF Goes
<1>5. CASE e.kind = "mkdir" /\ s = <<y>>
  <2>1. s \in Seq(Steps) /\ s[1] = y /\ Tail(s) = <<>>
    BY <1>5, OnlyOne
  <2>2. w = [u EXCEPT ![p] = "dir"] /\ os = ms
    BY <2>1, <1>3 DEF Takes
  <2>3. [q \in Paths |-> IF q \in From[p] THEN "absent" ELSE w[q]]
          = [q \in Paths |-> IF q \in From[p] THEN "absent" ELSE u[q]]
    BY <2>2, Subsets DEF Trees
  <2>4. \A v, ns : Redone(w, os, e, v, ns) => Redone(u, ms, e, v, ns)
    BY <1>1, <1>5, <2>2, <2>3 DEF Redone
  <2> QED BY <1>3, <2>1, <2>4 DEF Goes
<1>6. CASE Remains(u, ms, e, s)
  <2>1. /\ s \in Seq(Steps) /\ s[1].do \notin {"begin", "commit"} /\ Remains(w, os, e, Tail(s))
        /\ \A v, ns : Redone(w, os, e, v, ns) => Redone(u, ms, e, v, ns)
    BY <1>6, RemainsStep
  <2> QED BY <2>1 DEF Goes
<1> QED BY <1>1, <1>2, <1>3, <1>4, <1>5, <1>6 DEF Goes

\* What a start does about a record is a replay of it that has not begun.
LEMMA RedoRemains ==
  ASSUME upper \in Trees, Tree(upper, marks), NEW e \in Entries, e.kind \in Judged, Redoable(e)
  PROVE  Remains(upper, marks, e, Redo(e))
<1>1. PICK p \in Paths : p = e.path
  BY EntryNames
<1>2. PICK d \in Paths : d = e.dest
  BY EntryNames
<1>3. e.lower \in BOOLEAN
  BY EntryNames
<1>4. PICK k \in Steps : k = Do("mark", e.path, e)
  BY <1>1, StepIs DEF StepNames
<1>5. PICK m \in Steps : m = Do("move", e.path, e)
  BY <1>1, StepIs DEF StepNames
<1>6. PICK o \in Steps : o = Do("parents", e.dest, e)
  BY <1>2, StepIs DEF StepNames
<1>7. PICK x \in Steps : x = Do("remove", e.path, e)
  BY <1>1, StepIs DEF StepNames
<1>8. PICK t \in Seq(Steps) : t = IfThen(e.lower, <<k>>) /\ (e.lower => t = <<k>>) /\ (~e.lower => t = <<>>)
  BY Conditional
<1>9. upper[p] = "absent" => [upper EXCEPT ![p] = "absent"] = upper
  BY DEF Trees
<1>10. CASE e.kind = "create"
  <2>1. CASE InPlace(p)
    <3>1. Redo(e) = <<x>>
      BY <1>1, <1>7, <1>10, <2>1 DEF Redo, IfThen
    <3> QED BY <3>1, <1>7, <1>10 DEF Remains
  <2>2. CASE ~InPlace(p)
    <3>1. Redo(e) = <<>>
      BY <1>1, <1>10, <2>2 DEF Redo, IfThen
    <3>2. upper[p] = "absent"
      BY <2>2 DEF Tree, Placed, InPlace
    <3>3. Redone(upper, marks, e, upper, marks)
      BY <1>1, <1>9, <1>10, <3>2 DEF Redone
    <3> QED BY <3>1, <3>3 DEF Remains
  <2> QED BY <2>1, <2>2
<1>11. CASE e.kind = "mkdir"
  <2>1. CASE upper[p] = "dir"
    <3>1. Redo(e) = <<Do("rmtree", e.path, e)>>
      BY <1>1, <1>11, <2>1 DEF Redo, IfThen
    <3> QED BY <3>1, <1>11 DEF Remains
  <2>2. CASE upper[p] # "dir"
    <3>1. Redo(e) = <<>>
      BY <1>1, <1>11, <2>2 DEF Redo, IfThen
    <3>2. upper[p] = "absent"
      BY <1>1, <1>11, <2>2 DEF Redoable
    <3>3. \A q \in Below[p] : upper[q] = "absent" /\ q \notin marks
      BY <2>2, NothingBelow
    <3>4. /\ [q \in Paths |-> IF q \in From[p] THEN "absent" ELSE upper[q]] = upper
          /\ marks \ Below[p] = marks
      BY <3>2, <3>3, Subsets DEF Trees
    <3>5. Redone(upper, marks, e, upper, marks)
      BY <1>1, <1>11, <3>4 DEF Redone
    <3> QED BY <3>1, <3>5 DEF Remains
  <2> QED BY <2>1, <2>2
<1>12. CASE e.kind = "rename"
  <2>1. CASE upper[p] # "absent"
    <3>1. Redo(e) = <<o, m>> \o t
      BY <1>1, <1>4, <1>5, <1>6, <1>8, <1>12, <2>1 DEF Redo, IfThen
    <3>2. <<o>> \in Seq(Steps) /\ <<m>> \in Seq(Steps) /\ <<o>> \o <<m>> = <<o, m>>
      BY OnlyOne, SmallPlans
    <3>3. <<o, m>> \o t = <<o>> \o (<<m>> \o t)
      BY <3>2, ConcatAssociative
    <3> QED BY <1>1, <1>4, <1>5, <1>6, <1>8, <1>12, <2>1, <3>1, <3>3 DEF Remains
  <2>2. CASE upper[p] = "absent"
    <3>1. Redo(e) = <<>> \o t
      BY <1>1, <1>4, <1>8, <1>12, <2>2 DEF Redo, IfThen
    <3>2. Redo(e) = t
      BY <3>1, <1>8, SmallPlans
    <3>3. CASE e.lower
      BY <1>1, <1>4, <1>8, <1>12, <2>2, <3>2, <3>3 DEF Remains
    <3>4. CASE ~e.lower
      <4>1. Redone(upper, marks, e, upper, marks)
        BY <1>1, <1>12, <2>2, <3>4 DEF Redone, Marked
      <4> QED BY <4>1, <1>8, <3>2, <3>4 DEF Remains
    <3> QED BY <3>3, <3>4
  <2> QED BY <2>1, <2>2
<1>13. CASE e.kind \in {"unlink", "rmdir"}
  <2>1. CASE upper[p] # "absent"
    <3>1. Redo(e) = <<x>> \o t
      BY <1>1, <1>4, <1>7, <1>8, <1>13, <2>1 DEF Redo, IfThen
    <3> QED BY <3>1, <1>4, <1>7, <1>8, <1>13 DEF Remains
  <2>2. CASE upper[p] = "absent"
    <3>1. Redo(e) = <<>> \o t
      BY <1>1, <1>4, <1>8, <1>13, <2>2 DEF Redo, IfThen
    <3>2. Redo(e) = t
      BY <3>1, <1>8, SmallPlans
    <3>3. CASE e.lower
      BY <1>1, <1>4, <1>8, <1>13, <2>2, <3>2, <3>3 DEF Remains
    <3>4. CASE ~e.lower
      <4>1. Redone(upper, marks, e, upper, marks)
        BY <1>1, <1>9, <1>13, <2>2, <3>4 DEF Redone, Marked
      <4> QED BY <4>1, <1>8, <3>2, <3>4 DEF Remains
    <3> QED BY <3>3, <3>4
  <2> QED BY <2>1, <2>2
<1>14. CASE e.kind = "whiteout"
  <2>1. Redo(e) = <<Do("mark", e.path, e)>>
    BY <1>14 DEF Redo
  <2> QED BY <1>14, <2>1 DEF Remains
<1> QED BY <1>10, <1>11, <1>12, <1>13, <1>14 DEF Judged

-----------------------------------------------------------------------------
(* Overlay: quiet steps                                                  *)

\* A step put before others leads to where they lead.
LEMMA LeadsBefore ==
  ASSUME NEW x \in Steps, NEW t \in Seq(Steps), NEW u, NEW ms, NEW v, NEW ns, NEW w, NEW os,
         Takes(u, ms, x, v, ns), Leads(v, ns, t, w, os)
  PROVE  Leads(u, ms, <<x>> \o t, w, os)
<1>1. PICK s : s = <<x>> \o t
  OBVIOUS
<1>2. s \in Seq(Steps) /\ s # <<>> /\ s[1] = x /\ Tail(s) = t
  BY <1>1, FirstOf
<1>3. Leads(u, ms, s, w, os)
  BY <1>2, LeadsFirst
<1> QED BY <1>1, <1>3

\* The first of some steps is the first of those and others after them.
LEMMA JoinedFirst ==
  ASSUME NEW a \in Seq(Steps), NEW b \in Seq(Steps), a # <<>>, NEW s, s = a \o b
  PROVE  /\ s \in Seq(Steps) /\ s # <<>> /\ s[1] = a[1] /\ Tail(s) = Tail(a) \o b
         /\ Tail(a) \in Seq(Steps) /\ a[1] \in Steps
<1>1. /\ Tail(a) \in Seq(Steps) /\ a[1] \in Steps /\ a[1] = Head(a)
      /\ Len(a) \in Nat /\ Len(a) > 0 /\ Len(Tail(a)) = Len(a) - 1 /\ DOMAIN a = 1 .. Len(a)
      /\ \A i \in 1 .. Len(a) - 1 : Tail(a)[i] = a[i + 1]
  BY TailFacts
<1>2. PICK x \in Steps, t \in Seq(Steps) : x = a[1] /\ t = Tail(a)
  BY <1>1
<1>3. a = <<x>> \o t
  <2>1. PICK r : r = <<x>> \o t
    OBVIOUS
  <2>2. /\ r \in Seq(Steps) /\ Len(t) \in Nat /\ Len(r) = Len(t) + 1 /\ r[1] = x
        /\ \A i \in 1 .. Len(t) : r[1 + i] = t[i]
    BY <2>1, Prepended
  <2>3. PICK n \in Nat : n = Len(t) /\ Len(r) = n + 1 /\ Len(a) = n + 1 /\ Len(a) - 1 = n
    <3>1. PICK m \in Nat : m = Len(a)
      BY <1>1
    <3>2. Len(t) = m - 1
      BY <1>1, <1>2, <3>1, Zenon
    <3>3. PICK n \in Nat : n = Len(t)
      BY <2>2
    <3>4. m = n + 1 /\ m - 1 = n
      BY <3>1, <3>2, <3>3
    <3> QED BY <2>2, <3>1, <3>3, <3>4
  <2>4. ASSUME NEW i \in 1 .. n + 1 PROVE r[i] = a[i]
    <3>1. CASE i = 1
      BY <1>2, <2>2, <3>1
    <3>2. CASE i # 1
      <4>1. i - 1 \in 1 .. n /\ 1 + (i - 1) = i /\ (i - 1) + 1 = i
        BY <2>3, <3>2
      <4>2. r[1 + (i - 1)] = t[i - 1] /\ t[i - 1] = a[(i - 1) + 1]
        BY <1>1, <1>2, <2>2, <2>3, <4>1
      <4> QED BY <4>1, <4>2
    <3> QED BY <3>1, <3>2
  <2>5. r = a
    BY <2>2, <2>3, <2>4, SeqEqual
  <2> QED BY <2>1, <2>5
<1>4. t \o b \in Seq(Steps)
  BY JoinedPlaces
<1>5. <<x>> \in Seq(Steps) /\ s = (<<x>> \o t) \o b
  BY <1>3, OnlyOne
<1>6. s = <<x>> \o (t \o b)
  BY <1>5, ConcatAssociative
<1>7. s \in Seq(Steps) /\ s # <<>> /\ s[1] = x /\ Tail(s) = t \o b
  BY <1>4, <1>6, FirstOf
<1> QED BY <1>2, <1>7

\* A record that waits goes on waiting, unless it is committed.
LEMMA StillUnfinished ==
  ASSUME NEW a \in Seq(Steps), a # <<>>, NEW e, Unfinished(a, e),
         a[1].do = "commit" => a[1].entry # e
  PROVE  Unfinished(Tail(a), e)
<1>1. PICK t : t = Tail(a)
  OBVIOUS
<1>2. /\ \A i \in DOMAIN t : i + 1 \in DOMAIN a /\ t[i] = a[i + 1]
      /\ \A j \in DOMAIN a : j = 1 \/ (j - 1 \in DOMAIN t /\ t[j - 1] = a[j])
  BY <1>1, TailPlaces
<1>3. ASSUME NEW i \in DOMAIN t, t[i].do = "begin", t[i].entry = e PROVE FALSE
  BY <1>2, <1>3 DEF Unfinished
<1>4. PICK j \in DOMAIN a : a[j].do = "commit" /\ a[j].entry = e
  BY DEF Unfinished
<1>5. j - 1 \in DOMAIN t /\ t[j - 1] = a[j]
  BY <1>2, <1>4
<1> QED BY <1>1, <1>3, <1>4, <1>5 DEF Unfinished

\* A record that is resolved is gone from records that are different ones.
LEMMA ResolvedIsGone ==
  ASSUME NEW e, pending \in Seq(Entries),
         \A i \in DOMAIN pending, j \in DOMAIN pending : pending[i] = pending[j] => i = j,
         \A i \in DOMAIN pending : pending[i].kind = e.kind /\ pending[i].path = e.path => pending[i] = e
  PROVE  \A i \in DOMAIN Resolved(e) :
           /\ Resolved(e)[i] # e
           /\ \E k \in DOMAIN pending : pending[k] = Resolved(e)[i]
           /\ \A j \in DOMAIN Resolved(e) : Resolved(e)[i] = Resolved(e)[j] => i = j
<1>1. PICK r : r = Resolved(e)
  OBVIOUS
<1>2. CASE r = pending /\ \A i \in DOMAIN pending : ~(pending[i].kind = e.kind /\ pending[i].path = e.path)
  BY <1>1, <1>2
<1>3. CASE \E l \in DOMAIN pending :
             pending[l].kind = e.kind /\ pending[l].path = e.path /\ r = RemoveAt(pending, l)
  <2>1. PICK l \in 1 .. Len(pending) : pending[l] = e /\ r = RemoveAt(pending, l)
    BY <1>3
  <2>2. /\ r \in Seq(Entries) /\ Len(r) = Len(pending) - 1 /\ Len(pending) \in Nat
        /\ \A i \in 1 .. Len(pending) - 1 : r[i] = IF i < l THEN pending[i] ELSE pending[i + 1]
    <3>1. r = RemoveAt(pending, l) BY <2>1
    <3>2. pending \in Seq(Entries) OBVIOUS
    <3> QED BY ONLY <3>1, <3>2, l \in 1 .. Len(pending), RemovedByPlace, Zenon
  <2> DEFINE Was(i) == IF i < l THEN i ELSE i + 1
  <2>3. ASSUME NEW i \in DOMAIN r
        PROVE  i \in Nat /\ Was(i) \in DOMAIN pending /\ Was(i) # l /\ r[i] = pending[Was(i)]
    <3>1. i \in 1 .. Len(pending) - 1 /\ i \in Nat /\ l \in Nat
      BY <2>2
    <3> QED BY <2>2, <3>1
  <2>4. ASSUME NEW i \in DOMAIN r, NEW j \in DOMAIN r, r[i] = r[j] PROVE i = j
    <3>1. Was(i) = Was(j)
      <4> HIDE DEF Was
      <4> QED BY <2>3, <2>4
    <3> QED BY <2>2, <2>3, <3>1
  <2>5. ASSUME NEW i \in DOMAIN r PROVE r[i] # e /\ \E k \in DOMAIN pending : pending[k] = r[i]
    <3> HIDE DEF Was
    <3> QED BY <2>1, <2>3
  <2> QED BY <1>1, <2>4, <2>5
<1> QED BY <1>1, <1>2, <1>3, ResolvedPlaces

\* What a step of an operation that goes on, or of a replay, changes of the rest.
LEMMA StepGoesOn ==
  ASSUME OverlayIInv, Step, allowed' # {}
  PROVE  /\ todo # <<>> /\ todo \in Seq(Steps) /\ todo' = Tail(todo)
         /\ Takes(upper, marks, todo[1], upper', marks')
         /\ phase = "operation" => Len(todo) # 1
         /\ phase' = phase /\ goal' = goal /\ allowed' = allowed /\ replay' = replay
         /\ todo[1].do = "begin" => pending' = Append(pending, todo[1].entry)
         /\ todo[1].do = "commit" => pending' = Resolved(todo[1].entry)
         /\ todo[1].do \notin {"begin", "commit"} => pending' = pending
<1>1. todo # <<>> /\ Taken /\ Takes(upper, marks, todo[1], upper', marks')
  BY StepTakes
<1>2. Current = todo[1] /\ Typed
  BY <1>1, Underway
<1>3. /\ Current.do = "begin" => pending' = Append(pending, Current.entry)
      /\ Current.do = "commit" => pending' = Resolved(Current.entry)
      /\ Current.do \notin {"begin", "commit"} => pending' = pending
  BY DEF Step, StepClear, StepParents, StepBegin, StepPut, StepMkdir, StepRemove, StepRemoveTree,
         StepMove, StepMark, StepCommit, Is
<1>4. ~(phase = "operation" /\ Len(todo) = 1) /\ phase' = phase /\ goal' = goal /\ allowed' = allowed
  BY <1>1 DEF Taken
<1>5. todo' = Tail(todo) /\ replay' = replay /\ todo \in Seq(Steps)
  BY <1>1, <1>2 DEF Taken, Typed
<1> QED BY <1>1, <1>2, <1>3, <1>4, <1>5

\* The steps before and after the work of a record lead nowhere else.
LEMMA LeadsWork ==
  ASSUME NEW e \in Entries, NEW x \in Steps, NEW s, s = <<x>> \o IfThen(e.lower, <<Do("mark", e.path, e)>>),
         NEW u, NEW ms, NEW w, NEW os, Takes(u, ms, x, w, os),
         NEW v, NEW ns, Marked(w, os, e, v, ns)
  PROVE  Leads(u, ms, s \o <<Do("commit", e.path, e)>>, v, ns)
<1>1. PICK c \in Steps : c = Do("commit", e.path, e) /\ c.do = "commit"
  BY EntryNames, StepIs DEF StepNames
<1>2. PICK k \in Steps : k = Do("mark", e.path, e) /\ k.do = "mark" /\ k.path = e.path
  BY EntryNames, StepIs DEF StepNames
<1>3. /\ <<>> \in Seq(Steps) /\ <<c>> \in Seq(Steps) /\ <<x>> \in Seq(Steps) /\ <<k>> \in Seq(Steps)
      /\ <<k>> \o <<c>> \in Seq(Steps)
  BY EmptySeq, OnlyOne, FirstOf
<1>4. Leads(v, ns, <<c>>, v, ns)
  <2>1. Leads(v, ns, <<>>, v, ns)
    BY LeadsNone
  <2>2. Takes(v, ns, c, v, ns)
    BY <1>1 DEF Takes
  <2>3. Leads(v, ns, <<c>> \o <<>>, v, ns)
    BY <1>3, <2>1, <2>2, LeadsBefore
  <2> QED BY <2>3, SmallPlans
<1>5. CASE e.lower
  <2>1. s = <<x>> \o <<k>>
    BY <1>2, <1>5, Conditional
  <2>2. s \o <<c>> = <<x>> \o (<<k>> \o <<c>>)
    <3>1. PICK h \in Seq(Steps), i \in Seq(Steps), j \in Seq(Steps) : h = <<x>> /\ i = <<k>> /\ j = <<c>>
      BY <1>3
    <3>2. (h \o i) \o j = h \o (i \o j)
      BY ConcatAssociative
    <3> QED BY <2>1, <3>1, <3>2
  <2>3. Takes(w, os, k, v, ns)
    BY <1>2, <1>5 DEF Marked, Takes
  <2>4. Leads(w, os, <<k>> \o <<c>>, v, ns)
    BY <1>3, <1>4, <2>3, LeadsBefore
  <2>5. Leads(u, ms, <<x>> \o (<<k>> \o <<c>>), v, ns)
    BY <1>3, <2>4, LeadsBefore
  <2> QED BY <1>1, <2>2, <2>5
<1>6. CASE ~e.lower
  <2>1. s = <<x>>
    BY <1>2, <1>6, Conditional, SmallPlans
  <2>2. v = w /\ ns = os
    BY <1>6 DEF Marked
  <2>3. Leads(u, ms, <<x>> \o <<c>>, v, ns)
    BY <1>3, <1>4, <2>2, LeadsBefore
  <2> QED BY <1>1, <2>1, <2>3
<1> QED BY <1>5, <1>6

\* Whatever a replay makes of a record that was only begun: the work on it makes the same,
\* or nothing was done.
LEMMA WorkIsRedone ==
  ASSUME NEW u \in Trees, NEW ms, Tree(u, ms), NEW e \in Entries, NEW s, Works(e, s), Fit(u, e),
         NEW v, NEW ns, Redone(u, ms, e, v, ns)
  PROVE  (v = u /\ ns = ms) \/ Leads(u, ms, s \o <<Do("commit", e.path, e)>>, v, ns)
<1>1. PICK p \in Paths : p = e.path
  BY EntryNames
<1>2. CASE e.kind = "create"
  <2>1. v = [u EXCEPT ![p] = "absent"] /\ ns = ms /\ u[p] = "absent"
    BY <1>1, <1>2 DEF Redone, Fit
  <2> QED BY <2>1 DEF Trees
<1>3. CASE e.kind = "mkdir"
  <2>1. /\ v = [q \in Paths |-> IF q \in From[p] THEN "absent" ELSE u[q]] /\ ns = ms \ Below[p]
        /\ u[p] = "absent"
    BY <1>1, <1>3 DEF Redone, Fit
  <2>2. \A q \in Below[p] : u[q] = "absent" /\ q \notin ms
    BY <2>1, NothingBelow
  <2>3. v = u /\ ns = ms
    BY <2>1, <2>2, Subsets DEF Trees
  <2> QED BY <2>3
<1>4. CASE e.kind \in {"unlink", "rmdir"}
  <2>1. PICK x \in Steps : x = Do("remove", e.path, e) /\ x.do = "remove" /\ x.path = p
    BY <1>1, StepIs DEF StepNames
  <2>2. s = <<x>> \o IfThen(e.lower, <<Do("mark", e.path, e)>>)
    BY <1>4, <2>1 DEF Works
  <2>3. PICK w : w = [u EXCEPT ![p] = "absent"]
    OBVIOUS
  <2>4. Marked(w, ms, e, v, ns) /\ Takes(u, ms, x, w, ms)
    BY <1>1, <1>4, <2>1, <2>3 DEF Redone, Takes
  <2> QED BY <2>2, <2>4, LeadsWork
<1>5. CASE e.kind = "whiteout"
  <2>1. PICK k \in Steps : k = Do("mark", e.path, e) /\ k.do = "mark" /\ k.path = p
    BY <1>1, StepIs DEF StepNames
  <2>2. PICK c \in Steps : c = Do("commit", e.path, e) /\ c.do = "commit"
    BY EntryNames, StepIs DEF StepNames
  <2>3. s = <<k>> /\ <<>> \in Seq(Steps) /\ <<c>> \in Seq(Steps)
    BY <1>5, <2>1, EmptySeq, OnlyOne DEF Works
  <2>4. Takes(u, ms, k, v, ns) /\ Takes(v, ns, c, v, ns) /\ Leads(v, ns, <<>>, v, ns)
    BY <1>1, <1>5, <2>1, <2>2, LeadsNone DEF Redone, Takes
  <2>5. Leads(v, ns, <<c>> \o <<>>, v, ns) /\ <<c>> \o <<>> = <<c>>
    BY <2>3, <2>4, LeadsBefore, SmallPlans
  <2>6. Leads(u, ms, <<k>> \o <<c>>, v, ns)
    BY <2>3, <2>4, <2>5, LeadsBefore
  <2> QED BY <2>2, <2>3, <2>6
<1>6. CASE e.kind = "rename"
  <2>1. PICK d \in Paths : d = e.dest
    BY EntryNames
  <2>2. PICK x \in Steps : x = Do("move", e.path, e) /\ x.do = "move" /\ x.path = p /\ x.entry = e
    BY <1>1, StepIs DEF StepNames
  <2>3. s = <<x>> \o IfThen(e.lower, <<Do("mark", e.path, e)>>)
    BY <1>6, <2>2 DEF Works
  <2>4. PICK w, os : w = MovedTree(u, p, d) /\ os = MovedMarks(ms, p, d)
    OBVIOUS
  <2>5. u[p] # "absent" /\ Opened(u, d) = u
    BY <1>1, <1>6, <2>1 DEF Fit
  <2>6. /\ u[d] = "dir" => \A q \in Below[d] : u[q] = "absent" /\ q \notin ms
        /\ Marked(w, os, e, v, ns)
    BY <1>1, <1>6, <2>1, <2>4, <2>5 DEF Redone
  <2>7. Takes(u, ms, x, w, os)
    BY <2>1, <2>2, <2>4, <2>6 DEF Takes
  <2> QED BY <2>3, <2>6, <2>7, LeadsWork
<1> QED BY <1>2, <1>3, <1>4, <1>5, <1>6 DEF Works

\* Quiet steps keep the journal: the records in it are of copies that are to be committed.
LEMMA QuietJournal ==
  ASSUME pending \in Seq(Entries), NEW a \in Seq(Steps), a # <<>>, Waiting(pending, a),
         Quiet(upper, marks, a),
         \A i \in DOMAIN pending : IsCopy(pending[i]) /\ OnlyCopies(upper, marks, pending[i].path),
         a[1].do = "begin" => pending' = Append(pending, a[1].entry),
         a[1].do = "commit" => pending' = Resolved(a[1].entry),
         a[1].do \notin {"begin", "commit"} => pending' = pending
  PROVE  /\ Waiting(pending', Tail(a))
         /\ \A i \in DOMAIN pending' : IsCopy(pending'[i]) /\ OnlyCopies(upper, marks, pending'[i].path)
<1>1. PICK t \in Seq(Steps) : t = Tail(a)
  BY TailFacts
<1>2. 1 \in DOMAIN a /\ a[1] \in Steps
  BY TailFacts
<1>3. \A i \in DOMAIN pending : Unfinished(a, pending[i])
  BY DEF Waiting
<1>4. \A i \in DOMAIN pending, j \in DOMAIN pending : pending[i] = pending[j] => i = j
  BY DEF Waiting
<1>5. CASE a[1].do \notin {"begin", "commit"}
  <2>1. \A i \in DOMAIN pending : Unfinished(t, pending[i])
    BY <1>1, <1>3, <1>5, StillUnfinished
  <2>2. pending' = pending
    BY <1>5
  <2> QED BY <1>1, <1>4, <2>1, <2>2 DEF Waiting
<1>6. CASE a[1].do = "begin"
  <2>1. PICK e \in Entries : e = a[1].entry
    BY <1>2 DEF Steps
  <2>2. IsCopy(e) /\ OnlyCopies(upper, marks, e.path)
    BY <1>2, <1>6, <2>1 DEF Quiet
  <2>3. PICK r : r = pending' /\ r = Append(pending, e)
    BY <1>6, <2>1
  <2>4. /\ r \in Seq(Entries) /\ Len(pending) \in Nat /\ Len(r) = Len(pending) + 1
        /\ DOMAIN pending = 1 .. Len(pending) /\ r[Len(pending) + 1] = e
        /\ \A i \in DOMAIN pending : r[i] = pending[i]
    BY <2>3
  <2>5. \A i \in DOMAIN r : i \in DOMAIN pending \/ i = Len(pending) + 1
    BY <2>4
  <2>6. \A i \in DOMAIN pending : pending[i] # e /\ Unfinished(t, pending[i])
    <3>1. \A i \in DOMAIN pending : pending[i] # e
      BY <1>2, <1>3, <1>6, <2>1 DEF Unfinished
    <3> QED BY <1>1, <1>3, <1>6, <3>1, StillUnfinished
  <2>7. Unfinished(t, e)
    <3>1. /\ \A i \in DOMAIN t : i + 1 \in DOMAIN a /\ i + 1 > 1 /\ t[i] = a[i + 1]
          /\ \A j \in DOMAIN a : j = 1 \/ (j - 1 \in DOMAIN t /\ t[j - 1] = a[j])
      BY <1>1, TailPlaces
    <3>2. ASSUME NEW i \in DOMAIN t, t[i].do = "begin", t[i].entry = e PROVE FALSE
      <4>1. a[i + 1].do = a[1].do /\ a[i + 1].entry = a[1].entry /\ a[i + 1].do = "begin" /\ i + 1 \in DOMAIN a
        BY <1>6, <2>1, <3>1, <3>2
      <4>2. i + 1 = 1
        BY <1>2, <4>1 DEF Quiet
      <4>3. i + 1 > 1
        BY <3>1
      <4> QED BY <4>2, <4>3
    <3>3. PICK j \in DOMAIN a : 1 < j /\ a[j].do = "commit" /\ a[j].entry = e
      BY <1>2, <1>6, <2>1 DEF Quiet
    <3>4. j - 1 \in DOMAIN t /\ t[j - 1] = a[j]
      BY <3>1, <3>3
    <3> QED BY <3>2, <3>3, <3>4 DEF Unfinished
  <2>8. \A i \in DOMAIN r, j \in DOMAIN r : r[i] = r[j] => i = j
    BY <1>4, <2>4, <2>5, <2>6
  <2>9. \A i \in DOMAIN r : /\ Unfinished(t, r[i])
                            /\ IsCopy(r[i]) /\ OnlyCopies(upper, marks, r[i].path)
    BY <2>2, <2>4, <2>5, <2>6, <2>7
  <2> QED BY <1>1, <2>3, <2>8, <2>9 DEF Waiting
<1>7. CASE a[1].do = "commit"
  <2>1. PICK e \in Entries : e = a[1].entry
    BY <1>2 DEF Steps
  <2>2. IsCopy(e)
    BY <1>2, <1>7, <2>1 DEF Quiet
  <2>3. \A i \in DOMAIN pending : pending[i].kind = e.kind /\ pending[i].path = e.path => pending[i] = e
    BY <2>2 DEF IsCopy
  <2>4. PICK r : r = pending' /\ r = Resolved(e)
    BY <1>7, <2>1
  <2>5. \A i \in DOMAIN r : /\ r[i] # e /\ \E k \in DOMAIN pending : pending[k] = r[i]
                            /\ \A j \in DOMAIN r : r[i] = r[j] => i = j
    BY <1>4, <2>3, <2>4, ResolvedIsGone
  <2>6. \A i \in DOMAIN r : Unfinished(t, r[i])
    <3>1. \A i \in DOMAIN r : Unfinished(a, r[i]) /\ r[i] # e
      BY <1>3, <2>5
    <3> QED BY <1>1, <2>1, <3>1, StillUnfinished
  <2>7. \A i \in DOMAIN r : IsCopy(r[i]) /\ OnlyCopies(upper, marks, r[i].path)
    BY <2>5
  <2> QED BY <1>1, <2>4, <2>5, <2>6, <2>7 DEF Waiting
<1> QED BY <1>5, <1>6, <1>7

-----------------------------------------------------------------------------
(* Overlay: what can be recovered stays so                               *)

\* The journal begins a record with the first of its steps.
LEMMA JournaledFirst ==
  ASSUME NEW e \in Entries, NEW s \in Seq(Steps), NEW r, r = Journaled(e, s)
  PROVE  LET rest == s \o <<Do("commit", e.path, e)>>
         IN /\ r \in Seq(Steps) /\ r # <<>> /\ rest \in Seq(Steps)
            /\ r[1].do = "begin" /\ r[1].entry = e /\ Tail(r) = rest
            /\ \A u, ms, v, ns : Leads(u, ms, rest, v, ns) => Leads(u, ms, r, v, ns)
<1>1. PICK b \in Steps : b = Do("begin", e.path, e) /\ b.do = "begin" /\ b.entry = e
  BY EntryNames, StepIs DEF StepNames
<1>2. PICK c \in Steps : c = Do("commit", e.path, e)
  BY EntryNames, StepIs DEF StepNames
<1>3. PICK h \in Seq(Steps), j \in Seq(Steps) : h = <<b>> /\ j = <<c>>
  BY OnlyOne
<1>4. PICK t \in Seq(Steps) : t = s \o j
  BY JoinedPlaces
<1>5. r = (h \o s) \o j
  BY <1>1, <1>2, <1>3 DEF Journaled
<1>6. r = h \o t
  BY <1>4, <1>5, ConcatAssociative
<1>7. r \in Seq(Steps) /\ r # <<>> /\ r[1] = b /\ Tail(r) = t
  BY <1>3, <1>6, FirstOf
<1>8. ASSUME NEW u, NEW ms, NEW v, NEW ns, Leads(u, ms, t, v, ns) PROVE Leads(u, ms, r, v, ns)
  <2>1. Takes(u, ms, b, u, ms)
    BY <1>1 DEF Takes
  <2>2. Leads(u, ms, <<b>> \o t, v, ns)
    BY <1>8, <2>1, LeadsBefore
  <2> QED BY <1>3, <1>6, <2>2
<1> QED BY <1>1, <1>2, <1>3, <1>4, <1>7, <1>8

\* The marker is cleared, and quiet steps follow.
LEMMA ClearRecoverable ==
  ASSUME OverlayIInv, Recoverable, Step, allowed' # {}, phase = "operation", Unharmed, Clearing
  PROVE  Recoverable'
<1>1. /\ Takes(upper, marks, todo[1], upper', marks') /\ todo' = Tail(todo) /\ todo \in Seq(Steps)
      /\ phase' = phase /\ goal' = goal /\ allowed' = allowed
      /\ todo[1].do \notin {"begin", "commit"} => pending' = pending
  BY StepGoesOn
<1>2. PICK x \in Steps, a \in Seq(Steps), b \in Seq(Steps) :
        /\ todo = <<x>> \o (a \o b) /\ x.do = "clear" /\ pending = <<>>
        /\ Quiet(upper, marks \ {x.path}, a) /\ Outlook(upper, marks \ {x.path}, a, b)
        /\ ViewOf(upper, marks \ {x.path}) \in allowed
  BY DEF Clearing
<1>3. PICK t \in Seq(Steps) : t = a \o b
  BY JoinedPlaces
<1>4. todo[1] = x /\ Tail(todo) = t
  BY <1>2, <1>3, FirstOf
<1>5. upper' = upper /\ marks' = marks \ {x.path} /\ pending' = <<>>
  BY <1>1, <1>2, <1>4 DEF Takes
<1>6. DOMAIN <<>> = {}
  OBVIOUS
<1>7. Unharmed'
  BY <1>1, <1>2, <1>5, <1>6 DEF Unharmed, View
<1>8. Preparing'
  BY <1>1, <1>2, <1>3, <1>4, <1>5, <1>6 DEF Preparing, Waiting
<1>9. Untouched'
  BY <1>1, <1>7, <1>8 DEF Untouched
<1>10. goal' \in allowed' /\ goal' # NoView
  BY <1>1 DEF Recoverable
<1> QED BY <1>9, <1>10 DEF Recoverable

\* A copy, or directories, are made.
LEMMA QuietRecoverable ==
  ASSUME OverlayIInv, Recoverable, Step, allowed' # {}, phase = "operation", Unharmed,
         NEW a \in Seq(Steps), NEW b \in Seq(Steps), todo = a \o b, a # <<>>,
         Quiet(upper, marks, a), Outlook(upper, marks, a, b), Waiting(pending, a)
  PROVE  Recoverable'
<1>1. /\ Takes(upper, marks, todo[1], upper', marks') /\ todo' = Tail(todo)
      /\ phase' = phase /\ goal' = goal /\ allowed' = allowed
      /\ todo[1].do = "begin" => pending' = Append(pending, todo[1].entry)
      /\ todo[1].do = "commit" => pending' = Resolved(todo[1].entry)
      /\ todo[1].do \notin {"begin", "commit"} => pending' = pending
  BY StepGoesOn
<1>2. upper \in Trees /\ pending \in Seq(Entries)
  BY AlwaysKnown DEF Typed
<1>3. todo[1] = a[1] /\ Tail(todo) = Tail(a) \o b /\ Tail(a) \in Seq(Steps)
  BY JoinedFirst
<1>4. marks' = marks /\ Alike(upper, marks, upper', marks', {}) /\ Quiet(upper', marks', Tail(a))
  BY <1>1, <1>2, <1>3, QuietStep
<1>5. View' = View /\ \A p \in Paths : OnlyCopies(upper, marks, p) => OnlyCopies(upper', marks', p)
  BY <1>4, AlikeEverywhere DEF View
<1>6. /\ Waiting(pending', Tail(a))
      /\ \A i \in DOMAIN pending' : IsCopy(pending'[i]) /\ OnlyCopies(upper, marks, pending'[i].path)
  <2>1. /\ a[1].do = "begin" => pending' = Append(pending, a[1].entry)
        /\ a[1].do = "commit" => pending' = Resolved(a[1].entry)
        /\ a[1].do \notin {"begin", "commit"} => pending' = pending
    BY <1>1, <1>3
  <2> QED BY <1>2, <2>1, QuietJournal DEF Unharmed
<1>7. Unharmed'
  <2>1. pending' \in Seq(Entries)
    BY NextKeepsOverlay, AlwaysKnown DEF Next, OverlayIInv, TypeOK
  <2>2. \A i \in DOMAIN pending' : pending'[i].path \in Paths
    <3>1. PICK r \in Seq(Entries) : r = pending'
      BY <2>1
    <3>2. \A i \in DOMAIN r : r[i] \in Entries
      OBVIOUS
    <3>3. \A i \in DOMAIN r : r[i].path \in Paths
      BY <3>2, EntryNames
    <3> QED BY <3>1, <3>3
  <2> QED BY <1>1, <1>5, <1>6, <2>2 DEF Unharmed
<1>8. PICK t \in Seq(Steps) : t = Tail(a)
  BY <1>3
<1>9. Outlook(upper', marks', t, b)
  <2>1. CASE b # <<>>
    <3>1. PICK e \in Entries, s \in Seq(Steps) :
            /\ b = Journaled(e, s) /\ Works(e, s)
            /\ \A v, ns : Leads(upper, marks, a, v, ns) => Fit(v, e)
      BY <2>1 DEF Outlook
    <3>2. \A v, ns : Leads(upper', marks', t, v, ns) => Fit(v, e)
      BY <1>1, <1>3, <1>8, <3>1, LeadsFirst
    <3> QED BY <3>1, <3>2 DEF Outlook
  <2> QED BY <2>1 DEF Outlook
<1>10. Preparing'
  BY <1>1, <1>3, <1>4, <1>6, <1>8, <1>9 DEF Preparing
<1>11. Untouched'
  BY <1>1, <1>7, <1>10 DEF Untouched
<1>12. goal' \in allowed' /\ goal' # NoView
  BY <1>1 DEF Recoverable
<1> QED BY <1>11, <1>12 DEF Recoverable

\* The record is begun: a replay of it completes what the steps would, or undoes it.
LEMMA BeginRecoverable ==
  ASSUME OverlayIInv, Promise, Recoverable, Step, allowed' # {}, phase = "operation", Unharmed,
         pending = <<>>, todo # <<>>, Outlook(upper, marks, <<>>, todo)
  PROVE  Recoverable'
<1>1. /\ Takes(upper, marks, todo[1], upper', marks') /\ todo' = Tail(todo)
      /\ phase' = phase /\ goal' = goal /\ allowed' = allowed
      /\ todo[1].do = "begin" => pending' = Append(pending, todo[1].entry)
  BY StepGoesOn
<1>2. upper \in Trees /\ Tree(upper, marks)
  BY AlwaysKnown
<1>3. PICK e \in Entries, s \in Seq(Steps) :
        /\ todo = Journaled(e, s) /\ Works(e, s)
        /\ \A v, ns : Leads(upper, marks, <<>>, v, ns) => Fit(v, e)
  BY DEF Outlook
<1>4. Fit(upper, e)
  BY <1>3, LeadsNone
<1>5. /\ todo[1].do = "begin" /\ todo[1].entry = e /\ Tail(todo) = s \o <<Do("commit", e.path, e)>>
      /\ \A v, ns : Leads(upper, marks, s \o <<Do("commit", e.path, e)>>, v, ns)
                    => Leads(upper, marks, todo, v, ns)
  BY <1>3, JournaledFirst
<1>6. upper' = upper /\ marks' = marks
  BY <1>1, <1>5 DEF Takes
<1>7. pending' = <<e>>
  BY <1>1, <1>5
<1>8. goal \in allowed /\ goal # NoView /\ View \in allowed
  BY <1>1 DEF Recoverable, Unharmed
<1>9. Safe(e)'
  <2>1. ASSUME NEW v, NEW ns, Redone(upper, marks, e, v, ns) PROVE ViewOf(v, ns) \in allowed
    <3>1. CASE v = upper /\ ns = marks
      BY <1>8, <3>1 DEF View
    <3>2. CASE Leads(upper, marks, s \o <<Do("commit", e.path, e)>>, v, ns)
      <4>1. Leads(upper, marks, todo, v, ns)
        BY <1>5, <3>2
      <4>2. ViewOf(v, ns) = goal
        BY <1>8, <4>1 DEF Promise
      <4> QED BY <1>8, <4>2
    <3> QED BY <1>2, <1>3, <1>4, <2>1, <3>1, <3>2, WorkIsRedone
  <2> QED BY <1>1, <1>6, <2>1 DEF Safe
<1>10. Goes(upper, marks, e, s)
  BY <1>3, <1>4 DEF Works, Fit, Goes, Remains
<1>11. Doing(e)'
  BY <1>1, <1>3, <1>5, <1>6, <1>10 DEF Doing
<1>12. e.kind \in Judged
  BY <1>3 DEF Works, Judged
<1>13. InHand(e)'
  BY <1>1, <1>7, <1>9, <1>11, <1>12 DEF InHand
<1> QED BY <1>1, <1>8, <1>13 DEF Recoverable

\* A copy that is left from before is discarded.
LEMMA DiscardRecoverable ==
  ASSUME OverlayIInv, Recoverable, Step, allowed' # {}, phase = "replay", Unharmed, Discarding
  PROVE  Recoverable'
<1>1. /\ todo # <<>> /\ todo \in Seq(Steps) /\ todo' = Tail(todo)
      /\ Takes(upper, marks, todo[1], upper', marks')
      /\ phase' = phase /\ allowed' = allowed /\ replay' = replay
      /\ todo[1].do \notin {"begin", "commit"} => pending' = pending
  BY StepGoesOn
<1>2. upper \in Trees /\ pending \in Seq(Entries)
  BY AlwaysKnown DEF Typed
<1>3. 1 \in DOMAIN todo /\ todo[1] \in Steps /\ \A i \in DOMAIN Tail(todo) : i + 1 \in DOMAIN todo /\ Tail(todo)[i] = todo[i + 1]
  BY <1>1, TailFacts, TailPlaces
<1>4. PICK p \in Paths : p = todo[1].path
  BY <1>3 DEF Steps
<1>5. todo[1].do \in {"remove", "rmtree"} /\ OnlyCopies(upper, marks, p)
  BY <1>3, <1>4 DEF Discarding, Unharmed
<1>6. pending' = pending
  BY <1>1, <1>5
<1>7. Alike(upper, marks, upper', marks', {})
  <2>1. \A q \in From[p] : q \in Paths /\ upper[q] \in {"absent", Lower[q]} /\ q \notin marks
    BY <1>5, Subsets DEF OnlyCopies, Faithful
  <2>2. p \in From[p] /\ Below[p] \subseteq From[p]
    BY Subsets
  <2>3. CASE todo[1].do = "remove"
    <3>1. upper' = [upper EXCEPT ![p] = "absent"] /\ marks' = marks
      BY <1>1, <1>4, <2>3 DEF Takes
    <3>2. \A q \in Paths : upper'[q] = IF q = p THEN "absent" ELSE upper[q]
      BY <1>2, <3>1 DEF Trees
    <3> QED BY <2>1, <2>2, <3>1, <3>2 DEF Alike
  <2>4. CASE todo[1].do = "rmtree"
    <3>1. /\ upper' = [q \in Paths |-> IF q \in From[p] THEN "absent" ELSE upper[q]]
          /\ marks' = marks \ Below[p]
      BY <1>1, <1>4, <2>4 DEF Takes
    <3> QED BY <2>1, <2>2, <3>1 DEF Alike
  <2> QED BY <1>5, <2>3, <2>4
<1>8. View' = View /\ \A q \in Paths : OnlyCopies(upper, marks, q) => OnlyCopies(upper', marks', q)
  BY <1>7, AlikeEverywhere DEF View
<1>9. Unharmed'
  <2>1. \A i \in DOMAIN pending : pending[i].path \in Paths
    BY <1>2, EntryNames
  <2> QED BY <1>1, <1>6, <1>8, <2>1 DEF Unharmed
<1>10. Discarding'
  <2>1. \A i \in DOMAIN replay : \E k \in DOMAIN pending : replay[i] = pending[k]
    BY DEF Discarding
  <2>2. \A i \in DOMAIN Tail(todo) : /\ Tail(todo)[i].do \in {"remove", "rmtree"}
                                     /\ \E k \in DOMAIN pending : Tail(todo)[i].path = pending[k].path
    BY <1>3 DEF Discarding
  <2> QED BY <1>1, <1>6, <2>1, <2>2 DEF Discarding
<1>11. Untouched'
  BY <1>1, <1>9, <1>10 DEF Untouched
<1> QED BY <1>1, <1>11 DEF Recoverable

\* A record stays safe if no more can come of it.
LEMMA SafeStays ==
  ASSUME NEW e, Safe(e), allowed' = allowed,
         \A v, ns : Redone(upper', marks', e, v, ns) => Redone(upper, marks, e, v, ns)
  PROVE  Safe(e)'
BY DEF Safe

\* The work on the record goes on.
LEMMA WorkRecoverable ==
  ASSUME OverlayIInv, Recoverable, Step, allowed' # {}, phase = "operation", NEW e \in Entries, InHand(e)
  PROVE  Recoverable'
<1>1. /\ todo # <<>> /\ todo \in Seq(Steps) /\ todo' = Tail(todo) /\ Len(todo) # 1
      /\ Takes(upper, marks, todo[1], upper', marks')
      /\ phase' = phase /\ goal' = goal /\ allowed' = allowed
      /\ todo[1].do \notin {"begin", "commit"} => pending' = pending
  BY StepGoesOn
<1>2. upper \in Trees /\ Apart(e)
  <2>1. upper \in Trees /\ \A i \in DOMAIN pending : Apart(pending[i])
    BY AlwaysKnown
  <2>2. pending = <<e>>
    BY DEF InHand
  <2> QED BY <2>1, <2>2
<1>3. PICK c \in Steps : c = Do("commit", e.path, e)
  BY EntryNames, StepIs DEF StepNames
<1>4. PICK s \in Seq(Steps) : todo = s \o <<c>> /\ Goes(upper, marks, e, s)
  BY <1>3 DEF InHand, Doing
<1>5. s # <<>>
  <2>1. ASSUME s = <<>> PROVE FALSE
    <3>1. todo = <<c>>
      BY <1>4, <2>1, SmallPlans
    <3> QED BY <1>1, <3>1
  <2> QED BY <2>1
<1>6. <<c>> \in Seq(Steps)
  BY OnlyOne
<1>7. todo[1] = s[1] /\ Tail(todo) = Tail(s) \o <<c>> /\ Tail(s) \in Seq(Steps)
  BY <1>4, <1>5, <1>6, JoinedFirst
<1>8. /\ s[1].do \notin {"begin", "commit"} /\ Goes(upper', marks', e, Tail(s))
      /\ \A v, ns : Redone(upper', marks', e, v, ns) => Redone(upper, marks, e, v, ns)
  BY <1>1, <1>2, <1>4, <1>5, <1>7, GoesStep
<1>9. Safe(e)'
  BY <1>1, <1>8, SafeStays DEF InHand
<1>10. PICK t \in Seq(Steps) : t = Tail(s)
  BY <1>7
<1>11. Doing(e)'
  BY <1>1, <1>3, <1>7, <1>8, <1>10 DEF Doing
<1>12. InHand(e)'
  BY <1>1, <1>7, <1>8, <1>9, <1>11 DEF InHand
<1>13. goal' \in allowed' /\ goal' # NoView
  BY <1>1 DEF Recoverable
<1> QED BY <1>12, <1>13 DEF Recoverable

\* The replay of the record goes on.
LEMMA RedoRecoverable ==
  ASSUME OverlayIInv, Recoverable, Step, allowed' # {}, phase = "replay", NEW e \in Entries, InHand(e)
  PROVE  Recoverable'
<1>1. /\ todo # <<>> /\ todo' = Tail(todo)
      /\ Takes(upper, marks, todo[1], upper', marks')
      /\ phase' = phase /\ allowed' = allowed /\ replay' = replay
      /\ todo[1].do \notin {"begin", "commit"} => pending' = pending
  BY StepGoesOn
<1>2. upper \in Trees /\ Apart(e)
  <2>1. upper \in Trees /\ \A i \in DOMAIN pending : Apart(pending[i])
    BY AlwaysKnown
  <2>2. pending = <<e>>
    BY DEF InHand
  <2> QED BY <2>1, <2>2
<1>3. replay = <<>> /\ Remains(upper, marks, e, todo)
  BY <1>1 DEF InHand, Redoing
<1>4. /\ todo[1].do \notin {"begin", "commit"} /\ Remains(upper', marks', e, Tail(todo))
      /\ \A v, ns : Redone(upper', marks', e, v, ns) => Redone(upper, marks, e, v, ns)
  BY <1>1, <1>2, <1>3, RemainsStep
<1>5. Safe(e)'
  BY <1>1, <1>4, SafeStays DEF InHand
<1>6. Redoing(e)'
  BY <1>1, <1>3, <1>4 DEF Redoing
<1>7. InHand(e)'
  BY <1>1, <1>4, <1>5, <1>6 DEF InHand
<1> QED BY <1>1, <1>7 DEF Recoverable

\* Every step of an operation or of a replay leaves what a start can recover.
LEMMA StepRecoverable ==
  ASSUME OverlayIInv, Promise, Recoverable, Step
  PROVE  Recoverable'
<1> SUFFICES ASSUME allowed' # {} PROVE Recoverable'
  BY DEF Recoverable
<1>1. todo # <<>> /\ allowed' = allowed
  BY StepGoesOn
<1>2. phase \in {"operation", "replay"}
  BY <1>1, Underway
<1>3. Untouched \/ \E e \in Entries : InHand(e)
  BY <1>1 DEF Recoverable
<1>4. CASE Untouched /\ phase = "operation"
  <2>1. Unharmed /\ (Clearing \/ Preparing)
    BY <1>4 DEF Untouched
  <2>2. CASE Preparing
    <3>1. PICK a \in Seq(Steps), b \in Seq(Steps) :
            /\ todo = a \o b /\ Quiet(upper, marks, a) /\ Outlook(upper, marks, a, b)
            /\ Waiting(pending, a)
      BY <2>2 DEF Preparing
    <3>2. CASE a # <<>>
      BY <1>4, <2>1, <3>1, <3>2, QuietRecoverable
    <3>3. CASE a = <<>>
      <4>1. todo = b
        BY <3>1, <3>3, ConcatEmptySeq
      <4>2. pending = <<>>
        <5>1. \A i \in DOMAIN pending : FALSE
          BY <3>1, <3>3 DEF Waiting, Unfinished
        <5>2. pending \in Seq(Entries)
          BY AlwaysKnown DEF Typed
        <5>3. Len(pending) = 0
          <6>1. PICK n \in Nat : n = Len(pending) /\ DOMAIN pending = 1 .. n
            BY <5>2
          <6>2. 1 \notin 1 .. n
            BY <5>1, <6>1
          <6> QED BY <6>1, <6>2
        <5> QED BY <5>2, <5>3, EmptySeq
      <4> QED BY <1>1, <1>4, <2>1, <3>1, <3>3, <4>1, <4>2, BeginRecoverable
    <3> QED BY <3>2, <3>3
  <2> QED BY <1>4, <2>1, <2>2, ClearRecoverable
<1>5. CASE Untouched /\ phase = "replay"
  <2>1. Unharmed /\ Discarding
    BY <1>5 DEF Untouched
  <2> QED BY <1>5, <2>1, DiscardRecoverable
<1>6. CASE \E e \in Entries : InHand(e)
  BY <1>2, <1>6, WorkRecoverable, RedoRecoverable
<1> QED BY <1>2, <1>3, <1>4, <1>5, <1>6

\* A start looks at the next record.
LEMMA ReplayRecoverable ==
  ASSUME OverlayIInv, Recoverable, Replay
  PROVE  Recoverable'
<1> SUFFICES ASSUME allowed' # {} PROVE Recoverable'
  BY DEF Recoverable
<1>1. /\ phase = "replay" /\ todo = <<>> /\ replay # <<>> /\ Redoable(Head(replay))
      /\ todo' = Redo(Head(replay)) /\ replay' = Tail(replay)
      /\ upper' = upper /\ marks' = marks /\ pending' = pending /\ phase' = phase
      /\ goal' = goal /\ allowed' = allowed
  BY DEF Replay, treeVars, historyVars
<1>2. upper \in Trees /\ Tree(upper, marks) /\ replay \in Seq(Entries)
  BY AlwaysKnown DEF Typed
<1>3. Untouched \/ \E e \in Entries : InHand(e)
  BY <1>1 DEF Recoverable
<1>4. ASSUME Untouched PROVE Untouched'
  <2>1. Unharmed /\ Discarding
    BY <1>1, <1>4 DEF Untouched
  <2>2. /\ Head(replay) \in Entries /\ 1 \in DOMAIN replay /\ Head(replay) = replay[1]
        /\ \A i \in DOMAIN Tail(replay) : i + 1 \in DOMAIN replay /\ Tail(replay)[i] = replay[i + 1]
    BY <1>1, <1>2
  <2>3. PICK k \in DOMAIN pending : pending[k] = Head(replay)
    BY <2>1, <2>2 DEF Discarding
  <2>4. PICK e \in Entries : e = Head(replay) /\ e = pending[k]
    BY <2>2, <2>3
  <2>5. e.kind \in {"copy-up", "copy-up-dir"}
    <3>1. e = CopyEntry(e.path) /\ e.path \in Paths
      BY <2>1, <2>4, EntryNames DEF Unharmed, IsCopy
    <3> QED BY <3>1, CopyEntryIsEntry DEF StepNames
  <2>6. \A i \in DOMAIN Redo(e) : Redo(e)[i].do \in {"remove", "rmtree"} /\ Redo(e)[i].path = e.path
    <3>1. PICK x \in Steps : x = Do("remove", e.path, e) /\ x.do = "remove" /\ x.path = e.path
      BY EntryNames, StepIs DEF StepNames
    <3>2. PICK y \in Steps : y = Do("rmtree", e.path, e) /\ y.do = "rmtree" /\ y.path = e.path
      BY EntryNames, StepIs DEF StepNames
    <3>3. Redo(e) \in {<<>>, <<x>>, <<y>>}
      BY <2>5, <3>1, <3>2 DEF Redo, IfThen
    <3> QED BY <3>1, <3>2, <3>3
  <2>7. \A i \in DOMAIN replay' : \E j \in DOMAIN pending : replay'[i] = pending[j]
    BY <1>1, <2>1, <2>2 DEF Discarding
  <2>8. Discarding'
    BY <1>1, <2>4, <2>6, <2>7 DEF Discarding
  <2>9. Unharmed'
    BY <1>1, <2>1 DEF Unharmed, View
  <2> QED BY <1>1, <2>8, <2>9 DEF Untouched
<1>5. ASSUME NEW e \in Entries, InHand(e) PROVE InHand(e)'
  <2>1. pending = <<e>> /\ e.kind \in Judged /\ Safe(e) /\ replay = <<e>>
    BY <1>1, <1>5 DEF InHand, Redoing
  <2>2. Head(replay) = e /\ Tail(replay) = <<>>
    BY <2>1
  <2>3. Remains(upper, marks, e, Redo(e))
    BY <1>1, <1>2, <2>1, <2>2, RedoRemains
  <2>4. Redoing(e)'
    BY <1>1, <2>2, <2>3 DEF Redoing
  <2>5. Safe(e)'
    BY <1>1, <2>1 DEF Safe
  <2> QED BY <1>1, <2>1, <2>4, <2>5 DEF InHand
<1> QED BY <1>1, <1>3, <1>4, <1>5 DEF Recoverable

\* A session starts, and all records are to be looked at.
LEMMA StartRecoverable ==
  ASSUME OverlayIInv, Recoverable, NEW n \in Sessions, Start(n)
  PROVE  Recoverable'
<1> SUFFICES ASSUME allowed' # {} PROVE Recoverable'
  BY DEF Recoverable
<1>1. /\ phase = "idle" /\ phase' = "replay" /\ replay' = pending
      /\ upper' = upper /\ marks' = marks /\ pending' = pending /\ todo' = todo
      /\ allowed' = allowed
  BY DEF Start, treeVars, historyVars
<1>2. todo = <<>>
  BY <1>1, AlwaysKnown
<1>3. Untouched \/ \E e \in Entries : InHand(e)
  BY <1>1 DEF Recoverable
<1>4. ASSUME Untouched PROVE Untouched'
  BY <1>1, <1>2, <1>4 DEF Untouched, Unharmed, View, Discarding
<1>5. ASSUME NEW e \in Entries, InHand(e) PROVE InHand(e)'
  BY <1>1, <1>2, <1>5 DEF InHand, Safe, Redoing
<1> QED BY <1>1, <1>3, <1>4, <1>5 DEF Recoverable

\* Whoever is killed, or fails to start, leaves what is recorded.
LEMMA StopRecoverable ==
  ASSUME Recoverable, treeVars' = treeVars, pending' = pending, allowed' = allowed,
         phase' = "idle" \/ (phase' = phase /\ todo' = todo /\ replay' = replay /\ goal' = goal)
  PROVE  Recoverable'
<1> SUFFICES ASSUME allowed' # {} PROVE Recoverable'
  BY DEF Recoverable
<1>1. upper' = upper /\ marks' = marks
  BY DEF treeVars
<1>2. Untouched \/ \E e \in Entries : InHand(e)
  BY DEF Recoverable
<1>3. CASE phase' = "idle"
  <2>1. ASSUME Untouched PROVE Untouched'
    BY <1>1, <1>3, <2>1 DEF Untouched, Unharmed, View
  <2>2. ASSUME NEW e \in Entries, InHand(e) PROVE InHand(e)'
    BY <1>1, <1>3, <2>2 DEF InHand, Safe
  <2> QED BY <1>2, <1>3, <2>1, <2>2 DEF Recoverable
<1>4. CASE phase' = phase /\ todo' = todo /\ replay' = replay /\ goal' = goal
  <2>1. ASSUME Untouched PROVE Untouched'
    <3>1. Unharmed'
      BY <1>1, <2>1 DEF Untouched, Unharmed, View
    <3>2. Clearing => Clearing'
      BY <1>1, <1>4 DEF Clearing
    <3>3. Preparing => Preparing'
      BY <1>1, <1>4 DEF Preparing
    <3>4. Discarding => Discarding'
      BY <1>1, <1>4 DEF Discarding
    <3> QED BY <1>4, <2>1, <3>1, <3>2, <3>3, <3>4 DEF Untouched
  <2>2. ASSUME NEW e \in Entries, InHand(e) PROVE InHand(e)'
    BY <1>1, <1>4, <2>2 DEF InHand, Safe, Doing, Redoing
  <2> QED BY <1>2, <1>4, <2>1, <2>2 DEF Recoverable
<1> QED BY <1>3, <1>4

\* A plan of quiet steps, after a marker is cleared and before one record.
Cautious(plan, named) ==
  \E e \in Entries, a \in Seq(Steps), b \in Seq(Steps) :
    /\ plan = Cleared(named, e) \o (a \o b)
    /\ Quiet(upper, marks \ {named}, a) /\ Outlook(upper, marks \ {named}, a, b)

\* An operation that begins with such a plan.
LEMMA BeginsRecoverable ==
  ASSUME OverlayIInv, NEW n, NEW plan, NEW wanted, NEW named \in Paths, Begins(n, plan, wanted, named),
         wanted # NoView /\ pending = <<>> => Cautious(plan, named)
  PROVE  Recoverable'
<1> SUFFICES ASSUME allowed' # {} PROVE Recoverable'
  BY DEF Recoverable
<1>1. /\ wanted # NoView /\ pending = <<>>
      /\ allowed' = {View, wanted, ViewOf(upper, marks \ {named})}
      /\ phase' = "operation" /\ todo' = plan /\ goal' = wanted
      /\ upper' = upper /\ marks' = marks /\ pending' = pending
  BY DEF Begins, treeVars
<1>2. PICK e \in Entries, a \in Seq(Steps), b \in Seq(Steps) :
        /\ plan = Cleared(named, e) \o (a \o b)
        /\ Quiet(upper, marks \ {named}, a) /\ Outlook(upper, marks \ {named}, a, b)
  BY <1>1 DEF Cautious
<1>3. Unharmed'
  BY <1>1 DEF Unharmed, View
<1>4. PICK t \in Seq(Steps) : t = a \o b
  BY JoinedPlaces
<1>5. CASE named \in marks
  <2>1. PICK x \in Steps : x = Do("clear", named, e) /\ x.do = "clear" /\ x.path = named
    BY StepIs DEF StepNames
  <2>2. plan = <<x>> \o (a \o b)
    BY <1>2, <1>5, <2>1 DEF Cleared, IfThen
  <2>3. ViewOf(upper', marks' \ {x.path}) \in allowed'
    BY <1>1, <2>1
  <2>4. Clearing'
    BY <1>1, <1>2, <2>1, <2>2, <2>3 DEF Clearing
  <2> QED BY <1>1, <1>3, <2>4 DEF Recoverable, Untouched
<1>6. CASE named \notin marks
  <2>1. plan = a \o b
    <3>1. plan = <<>> \o t
      BY <1>2, <1>4, <1>6 DEF Cleared, IfThen
    <3> QED BY <1>4, <3>1, ConcatEmptySeq
  <2>2. marks \ {named} = marks
    BY <1>6
  <2>3. Waiting(<<>>, a)
    BY DEF Waiting
  <2>4. Preparing'
    BY <1>1, <1>2, <2>1, <2>2, <2>3 DEF Preparing
  <2> QED BY <1>1, <1>3, <2>4 DEF Recoverable, Untouched
<1> QED BY <1>5, <1>6

-----------------------------------------------------------------------------
(* Overlay: every operation can be recovered                             *)

\* Steps that are near stay so where fewer markers are.
LEMMA NearUnmarked ==
  ASSUME NEW u, NEW ms, NEW os, os \subseteq ms, NEW Z, NEW s, AllNear(u, ms, Z, s)
  PROVE  AllNear(u, os, Z, s)
<1>1. \A i \in DOMAIN s : Near(u, os, Z, s[i])
  BY DEF AllNear, Near
<1> QED BY <1>1 DEF AllNear

\* Directories are made after quiet steps.
LEMMA QuietParents ==
  ASSUME NEW u, NEW ms, NEW s, Quiet(u, ms, s), NEW p \in Paths, NEW e \in Entries, e.kind # "copy-up-dir",
         \A q \in Above[p] : u[q] = "dir" \/ Lower[q] = "dir",
         NEW r, r = s \o <<Do("parents", p, e)>>
  PROVE  Quiet(u, ms, r)
<1>1. PICK x \in Steps : x = Do("parents", p, e) /\ x.do = "parents" /\ x.path = p /\ x.entry = e
  BY StepIs DEF StepNames
<1>2. Near(u, ms, {}, x)
  BY <1>1 DEF Near
<1>3. AllNear(u, ms, {}, r)
  <2>1. AllNear(u, ms, {}, <<x>>)
    BY <1>2, NearOne
  <2> QED BY <1>1, <2>1, NearJoin DEF Quiet
<1>4. s \in Seq(Steps) /\ r = s \o <<x>>
  BY <1>1 DEF Quiet, AllNear
<1>5. PICK n \in Nat :
        /\ r[n + 1] = x
        /\ \A i \in DOMAIN s : i \in DOMAIN r /\ r[i] = s[i]
        /\ \A i \in DOMAIN r : i \in DOMAIN s \/ i = n + 1
  <2>1. AppendedAt(r, s, x)
    BY <1>4, AppendedPlaces
  <2> QED BY <2>1 DEF AppendedAt
<1>6. \A i \in DOMAIN r : r[i].do \in {"begin", "commit"} => i \in DOMAIN s /\ r[i] = s[i]
  BY <1>1, <1>5
<1>7. \A i \in DOMAIN r : r[i].do \in {"begin", "commit"} =>
        IsCopy(r[i].entry) /\ OnlyCopies(u, ms, r[i].entry.path)
  BY <1>6 DEF Quiet
<1>8. \A i \in DOMAIN r, j \in DOMAIN r :
        r[i].do = r[j].do /\ r[i].do \in {"begin", "commit"} /\ r[i].entry = r[j].entry => i = j
  BY <1>6 DEF Quiet
<1>9. ASSUME NEW i \in DOMAIN r, r[i].do = "begin"
      PROVE  \E j \in DOMAIN r : i < j /\ r[j].do = "commit" /\ r[j].entry = r[i].entry
  <2>1. i \in DOMAIN s /\ r[i] = s[i] /\ s[i].do = "begin"
    BY <1>6, <1>9
  <2>2. PICK j \in DOMAIN s : i < j /\ s[j].do = "commit" /\ s[j].entry = s[i].entry
    BY <2>1 DEF Quiet
  <2> QED BY <1>5, <2>1, <2>2
<1> QED BY <1>3, <1>7, <1>8, <1>9 DEF Quiet

\* Copying up what is seen is quiet.
LEMMA QuietCopies ==
  ASSUME OverlayIInv, NEW p \in Paths, View[p] # "absent", NEW ms, ms \subseteq marks
  PROVE  Quiet(upper, ms, CopiedUp(p))
<1>1. CASE upper[p] # "absent"
  <2>1. CopiedUp(p) = <<>>
    BY <1>1 DEF CopiedUp, IfThen
  <2> QED BY <2>1, QuietNone
<1>2. CASE upper[p] = "absent"
  <2>1. PICK c : c = CopyUp[p] /\ CopiedUp(p) = c
    BY <1>2 DEF CopiedUp, IfThen
  <2>2. Copies(From[p], c)
    BY <2>1, CopyUpCopies DEF CopiedBelow
  <2>3. AllNear(upper, ms, {}, c)
    BY <2>1, CopiedUpIsNear, NearUnmarked
  <2>4. \A q \in From[p] : q \in Paths /\ upper[q] = "absent" /\ q \notin ms
    <3>1. upper \in Trees /\ Tree(upper, marks)
      BY AlwaysKnown
    <3>2. \A q \in Below[p] : upper[q] = "absent" /\ q \notin marks
      BY <1>2, <3>1, NothingBelow
    <3>3. p \notin marks
      BY SeenNames
    <3> QED BY <1>2, <3>2, <3>3, Subsets
  <2>5. \A q \in From[p] : From[q] \subseteq From[p]
    BY Subsets, AboveIsOrder
  <2>6. \A q \in From[p] : CopyEntry(q).path = q /\ IsCopy(CopyEntry(q)) /\ OnlyCopies(upper, ms, q)
    <3>1. \A q \in From[p] : OnlyCopies(upper, ms, q)
      BY <2>4, <2>5 DEF OnlyCopies, Faithful
    <3>2. \A q \in From[p] : CopyEntry(q).path = q
      BY <2>4, CopyEntryIsEntry DEF StepNames
    <3> QED BY <3>1, <3>2 DEF IsCopy
  <2>7. \A i \in DOMAIN c : c[i].path \in From[p] /\ c[i].entry = CopyEntry(c[i].path)
    BY <2>2 DEF Copies
  <2>8. \A i \in DOMAIN c : c[i].entry.path = c[i].path
    BY <2>6, <2>7
  <2>9. \A i \in DOMAIN c : IsCopy(c[i].entry) /\ OnlyCopies(upper, ms, c[i].entry.path)
    BY <2>6, <2>7
  <2>10. \A i \in DOMAIN c, j \in DOMAIN c :
           c[i].do = c[j].do /\ c[i].do \in {"begin", "commit"} /\ c[i].entry = c[j].entry => i = j
    <3>1. \A i \in DOMAIN c, j \in DOMAIN c :
            c[i].do = c[j].do /\ c[i].do \in {"begin", "commit"} /\ c[i].path = c[j].path => i = j
      BY <2>2 DEF Copies
    <3>2. \A i \in DOMAIN c, j \in DOMAIN c : c[i].entry = c[j].entry => c[i].path = c[j].path
      BY <2>8
    <3> QED BY <3>1, <3>2
  <2>11. ASSUME NEW i \in DOMAIN c, c[i].do = "begin"
         PROVE  \E j \in DOMAIN c : i < j /\ c[j].do = "commit" /\ c[j].entry = c[i].entry
    <3>1. PICK j \in DOMAIN c : i < j /\ c[j].do = "commit" /\ c[j].path = c[i].path
      BY <2>2, <2>11 DEF Copies
    <3> QED BY <2>7, <3>1
  <2> QED BY <2>1, <2>3, <2>9, <2>10, <2>11 DEF Quiet
<1> QED BY <1>1, <1>2

\* With a clean journal a name that is not seen has nothing in the upper tree.
LEMMA UnseenIsAbsent ==
  ASSUME OverlayIInv, pending = <<>>, NEW p \in Paths, HasParent(p), View[p] = "absent"
  PROVE  upper[p] = "absent" /\ (p \notin marks => Lower[p] = "absent")
<1>1. (\A q \in Above[p] : q \notin marks) /\ View[p] = Node(upper, marks, p)
  BY AboveIsSeen
<1>2. \A q \in marks : upper[q] = "absent"
  <2>1. Clean
    BY DEF Clean
  <2> QED BY <2>1 DEF OverlayIInv, Unburied
<1>3. Hidden(marks, p) <=> p \in marks
  BY <1>1 DEF Hidden
<1> QED BY <1>1, <1>2, <1>3 DEF Node

\* The parts of a plan, grouped otherwise.
LEMMA Regrouped ==
  ASSUME NEW a \in Seq(Steps), NEW b \in Seq(Steps), NEW c \in Seq(Steps)
  PROVE  (a \o b) \o c = a \o (b \o c)
BY ConcatAssociative

\* The plan is in three parts.
LEMMA IsCautious ==
  ASSUME NEW named \in Paths, NEW e \in Entries, NEW a \in Seq(Steps), NEW s \in Seq(Steps),
         Quiet(upper, marks \ {named}, a), NEW f \in Entries, Works(f, s),
         \A v, ns : Leads(upper, marks \ {named}, a, v, ns) => Fit(v, f),
         NEW plan, plan = Cleared(named, e) \o (a \o Journaled(f, s))
  PROVE  Cautious(plan, named)
<1>1. PICK b \in Seq(Steps) : b = Journaled(f, s)
  BY JournaledIsSeq
<1>2. Outlook(upper, marks \ {named}, a, b)
  BY <1>1 DEF Outlook
<1> QED BY <1>1, <1>2 DEF Cautious

\* Creating a file.
LEMMA CreateIsCautious ==
  ASSUME OverlayIInv, pending = <<>>, NEW p \in Paths, HasParent(p), View[p] = "absent"
  PROVE  Cautious(CreatePlan(p), p)
<1>1. PICK e \in Entries : e = Entry("create", p, p, FALSE) /\ e.kind = "create" /\ e.path = p
  <2>1. PICK t \in BOOLEAN : t = FALSE
    OBVIOUS
  <2>2. PICK f \in Entries : f = Entry("create", p, p, t) /\ f.kind = "create" /\ f.path = p
    BY RecordIs DEF Kinds
  <2> QED BY <2>1, <2>2
<1>2. PICK c \in Seq(Steps) : c = Cleared(p, e)
  BY ClearedIsSeq
<1>3. PICK x \in Steps : x = Do("parents", p, e) /\ x.do = "parents" /\ x.path = p
  BY StepIs DEF StepNames
<1>4. PICK y \in Steps : y = Do("put", p, e)
  BY StepIs DEF StepNames
<1>5. PICK a \in Seq(Steps) : a = <<x>>
  BY OnlyOne
<1>6. PICK s \in Seq(Steps) : s = <<y>>
  BY OnlyOne
<1>7. PICK j \in Seq(Steps) : j = Journaled(e, s)
  BY JournaledIsSeq
<1>8. CreatePlan(p) = (c \o a) \o j
  BY <1>1, <1>2, <1>3, <1>4, <1>5, <1>6, <1>7, Zenon DEF CreatePlan
<1>9. CreatePlan(p) = c \o (a \o j)
  BY <1>8, ConcatAssociative
<1>10. Quiet(upper, marks \ {p}, a)
  <2>1. a = <<>> \o <<Do("parents", p, e)>>
    BY <1>3, <1>5, SmallPlans
  <2> QED BY <1>1, <2>1, SeenAbove, QuietNone, QuietParents
<1>11. Works(e, s)
  BY <1>1, <1>4, <1>6 DEF Works
<1>12. ASSUME NEW v, NEW ns, Leads(upper, marks \ {p}, a, v, ns) PROVE Fit(v, e)
  <2>1. v = Opened(upper, p)
    BY <1>3, <1>5, <1>12, LeadsOne DEF Takes
  <2>2. v[p] = "absent"
    BY <2>1, AlwaysKnown, OpenedTwice, UnseenIsAbsent
  <2> QED BY <1>1, <2>2 DEF Fit
<1> QED BY <1>2, <1>7, <1>9, <1>10, <1>11, <1>12, IsCautious

\* Opening a file for writing, and chmod().
LEMMA CopyIsCautious ==
  ASSUME OverlayIInv, NEW p \in Paths, View[p] # "absent"
  PROVE  Cautious(CopiedUp(p), p)
<1>1. PICK e \in Entries : TRUE
  BY CopyEntryIsEntry DEF StepNames
<1>2. p \notin marks
  BY SeenNames
<1>3. PICK a \in Seq(Steps) : a = CopiedUp(p)
  BY CopiedUpIsSeq
<1>4. CopiedUp(p) = Cleared(p, e) \o (a \o <<>>)
  <2>1. Cleared(p, e) = <<>>
    BY <1>2 DEF Cleared, IfThen
  <2>2. a \o <<>> = a /\ <<>> \o a = a
    BY ConcatEmptySeq
  <2> QED BY <1>3, <2>1, <2>2
<1>5. Quiet(upper, marks \ {p}, a)
  BY <1>3, QuietCopies
<1>6. <<>> \in Seq(Steps) /\ Outlook(upper, marks \ {p}, a, <<>>)
  BY EmptySeq DEF Outlook
<1> QED BY <1>4, <1>5, <1>6 DEF Cautious

\* Making a directory: its parent is copied up with all that is in it.
LEMMA MkdirIsCautious ==
  ASSUME OverlayIInv, pending = <<>>, NEW p \in Paths, HasParent(p), View[p] = "absent"
  PROVE  Cautious(MkdirPlan(p), p)
<1>1. PICK e \in Entries : e = Entry("mkdir", p, p, FALSE) /\ e.kind = "mkdir" /\ e.path = p
  <2>1. PICK t \in BOOLEAN : t = FALSE
    OBVIOUS
  <2>2. PICK f \in Entries : f = Entry("mkdir", p, p, t) /\ f.kind = "mkdir" /\ f.path = p
    BY RecordIs DEF Kinds
  <2> QED BY <2>1, <2>2
<1>2. PICK c \in Seq(Steps) : c = Cleared(p, e)
  BY ClearedIsSeq
<1>3. PICK y \in Steps : y = Do("mkdir", p, e)
  BY StepIs DEF StepNames
<1>4. PICK s \in Seq(Steps) : s = <<y>>
  BY OnlyOne
<1>5. PICK a : a = IfThen(Len(p) > 1, CopiedUp(Parent(p)))
  OBVIOUS
<1>6. Len(p) > 1 => /\ Parent(p) \in Paths /\ Parent(p) \in Above[p] /\ View[Parent(p)] # "absent"
                    /\ a = CopiedUp(Parent(p))
  BY <1>5, ParentIsAbove DEF HasParent, IfThen
<1>7. ~(Len(p) > 1) => a = <<>>
  BY <1>5 DEF IfThen
<1>8. upper[p] = "absent" /\ (p \notin marks => Lower[p] = "absent")
  BY UnseenIsAbsent
<1>9. Quiet(upper, marks \ {p}, a) /\ a \in Seq(Steps)
  <2>1. Quiet(upper, marks \ {p}, a)
    BY <1>6, <1>7, QuietCopies, QuietNone
  <2> QED BY <2>1 DEF Quiet, AllNear
<1>10. PICK j \in Seq(Steps) : j = Journaled(e, s)
  BY JournaledIsSeq
<1>11. MkdirPlan(p) = (c \o a) \o j
  BY <1>1, <1>2, <1>3, <1>4, <1>5, <1>10, Zenon DEF MkdirPlan
<1>12. MkdirPlan(p) = c \o (a \o j)
  BY <1>9, <1>11, ConcatAssociative
<1>13. Works(e, s)
  BY <1>1, <1>3, <1>4 DEF Works
<1>14. ASSUME NEW v, NEW ns, Leads(upper, marks \ {p}, a, v, ns) PROVE Fit(v, e)
  <2>1. v[p] = "absent"
    <3>1. CASE Len(p) > 1
      <4>1. PICK d \in Paths : d = Parent(p) /\ d \in Above[p] /\ View[d] # "absent" /\ a = CopiedUp(d)
        BY <1>6, <3>1
      <4>2. /\ upper[d] # "absent" => v = upper
            /\ upper[d] = "absent" => /\ v = CopiedTree(upper, d)
                                      /\ \A q \in From[d] : upper[q] = "absent" /\ q \notin marks
        BY <1>14, <4>1, LeadsCopiedUp
      <4>3. p \in From[d]
        BY <4>1, AboveIsOrder, Subsets
      <4> QED BY <1>8, <4>2, <4>3 DEF CopiedTree
    <3>2. CASE ~(Len(p) > 1)
      BY <1>7, <1>8, <1>14, <3>2, LeadsNone
    <3> QED BY <3>1, <3>2
  <2> QED BY <1>1, <2>1 DEF Fit
<1> QED BY <1>2, <1>9, <1>10, <1>12, <1>13, <1>14, IsCautious

\* Removing a file or a directory.
LEMMA RemovalIsCautious ==
  ASSUME OverlayIInv, NEW p \in Paths, View[p] # "absent", NEW kind \in {"unlink", "rmdir"}
  PROVE  Cautious(RemovePlan(kind, p), p)
<1>1. PICK l \in BOOLEAN : l = (Lower[p] # "absent")
  OBVIOUS
<1>2. PICK e \in Entries : e = Entry(kind, p, p, l) /\ e.kind = kind /\ e.path = p /\ e.lower = l
  BY RecordIs DEF Kinds
<1>3. PICK w \in Entries : w = Entry("whiteout", p, p, TRUE) /\ w.kind = "whiteout" /\ w.path = p
  <2>1. PICK t \in BOOLEAN : t = TRUE
    OBVIOUS
  <2>2. PICK f \in Entries : f = Entry("whiteout", p, p, t) /\ f.kind = "whiteout" /\ f.path = p
    BY RecordIs DEF Kinds
  <2> QED BY <2>1, <2>2
<1>4. p \notin marks
  BY SeenNames
<1>5. Cleared(p, e) = <<>> /\ <<>> \in Seq(Steps)
  BY <1>4, EmptySeq DEF Cleared, IfThen
<1>6. CASE upper[p] # "absent"
  <2>1. PICK x \in Steps : x = Do("remove", p, e)
    BY StepIs DEF StepNames
  <2>2. PICK k \in Steps : k = Do("mark", p, e)
    BY StepIs DEF StepNames
  <2>3. PICK s \in Seq(Steps) : s = <<x>> \o IfThen(e.lower, <<k>>)
    BY MarkedIs
  <2>4. PICK j \in Seq(Steps) : j = Journaled(e, s)
    BY JournaledIsSeq
  <2>5. RemovePlan(kind, p) = j
    <3>1. PICK f : f = Entry(kind, p, p, Lower[p] # "absent")
      OBVIOUS
    <3>2. f = e
      BY <1>1, <1>2, <3>1
    <3>3. RemovePlan(kind, p) = Journaled(f, <<Do("remove", p, f)>> \o IfThen(f.lower, <<Do("mark", p, f)>>))
      BY <1>6, <3>1, Zenon DEF RemovePlan
    <3> QED BY <2>1, <2>2, <2>3, <2>4, <3>2, <3>3, Zenon
  <2>6. j = <<>> \o (<<>> \o j)
    BY <2>4, ConcatEmptySeq
  <2>7. Works(e, s)
    BY <1>2, <2>1, <2>2, <2>3 DEF Works
  <2>8. \A v, ns : Leads(upper, marks \ {p}, <<>>, v, ns) => Fit(v, e)
    BY <1>2, <1>6, LeadsNone DEF Fit
  <2> QED BY <1>5, <2>4, <2>5, <2>6, <2>7, <2>8, QuietNone, IsCautious
<1>7. CASE upper[p] = "absent"
  <2>1. PICK x \in Steps : x = Do("parents", p, w)
    BY StepIs DEF StepNames
  <2>2. PICK k \in Steps : k = Do("mark", p, w)
    BY StepIs DEF StepNames
  <2>3. PICK a \in Seq(Steps), s \in Seq(Steps) : a = <<x>> /\ s = <<k>>
    BY OnlyOne
  <2>4. PICK j \in Seq(Steps) : j = Journaled(w, s)
    BY JournaledIsSeq
  <2>5. RemovePlan(kind, p) = a \o j
    BY <1>3, <1>7, <2>1, <2>2, <2>3, <2>4, Zenon DEF RemovePlan
  <2>6. RemovePlan(kind, p) = <<>> \o (a \o j)
    <3>1. PICK t \in Seq(Steps) : t = a \o j
      BY JoinedPlaces
    <3> QED BY <2>5, <3>1, ConcatEmptySeq
  <2>7. Quiet(upper, marks \ {p}, a)
    <3>1. a = <<>> \o <<Do("parents", p, w)>>
      BY <2>1, <2>3, SmallPlans
    <3> QED BY <1>3, <3>1, SeenAbove, QuietNone, QuietParents
  <2>8. Works(w, s)
    BY <1>3, <2>2, <2>3 DEF Works
  <2>9. \A v : Fit(v, w)
    BY <1>3 DEF Fit
  <2> QED BY <1>5, <2>4, <2>6, <2>7, <2>8, <2>9, IsCautious
<1> QED BY <1>6, <1>7

\* Renaming: the source is copied up first.
LEMMA RenameIsCautious ==
  ASSUME OverlayIInv, NEW p \in Paths, NEW dest \in Paths, View[p] # "absent", HasParent(dest),
         dest \notin From[p], p \notin From[dest]
  PROVE  Cautious(RenamePlan(p, dest), dest)
<1>1. PICK l \in BOOLEAN : l = (Lower[p] # "absent")
  OBVIOUS
<1>2. PICK e \in Entries : /\ e = Entry("rename", p, dest, Lower[p] # "absent") /\ e.kind = "rename"
                           /\ e.path = p /\ e.dest = dest /\ e.lower = l
  <2>1. PICK f \in Entries : /\ f = Entry("rename", p, dest, l) /\ f.kind = "rename"
                             /\ f.path = p /\ f.dest = dest /\ f.lower = l
    BY RecordIs DEF Kinds
  <2>2. Entry("rename", p, dest, l) = Entry("rename", p, dest, Lower[p] # "absent")
    BY <1>1, Zenon
  <2> QED BY <2>1, <2>2, Zenon
<1>3. PICK c \in Seq(Steps) : c = Cleared(dest, e)
  BY ClearedIsSeq
<1>4. PICK d \in Seq(Steps) : d = CopiedUp(p)
  BY CopiedUpIsSeq
<1>5. PICK x \in Steps : x = Do("parents", dest, e) /\ x.do = "parents" /\ x.path = dest
  BY StepIs DEF StepNames
<1>6. PICK m \in Steps : m = Do("move", p, e)
  BY StepIs DEF StepNames
<1>7. PICK k \in Steps : k = Do("mark", p, e)
  BY StepIs DEF StepNames
<1>8. PICK s \in Seq(Steps) : s = <<m>> \o IfThen(e.lower, <<k>>)
  BY MarkedIs
<1>9. PICK o \in Seq(Steps) : o = <<x>>
  BY OnlyOne
<1>10. PICK j \in Seq(Steps) : j = Journaled(e, s)
  BY JournaledIsSeq
<1>11. PICK a \in Seq(Steps) : a = d \o o
  BY JoinedPlaces
<1>12. RenamePlan(p, dest) = ((c \o d) \o o) \o j
  BY <1>2, <1>3, <1>4, <1>5, <1>6, <1>7, <1>8, <1>9, <1>10, Zenon DEF RenamePlan
<1>13. (c \o d) \o o = c \o a
  BY <1>11, ConcatAssociative
<1>14. RenamePlan(p, dest) = c \o (a \o j)
  <2>1. RenamePlan(p, dest) = (c \o a) \o j
    BY <1>12, <1>13
  <2> QED BY <2>1, Regrouped
<1>15. Quiet(upper, marks \ {dest}, a)
  <2>1. Quiet(upper, marks \ {dest}, d)
    BY <1>4, QuietCopies
  <2>2. \A q \in Above[dest] : upper[q] = "dir" \/ Lower[q] = "dir"
    BY SeenAbove
  <2> QED BY <1>2, <1>5, <1>9, <1>11, <2>1, <2>2, QuietParents
<1>16. Works(e, s)
  BY <1>2, <1>6, <1>7, <1>8 DEF Works
<1>17. ASSUME NEW v, NEW ns, Leads(upper, marks \ {dest}, a, v, ns) PROVE Fit(v, e)
  <2>1. PICK w, os : Leads(upper, marks \ {dest}, d, w, os) /\ Leads(w, os, o, v, ns)
    BY <1>11, <1>17, LeadsOn
  <2>2. w[p] = View[p]
    BY <1>4, <2>1, LeadsCopiedUp
  <2>3. v = Opened(w, dest)
    BY <1>5, <1>9, <2>1, LeadsOne DEF Takes
  <2>4. p \notin Above[dest]
    BY AboveIsOrder, Subsets
  <2>5. v[p] # "absent" /\ Opened(v, dest) = v
    BY <2>2, <2>3, <2>4 DEF Opened
  <2> QED BY <1>2, <2>5 DEF Fit
<1> QED BY <1>3, <1>10, <1>14, <1>15, <1>16, <1>17, IsCautious

\* Every operation begins with a plan that can be cut off.
LEMMA OperationRecoverable ==
  ASSUME OverlayIInv, NEW n \in Sessions, NEW p \in Paths,
         \/ Create(n, p) \/ OpenForWrite(n, p) \/ Chmod(n, p)
         \/ Mkdir(n, p) \/ Unlink(n, p) \/ Rmdir(n, p)
         \/ \E dest \in Paths : Rename(n, p, dest)
  PROVE  Recoverable'
<1>0. "absent" \notin Contents /\ "dir" \notin Contents
  BY ConstantsAssumption DEF ConstantsAssumption
<1>1. CASE Create(n, p)
  <2>1. PICK wanted : HasParent(p) /\ View[p] = "absent" /\ Begins(n, CreatePlan(p), wanted, p)
    BY <1>1 DEF Create
  <2>2. pending = <<>> => Cautious(CreatePlan(p), p)
    BY <2>1, CreateIsCautious
  <2> QED BY <2>1, <2>2, BeginsRecoverable
<1>2. CASE OpenForWrite(n, p) \/ Chmod(n, p)
  <2>1. View[p] # "absent" /\ Begins(n, CopiedUp(p), View, p)
    BY <1>0, <1>2 DEF OpenForWrite, Chmod
  <2>2. Cautious(CopiedUp(p), p)
    BY <2>1, CopyIsCautious
  <2> QED BY <2>1, <2>2, BeginsRecoverable
<1>3. CASE Mkdir(n, p)
  <2>1. PICK wanted : HasParent(p) /\ View[p] = "absent" /\ Begins(n, MkdirPlan(p), wanted, p)
    BY <1>3 DEF Mkdir
  <2>2. pending = <<>> => Cautious(MkdirPlan(p), p)
    BY <2>1, MkdirIsCautious
  <2> QED BY <2>1, <2>2, BeginsRecoverable
<1>4. CASE Unlink(n, p) \/ Rmdir(n, p)
  <2>0. PICK kind \in {"unlink", "rmdir"} :
          \E wanted : View[p] # "absent" /\ Begins(n, RemovePlan(kind, p), wanted, p)
    BY <1>0, <1>4 DEF Unlink, Rmdir
  <2>1. PICK wanted : View[p] # "absent" /\ Begins(n, RemovePlan(kind, p), wanted, p)
    BY <2>0
  <2>2. Cautious(RemovePlan(kind, p), p)
    BY <2>1, RemovalIsCautious
  <2> QED BY <2>1, <2>2, BeginsRecoverable
<1>5. CASE \E dest \in Paths : Rename(n, p, dest)
  <2>1. PICK dest \in Paths : Rename(n, p, dest)
    BY <1>5
  <2>2. PICK wanted : /\ View[p] # "absent" /\ HasParent(dest)
                      /\ dest \notin From[p] /\ p \notin From[dest]
                      /\ Begins(n, RenamePlan(p, dest), wanted, dest)
    BY <2>1 DEF Rename
  <2>3. Cautious(RenamePlan(p, dest), dest)
    BY <2>2, RenameIsCautious
  <2> QED BY <2>2, <2>3, BeginsRecoverable
<1> QED BY <1>1, <1>2, <1>3, <1>4, <1>5

\* Every step leaves what a start can recover.
LEMMA NextKeepsRecoverable == OverlayIInv /\ Promise /\ Recoverable /\ [Next]_vars => Recoverable'
<1> SUFFICES ASSUME OverlayIInv, Promise, Recoverable, [Next]_vars PROVE Recoverable'
  OBVIOUS
<1>1. CASE UNCHANGED vars
  <2>1. /\ treeVars' = treeVars /\ pending' = pending /\ allowed' = allowed
        /\ phase' = phase /\ todo' = todo /\ replay' = replay /\ goal' = goal
    BY <1>1 DEF vars, treeVars
  <2> QED BY <2>1, StopRecoverable
<1>2. CASE Step
  BY <1>2, StepRecoverable
<1>3. CASE Fail \/ Started \/ \E n \in Sessions, p \in Paths : Write(n, p)
  <2>1. allowed' = {}
    BY <1>3 DEF Fail, Started, Write
  <2> QED BY <2>1 DEF Recoverable
<1>4. CASE Replay
  BY <1>4, ReplayRecoverable
<1>5. CASE StartFails
  <2>1. treeVars' = treeVars /\ pending' = pending /\ allowed' = allowed /\ phase' = "idle"
    BY <1>5 DEF StartFails, treeVars, historyVars
  <2> QED BY <2>1, StopRecoverable
<1>6. ASSUME NEW n \in Sessions, Crash(n) PROVE Recoverable'
  <2>1. /\ treeVars' = treeVars /\ pending' = pending /\ allowed' = allowed
        /\ phase' = "idle" \/ (phase' = phase /\ todo' = todo /\ replay' = replay /\ goal' = goal)
    BY <1>6 DEF Crash, treeVars
  <2> QED BY <2>1, StopRecoverable
<1>7. ASSUME NEW n \in Sessions, Start(n) PROVE Recoverable'
  BY <1>7, StartRecoverable
<1>8. ASSUME NEW n \in Sessions, NEW p \in Paths,
             \/ Create(n, p) \/ OpenForWrite(n, p) \/ Chmod(n, p)
             \/ Mkdir(n, p) \/ Unlink(n, p) \/ Rmdir(n, p)
             \/ \E dest \in Paths : Rename(n, p, dest)
      PROVE  Recoverable'
  BY <1>8, OperationRecoverable
<1> QED BY <1>1, <1>2, <1>3, <1>4, <1>5, <1>6, <1>7, <1>8 DEF Next

\* Whatever happens, a start can recover what was cut off.
LEMMA AlwaysRecoverable == Spec => [](OverlayIInv /\ Promise /\ Recoverable)
<1>1. Init => Recoverable
  BY DEF Init, Recoverable
<1>2. Recoverable /\ (OverlayIInv /\ Promise) /\ [Next]_vars => Recoverable'
  BY NextKeepsRecoverable
<1> QED BY <1>1, <1>2, AlwaysPromised, PTL DEF Spec

\* Of a replay that is over nothing is left but what it made.
LEMMA RemainsNone ==
  ASSUME NEW u, NEW ms, NEW e \in Entries, Remains(u, ms, e, <<>>)
  PROVE  Redone(u, ms, e, u, ms)
<1>1. PICK x \in Steps, y \in Steps, k \in Steps, m \in Steps, o \in Steps :
        /\ x = Do("remove", e.path, e) /\ y = Do("rmtree", e.path, e) /\ k = Do("mark", e.path, e)
        /\ m = Do("move", e.path, e) /\ o = Do("parents", e.dest, e)
  BY StepsOf DEF StepNames
<1>2. PICK t \in Seq(Steps) : t = IfThen(e.lower, <<k>>)
  BY Conditional
<1>3. PICK r \in Seq(Steps) : r = <<m>> \o t
  BY FirstOf
<1>4. <<x>> \o t # <<>> /\ <<m>> \o t # <<>> /\ <<o>> \o r # <<>>
  BY FirstOf
<1>5. <<x>> # <<>> /\ <<y>> # <<>> /\ <<k>> # <<>>
  OBVIOUS
<1> QED BY <1>1, <1>2, <1>3, <1>4, <1>5 DEF Remains

\* CrashIsAllOrNothing: a start that returns shows a view from before the operation that was
\* cut off, with its marker or without, or the one the operation was to end with.
LEMMA StartedIsAllowed ==
  ASSUME OverlayIInv, Recoverable, [Next]_vars, phase = "replay", up' # up, up \subseteq up', allowed # {}
  PROVE  ViewOf(upper', marks') \in allowed
<1>1. Started
  <2>1. /\ ~Fail /\ \A n \in Sessions : ~Start(n)
        /\ \A n \in Sessions, p \in Paths : ~Write(n, p)
    BY DEF Fail, Start, Write
  <2>2. \A n, plan, wanted, named : ~Begins(n, plan, wanted, named)
    BY DEF Begins
  <2>3. \A n \in Sessions, p \in Paths :
          /\ ~Create(n, p) /\ ~OpenForWrite(n, p) /\ ~Chmod(n, p) /\ ~Mkdir(n, p) /\ ~Unlink(n, p) /\ ~Rmdir(n, p)
          /\ \A dest \in Paths : ~Rename(n, p, dest)
    BY <2>2 DEF Create, OpenForWrite, Chmod, Mkdir, Unlink, Rmdir, Rename
  <2>4. ~Step
    BY StepTakes DEF Taken
  <2>5. ~Replay /\ ~StartFails /\ ~UNCHANGED vars
    BY DEF Replay, StartFails, vars
  <2>6. \A n \in Sessions : ~Crash(n)
    BY DEF Crash
  <2> QED BY <2>1, <2>3, <2>4, <2>5, <2>6 DEF Next
<1>2. todo = <<>> /\ replay = <<>> /\ upper' = upper /\ marks' = marks
  BY <1>1 DEF Started, treeVars
<1>3. Untouched \/ \E e \in Entries : InHand(e)
  BY DEF Recoverable
<1>4. CASE Untouched
  BY <1>2, <1>4 DEF Untouched, Unharmed, View
<1>5. ASSUME NEW e \in Entries, InHand(e) PROVE ViewOf(upper, marks) \in allowed
  <2>1. <<e>> # <<>>
    OBVIOUS
  <2>2. Remains(upper, marks, e, <<>>)
    BY <1>2, <1>5, <2>1 DEF InHand, Redoing
  <2> QED BY <1>5, <2>2, RemainsNone DEF InHand, Safe
<1> QED BY <1>2, <1>3, <1>4, <1>5

\* CrashIsAllOrNothing, for all names, lower trees, sessions and bounds: an operation cut off
\* at any step, with a journal that was clean before, is undone or completed by the start.
THEOREM AlwaysAllOrNothing == Spec => CrashIsAllOrNothing
<1>1. OverlayIInv /\ Recoverable /\ [Next]_vars
      => [phase = "replay" /\ up' # up /\ up \subseteq up' /\ allowed # {}
          => ViewOf(upper', marks') \in allowed]_vars
  BY StartedIsAllowed
<1> QED BY <1>1, AlwaysRecoverable, PTL DEF Spec, CrashIsAllOrNothing
=============================================================================
