---------------------------- MODULE ProjectedHome ----------------------------
(***************************************************************************)
(* The projected home of a session: aspr-homed.                            *)
(*                                                                         *)
(*   homed/fuse.py       the requests of the kernel, by inode and handle   *)
(*   homed/composite.py  the namespace routed by rule to the backing trees,*)
(*                       with inode and handle tables of its own           *)
(*   homed/private.py    the private tree with its quota, kept on disk and *)
(*                       shared, under a flock, by all daemons of a profile*)
(*   homed/core.py       the budget of requests                            *)
(*                                                                         *)
(* A request is one step, except where others run in between: create()     *)
(* calls the backing twice, readdir() looks each name up in a thread.  The *)
(* kernel is the environment: it names inodes it holds and handles it      *)
(* opened, and places an append where it believes the file to end.  So is  *)
(* another daemon of the profile, of which only the changes to the private *)
(* tree are seen here.  The overlay tree is a plain tree; Overlay is about *)
(* how it is kept.  Sizes are counted in blocks, and only those of the     *)
(* private tree are kept: the overlay has no quota.                        *)
(***************************************************************************)
EXTENDS ProfileDecision, Integers, FiniteSets, Functions

CONSTANTS
  Rules,       \* the profile's rules
  Paths,       \* paths requests are about
  HostFiles,   \* paths of Paths that are files in the host home
  MaxBytes,    \* PrivateWritableBackend.max_bytes
  MaxFiles,    \* PrivateWritableBackend.max_files
  MaxInode, MaxHandle, MaxObject, \* bounds: numbers given out
  MaxSize,     \* bound: the size of a file
  MaxCount     \* bound: all lookup counts together

Root == <<>>

ASSUME ParametersAssumption ==
  /\ \A p \in Paths : /\ p \in Seq(Range(p)) /\ p # Root
                       /\ \A n \in 1..Len(p) : SubSeq(p, 1, n) \in Paths
  /\ Rules \in Seq([path : {Rules[i].path : i \in DOMAIN Rules},
                    scope : {"exact", "subtree"}, mode : Modes, list : BOOLEAN])
  /\ \A i \in DOMAIN Rules : Rules[i].path \in Seq(Range(Rules[i].path))
  /\ ValidRules(Rules)
  /\ HostFiles \subseteq Paths
  /\ {MaxBytes, MaxFiles, MaxInode, MaxCount, MaxHandle, MaxObject, MaxSize} \subseteq Nat

VARIABLES
  tree,     \* for "private" and "overlay": the nodes, by path
  size,     \* the size of each file object
  table,    \* CompositeProjectedHome._nodes, _lookups, by inode
  inodes,   \* _next_inode - 2
  handles,  \* CompositeProjectedHome._handles, by handle
  opened,   \* _next_handle - 1
  known,    \* lookup counts the kernel holds, by inode
  held,     \* by handle the kernel has open: its inode, what it is open for
  ends,     \* where the kernel believes the file of an inode to end (i_size)
  request   \* a request that is under way

homeVars == <<tree, size, table, inodes, handles, opened, known, held, ends, request>>
kernel == <<known, held, ends>>
storage == <<tree, size>>

Trees == {"private", "overlay"}
Idle == [op |-> "idle", path |-> Root, names |-> {}, inode |-> 0]

-----------------------------------------------------------------------------
(* Routing                                                                 *)

\* _is_synthetic_ancestor()
Ancestors == {p \in Paths : OpaqueAncestor(Rules, p)}
Synthetic(p) == p \in Ancestors

\* _route(), with the host's own _authorize(): the tree for an operation on a
\* path, or "none".
Routes ==
  [p \in Paths |-> [op \in Operations |->
     LET mode == Decider(Rules, p).mode
     IN  IF ~Allowed(Rules, p, op) THEN "none"
         ELSE IF mode = "private-rw" THEN "private"
         ELSE IF mode = "overlay-rw" THEN "overlay"
         ELSE "host"]]
Route(p, op) == Routes[p][op]

\* _is_writable_rule_root()
WritableRoot(p) ==
  \E i \in 1..Len(Rules) :
    Rules[i].path = p /\ Rules[i].scope = "subtree" /\ Rules[i].mode \in Writable

Exists(b, p) == IF b = "host" THEN p \in HostFiles ELSE p \in DOMAIN tree[b]
IsDir(b, p) == p = Root \/ (p \in DOMAIN tree[b] /\ tree[b][p].kind = "dir")
IsFile(b, p) == p \in DOMAIN tree[b] /\ tree[b][p].kind = "file"
Parents == [p \in Paths |-> Front(p)]
Beneath == [p \in Paths |-> {q \in Paths : IsStrictPrefix(p, q)}]
Below(t, p) == DOMAIN t \cap Beneath[p]

\* lookup(), stat(): which node answers for a path.
Answer(p) ==
  IF Synthetic(p) THEN "virtual"
  ELSE LET b == Route(p, "lookup")
       IN  IF b = "none" THEN "none"
           ELSE IF Exists(b, p) THEN b
           ELSE IF WritableRoot(p) THEN "virtual"
           ELSE "none"

\* listdir(): the names under a path, or none if listing fails.
Listing(p) ==
  LET b == Route(p, "list")
      children == {q \in DOMAIN tree[b] : Parents[q] = p}
  IN  IF p = Root \/ Synthetic(p) \/ b \notin Trees \/ ~IsDir(b, p) THEN {}
      ELSE {q \in children : b = "private" => Route(q, "lookup") = "private"}

-----------------------------------------------------------------------------
(* Inode and handle tables                                                 *)

Without(f, x) == Restrict(f, DOMAIN f \ {x})
With(f, S, e) == [x \in DOMAIN f \cup S |-> IF x \in DOMAIN f THEN f[x] ELSE e]
Counted(f, x) == IF x \in DOMAIN f THEN [f EXCEPT ![x] = @ + 1] ELSE With(f, {x}, 1)

\* The inode a node of tree b has, or the next number.
InodeOf(b, p) ==
  LET there == {i \in DOMAIN table : table[i].tree = b /\ table[i].path = p}
  IN  IF there = {} THEN inodes + 2 ELSE CHOOSE i \in there : TRUE

Counts == MapThenSumSet(LAMBDA i : table[i].count, DOMAIN table)

\* Mutant: a node that is already in the table is not counted again.
RememberedOnce(b, p, i) ==
  IF i \in DOMAIN table THEN table
  ELSE With(table, {i}, [tree |-> b, path |-> p, count |-> 1])

\* _remember(), _remember_virtual(): the node of inode i with one more count.
NodeRemembered(b, p, i) ==
  IF i \in DOMAIN table THEN [table EXCEPT ![i].count = @ + 1]
  ELSE With(table, {i}, [tree |-> b, path |-> p, count |-> 1])

\* The tables after a reply with the node of p; with a lookup, create, mkdir or
\* a taken directory entry the kernel counts it too.
Reply(b, p, counts) ==
  LET i == InodeOf(b, p)
  IN  /\ i <= MaxInode + 1 /\ Counts < MaxCount
      /\ table' = NodeRemembered(b, p, i)
      /\ inodes' = IF i \in DOMAIN table THEN inodes ELSE inodes + 1
      /\ known' = IF counts THEN Counted(known, i) ELSE known

\* node_path(), for an inode the kernel names
PathOf(i) == IF i = 1 THEN Root ELSE table[i].path
Named == {1} \cup (DOMAIN known \cap DOMAIN table)
Named1 == Named \ {1}
InReach == {p \in Paths : \E i \in Named : PathOf(i) = Parents[p]}

\* A handle on object o of tree b, which the kernel opened by inode i.
NewHandle(b, o, i, flag) ==
  /\ opened < MaxHandle
  /\ opened' = opened + 1
  /\ handles' = With(handles, {opened + 1}, [tree |-> b, object |-> o])
  /\ held' = With(held, {opened + 1}, [inode |-> i, flag |-> flag])

\* st_size of the node of p, by the sizes v; only those of private files count.
SizeAt(v, b, p) == IF b = "private" /\ IsFile(b, p) THEN v[tree[b][p].object] ELSE 0

\* The attributes of an inode have arrived.
Sees(i, n) == ends' = [ends EXCEPT ![i] = n]

-----------------------------------------------------------------------------
(* The writable trees and the private tree's quota                         *)

Files(t) == {t[p].object : p \in {q \in DOMAIN t : t[q].kind = "file"}}

Larger(m, n) == IF m > n THEN m ELSE n

\* The sizes of some file objects together.
Total(objects, sizes) ==
  LET sum[o \in 0..MaxObject] ==
        IF o = 0 THEN 0 ELSE sum[o - 1] + (IF o \in objects THEN sizes[o] ELSE 0)
  IN  sum[MaxObject]

\* _scan_usage(), at the start of every operation
Used(t) == Total(Files(t), size)

\* _check_file_quota(), _check_size()
Fits(b, moreFiles, moreBytes) ==
  b = "private" => /\ Cardinality(Files(tree[b])) + moreFiles <= MaxFiles
                   /\ Used(tree[b]) + moreBytes <= MaxBytes

\* Mutant: a write is checked against its own file only.
FitsAlone(b, old, new) == b = "private" => new <= MaxBytes

\* A file may grow while the tree has room, and shrink to what the quota allows.
FitsSize(b, old, new) == Fits(b, 0, new - old)

Dir == [kind |-> "dir", object |-> 0]
File(o) == [kind |-> "file", object |-> o]

Above(p) == {SubSeq(p, 1, n) : n \in 1..Len(p) - 1}

\* _ensure_parents(): the directories above p, if none of them is a file.
ParentsOk(b, p) == \A q \in Above(p) : ~IsFile(b, q)

WithParents(b, p) == With(tree[b], Above(p), Dir)

\* The objects of the private tree are told apart; those of the overlay are 0.
Fresh ==
  (1..MaxObject) \ (Files(tree["private"]) \cup {handles[h].object : h \in DOMAIN handles})

\* create() in a tree: the file with the directories above it.
CreateIn(b, p) ==
  /\ p \notin DOMAIN tree[b] /\ Fits(b, 1, 0)
  /\ IF b = "overlay" THEN /\ tree' = [tree EXCEPT ![b] = With(WithParents(b, p), {p}, File(0))]
                           /\ UNCHANGED size
     ELSE LET o == CHOOSE free \in Fresh : TRUE
          IN  /\ Fresh # {}
              /\ tree' = [tree EXCEPT ![b] = With(WithParents(b, p), {p}, File(o))]
              /\ size' = [size EXCEPT ![o] = 0]

MkdirIn(b, p) ==
  /\ p \notin DOMAIN tree[b]
  /\ tree' = [tree EXCEPT ![b] = With(WithParents(b, p), {p}, Dir)]

\* unlink() of a file, rmdir() of a directory with nothing in it
RemoveIn(b, p, op) ==
  /\ p \in DOMAIN tree[b]
  /\ IF op = "unlink" THEN IsFile(b, p) ELSE IsDir(b, p) /\ Below(tree[b], p) = {}
  /\ tree' = [tree EXCEPT ![b] = Without(@, p)]

\* rename(): over nothing, a file over a file, a directory over an empty one;
\* what lies below moves along.
Movable(b, p, q) ==
  LET t == WithParents(b, q)
  IN  /\ p \in DOMAIN tree[b] /\ ~IsPrefix(p, q)
      /\ q \in DOMAIN t => t[q].kind = t[p].kind /\ Below(t, q) = {}

RenameIn(b, p, q) ==
  LET t == WithParents(b, q)
      moving == {p} \cup Below(t, p)
      To(x) == q \o SubSeq(x, Len(p) + 1, Len(x))
      moved == {To(x) : x \in moving}
  IN  /\ Movable(b, p, q) /\ moved \subseteq Paths
      /\ tree' = [tree EXCEPT ![b] =
           [y \in moved \cup (DOMAIN t \ moving) |->
              IF y \in moved THEN t[CHOOSE x \in moving : To(x) = y] ELSE t[y]]]

\* truncate(), and write() where the kernel placed it
ResizeIn(b, o, n) ==
  /\ b = "private" /\ FitsSize(b, size[o], n)
  /\ size' = [size EXCEPT ![o] = n]

\* write() of k blocks with O_APPEND: checked as if it went to the offset at,
\* which the kernel gave it, and appended at the end there is (pwrite()).
AppendIn(b, o, at, k) ==
  /\ b = "private" /\ FitsSize(b, size[o], Larger(size[o], at + k))
  /\ size[o] + k <= MaxSize
  /\ size' = [size EXCEPT ![o] = @ + k]

-----------------------------------------------------------------------------
HomeInit ==
  /\ tree = [b \in Trees |-> <<>>]
  /\ size = [o \in 1..MaxObject |-> 0]
  /\ table = <<>> /\ inodes = 0
  /\ handles = <<>> /\ opened = 0
  /\ known = <<>> /\ held = <<>>
  /\ ends = [i \in 2..MaxInode + 1 |-> 0]
  /\ request = Idle

\* Requests run one at a time in the daemon's thread, except for readdir().
Serving == request.op # "create"

-----------------------------------------------------------------------------
(* Names and attributes                                                    *)

Lookup(p) ==
  /\ Serving /\ Answer(p) # "none"
  /\ Reply(Answer(p), p, TRUE)
  /\ Sees(InodeOf(Answer(p), p), SizeAt(size, Answer(p), p))
  /\ UNCHANGED <<storage, handles, opened, held, request>>

\* getattr(), opendir() and the reply of setattr() look the path up once more;
\* the kernel counts none of these, and takes them for its inode's.
Getattr(i) ==
  /\ Serving /\ Answer(PathOf(i)) # "none"
  /\ Reply(Answer(PathOf(i)), PathOf(i), FALSE)
  /\ Sees(i, SizeAt(size, Answer(PathOf(i)), PathOf(i)))
  /\ UNCHANGED <<storage, handles, opened, held, request>>

\* forget(): the node goes with its last count.  The request fails when the
\* budget is spent, and the kernel has let go all the same.  It keeps an inode
\* that is open.
Forget(i, n, refused) ==
  /\ Serving /\ n <= known[i]
  /\ n = known[i] => \A h \in DOMAIN held : held[h].inode # i
  /\ known' = IF n = known[i] THEN Without(known, i) ELSE [known EXCEPT ![i] = @ - n]
  /\ table' = IF refused THEN table
              ELSE IF n >= table[i].count THEN Without(table, i)
              ELSE [table EXCEPT ![i].count = @ - n]
  /\ UNCHANGED <<storage, inodes, handles, opened, held, ends, request>>

-----------------------------------------------------------------------------
(* Files                                                                   *)

\* open() of a backing tree: an unaliased regular file, emptied by O_TRUNC; the
\* handle of a host file is its path.  O_TRUNC has emptied the file before the
\* quota is looked at, by what was used before it.
OpenIn(b, i, p, flag) ==
  /\ IF b = "host" THEN p \in HostFiles ELSE IsFile(b, p)
  /\ IF flag = "truncate" /\ b = "private"
     THEN size' = [size EXCEPT ![tree[b][p].object] = 0]
     ELSE UNCHANGED size
  /\ IF flag = "truncate" /\ ~Fits(b, 0, 0)
     THEN UNCHANGED <<handles, opened, held, ends>>
     ELSE /\ NewHandle(b, IF b = "host" THEN 0 ELSE tree[b][p].object, i,
                       IF flag = "truncate" THEN "write" ELSE flag)
          /\ IF flag = "truncate" THEN Sees(i, 0) ELSE UNCHANGED ends

Held == {"read", "write", "append"}

\* open(): for reading, for writing, with O_APPEND or with O_TRUNC.
OpenAt(i, p, flag) ==
  LET b == Route(p, IF flag = "read" THEN "read" ELSE "write")
  IN  /\ b # "none" /\ (flag = "truncate" => Route(p, "truncate") = b)
      /\ OpenIn(b, i, p, flag)

Open(i, flag) ==
  /\ Serving
  /\ OpenAt(i, PathOf(i), flag)
  /\ UNCHANGED <<tree, table, inodes, known, request>>

\* release(), which fails when the budget is spent
Release(h, refused) ==
  /\ Serving
  /\ held' = Without(held, h)
  /\ handles' = IF refused THEN handles ELSE Without(handles, h)
  /\ UNCHANGED <<storage, table, inodes, opened, known, ends, request>>

\* write() up to n, also of a file that has no name any more
Write(h, n) ==
  LET o == handles[h].object
  IN  /\ Serving /\ held[h].flag = "write" /\ handles[h].tree = "private"
      /\ ResizeIn("private", o, Larger(size[o], n))
      /\ Sees(held[h].inode, Larger(ends[held[h].inode], n))
      /\ UNCHANGED <<tree, table, inodes, handles, opened, known, held, request>>

\* write() with O_APPEND: the kernel gives the end it believes in.
WriteAtEnd(h, k) ==
  LET at == ends[held[h].inode]
  IN  /\ Serving /\ held[h].flag = "append"
      /\ AppendIn(handles[h].tree, handles[h].object, at, k)
      /\ Sees(held[h].inode, at + k)
      /\ UNCHANGED <<tree, table, inodes, handles, opened, known, held, request>>

\* setattr() of the size by handle: the reply is about the path of the inode,
\* if that is still there.
Ftruncate(h, n) ==
  LET i == held[h].inode
      p == PathOf(i)
  IN  /\ Serving /\ held[h].flag # "read" /\ i \in Named1
      /\ ResizeIn(handles[h].tree, handles[h].object, n)
      /\ IF Answer(p) = "none"
         THEN UNCHANGED <<table, inodes, known, ends>>
         ELSE /\ Reply(Answer(p), p, FALSE)
              /\ Sees(i, SizeAt(size', Answer(p), p))
      /\ UNCHANGED <<tree, handles, opened, held, request>>

\* setattr() of the size by inode: open, truncate, release, and a reply.
Truncate(i, n) ==
  LET b == Route(PathOf(i), "write")
  IN  /\ Serving /\ b = "private" /\ IsFile(b, PathOf(i))
      /\ ResizeIn(b, tree[b][PathOf(i)].object, n)
      /\ Reply(b, PathOf(i), FALSE)
      /\ Sees(i, n)
      /\ UNCHANGED <<tree, handles, opened, held, request>>

\* create(): the file with its inode ...
Create(p) ==
  LET b == Route(p, "create")
  IN  /\ request = Idle
      /\ b \in Trees /\ ParentsOk(b, p)
      /\ CreateIn(b, p)
      /\ Reply(b, p, FALSE)
      /\ request' = [op |-> "create", path |-> p, names |-> {}, inode |-> InodeOf(b, p)]
      /\ UNCHANGED <<handles, opened, held, ends>>

\* ... and its handle, unless another daemon has removed it in between, or the
\* table of handles is full.  The reply has the attributes of the first half.
\* (That O_TRUNC may empty it once more is left out.)
CreateOpens ==
  LET p == request.path
      b == Route(p, "write")
      i == request.inode
  IN  /\ request.op = "create"
      /\ \/ /\ IsFile(b, p)
            /\ \E flag \in Held : NewHandle(b, tree[b][p].object, i, flag)
            /\ known' = Counted(known, i)
            /\ Sees(i, 0)
         \/ /\ ~IsFile(b, p) \/ opened = MaxHandle
            /\ UNCHANGED <<handles, opened, kernel>>
      /\ request' = Idle
      /\ UNCHANGED <<storage, table, inodes>>

\* create() beyond the quota, or of a name that is there, leaves the parents.
CreateFails(p) ==
  LET b == Route(p, "create")
  IN  /\ request = Idle
      /\ b \in Trees /\ ParentsOk(b, p) /\ (p \in DOMAIN tree[b] \/ ~Fits(b, 1, 0))
      /\ tree' = [tree EXCEPT ![b] = WithParents(b, p)]
      /\ UNCHANGED <<size, table, inodes, handles, opened, kernel, request>>

-----------------------------------------------------------------------------
(* The tree                                                                *)

Mkdir(p) ==
  LET b == Route(p, "mkdir")
  IN  /\ Serving
      /\ b \in Trees /\ ParentsOk(b, p)
      /\ MkdirIn(b, p)
      /\ Reply(b, p, TRUE)
      /\ Sees(InodeOf(b, p), 0)
      /\ UNCHANGED <<size, handles, opened, held, request>>

RemoveNode(p, op) ==
  /\ Serving
  /\ Route(p, op) \in Trees
  /\ RemoveIn(Route(p, op), p, op)
  /\ UNCHANGED <<size, table, inodes, handles, opened, kernel, request>>

\* Mutant: rename() asks for the source's rule only.
RenameRouteOfSource(p, q) == Route(p, "rename")

\* Both ends must be routed to one tree, or the rename ends with EXDEV.
RenameRoute(p, q) ==
  IF Route(p, "rename") = Route(q, "rename") THEN Route(p, "rename") ELSE "none"

Rename(p, q) ==
  LET b == RenameRoute(p, q)
  IN  /\ Serving
      /\ b \in Trees /\ ParentsOk(b, q)
      /\ RenameIn(b, p, q)
      /\ UNCHANGED <<size, table, inodes, handles, opened, kernel, request>>

\* A rename that fails leaves the parents of the new name.
RenameFails(p, q) ==
  LET b == RenameRoute(p, q)
  IN  /\ Serving
      /\ b \in Trees /\ ParentsOk(b, q) /\ ~Movable(b, p, q)
      /\ tree' = [tree EXCEPT ![b] = WithParents(b, q)]
      /\ UNCHANGED <<size, table, inodes, handles, opened, kernel, request>>

-----------------------------------------------------------------------------
(* readdir(): the names first, then each is looked up in a thread          *)

Readdir(i) ==
  /\ request = Idle /\ Listing(PathOf(i)) # {}
  /\ request' = [Idle EXCEPT !.op = "readdir", !.names = Listing(PathOf(i))]
  /\ UNCHANGED <<storage, table, inodes, handles, opened, kernel>>

\* A name that is gone is left out.  When the reply has no room for one more,
\* the node was counted and the kernel does not take it.
ReaddirNext ==
  /\ request.op = "readdir"
  /\ \E p \in request.names :
       LET rest == request.names \ {p}
           next == IF rest = {} THEN Idle ELSE [request EXCEPT !.names = rest]
       IN  \/ /\ Answer(p) = "none"
              /\ request' = next
              /\ UNCHANGED <<table, inodes, known, ends>>
           \/ /\ Answer(p) # "none"
              /\ \E room \in BOOLEAN :
                   /\ Reply(Answer(p), p, room)
                   /\ request' = IF room THEN next ELSE Idle
                   /\ IF room THEN Sees(InodeOf(Answer(p), p), SizeAt(size, Answer(p), p))
                              ELSE UNCHANGED ends
  /\ UNCHANGED <<storage, handles, opened, held>>

-----------------------------------------------------------------------------
\* Another daemon of the profile serves a request on the private tree.
Peer ==
  /\ \/ \E p \in Paths :
          /\ Route(p, "create") = "private" /\ IsDir("private", Parents[p])
          /\ \/ CreateIn("private", p)
             \/ MkdirIn("private", p) /\ UNCHANGED size
             \/ \E op \in {"unlink", "rmdir"} : RemoveIn("private", p, op) /\ UNCHANGED size
             \/ \E q \in Paths : /\ RenameRoute(p, q) = "private"
                                 /\ IsDir("private", Parents[q])
                                 /\ RenameIn("private", p, q) /\ UNCHANGED size
     \/ /\ \E o \in Files(tree["private"]) :
             \/ \E n \in 0..MaxSize : ResizeIn("private", o, n)
             \/ \E at \in 0..size[o], k \in 1..MaxSize : AppendIn("private", o, at, k)
        /\ UNCHANGED tree
  /\ UNCHANGED <<table, inodes, handles, opened, kernel, request>>

\* The mount goes away with its daemon; the trees stay for the next one, which
\* scans the private tree before it serves and does not when it is over its quota.
Restart ==
  /\ inodes # 0
  /\ Fits("private", 0, 0)
  /\ table' = <<>> /\ inodes' = 0
  /\ handles' = <<>> /\ opened' = 0
  /\ known' = <<>> /\ held' = <<>>
  /\ ends' = [i \in 2..MaxInode + 1 |-> 0]
  /\ request' = Idle
  /\ UNCHANGED storage

-----------------------------------------------------------------------------
HomeNext ==
  \/ \E p \in InReach : \/ Lookup(p) \/ Create(p) \/ CreateFails(p) \/ Mkdir(p)
                        \/ \E op \in {"unlink", "rmdir"} : RemoveNode(p, op)
                        \/ \E q \in InReach : Rename(p, q) \/ RenameFails(p, q)
  \/ \E i \in Named1 :
       \/ Getattr(i) \/ Readdir(i)
       \/ \E n \in 1..MaxCount, refused \in BOOLEAN : Forget(i, n, refused)
       \/ \E flag \in Held \cup {"truncate"} : Open(i, flag)
       \/ \E n \in 0..MaxSize : Truncate(i, n)
  \/ \E h \in DOMAIN held :
       \/ \E refused \in BOOLEAN : Release(h, refused)
       \/ \E n \in 0..MaxSize : Write(h, n) \/ Ftruncate(h, n)
       \/ \E k \in 1..MaxSize : WriteAtEnd(h, k)
  \/ CreateOpens \/ ReaddirNext \/ Peer \/ Restart

HomeSpec == HomeInit /\ [][HomeNext]_homeVars

-----------------------------------------------------------------------------
Nodes == [kind : {"dir", "file"}, object : 0..MaxObject]

\* Every variable has a value of its kind, and a writable tree has a directory
\* above each of its nodes.
HomeTypeOK ==
  /\ DOMAIN tree = Trees
  /\ \A b \in Trees : /\ DOMAIN tree[b] \subseteq Paths /\ Range(tree[b]) \subseteq Nodes
                      /\ \A p \in DOMAIN tree[b] : \A q \in Above(p) : IsDir(b, q)
  /\ size \in [1..MaxObject -> 0..MaxSize]
  /\ inodes \in 0..MaxInode /\ opened \in 0..MaxHandle
  /\ DOMAIN table \subseteq 2..inodes + 1
  /\ Range(table) \subseteq
       [tree : {"private", "overlay", "host", "virtual"}, path : Paths, count : Nat \ {0}]
  /\ DOMAIN known \subseteq 2..inodes + 1 /\ Range(known) \subseteq Nat \ {0}
  /\ DOMAIN held \subseteq DOMAIN handles /\ DOMAIN handles \subseteq 1..opened
  /\ Range(held) \subseteq [inode : Nat, flag : Held]
  /\ ends \in [2..MaxInode + 1 -> Nat]
  /\ request \in [op : {"idle", "readdir", "create"}, path : Paths \cup {Root},
                  names : SUBSET Paths, inode : Nat]

\* No request takes the private tree beyond its quota, whatever other daemons of
\* the profile did to it in the meantime (_exclusive scans it again under the lock
\* before every operation), but an append that the kernel placed before the end
\* the file has by then.
QuotaHolds ==
  [][LET used == Used(tree["private"])
     IN  /\ Cardinality(Files(tree["private"])') <= MaxFiles
         /\ used' > MaxBytes /\ used' > used =>
              \E o \in 1..MaxObject : \E at \in 0..size[o] - 1, k \in 1..MaxSize :
                AppendIn("private", o, at, k)]_homeVars

\* "Private state is persistent per profile, quota-bounded"
\* (docs/evidence/packet-30-32-acceptance.md:16).
QuotaIsNeverExceeded == Used(tree["private"]) <= MaxBytes

\* An inode the kernel holds resolves, and is counted at least as often as the
\* kernel counted it, so that forgetting never drops a node too early (lookup,
\* create, mkdir and readdir against forget, in fuse.py and composite.py).
KernelInodesResolve ==
  \A i \in DOMAIN known : i \in DOMAIN table /\ table[i].count >= known[i]

\* A writable rule covers a subtree that has no rules of its own inside.
FlatRules ==
  \A i \in DOMAIN Rules : Rules[i].mode \in Writable =>
    /\ Rules[i].scope = "subtree"
    /\ \A j \in DOMAIN Rules : ~IsStrictPrefix(Rules[i].path, Rules[j].path)

\* "cross-rule rename returns EXDEV" (final-architecture.md): a file lies
\* in the tree the rules name for its path, so that the path leads to it
\* (RenameRoute, Create, RenameIn).
FilesFollowRules ==
  \A b \in Trees : \A p \in DOMAIN tree[b] :
    tree[b][p].kind = "file" => Route(p, "lookup") = b

\* The tree and the tables of the home are well formed, and every file a rule
\* decides about lies in the tree that rule names.
HomeIsSound == HomeTypeOK /\ FilesFollowRules
=============================================================================
