---------------------------- MODULE WorkerLaunch ----------------------------
(***************************************************************************)
(* From a signed grant to the namespace its worker serves.                 *)
(*                                                                         *)
(*   broker/sources.py, server/path_resolver.py   a child under the user's *)
(*       identity pins the sources, the broker clones them                 *)
(*   broker/execution_plan.py, broker/launch.py   the sealed plan          *)
(*   broker/executor.py, broker/mapping.py        descriptors, fork, the   *)
(*       handshake, the staging directory, reaping                         *)
(*   native/aspr-mount-worker.c                   the worker's own checks  *)
(*       and mounts                                                        *)
(*                                                                         *)
(* The broker's descriptor table is modelled number by number, as the      *)
(* kernel fills it: a new descriptor takes the lowest free number.  Every  *)
(* descriptor of the broker is close-on-exec; dup2() clears that.          *)
(*                                                                         *)
(* A worker's supervision, deadline and registration are RemoteSession's.  *)
(***************************************************************************)
EXTENDS GrantPlan

CONSTANTS
  Sources,      \* canonical paths of the file system
  Objects,      \* files and directories, at some path or at none
  Ino,          \* [Objects -> Nat], device and inode number
  Kind,         \* [Objects -> {"file", "directory"}]
  Unfit,        \* objects not on ext4, holding a mount, or not the user's to read
  FirstAt,      \* [Sources -> Objects \cup {None}], the file system at first
  Pids,         \* process identifiers the kernel gives to workers
  Extras,       \* sets of numbers a broker may keep open for other purposes
  TargetBytes,  \* [targets -> Nat], the length of a target
  MaxPlanBytes, \* the longest plan the worker takes: 65536
  MaxRequests   \* bound on the requests the broker accepts

None == "none"

ASSUME LaunchAssumption ==
  /\ Ino \in [Objects -> Nat]
  /\ FirstAt \in [Sources -> Objects \cup {None}]
  /\ None \notin Pids
  /\ \A extra \in Extras : extra \subseteq Nat /\ IsFiniteSet(extra)
  /\ TargetBytes \in [ToSet(TargetOrder) -> Nat]
  /\ MaxPlanBytes \in Nat /\ MaxRequests \in Nat

VARIABLES
  at,        \* the object at each path
  pc,        \* where the broker's request thread is
  req,       \* the grant of the request it serves
  count,     \* requests accepted so far
  fds,       \* the broker's descriptor table: open numbers to open files
  resolved,  \* what the resolving child has pinned
  pid,       \* the process being launched
  worker,    \* each worker process
  staging,   \* staging directories below /run/astral-project/staging
  calm       \* history: no call failed, no process died, no path changed

launchVars == <<at, pc, req, count, fds, resolved, pid, worker, staging, calm>>

\* An open file: what it is, the request it belongs to and, of a source, its place
\* in the plan and its object.
File(what, n) == [what |-> what, n |-> n, i |-> 0, obj |-> None]
Pinned(what, n, i, o) == [what |-> what, n |-> n, i |-> i, obj |-> o]

NoWorker == [st |-> None]
NoGrant == [id |-> None]

-----------------------------------------------------------------------------
(* Descriptor tables                                                       *)

Lowest(table, floor) ==
  CHOOSE k \in floor..(floor + Cardinality(DOMAIN table)) :
    /\ k \notin DOMAIN table
    /\ \A j \in floor..(k - 1) : j \in DOMAIN table

DupTo(table, k, file) ==
  [j \in DOMAIN table \cup {k} |-> IF j = k THEN file ELSE table[j]]

Open(table, file) == DupTo(table, Lowest(table, 0), file)

OpenAll(table, files) ==
  LET opened[i \in 0..Len(files)] ==
        IF i = 0 THEN table ELSE Open(opened[i - 1], files[i])
  IN opened[Len(files)]

Close(table, numbers) == [j \in DOMAIN table \ numbers |-> table[j]]

NumberOf(table, file) == CHOOSE k \in DOMAIN table : table[k] = file

Closed(table, files) == Close(table, {k \in DOMAIN table : table[k] \in files})

\* The broker started by systemd: three standard channels, the listener, and
\* whatever the interpreter keeps.
Base(extra) == [k \in 0..3 \cup extra |-> File("own", 0)]

Stream(n)     == File("stream", n)
Connection(n) == File("connection", n)
LogRead(n)    == File("logRead", n)
LogWrite(n)   == File("logWrite", n)
Runtime(n)    == File("runtime", n)
SealedPlan(n) == File("plan", n)
ReadyWrite(n) == File("readyWrite", n)
ContinueRead(n) == File("continueRead", n)

-----------------------------------------------------------------------------
(* The worker's fixed descriptors: _install_worker_fds()                   *)

SourceBase == 10
RuntimeNumber == 74
SourceLimit == 74
RelocationFloor == 75

\* WorkerLaunchFds.fixed_mapping(): destination and file, in the mapping's order
Layout(n, sources) ==
  << <<3, ReadyWrite(n)>>, <<4, ContinueRead(n)>>, <<5, SealedPlan(n)>>,
     <<6, Stream(n)>>, <<7, LogWrite(n)>>, <<RuntimeNumber, Runtime(n)>> >>
  \o [i \in DOMAIN sources |-> <<SourceBase + i - 1, sources[i]>>]

\* Mutant of Relocate: no descriptor is moved out of the way.
RelocateNothing(acc, move) ==
  [acc EXCEPT !.moves = Append(@, <<move[1], NumberOf(acc.table, move[2])>>)]

\* A descriptor whose number is a destination is first duplicated above the
\* layout and closed.
Relocate(acc, move) ==
  LET source == NumberOf(acc.table, move[2])
      taken == source \in acc.destinations
      number == IF taken THEN Lowest(acc.table, RelocationFloor) ELSE source
  IN [table |-> IF taken THEN Close(DupTo(acc.table, number, move[2]), {source})
                         ELSE acc.table,
      moves |-> Append(acc.moves, <<move[1], number>>),
      destinations |-> acc.destinations]

\* The first loop: which descriptor is to be duplicated to which number.
Relocated(table, layout) ==
  LET moved[i \in 0..Len(layout)] ==
        IF i = 0
        THEN [table |-> table, moves |-> <<>>,
              destinations |-> {layout[j][1] : j \in DOMAIN layout}]
        ELSE Relocate(moved[i - 1], layout[i])
  IN moved[Len(layout)]

\* The second loop: dup2() in order.
Duplicated(table, moves) ==
  LET duplicated[i \in 0..Len(moves)] ==
        IF i = 0 THEN table
        ELSE DupTo(duplicated[i - 1], moves[i][1], duplicated[i - 1][moves[i][2]])
  IN duplicated[Len(moves)]

\* After exec nothing is left but the standard channels and the destinations.
Installed(table, layout) ==
  LET moved == Relocated(table, layout)
      final == Duplicated(moved.table, moved.moves)
  IN [k \in 0..2 \cup moved.destinations |-> final[k]]

-----------------------------------------------------------------------------
LaunchInit ==
  /\ at = FirstAt
  /\ pc = "idle" /\ req = NoGrant /\ count = 0
  /\ \E extra \in Extras : fds = Base(extra)
  /\ resolved = <<>> /\ pid = None
  /\ worker = [p \in Pids |-> NoWorker]
  /\ staging = {}
  /\ calm = TRUE

Goto(step) == pc' = step

\* An error that is no AstralError ends the broker: its descriptors close, systemd
\* kills the workers, and nothing removes a staging directory.
Die ==
  /\ Goto("idle")
  /\ req' = NoGrant /\ resolved' = <<>> /\ pid' = None
  /\ \E extra \in Extras : fds' = Base(extra)
  /\ worker' = [p \in Pids |-> NoWorker]
  /\ calm' = FALSE
  /\ UNCHANGED <<at, count, staging>>

\* serve_once() reads a request and its stream descriptor and validates it.
Request(g) ==
  /\ pc = "idle" /\ count < MaxRequests
  /\ count' = count + 1
  /\ req' = g
  /\ fds' = OpenAll(fds, <<Connection(count + 1), Stream(count + 1)>>)
  /\ Goto(IF WithinCeiling(g) /\ BuildPlan(g).ok THEN "resolve" ELSE "refuse")
  /\ UNCHANGED <<at, resolved, pid, worker, staging, calm>>

-----------------------------------------------------------------------------
(* The child that resolves the sources as the user                         *)

\* _require_signed_identity()
Matches(x, o) == o # None /\ Kind[o] = x.kind /\ Ino[o] = x.ino

\* resolve_source() opens below the pinned root; the topology, the access and the
\* identity are those of the descriptor.
Resolves(x) == Matches(x, at[x.source]) /\ at[x.source] \notin Unfit

ResolveNext ==
  /\ pc = "resolve"
  /\ LET plan == BuildPlan(req).exports
     IN /\ Len(resolved) < Len(plan)
        /\ LET e == plan[Len(resolved) + 1]
               x == ExportOf(req, e)
           IN IF Signed(req, e) /\ Resolves(x)
              THEN resolved' = Append(resolved, at[x.source]) /\ UNCHANGED pc
              ELSE Goto("refuse") /\ UNCHANGED resolved
  /\ UNCHANGED <<at, req, count, fds, pid, worker, staging, calm>>

\* The child is killed, or the kernel denies it a call.
ChildFails ==
  /\ pc = "resolve"
  /\ Goto("refuse")
  /\ calm' = FALSE
  /\ UNCHANGED <<at, req, count, fds, resolved, pid, worker, staging>>

\* The descriptors that stay open after the child's answer: the parent's end of
\* the pair is open while they arrive.
Received(raw, pair) ==
  LET with == Closed(OpenAll(OpenAll(fds, pair), raw), ToSet(pair))
  IN IF Len(raw) = Len(req.exports) THEN with ELSE Closed(with, ToSet(raw))

\* recvmsg(): one descriptor for each planned export, and their number has to be
\* that of the grant's exports.
Receive ==
  /\ pc = "resolve"
  /\ Len(resolved) = Len(BuildPlan(req).exports)
  /\ LET raw == [i \in DOMAIN resolved |-> Pinned("raw", count, i, resolved[i])]
     IN /\ fds' = Received(raw, <<File("pair", count)>>)
        /\ Goto(IF Len(raw) = Len(req.exports) THEN "clone" ELSE "refuse")
  /\ UNCHANGED <<at, req, count, resolved, pid, worker, staging, calm>>

-----------------------------------------------------------------------------
(* The executor                                                            *)

Raw == {fds[k] : k \in {j \in DOMAIN fds : fds[j].what = "raw"}}

\* One detached mount for each descriptor; request and place stand for its mount id.
Clones == [i \in DOMAIN resolved |-> Pinned("clone", count, i, resolved[i])]

CloneMounts ==
  /\ pc = "clone"
  /\ fds' = Closed(OpenAll(fds, Clones), Raw)
  /\ Goto("logs")
  /\ UNCHANGED <<at, req, count, resolved, pid, worker, staging, calm>>

CreateLogs ==
  /\ pc = "logs"
  /\ fds' = OpenAll(fds, <<LogRead(count), LogWrite(count)>>)
  /\ Goto("prepare")
  /\ UNCHANGED <<at, req, count, resolved, pid, worker, staging, calm>>

\* ExecutionPlanV1: the layout has room for each source.
Sealable == Len(resolved) \in 1..(SourceLimit - SourceBase)

\* prepare_worker_launch_with_verified_runtime(): verify, clone, seal.
Prepare ==
  /\ pc = "prepare" /\ Sealable
  /\ fds' = Open(Closed(OpenAll(fds, <<File("verified", count), Runtime(count)>>),
                        {File("verified", count)}), SealedPlan(count))
  /\ Goto("pipes")
  /\ UNCHANGED <<at, req, count, resolved, pid, worker, staging, calm>>

HandshakePipes ==
  <<File("readyRead", count), ReadyWrite(count), ContinueRead(count),
    File("continueWrite", count)>>

\* The plan as sealed: each entry with the mount its slot is to show.
SealedEntries ==
  [i \in DOMAIN resolved |->
     [export |-> BuildPlan(req).exports[i], mount |-> <<count, i>>]]

MakePipes ==
  /\ pc = "pipes"
  /\ fds' = OpenAll(fds, HandshakePipes)
  /\ Goto("fork")
  /\ UNCHANGED <<at, req, count, resolved, pid, worker, staging, calm>>

\* MappingWorker.start(): the child closes the broker's ends and installs its own.
Fork(p) ==
  /\ pc = "fork" /\ worker[p] = NoWorker
  /\ pid' = p
  /\ fds' = Closed(fds, {ReadyWrite(count), ContinueRead(count)})
  /\ worker' = [worker EXCEPT ![p] =
       [st |-> "born", n |-> count, grant |-> req, entries |-> SealedEntries,
        table |-> Installed(Closed(fds, {File("readyRead", count),
                                         File("continueWrite", count)}),
                            Layout(count, Clones)),
        tree |-> {}]]
  /\ Goto("handshake")
  /\ UNCHANGED <<at, req, count, resolved, staging, calm>>

\* Mutant of LaunchFiles: the clones are left to the worker.
LaunchFilesButClones ==
  {File("readyRead", count), File("continueWrite", count), Runtime(count),
   SealedPlan(count), LogWrite(count), Stream(count)}

\* What start() closes whether it returns or raises, its caller's files included.
LaunchFiles ==
  {File("readyRead", count), File("continueWrite", count), Runtime(count),
   SealedPlan(count), LogWrite(count), Stream(count)} \cup ToSet(Clones)

\* _create_worker_staging(): the directory must not exist.
MakeStaging ==
  /\ pc = "handshake" /\ worker[pid].st = "ready" /\ pid \notin staging
  /\ staging' = staging \cup {pid}
  /\ Goto("map")
  /\ UNCHANGED <<at, req, count, fds, resolved, pid, worker, calm>>

\* The launch fails: the worker is killed and reaped, what start() owns is closed,
\* and serve_once() will close the stream once more.
LaunchFails(failed) ==
  /\ worker' = [p \in Pids |-> IF p = pid THEN NoWorker ELSE worker[p]]
  /\ fds' = Closed(fds, LaunchFiles \cup {LogRead(count)})
  /\ Goto("refuse")
  /\ calm' = (calm /\ ~failed)
  /\ UNCHANGED <<at, req, count, resolved, pid, staging>>

\* The worker died or did not say "R" within two seconds, the kernel denies the
\* staging directory, or it is there already.
HandshakeFails ==
  /\ pc = "handshake"
  /\ \/ LaunchFails(TRUE)
     \/ worker[pid].st = "ready" /\ pid \in staging /\ LaunchFails(FALSE)

\* The identity maps are written, the worker continues, every parent copy closes.
Continue ==
  /\ pc = "map" /\ worker[pid].st = "ready"
  /\ worker' = [worker EXCEPT ![pid].st = "mapped"]
  /\ fds' = Closed(fds, LaunchFiles \cup {Connection(count)})
  /\ Goto("idle")
  /\ req' = NoGrant /\ resolved' = <<>> /\ pid' = None
  /\ UNCHANGED <<at, count, staging, calm>>

\* The runtime closure fails its verification, or there are too many sources; the
\* directory cannot be given to the user, or the worker is gone when its maps are
\* written: the staging directory stays.
PrepareFails == pc = "prepare" /\ LaunchFails(Sealable)
MapFails == pc = "map" /\ LaunchFails(TRUE)

\* socketpair(), open_tree(), pipe2(), memfd_create(), fork() or the write to the
\* worker raises OSError.
KernelRefuses ==
  pc \in {"resolve", "clone", "logs", "prepare", "pipes", "fork", "map"} /\ Die

\* serve_once() answers with a rejection and closes the stream: it is open unless
\* the executor has closed it, and then the second close() raises OSError.
Refuse ==
  /\ pc = "refuse"
  /\ IF \E k \in DOMAIN fds : fds[k] = Stream(count)
     THEN /\ fds' = Closed(fds, {Stream(count), Connection(count)})
          /\ Goto("idle")
          /\ req' = NoGrant /\ resolved' = <<>> /\ pid' = None
          /\ UNCHANGED <<at, count, worker, staging, calm>>
     ELSE Die

-----------------------------------------------------------------------------
(* The native worker                                                       *)

WorkerReady(p) ==
  /\ worker[p].st = "born"
  /\ worker' = [worker EXCEPT ![p].st = "ready"]
  /\ UNCHANGED <<at, pc, req, count, fds, resolved, pid, staging, calm>>

\* ExecutionPlanV1.to_bytes(): a header, and an entry with its target for each export.
PlanBytes(exports) ==
  FoldLeft(LAMBDA bytes, e : bytes + 34 + TargetBytes[e.target], 16, exports)

PlannedExports(w) == [i \in DOMAIN w.entries |-> w.entries[i].export]

\* main(): the plan is not too long; every entry's slot is open, is the mount and the
\* object of the plan, and its target is not reserved.
Verified(w) ==
  /\ PlanBytes(PlannedExports(w)) <= MaxPlanBytes
  /\ \A i \in DOMAIN w.entries :
       LET e == w.entries[i].export
           file == w.table[SourceBase + e.slot]
       IN /\ WorkerTakes(e.target)
          /\ file.what = "clone" /\ <<file.n, file.i>> = w.entries[i].mount
          /\ Ino[file.obj] = e.ino /\ Kind[file.obj] = e.kind

\* The tree the worker builds on its tmpfs: mount_one() for each entry.
Tree(w) ==
  {[target |-> w.entries[i].export.target, access |-> w.entries[i].export.access,
    obj |-> w.table[SourceBase + w.entries[i].export.slot].obj] : i \in DOMAIN w.entries}

\* After "C": the plan is checked; the tree is built, every privilege dropped and
\* sftp-server run, or the worker exits with 112.
Serve(p) ==
  /\ worker[p].st = "mapped" /\ Verified(worker[p])
  /\ worker' = [worker EXCEPT ![p].st = "serving", ![p].tree = Tree(worker[p])]
  /\ UNCHANGED <<at, pc, req, count, fds, resolved, pid, staging, calm>>

RejectPlan(p) ==
  /\ worker[p].st = "mapped" /\ ~Verified(worker[p])
  /\ worker' = [worker EXCEPT ![p].st = "rejected"]
  /\ UNCHANGED <<at, pc, req, count, fds, resolved, pid, staging, calm>>

WorkerDies(p) ==
  /\ worker[p].st \in {"born", "ready", "mapped", "serving", "rejected"}
  /\ worker' = [worker EXCEPT ![p].st = "dead"]
  /\ calm' = (calm /\ worker[p].st \in {"serving", "rejected"})
  /\ UNCHANGED <<at, pc, req, count, fds, resolved, pid, staging>>

\* Mutant of Cleaned: the staging directory is left.
NotCleaned(p) == staging

Cleaned(p) == staging \ {p}

\* The supervising thread: reap, remove the staging directory, close the log.
Reap(p) ==
  /\ worker[p].st = "dead" /\ p # pid
  /\ staging' = Cleaned(p)
  /\ fds' = Closed(fds, {LogRead(worker[p].n)})
  /\ worker' = [worker EXCEPT ![p] = NoWorker]
  /\ UNCHANGED <<at, pc, req, count, resolved, pid, calm>>

\* rmdir() fails: the worker is reaped and the log closed, the directory stays.
ReapFails(p) ==
  /\ worker[p].st = "dead" /\ p # pid
  /\ fds' = Closed(fds, {LogRead(worker[p].n)})
  /\ worker' = [worker EXCEPT ![p] = NoWorker]
  /\ calm' = FALSE
  /\ UNCHANGED <<at, pc, req, count, resolved, pid, staging>>

-----------------------------------------------------------------------------
\* The remote user moves objects about, or replaces one by another.
Rename(s, t) ==
  /\ at[s] # at[t]
  /\ at' = [at EXCEPT ![s] = at[t], ![t] = at[s]]
  /\ calm' = FALSE
  /\ UNCHANGED <<pc, req, count, fds, resolved, pid, worker, staging>>

Replace(s, o) ==
  /\ \A t \in Sources : at[t] # o
  /\ at' = [at EXCEPT ![s] = o]
  /\ calm' = FALSE
  /\ UNCHANGED <<pc, req, count, fds, resolved, pid, worker, staging>>

BrokerStep ==
  \/ ResolveNext
  \/ Receive
  \/ CloneMounts
  \/ CreateLogs
  \/ Prepare
  \/ MakePipes
  \/ \E p \in Pids : Fork(p)
  \/ MakeStaging
  \/ HandshakeFails
  \/ Continue
  \/ PrepareFails
  \/ MapFails
  \/ Refuse

Environment ==
  \/ ChildFails
  \/ KernelRefuses
  \/ \E p \in Pids : \/ WorkerReady(p) \/ Serve(p) \/ RejectPlan(p) \/ WorkerDies(p)
                     \/ Reap(p) \/ ReapFails(p)
  \/ \E s, t \in Sources : Rename(s, t)
  \/ \E s \in Sources, o \in Objects : Replace(s, o)

-----------------------------------------------------------------------------
(* Properties                                                              *)

Serving == {p \in Pids : worker[p].st = "serving"}

\* What a worker serves is what was signed: under each target of the grant, with
\* its access, an object with the signed inode and kind and nothing else; and its
\* channels are the request's own stream and log.  (sources.py, mapping.py, the
\* worker's verify_fd())
ServesWhatWasSigned ==
  \A p \in Serving :
    /\ {[target |-> e.target, access |-> e.access, ino |-> Ino[e.obj], kind |-> Kind[e.obj]] :
          e \in worker[p].tree}
         = {[target |-> x.target, access |-> x.access, ino |-> x.ino, kind |-> x.kind] :
              x \in ToSet(worker[p].grant.exports)}
    /\ worker[p].table[6] = Stream(worker[p].n)
    /\ worker[p].table[7] = LogWrite(worker[p].n)
    /\ worker[p].table[RuntimeNumber] = Runtime(worker[p].n)

\* "Root broker must retain sole ownership of worker descriptors": between two
\* requests the broker holds none, but the read end of each worker's log.
IdleHoldsNothing ==
  pc = "idle" =>
    {fds[k] : k \in DOMAIN fds} =
      {File("own", 0)} \cup {LogRead(worker[p].n) : p \in {q \in Pids : worker[q] # NoWorker}}

\* "Forbidden source roots": nothing a worker serves was signed for a path at,
\* above or below one, nor for a path outside the allowed roots.  (ceiling.py)
ServedIsWithinCeiling ==
  \A p \in Serving : \A x \in ToSet(worker[p].grant.exports) :
    /\ \A f \in Forbidden : ~IsPrefix(x.source, f) /\ ~IsPrefix(f, x.source)
    /\ \E r \in Roots : IsPrefix(r.path, x.source) /\ (r.access = "ro" => x.access = "ro")

\* A grant the broker can plan, seal and launch, and a plan the worker takes: neither
\* the ceiling nor the planner bounds the length of a plan.
Servable(g) ==
  /\ WithinCeiling(g) /\ HasPlan(g) /\ Len(g.exports) <= SourceLimit - SourceBase
  /\ PlanBytes(PlanOf(g)) <= MaxPlanBytes
  /\ \A x \in ToSet(g.exports) :
       /\ WorkerTakes(x.target)
       /\ Matches(x, FirstAt[x.source]) /\ FirstAt[x.source] \notin Unfit

\* As long as nothing fails and no path changes, a grant within the ceiling that has
\* a plan of at most 65536 bytes is never refused, whatever earlier sessions left
\* behind, and its worker never rejects its sealed plan.
CalmIsServed ==
  calm => /\ pc = "refuse" => ~(Servable(req) /\ Len(req.exports) = Len(PlanOf(req)))
          /\ \A p \in Pids : worker[p].st = "rejected" => ~Servable(worker[p].grant)

\* The planner's loop computes the reference for the grant being served.
PlansAreCanonical == pc # "idle" => PlanIsCanonical(req)
=============================================================================
