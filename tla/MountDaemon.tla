----------------------------- MODULE MountDaemon -----------------------------
(***************************************************************************)
(* The control daemon of Astral Project: one thread that serves requests   *)
(* over grants, sessions and remote mounts, the SQLite rows it keeps them  *)
(* in, and the rclone processes it starts.                                 *)
(*                                                                         *)
(*   daemon/server.py     DaemonServer: start, serve_once, the operations  *)
(*   state/sqlite.py      StateDatabase: grants, revocations, sessions and *)
(*                        mount_runtime rows, one transaction per action   *)
(*   mounts/lifecycle.py  MountManager: open, close, health, recover       *)
(*                                                                         *)
(* mount_runtime.mount_path is UNIQUE and rows are never deleted, so a     *)
(* mount is named here by its path.  The daemon may die between any two    *)
(* steps; rclone, the mount table and the files it wrote outlive it.       *)
(*                                                                         *)
(* accept() returns after a second, but an accepted connection blocks: a   *)
(* client that sends nothing holds the only thread, and one that has left  *)
(* before its answer is written ends the daemon (BrokenPipeError).         *)
(***************************************************************************)
EXTENDS Naturals, FiniteSets

CONSTANTS
  Grants,      \* identifiers of signed grants
  Sessions,    \* identifiers a session may be given, each used at most once
  Paths,       \* mountpoints
  NotBefore,   \* [Grants -> Nat], signed start of validity
  Expiry,      \* [Grants -> Nat], signed end of validity
  MaxTime,     \* bound on the clock
  MaxCrashes   \* bound on the number of times the daemon dies

ASSUME ConstantsAssumption ==
  /\ NotBefore \in [Grants -> Nat]
  /\ Expiry \in [Grants -> Nat]
  /\ MaxTime \in Nat
  /\ MaxCrashes \in Nat
  /\ "none" \notin Sessions
  /\ "none" \notin Grants
  /\ "none" \notin Paths

VARIABLES
  now,         \* wall clock
  stored,      \* grants table
  revoked,     \* revocations table
  sstate,      \* sessions.state, "none" before the row exists
  sgrant,      \* sessions.grant_id
  mstate,      \* mount_runtime.state, "none" before the row exists
  msess,       \* mount_runtime.session_id
  pidKnown,    \* paths whose row holds a pid
  warned,      \* paths whose row holds a flush_warning
  configs,     \* paths whose private config and cache are on disk
  markers,     \* paths with an authority marker beside the mountpoint
  running,     \* paths whose rclone process is alive
  starting,    \* paths whose rclone has not called mount(2) yet
  attached,    \* paths the kernel shows as mounted
  dirty,       \* paths with writes in the rclone cache that are not uploaded
  pc,          \* where the daemon's only thread is
  req,         \* the request being served
  cur,         \* the mount a multi-step operation works on
  todo,        \* the mounts a loop has still to visit
  back,        \* where close() returns to
  arrived,     \* the clock when the request was accepted
  seen,        \* the clock as enforce_grant_lifecycle() read it
  scope,       \* _listing_session, "none" or a session
  tracked,     \* MountManager._processes
  transports,  \* MountManager._transports
  crashes      \* number of times the daemon died, for the bound

grantVars   == <<stored, revoked>>
sessionVars == <<sstate, sgrant>>
rowVars     == <<mstate, msess, pidKnown, warned>>
diskVars    == <<configs, markers>>
worldVars   == <<running, starting, attached, dirty>>
ctlVars     == <<pc, req, cur, todo, back, arrived, seen>>
ownVars     == <<tracked, transports>>
vars == <<now, grantVars, sessionVars, rowVars, diskVars, worldVars,
          ctlVars, scope, ownVars, crashes>>

None == "none"

MountStates   == {"creating", "ready", "draining", "failed", "closed"}
SessionStates == {"active", "closed", "expired", "revoked"}

\* What one connection, or the one-second accept timeout, asks of the daemon.
Requests ==
       [op : {"tick", "ls"}]
  \cup [op : {"import", "revoke", "sopen"}, grant : Grants]
  \cup [op : {"sclose"}, session : Sessions]
  \cup [op : {"mopen", "mclose", "mshow"}, path : Paths]

Tick == [op |-> "tick"]

OpenSteps  == {"open_spawn", "open_pid", "open_wait", "open_marker"}
CloseSteps == {"close_drain", "close_unmount", "close_stop", "close_commit",
               "close_wipe"}
Steps == {"down", "recover", "recover_wipe", "idle", "receive", "retire", "list",
          "enforce", "exec", "sclose", "answer"} \cup OpenSteps \cup CloseSteps

-----------------------------------------------------------------------------
(* Queries                                                                 *)

Rows == {p \in Paths : mstate[p] # None}

GrantOf(p) == sgrant[msess[p]]

\* Mutant of Dead: enforcement looks at the signed expiry only.
DeadByExpiryOnly(g, t) == t >= Expiry[g]

\* The test of health() and enforce_grant_lifecycle(): the mount must go.
Dead(g, t) == g \in revoked \/ t >= Expiry[g]

\* GrantVerificationContext: the signed validity window.
InWindow(g) == NotBefore[g] <= now /\ now < Expiry[g]

Active == {s \in Sessions : sstate[s] = "active"}

\* active_listing_session(): the sole active session, or None.
SoleActive == IF Active = {} THEN None ELSE CHOOSE s \in Active : TRUE

\* Mutant of BoundScope: what start() bound is kept.
FirstScope == IF scope = None THEN SoleActive ELSE scope

\* The listing session as start() and every refresh bind it.
BoundScope == SoleActive

Alive(p) == IF p \in tracked THEN p \in running
                             ELSE p \in pidKnown /\ p \in running

-----------------------------------------------------------------------------
Init ==
  /\ now = 0 /\ crashes = 0
  /\ stored = {} /\ revoked = {}
  /\ sstate = [s \in Sessions |-> None]
  /\ sgrant = [s \in Sessions |-> None]
  /\ mstate = [p \in Paths |-> None]
  /\ msess = [p \in Paths |-> None]
  /\ pidKnown = {} /\ warned = {} /\ configs = {} /\ markers = {}
  /\ running = {} /\ starting = {} /\ attached = {} /\ dirty = {}
  /\ pc = "down" /\ req = Tick /\ cur = None /\ todo = {} /\ back = "idle"
  /\ arrived = 0 /\ seen = 0 /\ scope = None
  /\ tracked = {} /\ transports = {}

\* The single thread goes to step s, keeping its other registers.
Goto(s) == pc' = s /\ UNCHANGED <<req, cur, todo, back, arrived, seen>>

\* The request is answered: its locals are gone.
Forget == /\ req' = Tick /\ cur' = None /\ todo' = {} /\ back' = "idle"
          /\ arrived' = 0 /\ seen' = 0

\* What a tick or a start asked for is done, or a request is to be answered.
Finish == pc' = (IF req = Tick THEN "idle" ELSE "answer") /\ Forget

\* close() returns to the loop that called it, or to the operation's end.
Return ==
  IF back = "idle"
  THEN Finish
  ELSE pc' = back /\ cur' = None /\ UNCHANGED <<req, todo, back, arrived, seen>>

-----------------------------------------------------------------------------
(* Start, recovery and death                                               *)

\* The rows recover() has to reconcile.
StaleRows == {p \in Paths : mstate[p] \in {"creating", "ready", "draining"}}

\* start(): the lock is free, the database opens, recover() begins.
Start ==
  /\ pc = "down"
  /\ pc' = "recover"
  /\ req' = Tick
  /\ todo' = StaleRows
  /\ UNCHANGED <<now, grantVars, sessionVars, rowVars, diskVars, worldVars,
                 cur, back, arrived, seen, scope, ownVars, crashes>>

\* The rclone process of p is gone.
Kill(p) == running' = running \ {p} /\ starting' = starting \ {p}

\* recover(), one record: an alive and mounted rclone is unmounted (failure
\* suppressed) and killed, then the row is failed.
Recover(p) ==
  /\ pc = "recover" /\ p \in todo
  /\ IF p \in pidKnown /\ p \in running /\ p \in attached
     THEN Kill(p) /\ attached' \in {attached, attached \ {p}}
     ELSE UNCHANGED <<running, starting, attached>>
  /\ mstate' = [mstate EXCEPT ![p] = "failed"]
  /\ pidKnown' = pidKnown \ {p}
  /\ todo' = todo \ {p}
  /\ cur' = p
  /\ pc' = "recover_wipe"
  /\ UNCHANGED <<now, grantVars, sessionVars, msess, warned, diskVars,
                 dirty, req, back, arrived, seen, scope, ownVars, crashes>>

\* Deleting the cache discards the writes rclone had not uploaded.
Wipe(p) ==
  /\ configs' = configs \ {p}
  /\ dirty' = dirty \ {p}

RecoverWipe ==
  /\ pc = "recover_wipe"
  /\ Wipe(cur)
  /\ Goto("recover")
  /\ UNCHANGED <<now, grantVars, sessionVars, rowVars, markers, running,
                 starting, attached, scope, ownVars, crashes>>

\* The rest of start(): bind the listing session and begin to serve.
RecoverDone ==
  /\ pc = "recover" /\ todo = {}
  /\ scope' = BoundScope
  /\ Finish
  /\ UNCHANGED <<now, grantVars, sessionVars, rowVars, diskVars, worldVars,
                 ownVars, crashes>>

\* The process is gone: its dictionaries, its transport threads, its request.
Die ==
  /\ pc' = "down" /\ Forget
  /\ scope' = None
  /\ tracked' = {} /\ transports' = {}
  /\ UNCHANGED <<now, grantVars, sessionVars, rowVars, markers, worldVars>>

Crash ==
  /\ pc # "down" /\ crashes < MaxCrashes
  /\ crashes' = crashes + 1
  /\ Die
  /\ UNCHANGED configs

-----------------------------------------------------------------------------
(* serve_once(): accept, refresh the lifecycle, run the operation          *)

\* The lifecycle is refreshed on behalf of request r.
Refresh(r) ==
  /\ req' = r
  /\ pc' = "retire"
  /\ arrived' = now
  /\ UNCHANGED <<now, grantVars, sessionVars, rowVars, diskVars, worldVars,
                 cur, todo, back, seen, scope, ownVars, crashes>>

\* accept() times out: the lifecycle is refreshed for its own sake.
AcceptTimesOut == pc = "idle" /\ Refresh(Tick)

\* A client of the same user connects.  Others are turned away unread.
Accept ==
  /\ pc = "idle"
  /\ Goto("receive")
  /\ UNCHANGED <<now, grantVars, sessionVars, rowVars, diskVars, worldVars,
                 scope, ownVars, crashes>>

\* Its request is read.  The supply of session identifiers is a bound: none is
\* asked for when all are used.
Receive(r) ==
  /\ pc = "receive" /\ r # Tick
  /\ r.op = "sopen" => \E s \in Sessions : sstate[s] = None
  /\ Refresh(r)

\* The connection is closed with the daemon; a peer that is gone by then has
\* nobody to write to, and the BrokenPipeError ends the daemon.
Part == \/ /\ pc' = "idle" /\ Forget
           /\ UNCHANGED <<now, grantVars, sessionVars, rowVars, diskVars, worldVars,
                          scope, ownVars, crashes>>
        \/ Die /\ UNCHANGED <<configs, crashes>>

\* The frame ends early or is malformed: an error is written, nothing refreshed.
HangUp == pc = "receive" /\ Part

\* The answer to the request is written; a frame fits in the socket's buffer.
Answer == pc = "answer" /\ Part

\* retire_expired_sessions(): one transaction over every expired grant.
Retire ==
  /\ pc = "retire"
  /\ sstate' = [s \in Sessions |->
                  IF s \in Active /\ Expiry[sgrant[s]] <= now THEN "expired"
                                                            ELSE sstate[s]]
  /\ Goto("list")
  /\ UNCHANGED <<now, grantVars, sgrant, rowVars, diskVars, worldVars,
                 scope, ownVars, crashes>>

\* enforce_grant_lifecycle() reads the clock and the list of rows ...
EnforceList ==
  /\ pc = "list"
  /\ pc' = "enforce"
  /\ seen' = now
  /\ todo' = Rows
  /\ UNCHANGED <<now, grantVars, sessionVars, rowVars, diskVars, worldVars,
                 req, cur, back, arrived, scope, ownVars, crashes>>

\* close() of a row that is not closed, up to its first wait.
BeginClose(p) ==
  /\ mstate' = [mstate EXCEPT ![p] = "draining"]
  /\ pc' = "close_drain" /\ cur' = p
  /\ back' = IF pc = "exec" THEN "idle" ELSE pc
  /\ arrived' = IF pc = "exec" THEN 0 ELSE arrived

\* ... and visits the rows one by one; close() returns a closed one as it is.
Enforce(p) ==
  /\ pc = "enforce" /\ p \in todo
  /\ todo' = todo \ {p}
  /\ IF Dead(GrantOf(p), seen) /\ mstate[p] # "closed"
     THEN BeginClose(p)
     ELSE UNCHANGED <<pc, mstate, cur, back, arrived>>
  /\ UNCHANGED <<now, grantVars, sessionVars, msess, pidKnown, warned, diskVars,
                 worldVars, req, seen, scope, ownVars, crashes>>

\* The end of _refresh_lifecycle(): rebind the listing session.
Refreshed ==
  /\ pc = "enforce" /\ todo = {}
  /\ scope' = BoundScope
  /\ IF req = Tick THEN Finish
                   ELSE /\ pc' = "exec" /\ seen' = 0
                        /\ UNCHANGED <<req, cur, todo, back, arrived>>
  /\ UNCHANGED <<now, grantVars, sessionVars, rowVars, diskVars, worldVars,
                 ownVars, crashes>>

\* An AstralError becomes an error response and changes nothing.
Refuse ==
  /\ Finish
  /\ UNCHANGED <<now, grantVars, sessionVars, rowVars, diskVars, worldVars,
                 scope, ownVars, crashes>>

-----------------------------------------------------------------------------
(* Grants and sessions                                                     *)

\* grant.import: the host is enrolled; a revoked or stored grant is refused.
ImportGrant ==
  /\ pc = "exec" /\ req.op = "import"
  /\ IF req.grant \in revoked \cup stored
     THEN Refuse
     ELSE /\ stored' = stored \cup {req.grant}
          /\ Finish
          /\ UNCHANGED <<now, revoked, sessionVars, rowVars, diskVars,
                         worldVars, scope, ownVars, crashes>>

MayRevoke(g) == g \in stored

\* grant.revoke: the daemon passes no remote callback, so both transactions
\* leave remote_state "pending" and the first decides.
RevokeGrant ==
  /\ pc = "exec" /\ req.op = "revoke"
  /\ IF ~MayRevoke(req.grant)
     THEN Refuse
     ELSE /\ revoked' = revoked \cup {req.grant}
          /\ sstate' = [s \in Sessions |->
                          IF s \in Active /\ sgrant[s] = req.grant
                          THEN "revoked" ELSE sstate[s]]
          /\ Finish
          /\ UNCHANGED <<now, stored, sgrant, rowVars, diskVars, worldVars,
                         scope, ownVars, crashes>>

\* Mutant of MayOpenSession: the active session is not looked for.
MayOpenSecondSession(g) == g \in stored /\ InWindow(g) /\ g \notin revoked

MayOpenSession(g) ==
  g \in stored /\ InWindow(g) /\ g \notin revoked /\ Active = {}

OpenSession ==
  /\ pc = "exec" /\ req.op = "sopen"
  /\ IF ~MayOpenSession(req.grant)
     THEN Refuse
     ELSE \E s \in Sessions :
            /\ sstate[s] = None
            /\ sstate' = [sstate EXCEPT ![s] = "active"]
            /\ sgrant' = [sgrant EXCEPT ![s] = req.grant]
            /\ Finish
            /\ UNCHANGED <<now, grantVars, rowVars, diskVars, worldVars,
                           scope, ownVars, crashes>>

\* The mounts session.close has to close.
SessionMounts(s) ==
  {p \in Rows : msess[p] = s /\ mstate[p] \notin {"closed", "failed"}}

\* session.close, the loop over the session's mounts ...
CloseSession ==
  /\ pc = "exec" /\ req.op = "sclose"
  /\ todo' = SessionMounts(req.session)
  /\ pc' = "sclose" /\ arrived' = 0
  /\ UNCHANGED <<now, grantVars, sessionVars, rowVars, diskVars, worldVars,
                 req, cur, back, seen, scope, ownVars, crashes>>

CloseSessionMount(p) ==
  /\ pc = "sclose" /\ p \in todo
  /\ todo' = todo \ {p}
  /\ BeginClose(p)
  /\ UNCHANGED <<now, grantVars, sessionVars, msess, pidKnown, warned, diskVars,
                 worldVars, req, seen, scope, ownVars, crashes>>

\* ... and then close_session(), which finds the session active or fails.
CloseSessionRow ==
  /\ pc = "sclose" /\ todo = {}
  /\ IF req.session \notin Active
     THEN Refuse
     ELSE /\ sstate' = [sstate EXCEPT ![req.session] = "closed"]
          /\ Finish
          /\ UNCHANGED <<now, grantVars, sgrant, rowVars, diskVars, worldVars,
                         scope, ownVars, crashes>>

\* ls: the scope bound by this request's refresh is the listing authority.  The
\* listing is one run of rclone over a transport of its own, both over when the
\* handler returns, whichever way they ended; only audit events stay of it.
List ==
  /\ pc = "exec" /\ req.op = "ls"
  /\ Refuse

-----------------------------------------------------------------------------
(* mount.open                                                              *)

MayOpenMount(p, s) ==
  /\ s # None
  /\ sgrant[s] \notin revoked
  /\ InWindow(sgrant[s])
  /\ p \notin attached

\* create_mount_runtime(): the row of p begins, for session s.
NewRow(p, s) ==
  /\ mstate' = [mstate EXCEPT ![p] = "creating"]
  /\ msess' = [msess EXCEPT ![p] = s]

\* Checks, private files, the row.  A path that has a row violates UNIQUE:
\* sqlite3.IntegrityError is no AstralError, open() raises it again after
\* _fail() found nothing to fail, nothing catches it and the daemon exits.
OpenMount ==
  /\ pc = "exec" /\ req.op = "mopen"
  /\ LET p == req.path
         s == SoleActive
     IN  \/ /\ ~MayOpenMount(p, s)
            /\ Refuse
         \/ /\ MayOpenMount(p, s) /\ p \in Rows
            /\ Die
            /\ configs' = configs \cup {p}
            /\ UNCHANGED crashes
         \/ /\ MayOpenMount(p, s) /\ p \notin Rows
            /\ NewRow(p, s)
            /\ configs' = configs \cup {p}
            /\ pc' = "open_spawn" /\ cur' = p /\ arrived' = 0
            /\ UNCHANGED <<now, grantVars, sessionVars, pidKnown, warned,
                           markers, worldVars, req, todo, back, seen,
                           scope, ownVars, crashes>>

\* The private transport is served and rclone is started.
OpenSpawn ==
  /\ pc = "open_spawn"
  /\ transports' = transports \cup {cur}
  /\ tracked' = tracked \cup {cur}
  /\ running' = running \cup {cur}
  /\ starting' = starting \cup {cur}
  /\ Goto("open_pid")
  /\ UNCHANGED <<now, grantVars, sessionVars, rowVars, diskVars, attached,
                 dirty, scope, crashes>>

OpenPid ==
  /\ pc = "open_pid"
  /\ pidKnown' = pidKnown \cup {cur}
  /\ Goto("open_wait")
  /\ UNCHANGED <<now, grantVars, sessionVars, mstate, msess, warned, diskVars,
                 worldVars, scope, ownVars, crashes>>

\* _wait_ready() saw the mount, the row becomes ready.
OpenReady ==
  /\ pc = "open_wait"
  /\ cur \in running /\ cur \in attached
  /\ mstate' = [mstate EXCEPT ![cur] = "ready"]
  /\ Goto("open_marker")
  /\ UNCHANGED <<now, grantVars, sessionVars, msess, pidKnown, warned, diskVars,
                 worldVars, scope, ownVars, crashes>>

OpenMarker ==
  /\ pc = "open_marker"
  /\ markers' = markers \cup {cur}
  /\ Finish
  /\ UNCHANGED <<now, grantVars, sessionVars, rowVars, configs, worldVars,
                 scope, ownVars, crashes>>

\* Mutant of CloseTransport: the transport is kept.
KeepTransport == UNCHANGED transports
\* _close_transport() of the mount at hand.
CloseTransport == transports' = transports \ {cur}

\* The except clause, reached from any step after the row exists: rclone is
\* killed (its mount goes with it, or stays behind dead), the transport is
\* closed, the row is failed.  Config and cache stay on disk.
OpenFail ==
  /\ pc \in OpenSteps
  /\ Kill(cur)
  /\ attached' \in {attached, attached \ {cur}}
  /\ tracked' = tracked \ {cur}
  /\ CloseTransport
  /\ mstate' = [mstate EXCEPT ![cur] = "failed"]
  /\ pidKnown' = pidKnown \ {cur}
  /\ Finish
  /\ UNCHANGED <<now, grantVars, sessionVars, msess, warned, diskVars,
                 dirty, scope, crashes>>

-----------------------------------------------------------------------------
(* mount.close, mount.show and the close() the loops call                  *)

\* mount.close of an unknown mount is an error, of a closed one a no-op.
CloseMount ==
  /\ pc = "exec" /\ req.op = "mclose"
  /\ IF req.path \notin Rows \/ mstate[req.path] = "closed"
     THEN Refuse
     ELSE /\ BeginClose(req.path)
          /\ UNCHANGED <<now, grantVars, sessionVars, msess, pidKnown, warned,
                         diskVars, worldVars, req, todo, seen, scope, ownVars,
                         crashes>>

\* mount.show is health(): it closes a dead grant's mount and fails a ready
\* row whose process or mount disappeared.
ShowMount ==
  /\ pc = "exec" /\ req.op = "mshow"
  /\ LET p == req.path
         gone == mstate[p] = "ready" /\ (~Alive(p) \/ p \notin attached)
     IN  \/ /\ p \notin Rows \/ mstate[p] = "closed"
            /\ Refuse
         \/ /\ p \in Rows /\ mstate[p] # "closed" /\ Dead(GrantOf(p), now)
            /\ BeginClose(p)
            /\ UNCHANGED <<now, grantVars, sessionVars, msess, pidKnown, warned,
                           diskVars, worldVars, req, todo, seen, scope, ownVars,
                           crashes>>
         \/ /\ p \in Rows /\ mstate[p] # "closed" /\ ~Dead(GrantOf(p), now)
            /\ mstate' = IF gone THEN [mstate EXCEPT ![p] = "failed"] ELSE mstate
            /\ Finish
            /\ UNCHANGED <<now, grantVars, sessionVars, msess, pidKnown, warned,
                           diskVars, worldVars, scope, ownVars, crashes>>

\* _wait_for_vfs_uploads() returned: rclone answered and its queue is empty.
CloseDrained ==
  /\ pc = "close_drain"
  /\ cur \in running /\ cur \notin dirty
  /\ Goto("close_unmount")
  /\ UNCHANGED <<now, grantVars, sessionVars, rowVars, diskVars, worldVars,
                 scope, ownVars, crashes>>

\* The flush or the unmount failed: the row stays draining, with a warning.
CloseGivesUp ==
  /\ pc \in {"close_drain", "close_unmount"}
  /\ warned' = warned \cup {cur}
  /\ Return
  /\ UNCHANGED <<now, grantVars, sessionVars, mstate, msess, pidKnown, diskVars,
                 worldVars, scope, ownVars, crashes>>

CloseUnmount ==
  /\ pc = "close_unmount"
  /\ attached' = attached \ {cur}
  /\ Goto("close_stop")
  /\ UNCHANGED <<now, grantVars, sessionVars, rowVars, diskVars, running,
                 starting, dirty, scope, ownVars, crashes>>

\* The process is waited for or terminated when close() has a handle or a
\* pid of it; the transport is closed and the marker removed.
CloseStop ==
  /\ pc = "close_stop"
  /\ IF cur \in tracked \cup pidKnown THEN Kill(cur)
                                      ELSE UNCHANGED <<running, starting>>
  /\ tracked' = tracked \ {cur}
  /\ CloseTransport
  /\ markers' = markers \ {cur}
  /\ Goto("close_commit")
  /\ UNCHANGED <<now, grantVars, sessionVars, rowVars, configs,
                 attached, dirty, scope, crashes>>

CloseCommit ==
  /\ pc = "close_commit"
  /\ mstate' = [mstate EXCEPT ![cur] = "closed"]
  /\ pidKnown' = pidKnown \ {cur}
  /\ warned' = warned \ {cur}
  /\ Goto("close_wipe")
  /\ UNCHANGED <<now, grantVars, sessionVars, msess, diskVars, worldVars, scope,
                 ownVars, crashes>>

CloseWipe ==
  /\ pc = "close_wipe"
  /\ Wipe(cur)
  /\ Return
  /\ UNCHANGED <<now, grantVars, sessionVars, rowVars, markers, running,
                 starting, attached, scope, ownVars, crashes>>

-----------------------------------------------------------------------------
(* The world: the clock, rclone, the kernel and the user                   *)

daemonVars == <<grantVars, sessionVars, rowVars, configs, markers,
                ctlVars, scope, ownVars, crashes>>

TimePasses ==
  /\ now < MaxTime
  /\ now' = now + 1
  /\ UNCHANGED <<daemonVars, worldVars>>

\* A started rclone mounts, whether or not a daemon still waits for it.
RcloneMounts(p) ==
  /\ p \in starting
  /\ attached' = attached \cup {p}
  /\ starting' = starting \ {p}
  /\ UNCHANGED <<now, daemonVars, running, dirty>>

\* rclone exits and takes its mount along, or dies and leaves it attached.
RcloneExits(p) ==
  /\ p \in running
  /\ Kill(p)
  /\ attached' \in {attached, attached \ {p}}
  /\ UNCHANGED <<now, daemonVars, dirty>>

UserUnmounts(p) ==
  /\ p \in attached
  /\ attached' = attached \ {p}
  /\ UNCHANGED <<now, daemonVars, running, starting, dirty>>

\* A write is accepted into the VFS cache.
Write(p) ==
  /\ p \in attached \cap running
  /\ dirty' = dirty \cup {p}
  /\ UNCHANGED <<now, daemonVars, running, starting, attached>>

\* The upload goes through the transport the daemon serves.
Upload(p) ==
  /\ p \in running \cap transports
  /\ dirty' = dirty \ {p}
  /\ UNCHANGED <<now, daemonVars, running, starting, attached>>

World ==
  \/ TimePasses
  \/ \E p \in Paths : \/ RcloneMounts(p)
                     \/ RcloneExits(p)
                     \/ UserUnmounts(p)
                     \/ Write(p)
                     \/ Upload(p)

-----------------------------------------------------------------------------
(* The steps of a live daemon, and those of its clients                     *)

RecoverStep == RecoverWipe \/ RecoverDone \/ \E p \in Paths : Recover(p)

RefreshStep == Retire \/ EnforceList \/ Refreshed \/ \E p \in Paths : Enforce(p)

SessionStep ==
  \/ OpenSession
  \/ CloseSession
  \/ CloseSessionRow
  \/ \E p \in Paths : CloseSessionMount(p)

OpenStep ==
  \/ OpenMount
  \/ OpenSpawn
  \/ OpenPid
  \/ OpenReady
  \/ OpenMarker
  \/ OpenFail

CloseStep ==
  \/ CloseMount
  \/ ShowMount
  \/ CloseDrained
  \/ CloseGivesUp
  \/ CloseUnmount
  \/ CloseStop
  \/ CloseCommit
  \/ CloseWipe

DaemonStep ==
  \/ RecoverStep
  \/ AcceptTimesOut
  \/ Answer
  \/ RefreshStep
  \/ ImportGrant
  \/ RevokeGrant
  \/ SessionStep
  \/ List
  \/ OpenStep
  \/ CloseStep

ClientStep == Accept \/ HangUp \/ \E r \in Requests : Receive(r)

Next == Start \/ Crash \/ DaemonStep \/ ClientStep \/ World

Spec == Init /\ [][Next]_vars

\* The thread looks whether a path is mounted: os.path.ismount() asks the rclone
\* of a mount there, without a timeout.
AsksMount ==
  \/ pc \in {"recover", "open_wait", "close_unmount"}
  \/ pc = "exec" /\ req.op \in {"mopen", "mshow"}

\* The daemon's thread keeps running: accept() returns at least once a second, and
\* of the waits in the other steps all but AsksMount have a timeout.  Clients and
\* rclone owe the daemon nothing.
FairSpec == Spec /\ WF_vars(DaemonStep /\ ~AsksMount)

-----------------------------------------------------------------------------
(* Types                                                                   *)

\* Every variable keeps its type.
TypeOK ==
  /\ now \in 0..MaxTime
  /\ stored \subseteq Grants /\ revoked \subseteq stored
  /\ sstate \in [Sessions -> SessionStates \cup {None}]
  /\ sgrant \in [Sessions -> Grants \cup {None}]
  /\ mstate \in [Paths -> MountStates \cup {None}]
  /\ msess \in [Paths -> Sessions \cup {None}]
  /\ pidKnown \subseteq Paths /\ warned \subseteq Paths
  /\ configs \subseteq Paths /\ markers \subseteq Paths
  /\ running \subseteq Paths /\ starting \subseteq running
  /\ attached \subseteq Paths /\ dirty \subseteq Paths
  /\ pc \in Steps
  /\ req \in Requests
  /\ cur \in Paths \cup {None}
  /\ todo \subseteq Paths
  /\ back \in {"idle", "enforce", "sclose"}
  /\ arrived \in 0..MaxTime /\ seen \in 0..MaxTime
  /\ scope \in Sessions \cup {None}
  /\ tracked \subseteq Paths /\ transports \subseteq Paths
  /\ crashes \in 0..MaxCrashes

-----------------------------------------------------------------------------
(* Safety                                                                  *)

\* One session at most is active, its grant is not revoked: what
\* active_listing_session() treats as impossible never happens, in whatever
\* order sessions are opened, closed, expired, revoked and the daemon dies.
SoleUnrevokedSession ==
  /\ \A s, t \in Active : s = t
  /\ \A s \in Active : sgrant[s] \in stored \ revoked

\* When an operation starts to run, no mount is served under a grant that was
\* revoked before or had expired when the request arrived, and every served
\* mount belongs to the session that is the listing scope.
\* (_refresh_lifecycle() before _response().)
RefreshedAuthority ==
  pc = "exec" =>
    /\ \A p \in Paths : mstate[p] = "ready" =>
         /\ msess[p] = scope
         /\ GrantOf(p) \notin revoked /\ arrived < Expiry[GrantOf(p)]
    /\ scope # None =>
         /\ sstate[scope] = "active"
         /\ sgrant[scope] \notin revoked /\ arrived < Expiry[sgrant[scope]]

\* session.close leaves no mount of the session in service, although close()
\* reports a failed flush without raising and may be interrupted.
EndedSessionsHoldNothing ==
  \A p \in Rows :
    sstate[msess[p]] = "closed" => mstate[p] \in {"draining", "failed", "closed"}

\* A row that says closed has no process handle, no transport, no marker and
\* no pid behind it; whoever asked for the close and wherever it was cut.
ClosedIsReleased ==
  \A p \in Paths :
    mstate[p] = "closed" => p \notin tracked \cup transports \cup markers \cup pidKnown

\* A daemon that serves owns what it calls ready: it holds the process and
\* the private transport.  A row in creating belongs to the open() in
\* progress.  What an earlier daemon left is neither (recover()).
ReadyIsOwned ==
  pc \notin {"down", "recover", "recover_wipe"} =>
    \A p \in Paths :
      /\ mstate[p] = "ready" => p \in tracked \cap transports
      /\ mstate[p] = "creating" => pc \in OpenSteps /\ p = cur

\* What a row says of its mount is true, whoever changed it last and wherever an
\* earlier daemon stopped.
RowsAreTrue == EndedSessionsHoldNothing /\ ClosedIsReleased /\ ReadyIsOwned

\* A closed mount stays closed and its row keeps its session: recover(),
\* health(), enforcement and a second close() leave it alone.
KeepsClosed ==
  \A p \in Paths : /\ mstate[p] = "closed" => mstate'[p] = "closed"
                   /\ p \in Rows => msess'[p] = msess[p]

ClosedIsFinal == [][KeepsClosed]_vars

-----------------------------------------------------------------------------
(* Liveness                                                                *)

\* Clients neither keep silent on an open connection for ever nor take up every
\* accept() with one that they break off.
ClientsSpeak == SF_vars(AcceptTimesOut \/ \E r \in Requests : Receive(r))

\* No mount leaves the daemon's stat of it unanswered for ever.
MountsAnswer == []<>(~AsksMount)

\* While clients and mounts behave, a live daemon takes every mount of a revoked
\* grant out of service, whatever it is asked meanwhile: serve_once() refreshes
\* before every operation and on every accept() timeout, and nowhere else.
RevokedIsRetired ==
  ClientsSpeak /\ MountsAnswer =>
    \A g \in Grants : \A p \in Paths :
      (pc # "down" /\ g \in revoked /\ mstate[p] = "ready" /\ GrantOf(p) = g)
        ~> (mstate[p] # "ready" \/ pc = "down")

-----------------------------------------------------------------------------
(* What the code's own words promise and the runs refute                   *)

\* "malformed frames do not crash": a frame cut short or refused leaves the
\* daemon serving.
MalformedFramesDoNotCrash == [][pc = "receive" => pc' # "down" \/ crashes' = crashes + 1]_vars

\* "Serve until process shutdown": no request ends the serving, only the death
\* of the process does.
ServesUntilShutdown ==
  [][pc = "exec" => pc' # "down" \/ crashes' = crashes + 1]_vars
=============================================================================
