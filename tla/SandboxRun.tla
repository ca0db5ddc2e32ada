----------------------------- MODULE SandboxRun ------------------------------
(***************************************************************************)
(* `aspr sandbox`: one command that obtains a session and remote views     *)
(* from the daemon, runs a workload over them behind a PTY, and takes       *)
(* everything down again.  Several such runs share one daemon, and one      *)
(* session when they name the same grant.                                   *)
(*                                                                         *)
(*   sandbox/command.py       run_sandbox, its inputs and its clean-up     *)
(*   sandbox/plan.py          RemoteBinding, LocalSandboxPlan              *)
(*   sandbox/runner.py        run_plan                                     *)
(*   sandbox/session_api.py   SessionApiServer                             *)
(*   approval/terminal.py     ApprovalController.run, _relay               *)
(*   daemon/client.py         DaemonClient.request                         *)
(*                                                                         *)
(* The daemon serves one request at a time, so a request is one step here; *)
(* MountDaemon has its inside.  session.open and mount.open, which leave    *)
(* something behind, are three: sent, served, answered.                     *)
(***************************************************************************)
EXTENDS Naturals, FiniteSets

CONSTANTS
  Runs,        \* sandbox commands
  Grants,      \* signed grants the daemon holds; every one covers every target
  Sessions,    \* session identifiers, each given once
  Exports,     \* [Grants -> Nat], the number of exports each grant signs
  MaxViews,    \* [Runs -> Nat], bound on the --remote options of each run
  MaxTroubles  \* bound on deaths, interrupts and failed mkdtemp calls together

ASSUME ConstantsAssumption ==
  /\ Exports \in [Grants -> Nat]
  /\ MaxViews \in [Runs -> Nat \ {0}]
  /\ MaxTroubles \in Nat
  /\ "none" \notin Grants
  /\ {"none", "refused", "ready"} \cap Sessions = {}

VARIABLES
  up,        \* the daemon answers
  sess,      \* sessions.state
  granted,   \* sessions.grant_id
  ready,     \* <<r, i>> whose mount, for the i-th remote of run r, is ready
  within,    \* within[r][i]: the session that mount was opened under
  attached,  \* <<r, i>> whose mount_path is a mountpoint
  pc,        \* where run r is
  grant,     \* grant r names, "none" for a run without remotes
  count,     \* number of remotes of r
  sid,       \* session_id
  owns,      \* owns_session
  n,         \* remotes r has asked the daemon for
  ids,       \* indices whose mount_id r has: mount_ids
  dirs,      \* indices whose mount_path exists, 0 for the socket directories
  home,      \* the projected home of r
  work,      \* the workload; "loose" when r will not wait for it any more
  due,       \* the request of r the daemon has not served yet
  answer,    \* its answer, not read yet
  bad,       \* the clean-up of r has met an error
  result,    \* how r ended
  troubles   \* for the bound

daemonVars == <<up, sess, granted, ready, within, attached>>
argVars    == <<grant, count>>
ownerVars  == <<sid, owns>>
mountVars  == <<n, ids>>
placeVars  == <<dirs, home>>
endVars    == <<bad, result>>
runVars    == <<pc, argVars, ownerVars, mountVars, placeVars, work, endVars>>
wireVars   == <<due, answer>>
vars == <<daemonVars, runVars, wireVars, troubles>>

None == "none"
Index == UNION {1 .. MaxViews[r] : r \in Runs}

Steps == {"idle", "list", "opening", "dirs", "home", "mount", "mounting", "fork", "run",
          "io", "reap", "clean", "closing", "ending", "done", "killed"}

\* What may stand on the command line of r, as far as it decides what is run.
Arguments(r) ==
  [option : Grants \cup {None},        \* --grant
   prefixes : SUBSET Grants,           \* GRANT: before the --remote sources
   remotes : 0 .. MaxViews[r],
   profile : BOOLEAN, homeRoot : BOOLEAN, writable : BOOLEAN]

-----------------------------------------------------------------------------
(* Arguments                                                               *)

\* The grant of --grant, else the one the remotes name.
GrantOf(a) == IF a.option = None /\ a.prefixes # {}
              THEN CHOOSE g \in a.prefixes : TRUE
              ELSE a.option

\* parse_arguments()
Parses(a) ==
  /\ Cardinality(a.prefixes) <= 1
  /\ Cardinality(a.prefixes) <= a.remotes
  /\ a.prefixes \subseteq {GrantOf(a)}
  /\ a.remotes > 0 => GrantOf(a) # None
  /\ a.profile = a.homeRoot
  /\ a.writable => a.profile

\* --grant without --remote means the grant's one export.
ShorthandFits(a) ==
  a.remotes = 0 /\ GrantOf(a) # None => Exports[GrantOf(a)] = 1

RemoteCount(a) == IF a.remotes = 0 /\ GrantOf(a) # None THEN 1 ELSE a.remotes

-----------------------------------------------------------------------------
Init ==
  /\ up = TRUE
  /\ sess = [s \in Sessions |-> None]
  /\ granted = [s \in Sessions |-> None]
  /\ ready = {}
  /\ within = [r \in Runs |-> [i \in Index |-> None]]
  /\ attached = {}
  /\ pc = [r \in Runs |-> "idle"]
  /\ grant = [r \in Runs |-> None]
  /\ count = [r \in Runs |-> 0]
  /\ sid = [r \in Runs |-> None]
  /\ owns = [r \in Runs |-> FALSE]
  /\ n = [r \in Runs |-> 0]
  /\ ids = [r \in Runs |-> {}]
  /\ dirs = [r \in Runs |-> {}]
  /\ home = [r \in Runs |-> None]
  /\ work = [r \in Runs |-> None]
  /\ due = [r \in Runs |-> None]
  /\ answer = [r \in Runs |-> None]
  /\ bad = [r \in Runs |-> FALSE]
  /\ result = [r \in Runs |-> None]
  /\ troubles = 0

Goto(r, step) == pc' = [pc EXCEPT ![r] = step]

Trouble == troubles < MaxTroubles /\ troubles' = troubles + 1

\* An exception before the try block, or out of the finally block.
Leave(r, how) == Goto(r, "done") /\ result' = [result EXCEPT ![r] = how]

\* An exception inside the try block.
Abandon(r, how) == Goto(r, "clean") /\ result' = [result EXCEPT ![r] = how]

Active == {s \in Sessions : sess[s] = "active"}

-----------------------------------------------------------------------------
(* The daemon, as its clients see it                                       *)

Under(s) == {p \in Runs \X Index : within[p[1]][p[2]] = s}

\* Closing a session closes its mounts; one that cannot be drained or
\* unmounted stays behind, attached.
EndSessionOf(s) ==
  /\ sess' = [sess EXCEPT ![s] = "ended"]
  /\ ready' = ready \ Under(s)
  /\ \E gone \in SUBSET (attached \cap Under(s)) : attached' = attached \ gone

\* Nobody waits for the answer to a run that was interrupted or killed.
Reply(r, value) ==
  answer' = IF pc[r] \in {"opening", "mounting"} THEN [answer EXCEPT ![r] = value]
                                                ELSE answer

\* session.open
ServeOpen(r) ==
  /\ up /\ due[r] = "open"
  /\ due' = [due EXCEPT ![r] = None]
  /\ \/ /\ Active # {}
        /\ Reply(r, "refused")
        /\ UNCHANGED <<sess, granted>>
     \/ /\ Active = {}
        /\ \E s \in Sessions :
             /\ sess[s] = None
             /\ sess' = [sess EXCEPT ![s] = "active"]
             /\ granted' = [granted EXCEPT ![s] = grant[r]]
             /\ Reply(r, s)
  /\ UNCHANGED <<up, ready, within, attached, runVars, troubles>>

\* mount.open names no session: the sole active one is taken.
\* A mount that cannot be made is failed, and may stay attached.
ServeMount(r) ==
  /\ up /\ due[r] = "mount"
  /\ due' = [due EXCEPT ![r] = None]
  /\ \/ /\ Active = {} \/ n[r] \notin dirs[r]
        /\ Reply(r, "refused")
        /\ UNCHANGED <<ready, within, attached>>
     \/ \E s \in Active :
          /\ n[r] \in dirs[r]
          /\ within' = [within EXCEPT ![r][n[r]] = s]
          /\ \/ /\ ready' = ready \cup {<<r, n[r]>>}
                /\ attached' = attached \cup {<<r, n[r]>>}
                /\ Reply(r, "ready")
             \/ /\ UNCHANGED ready
                /\ attached' \in {attached, attached \cup {<<r, n[r]>>}}
                /\ Reply(r, "refused")
  /\ UNCHANGED <<up, sess, granted, runVars, troubles>>

\* The daemon dies: the transports of its views die with it, a request that
\* waits for it fails, and so may one whose answer is on its way.
DaemonDies ==
  /\ up /\ Trouble
  /\ up' = FALSE
  /\ ready' = {}
  /\ due' = [r \in Runs |-> None]
  /\ \E cut \in SUBSET {r \in Runs : answer[r] # None} :
       answer' = [r \in Runs |->
         IF r \in cut \/ (due[r] # None /\ pc[r] \in {"opening", "mounting"})
         THEN "refused" ELSE answer[r]]
  /\ UNCHANGED <<sess, granted, within, attached, runVars>>

\* recover() fails the mounts it finds; an unmount may fail.
DaemonStarts ==
  /\ ~up
  /\ up' = TRUE
  /\ \E gone \in SUBSET attached : attached' = attached \ gone
  /\ UNCHANGED <<sess, granted, ready, within, runVars, wireVars, troubles>>

-----------------------------------------------------------------------------
(* Set-up                                                                  *)

\* _projected_home_inputs(), _host_rx_target() and the raw-socket rule: a
\* profile may be unreadable, or not allow what the command needs.
ProfileRefuses(r, a) == a.profile /\ Leave(r, "error")

\* The command line is parsed; bad arguments end the command here.
Begin(r, a) ==
  /\ pc[r] = "idle"
  /\ IF ~Parses(a)
     THEN Leave(r, "error") /\ UNCHANGED argVars
     ELSE /\ grant' = [grant EXCEPT ![r] = GrantOf(a)]
          /\ count' = [count EXCEPT ![r] = RemoteCount(a)]
          /\ \/ ProfileRefuses(r, a)
             \/ ~ShorthandFits(a) /\ Leave(r, "error")
             \/ /\ ShorthandFits(a)
                /\ Goto(r, IF GrantOf(a) = None THEN "dirs" ELSE "list")
                /\ UNCHANGED result
  /\ UNCHANGED <<daemonVars, ownerVars, mountVars, placeVars, work, bad,
                 wireVars, troubles>>

\* Mutant of Joins: the run counts the session it found as its own.
JoinsAsOwner(r, s) == sid' = [sid EXCEPT ![r] = s] /\ owns' = [owns EXCEPT ![r] = TRUE]

\* The run uses a session it did not open.
Joins(r, s) == sid' = [sid EXCEPT ![r] = s] /\ UNCHANGED owns

\* _ensure_session(), its first request: the active session is joined when it
\* is of the grant, and asked for when there is none.
ListSessions(r) ==
  /\ pc[r] = "list"
  /\ \/ /\ ~up \/ \E s \in Active : granted[s] # grant[r]
        /\ Leave(r, "error")
        /\ UNCHANGED <<ownerVars, due>>
     \/ /\ up
        /\ \E s \in Active : granted[s] = grant[r] /\ Joins(r, s)
        /\ Goto(r, "dirs")
        /\ UNCHANGED <<due, result>>
     \/ /\ up /\ Active = {}
        /\ due' = [due EXCEPT ![r] = "open"]
        /\ Goto(r, "opening")
        /\ UNCHANGED <<ownerVars, result>>
  /\ UNCHANGED <<daemonVars, argVars, mountVars, placeVars, work, bad,
                 answer, troubles>>

TakeSession(r) ==
  /\ pc[r] = "opening" /\ answer[r] # None
  /\ answer' = [answer EXCEPT ![r] = None]
  /\ IF answer[r] = "refused"
     THEN Leave(r, "error") /\ UNCHANGED ownerVars
     ELSE /\ sid' = [sid EXCEPT ![r] = answer[r]]
          /\ owns' = [owns EXCEPT ![r] = TRUE]
          /\ Goto(r, "dirs") /\ UNCHANGED result
  /\ UNCHANGED <<daemonVars, argVars, mountVars, placeVars, work, bad, due,
                 troubles>>

\* The socket directories are made before the try block: a failure leaves the
\* session of the run open.
MakeDirs(r) ==
  /\ pc[r] = "dirs"
  /\ \/ /\ dirs' = [dirs EXCEPT ![r] = {0}]
        /\ Goto(r, "home")
        /\ UNCHANGED <<result, troubles>>
     \/ /\ Trouble
        /\ Leave(r, "error") /\ UNCHANGED dirs
  /\ UNCHANGED <<daemonVars, argVars, ownerVars, mountVars, home, work, bad,
                 wireVars>>

\* _start_projected_home(), the capabilities, the host-rx manifest.  That a run
\* without a profile does without a home when FUSE is missing is left out.
StartHome(r) ==
  /\ pc[r] = "home"
  /\ \/ /\ home' = [home EXCEPT ![r] = "up"]
        /\ Goto(r, "mount") /\ UNCHANGED result
     \/ Abandon(r, "error") /\ UNCHANGED home
  /\ UNCHANGED <<daemonVars, argVars, ownerVars, mountVars, dirs, work, bad,
                 wireVars, troubles>>

\* One remote: its directory is made and recorded, then mount.open is sent.
SendMount(r) ==
  /\ pc[r] = "mount" /\ n[r] < count[r]
  /\ n' = [n EXCEPT ![r] = @ + 1]
  /\ dirs' = [dirs EXCEPT ![r] = @ \cup {n[r] + 1}]
  /\ IF up
     THEN /\ due' = [due EXCEPT ![r] = "mount"]
          /\ Goto(r, "mounting") /\ UNCHANGED result
     ELSE Abandon(r, "error") /\ UNCHANGED due
  /\ UNCHANGED <<daemonVars, argVars, ownerVars, ids, home, work, bad,
                 answer, troubles>>

\* mount_ids once the mount the daemon reports ready is added.
Known(r) == ids[r] \cup {n[r]}

TakeMount(r) ==
  /\ pc[r] = "mounting" /\ answer[r] # None
  /\ answer' = [answer EXCEPT ![r] = None]
  /\ IF answer[r] = "refused"
     THEN Abandon(r, "error") /\ UNCHANGED ids
     ELSE /\ ids' = [ids EXCEPT ![r] = Known(r)]
          /\ Goto(r, "mount") /\ UNCHANGED result
  /\ UNCHANGED <<daemonVars, argVars, ownerVars, n, placeVars, work, bad,
                 due, troubles>>

\* RemoteBinding and LocalSandboxPlan: every path is a mountpoint.  (Targets
\* that collide or nest, and what is too long, are refused as well.)
Bindable(r) ==
  /\ \A i \in 1 .. count[r] : <<r, i>> \in attached
  /\ home[r] # "lost"

\* The API serves, the plan is checked, the workload is started.
Launch(r) ==
  /\ pc[r] = "mount" /\ n[r] = count[r]
  /\ \/ /\ Bindable(r)
        /\ work' = [work EXCEPT ![r] = "alive"]
        /\ Goto(r, "fork") /\ UNCHANGED result
     \/ Abandon(r, "error") /\ UNCHANGED work
  /\ UNCHANGED <<daemonVars, argVars, ownerVars, mountVars, placeVars, bad,
                 wireVars, troubles>>

-----------------------------------------------------------------------------
(* The relay                                                               *)

\* _relay() has its selector and is in its try block; the launcher has read
\* the plan from the PTY.
EnterRelay(r) ==
  /\ pc[r] = "fork"
  /\ Goto(r, "run")
  /\ UNCHANGED <<daemonVars, argVars, ownerVars, mountVars, placeVars, work,
                 endVars, wireVars, troubles>>

\* health_check: every mount.show answers "ready" and the home is mounted.
Healthy(r) ==
  /\ ids[r] # {} => up
  /\ \A i \in ids[r] : <<r, i>> \in ready
  /\ home[r] # "lost"

\* The workload is signalled, or loses its terminal, and will be gone.
HangUp(r) == work' = [work EXCEPT ![r] = IF @ = "alive" THEN "dying" ELSE @]

\* The run leaves _relay() without the waitpid() of its finally block.
LetGo(r) == work' = [work EXCEPT ![r] = IF @ = "dead" THEN @ ELSE "loose"]

\* Mutant of TestHealth: only the daemon is looked at.
TestDaemon(r) == pc[r] = "run" /\ ~up

TestHealth(r) == pc[r] = "run" /\ ~Healthy(r)

\* SIGTERM and an exception.
RelayFails(r) ==
  /\ TestHealth(r)
  /\ HangUp(r)
  /\ Goto(r, "reap") /\ result' = [result EXCEPT ![r] = "error"]
  /\ UNCHANGED <<daemonVars, argVars, ownerVars, mountVars, placeVars, bad,
                 wireVars, troubles>>

RelayGoesOn(r) ==
  /\ pc[r] = "run" /\ ~TestHealth(r)
  /\ Goto(r, "io")
  /\ UNCHANGED <<daemonVars, argVars, ownerVars, mountVars, placeVars, work,
                 endVars, wireVars, troubles>>

\* The rest of one round of the loop: terminal and workload are read and
\* written, which lasts as long as they let it.  At the end of file from the
\* PTY the exit code is collected.
RelayTurns(r) ==
  /\ pc[r] = "io"
  /\ IF work[r] = "dead"
     THEN Goto(r, "reap") /\ result' = [result EXCEPT ![r] = "exit"]
     ELSE Goto(r, "run") /\ UNCHANGED result
  /\ UNCHANGED <<daemonVars, argVars, ownerVars, mountVars, placeVars, work,
                 bad, wireVars, troubles>>

\* The guard process died, or the PTY failed; or, before the try block, there
\* was no descriptor for the selector.
RelayBreaks(r) ==
  /\ Trouble
  /\ \/ /\ pc[r] \in {"run", "io"}
        /\ HangUp(r)
        /\ Goto(r, "reap") /\ result' = [result EXCEPT ![r] = "error"]
     \/ pc[r] = "fork" /\ LetGo(r) /\ Abandon(r, "error")
  /\ UNCHANGED <<daemonVars, argVars, ownerVars, mountVars, placeVars, bad,
                 wireVars>>

\* Mutant of Reaped: the process is not waited for.
ReapedUnseen(r) == pc[r] = "reap"

\* waitpid() of the finally block returns.
Reaped(r) == pc[r] = "reap" /\ work[r] \notin {"alive", "dying"}

Reap(r) ==
  /\ Reaped(r)
  /\ Goto(r, "clean")
  /\ UNCHANGED <<daemonVars, argVars, ownerVars, mountVars, placeVars, work,
                 endVars, wireVars, troubles>>

-----------------------------------------------------------------------------
(* Clean-up                                                                *)

CloseHome(r) == home' = [home EXCEPT ![r] = IF @ = None THEN None ELSE "closed"]

\* A run without remotes has its home and its directories to remove.
FinishLocal(r) ==
  /\ pc[r] = "clean" /\ grant[r] = None
  /\ CloseHome(r)
  /\ dirs' = [dirs EXCEPT ![r] = {}]
  /\ Goto(r, "done")
  /\ UNCHANGED <<daemonVars, argVars, ownerVars, mountVars, work, endVars,
                 wireVars, troubles>>

\* api.close() and projected.close(), before anything of the daemon's.
CloseApiAndHome(r) ==
  /\ pc[r] = "clean" /\ grant[r] # None
  /\ CloseHome(r)
  /\ Goto(r, "closing")
  /\ UNCHANGED <<daemonVars, argVars, ownerVars, mountVars, dirs, work, endVars,
                 wireVars, troubles>>

\* mount.close of one known mount: closed, or draining and still attached, or
\* an error.
CloseView(r) ==
  /\ pc[r] = "closing"
  /\ \E i \in ids[r] :
       /\ ids' = [ids EXCEPT ![r] = @ \ {i}]
       /\ \/ /\ up
             /\ ready' = ready \ {<<r, i>>}
             /\ attached' \in {attached, attached \ {<<r, i>>}}
             /\ UNCHANGED bad
          \/ /\ ~up
             /\ bad' = [bad EXCEPT ![r] = TRUE]
             /\ UNCHANGED <<ready, attached>>
  /\ UNCHANGED <<up, sess, granted, within, pc, argVars, ownerVars, n,
                 placeVars, work, result, wireVars, troubles>>

\* Mutant of StillMounted: the daemon's word is taken for it.
StillReady(r) == {i \in dirs[r] : <<r, i>> \in ready}

StillMounted(r) == {i \in dirs[r] : <<r, i>> \in attached}

\* A path that is still a mountpoint is kept and reported, the others go.
RemovePaths(r) ==
  /\ dirs' = [dirs EXCEPT ![r] = StillMounted(r) \cup {0}]
  /\ bad' = [bad EXCEPT ![r] = @ \/ StillMounted(r) # {}]

LeavePaths(r) ==
  /\ pc[r] = "closing" /\ ids[r] = {}
  /\ RemovePaths(r)
  /\ Goto(r, "ending")
  /\ UNCHANGED <<daemonVars, argVars, ownerVars, mountVars, home, work,
                 result, wireVars, troubles>>

\* The session is closed by the run that opened it, a failure is suppressed;
\* the socket directories go and the first error of the clean-up is raised.
Finish(r) ==
  /\ pc[r] = "ending"
  /\ IF owns[r] /\ up /\ sess[sid[r]] = "active"
     THEN EndSessionOf(sid[r])
     ELSE UNCHANGED <<sess, ready, attached>>
  /\ dirs' = [dirs EXCEPT ![r] = @ \ {0}]
  /\ result' = [result EXCEPT ![r] = IF bad[r] THEN "error" ELSE @]
  /\ Goto(r, "done")
  /\ UNCHANGED <<up, granted, within, argVars, ownerVars, mountVars, home,
                 work, bad, wireVars, troubles>>

-----------------------------------------------------------------------------
(* What happens to a run                                                   *)

\* KeyboardInterrupt: before the try block and in the clean-up it ends the
\* run there; in between it starts the clean-up.  The workload is waited for
\* when _relay()'s try block was interrupted, and not when its finally block
\* was, or what comes between the fork and the try.  A request that was sent
\* is served all the same.
Interrupt(r) ==
  /\ Trouble
  /\ \/ /\ pc[r] \in {"list", "opening", "dirs", "clean", "closing", "ending"}
        /\ Leave(r, "error") /\ UNCHANGED work
     \/ /\ pc[r] \in {"home", "mount", "mounting"}
        /\ Abandon(r, "error") /\ UNCHANGED work
     \/ /\ pc[r] \in {"run", "io"}
        /\ Goto(r, "reap") /\ result' = [result EXCEPT ![r] = "error"]
        /\ HangUp(r)
     \/ pc[r] \in {"fork", "reap"} /\ LetGo(r) /\ Abandon(r, "error")
  /\ answer' = [answer EXCEPT ![r] = None]
  /\ UNCHANGED <<daemonVars, argVars, ownerVars, mountVars, placeVars, bad,
                 due>>

\* The process of the run is killed: the PTY hangs up, nothing is cleaned.
Killed(r) ==
  /\ pc[r] \notin {"idle", "done", "killed"} /\ Trouble
  /\ Goto(r, "killed")
  /\ HangUp(r)
  /\ answer' = [answer EXCEPT ![r] = None]
  /\ UNCHANGED <<daemonVars, argVars, ownerVars, mountVars, placeVars,
                 endVars, due>>

WorkExits(r) ==
  /\ work[r] \in {"alive", "loose"}
  /\ work' = [work EXCEPT ![r] = "dead"]
  /\ UNCHANGED <<daemonVars, pc, argVars, ownerVars, mountVars, placeVars,
                 endVars, wireVars, troubles>>

\* The signal reaches bubblewrap, and the sandbox dies with it.  The PTY of a
\* run that is gone hangs up, if it was not closed before.
WorkDies(r) ==
  /\ \/ work[r] = "dying"
     \/ work[r] = "loose" /\ pc[r] \in {"done", "killed"}
  /\ work' = [work EXCEPT ![r] = "dead"]
  /\ UNCHANGED <<daemonVars, pc, argVars, ownerVars, mountVars, placeVars,
                 endVars, wireVars, troubles>>

HomeDies(r) ==
  /\ home[r] = "up" /\ Trouble
  /\ home' = [home EXCEPT ![r] = "lost"]
  /\ UNCHANGED <<daemonVars, pc, argVars, ownerVars, mountVars, dirs, work,
                 endVars, wireVars>>

\* CloseOwnSession, asked for by the workload.
ApiCloses(r) ==
  /\ \/ work[r] = "alive"
     \/ work[r] = "loose" /\ pc[r] = "clean"
  /\ sid[r] # None
  /\ up /\ sess[sid[r]] = "active"
  /\ EndSessionOf(sid[r])
  /\ UNCHANGED <<up, granted, within, runVars, wireVars, troubles>>

\* Expiry, revocation, or session.close from another shell.
SessionEnds(s) ==
  /\ up /\ sess[s] = "active"
  /\ EndSessionOf(s)
  /\ UNCHANGED <<up, granted, within, runVars, wireVars, troubles>>

\* The rclone of a view dies; its mountpoint goes or stays.
ViewDies(r, i) ==
  /\ <<r, i>> \in ready /\ Trouble
  /\ ready' = ready \ {<<r, i>>}
  /\ attached' \in {attached, attached \ {<<r, i>>}}
  /\ UNCHANGED <<up, sess, granted, within, runVars, wireVars>>

-----------------------------------------------------------------------------
RunStep(r) ==
  \/ ListSessions(r)
  \/ TakeSession(r)
  \/ MakeDirs(r)
  \/ StartHome(r)
  \/ SendMount(r)
  \/ TakeMount(r)
  \/ Launch(r)
  \/ RelayFails(r)
  \/ RelayGoesOn(r)
  \/ Reap(r)
  \/ FinishLocal(r)
  \/ CloseApiAndHome(r)
  \/ CloseView(r)
  \/ LeavePaths(r)
  \/ Finish(r)

DaemonStep ==
  \/ DaemonDies
  \/ DaemonStarts
  \/ \E r \in Runs : ServeOpen(r) \/ ServeMount(r)
  \/ \E s \in Sessions : SessionEnds(s)

WorldStep(r) ==
  \/ \E a \in Arguments(r) : Begin(r, a)
  \/ EnterRelay(r)
  \/ RelayTurns(r)
  \/ RelayBreaks(r)
  \/ Interrupt(r)
  \/ Killed(r)
  \/ WorkExits(r)
  \/ WorkDies(r)
  \/ HomeDies(r)
  \/ ApiCloses(r)
  \/ \E i \in Index : ViewDies(r, i)

Next == DaemonStep \/ \E r \in Runs : RunStep(r) \/ WorldStep(r)

Spec == Init /\ [][Next]_vars

\* Where r waits for an answer of the daemon.  DaemonClient.request() has no
\* timeout, and the daemon, which serves one connection at a time, none for a
\* client that says nothing.
Awaits(r) ==
  /\ up
  /\ \/ pc[r] = "list"
     \/ pc[r] \in {"opening", "mounting"} /\ answer[r] = None
     \/ pc[r] \in {"run", "closing"} /\ ids[r] # {}
     \/ pc[r] = "ending" /\ owns[r]

\* A run goes on with its program where it does not wait for the daemon, and a
\* signalled process dies.
FairRuns ==
  \A r \in Runs : /\ WF_vars(RunStep(r) /\ ~Awaits(r))
                  /\ WF_vars(WorkDies(r))

FairSpec == Spec /\ FairRuns

\* Whoever reads the terminal, and the workload, go on reading.
DrainedSpec == FairSpec /\ \A r \in Runs : WF_vars(RelayTurns(r))

-----------------------------------------------------------------------------
(* Properties                                                              *)

TypeOK ==
  /\ up \in BOOLEAN
  /\ sess \in [Sessions -> {None, "active", "ended"}]
  /\ granted \in [Sessions -> Grants \cup {None}]
  /\ ready \subseteq Runs \X Index
  /\ within \in [Runs -> [Index -> Sessions \cup {None}]]
  /\ attached \subseteq Runs \X Index
  /\ pc \in [Runs -> Steps]
  /\ grant \in [Runs -> Grants \cup {None}]
  /\ count \in [Runs -> Index \cup {0}]
  /\ sid \in [Runs -> Sessions \cup {None}]
  /\ owns \in [Runs -> BOOLEAN]
  /\ n \in [Runs -> Index \cup {0}]
  /\ ids \in [Runs -> SUBSET Index]
  /\ dirs \in [Runs -> SUBSET (Index \cup {0})]
  /\ home \in [Runs -> {None, "up", "lost", "closed"}]
  /\ work \in [Runs -> {None, "alive", "dying", "loose", "dead"}]
  /\ due \in [Runs -> {None, "open", "mount"}]
  /\ answer \in [Runs -> {None, "refused", "ready"} \cup Sessions]
  /\ bad \in [Runs -> BOOLEAN]
  /\ result \in [Runs -> {None, "exit", "error"}]
  /\ troubles \in 0 .. MaxTroubles

Working(r) == work[r] \in {"alive", "dying"}

\* The clean-up of a run does not work under its workload: while the workload
\* lives, its mountpoints, its sockets and its home are there and all its
\* mounts are known (the order of _relay()'s and run_sandbox()'s finally).  It
\* does not hold of a workload that an interrupt at the wrong moment let loose.
CleanUpWaitsForWork ==
  \A r \in Runs : Working(r) =>
    /\ pc[r] \in {"fork", "run", "io", "reap", "killed"}
    /\ home[r] # "closed"
    /\ pc[r] # "killed" => ids[r] = 1 .. count[r] /\ dirs[r] = 0 .. count[r]

\* "sandbox child must not outlive daemon-owned remote authority"
\* (sandbox/runner.py:181): the clean-up of a run, which takes the views away,
\* finds no workload alive.
ChildDoesNotOutlive ==
  \A r \in Runs : pc[r] \in {"closing", "ending"} => work[r] \in {None, "dead"}

\* A run that ends with its workload's exit code has left nothing mounted and
\* no directory behind; otherwise it ends with an error.
ExitMeansClean ==
  \A r \in Runs : pc[r] = "done" /\ result[r] = "exit" =>
    /\ dirs[r] = {}
    /\ \A i \in Index : <<r, i>> \notin ready /\ <<r, i>> \notin attached

\* A path is given up only when nothing is mounted on it, whatever happened
\* to the run: the view that stays attached can still be found.
AttachedPathsAreKept ==
  \A p \in attached : p[2] \in dirs[p[1]]

\* What is mounted can be found: by the run that cleans up, and by a person when
\* the run gives up.
MountsAreFound == TypeOK /\ ExitMeansClean /\ AttachedPathsAreKept

\* The end of a run does not end the session another run opened and still
\* uses (owns_session).
GuestsLeaveSessionsAlone ==
  [][\A r, q \in Runs :
       r # q /\ pc[r] = "ending" /\ pc'[r] = "done" /\ owns[q]
       /\ pc[q] \notin {"done", "killed"} /\ sess[sid[q]] = "active"
       => sess'[sid[q]] = "active"]_vars

\* Each request of a run is answered in the end.
DaemonAnswers == \A r \in Runs : []<>(~Awaits(r))

\* Once a view of a run, its home or the daemon is lost, the workload is ended
\* and the run cleans up, as long as the daemon answers or is gone: the health
\* check asks it.  It needs a terminal that is read: the loop tests health
\* between blocking reads and writes.
LostRunsEnd ==
  DaemonAnswers => \A r \in Runs :
    pc[r] \in {"run", "io"} /\ ~Healthy(r)
      ~> pc[r] \in {"done", "killed"} /\ work[r] \in {None, "dead"}

\* "remote loss terminates sandbox by default"
\* (docs/architecture/plain-english/astral-project-implementation-plain-english.md:1204),
\* whatever the daemon is busy with.
LossEndsWork ==
  \A r \in Runs :
    pc[r] \in {"run", "io"} /\ ~Healthy(r) ~> work[r] \in {None, "dead"}
==============================================================================
