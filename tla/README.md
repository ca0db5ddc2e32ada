# Astral Project in TLA+

Astral Project runs a program in a sandbox on one machine and gives it, through signed grants, chosen
directories of another.  This directory models the parts of it that keep state, checks them with TLC on
small instances, and proves the main properties of ten of them with TLAPS for every instance.  Paths
below are relative to `src/src/astral_project/` unless they start with `src/`.

1. [Inventory](#1-inventory): the system's parts, their state, and what makes them correct
2. [Modules](#2-modules): which module models what, and how it corresponds to the code
3. [Runs](#3-runs): what TLC checks, in which bounds, under which fairness
4. [Disagreements](#4-disagreements): where the code does not do what is said of it
5. [Proofs](#5-proofs): what is proved, from what, and along which argument
6. [Not modelled](#6-not-modelled), and [7. Plan](#7-plan)

## 1. Inventory

### The local machine

**Control daemon** (`daemon/server.py`, `daemon/protocol.py`, `state/sqlite.py`).  One thread accepts one
connection at a time, and waits for what a client sends without a timeout.  State: SQLite tables of grants, revocations, sessions and mount rows, and the
listing scope in memory.  Operations: import and revoke a grant, open and close a session, list remote
directories, open, close and show mounts.  Before every operation, and every second, it retires expired
and revoked sessions, closes their mounts and rebinds the scope.  *Hard:* the daemon can die between any
two durable steps; time passes inside an operation; a close can give up halfway; clients are silent, or leave
before their answer.  *Correct when:* one session is active at most; no operation runs under a stale scope or past a revocation; what rows say of
a mount agrees with what the daemon holds.

**State database** (`state/sqlite.py`).  The daemon and the commands that read the state open it, each of
which creates, checks and migrates it.  *Hard:* several openers of several releases at once, outside
transactions, any of which may be killed, while others write rows; a destructive migration takes a backup
first, under no lock.  *Correct when:* the schema is what its history says, no killed opener is an obstacle
to the next, and the backup has the schema before the migration and the rows of its time.

**Mount manager** (`mounts/lifecycle.py`).  Called by the daemon's thread.  State: the mount rows, and by
path an rclone process, a private transport, an authority marker, a configuration and a cache.  *Hard:*
rclone, the mount table and the cache live on when the daemon dies; users unmount; a flush can fail.
*Correct when:* a closed row has nothing behind it and is never opened again; a ready one is owned.

**Transport relay** (`transport/local.py`, `rclone/listing.py`, `sftp/client.py`).  rclone starts a
wrapper that relays its standard files to a socket of the daemon, whose connection threads relay that
socket to an ssh process.  State: three pipes each way, four threads.  *Hard:* every copy blocks when the
next pipe is full; ends travel as half-closes; a descriptor is closed by one thread under another.
*Correct when:* it is a channel: order, no loss, no early end.

**Projected home** (`homed/`).  A FUSE process shows a sandboxed program a home directory whose paths a
profile routes: to the real home read-only, to private storage, to an overlay, or to a question.
- *Routing, inode and handle tables* (`homed/fuse.py`, `homed/composite.py`, `homed/core.py`).  *Hard:*
  the kernel's lookup counts and the daemon's must agree over every kind of request.
- *Private storage* (`homed/private.py`): a tree with a quota.  *Hard:* all daemons of a profile share it,
  and each kernel appends where it last saw a file's end.
- *Mediation* (`homed/mediation.py`, `approval/protocol.py`, `approval/terminal.py`): a file operation on
  an unknown path waits in a thread until an operator at the terminal, or an approval client, decides.
  State: a bounded table of pending requests that concurrent operations share, and the paths allowed
  before.  *Hard:* decisions race timeouts, cancellation and clients that stop waiting; operators see
  requests that end behind their backs.  *Correct when:* the table holds exactly what is waited on, a
  decision reaches only what was shown, and the learner's draft is what was allowed.
- *Overlay* (`homed/overlay.py`): writes go to an upper tree with whiteout markers for what was deleted
  and a journal of intents.  *Hard:* every operation is several steps on disk, any of which can fail or
  be the last; sessions of one profile share the tree.  *Correct when:* the merged view is what a plain
  directory would show, a crash undoes or completes, and recovery harms nothing else.

**Profile store** (`profile_lifecycle.py`, `profile.py`, `learner.py`).  One file per profile; commands
in separate processes create, import, edit, learn, seal, unseal and archive it, under a flock held only
while they save.  *Hard:* an editor or a learning run works for minutes on what it read.  *Correct when:*
revisions advance by one, a sealed profile is frozen, no rule is lost that its author did not see.

**Sandbox command** (`sandbox/command.py`, `sandbox/runner.py`, `approval/terminal.py`,
`sandbox/session_api.py`).  One process obtains a session and mounts from the daemon, starts a home, runs a
workload behind a terminal and takes all of it down.  *Hard:* runs share a session; views, homes and the
daemon die under a workload; replies are lost or do not come; users interrupt; the clean-up fails halfway.  *Correct when:* the workload
does not outlive its authority, nothing is left mounted that nobody can find, no run ends another's session.

**Audit log** (`audit/events.py`, and tables of `state/sqlite.py`).  Chained events in a rotated file with
a retention, or in a table; prunings are recorded as boundaries.  *Hard:* processes append at once and may
be killed between any two system calls.  *Correct when:* the chain is whole and losses are bounded.

**Grant lifecycle** (`grants/lifecycle.py`, `crypto/grants.py`, and `grant.import` of `daemon/server.py`).
Creates and renews signed grants; a person is asked about a renewal only if it is wider.  Grants signed
elsewhere are imported, or come with a session, and nobody is asked.  *Correct when:* no chain of renewals
goes beyond what a person said yes to or what was brought in signed.

**Host enrollment** (`host/`), **runtime closure** (`runtime/`) and the **command line** (`cli.py`).

### The remote machine

**Forced SSH entry** (`server/entry.py`, `server/broker_bridge.py`): one process per SSH channel verifies
a signed request, hands its stream to the root broker, answers, and relays.

**Root broker** (`broker/server.py`, `broker/registry.py`, `session/broker.py`): one request thread, a
replay ledger and a session registry in memory, and a supervising thread per worker.  Socket-activated; a
broker that dies by an exception unlinks the path of systemd's socket, and only connections made before
start it again.  *Hard:* registry, supervising threads, hangups, expiry and the broker's own death
interleave; a session identifier is used again; the child that pins sources is waited for without a timeout.
*Correct when:* every live worker is supervised, no two answer one request, expired and abandoned ones end,
every request is answered or dropped once pinning ends.

**Ceiling, planner, source mapping and worker launch** (`session/ceiling.py`, `namespace/planner.py`,
`server/path_resolver.py`, `broker/sources.py`, `broker/launch.py`, `broker/executor.py`,
`broker/mapping.py`, `src/packaging/native/aspr-mount-worker.c`).  A grant within the ceiling becomes a
plan; a child under the user's identity pins the sources; the broker clones them, seals the plan and
starts a worker whose descriptors have fixed numbers; the worker checks both and mounts.  *Hard:* the user
moves the sources meanwhile, any call may fail with many descriptors open, fixed numbers may be taken,
process identifiers come again.  *Correct when:* what is served is what was signed, and nothing is left.

### How they interact

rclone, started by the mount manager, runs a wrapper that asks the daemon's transport socket for a stream;
the daemon opens it with ssh, the forced entry passes it to the broker, the broker to an SFTP worker.
Revocation reaches the remote side only by the daemon closing mounts.  The learner is a mediation observer
whose draft the profile store commits when the sandboxed command has ended.  The FUSE process calls the
overlay and the private tree under their locks and the mediator from worker threads.  The sandbox command
is a client of the daemon and the parent of home, workload and session API.

## 2. Modules

| Module | Models | A step is | Composition |
|---|---|---|---|
| `MountDaemon` | daemon thread, database rows, mount manager; rclone, kernel mounts and users as environment | one durable or outwardly visible effect of the daemon's thread | manager and daemon are one module: they share a thread and the rows |
| `StateSchema` | opening the database: file, tables, history, migrations, backups | one SQL statement or file operation of one opener | openers of several releases |
| `RemoteSession` | forced entries, bridge, broker thread, ledger, registry, supervising threads, workers | one action of one process or thread, up to where another can see it | all remote processes together |
| `GrantLifecycle` | `create()`, `renew()`, import, activation, the comparison, the store | one call | composed by `Authority` |
| `GrantPlan` | ceiling, planner loop, matching of plan and exports | pure operators | used by `WorkerLaunch` |
| `WorkerLaunch` | resolving child, pinned and cloned sources, descriptor table, fork, handshake, staging, the worker's checks and mounts | one call that can fail, or one process's doing in between | composed by `Authority` |
| `Authority` | grants made, imported and renewed while workers are launched for them | a step of either | `GrantLifecycle` and `WorkerLaunch` |
| `Relay` | wrapper, daemon threads, pipes, client and remote | one read, write or close of one thread | implements `Channel` |
| `Channel` | what a relay promises | one message sent or delivered | abstract specification |
| `SandboxRun` | sandbox commands, the daemon's answers, views, homes, workloads | one call, request or relay turn of one run | runs sharing a daemon and its sessions |
| `Mediation` | client, request table, approval server threads, operators, learner's draft | one critical section under the mediator's lock, or one message | both ends of the approval protocol |
| `ProfileStore` | profile file, flock, the commands | one system call's effect on file or lock | store and learner commit |
| `ProfileDecision` | rules, their precedence and validation | pure operators | used by `ProjectedHome` |
| `ProjectedHome` | requests of the kernel, routing, inode and handle tables, private and overlay tree | one request, or the part of it that is not interrupted | a daemon, its kernel and another daemon |
| `Overlay` | upper tree, markers, journal, failure handlers, recovery, sessions | one system call or journal write | one shared tree, many sessions |
| `AuditLog` | both audit stores: append, rotate, retention, boundaries, recorder | one system call of one process | processes sharing a log |

`MC<Module>` instantiates a module for TLC, `<Module>Proofs` holds its theorems; those of `ProjectedHome` and
`Mediation` are in `HomeProofs`, those of the modules `Authority` composes in `AuthorityProofs`, those of `StateSchema`
and `AuditLog` (whose local events are tables of that database) in `StateProofs`, those of `ProfileStore` and `Overlay`
(the file and the tree that belong to a profile) in `ProfileProofs` and, for crashes of the overlay,
`OverlayCrashProofs`, those of `Relay` and `RemoteSession` (the two ends of a stream) in `RelayProofs`.  Every module names its bounds; comments on each action name the function.  The definitions whose comment begins with "Mutant"
are plausible bugs; nothing uses them but the list of mutants in `PROJECT.json`.

**MountDaemon.**  `pc`, `cur`, `todo` and `back` stand for the place of the daemon's thread: `Accept` takes a
connection, `Receive` reads its request or `HangUp` its early end, then come the refresh (`Retire`,
`EnforceList`, `Enforce`, `Refreshed`), one operation, and `Answer`, which a client that has left turns into
the daemon's death (`Part`).  A connection may stay at `receive` for ever: `Receive` and `HangUp` are the client's.
`close()` is `BeginClose`, `CloseDrained` or `CloseGivesUp`, `CloseUnmount`, `CloseStop`, `CloseCommit`,
`CloseWipe`, and is called from three places (`back`).  `mount_path` is UNIQUE and rows are never deleted, so
a mount is its path.  `Crash` clears what lives in memory and leaves rows, files, processes and mounts;
`Start`, `Recover`, `RecoverWipe` are `recover()`.  rclone, users and uploads are `World`.

**StateSchema.**  `at` is the next statement of each opener, `db` what is committed, `staged` what the one
transaction in progress would commit.  A release is the number of migrations it ships.  `alone` is a
history variable for "meets no other".  A database has, next to its tables and history, the number of
transactions that have put rows in (`WriteRows`, by any process that is through), and `copy` is what an
opener has copied and not yet put in the backup's place.

**RemoteSession.**  `entry`, `queue` and `stage` follow one request through the socket to the broker's single
thread (`issue`, `consume`, `start`, `register`, `reply`).  `owner` is the registry; `watch` records which
worker each supervising thread looks after, because the registry removes by identifier.  An exception that
escapes the request thread, and a stream descriptor closed twice, end the broker (`Die`): systemd kills its
control group with it and the ledger is gone.  So is the socket's path (`bound`), until an administrator
restarts the unit (`Rebind`); an entry that asks meanwhile is refused.

**GrantLifecycle, GrantPlan, WorkerLaunch, Authority.**  A signed grant is its signed fields; encodings and
signatures are left out.  The validator may answer any canonical grant.  Two history variables say where authority
comes from: `authorised` has the grants a person said yes to, `outside` those that came in signed, by
`grant.import`, with a session, or in the hand of a caller of `renew()`, which looks nothing up.
`Vouched` is both.  The planner's loop (`PlanFrom`) is compared with a reference
(`PlanIsCanonical`).  `fds` is the broker's descriptor table, filled the way the kernel does; `Installed`
carries out the worker's moves on it one by one.  `Rename` and `Replace` are the remote user; an object has
an inode and a kind, and the worker sees nothing else of it, so a look-alike of the same inode and kind on
another file system is told apart only by the fitness test of the resolver (`Unfit`).

**Relay.**  `pipe[p]` has its data and whether each end is open; `pc` is the place of each thread and `chunk`
what it has read and not yet written.  Chunk 0 is the daemon's frame that says the stream is ready.

**SandboxRun.**  `pc[r]` follows `run_sandbox()`: session, directories, home, views, launch, relay, and the
two nested `finally` blocks.  A request to the daemon is sent, served and answered (`due`, `answer`), so
that the run or the daemon may die in between, or the answer not come (`Awaits`).  What the daemon does
inside is `MountDaemon`'s; here a request has its outcome.  A workload is `loose` when an interrupt or an
error has taken its run out of `_relay()` without the `waitpid()` of its `finally` block: in that block,
or between the fork and the `try`.

**Mediation.**  Requests have the numbers `_next_request` gives them; `live` is the table and the coalescing
index, which change together.  Ages replace a clock: a request becomes due, later leaves the rate window.
Results that differ only in an error number are one.  `shown` is what an operator has on the screen.

**ProfileStore.**  `present` tells a file that is being written by `create` (`torn`) from a whole one.  A
command has read `base` and is about to save `draft`; `Lock` is the flock with the check of the revision
under it and `Replace` the atomic replacement.  Rules are atoms with a conflict relation, which is all of
`validate_profile()` that the properties need.  A birth number, kept for the properties only, tells a
profile from an archived one of the same name.

**ProjectedHome, ProfileDecision.**  `table` has the composite's nodes with their counts, `known` the
kernel's.  A path is a sequence of names; a rule decides by `Decider`, the sort of `Profile.decision`.
`readdir()` and `create()` are interrupted by other requests, the others are one step.  `Peer` is another
daemon changing the private tree.  `ends` is where the kernel believes each inode to end; a write by a handle
with `O_APPEND` is checked there and lands at the file's end (`AppendIn`).

**Overlay.**  An operation is a plan (`CreatePlan`, `CopyUp`, `MkdirPlan`, `RemovePlan`, `RenamePlan`) whose
steps are taken one by one; since everything runs under the flock the plan can be fixed at its start.
`write()` and `truncate()` by a descriptor take the lock of the process only, so one may come in the midst of
an operation of the other session; `Write` is taken when no operation is under way, which makes no
difference: no step reads what an upper file holds, so it could as well have come before that operation.
`pending` is the journal as `_recover()` folds it.  `Fail` raises at any step and does what the
operation's handler does, every part of which can fail too; `Crash` stops a session anywhere, in a replay
as well.  A start replays record by record (`Replay`, `Redo`) and, like the code, resolves none.  Whether
an abort is written depends in the code on the journal's whole history; since writing it can fail anyway,
the model takes either.  `goal`, `allowed` and `calm` are history variables.

**AuditLog.**  `files` has the active file and its generations as rows (events, or lines that do not parse),
`marks` the boundary file, `holder` the flock.  The digest chain is the identifier of the row before, which
is what equal digests mean.  A behaviour is of one surface: the file, where each system call is a step, or
the table, where a transaction is.

## 3. Runs

| Run | Instance | States | Question |
|---|---|---|---|
| `mounts` | 1 grant that ends, 2 sessions, 1 path, clock 0..1, 1 crash | 1.41 M | requests, clients that break off, time and a crash in any order: sole session, fresh authority, true rows; a revoked grant's ready mount leaves service if clients speak and mounts answer |
| `broker` | 3 channels, 1 session identifier, 2 nonces, clock 0..1 | 49 k | supervision, distinct workers, order of ready and registration; three liveness properties, one of them if pinning ends |
| `mediation` | 3 operations on 2 keys, one a credential; terminal and 1 client; table of 1, window of 2 | 589 k | table and bound, what was allowed, decisions; liveness of callers |
| `profile` | 2 commands, 3 rules of which 2 conflict, revisions up to 3, 2 creations | 587 k | seal; revisions and unseen rules |
| `overlay` | 2 sessions; a directory with a file, a free name that can become either; 1 stale record | 267 k | exact results, all-or-nothing crashes, locality, nothing buried |
| `audit` | 2 processes, 2 generations, retention 2, with a size limit of 2 lines and without; 6 events, 2 interruptions | 659 k | chain, order of links, bounded losses |
| `home` | a private and an overlay subtree, a host file; quota of 1 block and 2 files; 2 inodes, 1 handle | 393 k | quota of each step, lookup counts, routing |
| `relay` | pipes of 1 chunk, 8 requests, 7 of them ahead | 165 k | refinement of `Channel`, descriptors, drain after half-close |
| `sandbox` | 2 runs, one with two views; 1 grant, 1 session, 1 trouble | 507 k | order of clean-up, findable mounts, others' sessions; lost runs end if the daemon answers |
| `authority` | 6 grants, 1 of them foreign, 2 stored; 3 sources, 1 look-alike; 2 process identifiers, 2 requests; a plan with a second long target is too long | 462 k | silent widening over renewals and imports, what is served, descriptors, plans, availability in calm |
| `schema` | 3 openers of 2 releases, the second migration destructive, 2 deaths, 1 transaction of rows | 703 k | schema and history, success and completeness of opens, backups |
| `mounts_serve` | 1 grant, 1 session, 1 path, no crash | – | a disagreement, see [section 4](#4-disagreements) |

Beside these, eight configurations state what the code does not keep: `mounts_frames`, `broker_heard`, `mediation_live`,
`home_quota`, `sandbox_child`, `sandbox_loss`, `schema_rows` and `schema_late`, of the module of the run with the same first
word.  Section 4 says what each finds.  They are not part of the regular runs: `tlc -config mediation_live.cfg MCMediation`
ends in a counterexample, as each does within two minutes.  `mediation_shared` is one that passes (718 k states): `AllowedWasDecided`, where
two operations share the credential.

**Why the bounds are enough.**  Every interesting case needs few actors.  In `mounts` two sessions give one
opened while another expires, with a mount in any state; that a second mount changes nothing is proved:
the three invariants hold for any grants, sessions and paths.  A third channel is needed in `broker` for an
identifier used again by a request that is not the retry.  A table of one place is full when one operation
waits; three operations give a joiner and a refused one, and a window of two is passed by the third.  Two
commands and three revisions give every overlap of one stale command with saves between its read and its
own.  In the overlay one stale record before an operation gives every pair of a record and a later
operation on the same names; the directory can be copied up, deleted, renamed and made again, its file as
well, and as a copy-up adds its own records a replay works on up to three.  Six audit events fill two
generations and pass the retention twice, so that boundaries follow each other; two interruptions give one
during the repair of another.  In `home` a third block, file or inode is the first one too many.  With seven
requests ahead all pipes of `relay` are full at once.  Two runs give an owner and a guest of one session;
the trouble is any one of a death of the daemon, a view or a home, an interrupt, a kill and a failed call;
each case is about one of them, and what two together do is covered by the proofs, which hold for any number.
The grants of `authority` are one within the ceiling, a narrower renewal with a long target, a wider one,
one with nested targets, one above a forbidden root and one whose target only the worker reserves; the
worker's bound on a plan is 4096 bytes in place of 65536, and two entries with the long one in place of some
60.  Two of them can be stored and one comes from elsewhere, stored or not,
which gives a chain of two renewals that starts from a grant nobody stored.  In `schema` one transaction of
rows tells a copy taken before it from one taken after it.  In `home` a file of two blocks is one that a
stale append can take beyond a quota of one.

**Views and symmetry.**  `home` has the view `LiveState`, which leaves out the size of objects that neither a
name nor a handle to write by leads to, and the kernel's idea of the end of an inode that no handle appends to
and none can be opened for: both are set anew before they are read.  `home`, `authority`, `schema`, `overlay` and
`profile` use symmetry of interchangeable actors or names and state no liveness.

**Fairness.**  `mounts`: weak fairness of the daemon's own steps whose waits have a timeout (`FairSpec`):
`accept()` returns every second.  Two kinds of wait have none, and no fairness is assumed there: reading an
accepted connection (`receive()` of `daemon/protocol.py`), and `os.path.ismount()` of a mount whose rclone
does not answer (`AsksMount`).  `RevokedIsRetired` has as premises that these end again and again
(`ClientsSpeak`, `MountsAnswer`): a silent client of the same user, or a hung rclone, does stop refresh and
retirement for ever.  There is none of `Start` either, as no unit restarts the daemon, and the property lets the daemon be
down.  `broker`: weak fairness of the request thread where its waits have a timeout (systemd starts the broker
when a connection waits), of entries that relay, of supervising threads, and of a worker that sees its input
end; none of clients, of `Rebind`, and of pinning (`PinStep`), where `recvmsg()` and `waitpid()` wait as long as the
child takes.  That requests end has `PinningEnds` as its premise; that workers and abandoned sessions end
does not need it, since other threads see to it.  `mediation`: weak fairness of the threads that
serve connections and of time; none of operators, of clients that give up, or of the command's end.
`relay`: weak fairness of the four threads, of the remote, and of a client that goes on reading; none of
its requests, its end or any fault.  `sandbox`: weak fairness of each run's steps where it does not wait
for the daemon, and of a killed workload dying (`FairRuns`); a request to the daemon has no timeout, and
`LostRunsEnd` has as a premise that each is answered (`DaemonAnswers`).  It also needs the relay's turns to end
(`DrainedSpec`), that is, a terminal that is read and a workload that reads: the loop tests health between
blocking calls.  Without either assumption the property is false; `sandbox_loss` shows the first case.  The other modules claim no liveness.

**Deadlock** is checked in `mounts`, `overlay` and `schema`, `authority`.  The other systems stop when
their channels, operations, events or bounded revisions are used up.

**What the properties leave open.**  `ProfileStore` excludes the save of an editor whose profile was archived
and made anew meanwhile (`Outdated`): revisions start again, so the code cannot tell.  In `Overlay` an
operation is judged (`goal`) except: removing a directory that is not empty, making one where a deleted one
was, and renaming one merged of both trees.  In these the code loses or revives children: `rmdir` of a
directory that is only in the lower tree does not look inside, `mkdir` removes the marker that hid the old
children, and `rename` moves only the children copied before.  `CrashIsAllOrNothing` allows for the deleted
file that shows again when a crash follows the removal of its marker.  `CalmIsServed` excludes the grants
with an export that is listed twice, those with a target only the worker reserves, and those whose plan is
longer than the 65536 bytes the worker takes, which neither ceiling nor planner bounds (`Servable`).
`QuotaHolds` is about steps: none takes the private tree beyond its quota but an append that the kernel placed
before the file's end (`home_quota`).  `CleanUpWaitsForWork` leaves out a workload that an interrupt let loose
(`sandbox_child`).  `BackupPrecedes` allows the backup to miss rows (`schema_rows`).  `NoSilentWidening` and
`ServedIsVouchedFor` take the word of whoever signed an imported grant, since the code does.
`HomeIsSound` is checked for subtrees without rules of their own inside them; see the next section.
`OpensSucceed` speaks of opens that meet a private file and no other opener.

## 4. Disagreements

In nine TLC refutes what is said.  The first is a run, the others are the configurations of that name:

| Configuration | What the code does | What is said |
|---|---|---|
| `mounts_serve` | `mount.open` on a path that ever held a mount ends the daemon: the row is unique and the exception not caught (`mounts/lifecycle.py:168`) | "Serve until process shutdown", `daemon/server.py:470` |
| `mounts_frames` | a client that breaks off within a frame and leaves ends the daemon: the error is written to it and `BrokenPipeError` is not caught (`daemon/server.py:508`) | "malformed frames do not crash", `src/docs/architecture/plain-english/astral-project-final-architecture.md:2518` |
| `broker_heard` | a broker that dies by an exception unlinks the path systemd listens on; no later channel is heard (`broker/server.py:246`) | "The service may remain inactive until the first socket connection", `src/docs/15-continuation.md:1123` |
| `mediation_live` | an operation on a credential that arrives between the decision and the last waiter's departure joins the decided request and is let in (`homed/mediation.py:180`) | "Credential-sensitive access always needs live strong approval", `src/docs/profile-learning.md:51` |
| `home_quota` | an append is checked at the offset the kernel gave and written at the file's real end; after another daemon made the file longer it takes the tree beyond its quota, and no home of the profile starts again (`homed/private.py:380`, `:123`) | "quota-bounded", `src/docs/evidence/packet-30-32-acceptance.md:16` |
| `sandbox_child` | an interrupt in the `waitpid()` of `_relay()`'s `finally`, or between the fork and the `try`, leads to the clean-up with the workload alive (`approval/terminal.py:276`) | "sandbox child must not outlive daemon-owned remote authority", `sandbox/runner.py:181` |
| `sandbox_loss` | the health check waits for the daemon without a timeout; meanwhile a loss ends nothing (`daemon/client.py:39`) | "remote loss terminates sandbox by default", `src/docs/architecture/plain-english/astral-project-implementation-plain-english.md:1204` |
| `schema_rows` | rows committed between the copy and `BEGIN IMMEDIATE` are in no backup (`state/sqlite.py:1288`) | "backup-before-destructive-migration", `src/docs/architecture/plain-english/astral-project-implementation-plain-english.md:362` |
| `schema_late` | an opener that counted its migrations before another one migrated puts a copy of the migrated database in the good backup's place (`state/sqlite.py:1287`) | `src/tests/unit/test_state_sqlite.py:265` |

Others were met while modelling.  The models have these behaviours and their properties are worded around
them:

| Where | What the code does | What is said |
|---|---|---|
| `mounts/lifecycle.py:340` | a start deletes the cache of a mount left draining with a flush warning | `src/docs/packet-23-24-handoff.md:70` |
| `broker/server.py:167`, `:240` | an entry that dies before its answer, or a launch that fails late, ends the broker and its replay ledger; the same nonce is accepted again | `src/docs/15-continuation.md:343` |
| `profile_lifecycle.py:148` | a learning run commits a draft into an edited profile without validating it; the result may not load | `src/docs/user/local-use.md:52` |
| `homed/overlay.py:1312` | an unfinished record is replayed at every start, over what was made under its name since | `src/docs/architecture/adr/ADR-0018-overlay-metadata-and-whiteout-format.md:17` |
| `audit/events.py:571` | the log is pruned before the boundary is recorded; a crash in between leaves a pruning nothing records | `src/docs/architecture/adr/ADR-0026-audit-and-hardening-boundaries.md:11` |
| `homed/private.py:461` | renaming a directory carries files past the rules that decide about their new paths | `src/docs/architecture/plain-english/astral-project-final-architecture.md:1717` |
| `transport/local.py:430` | when the remote ends first, a socket is closed that another thread waits on, which does not end the stream for the wrapper | `src/docs/architecture/plain-english/astral-project-implementation-plain-english.md:943` |
| `sandbox/command.py:387` | `mount.open` names no session: views may be made under another grant's session than the run's | `src/docs/architecture/plain-english/astral-project-final-architecture.md:1222` |
| `broker/sources.py:181` | an export listed twice is merged by the planner and refused by the resolver | `src/docs/architecture/plain-english/astral-project-final-architecture.md:828` |

Nothing is said about these, which the models have too: a failed mount whose rclone is gone stays draining,
as its queue can never be proven empty; an rclone started just before a crash is unknown to the next daemon;
a silent client stops the daemon's refresh; `renew()` renews a grant that nobody stored; a grant within the
ceiling may have a plan the worker rejects for its length; a profile file whose creator was killed neither loads nor can be archived; a deleted file shows
again when a crash follows the removal of its whiteout; the database file of an opener killed between
`connect` and `chmod` is refused by all later ones; an opener between whose two reads another one commits
the first migration reports a corrupt database; when both directions of a relay are full and the wrapper
dies, `ProcessStream.close()` waits for a write that waits for the process it has not ended yet.

## 5. Proofs

All theorems are for any sets of identifiers and any bounds; the assumptions on the constants are the
`...Assumption` of each module (types, reserved values, finite callers), checked by TLC in every run.

**MountDaemonProofs.**  `Inductive` proves `Invariant`, from which type correctness, `SoleUnrevokedSession`,
`RowsAreTrue`, `RefreshedAuthority` and `ClosedIsFinal` follow.  The invariant adds to the checked ones what
the thread has done so far: `ControlOK` ties `cur`, `todo` and `pc` to the rows; `OwnershipOK` says which of
a mount's resources exist at each step of `open()` and `close()`, and that `recover()` still has every
stale row before it; `EndedOK` that `session.close` has still to visit what is in service; `AuthorityOK`
follows the refresh: sessions retired by the time the request arrived, then mounts under dead grants closed
or still to come, then the scope.  Each part has one lemma with a case per action.

**HomeProofs, on `ProjectedHome`.**  All three properties of `home`, for any paths, rules and bounds.
`HomeIInv` has a part for the trees (`Stored`, `Sound`), for the tables (`Tables`), for handles (`Handling`)
and for the request between whose two steps others run (`Underway`: the node `create()` has made is counted
once more than the kernel knows, so that no step of others can drop it).
- *Trees* are well formed when each node has its directories.  A rename is the hard case
  (`RenamedIsWellFormed`): new names are made by cutting off one prefix and putting on another, so no two
  nodes get one name (`ToIsInjective`), and what is above a new name is above the target or is itself the new
  name of something (`AboveTo`).
- *The quota* is a sum over files that the model, like `_scan_usage()`, computes by going through them.
  That it grows by what a write adds and by no more (`TotalGrows`) is an induction.  `QuotaAlwaysHolds` says of
  every step that it stays within the quota or within what was used before, unless it is an append placed
  before the file's end: all other writes, also appends the kernel placed rightly (`AppendIsSound`), are checked
  for what they add.  A bound on the sum itself is not an invariant (`home_quota`).  The number of files is.  The library's induction
  theorem takes a predicate as a parameter; `Induction` takes a set instead, and follows from the
  well-founded ordering of finite sets, which the library states without one.
- *Routing* needs that the sort of `decision()` puts a rule first (`BestExists`) and that, below a path with
  a writable rule, the same rule decides (`FlatRoutes`).  The latter is false where a rule lies inside a
  writable one: `HomeIsAlwaysSound` assumes `FlatRules`, and without it the property fails as section 4 says.
  The other two theorems assume nothing of the rules.

**HomeProofs, on `Mediation`.**  All safety properties.  Added: a waiter waits on a request for its own key, an
operation with a positive answer has no thread at work, and a number once shown keeps its key.  The bound
uses the library's facts on cardinality.

**ProfileProofs, on `ProfileStore`.**  Both action properties and types.  Added: the holder of the lock has read the
current revision (`Held`); a torn file has one creator (`Creating`); what an editor shows is a past of the
file, and within one creation an equal revision means an equal profile (`Snapshot`).  The last is why a
check of a number under the lock protects rules.

**ProfileProofs, on `Overlay`.**  `AlwaysSound` (`TreesAreSound`), for any names of which there are finitely many, any
lower tree that is one, any contents, sessions and bound.  The steps of the code look at little before they act:
a copy is written to a directory that an earlier step of the same operation made, under a name whose marker
an earlier step removed.  So neither half of `TreesAreSound` is inductive, and `OverlayIInv` is about the
steps that are still to be taken (`OverlayIsPlanned`):
- `Plans`: in an operation each node to be made has its directories by then, in the tree or made before it
  (`Ready`), and no marker (`Unmarks`); `mkdir` ends with its directory (`MakesLast`), what is marked is
  gone by then and nothing but the commit follows (`MarksLast`), and a record is committed once, after its
  begin (`Paired`).  A replay needs the first only.  The two names of a rename do not contain each other
  (`Apart`), also in every record of the journal.
- `Recorded`: an intent whose commit is still to come (`Unfinished`) is in the journal.  This is what a
  failure or a crash relies on.
- `Unburied`: with nothing in the journal but such intents, each once (`Clean`), no marker hides a node.  After
  a crash or a failure whose abort was not written the journal is not clean, and nothing is promised until it
  is.  The code keeps no more: a start resolves no record, so a later one replays it over what has been made since,
  and a whiteout that is replayed so marks a directory that is there again.

The proof has three parts.  *Trees:* each change an operation makes leaves a tree (`ParentsAreTree`,
`PutIsTree`, `RemoveTreeIsTree`, `MoveIsTree`; a rename moves a subtree name by name, and `RebaseKeepsOrder` says that
what is above stays above).  *Going on:* after a step the rest of the plan is `Planned` for the tree the step made
(`ReadyGoesOn`, ...), so a step only has to keep directories or be one of those that close a plan.
*Starting:* an operation's plan is built from the empty one by adding steps that fit (`Grows`), or by putting a
marker's removal before it (`ClearGrows`).  A copy of a directory copies what is below it, and `CopyUp` is
recursive over the children: by induction on how many names are below a name (`CopyUpCopies`) its plan makes each
directory before what is in it and begins and commits each name once.  That `CopyUp` satisfies its recursive
definition is proved too (`CopyUpExists`), from the same measure.  TLC has checked `OverlayIInv` in every state of
the run `overlay`.

`AlwaysLocal` (`ChangesStayLocal`).  The steps of an operation touch other names than its own: they copy up
the directories above, and all a copied directory has.  The invariant `NearIInv` says that what is left to do
is near the names of the last record (`Near`): elsewhere a directory is made only where the view has one, a
file is put only where the upper tree has none or the same, and a failed copy-up takes away only copies.  Two
trees that differ outside those names only in copies (`Alike`) give the same view there (`ViewStays`), and
nothing inside is above what is outside (`ZoneIsClosed`).  So each step is a lemma (`StepIsAlike`,
`FailIsAlike`; `ReplayIsLocal` for a replay, which has its one record to go by), and each plan is near its names
from the start, again by induction for `CopyUp` (`CopiedUpIsNear`).  TLC has checked `NearIInv` in every
state of the run as well.

`AlwaysExact` (`CompletesExactly`).  What an operation promises is about all of its steps, and the property speaks of
the last one only.  `Takes` says what a step of the plan makes of the upper tree and its markers, `Leads` what a
list of steps does, and `Promise` is that wherever the steps still to be taken lead, the view there is the goal.
A step that succeeds is what `Takes` says (`StepTakes`, where `OverlayIInv` rules out a missing directory), so
the promise is kept from one step to the next (`NextKeepsPromise`); with one step left it is the property
(`LastFulfils`).  The promise is made when the plan is, once per kind of operation (`CreateFulfils`,
`MkdirFulfils`, `RemoveFulfils`, `CopyFulfils`, `RenameFulfils`): the copy-up and the parents leave the view as it is,
and what follows changes it as asked (of a rename, where `Rename` sets a goal: section 3).  For it this needs that a copied-up directory holds all that was
seen in it, since only the upper tree is moved and the lower one is hidden by the marker: `CopyUpExact` says that a
copy-up makes the lower tree's part with nothing missing and nothing added, by induction on how many names
are below.

**OverlayCrashProofs.**  `AlwaysAllOrNothing` (`CrashIsAllOrNothing`): an operation that is cut off at any step,
with a journal that was clean before, is undone or completed by the next start that returns, for any names,
lower tree, sessions and bound.  The property compares the view such a start reaches, perhaps after starts
that were themselves cut off in their replay, with the views before and after the operation, so the
invariant, `Recoverable`, has to speak of every prefix of a plan followed by every prefix of a replay.  It knows
two cases:
- `Untouched`: so far there are only directories that are seen anyway and copies, and perhaps a marker is
  cleared.  The journal has copy-ups only; to discard them changes nothing that is seen (`OnlyCopies`).  What
  is left of the plan is `Quiet` in the same way up to the begin of its one record, and that record will fit
  the tree it is begun on (`Outlook`).
- `InHand`: the journal has that one record.  `Redone` says where a replay of it leads from a given tree, and
  `Safe` that wherever that is, the view is one a start may find.  A step of the work (`GoesStep`) or of a
  replay (`RemainsStep`) only narrows what is `Redone` from then on, so `Safe` survives each of them, also when
  the replay is cut off and begun again.

Between the two lies the begin of the record, where `Safe` has to be made: a replay of a record of which nothing
has been done leads back, or to where the rest of the plan leads (`WorkIsRedone`), and that is the goal by
`Promise`.  Each kind of operation has a lemma that its plan starts out this way (`Cautious`).  The
property says nothing of an operation that begins on a journal that is not clean, of one that has no goal
(section 3), or after a failure handler has run.  TLC has checked `Recoverable` on small instances.

**AuthorityProofs.**  `NothingWidensSilently` (`NoSilentWidening`): in every behaviour of the lifecycle and of
`Authority`, for any set of proposals and of foreign grants, a stored grant is covered by one that is
`Vouched` for.  "Covered by" is transitive, and an unwidened renewal is covered by what it renews, which is
stored or was brought by its caller; this is why comparing with the grant renewed is enough, and all that
comparison can show.  `NothingElseIsServed` is the end
to end property, `ServedIsVouchedFor`.  Its invariant follows the authority from hand to hand: what is
served is a stored grant (`Granted`) within the ceiling (`Admitted`), what has been pinned are entries of
the plan that a signed export matches (`Pinning`), and a worker has such a grant and such entries and, when
it serves, the inodes and kinds its check compared (`Workers`).  It needs nothing of the planner: whatever
`BuildPlan` computes, the broker looks each planned export up in the signed grant, and the worker checks
each descriptor it was given, so neither a wrong plan nor a wrong descriptor widens what is served.

That all of the grant is served over the right channels (`SignedIsServed`: `ServesWhatWasSigned`), and that
nothing stays open (`NothingIsLeftOpen`: `IdleHoldsNothing`), follow from a second invariant, `LaunchInv`.
It takes stock of the broker's descriptor table: at each step the table holds what the broker keeps (its own
files and each worker's log) and what the request has open there (`Holding`), workers belong to different
requests (`Numbered`), and each has its channels at their numbers and an entry for every export of its grant
(`Equipped`).  Three results about operators carry it, for every table, layout and grant: `OpenAllHolds` (the
kernel finds a free number and opening loses nothing), `InstalledHolds` (whatever numbers the files had, the
two loops of `_install_worker_fds()` bring each to its destination and overwrite none that is still to come;
it needs the layout's destinations to be apart, which is where the limit of 64 sources comes in), and
`PlanCovers` (a plan that repeats no target, has a signed entry in each place and is as long as the grant
leaves no export out).  They are inductions, which are done here by hand: the set of the indices where the
statement holds contains 0 and is closed under adding one (`Counted`).  TLC has checked `LaunchInv` in every
state of the run `authority`.

`EqualGrantsEqualPlans` (`PlansAreCanonical`): whatever order a grant's exports are signed in, the planner's
sort and loop make the one plan of them there is, or none.  A sorted order exists (`SortingExists`: give each
export the number of those before it, ties by place); after each turn of the loop there is a plan exactly
when the exports seen so far fit together, with an entry for each of their targets, in increasing order
(`PlansThe`, `PlanNextPlans`); and a list of entries in increasing order that covers the targets is the
reference, because an entry's place is the number of targets below its own (`NthTarget`).  It rests on
`TargetsAssumption`: a target, of at most 4096 bytes, has a place in the order of bytes, and is a path.

`CalmGrantsAreServed` (`CalmIsServed`): unless something fails, a grant that can be served, which includes that
its plan is not too long for the worker, is not refused and its worker does not reject its plan.  The plan a
worker is given is the reference plan, so it has as many bytes (`PlanBytes`).  `CalmInv` says that each pinned object is the signed one (`Matched`),
that each slot a worker's plan names holds the clone sealed into it (`Filled`, by `InstalledHolds`), and that
while nothing fails every path has its first object and every staging directory its live worker
(`Undisturbed`): so a new worker never finds its directory taken.  That the plan has an entry signed for each
export is `PlanIsTheReference`.  TLC has checked `CalmInv` in every state of the run as well.

**StateProofs, on `StateSchema`.**  All three properties of `schema`, for any openers, releases and migrations.  What
carries them is what an opener knows at each statement: outside its transaction only that the history has
grown since it was counted (`Counted`), inside that what it stages is what is committed plus its own
migration (`Staged`); a copy, and a backup, has the schema before its migration while that is the next one, and no more
rows than the database, which only gains rows (`BackedUp`).

**StateProofs, on `AuditLog`.**  `ChainStaysWhole` (`ChainIsWhole`), `LinksAlwaysSurvive` (`LinksSurvive`) and
types, for any processes, generations, retention, limits and interruptions.  Neither property says anything
while somebody has the lock, when the files hold events twice or events that are about to go; so the
invariant, `AuditIInv`, is about the log the files stand for (`Log`):
- `Shape` says what an operation remembers at each of its steps, and which stores have no generations.
- `Ends`: a line without an end is the last of its file, and a recorder has left room for its event.  Without
  the first, a row written behind such a line could be joined to it and lost.
- `Order`: in a file that is never rotated each event is linked to one at or behind the event before it, or
  repeats it.  This is true of every prefix and of every subsequence, which is why it survives interruptions:
  whatever a torn write, an overwrite broken off or a cut leaves has its events from the old file, in their
  order, perhaps twice (`Within`, `Splice`).  `LinksSurvive` follows.
- `Chain`: a log that nobody interrupted is whole, an event that has been made follows its last one, and a
  rotation knows how many events it has lost (`Lost`), so the boundary it records is where the log begins.
- `Fit`: as long as each pruning could be recorded, the boundaries continue each other and the last one is
  where the log begins.  `ChainIsWhole` follows from these two.

What a reader gets is computed by going through the rows and the generations (`Events`, `Joined`, `Lines`);
these are recursive functions, and what they return is proved by induction over the rows with the predicate as
a set (`Induction`, `SeqInduction`), from the least element of a set of numbers (`Least`).  `Alike` and
`Iteration` show that such a function is the sequence of its steps.  TLC has checked `AuditIInv` in every
state of the run `audit`.

**RelayProofs, on `Relay`.**  `RelayIsSound`, and `RelayIsChannel`: `Relay` implements `Channel`, for any bounds.  The
invariant has the control of the four threads in one conjunct (`Control`) and a conjunct for each pipe that
says which chunks it holds: a run of consecutive numbers that starts where what lies beyond it ends,
counting what a thread has read and not yet written (`Upward`, `Downward`).  As long as nothing is broken,
the runs join (`Linked`), that is, an end in a pipe means the pipe before it was empty when it was passed
on, and what was sent is what is on the way plus what has arrived (`Whole`).  Order and "no early end" of
the refinement are then arithmetic.  Each step is a message sent, a message delivered, an end, a break or a
stutter of the channel.

**RelayProofs, on `RemoteSession`.**  `WorkersAreKnown`, `ReadyAfterRegistration` and types.  Its inductive
invariant, `RemoteIInv`, adds: a channel whose turn has not come has no worker (`Unserved`); a thread supervises its own channel's
worker and that is who is registered (`Watched`); keys of live workers are consumed, and none is alive when
the broker is down (`Consumed`), which is what carries distinctness over the loss of the ledger.

**SandboxRunProofs.**  All three safety properties of `sandbox`, for any number of runs, sessions and troubles.  The
invariant says for each run where it is and what it has made, recorded and removed by then (`Placed`), and
which request and answer can be under way (`Wired`).  A workload that an interrupt let loose is a state of
its own there; that all others are gone when the clean-up begins is what `AlwaysWaits` says.  `Claims` is what carries `GuestsLeaveSessionsAlone`:
a session whose identifier a run has, or will have when it reads the answer that is on its way to it, was
opened for no other run.  `Views` relates what the daemon has mounted to the directories that are left.

**Only model-checked.**  Liveness (`RevokedIsRetired`, `ExpiredWorkersEnd`, `SessionsEnd`, `CallsEnd`,
`HalfCloseDrains`, `LostRunsEnd`), which TLAPS cannot derive from fairness.  Of the invariants, the half of
`AuditLog.LogIsSound` that bounds losses (`LossIsBounded`): it counts one event for each interruption, which takes
a record of the events each interruption may have cost.  All action properties are proved.

## 6. Not modelled

- Cryptography and encodings (`crypto/`): a signed grant is its signed fields.
- Kernel hardening, environment filter, `openat2` walks: no state, or the kernel's.
- Host enrollment, runtime closure, command line: one command that writes one new file, or calls.
- Within modelled parts: payload schema of audit events, terminal modes and buffering, frame parsing, open
  descriptors and modes in the overlay, malformed journals, the session API's single thread (a client that
  leaves before its answer ends it), `cancel()` and `expire()` of the registry (nothing calls them).
  `PROJECT.json` lists this by component.

## 7. Plan

Done: the modules of section 2.  What is left, in order:

1. A proof of the bound on losses of `AuditLog`.
2. `MountDaemon` with the sandbox command's requests in the place of arbitrary ones (`SandboxRun` composed
   with it), which needs a smaller daemon to stay within TLC's reach.
3. An abstract overlay (one atomic step per operation on one tree), and `Overlay` shown to implement it where
   it judges operations.
