---------------------------- MODULE RemoteSession ----------------------------
(***************************************************************************)
(* One remote SFTP session from the forced SSH command to its worker.      *)
(*                                                                         *)
(*   server/entry.py, server/broker_bridge.py   one process per SSH        *)
(*       channel: verify, ask the broker, answer, relay                    *)
(*   broker/server.py, broker/executor.py       the root broker's only     *)
(*       request thread: one connection at a time                          *)
(*   session/broker.py  ReplayLedger            in the broker's memory     *)
(*   broker/registry.py, broker/mapping.py      the registry, and one      *)
(*       supervising thread for every worker it holds                      *)
(*                                                                         *)
(* systemd holds the listening socket: connections wait while the broker   *)
(* is down, one that waits starts it, and the broker's exit ends every     *)
(* process of its control group.  A broker that dies by an exception also  *)
(* unlinks the path of that socket, so that nobody connects again until    *)
(* the socket unit is restarted.  Nothing in the packaged broker calls the *)
(* registry's cancel() and expire(); they are not modelled.                *)
(***************************************************************************)
EXTENDS Naturals

CONSTANTS
  Attempts,   \* SSH channels, each carrying one request
  Sids,       \* session identifiers
  Keys,       \* replay keys: issuer, grant and client nonce
  Sid,        \* [Attempts -> Sids]
  Key,        \* [Attempts -> Keys]
  Expiry,     \* [Attempts -> Nat], expiry of the request's grant
  MaxTime     \* bound on the clock

ASSUME ConstantsAssumption ==
  /\ Sid \in [Attempts -> Sids]
  /\ Key \in [Attempts -> Keys]
  /\ Expiry \in [Attempts -> Nat]
  /\ MaxTime \in Nat
  /\ "none" \notin Attempts
  /\ "born" \notin Attempts

VARIABLES
  now,       \* wall clock
  entry,     \* state of each channel's entry process
  queue,     \* channels connected to the broker socket and not accepted
  bound,     \* the path of the broker socket is there to connect to
  stage,     \* where the broker's request thread is
  cur,       \* the channel it serves
  spent,     \* the stream descriptor it still holds is closed already
  ledger,    \* replay state of each key
  started,   \* channels a worker was ever started for
  worker,    \* state of each channel's worker process
  owner,     \* ActiveSessionRegistry._sessions
  watch      \* each registration's thread: the worker it supervises

brokerVars == <<bound, stage, cur, spent>>
remoteVars == <<now, entry, queue, brokerVars, ledger, started, worker, owner, watch>>

None == "none"

EntryStates  == {"idle", "asking", "ready", "bridging", "gone"}
WorkerStates == {"none", "alive", "exited", "reaped"}
BrokerSteps  == {"down", "accept", "issue", "consume", "pin", "start", "register",
                 "reply", "reject"}

Alive == {a \in Attempts : worker[a] = "alive"}

Valid(a) == now < Expiry[a]

RemoteInit ==
  /\ now = 0
  /\ entry = [a \in Attempts |-> "idle"]
  /\ queue = {} /\ bound = TRUE
  /\ stage = "down" /\ cur = None /\ spent = FALSE
  /\ ledger = [k \in Keys |-> "none"]
  /\ started = {}
  /\ worker = [a \in Attempts |-> "none"]
  /\ owner = [s \in Sids |-> None]
  /\ watch = [a \in Attempts |-> None]

-----------------------------------------------------------------------------
(* The entry process of a channel                                          *)

\* run_ssh_entry() verifies the grant, then request_namespace() connects, which
\* needs the socket's path, and sends the request with one end of a socket pair.
Ask(a) ==
  /\ entry[a] = "idle"
  /\ IF Valid(a) /\ bound
     THEN entry' = [entry EXCEPT ![a] = "asking"] /\ queue' = queue \cup {a}
     ELSE entry' = [entry EXCEPT ![a] = "gone"] /\ UNCHANGED queue
  /\ UNCHANGED <<now, brokerVars, ledger, started, worker, owner, watch>>

\* NamespaceReady was read; the outer ready frame is the last before raw bytes.
OuterReady(a) ==
  /\ entry[a] = "ready"
  /\ entry' = [entry EXCEPT ![a] = "bridging"]
  /\ UNCHANGED <<now, queue, brokerVars, ledger, started, worker, owner, watch>>

\* bridge_sftp_stream() reads the end of the worker's stream.
StreamEnds(a) ==
  /\ entry[a] = "bridging" /\ a \notin Alive
  /\ entry' = [entry EXCEPT ![a] = "gone"]
  /\ UNCHANGED <<now, queue, brokerVars, ledger, started, worker, owner, watch>>

\* The entry process ends: its client has left and a read or a write says so, or
\* it is killed, at any moment.
Hangup(a) ==
  /\ entry[a] \in {"asking", "ready", "bridging"}
  /\ entry' = [entry EXCEPT ![a] = "gone"]
  /\ UNCHANGED <<now, queue, brokerVars, ledger, started, worker, owner, watch>>

-----------------------------------------------------------------------------
(* The broker's request thread: serve_once()                               *)

\* Socket activation: a new process, an empty ledger, an empty registry.
Activate ==
  /\ stage = "down" /\ queue # {}
  /\ stage' = "accept"
  /\ UNCHANGED <<now, entry, queue, bound, cur, spent, ledger, started, worker, owner,
                 watch>>

\* An exception that is neither a TimeoutError nor an AstralError leaves
\* serve_once() and main(), whose finally clause unlinks the path of systemd's
\* socket: the process ends, systemd kills the workers, and the channel being
\* served reads the end of its connection.
Die ==
  /\ stage' = "down" /\ cur' = None /\ spent' = FALSE /\ bound' = FALSE
  /\ entry' = [a \in Attempts |->
                 IF a = cur /\ entry[a] = "asking" THEN "gone" ELSE entry[a]]
  /\ ledger' = [k \in Keys |-> "none"]
  /\ worker' = [a \in Attempts |->
                  IF worker[a] = "none" THEN "none" ELSE "reaped"]
  /\ owner' = [s \in Sids |-> None]
  /\ watch' = [a \in Attempts |-> None]
  /\ UNCHANGED <<now, queue, started>>

\* The administrator restarts the socket unit: the path is there again, and the
\* connections that waited are reset.
Rebind ==
  /\ stage = "down" /\ ~bound
  /\ bound' = TRUE /\ queue' = {}
  /\ entry' = [a \in Attempts |->
                 IF a \in queue /\ entry[a] = "asking" THEN "gone" ELSE entry[a]]
  /\ UNCHANGED <<now, stage, cur, spent, ledger, started, worker, owner, watch>>

Serve(step) ==
  /\ stage' = step
  /\ UNCHANGED <<now, entry, queue, bound, cur, spent, started, owner, watch>>

\* The request and its descriptor are read; what a channel that hung up has
\* sent may be cut short, and is then dropped without an answer.
Accept(a) ==
  /\ stage = "accept" /\ a \in queue
  /\ queue' = queue \ {a}
  /\ \/ stage' = "issue" /\ cur' = a
     \/ entry[a] = "gone" /\ UNCHANGED <<stage, cur>>
  /\ UNCHANGED <<now, entry, bound, spent, ledger, started, worker, owner, watch>>

\* Mutant of Fresh: the key's state is not looked at.
AnyKey(a) == Valid(a)

Fresh(a) == Valid(a) /\ ledger[Key[a]] = "none"

\* _validate() and ReplayLedger.issue()
Issue ==
  /\ stage = "issue"
  /\ IF Fresh(cur)
     THEN ledger' = [ledger EXCEPT ![Key[cur]] = "issued"] /\ Serve("consume")
     ELSE Serve("reject") /\ UNCHANGED ledger
  /\ UNCHANGED worker

\* ReplayLedger.consume() reads the clock again.
Consume ==
  /\ stage = "consume"
  /\ IF Valid(cur)
     THEN ledger' = [ledger EXCEPT ![Key[cur]] = "consumed"] /\ Serve("pin")
     ELSE ledger' = [ledger EXCEPT ![Key[cur]] = "expired"] /\ Serve("reject")
  /\ UNCHANGED worker

\* Mutant of StartWorker: the channel is answered before the registration.
StartUnregistered ==
  /\ stage = "start"
  /\ started' = started \cup {cur}
  /\ worker' = [worker EXCEPT ![cur] = "alive"]
  /\ stage' = "reply"
  /\ UNCHANGED <<now, entry, queue, bound, cur, spent, ledger, owner, watch>>

\* BrokerSessionExecutor.start(): every parent copy is closed after the fork.
StartWorker ==
  /\ stage = "start"
  /\ started' = started \cup {cur}
  /\ worker' = [worker EXCEPT ![cur] = "alive"]
  /\ stage' = "register"
  /\ UNCHANGED <<now, entry, queue, bound, cur, spent, ledger, owner, watch>>

\* pin_grant_sources(): the broker waits, without a timeout, for the child that
\* opens the sources as the target user.
Pin == stage = "pin" /\ Serve("start") /\ UNCHANGED <<ledger, worker>>

\* A source is refused, and the descriptor is still open; or there is no socket
\* pair or no child, and the OSError leaves the broker.
PinFails ==
  /\ stage = "pin"
  /\ \/ Serve("reject") /\ UNCHANGED <<ledger, worker>>
     \/ Die

\* Preparing or mapping the worker failed: start() closed the descriptor, and
\* serve_once() keeps its number.
LaunchFails ==
  /\ stage = "start"
  /\ stage' = "reject" /\ spent' = TRUE
  /\ UNCHANGED <<now, entry, queue, bound, cur, ledger, started, worker, owner, watch>>

Registrable(a) == Valid(a) /\ owner[Sid[a]] = None

Enrol ==
  /\ owner' = [owner EXCEPT ![Sid[cur]] = cur]
  /\ watch' = [watch EXCEPT ![cur] = "born"]

\* register(): store the worker and start its thread, or terminate it.
Register ==
  /\ stage = "register"
  /\ IF Registrable(cur)
     THEN /\ Enrol
          /\ stage' = "reply"
          /\ UNCHANGED worker
     ELSE /\ worker' = [worker EXCEPT ![cur] = "reaped"]
          /\ stage' = "reject"
          /\ UNCHANGED <<owner, watch>>
  /\ UNCHANGED <<now, entry, queue, bound, cur, spent, ledger, started>>

\* The connection is answered and closed; writing to a peer that is gone
\* raises BrokenPipeError.
Respond(state) ==
  /\ entry[cur] = "asking"
  /\ entry' = [entry EXCEPT ![cur] = state]
  /\ stage' = "accept" /\ cur' = None
  /\ UNCHANGED <<now, queue, bound, spent, ledger, started, worker, owner, watch>>

Reply ==
  /\ stage = "reply"
  /\ \/ Respond("ready")
     \/ entry[cur] = "gone" /\ Die

\* After the rejection is written, closing a spent descriptor raises OSError.
Reject ==
  /\ stage = "reject"
  /\ \/ ~spent /\ Respond("gone")
     \/ (spent \/ entry[cur] = "gone") /\ Die

-----------------------------------------------------------------------------
(* The supervising thread of a registration: _supervise()                  *)

Lookup(a) ==
  /\ watch[a] = "born"
  /\ watch' = [watch EXCEPT ![a] = owner[Sid[a]]]
  /\ UNCHANGED <<now, entry, queue, brokerVars, ledger, started, worker, owner>>

\* Mutant of Due: the thread waits for the worker without a deadline.
ExitedOnly(b) == worker[b] = "exited"

\* wait() returns: the worker exited, or its deadline kills and reaps it.
Due(b) == worker[b] = "exited" \/ (b \in Alive /\ ~Valid(b))

Reap(a) ==
  /\ watch[a] \in Attempts /\ Due(watch[a])
  /\ worker' = [worker EXCEPT ![watch[a]] = "reaped"]
  /\ UNCHANGED <<now, entry, queue, brokerVars, ledger, started, owner, watch>>

\* Mutant of Remove: the session identifier stays taken.
ForgetThread(a) ==
  /\ watch[a] \in Attempts /\ worker[watch[a]] = "reaped"
  /\ watch' = [watch EXCEPT ![a] = None]
  /\ UNCHANGED <<now, entry, queue, brokerVars, ledger, started, worker, owner>>

\* The finally clause removes the session identifier.
Remove(a) ==
  /\ watch[a] \in Attempts /\ worker[watch[a]] = "reaped"
  /\ owner' = [owner EXCEPT ![Sid[a]] = None]
  /\ watch' = [watch EXCEPT ![a] = None]
  /\ UNCHANGED <<now, entry, queue, brokerVars, ledger, started, worker>>

-----------------------------------------------------------------------------
(* The worker and the clock                                                *)

WorkerExits(a) ==
  /\ worker' = [worker EXCEPT ![a] = "exited"]
  /\ UNCHANGED <<now, entry, queue, brokerVars, ledger, started, owner, watch>>

\* sftp-server exits at the end of its input: the entry held the only other end.
SeesEnd(a) == a \in Alive /\ entry[a] = "gone" /\ WorkerExits(a)

Fails(a) == a \in Alive /\ WorkerExits(a)

TimePasses ==
  /\ now < MaxTime
  /\ now' = now + 1
  /\ UNCHANGED <<entry, queue, brokerVars, ledger, started, worker, owner, watch>>

-----------------------------------------------------------------------------
EntryStep(a) == Ask(a) \/ OuterReady(a) \/ StreamEnds(a)

BrokerStep ==
  \/ Activate
  \/ \E a \in Attempts : Accept(a)
  \/ Issue
  \/ Consume
  \/ StartWorker
  \/ LaunchFails
  \/ Register
  \/ Reply
  \/ Reject

Supervise(a) == Lookup(a) \/ Reap(a) \/ Remove(a)

PinStep == Pin \/ PinFails

RemoteNext ==
  \/ BrokerStep
  \/ PinStep
  \/ Rebind
  \/ TimePasses
  \/ \E a \in Attempts : \/ EntryStep(a)
                        \/ Hangup(a)
                        \/ Supervise(a)
                        \/ SeesEnd(a)
                        \/ Fails(a)

RemoteSpec == RemoteInit /\ [][RemoteNext]_remoteVars

\* Threads run, and every wait of the broker's thread but one has a timeout: the
\* end of a pinning is not assumed.  A worker whose input ended exits.  Channels
\* need not be opened, clients need not leave, and nobody need restart a unit.
RemoteFairSpec ==
  /\ RemoteSpec
  /\ WF_remoteVars(BrokerStep)
  /\ \A a \in Attempts : /\ WF_remoteVars(OuterReady(a) \/ StreamEnds(a))
                         /\ WF_remoteVars(Supervise(a))
                         /\ WF_remoteVars(SeesEnd(a))

-----------------------------------------------------------------------------
(* Properties                                                              *)

\* Every variable keeps its type, and the broker serves a channel exactly
\* between accepting and answering it.
RemoteTypeOK ==
  /\ now \in 0..MaxTime
  /\ entry \in [Attempts -> EntryStates]
  /\ queue \subseteq Attempts
  /\ bound \in BOOLEAN
  /\ stage \in BrokerSteps
  /\ cur \in Attempts \cup {None}
  /\ spent \in BOOLEAN
  /\ ledger \in [Keys -> {"none", "issued", "consumed", "expired"}]
  /\ started \subseteq Attempts
  /\ worker \in [Attempts -> WorkerStates]
  /\ owner \in [Sids -> Attempts \cup {None}]
  /\ watch \in [Attempts -> Attempts \cup {None, "born"}]
  /\ cur = None <=> stage \in {"down", "accept"}

\* "Sole owner of started workers": every live worker is in the registry under
\* its session and a thread supervises it or is about to; the one exception is
\* the worker being registered.  (registry.py, executor.py)
LiveIsSupervised ==
  \A a \in Alive :
    \/ stage = "register" /\ cur = a
    \/ owner[Sid[a]] = a /\ watch[a] \in {"born", a}

\* No two live workers answer one request, and none but the worker being
\* registered shares a session identifier, across restarts of the broker too.
DistinctWorkers ==
  \A a, b \in Alive :
    a # b => /\ Key[a] # Key[b]
             /\ Sid[a] = Sid[b] => stage = "register" /\ cur \in {a, b}

\* The registry knows every live worker, and no two of them alike.
WorkersAreKnown == LiveIsSupervised /\ DistinctWorkers

\* The ready answer follows registration: a channel becomes ready only while
\* its worker is registered or has already ended.
ReadyAfterRegistration ==
  [][\A a \in Attempts :
       entry[a] # "ready" /\ entry'[a] = "ready" =>
         worker[a] # "none" /\ (a \in Alive => owner[Sid[a]] = a)]_remoteVars

\* "expiry ... always terminate child": a worker whose grant expired ends.
ExpiredWorkersEnd ==
  \A a \in Attempts : (a \in Alive /\ ~Valid(a)) ~> a \notin Alive

\* A worker whose client has left ends and its session identifier is free
\* again, although the broker answers nobody and keeps no record of clients.
AbandonedSessionsEnd ==
  \A a \in Attempts : (a \in started /\ entry[a] = "gone")
                        ~> (a \notin Alive /\ owner[Sid[a]] # a)

\* No child that pins sources runs for ever: recvmsg() and waitpid() return.
PinningEnds == []<>(stage # "pin")

\* Every request is answered or dropped, however often the broker dies, provided
\* that no pinning child holds up the only request thread for ever.
RequestsEnd ==
  PinningEnds => \A a \in Attempts : entry[a] = "asking" ~> entry[a] # "asking"

\* What a channel asks for comes to an end: its session always, its request if
\* pinning does.
SessionsEnd == AbandonedSessionsEnd /\ RequestsEnd

\* "started by systemd socket activation": while its grant is valid, a channel
\* that asks is heard, whether or not the broker is running.
EveryChannelIsHeard ==
  [][\A a \in Attempts :
       entry[a] = "idle" /\ Valid(a) /\ entry'[a] # "idle" =>
         entry'[a] = "asking"]_remoteVars
=============================================================================
