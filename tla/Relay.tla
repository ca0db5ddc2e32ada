-------------------------------- MODULE Relay --------------------------------
(***************************************************************************)
(* The way of one SFTP stream from rclone to the remote host.              *)
(*                                                                         *)
(*   transport/local.py  run_transport(), the wrapper rclone starts: two   *)
(*       threads between its standard files and the capability socket      *)
(*       PrivateTransportServer in the daemon: two threads between that    *)
(*       socket and an SSH process of its own                              *)
(*   rclone/listing.py   rclone under a time limit, and the listener       *)
(*   sftp/client.py      a client with one request at a time (Window = 1)  *)
(*                                                                         *)
(* rclone, or the SFTP client, is the client; SSH with all behind it (the  *)
(* module RemoteSession) is the remote.  A pipe or socket direction holds  *)
(* Capacity chunks, a chunk is one request or one answer, told apart by    *)
(* its number.  Closing a descriptor another thread waits on in recv()     *)
(* has no effect before that call returns.                                 *)
(***************************************************************************)
EXTENDS Naturals, Sequences, TLC

CONSTANTS
  Capacity,     \* chunks a pipe holds
  Window,       \* requests the client has unanswered at most
  MaxRequests   \* bound: requests of the client

ASSUME ParametersAssumption ==
  {Capacity, Window, MaxRequests} \subseteq Nat \ {0}

VARIABLES
  pipe,     \* chunks in each direction, and whether its ends are open
  pc,       \* where each thread is
  chunk,    \* the chunk a thread has read and not written, or 0
  client,   \* requests sent, the last answer, whether its input is open, alive
  remote,   \* the last request, the request in work, its state
  listening,\* PrivateTransportServer._listener
  broken    \* a process died, was refused or gave up

vars == <<pipe, pc, chunk, client, remote, listening, broken>>

\* in, req, fwd lead to the remote; ans, res, out lead back.
Pipes == {"in", "req", "fwd", "ans", "res", "out"}
Closed == [data |-> <<>>, w |-> FALSE, r |-> FALSE]
Opened == [data |-> <<>>, w |-> TRUE, r |-> TRUE]

\* Per thread: what it reads and what it writes.  wdown and ddown are the main
\* threads of the wrapper and of the daemon's connection.
Source == [wup |-> "in", dup |-> "req", wdown |-> "res", ddown |-> "ans"]
Sink == [wup |-> "req", dup |-> "fwd", wdown |-> "out", ddown |-> "res"]
Threads == DOMAIN Source

Ended(p) == pipe[p].data = <<>> /\ ~pipe[p].w

HasRoom(p) == pipe[p].r /\ pipe[p].w /\ Len(pipe[p].data) < Capacity
Refuses(p) == ~pipe[p].r \/ ~pipe[p].w

Pushed(p, m) == [pipe EXCEPT ![p].data = Append(@, m)]
Popped(p) == [pipe EXCEPT ![p].data = Tail(@)]

\* The reader of p is gone, and with it what it had not read.
ReadEndsClosed(f, ps) ==
  [p \in Pipes |-> IF p \in ps THEN [f[p] EXCEPT !.data = <<>>, !.r = FALSE] ELSE f[p]]
WriteEndsClosed(f, ps) ==
  [p \in Pipes |-> IF p \in ps THEN [f[p] EXCEPT !.w = FALSE] ELSE f[p]]

Init ==
  /\ pipe = [p \in Pipes |-> IF p \in {"in", "out"} THEN Opened ELSE Closed]
  /\ pc = [wup |-> "off", wdown |-> "start", dup |-> "off", ddown |-> "off"]
  /\ chunk = [t \in Threads |-> 0]
  /\ client = [sent |-> 0, got |-> 0, input |-> TRUE, alive |-> TRUE]
  /\ remote = [got |-> 0, work |-> 0, state |-> "none"]
  /\ listening = TRUE
  /\ broken = FALSE

-----------------------------------------------------------------------------
(* The client and the remote                                               *)

\* SftpClient._request() with Window = 1; rclone sends ahead.
Request ==
  /\ client.alive /\ client.input /\ HasRoom("in")
  /\ client.sent < MaxRequests /\ client.sent - client.got < Window
  /\ pipe' = Pushed("in", client.sent + 1)
  /\ client' = [client EXCEPT !.sent = @ + 1]
  /\ UNCHANGED <<pc, chunk, remote, listening, broken>>

\* read_packet()
Receive ==
  /\ client.alive /\ pipe["out"].data # <<>>
  /\ client' = [client EXCEPT !.got = Head(pipe["out"].data)]
  /\ pipe' = Popped("out")
  /\ UNCHANGED <<pc, chunk, remote, listening, broken>>

\* The client has no more requests and waits for the answers.
EndInput ==
  /\ client.alive /\ client.input
  /\ client' = [client EXCEPT !.input = FALSE]
  /\ pipe' = WriteEndsClosed(pipe, {"in"})
  /\ UNCHANGED <<pc, chunk, remote, listening, broken>>

\* The remote answers in order, one request at a time.
Take ==
  /\ remote.state = "serving" /\ remote.work = 0 /\ pipe["fwd"].data # <<>>
  /\ remote' = [remote EXCEPT !.got = Head(pipe["fwd"].data), !.work = Head(pipe["fwd"].data)]
  /\ pipe' = Popped("fwd")
  /\ UNCHANGED <<pc, chunk, client, listening, broken>>

Answer ==
  /\ remote.state = "serving" /\ remote.work # 0 /\ HasRoom("ans")
  /\ pipe' = Pushed("ans", remote.work)
  /\ remote' = [remote EXCEPT !.work = 0]
  /\ UNCHANGED <<pc, chunk, client, listening, broken>>

RemoteGone(lost) ==
  /\ remote' = [remote EXCEPT !.state = "ended"]
  /\ pipe' = LET f == WriteEndsClosed(ReadEndsClosed(pipe, {"fwd"}), {"ans"})
             IN  IF lost THEN [f EXCEPT !["ans"].data = <<>>] ELSE f
  /\ UNCHANGED <<pc, chunk, client, listening>>

\* At the end of its input, or when nobody takes its answers
RemoteEnds ==
  /\ remote.state = "serving"
  /\ (Ended("fwd") /\ remote.work = 0) \/ (remote.work # 0 /\ ~pipe["ans"].r)
  /\ RemoteGone(FALSE) /\ UNCHANGED broken

\* The worker dies, or the network is lost, with or without the last answers.
RemoteDies ==
  /\ remote.state = "serving"
  /\ \E lost \in BOOLEAN : RemoteGone(lost)
  /\ broken' = TRUE

-----------------------------------------------------------------------------
(* The handshake                                                           *)

\* run_transport() ends, or is killed: all its descriptors are closed.
WrapperGone ==
  /\ pc' = [pc EXCEPT !["wup"] = "done", !["wdown"] = "gone"]
  /\ chunk' = [chunk EXCEPT !["wup"] = 0, !["wdown"] = 0]
  /\ pipe' = WriteEndsClosed(ReadEndsClosed(pipe, {"in", "res"}), {"req", "out"})

\* Nothing of the client is read before the daemon's frame.
Connected == [pc EXCEPT !["wdown"] = "waiting", !["ddown"] = "open"]

\* connect() and the token; PrivateTransportServer accepts into a thread.
Connect ==
  /\ pc["wdown"] = "start" /\ listening
  /\ pc' = Connected
  /\ pipe' = [pipe EXCEPT !["req"] = Opened, !["res"] = Opened]
  /\ UNCHANGED <<chunk, client, remote, listening, broken>>

ConnectFails ==
  /\ pc["wdown"] = "start" /\ ~listening
  /\ WrapperGone /\ broken' = TRUE
  /\ UNCHANGED <<client, remote, listening>>

\* PrivateTransportServer.close(), before the wrapper connects; later it is of
\* no effect on this stream.
CloseListener ==
  /\ pc["wdown"] = "start" /\ listening
  /\ listening' = FALSE
  /\ UNCHANGED <<pipe, pc, chunk, client, remote, broken>>

\* open_remote_sftp_stream(): SSH is started and the remote is ready ...
StreamOpens ==
  /\ pc["ddown"] = "open"
  /\ pc' = [pc EXCEPT !["ddown"] = "answer"]
  /\ pipe' = [pipe EXCEPT !["fwd"] = Opened, !["ans"] = Opened]
  /\ remote' = [remote EXCEPT !.state = "serving"]
  /\ UNCHANGED <<chunk, client, listening, broken>>

\* ... or refuses; the wrapper reads an error frame and the end.
StreamFails ==
  /\ pc["ddown"] = "open"
  /\ pc' = [pc EXCEPT !["ddown"] = "done", !["dup"] = "done"]
  /\ pipe' = WriteEndsClosed(ReadEndsClosed(pipe, {"req"}), {"res"})
  /\ broken' = TRUE
  /\ UNCHANGED <<chunk, client, remote, listening>>

\* The frame that says so; the bridge starts behind it.
Welcome ==
  /\ pc["ddown"] = "answer"
  /\ IF pipe["res"].r
     THEN pipe' = Pushed("res", 0) /\ pc' = [pc EXCEPT !["ddown"] = "read", !["dup"] = "read"]
     ELSE UNCHANGED pipe /\ pc' = [pc EXCEPT !["ddown"] = "close", !["dup"] = "done"]
  /\ UNCHANGED <<chunk, client, remote, listening, broken>>

Welcomed ==
  /\ pc["wdown"] = "waiting" /\ pipe["res"].data # <<>>
  /\ pipe' = Popped("res")
  /\ pc' = [pc EXCEPT !["wup"] = "read", !["wdown"] = "read"]
  /\ UNCHANGED <<chunk, client, remote, listening, broken>>

\* Five seconds are over, or the stream was refused.
NotWelcomed ==
  /\ pc["wdown"] = "waiting"
  /\ WrapperGone /\ broken' = TRUE
  /\ UNCHANGED <<client, remote, listening>>

-----------------------------------------------------------------------------
(* The copying loops                                                       *)

\* Mutant: recv() takes the chunk, and a full pipe loses it.
AcceptsAlways(p) == pipe[p].r /\ pipe[p].w

\* sendall() waits for room.
Accepts(p) == HasRoom(p)

\* The daemon's connection goes with the last thread that uses it.
Released(t, f) ==
  IF t = "dup" /\ pc["ddown"] = "done"
  THEN WriteEndsClosed(ReadEndsClosed(f, {"req"}), {"res"}) ELSE f

Read(t) ==
  /\ pc[t] = "read" /\ pipe[Source[t]].data # <<>>
  /\ chunk' = [chunk EXCEPT ![t] = Head(pipe[Source[t]].data)]
  /\ pipe' = Released(t, Popped(Source[t]))
  /\ pc' = [pc EXCEPT ![t] = "write"]
  /\ UNCHANGED <<client, remote, listening, broken>>

Write(t) ==
  /\ pc[t] = "write" /\ Accepts(Sink[t])
  /\ pipe' = IF HasRoom(Sink[t]) THEN Pushed(Sink[t], chunk[t]) ELSE pipe
  /\ chunk' = [chunk EXCEPT ![t] = 0]
  /\ pc' = [pc EXCEPT ![t] = "read"]
  /\ UNCHANGED <<client, remote, listening, broken>>

\* Mutant: the end of the input ends both directions.
FullyClosed(t) ==
  IF t = "dup" THEN WriteEndsClosed(ReadEndsClosed(pipe, {"ans"}), {Sink[t]})
  ELSE WriteEndsClosed(pipe, {Sink[t]})

\* stdin_to_socket(), left_to_right(): the end of the input is passed on, an
\* error is not.
HalfClosed(t) == WriteEndsClosed(pipe, {Sink[t]})

UpEnds(t) ==
  /\ \/ /\ pc[t] = "read" /\ Ended(Source[t])
        /\ pipe' = Released(t, HalfClosed(t))
     \/ /\ pc[t] = "write" /\ Refuses(Sink[t])
        /\ UNCHANGED pipe
  /\ pc' = [pc EXCEPT ![t] = "done"]
  /\ chunk' = [chunk EXCEPT ![t] = 0]
  /\ UNCHANGED <<client, remote, listening, broken>>

\* The main thread of the wrapper: the process ends with it.
WrapperEnds ==
  /\ \/ pc["wdown"] = "read" /\ Ended("res")
     \/ pc["wdown"] = "write" /\ Refuses("out")
  /\ WrapperGone
  /\ UNCHANGED <<client, remote, listening, broken>>

\* The main thread of the daemon's connection waits two seconds for the other.
DownEnds ==
  /\ \/ pc["ddown"] = "read" /\ Ended("ans")
     \/ pc["ddown"] = "write" /\ Refuses("res")
  /\ pc' = [pc EXCEPT !["ddown"] = "join"]
  /\ chunk' = [chunk EXCEPT !["ddown"] = 0]
  /\ UNCHANGED <<pipe, client, remote, listening, broken>>

Joined ==
  /\ pc["ddown"] = "join"
  /\ pc' = [pc EXCEPT !["ddown"] = "close"]
  /\ UNCHANGED <<pipe, chunk, client, remote, listening, broken>>

\* Mutant: the SSH process is ended only when the other thread has ended.
StreamClosedIfJoined ==
  IF pc["dup"] = "done" THEN WriteEndsClosed(ReadEndsClosed(pipe, {"fwd", "ans"}), {"fwd", "ans"})
  ELSE pipe

\* ProcessStream.close(): both pipes, and the process
StreamClosed == WriteEndsClosed(ReadEndsClosed(pipe, {"fwd", "ans"}), {"fwd", "ans"})

\* It waits for the lock of a write under way.  The connection is closed too,
\* but stays open while the other thread waits in recv().
CloseStream ==
  /\ pc["ddown"] = "close"
  /\ pc["dup"] = "write" => ~(pipe["fwd"].r /\ Len(pipe["fwd"].data) = Capacity)
  /\ pipe' = IF pc["dup"] = "read" THEN StreamClosed
             ELSE WriteEndsClosed(ReadEndsClosed(StreamClosed, {"req"}), {"res"})
  /\ pc' = [pc EXCEPT !["ddown"] = "done"]
  /\ UNCHANGED <<chunk, client, remote, listening, broken>>

-----------------------------------------------------------------------------
(* The client is killed: rclone alone, or at the listing's time limit the  *)
(* process group with the wrapper.                                         *)

Kill ==
  /\ client.alive
  /\ client' = [client EXCEPT !.alive = FALSE, !.input = FALSE]
  /\ broken' = TRUE
  /\ \/ /\ pipe' = WriteEndsClosed(ReadEndsClosed(pipe, {"out"}), {"in"})
        /\ UNCHANGED <<pc, chunk>>
     \/ /\ pc' = [pc EXCEPT !["wup"] = "done", !["wdown"] = "gone"]
        /\ chunk' = [chunk EXCEPT !["wup"] = 0, !["wdown"] = 0]
        /\ pipe' = WriteEndsClosed(ReadEndsClosed(pipe, {"in", "res", "out"}),
                                   {"in", "req", "out"})
  /\ UNCHANGED <<remote, listening>>

-----------------------------------------------------------------------------
Copying(t) == Read(t) \/ Write(t)
WrapperUp == Copying("wup") \/ UpEnds("wup")
WrapperMain == Connect \/ ConnectFails \/ Welcomed \/ Copying("wdown") \/ WrapperEnds
DaemonUp == Copying("dup") \/ UpEnds("dup")
DaemonMain ==
  \/ StreamOpens \/ StreamFails \/ Welcome
  \/ Copying("ddown") \/ DownEnds \/ Joined \/ CloseStream
RemoteMain == Take \/ Answer \/ RemoteEnds
Faults == RemoteDies \/ NotWelcomed \/ CloseListener \/ Kill

Next ==
  \/ Request \/ Receive \/ EndInput
  \/ WrapperUp \/ WrapperMain \/ DaemonUp \/ DaemonMain
  \/ RemoteMain \/ Faults

\* Threads and processes run on; a client reads what there is.
Fairness ==
  /\ WF_vars(WrapperUp) /\ WF_vars(WrapperMain)
  /\ WF_vars(DaemonUp) /\ WF_vars(DaemonMain)
  /\ WF_vars(RemoteMain) /\ WF_vars(Receive)

Spec == Init /\ [][Next]_vars /\ Fairness

-----------------------------------------------------------------------------
Chunks == 0..MaxRequests

\* Every variable has a value of its kind, no pipe holds more than its capacity.
TypeOK ==
  /\ \A p \in Pipes : /\ pipe[p].data \in UNION {[1..n -> Chunks] : n \in 0..Capacity}
                      /\ pipe[p].w \in BOOLEAN /\ pipe[p].r \in BOOLEAN
  /\ pc["wdown"] \in {"start", "waiting", "read", "write", "gone"}
  /\ pc["ddown"] \in {"off", "open", "answer", "read", "write", "join", "close", "done"}
  /\ pc["wup"] \in {"off", "read", "write", "done"}
  /\ pc["dup"] \in {"off", "read", "write", "done"}
  /\ chunk \in [Threads -> Chunks]
  /\ client \in [sent : Chunks, got : Chunks, input : BOOLEAN, alive : BOOLEAN]
  /\ remote \in [got : Chunks, work : Chunks, state : {"none", "serving", "ended"}]
  /\ listening \in BOOLEAN /\ broken \in BOOLEAN

\* No byte of the client passes the wrapper before the daemon has said that the
\* stream is ready, and the frame that says so never reaches the client
\* (run_transport, _serve_connection).
NothingBeforeReady ==
  /\ chunk["wup"] # 0 => remote.state # "none"
  /\ \A i \in 1..Len(pipe["out"].data) : pipe["out"].data[i] # 0

\* When the main thread of a connection has ended, the SSH process has lost both
\* its pipes, and when the other one has, so has the wrapper's socket
\* (_serve_connection's finally, ProcessStream.close).
NothingLeaks ==
  /\ pc["ddown"] = "done" => /\ ~pipe["fwd"].w /\ ~pipe["ans"].r
                             /\ pc["dup"] # "read" => ~pipe["res"].w /\ ~pipe["req"].r
  /\ pc["dup"] \in {"off", "done"} /\ pc["ddown"] = "done" => ~pipe["res"].w

\* No byte passes before the transport is ready, and no connection is left open
\* by the threads that have ended.
RelayIsSound == TypeOK /\ NothingBeforeReady /\ NothingLeaks

\* What the relay does is what a channel promises: the requests in order, each
\* once, to the remote, the answers to the client, and no end before the last.
Pipeline ==
  INSTANCE Channel WITH
    sent <- [d \in {"up", "down"} |->
               IF d = "up" THEN client.sent ELSE remote.got - (IF remote.work = 0 THEN 0 ELSE 1)],
    got <- [d \in {"up", "down"} |-> IF d = "up" THEN remote.got ELSE client.got],
    told <- {d \in {"up", "down"} :
               IF d = "up" THEN remote.state # "none" /\ Ended("fwd") ELSE Ended("out")},
    cut <- broken
IsChannel == Pipeline!Spec

\* A client that ends its input and goes on reading gets an answer to each
\* request and then the end, and the daemon's threads and the remote end
\* (shutdown(SHUT_WR), shutdown_write, the joins).
HalfCloseDrains ==
  ~client.input ~> \/ broken
                   \/ /\ client.got = client.sent /\ Ended("out")
                      /\ remote.state = "ended" /\ pc["ddown"] = "done" /\ pc["dup"] = "done"
=============================================================================
