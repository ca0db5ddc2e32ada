----------------------------- MODULE RelayProofs -----------------------------
(***************************************************************************)
(* Proofs about Relay and, at the end, about RemoteSession.                *)
(*                                                                         *)
(* Relay is taken for pipes of any capacity, any window and any            *)
(* number of requests: no byte passes before the stream is ready, nothing  *)
(* is left open, and the relay implements Channel.                         *)
(*                                                                         *)
(* The inductive invariant is IInv.  Chunks are numbered, so what is on    *)
(* the way is known from how much is on the way: from each reader on, the  *)
(* next pipe, or the chunk a thread holds, goes on where what lies ahead   *)
(* of it stops (Upward, Downward), as long as the way ahead is open; and   *)
(* while nothing has broken, what was sent is what lies on the way and     *)
(* what has arrived, and a thread ends only when the one before it has     *)
(* (Whole).  Each action has a lemma that says it keeps IInv.              *)
(***************************************************************************)
EXTENDS Relay, RemoteSession, Integers, TLAPS

\* What a pipe is, and that it holds no more than its capacity.
PipeStates == [Pipes -> [data : Seq(Chunks), w : BOOLEAN, r : BOOLEAN]]

PipesTyped ==
  pipe \in PipeStates /\ \A p \in Pipes : Len(pipe[p].data) <= Capacity

Labels == {"off", "start", "waiting", "open", "answer", "read", "write", "join", "close",
           "done", "gone"}

\* The types, in the form the provers use.
Typed ==
  /\ PipesTyped
  /\ pc \in [Threads -> Labels]
  /\ pc["wdown"] \in {"start", "waiting", "read", "write", "gone"}
  /\ pc["ddown"] \in {"off", "open", "answer", "read", "write", "join", "close", "done"}
  /\ pc["wup"] \in {"off", "read", "write", "done"}
  /\ pc["dup"] \in {"off", "read", "write", "done"}
  /\ chunk \in [Threads -> Chunks]
  /\ client \in [sent : Chunks, got : Chunks, input : BOOLEAN, alive : BOOLEAN]
  /\ remote \in [got : Chunks, work : Chunks, state : {"none", "serving", "ended"}]
  /\ listening \in BOOLEAN /\ broken \in BOOLEAN

\* Chunks in a pipe; the chunk a thread holds; a run of numbers from b + 1 on; the
\* number of answers the remote has given.
N(p) == Len(pipe[p].data)
D(t) == IF pc[t] = "write" THEN 1 ELSE 0
Run(s, b) == \A i \in 1..Len(s) : s[i] = b + i
Answered == IF remote.work = 0 THEN remote.got ELSE remote.got - 1

\* How far the handshake, the threads and the remote are, and what follows for the
\* pipes whether or not something has broken.
Control ==
  /\ remote.work # 0 => remote.work = remote.got
  /\ pc["wdown"] = "start" => pc["ddown"] = "off" /\ pc["wup"] = "off"
  /\ pc["wdown"] = "waiting" => pc["wup"] = "off" /\ pc["ddown"] # "off"
  /\ pc["wdown"] \in {"read", "write"} => pc["wup"] # "off"
  /\ pc["wdown"] = "gone" => pc["wup"] = "done" /\ ~pipe["res"].r
  /\ pc["wup"] \in {"read", "write"} => pc["dup"] # "off"
  /\ pc["dup"] = "off" <=> pc["ddown"] \in {"off", "open", "answer"}
  /\ pc["dup"] = "off" =>
       /\ pc["wdown"] \in {"start", "waiting", "gone"}
       /\ remote.got = 0 /\ N("fwd") = 0 /\ N("req") = 0 /\ N("ans") = 0 /\ N("res") = 0
  /\ pc["ddown"] \in {"off", "open"} => remote.state = "none"
  /\ remote.state = "none" => pc["ddown"] \in {"off", "open", "done"}
  /\ pc["ddown"] \in {"off", "open", "done"} => ~pipe["fwd"].r /\ ~pipe["fwd"].w
  /\ pc["wdown"] \in {"start", "waiting"} => client.got = 0 /\ N("out") = 0
  /\ remote.state = "serving" => pc["ddown"] \notin {"off", "open"}
  /\ remote.state = "none" => pc["wup"] \notin {"read", "write"} /\ N("res") = 0
  /\ chunk["wup"] # 0 => pc["wup"] = "write"
  /\ pc["ddown"] \in {"off", "open", "done"} => ~pipe["ans"].r
  /\ pc["ddown"] = "done" /\ pc["dup"] # "read" => ~pipe["res"].w /\ ~pipe["req"].r

\* The way from the thread dup, and from the thread wup, to the remote is open.
DupOpen == pipe["fwd"].r /\ pipe["fwd"].w /\ pc["dup"] \in {"read", "write"}
WupOpen == DupOpen /\ pipe["req"].r /\ pipe["req"].w /\ pc["wup"] \in {"read", "write"}

\* The last request that has reached fwd, req and in, counted from the remote.
InFwd == remote.got + N("fwd")
InReq == InFwd + D("dup") + N("req")
InIn == InReq + D("wup") + N("in")

\* Upwards: each pipe and each held chunk goes on where what lies ahead stops.
FwdFollows == Run(pipe["fwd"].data, remote.got) /\ InFwd <= client.sent

ReqFollows ==
  DupOpen => /\ pc["dup"] = "write" => chunk["dup"] = InFwd + 1
             /\ Run(pipe["req"].data, InFwd + D("dup")) /\ InReq <= client.sent

InFollows ==
  WupOpen => /\ pc["wup"] = "write" => chunk["wup"] = InReq + 1
             /\ Run(pipe["in"].data, InReq + D("wup")) /\ InIn = client.sent

\* Before the bridge starts, all that was sent is in the first pipe.
Unread ==
  pc["wup"] = "off" =>
    /\ remote.got = 0 /\ N("fwd") = 0 /\ pc["dup"] # "write" /\ N("req") = 0
    /\ Run(pipe["in"].data, 0) /\ N("in") = client.sent

Upward == FwdFollows /\ ReqFollows /\ InFollows /\ Unread

\* The ready frame is not an answer: it is the first chunk of res, numbered 0, until
\* the wrapper has read it.
Frame == IF pc["wdown"] = "waiting" THEN 1 ELSE 0
OutOpen == pipe["out"].r /\ pipe["out"].w /\ pc["wdown"] \in {"waiting", "read", "write"}
DownOpen == OutOpen /\ pipe["res"].r /\ pipe["res"].w /\ pc["ddown"] \in {"read", "write"}
InOut == client.got + N("out")
InRes == InOut + D("wdown") - Frame + N("res")
InAns == InRes + D("ddown") + N("ans")

\* Downwards, the same from the client back to the remote.
OutFollows == Run(pipe["out"].data, client.got) /\ InOut <= Answered

ResFollows ==
  OutOpen => /\ pc["wdown"] = "write" => chunk["wdown"] = InOut + 1
             /\ Run(pipe["res"].data, InOut + D("wdown") - Frame) /\ InRes <= Answered

AnsFollows ==
  DownOpen => /\ pc["ddown"] = "write" => chunk["ddown"] = InRes + 1
              /\ Run(pipe["ans"].data, InRes + D("ddown")) /\ InAns <= Answered
              /\ remote.state = "serving" => InAns = Answered
              /\ pc["wdown"] = "waiting" => N("res") > 0

Downward == OutFollows /\ ResFollows /\ AnsFollows

\* The frame has been written and not read.
HasFrame == IF pc["wdown"] = "waiting" /\ pc["dup"] # "off" THEN 1 ELSE 0

\* While nothing has broken: a thread ends only after the one before it, and each
\* closed end has its reason.
Linked ==
  /\ pc["wup"] = "done" => ~pipe["in"].w /\ N("in") = 0
  /\ pc["wup"] \in {"read", "write"} => pipe["req"].r /\ pipe["req"].w
  /\ pc["wdown"] = "waiting" => pipe["req"].w /\ pipe["req"].r /\ pipe["res"].r
  /\ pc["dup"] \in {"read", "write"} =>
       /\ pipe["fwd"].r /\ pipe["fwd"].w /\ pc["ddown"] \in {"read", "write"}
       /\ ~pipe["req"].w => pc["wup"] = "done"
  /\ pc["ddown"] \in {"open", "answer"} => pc["wdown"] = "waiting" /\ pipe["res"].w
  /\ pc["ddown"] = "answer" =>
       /\ pipe["fwd"].w /\ pipe["fwd"].r /\ pipe["ans"].r /\ remote.state = "serving"
  /\ pc["ddown"] \in {"read", "write"} =>
       /\ pipe["res"].r /\ pipe["res"].w /\ pipe["ans"].r
  /\ pc["wdown"] # "gone" => pipe["out"].r /\ pipe["out"].w
  /\ pc["dup"] = "done" => pc["wup"] = "done" /\ N("req") = 0
  /\ remote.state # "none" /\ ~pipe["fwd"].w => pc["dup"] = "done"
  /\ remote.state = "ended" => pc["dup"] = "done" /\ N("fwd") = 0 /\ ~pipe["fwd"].w
  /\ remote.state # "none" /\ ~pipe["ans"].w => remote.state = "ended"
  /\ pc["ddown"] \in {"join", "close", "done"} => remote.state = "ended" /\ N("ans") = 0
  /\ pc["wdown"] # "start" /\ ~pipe["res"].w => pc["ddown"] = "done"
  /\ pc["wdown"] = "gone" => pc["ddown"] = "done" /\ N("res") = 0

\* Nothing is lost: what was sent is on the way or has arrived.
CountedUp == client.sent = InIn
CountedDown == Answered = InOut + D("wdown") + N("res") - HasFrame + D("ddown") + N("ans")

\* A broken relay may lose what is on the way; one that is not loses nothing.
Whole == ~broken => Linked /\ CountedUp /\ CountedDown

\* The inductive invariant.
IInv == Typed /\ Control /\ Upward /\ Downward /\ Whole

\* The threads and their pipes, one by one.
LEMMA Names ==
  /\ Threads = {"wup", "dup", "wdown", "ddown"}
  /\ Source["wup"] = "in" /\ Source["dup"] = "req"
  /\ Source["wdown"] = "res" /\ Source["ddown"] = "ans"
  /\ Sink["wup"] = "req" /\ Sink["dup"] = "fwd"
  /\ Sink["wdown"] = "out" /\ Sink["ddown"] = "res"
BY DEF Threads, Source, Sink

\* Chunks are natural numbers.
LEMMA ChunksAreNumbers == Chunks \subseteq Nat /\ 0 \in Chunks
BY ParametersAssumption DEF Chunks

\* Runs: the empty one, one chunk more at the end, the first taken off.
LEMMA RunEmpty == \A b : Run(<<>>, b)
BY DEF Run

LEMMA RunAppend ==
  ASSUME NEW s \in Seq(Chunks), NEW m \in Chunks, NEW b \in Int
  PROVE  Run(s, b) /\ m = b + Len(s) + 1 => Run(Append(s, m), b)
BY DEF Run

LEMMA RunTail ==
  ASSUME NEW s \in Seq(Chunks), s # <<>>, NEW b \in Int, Run(s, b)
  PROVE  Head(s) = b + 1 /\ Run(Tail(s), b + 1)
BY DEF Run

LEMMA RunNone ==
  ASSUME NEW p, N(p) = 0, NEW b PROVE Run(pipe[p].data, b)
BY DEF Run, N

LEMMA PipeNames == Pipes = {"in", "req", "fwd", "ans", "res", "out"}
BY DEF Pipes

-----------------------------------------------------------------------------
\* What a step does to a pipe.
Kept(p) == pipe'[p] = pipe[p]

\* The two ends of a pipe.
Ends(p) == <<pipe[p].w, pipe[p].r>>

\* One chunk more at the end, or one less at the head; a run goes on.
Added(p, m) ==
  /\ UNCHANGED Ends(p) /\ N(p)' = N(p) + 1
  /\ \A b \in Int : Run(pipe[p].data, b) /\ m = b + N(p) + 1 => Run(pipe'[p].data, b)

Removed(p) ==
  /\ UNCHANGED Ends(p) /\ N(p) > 0 /\ N(p)' = N(p) - 1
  /\ \A b \in Int : Run(pipe[p].data, b) =>
       Head(pipe[p].data) = b + 1 /\ Run(pipe'[p].data, b + 1)

\* All pipes but those of ps are as they were.
KeptBut(ps) ==
  /\ "in" \in ps \/ Kept("in")
  /\ "req" \in ps \/ Kept("req")
  /\ "fwd" \in ps \/ Kept("fwd")
  /\ "ans" \in ps \/ Kept("ans")
  /\ "res" \in ps \/ Kept("res")
  /\ "out" \in ps \/ Kept("out")

\* An end of a pipe has been closed.
ReaderGone(p) == pipe'[p] = [data |-> <<>>, w |-> pipe[p].w, r |-> FALSE]
WriterGone(p) == pipe'[p] = [data |-> pipe[p].data, w |-> FALSE, r |-> pipe[p].r]

\* A write: the pipe has one chunk more, the others are as they were.
LEMMA PushedChanges ==
  ASSUME PipesTyped, NEW p \in Pipes, NEW m \in Chunks, N(p) < Capacity, pipe' = Pushed(p, m)
  PROVE  PipesTyped' /\ Added(p, m) /\ \A q \in Pipes : q # p => pipe'[q] = pipe[q]
<1>1. pipe[p].data \in Seq(Chunks) /\ Append(pipe[p].data, m) \in Seq(Chunks)
  BY DEF PipesTyped, PipeStates
<1>2. /\ pipe' \in PipeStates
      /\ \A q \in Pipes : q # p => pipe'[q] = pipe[q]
      /\ pipe'[p].w = pipe[p].w /\ pipe'[p].r = pipe[p].r
      /\ pipe'[p].data = Append(pipe[p].data, m)
  BY <1>1 DEF PipesTyped, PipeStates, Pushed
<1>3. N(p)' = N(p) + 1
  BY <1>1, <1>2 DEF N
<1>4. \A q \in Pipes : Len(pipe'[q].data) <= Capacity
  BY <1>1, <1>2, <1>3, ParametersAssumption DEF N, PipesTyped
<1> QED
  BY <1>1, <1>2, <1>3, <1>4, RunAppend DEF N, Added, Ends, PipesTyped

\* A read: the pipe has one chunk less, the others are as they were.
LEMMA PoppedChanges ==
  ASSUME PipesTyped, NEW p \in Pipes, pipe[p].data # <<>>, pipe' = Popped(p)
  PROVE  /\ PipesTyped' /\ Removed(p) /\ Head(pipe[p].data) \in Chunks
         /\ \A q \in Pipes : q # p => pipe'[q] = pipe[q]
<1>1. pipe[p].data \in Seq(Chunks)
  BY DEF PipesTyped, PipeStates
<1>2. Tail(pipe[p].data) \in Seq(Chunks)
  BY <1>1
<1>3. /\ pipe' \in PipeStates
      /\ \A q \in Pipes : q # p => pipe'[q] = pipe[q]
      /\ pipe'[p].w = pipe[p].w /\ pipe'[p].r = pipe[p].r
      /\ pipe'[p].data = Tail(pipe[p].data)
  BY <1>1, <1>2 DEF PipesTyped, PipeStates, Popped
<1>4. N(p) > 0 /\ N(p)' = N(p) - 1 /\ Head(pipe[p].data) \in Chunks
  BY <1>1, <1>3 DEF N
<1>5. \A q \in Pipes : Len(pipe'[q].data) <= Capacity
  <2>1. N(p) \in Nat /\ N(p) <= Capacity /\ Capacity \in Nat
    BY <1>1, ParametersAssumption DEF N, PipesTyped
  <2>2. Len(pipe'[p].data) <= Capacity
    BY <1>4, <2>1 DEF N
  <2> QED
    BY <1>3, <2>2 DEF PipesTyped
<1> QED
  BY <1>1, <1>3, <1>4, <1>5, RunTail DEF N, Removed, Ends, PipesTyped

\* Closing the reading ends of rs and the writing ends of ws, pipe by pipe.
LEMMA Closing ==
  ASSUME NEW f \in PipeStates, \A p \in Pipes : Len(f[p].data) <= Capacity, NEW rs, NEW ws,
         NEW g, g = WriteEndsClosed(ReadEndsClosed(f, rs), ws)
  PROVE  /\ g \in PipeStates /\ \A p \in Pipes : Len(g[p].data) <= Capacity
         /\ \A p \in Pipes \ (rs \cup ws) : g[p] = f[p]
         /\ \A p \in Pipes \cap (rs \ ws) : g[p] = [data |-> <<>>, w |-> f[p].w, r |-> FALSE]
         /\ \A p \in Pipes \cap (ws \ rs) : g[p] = [data |-> f[p].data, w |-> FALSE, r |-> f[p].r]
         /\ \A p \in Pipes \cap rs \cap ws : g[p] = Closed
<1> DEFINE h == ReadEndsClosed(f, rs)
<1>1. \A p \in Pipes : h[p] = IF p \in rs THEN [f[p] EXCEPT !.data = <<>>, !.r = FALSE] ELSE f[p]
  BY DEF ReadEndsClosed
<1>2. <<>> \in Seq(Chunks) /\ Len(<<>>) <= Capacity
  BY ParametersAssumption
<1>3. \A p \in Pipes : h[p] \in [data : Seq(Chunks), w : BOOLEAN, r : BOOLEAN]
  BY <1>1, <1>2 DEF PipeStates
<1>4. ASSUME NEW p \in Pipes PROVE Len(h[p].data) <= Capacity
  <2>1. p \in rs => h[p].data = <<>>
    BY <1>1 DEF PipeStates
  <2>2. p \notin rs => h[p].data = f[p].data
    BY <1>1
  <2> HIDE DEF h
  <2> QED
    BY <1>2, <2>1, <2>2
<1>5. \A p \in Pipes : g[p] = IF p \in ws THEN [h[p] EXCEPT !.w = FALSE] ELSE h[p]
  BY DEF WriteEndsClosed
<1>6. \A p \in Pipes : g[p] \in [data : Seq(Chunks), w : BOOLEAN, r : BOOLEAN]
  BY <1>3, <1>5
<1>7. \A p \in Pipes : Len(g[p].data) <= Capacity
  BY <1>3, <1>4, <1>5
<1>8. g \in PipeStates
  BY <1>6 DEF WriteEndsClosed, PipeStates
<1>9. \A p \in Pipes \cap rs : h[p] = [data |-> <<>>, w |-> f[p].w, r |-> FALSE]
  BY <1>1 DEF PipeStates
<1> HIDE DEF h
<1>10. \A p \in Pipes \cap ws : g[p] = [data |-> h[p].data, w |-> FALSE, r |-> h[p].r]
  BY <1>3, <1>5
<1> QED
  BY <1>1, <1>5, <1>7, <1>8, <1>9, <1>10 DEF Closed

\* Closing writing ends loses nothing.
LEMMA ClosingWrites ==
  ASSUME PipesTyped, NEW ws, pipe' = WriteEndsClosed(pipe, ws)
  PROVE  PipesTyped' /\ \A p \in Pipes : IF p \in ws THEN WriterGone(p) ELSE Kept(p)
<1>1. \A p \in Pipes : pipe'[p] = IF p \in ws THEN [pipe[p] EXCEPT !.w = FALSE] ELSE pipe[p]
  BY DEF WriteEndsClosed
<1>2. \A p \in Pipes : pipe[p] \in [data : Seq(Chunks), w : BOOLEAN, r : BOOLEAN]
  BY DEF PipesTyped, PipeStates
<1>3. \A p \in Pipes : /\ pipe'[p] \in [data : Seq(Chunks), w : BOOLEAN, r : BOOLEAN]
                       /\ pipe'[p].data = pipe[p].data
                       /\ p \in ws => WriterGone(p)
  BY <1>1, <1>2 DEF WriterGone
<1>4. pipe' \in PipeStates
  BY <1>3 DEF PipeStates, WriteEndsClosed
<1> QED
  BY <1>1, <1>3, <1>4 DEF PipesTyped, Kept

\* All that is counted is a number.
LEMMA Numbers ==
  ASSUME Typed
  PROVE  /\ N("in") \in Nat /\ N("req") \in Nat /\ N("fwd") \in Nat
         /\ N("ans") \in Nat /\ N("res") \in Nat /\ N("out") \in Nat
         /\ D("wup") \in Nat /\ D("dup") \in Nat /\ D("wdown") \in Nat /\ D("ddown") \in Nat
         /\ \A t \in Threads : chunk[t] \in Nat
         /\ client.sent \in Nat /\ client.got \in Nat
         /\ remote.got \in Nat /\ remote.work \in Nat /\ Answered \in Int
         /\ Frame \in Nat /\ HasFrame \in Nat
         /\ InFwd \in Nat /\ InReq \in Nat /\ InIn \in Nat
         /\ InOut \in Nat /\ InRes \in Int /\ InAns \in Int
<1>1. \A p \in Pipes : Len(pipe[p].data) \in Nat
  BY DEF Typed, PipesTyped, PipeStates
<1>2. \A t \in Threads : chunk[t] \in Nat
  BY ChunksAreNumbers DEF Typed
<1>3. /\ client.sent \in Nat /\ client.got \in Nat
      /\ remote.got \in Nat /\ remote.work \in Nat
  BY ChunksAreNumbers DEF Typed
<1>4. Answered \in Int /\ Frame \in Nat /\ HasFrame \in Nat
  BY <1>3 DEF Answered, Frame, HasFrame
<1>5. /\ N("in") \in Nat /\ N("req") \in Nat /\ N("fwd") \in Nat
      /\ N("ans") \in Nat /\ N("res") \in Nat /\ N("out") \in Nat
      /\ D("wup") \in Nat /\ D("dup") \in Nat /\ D("wdown") \in Nat /\ D("ddown") \in Nat
  BY <1>1, PipeNames DEF N, D
<1>6. InFwd \in Nat /\ InReq \in Nat /\ InIn \in Nat
  BY <1>3, <1>5 DEF InFwd, InReq, InIn
<1>7. InOut \in Nat /\ InRes \in Int /\ InAns \in Int
  BY <1>3, <1>4, <1>5 DEF InOut, InRes, InAns
<1> QED
  BY <1>2, <1>3, <1>4, <1>5, <1>6, <1>7


-----------------------------------------------------------------------------
\* What each half of the invariant depends on.
LEMMA UpwardFrame ==
  ASSUME UNCHANGED <<pipe["in"], pipe["req"], pipe["fwd"], pc["wup"], pc["dup"],
                     chunk["wup"], chunk["dup"], client.sent, remote.got>>
  PROVE  (Upward => Upward') /\ (CountedUp => CountedUp')
BY DEF Upward, FwdFollows, ReqFollows, InFollows, Unread, CountedUp, InFwd, InReq, InIn,
       DupOpen, WupOpen, N, D

LEMMA DownwardFrame ==
  ASSUME UNCHANGED <<pipe["ans"], pipe["res"], pipe["out"], pc["wdown"], pc["ddown"],
                     chunk["wdown"], chunk["ddown"], client.got>>,
         UNCHANGED remote \/ UNCHANGED <<remote.state, Answered>>,
         pc'["dup"] = "off" <=> pc["dup"] = "off"
  PROVE  (Downward => Downward') /\ (CountedDown => CountedDown')
<1>1. UNCHANGED <<N("ans"), N("res"), N("out"), D("wdown"), D("ddown"), Frame, HasFrame,
                  Answered>>
  BY DEF N, D, Frame, HasFrame, Answered
<1> QED
  BY <1>1 DEF Downward, OutFollows, ResFollows, AnsFollows, CountedDown, InOut, InRes, InAns,
              OutOpen, DownOpen

-----------------------------------------------------------------------------
\* The client sends a request.
LEMMA RequestKeeps ==
  ASSUME IInv, Request PROVE IInv'
<1>1. Typed /\ Control /\ Upward /\ Downward /\ Whole
  BY DEF IInv
<1>2. client.sent + 1 \in Chunks /\ N("in") < Capacity /\ pipe["in"].w
  BY <1>1, ParametersAssumption DEF Request, HasRoom, Typed, Chunks, N
<1>3. PipesTyped' /\ Added("in", client.sent + 1) /\ KeptBut({"in"})
  BY <1>1, <1>2, PushedChanges, PipeNames DEF Request, Typed, KeptBut, Kept
<1>4. client' = [client EXCEPT !.sent = @ + 1] /\ UNCHANGED <<pc, chunk, remote, listening,
                                                              broken>>
  BY DEF Request
<1>5. client'.sent = client.sent + 1 /\ client'.got = client.got
  BY <1>1, <1>4 DEF Typed
<1> USE DEF KeptBut, Kept, Added, Ends
<1>6. UNCHANGED <<N("req"), N("fwd"), N("ans"), N("res"), N("out"), D("wup"), D("dup")>>
  BY <1>3, <1>4 DEF N, D
<1>7. Typed'
  BY <1>1, <1>2, <1>3, <1>4 DEF Typed
<1>8. Control'
  BY <1>1, <1>3, <1>4, <1>5, <1>6 DEF Control
<1>9. /\ UNCHANGED <<InFwd, InReq>> /\ InIn' = InIn + 1
      /\ InFwd <= client.sent => InFwd <= client'.sent
      /\ InReq <= client.sent => InReq <= client'.sent
      /\ InIn = client.sent <=> InIn' = client'.sent
      /\ N("in") = client.sent <=> N("in")' = client'.sent
  BY <1>1, <1>3, <1>4, <1>5, <1>6, Numbers DEF InFwd, InReq, InIn
<1>10. /\ Run(pipe["in"].data, InReq + D("wup")) /\ InIn = client.sent =>
            Run(pipe'["in"].data, InReq' + D("wup")')
       /\ Run(pipe["in"].data, 0) /\ N("in") = client.sent => Run(pipe'["in"].data, 0)
  BY <1>1, <1>3, <1>6, <1>9, Numbers DEF InIn
<1>11. Upward' /\ (CountedUp => CountedUp')
  <2> HIDE DEF Added
  <2>1. FwdFollows'
    BY <1>1, <1>3, <1>4, <1>5, <1>9 DEF Upward, FwdFollows
  <2>2. ReqFollows'
    BY <1>1, <1>3, <1>4, <1>5, <1>6, <1>9 DEF Upward, ReqFollows, DupOpen
  <2>3. InFollows'
    BY <1>1, <1>3, <1>4, <1>5, <1>6, <1>9, <1>10 DEF Upward, InFollows, DupOpen, WupOpen
  <2>4. Unread'
    BY <1>1, <1>3, <1>4, <1>5, <1>6, <1>9, <1>10 DEF Upward, Unread
  <2>5. CountedUp => CountedUp'
    BY <1>9 DEF CountedUp
  <2> QED
    BY <2>1, <2>2, <2>3, <2>4, <2>5 DEF Upward
<1>12. Downward' /\ (CountedDown => CountedDown')
  BY <1>1, <1>3, <1>4, <1>5, DownwardFrame
<1>13. Linked => Linked'
  BY <1>2, <1>3, <1>4, <1>5, <1>6 DEF Linked
<1> QED
  BY <1>1, <1>4, <1>7, <1>8, <1>11, <1>12, <1>13 DEF IInv, Whole

\* The client reads an answer.
LEMMA ReceiveKeeps ==
  ASSUME IInv, Receive PROVE IInv'
<1>1. Typed /\ Control /\ Upward /\ Downward /\ Whole
  BY DEF IInv
<1>2. PipesTyped' /\ Removed("out") /\ Head(pipe["out"].data) \in Chunks /\ KeptBut({"out"})
  BY <1>1, PoppedChanges, PipeNames DEF Receive, Typed, KeptBut, Kept
<1>3. /\ client' = [client EXCEPT !.got = Head(pipe["out"].data)]
      /\ UNCHANGED <<pc, chunk, remote, listening, broken>>
  BY DEF Receive
<1>4. client'.got = client.got + 1 /\ client'.sent = client.sent
  BY <1>1, <1>2, <1>3, Numbers DEF Typed, Downward, OutFollows, Removed
<1> USE DEF KeptBut, Kept, Removed, Ends
<1>5. UNCHANGED <<N("in"), N("req"), N("fwd"), N("ans"), N("res"), D("wdown"), D("ddown"),
                  Frame, HasFrame, Answered>>
  BY <1>2, <1>3 DEF N, D, Frame, HasFrame, Answered
<1>6. Typed'
  BY <1>1, <1>2, <1>3 DEF Typed
<1>7. Control'
  BY <1>1, <1>2, <1>3, <1>4, <1>5, Numbers DEF Control
<1>8. Upward' /\ (CountedUp => CountedUp')
  BY <1>1, <1>2, <1>3, <1>4, UpwardFrame
<1>9. Downward' /\ (CountedDown => CountedDown')
  BY <1>1, <1>2, <1>3, <1>4, <1>5, Numbers
     DEF Downward, OutFollows, ResFollows, AnsFollows, CountedDown, InOut, InRes, InAns,
         OutOpen, DownOpen
<1>10. Linked => Linked'
  BY <1>2, <1>3, <1>5 DEF Linked
<1> QED
  BY <1>1, <1>3, <1>6, <1>7, <1>8, <1>9, <1>10 DEF IInv, Whole

\* The client ends its input.
LEMMA EndInputKeeps ==
  ASSUME IInv, EndInput PROVE IInv'
<1>1. Typed /\ Control /\ Upward /\ Downward /\ Whole
  BY DEF IInv
<1>2. PipesTyped' /\ WriterGone("in") /\ KeptBut({"in"})
  BY <1>1, ClosingWrites, PipeNames DEF EndInput, Typed, KeptBut, Kept, WriterGone
<1>3. /\ client' = [client EXCEPT !.input = FALSE]
      /\ UNCHANGED <<pc, chunk, remote, listening, broken>>
  BY DEF EndInput
<1>4. client'.got = client.got /\ client'.sent = client.sent
  BY <1>1, <1>3 DEF Typed
<1> USE DEF KeptBut, Kept, WriterGone
<1>5. UNCHANGED <<N("in"), N("req"), N("fwd"), N("ans"), N("res"), N("out"), D("wup"),
                  D("dup")>>
  BY <1>2, <1>3 DEF N, D
<1>6. Typed'
  <2>1. client' \in [sent : Chunks, got : Chunks, input : BOOLEAN, alive : BOOLEAN]
    BY <1>1, <1>3 DEF Typed
  <2> QED
    BY <1>1, <1>2, <1>3, <2>1 DEF Typed
<1>7. Control'
  BY <1>1, <1>2, <1>3, <1>4, <1>5 DEF Control
<1>8. Upward' /\ (CountedUp => CountedUp')
  BY <1>1, <1>2, <1>3, <1>4, <1>5
     DEF Upward, FwdFollows, ReqFollows, InFollows, Unread, CountedUp, InFwd, InReq, InIn,
         DupOpen, WupOpen
<1>9. Downward' /\ (CountedDown => CountedDown')
  BY <1>1, <1>2, <1>3, <1>4, DownwardFrame
<1>10. Linked => Linked'
  BY <1>2, <1>3, <1>5 DEF Linked
<1> QED
  BY <1>1, <1>3, <1>6, <1>7, <1>8, <1>9, <1>10 DEF IInv, Whole

\* A thread that copies has moved.
LEMMA CopyingTyped ==
  ASSUME Typed, NEW t \in Threads, NEW l \in {"read", "write"}, NEW m \in Chunks,
         pc[t] \in {"read", "write"}, pc' = [pc EXCEPT ![t] = l], chunk' = [chunk EXCEPT ![t] = m],
         PipesTyped', UNCHANGED <<client, remote, listening, broken>>
  PROVE  Typed'
<1>1. pc' \in [Threads -> Labels] /\ chunk' \in [Threads -> Chunks]
  BY DEF Typed, Labels
<1>2. \A u \in Threads : pc'[u] = pc[u] \/ pc'[u] \in {"read", "write"}
  BY DEF Typed
<1>3. /\ pc'["wdown"] \in {"start", "waiting", "read", "write", "gone"}
      /\ pc'["ddown"] \in {"off", "open", "answer", "read", "write", "join", "close", "done"}
      /\ pc'["wup"] \in {"off", "read", "write", "done"}
      /\ pc'["dup"] \in {"off", "read", "write", "done"}
  BY <1>2, Names DEF Typed
<1> QED
  BY <1>1, <1>3 DEF Typed

-----------------------------------------------------------------------------
\* The copying threads, each with its read and its write.
\* The wrapper's thread to the socket reads ...
LEMMA ReadWupKeeps ==
  ASSUME IInv, Read("wup") PROVE IInv'
<1>1. Typed /\ Control /\ Upward /\ Downward /\ Whole
  BY DEF IInv
<1>2. /\ pc["wup"] = "read" /\ pipe["in"].data # <<>> /\ pipe' = Popped("in")
      /\ chunk' = [chunk EXCEPT !["wup"] = Head(pipe["in"].data)]
      /\ pc' = [pc EXCEPT !["wup"] = "write"]
  BY Names DEF Read, Released
<1>3. UNCHANGED <<client, remote, listening, broken>>
  BY DEF Read
<1>4. PipesTyped' /\ Removed("in") /\ Head(pipe["in"].data) \in Chunks /\ KeptBut({"in"})
  BY <1>1, <1>2, PoppedChanges, PipeNames DEF Typed, KeptBut, Kept
<1>5. UNCHANGED Ends("in") /\ N("in") > 0 /\ N("in")' = N("in") - 1
  BY <1>4 DEF Removed
<1>6. /\ pc'["wup"] = "write" /\ chunk'["wup"] = Head(pipe["in"].data)
      /\ UNCHANGED <<pc["dup"], pc["wdown"], pc["ddown"],
                     chunk["dup"], chunk["wdown"], chunk["ddown"]>>
  BY <1>1, <1>2, Names DEF Typed
<1> USE DEF KeptBut, Kept, Ends
<1>7. /\ UNCHANGED <<N("req"), N("fwd"), N("ans"), N("res"), N("out"),
                     D("dup"), D("wdown"), D("ddown"), Frame, HasFrame, Answered>>
      /\ D("wup") = 0 /\ D("wup")' = 1
  BY <1>2, <1>3, <1>4, <1>6 DEF N, D, Frame, HasFrame, Answered
<1>8. UNCHANGED <<InFwd, InReq, InIn>>
  BY <1>1, <1>3, <1>5, <1>7, Numbers DEF InFwd, InReq, InIn
<1>9. Run(pipe["in"].data, InReq + D("wup")) =>
        chunk'["wup"] = InReq' + 1 /\ Run(pipe'["in"].data, InReq' + D("wup")')
  BY <1>1, <1>3, <1>4, <1>6, <1>7, <1>8, Numbers DEF Removed
<1>10. Typed'
  BY <1>1, <1>2, <1>3, <1>4, ChunksAreNumbers, CopyingTyped, Names
<1>11. Control'
  BY <1>1, <1>2, <1>3, <1>4, <1>5, <1>6, <1>7, Numbers DEF Control
<1>12. Upward' /\ (CountedUp => CountedUp')
  <2> USE DEF DupOpen, WupOpen
  <2>1. FwdFollows'
    BY <1>1, <1>2, <1>3, <1>4, <1>5, <1>6, <1>7, <1>8, <1>9 DEF Upward, FwdFollows, ReqFollows
  <2>2. ReqFollows'
    BY <1>1, <1>2, <1>3, <1>4, <1>5, <1>6, <1>7, <1>8, <1>9 DEF Upward, ReqFollows, InFollows
  <2>3. InFollows'
    BY <1>1, <1>2, <1>3, <1>4, <1>5, <1>6, <1>7, <1>8, <1>9 DEF Upward, InFollows
  <2>4. Unread'
    BY <1>1, <1>2, <1>3, <1>4, <1>5, <1>6, <1>7 DEF Upward, Unread, Control
  <2>5. CountedUp => CountedUp'
    BY <1>3, <1>8 DEF CountedUp
  <2> QED
    BY <2>1, <2>2, <2>3, <2>4, <2>5 DEF Upward
<1>13. Downward' /\ (CountedDown => CountedDown')
  BY <1>1, <1>2, <1>3, <1>4, <1>6, DownwardFrame
<1>14. Linked => Linked'
  BY <1>1, <1>2, <1>3, <1>4, <1>5, <1>6, <1>7, Numbers DEF Linked, Control
<1> QED
  BY <1>1, <1>3, <1>10, <1>11, <1>12, <1>13, <1>14 DEF IInv, Whole

\* ... and writes.
LEMMA WriteWupKeeps ==
  ASSUME IInv, Write("wup") PROVE IInv'
<1>1. Typed /\ Control /\ Upward /\ Downward /\ Whole
  BY DEF IInv
<1>2. /\ pc["wup"] = "write" /\ HasRoom("req") /\ pipe' = Pushed("req", chunk["wup"])
      /\ chunk' = [chunk EXCEPT !["wup"] = 0] /\ pc' = [pc EXCEPT !["wup"] = "read"]
  BY Names DEF Write, Accepts
<1>3. UNCHANGED <<client, remote, listening, broken>>
  BY DEF Write
<1>4. PipesTyped' /\ Added("req", chunk["wup"]) /\ KeptBut({"req"})
  BY <1>1, <1>2, PushedChanges, PipeNames, Names DEF Typed, KeptBut, Kept, HasRoom, N
<1>5. UNCHANGED Ends("req") /\ N("req")' = N("req") + 1
  BY <1>4 DEF Added
<1>6. /\ pc'["wup"] = "read" /\ chunk'["wup"] = 0
      /\ UNCHANGED <<pc["dup"], pc["wdown"], pc["ddown"],
                     chunk["dup"], chunk["wdown"], chunk["ddown"]>>
  BY <1>1, <1>2, Names DEF Typed
<1> USE DEF KeptBut, Kept, Ends, HasRoom
<1>7. /\ UNCHANGED <<N("in"), N("fwd"), N("ans"), N("res"), N("out"),
                     D("dup"), D("wdown"), D("ddown"), Frame, HasFrame, Answered>>
      /\ D("wup") = 1 /\ D("wup")' = 0
  BY <1>2, <1>3, <1>4, <1>6 DEF N, D, Frame, HasFrame, Answered
<1>8. /\ InReq' = InReq + 1 /\ UNCHANGED <<InFwd, InIn>>
      /\ UNCHANGED (InReq + D("wup"))
      /\ InIn = client.sent => InReq' <= client.sent
  BY <1>1, <1>3, <1>5, <1>7, Numbers DEF InFwd, InReq, InIn
<1>9. Run(pipe["req"].data, InFwd + D("dup")) /\ chunk["wup"] = InReq + 1 =>
        Run(pipe'["req"].data, InFwd' + D("dup")')
  BY <1>1, <1>3, <1>4, <1>7, <1>8, Numbers DEF Added, InReq
<1>10. Typed'
  BY <1>1, <1>2, <1>3, <1>4, ChunksAreNumbers, CopyingTyped, Names
<1>11. Control'
  BY <1>1, <1>2, <1>3, <1>4, <1>5, <1>6, <1>7, Numbers DEF Control, Upward, Unread
<1>12. Upward' /\ (CountedUp => CountedUp')
  <2> USE DEF DupOpen, WupOpen
  <2>1. FwdFollows'
    BY <1>1, <1>2, <1>3, <1>4, <1>5, <1>6, <1>7, <1>8, <1>9 DEF Upward, FwdFollows, ReqFollows
  <2>2. ReqFollows'
    BY <1>1, <1>2, <1>3, <1>4, <1>5, <1>6, <1>7, <1>8, <1>9 DEF Upward, ReqFollows, InFollows
  <2>3. InFollows'
    BY <1>1, <1>2, <1>3, <1>4, <1>5, <1>6, <1>7, <1>8, <1>9 DEF Upward, InFollows
  <2>4. Unread'
    BY <1>1, <1>2, <1>3, <1>4, <1>5, <1>6, <1>7 DEF Upward, Unread, Control
  <2>5. CountedUp => CountedUp'
    BY <1>3, <1>8 DEF CountedUp
  <2> QED
    BY <2>1, <2>2, <2>3, <2>4, <2>5 DEF Upward
<1>13. Downward' /\ (CountedDown => CountedDown')
  BY <1>1, <1>2, <1>3, <1>4, <1>6, DownwardFrame
<1>14. Linked => Linked'
  BY <1>1, <1>2, <1>3, <1>4, <1>5, <1>6, <1>7, Numbers DEF Linked, Control
<1> QED
  BY <1>1, <1>3, <1>10, <1>11, <1>12, <1>13, <1>14 DEF IInv, Whole

\* The daemon's thread to SSH reads, while the main thread runs ...
LEMMA ReadDupKeeps ==
  ASSUME IInv, Read("dup"), pc["ddown"] # "done" PROVE IInv'
<1>1. Typed /\ Control /\ Upward /\ Downward /\ Whole
  BY DEF IInv
<1>2. /\ pc["dup"] = "read" /\ pipe["req"].data # <<>> /\ pipe' = Popped("req")
      /\ chunk' = [chunk EXCEPT !["dup"] = Head(pipe["req"].data)]
      /\ pc' = [pc EXCEPT !["dup"] = "write"]
  BY Names DEF Read, Released
<1>3. UNCHANGED <<client, remote, listening, broken>>
  BY DEF Read
<1>4. PipesTyped' /\ Removed("req") /\ Head(pipe["req"].data) \in Chunks /\ KeptBut({"req"})
  BY <1>1, <1>2, PoppedChanges, PipeNames DEF Typed, KeptBut, Kept
<1>5. UNCHANGED Ends("req") /\ N("req") > 0 /\ N("req")' = N("req") - 1
  BY <1>4 DEF Removed
<1>6. /\ pc'["dup"] = "write" /\ chunk'["dup"] = Head(pipe["req"].data)
      /\ UNCHANGED <<pc["wup"], pc["wdown"], pc["ddown"],
                     chunk["wup"], chunk["wdown"], chunk["ddown"]>>
  BY <1>1, <1>2, Names DEF Typed
<1> USE DEF KeptBut, Kept, Ends
<1>7. /\ UNCHANGED <<N("in"), N("fwd"), N("ans"), N("res"), N("out"),
                     D("wup"), D("wdown"), D("ddown"), Frame, HasFrame, Answered>>
      /\ D("dup") = 0 /\ D("dup")' = 1
  BY <1>2, <1>3, <1>4, <1>6 DEF N, D, Frame, HasFrame, Answered
<1>8. UNCHANGED <<InFwd, InReq, InIn>>
  BY <1>1, <1>3, <1>5, <1>7, Numbers DEF InFwd, InReq, InIn
<1>9. Run(pipe["req"].data, InFwd + D("dup")) =>
        chunk'["dup"] = InFwd' + 1 /\ Run(pipe'["req"].data, InFwd' + D("dup")')
  BY <1>1, <1>3, <1>4, <1>6, <1>7, <1>8, Numbers DEF Removed
<1>10. Typed'
  BY <1>1, <1>2, <1>3, <1>4, ChunksAreNumbers, CopyingTyped, Names
<1>11. Control'
  BY <1>1, <1>2, <1>3, <1>4, <1>5, <1>6, <1>7, Numbers DEF Control
<1>12. Upward' /\ (CountedUp => CountedUp')
  <2> USE DEF DupOpen, WupOpen
  <2>1. FwdFollows'
    BY <1>1, <1>2, <1>3, <1>4, <1>5, <1>6, <1>7, <1>8, <1>9 DEF Upward, FwdFollows, ReqFollows
  <2>2. ReqFollows'
    BY <1>1, <1>2, <1>3, <1>4, <1>5, <1>6, <1>7, <1>8, <1>9 DEF Upward, ReqFollows, InFollows
  <2>3. InFollows'
    BY <1>1, <1>2, <1>3, <1>4, <1>5, <1>6, <1>7, <1>8, <1>9 DEF Upward, InFollows
  <2>4. Unread'
    BY <1>1, <1>2, <1>3, <1>4, <1>5, <1>6, <1>7 DEF Upward, Unread, Control
  <2>5. CountedUp => CountedUp'
    BY <1>3, <1>8 DEF CountedUp
  <2> QED
    BY <2>1, <2>2, <2>3, <2>4, <2>5 DEF Upward
<1>13. Downward' /\ (CountedDown => CountedDown')
  BY <1>1, <1>2, <1>3, <1>4, <1>6, DownwardFrame
<1>14. Linked => Linked'
  BY <1>1, <1>2, <1>3, <1>4, <1>5, <1>6, <1>7, Numbers DEF Linked, Control
<1> QED
  BY <1>1, <1>3, <1>10, <1>11, <1>12, <1>13, <1>14 DEF IInv, Whole

\* ... and writes.
LEMMA WriteDupKeeps ==
  ASSUME IInv, Write("dup") PROVE IInv'
<1>1. Typed /\ Control /\ Upward /\ Downward /\ Whole
  BY DEF IInv
<1>2. /\ pc["dup"] = "write" /\ HasRoom("fwd") /\ pipe' = Pushed("fwd", chunk["dup"])
      /\ chunk' = [chunk EXCEPT !["dup"] = 0] /\ pc' = [pc EXCEPT !["dup"] = "read"]
  BY Names DEF Write, Accepts
<1>3. UNCHANGED <<client, remote, listening, broken>>
  BY DEF Write
<1>4. PipesTyped' /\ Added("fwd", chunk["dup"]) /\ KeptBut({"fwd"})
  BY <1>1, <1>2, PushedChanges, PipeNames, Names DEF Typed, KeptBut, Kept, HasRoom, N
<1>5. UNCHANGED Ends("fwd") /\ N("fwd")' = N("fwd") + 1
  BY <1>4 DEF Added
<1>6. /\ pc'["dup"] = "read" /\ chunk'["dup"] = 0
      /\ UNCHANGED <<pc["wup"], pc["wdown"], pc["ddown"],
                     chunk["wup"], chunk["wdown"], chunk["ddown"]>>
  BY <1>1, <1>2, Names DEF Typed
<1> USE DEF KeptBut, Kept, Ends, HasRoom
<1>7. /\ UNCHANGED <<N("in"), N("req"), N("ans"), N("res"), N("out"),
                     D("wup"), D("wdown"), D("ddown"), Frame, HasFrame, Answered>>
      /\ D("dup") = 1 /\ D("dup")' = 0
  BY <1>2, <1>3, <1>4, <1>6 DEF N, D, Frame, HasFrame, Answered
<1>8. /\ InFwd' = InFwd + 1 /\ UNCHANGED <<InReq, InIn>>
      /\ UNCHANGED (InFwd + D("dup"))
      /\ InReq <= client.sent => InFwd' <= client.sent
  BY <1>1, <1>3, <1>5, <1>7, Numbers DEF InFwd, InReq, InIn
<1>9. Run(pipe["fwd"].data, remote.got) /\ chunk["dup"] = InFwd + 1 =>
        Run(pipe'["fwd"].data, remote'.got)
  BY <1>1, <1>3, <1>4, <1>7, <1>8, Numbers DEF Added, InFwd
<1>10. Typed'
  BY <1>1, <1>2, <1>3, <1>4, ChunksAreNumbers, CopyingTyped, Names
<1>11. Control'
  BY <1>1, <1>2, <1>3, <1>4, <1>5, <1>6, <1>7, Numbers DEF Control, Upward, Unread
<1>12. Upward' /\ (CountedUp => CountedUp')
  <2> USE DEF DupOpen, WupOpen
  <2>1. FwdFollows'
    BY <1>1, <1>2, <1>3, <1>4, <1>5, <1>6, <1>7, <1>8, <1>9 DEF Upward, FwdFollows, ReqFollows
  <2>2. ReqFollows'
    BY <1>1, <1>2, <1>3, <1>4, <1>5, <1>6, <1>7, <1>8, <1>9 DEF Upward, ReqFollows, InFollows
  <2>3. InFollows'
    BY <1>1, <1>2, <1>3, <1>4, <1>5, <1>6, <1>7, <1>8, <1>9 DEF Upward, InFollows
  <2>4. Unread'
    BY <1>1, <1>2, <1>3, <1>4, <1>5, <1>6, <1>7 DEF Upward, Unread, Control
  <2>5. CountedUp => CountedUp'
    BY <1>3, <1>8 DEF CountedUp
  <2> QED
    BY <2>1, <2>2, <2>3, <2>4, <2>5 DEF Upward
<1>13. Downward' /\ (CountedDown => CountedDown')
  BY <1>1, <1>2, <1>3, <1>4, <1>6, DownwardFrame
<1>14. Linked => Linked'
  BY <1>1, <1>2, <1>3, <1>4, <1>5, <1>6, <1>7, Numbers DEF Linked, Control
<1> QED
  BY <1>1, <1>3, <1>10, <1>11, <1>12, <1>13, <1>14 DEF IInv, Whole

\* The wrapper's main thread reads an answer ...
LEMMA ReadWdownKeeps ==
  ASSUME IInv, Read("wdown") PROVE IInv'
<1>1. Typed /\ Control /\ Upward /\ Downward /\ Whole
  BY DEF IInv
<1>2. /\ pc["wdown"] = "read" /\ pipe["res"].data # <<>> /\ pipe' = Popped("res")
      /\ chunk' = [chunk EXCEPT !["wdown"] = Head(pipe["res"].data)]
      /\ pc' = [pc EXCEPT !["wdown"] = "write"]
  BY Names DEF Read, Released
<1>3. UNCHANGED <<client, remote, listening, broken>>
  BY DEF Read
<1>4. PipesTyped' /\ Removed("res") /\ Head(pipe["res"].data) \in Chunks /\ KeptBut({"res"})
  BY <1>1, <1>2, PoppedChanges, PipeNames DEF Typed, KeptBut, Kept
<1>5. UNCHANGED Ends("res") /\ N("res") > 0 /\ N("res")' = N("res") - 1
  BY <1>4 DEF Removed
<1>6. /\ pc'["wdown"] = "write" /\ chunk'["wdown"] = Head(pipe["res"].data)
      /\ UNCHANGED <<pc["wup"], pc["dup"], pc["ddown"],
                     chunk["wup"], chunk["dup"], chunk["ddown"]>>
  BY <1>1, <1>2, Names DEF Typed
<1> USE DEF KeptBut, Kept, Ends
<1>7. /\ UNCHANGED <<N("in"), N("req"), N("fwd"), N("ans"), N("out"),
                     D("wup"), D("dup"), D("ddown"), Frame, HasFrame, Answered>>
      /\ D("wdown") = 0 /\ D("wdown")' = 1
  BY <1>2, <1>3, <1>4, <1>6 DEF N, D, Frame, HasFrame, Answered
<1>8. Frame = 0
  BY <1>2 DEF Frame
<1>9. UNCHANGED <<InOut, InRes, InAns>>
  BY <1>1, <1>8, <1>3, <1>5, <1>7, Numbers DEF InOut, InRes, InAns
<1>10. Run(pipe["res"].data, InOut + D("wdown") - Frame) =>
        chunk'["wdown"] = InOut' + 1 /\ Run(pipe'["res"].data, InOut' + D("wdown")' - Frame')
  BY <1>8, <1>1, <1>3, <1>4, <1>6, <1>7, <1>9, Numbers DEF Removed
<1>11. remote.state # "none"
  <2>1. N("res") # 0
    BY <1>5
  <2> QED
    BY <1>1, <2>1 DEF Control
<1>12. Typed'
  BY <1>1, <1>2, <1>3, <1>4, ChunksAreNumbers, CopyingTyped, Names
<1>13. Control'
  BY <1>1, <1>2, <1>3, <1>4, <1>5, <1>6, <1>7, <1>11, Numbers DEF Control
<1>14. Upward' /\ (CountedUp => CountedUp')
  BY <1>1, <1>3, <1>4, <1>6, UpwardFrame
<1>15. Downward' /\ (CountedDown => CountedDown')
  <2> USE DEF OutOpen, DownOpen
  <2>1. OutFollows'
    BY <1>1, <1>2, <1>3, <1>4, <1>5, <1>6, <1>7, <1>9, <1>10, <1>8
       DEF Downward, OutFollows, ResFollows
  <2>2. ResFollows'
    BY <1>1, <1>2, <1>3, <1>4, <1>5, <1>6, <1>7, <1>9, <1>10, <1>8
       DEF Downward, ResFollows, AnsFollows
  <2>3. AnsFollows'
    BY <1>1, <1>2, <1>3, <1>4, <1>5, <1>6, <1>7, <1>9, <1>10, <1>8
       DEF Downward, AnsFollows, Control
  <2>4. CountedDown => CountedDown'
    BY <1>1, <1>5, <1>7, <1>9, Numbers DEF CountedDown
  <2> QED
    BY <2>1, <2>2, <2>3, <2>4 DEF Downward
<1>16. Linked => Linked'
  BY <1>1, <1>2, <1>3, <1>4, <1>5, <1>6, <1>7, Numbers DEF Linked, Control
<1> QED
  BY <1>1, <1>3, <1>12, <1>13, <1>14, <1>15, <1>16 DEF IInv, Whole

\* ... and writes it.
LEMMA WriteWdownKeeps ==
  ASSUME IInv, Write("wdown") PROVE IInv'
<1>1. Typed /\ Control /\ Upward /\ Downward /\ Whole
  BY DEF IInv
<1>2. /\ pc["wdown"] = "write" /\ HasRoom("out") /\ pipe' = Pushed("out", chunk["wdown"])
      /\ chunk' = [chunk EXCEPT !["wdown"] = 0] /\ pc' = [pc EXCEPT !["wdown"] = "read"]
  BY Names DEF Write, Accepts
<1>3. UNCHANGED <<client, remote, listening, broken>>
  BY DEF Write
<1>4. PipesTyped' /\ Added("out", chunk["wdown"]) /\ KeptBut({"out"})
  BY <1>1, <1>2, PushedChanges, PipeNames, Names DEF Typed, KeptBut, Kept, HasRoom, N
<1>5. UNCHANGED Ends("out") /\ N("out")' = N("out") + 1
  BY <1>4 DEF Added
<1>6. /\ pc'["wdown"] = "read" /\ chunk'["wdown"] = 0
      /\ UNCHANGED <<pc["wup"], pc["dup"], pc["ddown"],
                     chunk["wup"], chunk["dup"], chunk["ddown"]>>
  BY <1>1, <1>2, Names DEF Typed
<1> USE DEF KeptBut, Kept, Ends, HasRoom
<1>7. /\ UNCHANGED <<N("in"), N("req"), N("fwd"), N("ans"), N("res"),
                     D("wup"), D("dup"), D("ddown"), Frame, HasFrame, Answered>>
      /\ D("wdown") = 1 /\ D("wdown")' = 0
  BY <1>2, <1>3, <1>4, <1>6 DEF N, D, Frame, HasFrame, Answered
<1>8. Frame = 0
  BY <1>2 DEF Frame
<1>9. /\ InOut' = InOut + 1 /\ UNCHANGED <<InRes, InAns>>
      /\ UNCHANGED (InOut + D("wdown") - Frame)
      /\ InRes <= Answered => InOut' <= Answered
  BY <1>1, <1>8, <1>3, <1>5, <1>7, Numbers DEF InOut, InRes, InAns
<1>10. Run(pipe["out"].data, client.got) /\ chunk["wdown"] = InOut + 1 =>
        Run(pipe'["out"].data, client'.got)
  BY <1>1, <1>3, <1>4, <1>7, <1>9, Numbers DEF Added, InOut
<1>11. Typed'
  BY <1>1, <1>2, <1>3, <1>4, ChunksAreNumbers, CopyingTyped, Names
<1>12. Control'
  BY <1>1, <1>2, <1>3, <1>4, <1>5, <1>6, <1>7, Numbers DEF Control, Upward, Unread
<1>13. Upward' /\ (CountedUp => CountedUp')
  BY <1>1, <1>3, <1>4, <1>6, UpwardFrame
<1>14. Downward' /\ (CountedDown => CountedDown')
  <2> USE DEF OutOpen, DownOpen
  <2>1. OutFollows'
    BY <1>1, <1>2, <1>3, <1>4, <1>5, <1>6, <1>7, <1>9, <1>10, <1>8
       DEF Downward, OutFollows, ResFollows
  <2>2. ResFollows'
    BY <1>1, <1>2, <1>3, <1>4, <1>5, <1>6, <1>7, <1>9, <1>10, <1>8
       DEF Downward, ResFollows, AnsFollows
  <2>3. AnsFollows'
    BY <1>1, <1>2, <1>3, <1>4, <1>5, <1>6, <1>7, <1>9, <1>10, <1>8
       DEF Downward, AnsFollows, Control
  <2>4. CountedDown => CountedDown'
    BY <1>1, <1>5, <1>7, <1>9, Numbers DEF CountedDown
  <2> QED
    BY <2>1, <2>2, <2>3, <2>4 DEF Downward
<1>15. Linked => Linked'
  BY <1>1, <1>2, <1>3, <1>4, <1>5, <1>6, <1>7, Numbers DEF Linked, Control
<1> QED
  BY <1>1, <1>3, <1>11, <1>12, <1>13, <1>14, <1>15 DEF IInv, Whole

\* The daemon's main thread reads an answer ...
LEMMA ReadDdownKeeps ==
  ASSUME IInv, Read("ddown") PROVE IInv'
<1>1. Typed /\ Control /\ Upward /\ Downward /\ Whole
  BY DEF IInv
<1>2. /\ pc["ddown"] = "read" /\ pipe["ans"].data # <<>> /\ pipe' = Popped("ans")
      /\ chunk' = [chunk EXCEPT !["ddown"] = Head(pipe["ans"].data)]
      /\ pc' = [pc EXCEPT !["ddown"] = "write"]
  BY Names DEF Read, Released
<1>3. UNCHANGED <<client, remote, listening, broken>>
  BY DEF Read
<1>4. PipesTyped' /\ Removed("ans") /\ Head(pipe["ans"].data) \in Chunks /\ KeptBut({"ans"})
  BY <1>1, <1>2, PoppedChanges, PipeNames DEF Typed, KeptBut, Kept
<1>5. UNCHANGED Ends("ans") /\ N("ans") > 0 /\ N("ans")' = N("ans") - 1
  BY <1>4 DEF Removed
<1>6. /\ pc'["ddown"] = "write" /\ chunk'["ddown"] = Head(pipe["ans"].data)
      /\ UNCHANGED <<pc["wup"], pc["dup"], pc["wdown"],
                     chunk["wup"], chunk["dup"], chunk["wdown"]>>
  BY <1>1, <1>2, Names DEF Typed
<1> USE DEF KeptBut, Kept, Ends
<1>7. /\ UNCHANGED <<N("in"), N("req"), N("fwd"), N("res"), N("out"),
                     D("wup"), D("dup"), D("wdown"), Frame, HasFrame, Answered>>
      /\ D("ddown") = 0 /\ D("ddown")' = 1
  BY <1>2, <1>3, <1>4, <1>6 DEF N, D, Frame, HasFrame, Answered
<1>8. UNCHANGED <<InOut, InRes, InAns>>
  BY <1>1, <1>3, <1>5, <1>7, Numbers DEF InOut, InRes, InAns
<1>9. Run(pipe["ans"].data, InRes + D("ddown")) =>
        chunk'["ddown"] = InRes' + 1 /\ Run(pipe'["ans"].data, InRes' + D("ddown")')
  BY <1>1, <1>3, <1>4, <1>6, <1>7, <1>8, Numbers DEF Removed
<1>10. Typed'
  BY <1>1, <1>2, <1>3, <1>4, ChunksAreNumbers, CopyingTyped, Names
<1>11. Control'
  BY <1>1, <1>2, <1>3, <1>4, <1>5, <1>6, <1>7, Numbers DEF Control
<1>12. Upward' /\ (CountedUp => CountedUp')
  BY <1>1, <1>3, <1>4, <1>6, UpwardFrame
<1>13. Downward' /\ (CountedDown => CountedDown')
  <2> USE DEF OutOpen, DownOpen
  <2>1. OutFollows'
    BY <1>1, <1>2, <1>3, <1>4, <1>5, <1>6, <1>7, <1>8, <1>9 DEF Downward, OutFollows, ResFollows
  <2>2. ResFollows'
    BY <1>1, <1>2, <1>3, <1>4, <1>5, <1>6, <1>7, <1>8, <1>9 DEF Downward, ResFollows, AnsFollows
  <2>3. AnsFollows'
    BY <1>1, <1>2, <1>3, <1>4, <1>5, <1>6, <1>7, <1>8, <1>9 DEF Downward, AnsFollows, Control
  <2>4. CountedDown => CountedDown'
    BY <1>1, <1>5, <1>7, <1>8, Numbers DEF CountedDown
  <2> QED
    BY <2>1, <2>2, <2>3, <2>4 DEF Downward
<1>14. Linked => Linked'
  BY <1>1, <1>2, <1>3, <1>4, <1>5, <1>6, <1>7, Numbers DEF Linked, Control
<1> QED
  BY <1>1, <1>3, <1>10, <1>11, <1>12, <1>13, <1>14 DEF IInv, Whole

\* ... and writes it.
LEMMA WriteDdownKeeps ==
  ASSUME IInv, Write("ddown") PROVE IInv'
<1>1. Typed /\ Control /\ Upward /\ Downward /\ Whole
  BY DEF IInv
<1>2. /\ pc["ddown"] = "write" /\ HasRoom("res") /\ pipe' = Pushed("res", chunk["ddown"])
      /\ chunk' = [chunk EXCEPT !["ddown"] = 0] /\ pc' = [pc EXCEPT !["ddown"] = "read"]
  BY Names DEF Write, Accepts
<1>3. UNCHANGED <<client, remote, listening, broken>>
  BY DEF Write
<1>4. PipesTyped' /\ Added("res", chunk["ddown"]) /\ KeptBut({"res"})
  BY <1>1, <1>2, PushedChanges, PipeNames, Names DEF Typed, KeptBut, Kept, HasRoom, N
<1>5. UNCHANGED Ends("res") /\ N("res")' = N("res") + 1
  BY <1>4 DEF Added
<1>6. /\ pc'["ddown"] = "read" /\ chunk'["ddown"] = 0
      /\ UNCHANGED <<pc["wup"], pc["dup"], pc["wdown"],
                     chunk["wup"], chunk["dup"], chunk["wdown"]>>
  BY <1>1, <1>2, Names DEF Typed
<1> USE DEF KeptBut, Kept, Ends, HasRoom
<1>7. /\ UNCHANGED <<N("in"), N("req"), N("fwd"), N("ans"), N("out"),
                     D("wup"), D("dup"), D("wdown"), Frame, HasFrame, Answered>>
      /\ D("ddown") = 1 /\ D("ddown")' = 0
  BY <1>2, <1>3, <1>4, <1>6 DEF N, D, Frame, HasFrame, Answered
<1>8. /\ InRes' = InRes + 1 /\ UNCHANGED <<InOut, InAns>>
      /\ UNCHANGED (InRes + D("ddown"))
      /\ InAns <= Answered => InRes' <= Answered
      /\ N("res")' > 0
  BY <1>1, <1>3, <1>5, <1>7, Numbers DEF InOut, InRes, InAns
<1>9. Run(pipe["res"].data, InOut + D("wdown") - Frame) /\ chunk["ddown"] = InRes + 1 =>
        Run(pipe'["res"].data, InOut' + D("wdown")' - Frame')
  BY <1>1, <1>3, <1>4, <1>7, <1>8, Numbers DEF Added, InRes
<1>10. Typed'
  BY <1>1, <1>2, <1>3, <1>4, ChunksAreNumbers, CopyingTyped, Names
<1>11. Control'
  BY <1>1, <1>2, <1>3, <1>4, <1>5, <1>6, <1>7, Numbers DEF Control, Upward, Unread
<1>12. Upward' /\ (CountedUp => CountedUp')
  BY <1>1, <1>3, <1>4, <1>6, UpwardFrame
<1>13. Downward' /\ (CountedDown => CountedDown')
  <2> USE DEF OutOpen, DownOpen
  <2>1. OutFollows'
    BY <1>1, <1>2, <1>3, <1>4, <1>5, <1>6, <1>7, <1>8, <1>9 DEF Downward, OutFollows, ResFollows
  <2>2. ResFollows'
    BY <1>1, <1>2, <1>3, <1>4, <1>5, <1>6, <1>7, <1>8, <1>9 DEF Downward, ResFollows, AnsFollows
  <2>3. AnsFollows'
    BY <1>1, <1>2, <1>3, <1>4, <1>5, <1>6, <1>7, <1>8, <1>9 DEF Downward, AnsFollows, Control
  <2>4. CountedDown => CountedDown'
    BY <1>1, <1>5, <1>7, <1>8, Numbers DEF CountedDown
  <2> QED
    BY <2>1, <2>2, <2>3, <2>4 DEF Downward
<1>14. Linked => Linked'
  BY <1>1, <1>2, <1>3, <1>4, <1>5, <1>6, <1>7, Numbers DEF Linked, Control
<1> QED
  BY <1>1, <1>3, <1>10, <1>11, <1>12, <1>13, <1>14 DEF IInv, Whole

\* A pipe of which an end may be closed, and its reader take with it what it holds.
Shrinks(p) ==
  /\ pipe'[p].data = pipe[p].data \/ pipe'[p].data = <<>>
  /\ pipe'[p].w => pipe[p].w
  /\ pipe'[p].r => pipe[p].r

Closes(p) == Shrinks(p) /\ (pipe'[p].r => pipe'[p].data = pipe[p].data)

\* A thread that has done nothing.
Stays(t) == pc'[t] = pc[t] /\ chunk'[t] = chunk[t]

\* Closing ends, when only what is left of each pipe matters.
LEMMA ClosingChanges ==
  ASSUME PipesTyped, NEW rs, NEW ws, pipe' = WriteEndsClosed(ReadEndsClosed(pipe, rs), ws)
  PROVE  /\ PipesTyped'
         /\ \A p \in Pipes :
              /\ Closes(p)
              /\ p \notin rs => pipe'[p].data = pipe[p].data /\ pipe'[p].r = pipe[p].r
              /\ p \notin ws => pipe'[p].w = pipe[p].w
              /\ p \in rs => pipe'[p].data = <<>> /\ ~pipe'[p].r
              /\ p \in ws => ~pipe'[p].w
<1>1. pipe \in PipeStates /\ \A p \in Pipes : Len(pipe[p].data) <= Capacity
  BY DEF PipesTyped
<1>2. PipesTyped'
  BY <1>1, Closing DEF PipesTyped
<1> DEFINE f == ReadEndsClosed(pipe, rs)
<1>3. ASSUME NEW p \in Pipes
      PROVE  /\ p \notin rs => f[p].data = pipe[p].data /\ f[p].r = pipe[p].r
             /\ p \in rs => f[p].data = <<>> /\ ~f[p].r
             /\ f[p].w = pipe[p].w
             /\ f[p] \in [data : Seq(Chunks), w : BOOLEAN, r : BOOLEAN]
  <2>1. pipe[p] \in [data : Seq(Chunks), w : BOOLEAN, r : BOOLEAN]
    BY <1>1 DEF PipeStates
  <2>2. f[p] = IF p \in rs THEN [pipe[p] EXCEPT !.data = <<>>, !.r = FALSE] ELSE pipe[p]
    BY DEF ReadEndsClosed
  <2> HIDE DEF f
  <2>3. CASE p \notin rs
    <3>1. f[p] = pipe[p]
      BY <2>2, <2>3
    <3> QED
      BY <2>1, <2>3, <3>1
  <2>4. CASE p \in rs
    <3>1. f[p] = [pipe[p] EXCEPT !.data = <<>>, !.r = FALSE] /\ <<>> \in Seq(Chunks)
      BY <2>2, <2>4
    <3> QED
      BY <2>1, <2>4, <3>1
  <2> QED
    BY <2>3, <2>4
<1>4. ASSUME NEW p \in Pipes
      PROVE  /\ pipe'[p].data = f[p].data /\ pipe'[p].r = f[p].r
             /\ p \notin ws => pipe'[p].w = f[p].w
             /\ p \in ws => ~pipe'[p].w
  <2>1. pipe'[p] = IF p \in ws THEN [f[p] EXCEPT !.w = FALSE] ELSE f[p]
    BY DEF WriteEndsClosed
  <2> HIDE DEF f
  <2> QED
    BY <1>3, <2>1
<1> HIDE DEF f
<1> QED
  BY <1>2, <1>3, <1>4 DEF Closes, Shrinks

\* A pipe that shrinks holds as much as it did, or nothing.
LEMMA ShrinkingCounts ==
  ASSUME NEW p, Shrinks(p)
  PROVE  /\ N(p)' = N(p) \/ N(p)' = 0
         /\ pipe'[p].data = pipe[p].data => N(p)' = N(p)
         /\ pipe'[p].data = <<>> => N(p)' = 0
BY DEF Shrinks, N

\* Closing ends and ending threads cuts the ways, and disturbs none that stays open.
LEMMA UpwardCloses ==
  ASSUME Typed, Typed', Upward, UNCHANGED <<client.sent, remote.got>>,
         Closes("req"), Closes("fwd"),
         pipe'["in"].data = pipe["in"].data \/ pc'["wup"] = "done",
         Stays("wup") \/ pc'["wup"] = "done",
         Stays("dup") \/ pc'["dup"] = "done"
  PROVE  Upward'
<1>1. /\ N("req")' = N("req") \/ N("req")' = 0
      /\ N("fwd")' = N("fwd") \/ N("fwd")' = 0
      /\ pipe'["in"].data = pipe["in"].data => N("in")' = N("in")
      /\ pipe'["req"].data = pipe["req"].data => N("req")' = N("req")
      /\ pipe'["fwd"].data = pipe["fwd"].data => N("fwd")' = N("fwd")
  BY ShrinkingCounts DEF Closes, N
<1>2. /\ Stays("wup") => UNCHANGED D("wup")
      /\ Stays("dup") => UNCHANGED D("dup")
  BY DEF Stays, D
<1>3. /\ InFwd <= client.sent => InFwd' <= client'.sent
      /\ N("fwd")' = N("fwd") => InFwd' = InFwd
  BY <1>1, Numbers DEF InFwd
<1>4. N("fwd")' = N("fwd") /\ D("dup")' = D("dup") =>
        /\ InReq <= client.sent => InReq' <= client'.sent
        /\ N("req")' = N("req") => InReq' = InReq
  BY <1>1, <1>3, Numbers DEF InReq
<1>5. InReq' = InReq /\ D("wup")' = D("wup") /\ N("in")' = N("in") => InIn' = InIn
  BY DEF InIn
<1>6. \A b : Run(<<>>, b)
  BY RunEmpty
<1>7. FwdFollows'
  BY <1>3, <1>6 DEF Upward, FwdFollows, Closes, Shrinks
<1>8. DupOpen' => DupOpen /\ Stays("dup") /\ pipe'["fwd"].data = pipe["fwd"].data
  BY DEF DupOpen, Closes, Shrinks, Stays
<1>9. ReqFollows'
  BY <1>1, <1>2, <1>3, <1>4, <1>6, <1>8 DEF Upward, ReqFollows, Closes, Shrinks, Stays
<1>10. WupOpen' => /\ WupOpen /\ Stays("wup") /\ pipe'["req"].data = pipe["req"].data
                   /\ pipe'["in"].data = pipe["in"].data
  BY <1>8 DEF WupOpen, Closes, Shrinks, Stays
<1>11. InFollows'
  BY <1>1, <1>2, <1>3, <1>4, <1>5, <1>8, <1>10 DEF Upward, InFollows, WupOpen, Stays
<1>12. Unread'
  BY <1>1 DEF Upward, Unread, Stays
<1> QED
  BY <1>7, <1>9, <1>11, <1>12 DEF Upward

\* The same downwards.
LEMMA DownwardCloses ==
  ASSUME Typed, Typed', Downward, UNCHANGED <<client.got, Answered>>,
         Closes("out"), Closes("res"), Shrinks("ans"),
         remote'.state = remote.state \/ remote'.state # "serving",
         pipe'["ans"].data = pipe["ans"].data \/ remote'.state # "serving" \/ pc'["ddown"] = "done",
         Stays("wdown") \/ pc'["wdown"] = "gone",
         Stays("ddown") \/ pc'["ddown"] \notin {"read", "write"}
  PROVE  Downward'
<1>1. /\ N("out")' = N("out") \/ N("out")' = 0
      /\ N("res")' = N("res") \/ N("res")' = 0
      /\ N("ans")' = N("ans") \/ N("ans")' = 0
      /\ pipe'["out"].data = pipe["out"].data => N("out")' = N("out")
      /\ pipe'["res"].data = pipe["res"].data => N("res")' = N("res")
      /\ pipe'["ans"].data = pipe["ans"].data => N("ans")' = N("ans")
  BY ShrinkingCounts DEF Closes, N
<1>2. /\ Stays("wdown") => UNCHANGED <<D("wdown"), Frame>>
      /\ Stays("ddown") => UNCHANGED D("ddown")
  BY DEF Stays, D, Frame
<1>3. InOut' \in Nat /\ InOut' <= InOut /\ (N("out")' = N("out") => InOut' = InOut)
  BY <1>1, Numbers DEF InOut
<1>4. N("out")' = N("out") /\ UNCHANGED <<D("wdown"), Frame>> =>
        InRes' \in Int /\ InRes' <= InRes /\ (N("res")' = N("res") => InRes' = InRes)
  BY <1>1, <1>3, Numbers DEF InRes
<1>5. InRes' = InRes /\ D("ddown")' = D("ddown") =>
        InAns' \in Int /\ InAns' <= InAns /\ (N("ans")' = N("ans") => InAns' = InAns)
  BY <1>1, Numbers DEF InAns
<1>6. ASSUME NEW x \in Int, NEW y \in Int, y <= Answered, x <= y PROVE x <= Answered'
  <2>1. Answered' = Answered /\ Answered \in Int
    BY Numbers
  <2> QED
    BY <1>6, <2>1
<1>7. \A b : Run(<<>>, b)
  BY RunEmpty
<1>8. OutFollows'
  <2>1. InOut' <= Answered'
    BY <1>3, <1>6, Numbers DEF Downward, OutFollows
  <2> QED
    BY <1>7, <2>1 DEF Downward, OutFollows, Closes, Shrinks
<1>9. OutOpen' => OutOpen /\ Stays("wdown") /\ pipe'["out"].data = pipe["out"].data
  BY DEF OutOpen, Closes, Shrinks, Stays
<1>10. ResFollows'
  BY <1>1, <1>2, <1>3, <1>4, <1>6, <1>7, <1>9, Numbers
     DEF Downward, ResFollows, Closes, Shrinks, Stays
<1>11. DownOpen' => DownOpen /\ Stays("ddown") /\ pipe'["res"].data = pipe["res"].data
  BY <1>9 DEF DownOpen, Closes, Shrinks, Stays
<1>12. AnsFollows'
  BY <1>1, <1>2, <1>3, <1>4, <1>5, <1>6, <1>7, <1>9, <1>11, Numbers
     DEF Downward, AnsFollows, DownOpen, Shrinks, Stays
<1> QED
  BY <1>8, <1>10, <1>12 DEF Downward

-----------------------------------------------------------------------------
\* The remote takes a request.
LEMMA TakeKeeps ==
  ASSUME IInv, Take PROVE IInv'
<1>1. Typed /\ Control /\ Upward /\ Downward /\ Whole
  BY DEF IInv
<1>2. /\ remote.state = "serving" /\ remote.work = 0 /\ pipe["fwd"].data # <<>> /\ pipe' = Popped("fwd")
      /\ remote' = [remote EXCEPT !.got = Head(pipe["fwd"].data), !.work = Head(pipe["fwd"].data)]
      /\ UNCHANGED <<pc, chunk, client, listening, broken>>
  BY DEF Take
<1>3. PipesTyped' /\ Removed("fwd") /\ Head(pipe["fwd"].data) \in Chunks /\ KeptBut({"fwd"})
  BY <1>1, <1>2, PoppedChanges, PipeNames DEF Typed, KeptBut, Kept
<1>4. UNCHANGED Ends("fwd") /\ N("fwd") > 0 /\ N("fwd")' = N("fwd") - 1
  BY <1>3 DEF Removed
<1>5. Head(pipe["fwd"].data) = remote.got + 1 /\ Run(pipe'["fwd"].data, remote.got + 1)
  BY <1>1, <1>3, Numbers DEF Removed, Upward, FwdFollows
<1>6. /\ remote'.got = remote.got + 1 /\ remote'.work = remote.got + 1 /\ remote'.work # 0
      /\ remote'.state = remote.state
      /\ pc["dup"] # "off"
  <2>1. /\ remote'.got = remote.got + 1 /\ remote'.work = remote.got + 1
        /\ remote'.state = remote.state
    BY <1>1, <1>2, <1>5 DEF Typed
  <2>2. remote.got \in Nat /\ pc["dup"] # "off"
    BY <1>1, <1>4, Numbers DEF Control
  <2> QED
    BY <2>1, <2>2
<1> USE DEF KeptBut, Kept, Ends
<1>7. UNCHANGED <<N("in"), N("req"), N("ans"), N("res"), N("out"), D("wup"), D("dup")>>
  BY <1>2, <1>3 DEF N, D
<1>8. UNCHANGED <<Answered, InFwd, InReq, InIn>>
  <2>1. UNCHANGED Answered
    <3>1. Answered = remote.got /\ Answered' = remote'.got - 1 /\ remote.got \in Nat
      BY <1>1, <1>2, <1>6, Numbers DEF Answered
    <3> QED
      BY <1>6, <3>1
  <2>2. UNCHANGED <<InFwd, InReq, InIn>>
    BY <1>1, <1>4, <1>6, <1>7, Numbers DEF InFwd, InReq, InIn
  <2> QED
    BY <2>1, <2>2
<1>9. Typed'
  <2>1. remote' \in [got : Chunks, work : Chunks, state : {"none", "serving", "ended"}]
    BY <1>1, <1>2, <1>3 DEF Typed
  <2> QED
    BY <1>1, <1>2, <1>3, <2>1 DEF Typed
<1>10. Control'
  BY <1>1, <1>2, <1>3, <1>4, <1>6, <1>7 DEF Control
<1>11. Upward' /\ (CountedUp => CountedUp')
  <2>1. FwdFollows'
    BY <1>1, <1>2, <1>5, <1>6, <1>8 DEF Upward, FwdFollows
  <2>2. ReqFollows'
    BY <1>1, <1>2, <1>3, <1>4, <1>7, <1>8 DEF Upward, ReqFollows, DupOpen
  <2>3. InFollows'
    BY <1>1, <1>2, <1>3, <1>4, <1>7, <1>8 DEF Upward, InFollows, DupOpen, WupOpen
  <2>4. Unread'
    BY <1>1, <1>2, <1>4, Numbers DEF Upward, Unread
  <2>5. CountedUp => CountedUp'
    BY <1>2, <1>8 DEF CountedUp
  <2> QED
    BY <2>1, <2>2, <2>3, <2>4, <2>5 DEF Upward
<1>12. Downward' /\ (CountedDown => CountedDown')
  BY <1>1, <1>2, <1>3, <1>6, <1>8, DownwardFrame
<1>13. Linked => Linked'
  BY <1>2, <1>3, <1>4, <1>6, <1>7 DEF Linked
<1> QED
  BY <1>1, <1>2, <1>9, <1>10, <1>11, <1>12, <1>13 DEF IInv, Whole

\* The remote answers.
LEMMA AnswerKeeps ==
  ASSUME IInv, Answer PROVE IInv'
<1>1. Typed /\ Control /\ Upward /\ Downward /\ Whole
  BY DEF IInv
<1>2. /\ remote.state = "serving" /\ remote.work # 0 /\ HasRoom("ans")
      /\ pipe' = Pushed("ans", remote.work) /\ remote' = [remote EXCEPT !.work = 0]
      /\ UNCHANGED <<pc, chunk, client, listening, broken>>
  BY DEF Answer
<1>3. PipesTyped' /\ Added("ans", remote.work) /\ KeptBut({"ans"})
  BY <1>1, <1>2, PushedChanges, PipeNames DEF Typed, KeptBut, Kept, HasRoom, N
<1>4. UNCHANGED Ends("ans") /\ N("ans")' = N("ans") + 1
  BY <1>3 DEF Added
<1>5. /\ remote'.got = remote.got /\ remote'.work = 0 /\ remote'.state = remote.state
      /\ remote.work = remote.got
  BY <1>1, <1>2 DEF Typed, Control
<1> USE DEF KeptBut, Kept, Ends
<1>6. UNCHANGED <<N("in"), N("req"), N("fwd"), N("res"), N("out"), D("wdown"), D("ddown"),
                  Frame, HasFrame>>
  BY <1>2, <1>3 DEF N, D, Frame, HasFrame
<1>7. /\ Answered' = Answered + 1 /\ remote.work = Answered + 1 /\ InAns' = InAns + 1
      /\ UNCHANGED <<InOut, InRes>>
  <2>1. Answered' = Answered + 1 /\ remote.work = Answered + 1
    BY <1>1, <1>2, <1>5, Numbers DEF Answered
  <2>2. InAns' = InAns + 1 /\ UNCHANGED <<InOut, InRes>>
    BY <1>1, <1>2, <1>4, <1>6, Numbers DEF InOut, InRes, InAns
  <2> QED
    BY <2>1, <2>2
<1>8. /\ InOut <= Answered => InOut <= Answered'
      /\ InRes <= Answered => InRes <= Answered'
      /\ InAns <= Answered => InAns' <= Answered'
      /\ InAns = Answered => InAns' = Answered'
  BY <1>1, <1>7, Numbers
<1>9. Run(pipe["ans"].data, InRes + D("ddown")) /\ InAns = Answered =>
        Run(pipe'["ans"].data, InRes' + D("ddown")')
  BY <1>1, <1>3, <1>6, <1>7, Numbers DEF Added, InAns
<1>10. Typed'
  <2>1. remote' \in [got : Chunks, work : Chunks, state : {"none", "serving", "ended"}]
    BY <1>1, <1>2, ChunksAreNumbers DEF Typed
  <2> QED
    BY <1>1, <1>2, <1>3, <2>1 DEF Typed
<1>11. Control'
  BY <1>1, <1>2, <1>3, <1>4, <1>5, <1>6, Numbers DEF Control
<1>12. Upward' /\ (CountedUp => CountedUp')
  BY <1>1, <1>2, <1>3, <1>5, UpwardFrame
<1>13. Downward' /\ (CountedDown => CountedDown')
  <2>1. OutFollows'
    BY <1>1, <1>2, <1>3, <1>7, <1>8 DEF Downward, OutFollows
  <2>2. ResFollows'
    BY <1>1, <1>2, <1>3, <1>6, <1>7, <1>8 DEF Downward, ResFollows, OutOpen
  <2>3. AnsFollows'
    BY <1>1, <1>2, <1>3, <1>6, <1>7, <1>8, <1>9 DEF Downward, AnsFollows, OutOpen, DownOpen
  <2>4. CountedDown => CountedDown'
    BY <1>1, <1>4, <1>6, <1>7, Numbers DEF CountedDown
  <2> QED
    BY <2>1, <2>2, <2>3, <2>4 DEF Downward
<1>14. Linked => Linked'
  BY <1>2, <1>3, <1>4, <1>5, <1>6 DEF Linked
<1> QED
  BY <1>1, <1>2, <1>10, <1>11, <1>12, <1>13, <1>14 DEF IInv, Whole

\* The remote has ended, in order or not.
LEMMA RemoteGoneKeeps ==
  ASSUME IInv, NEW lost \in BOOLEAN, remote.state = "serving", RemoteGone(lost), broken' \in BOOLEAN
  PROVE  /\ Typed' /\ Control' /\ Upward' /\ Downward'
         /\ Closes("fwd") /\ pipe'["fwd"].data = <<>> /\ pipe'["fwd"].w = pipe["fwd"].w
         /\ ~pipe'["ans"].w /\ pipe'["ans"].r = pipe["ans"].r /\ Shrinks("ans")
         /\ ~lost => pipe'["ans"].data = pipe["ans"].data
         /\ remote'.state = "ended" /\ remote'.got = remote.got /\ Answered' = Answered
         /\ UNCHANGED <<pipe["in"], pipe["req"], pipe["res"], pipe["out"], pc, chunk, client>>
<1>1. Typed /\ Control /\ Upward /\ Downward /\ Whole
  BY DEF IInv
<1> DEFINE f == WriteEndsClosed(ReadEndsClosed(pipe, {"fwd"}), {"ans"})
<1>2. /\ remote' = [remote EXCEPT !.state = "ended"]
      /\ pipe' = IF lost THEN [f EXCEPT !["ans"].data = <<>>] ELSE f
      /\ UNCHANGED <<pc, chunk, client, listening>>
  BY DEF RemoteGone
<1>3. /\ f \in PipeStates /\ \A p \in Pipes : Len(f[p].data) <= Capacity
      /\ \A p \in {"in", "req", "res", "out"} : f[p] = pipe[p]
      /\ f["fwd"] = [data |-> <<>>, w |-> pipe["fwd"].w, r |-> FALSE]
      /\ f["ans"] = [data |-> pipe["ans"].data, w |-> FALSE, r |-> pipe["ans"].r]
  <2>1. f = WriteEndsClosed(ReadEndsClosed(pipe, {"fwd"}), {"ans"})
    OBVIOUS
  <2>2. pipe \in PipeStates /\ \A p \in Pipes : Len(pipe[p].data) <= Capacity
    BY <1>1 DEF Typed, PipesTyped
  <2> HIDE DEF f
  <2>3. /\ f \in PipeStates /\ \A p \in Pipes : Len(f[p].data) <= Capacity
        /\ \A p \in Pipes \ ({"fwd"} \cup {"ans"}) : f[p] = pipe[p]
        /\ \A p \in Pipes \cap ({"fwd"} \ {"ans"}) :
             f[p] = [data |-> <<>>, w |-> pipe[p].w, r |-> FALSE]
        /\ \A p \in Pipes \cap ({"ans"} \ {"fwd"}) :
             f[p] = [data |-> pipe[p].data, w |-> FALSE, r |-> pipe[p].r]
    BY <2>1, <2>2, Closing
  <2> QED
    BY <2>3, PipeNames
<1> HIDE DEF f
<1>4. /\ pipe["fwd"] \in [data : Seq(Chunks), w : BOOLEAN, r : BOOLEAN]
      /\ pipe["ans"] \in [data : Seq(Chunks), w : BOOLEAN, r : BOOLEAN]
  BY <1>1, PipeNames DEF Typed, PipesTyped, PipeStates
<1>5. /\ f["fwd"].data = <<>> /\ f["fwd"].w = pipe["fwd"].w /\ ~f["fwd"].r
      /\ f["ans"].data = pipe["ans"].data /\ ~f["ans"].w /\ f["ans"].r = pipe["ans"].r
  BY <1>3, <1>4
<1>6. /\ PipesTyped' /\ Closes("fwd") /\ pipe'["fwd"].data = <<>> /\ pipe'["fwd"].w = pipe["fwd"].w
      /\ ~pipe'["fwd"].r
      /\ ~pipe'["ans"].w /\ pipe'["ans"].r = pipe["ans"].r /\ Shrinks("ans")
      /\ ~lost => pipe'["ans"].data = pipe["ans"].data
      /\ UNCHANGED <<pipe["in"], pipe["req"], pipe["res"], pipe["out"]>>
  <2>1. CASE ~lost
    BY <1>2, <1>3, <1>5, <2>1 DEF PipesTyped, Closes, Shrinks
  <2>2. CASE lost
    <3>1. pipe' = [f EXCEPT !["ans"].data = <<>>] /\ <<>> \in Seq(Chunks) /\ Len(<<>>) <= Capacity
      BY <1>2, <2>2, ParametersAssumption
    <3>2. /\ pipe' \in PipeStates /\ pipe'["ans"].data = <<>>
          /\ \A p \in Pipes : p # "ans" => pipe'[p] = f[p]
          /\ pipe'["ans"].w = f["ans"].w /\ pipe'["ans"].r = f["ans"].r
      BY <1>3, <3>1, PipeNames DEF PipeStates
    <3>3. PipesTyped'
      BY <1>3, <3>1, <3>2 DEF PipesTyped
    <3> QED
      BY <1>3, <1>5, <2>2, <3>2, <3>3, PipeNames DEF Closes, Shrinks
  <2> QED
    BY <2>1, <2>2
<1>7. /\ remote'.state = "ended" /\ remote'.got = remote.got /\ remote'.work = remote.work
      /\ remote' \in [got : Chunks, work : Chunks, state : {"none", "serving", "ended"}]
  BY <1>1, <1>2 DEF Typed
<1>8. Answered' = Answered
  BY <1>7 DEF Answered
<1>9. Typed'
  BY <1>1, <1>2, <1>6, <1>7 DEF Typed
<1>10. /\ UNCHANGED <<N("in"), N("req"), N("res"), N("out")>> /\ N("fwd")' = 0
       /\ N("ans")' = N("ans") \/ N("ans")' = 0
  BY <1>6, ShrinkingCounts DEF N, Closes
<1>11. Control'
  BY <1>1, <1>2, <1>6, <1>7, <1>10 DEF Control
<1>12. Stays("wup") /\ Stays("dup") /\ Stays("wdown") /\ Stays("ddown")
  BY <1>2 DEF Stays
<1>13. Closes("req") /\ Closes("res") /\ Closes("out")
  BY <1>6 DEF Closes, Shrinks
<1>14. Upward'
  BY <1>1, <1>2, <1>6, <1>7, <1>9, <1>12, <1>13, UpwardCloses
<1>15. Downward'
  BY <1>1, <1>2, <1>6, <1>7, <1>8, <1>9, <1>12, <1>13, DownwardCloses
<1> QED
  BY <1>2, <1>6, <1>7, <1>8, <1>9, <1>11, <1>14, <1>15

\* The worker or the network is lost.
LEMMA RemoteDiesKeeps ==
  ASSUME IInv, RemoteDies PROVE IInv'
<1>1. PICK lost \in BOOLEAN : remote.state = "serving" /\ RemoteGone(lost) /\ broken' = TRUE
  BY DEF RemoteDies
<1> QED
  BY <1>1, RemoteGoneKeeps DEF IInv, Whole

\* The remote ends: at the end of its input it has answered all, and nobody but a
\* broken relay refuses its answers.
LEMMA RemoteEndsKeeps ==
  ASSUME IInv, RemoteEnds PROVE IInv'
<1>1. /\ remote.state = "serving" /\ RemoteGone(FALSE) /\ broken' = broken
      /\ (Ended("fwd") /\ remote.work = 0) \/ ~pipe["ans"].r
  BY DEF RemoteEnds
<1>2. Typed /\ Control /\ Upward /\ Downward /\ Whole
  BY DEF IInv
<1>3. /\ Typed' /\ Control' /\ Upward' /\ Downward'
      /\ Closes("fwd") /\ pipe'["fwd"].data = <<>> /\ pipe'["fwd"].w = pipe["fwd"].w
      /\ ~pipe'["ans"].w /\ pipe'["ans"].r = pipe["ans"].r
      /\ pipe'["ans"].data = pipe["ans"].data
      /\ remote'.state = "ended" /\ remote'.got = remote.got /\ Answered' = Answered
      /\ UNCHANGED <<pipe["in"], pipe["req"], pipe["res"], pipe["out"], pc, chunk, client>>
  BY <1>1, <1>2, RemoteGoneKeeps DEF Typed
<1>4. /\ UNCHANGED <<N("in"), N("req"), N("ans"), N("res"), N("out"), D("wup"), D("dup"),
                     D("wdown"), D("ddown"), HasFrame>>
      /\ N("fwd")' = 0
  BY <1>3 DEF N, D, HasFrame
<1>5. ASSUME ~broken PROVE Linked' /\ CountedUp' /\ CountedDown'
  <2>1. Linked /\ CountedUp /\ CountedDown
    BY <1>2, <1>5 DEF Whole
  <2>2. Ended("fwd")
    BY <1>1, <1>2, <2>1 DEF Linked, Control, Typed
  <2>3. N("fwd") = 0 /\ ~pipe["fwd"].w
    BY <2>2 DEF Ended, N
  <2>4. Linked'
    BY <1>1, <1>3, <1>4, <2>1, <2>3 DEF Linked, Closes
  <2>5. CountedUp' /\ CountedDown'
    BY <1>3, <1>4, <2>1, <2>3 DEF CountedUp, CountedDown, InIn, InReq, InFwd, InOut
  <2> QED
    BY <2>4, <2>5
<1> QED
  BY <1>1, <1>3, <1>5 DEF IInv, Whole

\* The wrapper has ended, and with it what it had not copied.
LEMMA WrapperGoneKeeps ==
  ASSUME IInv, NEW rs, NEW ws, {"in", "res"} \subseteq rs, rs \subseteq {"in", "res", "out"},
         {"req", "out"} \subseteq ws, ws \subseteq {"in", "req", "out"},
         pc' = [pc EXCEPT !["wup"] = "done", !["wdown"] = "gone"],
         chunk' = [chunk EXCEPT !["wup"] = 0, !["wdown"] = 0],
         pipe' = WriteEndsClosed(ReadEndsClosed(pipe, rs), ws),
         client' \in [sent : Chunks, got : Chunks, input : BOOLEAN, alive : BOOLEAN],
         UNCHANGED <<client.sent, client.got, remote, listening>>, broken' \in BOOLEAN
  PROVE  /\ Typed' /\ Control' /\ Upward' /\ Downward'
         /\ pc'["wup"] = "done" /\ pc'["wdown"] = "gone"
         /\ UNCHANGED <<pc["dup"], pc["ddown"], chunk["dup"], chunk["ddown"]>>
<1>1. Typed /\ Control /\ Upward /\ Downward
  BY DEF IInv
<1>2. /\ PipesTyped' /\ Closes("in") /\ Closes("req") /\ Closes("res") /\ Closes("out")
      /\ Closes("fwd") /\ Closes("ans")
      /\ UNCHANGED <<pipe["req"].data, pipe["fwd"].data, pipe["ans"].data,
                     pipe["fwd"].r, pipe["fwd"].w>>
      /\ ~pipe'["res"].r /\ pipe'["res"].data = <<>>
  BY <1>1, ClosingChanges, PipeNames DEF Typed
<1>3. /\ pc'["wup"] = "done" /\ pc'["wdown"] = "gone"
      /\ chunk'["wup"] = 0
      /\ UNCHANGED <<pc["dup"], pc["ddown"], chunk["dup"], chunk["ddown"]>>
  BY <1>1, Names DEF Typed
<1>4. Typed'
  <2>1. pc' \in [Threads -> Labels] /\ chunk' \in [Threads -> Chunks]
    BY <1>1, ChunksAreNumbers DEF Typed, Labels
  <2> QED
    BY <1>1, <1>2, <1>3, <2>1 DEF Typed
<1>5. /\ UNCHANGED <<N("req"), N("fwd"), N("ans")>> /\ N("res")' = 0
      /\ N("out")' = N("out") \/ N("out")' = 0
  BY <1>2, ShrinkingCounts DEF N, Closes
<1>6. Control'
  BY <1>1, <1>2, <1>3, <1>5 DEF Control, Closes, Shrinks
<1>7. Stays("dup") /\ Stays("ddown") /\ UNCHANGED Answered /\ Shrinks("ans")
  BY <1>2, <1>3 DEF Stays, Answered, Closes
<1>8. Upward'
  BY <1>1, <1>2, <1>3, <1>4, <1>7, UpwardCloses
<1>9. Downward'
  BY <1>1, <1>2, <1>3, <1>4, <1>7, DownwardCloses
<1> QED
  BY <1>3, <1>4, <1>6, <1>8, <1>9

\* No connection, or no ready frame.
LEMMA ConnectFailsKeeps ==
  ASSUME IInv, ConnectFails \/ NotWelcomed PROVE IInv'
<1>1. WrapperGone /\ broken' = TRUE /\ UNCHANGED <<client, remote, listening>>
  BY DEF ConnectFails, NotWelcomed
<1>2. Typed' /\ Control' /\ Upward' /\ Downward'
  BY <1>1, WrapperGoneKeeps DEF WrapperGone, IInv, Typed
<1> QED
  BY <1>1, <1>2 DEF IInv, Whole

\* The wrapper ends after the last answer.
LEMMA WrapperEndsKeeps ==
  ASSUME IInv, WrapperEnds PROVE IInv'
<1>1. Typed /\ Control /\ Upward /\ Downward /\ Whole
  BY DEF IInv
<1>2. /\ \/ pc["wdown"] = "read" /\ Ended("res")
         \/ pc["wdown"] = "write" /\ Refuses("out")
      /\ WrapperGone /\ UNCHANGED <<client, remote, listening, broken>>
  BY DEF WrapperEnds
<1>3. /\ Typed' /\ Control' /\ Upward' /\ Downward'
      /\ pc'["wup"] = "done" /\ pc'["wdown"] = "gone"
      /\ UNCHANGED <<pc["dup"], pc["ddown"], chunk["dup"], chunk["ddown"]>>
  BY <1>1, <1>2, WrapperGoneKeeps DEF WrapperGone, Typed
<1>4. /\ UNCHANGED <<pipe["fwd"], pipe["ans"]>>
      /\ UNCHANGED <<pipe["in"].w, pipe["req"].data, pipe["req"].r, pipe["res"].w,
                     pipe["out"].data>>
      /\ pipe'["in"].data = <<>> /\ pipe'["res"].data = <<>>
      /\ ~pipe'["res"].r /\ ~pipe'["req"].w /\ ~pipe'["out"].w
  <2>1. pipe' = WriteEndsClosed(ReadEndsClosed(pipe, {"in", "res"}), {"req", "out"})
    BY <1>2 DEF WrapperGone
  <2>2. UNCHANGED <<pipe["fwd"], pipe["ans"]>>
    BY <2>1, PipeNames DEF WriteEndsClosed, ReadEndsClosed
  <2> QED
    BY <1>1, <2>1, <2>2, ClosingChanges, PipeNames DEF Typed
<1>5. ASSUME ~broken PROVE Linked' /\ CountedUp' /\ CountedDown'
  <2>1. Linked /\ CountedUp /\ CountedDown
    BY <1>1, <1>5 DEF Whole
  <2>2. pc["wdown"] = "read" /\ N("res") = 0 /\ ~pipe["res"].w
    BY <1>2, <2>1 DEF Linked, Ended, Refuses, N
  <2>3. /\ pc["ddown"] = "done" /\ pc["dup"] = "done" /\ pc["wup"] = "done"
        /\ N("in") = 0
    BY <1>1, <2>1, <2>2 DEF Linked, Control, Typed
  <2>4. /\ UNCHANGED <<N("in"), N("req"), N("fwd"), N("ans"), N("res"), N("out"), Answered>>
        /\ UNCHANGED <<D("wup"), D("dup"), D("wdown"), D("ddown"), HasFrame>>
        /\ N("res")' = 0
    BY <1>2, <1>3, <1>4, <2>2, <2>3 DEF N, D, HasFrame, Answered
  <2>5. Linked'
    BY <1>2, <1>3, <1>4, <2>1, <2>2, <2>3, <2>4 DEF Linked
  <2>6. CountedUp' /\ CountedDown'
    BY <1>2, <2>1, <2>4 DEF CountedUp, CountedDown, InIn, InReq, InFwd, InOut
  <2> QED
    BY <2>5, <2>6
<1> QED
  BY <1>2, <1>3, <1>5 DEF IInv, Whole

\* The client is killed.
LEMMA KillKeeps ==
  ASSUME IInv, Kill PROVE IInv'
<1>1. Typed /\ Control /\ Upward /\ Downward
  BY DEF IInv
<1>2. /\ client' = [client EXCEPT !.alive = FALSE, !.input = FALSE] /\ broken' = TRUE
      /\ UNCHANGED <<remote, listening>>
  BY DEF Kill
<1>3. /\ client'.sent = client.sent /\ client'.got = client.got
      /\ client' \in [sent : Chunks, got : Chunks, input : BOOLEAN, alive : BOOLEAN]
  <2>1. client.sent \in Chunks /\ client.got \in Chunks
    BY <1>1 DEF Typed
  <2>2. client' = [sent |-> client.sent, got |-> client.got, input |-> FALSE, alive |-> FALSE]
    BY <1>1, <1>2 DEF Typed
  <2> QED
    BY <2>1, <2>2
<1>4. CASE /\ pipe' = WriteEndsClosed(ReadEndsClosed(pipe, {"out"}), {"in"})
           /\ UNCHANGED <<pc, chunk>>
  <2>1. /\ PipesTyped' /\ Closes("req") /\ Closes("res") /\ Closes("out")
        /\ Closes("fwd") /\ Closes("ans")
        /\ UNCHANGED <<pipe["in"].data, pipe["req"].data, pipe["fwd"].data, pipe["ans"].data,
                       pipe["res"].data>>
        /\ UNCHANGED <<pipe["fwd"].r, pipe["fwd"].w, pipe["res"].r>>
    BY <1>1, <1>4, ClosingChanges, PipeNames DEF Typed
  <2>2. Typed'
    BY <1>1, <1>2, <1>3, <1>4, <2>1 DEF Typed
  <2>3. /\ UNCHANGED <<N("req"), N("fwd"), N("ans"), N("res")>>
        /\ N("out")' = N("out") \/ N("out")' = 0
    BY <2>1, ShrinkingCounts DEF N, Closes
  <2>4. Control'
    BY <1>1, <1>2, <1>3, <1>4, <2>1, <2>3 DEF Control, Closes, Shrinks
  <2>5. /\ Stays("wup") /\ Stays("dup") /\ Stays("wdown") /\ Stays("ddown")
        /\ UNCHANGED Answered /\ Shrinks("ans")
    BY <1>2, <1>4, <2>1 DEF Stays, Answered, Closes
  <2>6. Upward'
    BY <1>1, <1>2, <1>3, <2>1, <2>2, <2>5, UpwardCloses
  <2>7. Downward'
    BY <1>1, <1>2, <1>3, <2>1, <2>2, <2>5, DownwardCloses
  <2> QED
    BY <1>2, <2>2, <2>4, <2>6, <2>7 DEF IInv, Whole
<1>5. CASE /\ pc' = [pc EXCEPT !["wup"] = "done", !["wdown"] = "gone"]
           /\ chunk' = [chunk EXCEPT !["wup"] = 0, !["wdown"] = 0]
           /\ pipe' = WriteEndsClosed(ReadEndsClosed(pipe, {"in", "res", "out"}),
                                      {"in", "req", "out"})
  <2>1. Typed' /\ Control' /\ Upward' /\ Downward'
    BY <1>2, <1>3, <1>5, WrapperGoneKeeps
  <2> QED
    BY <1>2, <2>1 DEF IInv, Whole
<1> QED
  BY <1>4, <1>5 DEF Kill

\* A thread that copies up has ended.
LEMMA UpEndsWupKeeps ==
  ASSUME IInv, UpEnds("wup") PROVE IInv'
<1>1. Typed /\ Control /\ Upward /\ Downward /\ Whole
  BY DEF IInv
<1>2. /\ \/ pc["wup"] = "read" /\ Ended("in") /\ pipe' = WriteEndsClosed(pipe, {"req"})
         \/ pc["wup"] = "write" /\ Refuses("req") /\ pipe' = pipe
      /\ pc' = [pc EXCEPT !["wup"] = "done"] /\ chunk' = [chunk EXCEPT !["wup"] = 0]
      /\ UNCHANGED <<client, remote, listening, broken>>
  BY Names DEF UpEnds, Released, HalfClosed
<1>3. /\ pc'["wup"] = "done" /\ chunk'["wup"] = 0
      /\ UNCHANGED <<pc["dup"], pc["wdown"], pc["ddown"], chunk["dup"], chunk["wdown"],
                     chunk["ddown"]>>
  BY <1>1, <1>2, Names DEF Typed
<1>4. /\ PipesTyped' /\ KeptBut({"req"})
      /\ pipe'["req"].data = pipe["req"].data /\ pipe'["req"].r = pipe["req"].r
      /\ pipe'["req"].w => pipe["req"].w
      /\ pc["wup"] = "read" => ~pipe'["req"].w
  <2>1. CASE pipe' = pipe /\ pc["wup"] = "write"
    BY <1>1, <2>1 DEF Typed, PipesTyped, KeptBut, Kept
  <2>2. CASE pipe' = WriteEndsClosed(pipe, {"req"})
    BY <1>1, <2>2, ClosingWrites, PipeNames DEF Typed, KeptBut, Kept, WriterGone
  <2> QED
    BY <1>2, <2>1, <2>2
<1> USE DEF KeptBut, Kept
<1>5. Typed'
  <2>1. pc' \in [Threads -> Labels] /\ chunk' \in [Threads -> Chunks]
    BY <1>1, <1>2, ChunksAreNumbers DEF Typed, Labels
  <2> QED
    BY <1>1, <1>2, <1>3, <1>4, <2>1 DEF Typed
<1>6. UNCHANGED <<N("in"), N("req"), N("fwd"), N("ans"), N("res"), N("out"), D("dup")>>
  BY <1>3, <1>4 DEF N, D
<1>7. Control'
  BY <1>1, <1>2, <1>3, <1>4, <1>6 DEF Control
<1>8. Closes("req") /\ Closes("fwd") /\ Stays("dup")
  BY <1>3, <1>4 DEF Closes, Shrinks, Stays
<1>9. Upward'
  BY <1>1, <1>2, <1>3, <1>5, <1>8, UpwardCloses
<1>10. Downward' /\ (CountedDown => CountedDown')
  BY <1>1, <1>2, <1>3, <1>4, DownwardFrame
<1>11. ASSUME Linked, CountedUp PROVE Linked' /\ CountedUp'
  <2>1. pc["wup"] = "read" /\ Ended("in") /\ ~pipe'["req"].w
    BY <1>2, <1>4, <1>11 DEF Linked, Refuses
  <2>2. D("wup") = 0 /\ D("wup")' = 0 /\ N("in") = 0 /\ ~pipe["in"].w
    BY <1>3, <2>1 DEF D, N, Ended
  <2>3. CountedUp'
    BY <1>2, <1>6, <1>11, <2>2 DEF CountedUp, InIn, InReq, InFwd
  <2>4. Linked'
    BY <1>1, <1>2, <1>3, <1>4, <1>6, <1>11, <2>1, <2>2 DEF Linked, Control
  <2> QED
    BY <2>3, <2>4
<1> QED
  BY <1>1, <1>2, <1>5, <1>7, <1>9, <1>10, <1>11 DEF IInv, Whole

\* The daemon's thread to SSH passes the end on, or gives up.
LEMMA UpEndsDupKeeps ==
  ASSUME IInv, UpEnds("dup") PROVE IInv'
<1>1. Typed /\ Control /\ Upward /\ Downward /\ Whole
  BY DEF IInv
<1>2. /\ \/ pc["dup"] = "read" /\ Ended("req") /\ pipe' = Released("dup", WriteEndsClosed(pipe, {"fwd"}))
         \/ pc["dup"] = "write" /\ Refuses("fwd") /\ pipe' = pipe
      /\ pc' = [pc EXCEPT !["dup"] = "done"] /\ chunk' = [chunk EXCEPT !["dup"] = 0]
      /\ UNCHANGED <<client, remote, listening, broken>>
  BY Names DEF UpEnds, HalfClosed
<1>3. /\ pc'["dup"] = "done"
      /\ UNCHANGED <<pc["wup"], pc["wdown"], pc["ddown"], chunk["wup"], chunk["wdown"],
                     chunk["ddown"]>>
  BY <1>1, <1>2, Names DEF Typed
<1>4. /\ PipesTyped' /\ UNCHANGED <<pipe["in"], pipe["ans"], pipe["out"]>>
      /\ pipe'["fwd"].data = pipe["fwd"].data /\ pipe'["fwd"].r = pipe["fwd"].r
      /\ pipe'["fwd"].w => pipe["fwd"].w
      /\ Closes("req") /\ Closes("res") /\ pipe'["res"].data = pipe["res"].data
      /\ pipe'["res"].r = pipe["res"].r
      /\ pc["ddown"] # "done" => UNCHANGED <<pipe["req"], pipe["res"]>>
      /\ pc["ddown"] = "done" /\ pc["dup"] = "read" => ~pipe'["res"].w /\ ~pipe'["req"].r
      /\ pc["dup"] = "read" => ~pipe'["fwd"].w
  <2>1. CASE pipe' = pipe /\ pc["dup"] = "write"
    BY <1>1, <2>1 DEF Typed, PipesTyped, Closes, Shrinks
  <2>2. CASE pc["ddown"] # "done" /\ pipe' = WriteEndsClosed(pipe, {"fwd"})
    BY <1>1, <2>2, ClosingWrites, PipeNames DEF Typed, Kept, WriterGone, Closes, Shrinks
  <2>3. CASE /\ pc["ddown"] = "done"
             /\ pipe' = WriteEndsClosed(ReadEndsClosed(WriteEndsClosed(pipe, {"fwd"}), {"req"}), {"res"})
    <3>1. pipe' = WriteEndsClosed(ReadEndsClosed(pipe, {"req"}), {"fwd", "res"})
      BY <2>3, PipeNames DEF WriteEndsClosed, ReadEndsClosed
    <3>2. UNCHANGED <<pipe["in"], pipe["ans"], pipe["out"]>>
      BY <3>1, PipeNames DEF WriteEndsClosed, ReadEndsClosed
    <3> QED
      BY <1>1, <2>3, <3>1, <3>2, ClosingChanges, PipeNames DEF Typed, Closes, Shrinks
  <2> QED
    BY <1>2, <2>1, <2>2, <2>3 DEF Released
<1>5. Typed'
  <2>1. pc' \in [Threads -> Labels] /\ chunk' \in [Threads -> Chunks]
    BY <1>1, <1>2, ChunksAreNumbers DEF Typed, Labels
  <2> QED
    BY <1>1, <1>2, <1>3, <1>4, <2>1 DEF Typed
<1>6. /\ UNCHANGED <<N("in"), N("fwd"), N("ans"), N("res"), N("out"), D("wup"), D("wdown"),
                     D("ddown"), Frame>>
      /\ N("req")' = N("req") \/ N("req")' = 0
      /\ pipe'["req"] = pipe["req"] => N("req")' = N("req")
  BY <1>3, <1>4 DEF N, D, Closes, Shrinks, Frame
<1>7. pc["dup"] # "off"
  BY <1>2
<1>8. Control'
  BY <1>1, <1>2, <1>3, <1>4, <1>6, <1>7 DEF Control, Closes, Shrinks
<1>9. /\ Closes("fwd") /\ Closes("out") /\ Shrinks("ans")
      /\ Stays("wup") /\ Stays("wdown") /\ Stays("ddown") /\ UNCHANGED Answered
  BY <1>2, <1>3, <1>4 DEF Closes, Shrinks, Stays, Answered
<1>10. Upward'
  BY <1>1, <1>2, <1>3, <1>4, <1>5, <1>9, UpwardCloses
<1>11. Downward'
  BY <1>1, <1>2, <1>3, <1>4, <1>5, <1>9, DownwardCloses
<1>12. ASSUME Linked, CountedUp, CountedDown PROVE Linked' /\ CountedUp' /\ CountedDown'
  <2>1. pc["dup"] = "read" /\ Ended("req") /\ ~pipe'["fwd"].w /\ pc["ddown"] \in {"read", "write"}
    BY <1>2, <1>4, <1>12 DEF Linked, Refuses
  <2>2. /\ D("dup") = 0 /\ D("dup")' = 0 /\ N("req") = 0 /\ ~pipe["req"].w /\ pc["wup"] = "done"
        /\ UNCHANGED <<pipe["req"], pipe["res"]>> /\ N("req")' = 0
    BY <1>3, <1>4, <1>6, <1>12, <2>1 DEF D, N, Ended, Linked
  <2>3. HasFrame' = HasFrame
    BY <1>3, <1>7 DEF HasFrame
  <2>4. CountedUp' /\ CountedDown'
    BY <1>2, <1>6, <1>9, <1>12, <2>2, <2>3 DEF CountedUp, InIn, InReq, InFwd, CountedDown, InOut
  <2>5. Linked'
    BY <1>1, <1>2, <1>3, <1>4, <1>6, <1>12, <2>1, <2>2 DEF Linked, Control
  <2> QED
    BY <2>4, <2>5
<1> QED
  BY <1>1, <1>2, <1>5, <1>8, <1>10, <1>11, <1>12 DEF IInv, Whole

\* The other thread has gone: what was read is read for nothing.
LEMMA ReadReleasedKeeps ==
  ASSUME IInv, Read("dup"), pc["ddown"] = "done" PROVE IInv'
<1>1. Typed /\ Control /\ Upward /\ Downward /\ Whole
  BY DEF IInv
<1>2. /\ pc["dup"] = "read" /\ pipe["req"].data # <<>>
      /\ pipe' = WriteEndsClosed(ReadEndsClosed(Popped("req"), {"req"}), {"res"})
      /\ chunk' = [chunk EXCEPT !["dup"] = Head(pipe["req"].data)]
      /\ pc' = [pc EXCEPT !["dup"] = "write"]
      /\ UNCHANGED <<client, remote, listening, broken>>
  BY Names DEF Read, Released
<1>3. /\ pc'["dup"] = "write" /\ N("req") > 0 /\ Head(pipe["req"].data) \in Chunks
      /\ UNCHANGED <<pc["wup"], pc["wdown"], pc["ddown"], chunk["wup"], chunk["wdown"],
                     chunk["ddown"]>>
  <2>1. pipe["req"].data \in Seq(Chunks)
    BY <1>1, PipeNames DEF Typed, PipesTyped, PipeStates
  <2>2. N("req") > 0 /\ Head(pipe["req"].data) \in Chunks
    BY <1>2, <2>1 DEF N
  <2> QED
    BY <1>1, <1>2, <2>2, Names DEF Typed
<1>4. /\ PipesTyped' /\ UNCHANGED <<pipe["in"], pipe["fwd"], pipe["ans"], pipe["out"]>>
      /\ Closes("req") /\ Closes("res") /\ pipe'["res"].data = pipe["res"].data
      /\ pipe'["req"].data = <<>> /\ pipe'["res"].r = pipe["res"].r
      /\ ~pipe'["res"].w /\ ~pipe'["req"].r
  <2>1. pipe' = WriteEndsClosed(ReadEndsClosed(pipe, {"req"}), {"res"})
    <3>1. pipe \in PipeStates
      BY <1>1 DEF Typed, PipesTyped
    <3>2. ReadEndsClosed(Popped("req"), {"req"}) = ReadEndsClosed(pipe, {"req"})
      <4>1. ASSUME NEW p \in Pipes
            PROVE  (IF p \in {"req"} THEN [Popped("req")[p] EXCEPT !.data = <<>>, !.r = FALSE]
                     ELSE Popped("req")[p])
                   = (IF p \in {"req"} THEN [pipe[p] EXCEPT !.data = <<>>, !.r = FALSE] ELSE pipe[p])
        BY <3>1 DEF Popped, PipeStates
      <4> QED
        BY <4>1 DEF ReadEndsClosed
    <3> QED
      BY <1>2, <3>2
  <2>2. UNCHANGED <<pipe["in"], pipe["fwd"], pipe["ans"], pipe["out"]>>
    BY <2>1, PipeNames DEF WriteEndsClosed, ReadEndsClosed
  <2> QED
    BY <1>1, <2>1, <2>2, ClosingChanges, PipeNames DEF Typed
<1>5. Typed'
  <2>1. pc' \in [Threads -> Labels] /\ chunk' \in [Threads -> Chunks]
    BY <1>1, <1>2, <1>3 DEF Typed, Labels
  <2> QED
    BY <1>1, <1>2, <1>3, <1>4, <2>1 DEF Typed
<1>6. /\ UNCHANGED <<N("in"), N("fwd"), N("ans"), N("res"), N("out")>>
      /\ N("req")' = 0
  BY <1>4 DEF N
<1>7. Control'
  BY <1>1, <1>2, <1>3, <1>4, <1>6 DEF Control, Closes, Shrinks
<1>8. /\ Closes("out") /\ Shrinks("ans")
      /\ Stays("wdown") /\ Stays("ddown") /\ UNCHANGED Answered
  BY <1>2, <1>3, <1>4 DEF Closes, Shrinks, Stays, Answered
<1>9. ~pipe'["fwd"].r /\ pc'["wup"] # "off"
  <2>1. ~pipe'["fwd"].r
    BY <1>1, <1>4 DEF Control
  <2>2. N("req") # 0
    BY <1>3
  <2> QED
    BY <1>1, <1>3, <2>1, <2>2 DEF Upward, Unread
<1>10. UNCHANGED InFwd
  BY <1>2, <1>6 DEF InFwd
<1>11. Upward'
  BY <1>1, <1>2, <1>4, <1>9, <1>10
     DEF Upward, FwdFollows, ReqFollows, InFollows, Unread, DupOpen, WupOpen
<1>12. Downward'
  BY <1>1, <1>2, <1>3, <1>4, <1>5, <1>8, DownwardCloses
<1>13. ~Linked
  BY <1>2 DEF Linked
<1> QED
  BY <1>1, <1>2, <1>5, <1>7, <1>11, <1>12, <1>13 DEF IInv, Whole

\* The main thread of the daemon's connection
LEMMA DownEndsKeeps ==
  ASSUME IInv, DownEnds PROVE IInv'
<1>1. Typed /\ Control /\ Upward /\ Downward /\ Whole
  BY DEF IInv
<1>2. /\ \/ pc["ddown"] = "read" /\ Ended("ans")
         \/ pc["ddown"] = "write" /\ Refuses("res")
      /\ pc' = [pc EXCEPT !["ddown"] = "join"] /\ chunk' = [chunk EXCEPT !["ddown"] = 0]
      /\ UNCHANGED <<pipe, client, remote, listening, broken>>
  BY DEF DownEnds
<1>3. /\ pc'["ddown"] = "join"
      /\ UNCHANGED <<pc["wup"], pc["dup"], pc["wdown"], chunk["wup"], chunk["dup"],
                     chunk["wdown"]>>
  BY <1>1, <1>2, Names DEF Typed
<1>4. Typed'
  <2>1. pc' \in [Threads -> Labels] /\ chunk' \in [Threads -> Chunks] /\ PipesTyped'
    BY <1>1, <1>2, ChunksAreNumbers DEF Typed, Labels, PipesTyped
  <2> QED
    BY <1>1, <1>2, <1>3, <2>1 DEF Typed
<1>5. UNCHANGED <<N("in"), N("req"), N("fwd"), N("ans"), N("res"), N("out"), D("wdown"),
                  HasFrame, Answered>>
  BY <1>2, <1>3 DEF N, D, HasFrame, Answered
<1>6. Control'
  BY <1>1, <1>2, <1>3, <1>5 DEF Control
<1>7. Upward' /\ (CountedUp => CountedUp')
  BY <1>1, <1>2, <1>3, UpwardFrame
<1>8. Closes("out") /\ Closes("res") /\ Shrinks("ans") /\ Stays("wdown")
  BY <1>2, <1>3 DEF Closes, Shrinks, Stays
<1>9. Downward'
  BY <1>1, <1>2, <1>3, <1>4, <1>5, <1>8, DownwardCloses
<1>10. ASSUME Linked, CountedDown PROVE Linked' /\ CountedDown'
  <2>1. pc["ddown"] = "read" /\ Ended("ans")
    BY <1>2, <1>10 DEF Linked, Refuses
  <2>2. D("ddown") = 0 /\ D("ddown")' = 0 /\ N("ans") = 0 /\ ~pipe["ans"].w
    BY <1>3, <2>1 DEF D, N, Ended
  <2>3. remote.state = "ended" /\ pc["dup"] = "done"
    BY <1>1, <1>10, <2>1, <2>2 DEF Linked, Control
  <2>4. CountedDown'
    BY <1>2, <1>5, <1>10, <2>2 DEF CountedDown, InOut
  <2>5. Linked'
    BY <1>2, <1>3, <1>5, <1>10, <2>1, <2>2, <2>3 DEF Linked
  <2> QED
    BY <2>4, <2>5
<1> QED
  BY <1>1, <1>2, <1>4, <1>6, <1>7, <1>9, <1>10 DEF IInv, Whole

\* It has waited for the other thread.
LEMMA JoinedKeeps ==
  ASSUME IInv, Joined PROVE IInv'
<1>1. Typed /\ Control /\ Upward /\ Downward /\ Whole
  BY DEF IInv
<1>2. /\ pc["ddown"] = "join" /\ pc' = [pc EXCEPT !["ddown"] = "close"]
      /\ UNCHANGED <<pipe, chunk, client, remote, listening, broken>>
  BY DEF Joined
<1>3. /\ pc'["ddown"] = "close"
      /\ UNCHANGED <<pc["wup"], pc["dup"], pc["wdown"]>>
  BY <1>1, <1>2, Names DEF Typed
<1>4. Typed'
  <2>1. pc' \in [Threads -> Labels] /\ PipesTyped'
    BY <1>1, <1>2 DEF Typed, Labels, PipesTyped
  <2> QED
    BY <1>1, <1>2, <1>3, <2>1 DEF Typed
<1>5. UNCHANGED <<N("in"), N("req"), N("fwd"), N("ans"), N("res"), N("out"), D("wdown"),
                  D("ddown"),
                  HasFrame, Answered>>
  BY <1>2, <1>3 DEF N, D, HasFrame, Answered
<1>6. Control'
  BY <1>1, <1>2, <1>3, <1>5 DEF Control
<1>7. Upward' /\ (CountedUp => CountedUp')
  BY <1>1, <1>2, <1>3, UpwardFrame
<1>8. Closes("out") /\ Closes("res") /\ Shrinks("ans") /\ Stays("wdown")
  BY <1>2, <1>3 DEF Closes, Shrinks, Stays
<1>9. Downward'
  BY <1>1, <1>2, <1>3, <1>4, <1>5, <1>8, DownwardCloses
<1>10. CountedDown => CountedDown'
  BY <1>2, <1>5 DEF CountedDown, InOut
<1>11. Linked => Linked'
  BY <1>2, <1>3, <1>5 DEF Linked
<1> QED
  BY <1>1, <1>2, <1>4, <1>6, <1>7, <1>9, <1>10, <1>11 DEF IInv, Whole

\* It closes the stream, and the connection unless the other thread waits in recv().
LEMMA CloseStreamKeeps ==
  ASSUME IInv, CloseStream PROVE IInv'
<1>1. Typed /\ Control /\ Upward /\ Downward /\ Whole
  BY DEF IInv
<1>2. /\ pc["ddown"] = "close" /\ pc' = [pc EXCEPT !["ddown"] = "done"]
      /\ pipe' = IF pc["dup"] = "read" THEN StreamClosed
                 ELSE WriteEndsClosed(ReadEndsClosed(StreamClosed, {"req"}), {"res"})
      /\ UNCHANGED <<chunk, client, remote, listening, broken>>
  BY DEF CloseStream
<1>3. /\ pc'["ddown"] = "done"
      /\ UNCHANGED <<pc["wup"], pc["dup"], pc["wdown"]>>
  BY <1>1, <1>2, Names DEF Typed
<1>4. /\ PipesTyped' /\ UNCHANGED <<pipe["in"], pipe["out"]>>
      /\ Closes("fwd") /\ Closes("ans") /\ Closes("req") /\ Closes("res")
      /\ pipe'["fwd"].data = <<>> /\ ~pipe'["fwd"].r /\ ~pipe'["fwd"].w
      /\ pipe'["ans"].data = <<>> /\ ~pipe'["ans"].r /\ ~pipe'["ans"].w
      /\ pipe'["res"].data = pipe["res"].data /\ pipe'["res"].r = pipe["res"].r
      /\ pipe'["req"].w = pipe["req"].w
      /\ pc["dup"] # "read" => ~pipe'["res"].w /\ ~pipe'["req"].r
      /\ pc["dup"] = "read" => UNCHANGED <<pipe["req"], pipe["res"]>>
  <2>1. CASE pc["dup"] = "read"
    <3>1. pipe' = WriteEndsClosed(ReadEndsClosed(pipe, {"fwd", "ans"}), {"fwd", "ans"})
      BY <1>2, <2>1 DEF StreamClosed
    <3>2. UNCHANGED <<pipe["in"], pipe["out"], pipe["req"], pipe["res"]>>
      BY <3>1, PipeNames DEF WriteEndsClosed, ReadEndsClosed
    <3> QED
      BY <1>1, <2>1, <3>1, <3>2, ClosingChanges, PipeNames DEF Typed
  <2>2. CASE pc["dup"] # "read"
    <3>1. pipe' = WriteEndsClosed(ReadEndsClosed(pipe, {"fwd", "ans", "req"}), {"fwd", "ans", "res"})
      BY <1>2, <2>2, PipeNames DEF StreamClosed, WriteEndsClosed, ReadEndsClosed
    <3>2. UNCHANGED <<pipe["in"], pipe["out"]>>
      BY <3>1, PipeNames DEF WriteEndsClosed, ReadEndsClosed
    <3> QED
      BY <1>1, <2>2, <3>1, <3>2, ClosingChanges, PipeNames DEF Typed
  <2> QED
    BY <2>1, <2>2
<1>5. Typed'
  <2>1. pc' \in [Threads -> Labels]
    BY <1>1, <1>2 DEF Typed, Labels
  <2> QED
    BY <1>1, <1>2, <1>3, <1>4, <2>1 DEF Typed
<1>6. /\ UNCHANGED <<N("in"), N("res"), N("out"), D("wup"), D("dup"), D("wdown"), D("ddown"),
                     HasFrame, Answered>>
      /\ N("fwd")' = 0 /\ N("ans")' = 0
      /\ N("req")' = N("req") \/ N("req")' = 0
  BY <1>2, <1>3, <1>4 DEF N, D, HasFrame, Answered, Closes, Shrinks
<1>7. Control'
  BY <1>1, <1>2, <1>3, <1>4, <1>6 DEF Control, Closes, Shrinks
<1>8. Closes("out") /\ Shrinks("ans") /\ Stays("wup") /\ Stays("dup") /\ Stays("wdown")
  BY <1>2, <1>3, <1>4 DEF Closes, Shrinks, Stays
<1>9. Upward'
  BY <1>1, <1>2, <1>4, <1>5, <1>8, UpwardCloses
<1>10. Downward'
  BY <1>1, <1>2, <1>3, <1>4, <1>5, <1>6, <1>8, DownwardCloses
<1>11. ASSUME Linked, CountedUp, CountedDown PROVE Linked' /\ CountedUp' /\ CountedDown'
  <2>1. remote.state = "ended" /\ N("ans") = 0
    BY <1>2, <1>11 DEF Linked
  <2>2. pc["dup"] = "done" /\ N("fwd") = 0
    BY <1>11, <2>1 DEF Linked
  <2>3. pc["wup"] = "done" /\ N("req") = 0
    BY <1>11, <2>2 DEF Linked
  <2>4. CountedUp' /\ CountedDown'
    BY <1>2, <1>6, <1>11, <2>1, <2>2, <2>3 DEF CountedUp, InIn, InReq, InFwd, CountedDown, InOut
  <2>5. /\ UNCHANGED <<pipe["in"], pipe["out"]>>
        /\ pipe'["req"].w = pipe["req"].w /\ pipe'["res"].r = pipe["res"].r
    BY <1>4
  <2>6. Linked'
    BY <1>1, <1>2, <1>3, <1>4, <1>6, <1>11, <2>1, <2>2, <2>3, <2>5 DEF Linked, Control
  <2> QED
    BY <2>4, <2>6
<1> QED
  BY <1>1, <1>2, <1>5, <1>7, <1>9, <1>10, <1>11 DEF IInv, Whole

\* SSH could not be started, or the remote has refused.
LEMMA StreamFailsKeeps ==
  ASSUME IInv, StreamFails PROVE IInv'
<1>1. Typed /\ Control /\ Upward /\ Downward
  BY DEF IInv
<1>2. /\ pc["ddown"] = "open" /\ pc' = [pc EXCEPT !["ddown"] = "done", !["dup"] = "done"]
      /\ pipe' = WriteEndsClosed(ReadEndsClosed(pipe, {"req"}), {"res"})
      /\ broken' = TRUE /\ UNCHANGED <<chunk, client, remote, listening>>
  BY DEF StreamFails
<1>3. /\ pc'["ddown"] = "done" /\ pc'["dup"] = "done"
      /\ UNCHANGED <<pc["wup"], pc["wdown"]>>
  BY <1>1, <1>2, Names DEF Typed
<1>4. /\ PipesTyped' /\ UNCHANGED <<pipe["in"], pipe["fwd"], pipe["ans"], pipe["out"]>>
      /\ Closes("req") /\ Closes("res") /\ pipe'["res"].r = pipe["res"].r
      /\ pipe'["req"].data = <<>> /\ pipe'["res"].data = pipe["res"].data
      /\ ~pipe'["res"].w /\ ~pipe'["req"].r
  <2>1. UNCHANGED <<pipe["in"], pipe["fwd"], pipe["ans"], pipe["out"]>>
    BY <1>2, PipeNames DEF WriteEndsClosed, ReadEndsClosed
  <2> QED
    BY <1>1, <1>2, <2>1, ClosingChanges, PipeNames DEF Typed
<1>5. Typed'
  <2>1. pc' \in [Threads -> Labels]
    BY <1>1, <1>2 DEF Typed, Labels
  <2> QED
    BY <1>1, <1>2, <1>3, <1>4, <2>1 DEF Typed
<1>6. UNCHANGED <<N("in"), N("fwd"), N("ans"), N("res"), N("out"), Answered>> /\ N("req")' = 0
  BY <1>2, <1>4 DEF N, Answered
<1>7. Control'
  BY <1>1, <1>2, <1>3, <1>4, <1>6 DEF Control
<1>8. Closes("fwd") /\ Closes("out") /\ Shrinks("ans") /\ Stays("wup") /\ Stays("wdown")
  BY <1>2, <1>3, <1>4 DEF Closes, Shrinks, Stays
<1>9. Upward'
  BY <1>1, <1>2, <1>3, <1>4, <1>5, <1>8, UpwardCloses
<1>10. Downward'
  BY <1>1, <1>2, <1>3, <1>4, <1>5, <1>6, <1>8, DownwardCloses
<1> QED
  BY <1>2, <1>5, <1>7, <1>9, <1>10 DEF IInv, Whole

\* The handshake
LEMMA OpeningChanges ==
  ASSUME PipesTyped, NEW p \in Pipes, NEW q \in Pipes, p # q,
         pipe' = [pipe EXCEPT ![p] = Opened, ![q] = Opened]
  PROVE  /\ PipesTyped' /\ \A o \in Pipes : o # p /\ o # q => pipe'[o] = pipe[o]
         /\ N(p)' = 0 /\ pipe'[p].r /\ pipe'[p].w /\ pipe'[p].data = <<>>
         /\ N(q)' = 0 /\ pipe'[q].r /\ pipe'[q].w /\ pipe'[q].data = <<>>
<1>1. Opened \in [data : Seq(Chunks), w : BOOLEAN, r : BOOLEAN]
  BY DEF Opened
<1>2. Opened.data = <<>> /\ Opened.r /\ Opened.w /\ Len(Opened.data) = 0
  BY DEF Opened
<1>3. /\ pipe' \in PipeStates /\ pipe'[p] = Opened /\ pipe'[q] = Opened
      /\ \A o \in Pipes : o # p /\ o # q => pipe'[o] = pipe[o]
  BY <1>1 DEF PipesTyped, PipeStates
<1>4. ASSUME NEW o \in Pipes PROVE Len(pipe'[o].data) <= Capacity
  <2>1. 0 <= Capacity
    BY ParametersAssumption
  <2>2. CASE o = p \/ o = q
    BY <1>2, <1>3, <2>1, <2>2
  <2>3. CASE o # p /\ o # q
    BY <1>3, <2>3 DEF PipesTyped
  <2> QED
    BY <2>2, <2>3
<1> QED
  BY <1>2, <1>3, <1>4 DEF PipesTyped, N

\* Before the daemon's frame nothing is counted.
LEMMA NothingYet ==
  ASSUME Typed, Control, pc["dup"] = "off"
  PROVE  /\ remote.got = 0 /\ remote.work = 0 /\ Answered = 0
         /\ N("fwd") = 0 /\ N("req") = 0 /\ N("ans") = 0 /\ N("res") = 0
         /\ pc["ddown"] \in {"off", "open", "answer"} /\ pc["wdown"] \in {"start", "waiting", "gone"}
         /\ pc["wup"] \in {"off", "done"}
         /\ pc["wdown"] \in {"start", "waiting"} => InOut = 0 /\ D("wdown") = 0
<1>1. /\ remote.got = 0 /\ remote.work = 0
      /\ N("fwd") = 0 /\ N("req") = 0 /\ N("ans") = 0 /\ N("res") = 0
      /\ pc["ddown"] \in {"off", "open", "answer"} /\ pc["wdown"] \in {"start", "waiting", "gone"}
      /\ pc["wup"] \in {"off", "done"}
  BY DEF Typed, Control
<1>2. Answered = 0
  BY <1>1 DEF Answered
<1>3. pc["wdown"] \in {"start", "waiting"} => InOut = 0 /\ D("wdown") = 0
  BY DEF Control, InOut, D
<1> QED
  BY <1>1, <1>2, <1>3

\* The wrapper connects.
LEMMA ConnectKeeps ==
  ASSUME IInv, Connect PROVE IInv'
<1>1. Typed /\ Control /\ Upward /\ Downward /\ Whole
  BY DEF IInv
<1>2. /\ pc["wdown"] = "start" /\ pc' = [pc EXCEPT !["wdown"] = "waiting", !["ddown"] = "open"]
      /\ pipe' = [pipe EXCEPT !["req"] = Opened, !["res"] = Opened]
      /\ UNCHANGED <<chunk, client, remote, listening, broken>>
  BY DEF Connect, Connected
<1>3. /\ pc'["wdown"] = "waiting" /\ pc'["ddown"] = "open"
      /\ UNCHANGED <<pc["wup"], pc["dup"]>>
  BY <1>1, <1>2, Names DEF Typed
<1>4. /\ PipesTyped' /\ UNCHANGED <<pipe["in"], pipe["fwd"], pipe["ans"], pipe["out"]>>
      /\ N("req")' = 0 /\ pipe'["req"].r /\ pipe'["req"].w
      /\ N("res")' = 0 /\ pipe'["res"].r /\ pipe'["res"].w /\ pipe'["res"].data = <<>>
  BY <1>1, <1>2, OpeningChanges, PipeNames DEF Typed
<1>5. Typed'
  <2>1. pc' \in [Threads -> Labels]
    BY <1>1, <1>2 DEF Typed, Labels
  <2> QED
    BY <1>1, <1>2, <1>3, <1>4, <2>1 DEF Typed
<1>6. pc["dup"] = "off" /\ pc["ddown"] = "off" /\ pc["wup"] = "off"
  BY <1>1, <1>2 DEF Control
<1>7. UNCHANGED <<N("in"), N("fwd"), N("ans"), N("out"), D("wup"), D("dup"), D("wdown"),
                  D("ddown"), HasFrame, Answered>>
  BY <1>2, <1>3, <1>4, <1>6 DEF N, D, HasFrame, Answered
<1>8. N("req") = 0 /\ N("res") = 0 /\ Answered = 0 /\ InOut = 0 /\ D("wdown") = 0
  BY <1>1, <1>2, <1>6, NothingYet
<1>9. Control'
  BY <1>1, <1>2, <1>3, <1>4, <1>6, <1>7 DEF Control
<1>10. Upward' /\ (CountedUp => CountedUp')
  <2>1. UNCHANGED <<N("req"), InFwd, InReq, InIn>>
    BY <1>2, <1>4, <1>7, <1>8 DEF InFwd, InReq, InIn
  <2> QED
    BY <1>1, <1>2, <1>3, <1>4, <1>6, <1>7, <2>1
       DEF Upward, FwdFollows, ReqFollows, InFollows, Unread, DupOpen, WupOpen, CountedUp
<1>11. Downward' /\ (CountedDown => CountedDown')
  <2>1. InOut' = 0 /\ InRes' = 0 - 1
    <3>1. InOut' = InOut
      BY <1>2, <1>7 DEF InOut
    <3>2. Frame' = 1
      BY <1>3 DEF Frame
    <3> QED
      BY <1>4, <1>7, <1>8, <3>1, <3>2 DEF InRes
  <2>2. OutFollows'
    BY <1>1, <1>2, <1>4, <1>7, <1>8, <2>1 DEF Downward, OutFollows
  <2>3. ResFollows'
    BY <1>3, <1>4, <1>7, <1>8, <2>1, RunEmpty DEF ResFollows
  <2>4. AnsFollows'
    BY <1>3 DEF AnsFollows, DownOpen
  <2>5. CountedDown => CountedDown'
    BY <1>4, <1>7, <1>8, <2>1 DEF CountedDown
  <2> QED
    BY <2>2, <2>3, <2>4, <2>5 DEF Downward
<1>12. Linked => Linked'
  BY <1>1, <1>2, <1>3, <1>4, <1>6, <1>7 DEF Linked, Control
<1> QED
  BY <1>1, <1>2, <1>5, <1>9, <1>10, <1>11, <1>12 DEF IInv, Whole

\* SSH runs and the remote is ready.
LEMMA StreamOpensKeeps ==
  ASSUME IInv, StreamOpens PROVE IInv'
<1>1. Typed /\ Control /\ Upward /\ Downward /\ Whole
  BY DEF IInv
<1>2. /\ pc["ddown"] = "open" /\ pc' = [pc EXCEPT !["ddown"] = "answer"]
      /\ pipe' = [pipe EXCEPT !["fwd"] = Opened, !["ans"] = Opened]
      /\ remote' = [remote EXCEPT !.state = "serving"]
      /\ UNCHANGED <<chunk, client, listening, broken>>
  BY DEF StreamOpens
<1>3. /\ pc'["ddown"] = "answer"
      /\ UNCHANGED <<pc["wup"], pc["dup"], pc["wdown"]>>
  BY <1>1, <1>2, Names DEF Typed
<1>4. /\ PipesTyped' /\ UNCHANGED <<pipe["in"], pipe["req"], pipe["res"], pipe["out"]>>
      /\ N("fwd")' = 0 /\ pipe'["fwd"].r /\ pipe'["fwd"].w /\ pipe'["fwd"].data = <<>>
      /\ N("ans")' = 0 /\ pipe'["ans"].r /\ pipe'["ans"].w
  BY <1>1, <1>2, OpeningChanges, PipeNames DEF Typed
<1>5. /\ remote'.state = "serving" /\ remote'.got = remote.got /\ remote'.work = remote.work
      /\ remote' \in [got : Chunks, work : Chunks, state : {"none", "serving", "ended"}]
  BY <1>1, <1>2 DEF Typed
<1>6. Typed'
  <2>1. pc' \in [Threads -> Labels]
    BY <1>1, <1>2 DEF Typed, Labels
  <2> QED
    BY <1>1, <1>2, <1>3, <1>4, <1>5, <2>1 DEF Typed
<1>7. pc["dup"] = "off"
  BY <1>1, <1>2 DEF Control
<1>8. UNCHANGED <<N("in"), N("req"), N("res"), N("out"), D("wup"), D("dup"), D("wdown"),
                  D("ddown"),
                  Frame, HasFrame, Answered>>
  BY <1>2, <1>3, <1>4, <1>5 DEF N, D, Frame, HasFrame, Answered
<1>9. N("fwd") = 0 /\ N("ans") = 0
  BY <1>1, <1>7, NothingYet
<1>10. Control'
  BY <1>1, <1>2, <1>3, <1>4, <1>5, <1>8 DEF Control
<1>11. Upward' /\ (CountedUp => CountedUp')
  <2>1. UNCHANGED <<N("fwd"), InFwd, InReq, InIn>>
    BY <1>4, <1>5, <1>8, <1>9 DEF InFwd, InReq, InIn
  <2>2. FwdFollows'
    BY <1>1, <1>2, <1>4, <2>1, RunEmpty DEF Upward, FwdFollows
  <2> QED
    BY <1>1, <1>2, <1>3, <1>4, <1>5, <1>7, <1>8, <2>1, <2>2
       DEF Upward, ReqFollows, InFollows, Unread, DupOpen, WupOpen, CountedUp
<1>12. Downward' /\ (CountedDown => CountedDown')
  <2>1. UNCHANGED <<N("ans"), InOut, InRes, InAns>>
    BY <1>2, <1>4, <1>8, <1>9 DEF InOut, InRes, InAns
  <2> QED
    BY <1>1, <1>2, <1>3, <1>4, <1>8, <2>1
       DEF Downward, OutFollows, ResFollows, AnsFollows, OutOpen, DownOpen, CountedDown
<1>13. Linked => Linked'
  BY <1>1, <1>2, <1>3, <1>4, <1>5, <1>7, <1>8 DEF Linked, Control
<1> QED
  BY <1>1, <1>2, <1>6, <1>10, <1>11, <1>12, <1>13 DEF IInv, Whole

\* The ready frame is written, the bridge starts.
LEMMA WelcomeKeeps ==
  ASSUME IInv, Welcome PROVE IInv'
<1>1. Typed /\ Control /\ Upward /\ Downward /\ Whole
  BY DEF IInv
<1>2. pc["ddown"] = "answer" /\ UNCHANGED <<chunk, client, remote, listening, broken>>
  BY DEF Welcome
<1>3. /\ pc["dup"] = "off" /\ remote.got = 0 /\ Answered = 0
      /\ N("fwd") = 0 /\ N("req") = 0 /\ N("ans") = 0 /\ N("res") = 0
      /\ pc["wdown"] \in {"start", "waiting", "gone"} /\ pc["wup"] \in {"off", "done"}
      /\ pc["wdown"] \in {"start", "waiting"} => InOut = 0 /\ D("wdown") = 0
  <2>1. pc["dup"] = "off"
    BY <1>1, <1>2 DEF Control
  <2> QED
    BY <1>1, <2>1, NothingYet
<1>4. CASE /\ ~pipe["res"].r /\ pipe' = pipe
           /\ pc' = [pc EXCEPT !["ddown"] = "close", !["dup"] = "done"]
  <2>1. /\ pc'["ddown"] = "close" /\ pc'["dup"] = "done"
        /\ UNCHANGED <<pc["wup"], pc["wdown"]>>
    BY <1>1, <1>4, Names DEF Typed
  <2>2. Typed'
    <3>1. pc' \in [Threads -> Labels] /\ PipesTyped'
      BY <1>1, <1>4 DEF Typed, Labels, PipesTyped
    <3> QED
      BY <1>1, <1>2, <1>4, <2>1, <3>1 DEF Typed
  <2>3. UNCHANGED <<N("in"), N("req"), N("fwd"), N("ans"), N("res"), N("out"), Answered>>
    BY <1>2, <1>4 DEF N, Answered
  <2>4. Control'
    BY <1>1, <1>2, <1>4, <2>1, <2>3 DEF Control
  <2>5. /\ Closes("req") /\ Closes("fwd") /\ Closes("res") /\ Closes("out") /\ Shrinks("ans")
        /\ Stays("wup") /\ Stays("wdown")
    BY <1>2, <1>4, <2>1 DEF Closes, Shrinks, Stays
  <2>6. Upward'
    BY <1>1, <1>2, <1>4, <2>1, <2>2, <2>5, UpwardCloses
  <2>7. Downward'
    BY <1>1, <1>2, <1>4, <2>1, <2>2, <2>3, <2>5, DownwardCloses
  <2>8. ~Linked
    BY <1>2, <1>4 DEF Linked
  <2> QED
    BY <1>1, <1>2, <2>2, <2>4, <2>6, <2>7, <2>8 DEF IInv, Whole
<1>5. CASE /\ pipe["res"].r /\ pipe' = Pushed("res", 0)
           /\ pc' = [pc EXCEPT !["ddown"] = "read", !["dup"] = "read"]
  <2>1. /\ pc'["ddown"] = "read" /\ pc'["dup"] = "read"
        /\ UNCHANGED <<pc["wup"], pc["wdown"]>>
    BY <1>1, <1>5, Names DEF Typed
  <2>2. /\ PipesTyped' /\ Added("res", 0)
        /\ UNCHANGED <<pipe["in"], pipe["req"], pipe["fwd"], pipe["ans"], pipe["out"]>>
    <3>1. N("res") < Capacity /\ 0 \in Chunks
      BY <1>3, ParametersAssumption, ChunksAreNumbers
    <3> QED
      BY <1>1, <1>5, <3>1, PushedChanges, PipeNames DEF Typed
  <2>3. UNCHANGED Ends("res") /\ N("res")' = 1
    BY <1>3, <2>2 DEF Added
  <2>4. Typed'
    <3>1. pc' \in [Threads -> Labels]
      BY <1>1, <1>5 DEF Typed, Labels
    <3> QED
      BY <1>1, <1>2, <2>1, <2>2, <3>1 DEF Typed
  <2>5. /\ UNCHANGED <<N("in"), N("req"), N("fwd"), N("ans"), N("out"), D("wup"), D("wdown"),
                       Frame, Answered>>
        /\ D("dup") = 0 /\ D("dup")' = 0 /\ D("ddown") = 0 /\ D("ddown")' = 0
    BY <1>2, <1>3, <2>1, <2>2 DEF N, D, Frame, Answered
  <2>6. Control'
    BY <1>1, <1>2, <1>3, <1>5, <2>1, <2>2, <2>3, <2>5 DEF Control, Ends
  <2>7. Upward' /\ (CountedUp => CountedUp')
    <3>1. UNCHANGED <<InFwd, InReq, InIn>> /\ InReq' = 0
      BY <1>2, <1>3, <2>5 DEF InFwd, InReq, InIn
    <3>2. 0 <= client.sent
      BY <1>1, Numbers
    <3>3. FwdFollows' /\ Unread'
      BY <1>1, <1>2, <2>1, <2>2, <2>5, <3>1 DEF Upward, FwdFollows, Unread
    <3>4. ReqFollows'
      BY <1>2, <1>3, <2>1, <2>2, <3>1, <3>2, RunNone DEF ReqFollows
    <3>5. InFollows'
      BY <1>3, <2>1 DEF InFollows, WupOpen
    <3>6. CountedUp => CountedUp'
      BY <1>2, <3>1 DEF CountedUp
    <3> QED
      BY <3>3, <3>4, <3>5, <3>6 DEF Upward
  <2>8. OutFollows'
    BY <1>1, <1>2, <2>2, <2>5 DEF Downward, OutFollows, InOut
  <2>9. CASE pc["wdown"] = "waiting"
    <3>1. Frame = 1 /\ HasFrame = 0 /\ HasFrame' = 1 /\ InOut = 0 /\ D("wdown") = 0
      BY <1>3, <2>1, <2>9 DEF Frame, HasFrame
    <3>2. /\ InOut' = 0 /\ InRes' = 0 /\ InAns' = 0 /\ Answered' = 0
          /\ InOut' + D("wdown")' - Frame' = 0 - 1
          /\ InRes' + D("ddown")' = 0
      <4>1. InOut' = InOut
        BY <1>2, <2>5 DEF InOut
      <4>2. InRes' = 0
        BY <2>3, <2>5, <3>1, <4>1 DEF InRes
      <4> QED
        BY <1>3, <2>5, <3>1, <4>1, <4>2 DEF InAns
    <3>3. Run(pipe'["res"].data, 0 - 1)
      <4>1. Run(pipe["res"].data, 0 - 1)
        BY <1>3, RunNone
      <4> QED
        BY <1>3, <2>2, <4>1 DEF Added
    <3>4. ResFollows'
      BY <2>1, <2>9, <3>2, <3>3 DEF ResFollows
    <3>5. AnsFollows'
      BY <1>3, <2>1, <2>2, <2>3, <3>2, RunNone DEF AnsFollows
    <3>6. CountedDown => CountedDown'
      BY <1>3, <2>3, <2>5, <3>1, <3>2 DEF CountedDown
    <3>7. Linked => Linked'
      BY <1>1, <1>2, <1>3, <1>5, <2>1, <2>2, <2>3, <2>5, <2>9 DEF Linked, Ends, Control
    <3> QED
      BY <1>1, <1>2, <2>4, <2>6, <2>7, <2>8, <3>4, <3>5, <3>6, <3>7 DEF IInv, Whole, Downward
  <2>10. CASE pc["wdown"] # "waiting"
    <3>1. ResFollows' /\ AnsFollows'
      BY <1>3, <2>1, <2>10 DEF ResFollows, AnsFollows, OutOpen, DownOpen
    <3>2. ~Linked
      BY <1>2, <2>10 DEF Linked
    <3> QED
      BY <1>1, <1>2, <2>4, <2>6, <2>7, <2>8, <3>1, <3>2 DEF IInv, Whole, Downward
  <2> QED
    BY <2>9, <2>10
<1> QED
  BY <1>4, <1>5 DEF Welcome

\* The wrapper has read the frame.
LEMMA WelcomedKeeps ==
  ASSUME IInv, Welcomed PROVE IInv'
<1>1. Typed /\ Control /\ Upward /\ Downward /\ Whole
  BY DEF IInv
<1>2. /\ pc["wdown"] = "waiting" /\ pipe["res"].data # <<>> /\ pipe' = Popped("res")
      /\ pc' = [pc EXCEPT !["wup"] = "read", !["wdown"] = "read"]
      /\ UNCHANGED <<chunk, client, remote, listening, broken>>
  BY DEF Welcomed
<1>3. /\ pc'["wup"] = "read" /\ pc'["wdown"] = "read"
      /\ UNCHANGED <<pc["dup"], pc["ddown"]>>
  BY <1>1, <1>2, Names DEF Typed
<1>4. /\ PipesTyped' /\ Removed("res")
      /\ UNCHANGED <<pipe["in"], pipe["req"], pipe["fwd"], pipe["ans"], pipe["out"]>>
  BY <1>1, <1>2, PoppedChanges, PipeNames DEF Typed
<1>5. UNCHANGED Ends("res") /\ N("res") > 0 /\ N("res")' = N("res") - 1
  BY <1>4 DEF Removed
<1>6. Typed'
  <2>1. pc' \in [Threads -> Labels]
    BY <1>1, <1>2 DEF Typed, Labels
  <2> QED
    BY <1>1, <1>2, <1>3, <1>4, <2>1 DEF Typed
<1>7. pc["wup"] = "off" /\ pc["dup"] # "off"
  <2>1. N("res") # 0
    BY <1>5
  <2> QED
    BY <1>1, <1>2, <2>1 DEF Control
<1>8. /\ UNCHANGED <<N("in"), N("req"), N("fwd"), N("ans"), N("out"), D("dup"), D("ddown"),
                     Answered>>
      /\ D("wup") = 0 /\ D("wup")' = 0 /\ D("wdown") = 0 /\ D("wdown")' = 0
      /\ Frame = 1 /\ Frame' = 0 /\ HasFrame = 1 /\ HasFrame' = 0
  BY <1>2, <1>3, <1>4, <1>7 DEF N, D, Answered, Frame, HasFrame
<1>9. Control'
  BY <1>1, <1>2, <1>3, <1>4, <1>5, <1>7, <1>8 DEF Control, Ends
<1>10. UNCHANGED <<InFwd, InReq, InIn>>
  BY <1>2, <1>8 DEF InFwd, InReq, InIn
<1>11. Upward' /\ (CountedUp => CountedUp')
  <2>1. FwdFollows' /\ ReqFollows' /\ Unread'
    BY <1>1, <1>2, <1>3, <1>4, <1>8, <1>10 DEF Upward, FwdFollows, ReqFollows, Unread, DupOpen
  <2>2. /\ remote.got = 0 /\ N("fwd") = 0 /\ pc["dup"] # "write" /\ N("req") = 0
        /\ Run(pipe["in"].data, 0) /\ N("in") = client.sent
    BY <1>1, <1>7 DEF Upward, Unread
  <2>3. InReq' = 0 /\ InReq' + D("wup")' = 0 /\ InIn' = client'.sent
    <3>1. InReq = 0
      BY <2>2 DEF InReq, InFwd, D
    <3>2. InIn = N("in")
      BY <1>1, <1>8, <3>1, Numbers DEF InIn
    <3> QED
      BY <1>2, <1>8, <1>10, <2>2, <3>1, <3>2
  <2>4. InFollows'
    BY <1>3, <1>4, <2>2, <2>3 DEF InFollows
  <2>5. CountedUp => CountedUp'
    BY <1>2, <1>10 DEF CountedUp
  <2> QED
    BY <2>1, <2>4, <2>5 DEF Upward
<1>12. /\ UNCHANGED <<InOut, InRes, InAns>>
       /\ InOut' + D("wdown")' - Frame' = (InOut + D("wdown") - Frame) + 1
       /\ InOut + D("wdown") - Frame \in Int
  <2>1. UNCHANGED InOut
    BY <1>2, <1>8 DEF InOut
  <2>2. InOut \in Nat /\ N("res") \in Nat
    BY <1>1, Numbers
  <2>3. UNCHANGED InRes
    BY <1>5, <1>8, <2>1, <2>2 DEF InRes
  <2>4. UNCHANGED InAns
    BY <1>8, <2>3 DEF InAns
  <2> QED
    BY <1>8, <2>1, <2>2, <2>3, <2>4
<1>13. Run(pipe["res"].data, InOut + D("wdown") - Frame) =>
         Run(pipe'["res"].data, InOut' + D("wdown")' - Frame')
  BY <1>4, <1>12 DEF Removed
<1>14. Downward' /\ (CountedDown => CountedDown')
  <2>1. OutFollows'
    BY <1>1, <1>2, <1>4, <1>8, <1>12 DEF Downward, OutFollows
  <2>2. ResFollows'
    BY <1>1, <1>2, <1>3, <1>4, <1>8, <1>12, <1>13 DEF Downward, ResFollows, OutOpen
  <2>3. AnsFollows'
    BY <1>1, <1>2, <1>3, <1>4, <1>5, <1>8, <1>12
       DEF Downward, AnsFollows, OutOpen, DownOpen, Ends
  <2>4. CountedDown => CountedDown'
    BY <1>1, <1>5, <1>8, <1>12, Numbers DEF CountedDown
  <2> QED
    BY <2>1, <2>2, <2>3, <2>4 DEF Downward
<1>15. Linked => Linked'
  BY <1>1, <1>2, <1>3, <1>4, <1>5, <1>7, <1>8 DEF Linked, Control, Ends
<1> QED
  BY <1>1, <1>2, <1>6, <1>9, <1>11, <1>14, <1>15 DEF IInv, Whole

\* Nothing that the invariant speaks of has changed.
LEMMA SameKeeps ==
  ASSUME IInv, UNCHANGED <<pipe, pc, chunk, client, remote, broken>>, listening' \in BOOLEAN
  PROVE  IInv'
<1>1. Typed /\ Control /\ Upward /\ Downward /\ Whole
  BY DEF IInv
<1>2. Typed'
  BY <1>1 DEF Typed, PipesTyped
<1>3. UNCHANGED <<N("in"), N("req"), N("fwd"), N("ans"), N("res"), N("out"), HasFrame>>
  BY DEF N, HasFrame
<1>4. Control' /\ (Linked => Linked')
  BY <1>1, <1>3 DEF Control, Linked
<1>5. /\ Upward' /\ (CountedUp => CountedUp')
      /\ Downward' /\ (CountedDown => CountedDown')
  BY <1>1, UpwardFrame, DownwardFrame
<1> QED
  BY <1>1, <1>2, <1>4, <1>5 DEF IInv, Whole

-----------------------------------------------------------------------------
\* The invariant holds at first ...
LEMMA InitIInv == Init => IInv
<1> SUFFICES ASSUME Init PROVE IInv
  OBVIOUS
<1>1. /\ Opened \in [data : Seq(Chunks), w : BOOLEAN, r : BOOLEAN]
      /\ Closed \in [data : Seq(Chunks), w : BOOLEAN, r : BOOLEAN]
      /\ Len(Opened.data) = 0 /\ Len(Closed.data) = 0
      /\ Opened.data = <<>> /\ Closed.data = <<>>
      /\ Opened.r /\ Opened.w /\ ~Closed.r /\ ~Closed.w
  BY DEF Opened, Closed
<1>2. \A p \in Pipes : pipe[p] = IF p \in {"in", "out"} THEN Opened ELSE Closed
  BY DEF Init
<1>3. PipesTyped
  <2>1. pipe \in PipeStates
    BY <1>1 DEF Init, PipeStates
  <2>2. \A p \in Pipes : Len(pipe[p].data) = 0
    BY <1>1, <1>2
  <2>3. 0 <= Capacity
    BY ParametersAssumption
  <2> QED
    BY <2>1, <2>2, <2>3 DEF PipesTyped
<1>4. /\ pipe["in"] = Opened /\ pipe["out"] = Opened /\ pipe["req"] = Closed
      /\ pipe["fwd"] = Closed /\ pipe["ans"] = Closed /\ pipe["res"] = Closed
  BY <1>2, PipeNames
<1>5. /\ N("in") = 0 /\ N("req") = 0 /\ N("fwd") = 0 /\ N("ans") = 0 /\ N("res") = 0 /\ N("out") = 0
  BY <1>1, <1>4 DEF N
<1>6. /\ pc["wup"] = "off" /\ pc["wdown"] = "start" /\ pc["dup"] = "off" /\ pc["ddown"] = "off"
      /\ client.sent = 0 /\ client.got = 0
      /\ remote.got = 0 /\ remote.work = 0 /\ remote.state = "none"
      /\ \A t \in Threads : chunk[t] = 0
  BY DEF Init
<1>7. Typed
  <2>1. pc \in [Threads -> Labels]
    BY Names DEF Init, Labels
  <2>2. chunk \in [Threads -> Chunks]
    BY ChunksAreNumbers DEF Init
  <2>3. client \in [sent : Chunks, got : Chunks, input : BOOLEAN, alive : BOOLEAN]
    BY ChunksAreNumbers DEF Init
  <2>4. remote \in [got : Chunks, work : Chunks, state : {"none", "serving", "ended"}]
    BY ChunksAreNumbers DEF Init
  <2> QED
    BY <1>3, <1>6, <2>1, <2>2, <2>3, <2>4 DEF Typed, Init
<1>8. /\ D("wup") = 0 /\ D("dup") = 0 /\ D("wdown") = 0 /\ D("ddown") = 0
      /\ Frame = 0 /\ HasFrame = 0 /\ Answered = 0
  BY <1>6 DEF D, Frame, HasFrame, Answered
<1>9. Control
  BY <1>1, <1>4, <1>5, <1>6, Names DEF Control
<1>10. /\ InFwd = 0 /\ InReq = 0 /\ InIn = 0 /\ InOut = 0
  BY <1>5, <1>6, <1>8 DEF InFwd, InReq, InIn, InOut
<1>11. Upward /\ CountedUp
  BY <1>1, <1>4, <1>5, <1>6, <1>10, RunEmpty
     DEF Upward, FwdFollows, ReqFollows, InFollows, Unread, DupOpen, WupOpen, CountedUp
<1>12. Downward /\ CountedDown
  BY <1>1, <1>4, <1>5, <1>6, <1>8, <1>10, RunEmpty
     DEF Downward, OutFollows, ResFollows, AnsFollows, OutOpen, DownOpen, CountedDown
<1>13. Linked
  BY <1>1, <1>4, <1>5, <1>6 DEF Linked
<1> QED
  BY <1>7, <1>9, <1>11, <1>12, <1>13 DEF IInv, Whole

\* ... and every step keeps it.
LEMMA StepIInv == IInv /\ [Next]_vars => IInv'
<1> SUFFICES ASSUME IInv, [Next]_vars PROVE IInv'
  OBVIOUS
<1>1. CASE Request
  BY <1>1, RequestKeeps
<1>2. CASE Receive
  BY <1>2, ReceiveKeeps
<1>3. CASE EndInput
  BY <1>3, EndInputKeeps
<1>4. CASE WrapperUp
  BY <1>4, ReadWupKeeps, WriteWupKeeps, UpEndsWupKeeps DEF WrapperUp, Copying
<1>5. CASE WrapperMain
  BY <1>5, ConnectKeeps, ConnectFailsKeeps, WelcomedKeeps, ReadWdownKeeps, WriteWdownKeeps,
     WrapperEndsKeeps DEF WrapperMain, Copying
<1>6. CASE DaemonUp
  BY <1>6, ReadDupKeeps, ReadReleasedKeeps, WriteDupKeeps, UpEndsDupKeeps DEF DaemonUp, Copying
<1>7. CASE DaemonMain
  BY <1>7, StreamOpensKeeps, StreamFailsKeeps, WelcomeKeeps, ReadDdownKeeps, WriteDdownKeeps,
     DownEndsKeeps, JoinedKeeps, CloseStreamKeeps DEF DaemonMain, Copying
<1>8. CASE RemoteMain
  BY <1>8, TakeKeeps, AnswerKeeps, RemoteEndsKeeps DEF RemoteMain
<1>9. CASE Faults
  <2>1. CASE CloseListener
    <3>1. UNCHANGED <<pipe, pc, chunk, client, remote, broken>> /\ listening' \in BOOLEAN
      BY <2>1 DEF CloseListener
    <3> QED
      BY <3>1, SameKeeps
  <2>2. CASE RemoteDies \/ NotWelcomed \/ Kill
    BY <2>2, RemoteDiesKeeps, ConnectFailsKeeps, KillKeeps
  <2> QED
    BY <1>9, <2>1, <2>2 DEF Faults
<1>10. CASE UNCHANGED vars
  <2>1. UNCHANGED <<pipe, pc, chunk, client, remote, broken>> /\ listening' \in BOOLEAN
    BY <1>10 DEF vars, IInv, Typed
  <2> QED
    BY <2>1, SameKeeps
<1> QED
  BY <1>1, <1>2, <1>3, <1>4, <1>5, <1>6, <1>7, <1>8, <1>9, <1>10 DEF Next

\* IInv holds in every reachable state.
THEOREM AlwaysIInv == Spec => []IInv
BY InitIInv, StepIInv, PTL DEF Spec

-----------------------------------------------------------------------------
\* The invariant is stronger than RelayIsSound.
LEMMA IInvIsSound == IInv => RelayIsSound
<1> SUFFICES ASSUME IInv PROVE RelayIsSound
  OBVIOUS
<1>1. Typed /\ Control /\ Upward /\ Downward
  BY DEF IInv
<1>2. TypeOK
  <2>1. ASSUME NEW p \in Pipes
        PROVE  /\ pipe[p].data \in UNION {[1..n -> Chunks] : n \in 0..Capacity}
               /\ pipe[p].w \in BOOLEAN /\ pipe[p].r \in BOOLEAN
    <3>1. /\ pipe[p].data \in Seq(Chunks) /\ Len(pipe[p].data) <= Capacity
          /\ pipe[p].w \in BOOLEAN /\ pipe[p].r \in BOOLEAN
      BY <1>1 DEF Typed, PipesTyped, PipeStates
    <3>2. Len(pipe[p].data) \in 0..Capacity
      BY <3>1, ParametersAssumption
    <3>3. pipe[p].data \in [1..Len(pipe[p].data) -> Chunks]
      BY <3>1
    <3> QED
      BY <3>1, <3>2, <3>3
  <2> QED
    BY <1>1, <2>1 DEF Typed, TypeOK
<1>3. NothingBeforeReady
  <2>1. chunk["wup"] # 0 => remote.state # "none"
    BY <1>1 DEF Control
  <2>2. ASSUME NEW i \in 1..Len(pipe["out"].data) PROVE pipe["out"].data[i] # 0
    <3>1. pipe["out"].data[i] = client.got + i /\ i > 0 /\ i \in Int
      BY <1>1, PipeNames DEF Typed, PipesTyped, PipeStates, Downward, OutFollows, Run
    <3>2. client.got \in Nat
      BY <1>1, Numbers
    <3> QED
      BY <3>1, <3>2
  <2> QED
    BY <2>1, <2>2 DEF NothingBeforeReady
<1>4. NothingLeaks
  BY <1>1 DEF Control, NothingLeaks
<1> QED
  BY <1>2, <1>3, <1>4 DEF RelayIsSound

\* No byte of the client passes before the daemon has said that the stream is ready,
\* the frame that says so never reaches the client, and a connection whose threads have
\* ended holds no descriptor (run_transport, _serve_connection, ProcessStream.close).
THEOREM AlwaysSound == Spec => []RelayIsSound
BY AlwaysIInv, IInvIsSound, PTL

-----------------------------------------------------------------------------
(* The channel.  A pipe that has ended stays ended: nobody opens it again, *)
(* and what is closed takes nothing in.                                    *)
Less(f, g) ==
  \A p \in Pipes : f[p].data = <<>> /\ ~f[p].w => g[p].data = <<>> /\ ~g[p].w

\* Closing reading ends opens nothing ...
LEMMA ReadEndsLess ==
  ASSUME NEW f \in PipeStates, NEW ps
  PROVE  ReadEndsClosed(f, ps) \in PipeStates /\ Less(f, ReadEndsClosed(f, ps))
<1> DEFINE g == ReadEndsClosed(f, ps)
<1>1. ASSUME NEW p \in Pipes
      PROVE  g[p] \in [data : Seq(Chunks), w : BOOLEAN, r : BOOLEAN] /\ g[p].w = f[p].w
             /\ (g[p].data = f[p].data \/ g[p].data = <<>>)
  <2>1. f[p] \in [data : Seq(Chunks), w : BOOLEAN, r : BOOLEAN]
    BY DEF PipeStates
  <2>2. g[p] = IF p \in ps THEN [f[p] EXCEPT !.data = <<>>, !.r = FALSE] ELSE f[p]
    BY DEF ReadEndsClosed
  <2> HIDE DEF g
  <2>3. CASE p \in ps
    <3>1. g[p] = [f[p] EXCEPT !.data = <<>>, !.r = FALSE] /\ <<>> \in Seq(Chunks)
      BY <2>2, <2>3
    <3> QED
      BY <2>1, <3>1
  <2>4. CASE p \notin ps
    <3>1. g[p] = f[p]
      BY <2>2, <2>4
    <3> QED
      BY <2>1, <3>1
  <2> QED
    BY <2>3, <2>4
<1>2. g \in PipeStates
  BY <1>1 DEF PipeStates, ReadEndsClosed
<1> HIDE DEF g
<1>3. g \in PipeStates /\ Less(f, g)
  BY <1>1, <1>2 DEF Less
<1> QED
  BY <1>3 DEF g

\* ... nor does closing writing ends ...
LEMMA WriteEndsLess ==
  ASSUME NEW f \in PipeStates, NEW ps
  PROVE  WriteEndsClosed(f, ps) \in PipeStates /\ Less(f, WriteEndsClosed(f, ps))
<1> DEFINE g == WriteEndsClosed(f, ps)
<1>1. ASSUME NEW p \in Pipes
      PROVE  g[p] \in [data : Seq(Chunks), w : BOOLEAN, r : BOOLEAN]
             /\ g[p].data = f[p].data /\ (g[p].w => f[p].w)
  <2>1. f[p] \in [data : Seq(Chunks), w : BOOLEAN, r : BOOLEAN]
    BY DEF PipeStates
  <2>2. g[p] = IF p \in ps THEN [f[p] EXCEPT !.w = FALSE] ELSE f[p]
    BY DEF WriteEndsClosed
  <2> HIDE DEF g
  <2> QED
    BY <2>1, <2>2
<1>2. g \in PipeStates
  BY <1>1 DEF PipeStates, WriteEndsClosed
<1> HIDE DEF g
<1>3. g \in PipeStates /\ Less(f, g)
  BY <1>1, <1>2 DEF Less
<1> QED
  BY <1>3 DEF g

\* ... nor one after the other.
LEMMA LessTransitive ==
  ASSUME NEW f, NEW g, NEW h, Less(f, g), Less(g, h) PROVE Less(f, h)
BY DEF Less

\* Both at once
LEMMA ClosingLess ==
  ASSUME NEW f \in PipeStates, NEW rs, NEW ws
  PROVE  /\ WriteEndsClosed(ReadEndsClosed(f, rs), ws) \in PipeStates
         /\ Less(f, WriteEndsClosed(ReadEndsClosed(f, rs), ws))
<1>1. ReadEndsClosed(f, rs) \in PipeStates /\ Less(f, ReadEndsClosed(f, rs))
  BY ReadEndsLess
<1>2. /\ WriteEndsClosed(ReadEndsClosed(f, rs), ws) \in PipeStates
      /\ Less(ReadEndsClosed(f, rs), WriteEndsClosed(ReadEndsClosed(f, rs), ws))
  BY <1>1, WriteEndsLess
<1> QED
  BY <1>1, <1>2, LessTransitive

\* A write goes to an open pipe, a read is of a chunk: neither pipe has ended.
LEMMA PushedLess ==
  ASSUME pipe \in PipeStates, NEW q \in Pipes, NEW m, pipe[q].w
  PROVE  Less(pipe, Pushed(q, m))
<1>1. \A p \in Pipes : p # q => Pushed(q, m)[p] = pipe[p]
  BY DEF Pushed, PipeStates
<1> QED
  BY <1>1 DEF Less

LEMMA PoppedLess ==
  ASSUME pipe \in PipeStates, NEW q \in Pipes, pipe[q].data # <<>>
  PROVE  Popped(q) \in PipeStates /\ Less(pipe, Popped(q))
<1>1. \A p \in Pipes : p # q => Popped(q)[p] = pipe[p]
  BY DEF Popped, PipeStates
<1>2. Less(pipe, Popped(q))
  BY <1>1 DEF Less
<1>3. pipe[q].data \in Seq(Chunks) /\ Tail(pipe[q].data) \in Seq(Chunks)
  BY DEF PipeStates
<1> QED
  BY <1>2, <1>3 DEF Popped, PipeStates

\* The connection that goes with the last thread
LEMMA ReleasedLess ==
  ASSUME NEW t, NEW f \in PipeStates PROVE Less(f, Released(t, f))
<1>1. Less(f, f)
  BY DEF Less
<1> QED
  BY <1>1, ClosingLess DEF Released

\* Who was told of the end stays told: the client at out, the remote at fwd.
StaysEnded ==
  /\ Ended("out") => Ended("out")'
  /\ remote.state # "none" => remote'.state # "none" /\ (Ended("fwd") => Ended("fwd")')

\* A step that opens nothing leaves an ended pipe ended.
LEMMA LessStaysEnded ==
  ASSUME Less(pipe, pipe'), remote.state # "none" => remote'.state # "none"
  PROVE  StaysEnded
BY PipeNames DEF Less, StaysEnded, Ended

\* So does every step of a copying thread ...
LEMMA CopyingStaysEnded ==
  ASSUME IInv, NEW t \in Threads, Copying(t) \/ UpEnds(t) PROVE StaysEnded
<1>1. pipe \in PipeStates /\ Source[t] \in Pipes /\ Sink[t] \in Pipes
  BY Names, PipeNames DEF IInv, Typed, PipesTyped
<1>2. UNCHANGED remote
  BY DEF Copying, Read, Write, UpEnds
<1>3. CASE Read(t)
  <2>1. pipe[Source[t]].data # <<>> /\ pipe' = Released(t, Popped(Source[t]))
    BY <1>3 DEF Read
  <2>2. Popped(Source[t]) \in PipeStates /\ Less(pipe, Popped(Source[t]))
    BY <1>1, <2>1, PoppedLess
  <2>3. Less(Popped(Source[t]), pipe')
    BY <2>1, <2>2, ReleasedLess
  <2> QED
    BY <1>2, <2>2, <2>3, LessTransitive, LessStaysEnded
<1>4. CASE Write(t)
  <2>1. pipe[Sink[t]].w /\ pipe' = Pushed(Sink[t], chunk[t])
    BY <1>4 DEF Write, Accepts, HasRoom
  <2>2. Less(pipe, pipe')
    BY <1>1, <2>1, PushedLess
  <2> QED
    BY <1>2, <2>2, LessStaysEnded
<1>5. CASE UpEnds(t)
  <2>1. CASE UNCHANGED pipe
    BY <1>2, <2>1 DEF StaysEnded, Ended
  <2>2. CASE pipe' = Released(t, HalfClosed(t))
    <3>1. HalfClosed(t) \in PipeStates /\ Less(pipe, HalfClosed(t))
      BY <1>1, WriteEndsLess DEF HalfClosed
    <3>2. Less(HalfClosed(t), pipe')
      BY <2>2, <3>1, ReleasedLess
    <3> QED
      BY <1>2, <3>1, <3>2, LessTransitive, LessStaysEnded
  <2> QED
    BY <1>5, <2>1, <2>2 DEF UpEnds
<1> QED
  BY <1>3, <1>4, <1>5 DEF Copying

\* ... and every step at all; what has broken stays broken.
LEMMA StepStaysEnded ==
  ASSUME IInv, [Next]_vars PROVE StaysEnded /\ (broken => broken')
<1>1. pipe \in PipeStates /\ Typed /\ Control
  BY DEF IInv, Typed, PipesTyped
<1>2. broken => broken'
  BY DEF Next, vars, Request, Receive, EndInput, WrapperUp, WrapperMain, DaemonUp, DaemonMain,
     RemoteMain, Faults, Copying, Read, Write, UpEnds, Connect, ConnectFails, Welcomed,
     WrapperEnds, StreamOpens, StreamFails, Welcome, DownEnds, Joined, CloseStream, Take,
     Answer, RemoteEnds, RemoteDies, NotWelcomed, CloseListener, Kill
<1> SUFFICES StaysEnded
  BY <1>2
<1>3. CASE UNCHANGED <<pipe, remote>>
  BY <1>3 DEF StaysEnded, Ended
<1>4. CASE Request
  BY <1>1, <1>4, PushedLess, PipeNames, LessStaysEnded DEF Request, HasRoom
<1>5. CASE Receive
  BY <1>1, <1>5, PoppedLess, PipeNames, LessStaysEnded DEF Receive
<1>6. CASE EndInput
  BY <1>1, <1>6, WriteEndsLess, LessStaysEnded DEF EndInput
<1>7. CASE Take
  <2>1. remote'.state = remote.state
    BY <1>1, <1>7 DEF Take, Typed
  <2> QED
    BY <1>1, <1>7, <2>1, PoppedLess, PipeNames, LessStaysEnded DEF Take
<1>8. CASE Answer
  <2>1. remote'.state = remote.state
    BY <1>1, <1>8 DEF Answer, Typed
  <2> QED
    BY <1>1, <1>8, <2>1, PushedLess, PipeNames, LessStaysEnded DEF Answer, HasRoom
<1>9. CASE RemoteEnds \/ RemoteDies
  <2>1. PICK lost \in BOOLEAN : remote.state = "serving" /\ RemoteGone(lost) /\ broken' \in BOOLEAN
    BY <1>1, <1>9 DEF RemoteEnds, RemoteDies, Typed
  <2>2. /\ Closes("fwd") /\ remote'.state = "ended" /\ UNCHANGED pipe["out"]
    BY <2>1, RemoteGoneKeeps
  <2> QED
    BY <2>2 DEF Closes, Shrinks, StaysEnded, Ended
<1>10. CASE WrapperGone /\ UNCHANGED remote
  BY <1>1, <1>10, ClosingLess, LessStaysEnded DEF WrapperGone
<1>11. CASE StreamFails
  BY <1>1, <1>11, ClosingLess, LessStaysEnded DEF StreamFails
<1>12. CASE Kill
  BY <1>1, <1>12, ClosingLess, LessStaysEnded DEF Kill
<1>13. CASE Connect
  <2>1. UNCHANGED <<pipe["fwd"], pipe["out"], remote>>
    BY <1>1, <1>13, PipeNames DEF Connect, PipeStates
  <2> QED
    BY <2>1 DEF StaysEnded, Ended
<1>14. CASE Welcomed
  BY <1>1, <1>14, PoppedLess, PipeNames, LessStaysEnded DEF Welcomed
<1>15. CASE StreamOpens
  <2>1. UNCHANGED pipe["out"] /\ remote.state = "none"
    BY <1>1, <1>15, PipeNames DEF StreamOpens, PipeStates, Control
  <2> QED
    BY <2>1 DEF StaysEnded, Ended
<1>16. CASE Welcome
  <2>1. UNCHANGED <<pipe["fwd"], pipe["out"], remote>>
    BY <1>1, <1>16, PipeNames DEF Welcome, Pushed, PipeStates
  <2> QED
    BY <2>1 DEF StaysEnded, Ended
<1>17. CASE CloseStream
  <2>1. StreamClosed \in PipeStates /\ Less(pipe, StreamClosed)
    BY <1>1, ClosingLess DEF StreamClosed
  <2>2. Less(StreamClosed, WriteEndsClosed(ReadEndsClosed(StreamClosed, {"req"}), {"res"}))
    BY <2>1, ClosingLess
  <2>3. Less(pipe, pipe')
    BY <1>17, <2>1, <2>2, LessTransitive DEF CloseStream
  <2> QED
    BY <1>17, <2>3, LessStaysEnded DEF CloseStream
<1>18. ASSUME NEW t \in Threads, Copying(t) \/ UpEnds(t) PROVE StaysEnded
  BY <1>18, CopyingStaysEnded
<1>19. CASE Next
  <2>1. CASE WrapperUp
    BY <1>18, <2>1, Names DEF WrapperUp
  <2>2. CASE WrapperMain
    BY <1>10, <1>13, <1>14, <1>18, <2>2, Names DEF WrapperMain, ConnectFails, WrapperEnds
  <2>3. CASE DaemonUp
    BY <1>18, <2>3, Names DEF DaemonUp
  <2>4. CASE DaemonMain
    BY <1>3, <1>11, <1>15, <1>16, <1>17, <1>18, <2>4, Names DEF DaemonMain, DownEnds, Joined
  <2>5. CASE RemoteMain
    BY <1>7, <1>8, <1>9, <2>5 DEF RemoteMain
  <2>6. CASE Faults
    BY <1>3, <1>9, <1>10, <1>12, <2>6 DEF Faults, NotWelcomed, CloseListener
  <2> QED
    BY <1>4, <1>5, <1>6, <1>19, <2>1, <2>2, <2>3, <2>4, <2>5, <2>6 DEF Next
<1> QED
  BY <1>2, <1>3, <1>19 DEF vars

\* Each side has everything before it is told of the end.
LEMMA ToldAtTheEnd ==
  ASSUME IInv, ~broken
  PROVE  /\ remote.state # "none" /\ Ended("fwd") => remote.got = client.sent
         /\ Ended("out") => client.got = Answered
<1>1. Typed /\ Control /\ Linked /\ CountedUp /\ CountedDown
  BY DEF IInv, Whole
<1>2. /\ Ended("fwd") => N("fwd") = 0 /\ ~pipe["fwd"].w
      /\ Ended("out") => N("out") = 0 /\ ~pipe["out"].w
  BY DEF Ended, N
<1>3. ASSUME remote.state # "none", Ended("fwd") PROVE remote.got = client.sent
  <2>1. /\ N("fwd") = 0 /\ N("req") = 0 /\ N("in") = 0
        /\ pc["dup"] = "done" /\ pc["wup"] = "done"
    BY <1>1, <1>2, <1>3 DEF Linked
  <2>2. D("dup") = 0 /\ D("wup") = 0
    BY <2>1 DEF D
  <2> QED
    BY <1>1, <2>1, <2>2, Numbers DEF CountedUp, InIn, InReq, InFwd
<1>4. ASSUME Ended("out") PROVE client.got = Answered
  <2>1. /\ N("out") = 0 /\ N("res") = 0 /\ N("ans") = 0
        /\ pc["wdown"] = "gone" /\ pc["ddown"] = "done"
    BY <1>1, <1>2, <1>4 DEF Linked
  <2>2. D("wdown") = 0 /\ D("ddown") = 0 /\ HasFrame = 0
    BY <2>1 DEF D, HasFrame
  <2> QED
    BY <1>1, <2>1, <2>2, Numbers DEF CountedDown, InOut
<1> QED
  BY <1>3, <1>4

\* What a step does at the two ends of the channel.
Sends(d) ==
  IF d = "up" THEN client'.sent = client.sent + 1 /\ UNCHANGED <<client.got, remote.got,
                                                                 Answered>>
  ELSE Answered' = Answered + 1 /\ UNCHANGED <<client.sent, client.got, remote.got>>
Delivers(d) ==
  IF d = "up"
  THEN /\ remote'.got = remote.got + 1 /\ remote.got < client.sent /\ ~Ended("fwd")
       /\ UNCHANGED <<client.sent, client.got, Answered>>
  ELSE /\ client'.got = client.got + 1 /\ client.got < Answered /\ ~Ended("out")
       /\ UNCHANGED <<client.sent, remote.got, Answered>>
Silent == UNCHANGED <<client.sent, client.got, remote.got, Answered>>

\* A step sends one message, delivers the next one in order, or does neither.
LEMMA StepCarries ==
  ASSUME IInv, [Next]_vars
  PROVE  Silent \/ \E d \in {"up", "down"} : Sends(d) \/ Delivers(d)
<1>1. Typed /\ Control /\ Upward /\ Downward
  BY DEF IInv
<1>2. CASE UNCHANGED <<client, remote>>
  BY <1>2 DEF Silent, Answered
<1>3. CASE Request
  <2>1. client'.sent = client.sent + 1 /\ UNCHANGED <<client.got, remote>>
    BY <1>1, <1>3 DEF Request, Typed
  <2>2. Sends("up")
    BY <2>1 DEF Sends, Answered
  <2> QED
    BY <2>2
<1>4. CASE Receive
  <2>1. Removed("out") /\ pipe["out"].data # <<>>
    BY <1>1, <1>4, PoppedChanges, PipeNames DEF Receive, Typed
  <2>2. Head(pipe["out"].data) = client.got + 1 /\ N("out") > 0
    <3>1. client.got \in Int /\ Run(pipe["out"].data, client.got)
      BY <1>1, Numbers DEF Downward, OutFollows
    <3> QED
      BY <2>1, <3>1 DEF Removed
  <2>3. client'.got = client.got + 1 /\ UNCHANGED <<client.sent, remote>>
    BY <1>1, <1>4, <2>2 DEF Receive, Typed
  <2>4. client.got < Answered
    BY <1>1, <2>2, Numbers DEF Downward, OutFollows, InOut
  <2>5. Delivers("down")
    BY <2>1, <2>3, <2>4 DEF Delivers, Answered, Ended
  <2> QED
    BY <2>5
<1>5. CASE client'.sent = client.sent /\ client'.got = client.got /\ UNCHANGED remote
  BY <1>5 DEF Silent, Answered
<1>6. CASE Take
  <2>1. Removed("fwd") /\ pipe["fwd"].data # <<>> /\ Head(pipe["fwd"].data) \in Chunks
    BY <1>1, <1>6, PoppedChanges, PipeNames DEF Take, Typed
  <2>2. Head(pipe["fwd"].data) = remote.got + 1 /\ N("fwd") > 0
    <3>1. remote.got \in Int /\ Run(pipe["fwd"].data, remote.got)
      BY <1>1, Numbers DEF Upward, FwdFollows
    <3> QED
      BY <2>1, <3>1 DEF Removed
  <2>3. /\ remote'.got = remote.got + 1 /\ remote'.work = remote.got + 1
        /\ remote.work = 0 /\ UNCHANGED client
    BY <1>1, <1>6, <2>2 DEF Take, Typed
  <2>4. remote.got < client.sent /\ remote.got \in Nat
    BY <1>1, <2>2, Numbers DEF Upward, FwdFollows, InFwd
  <2>5. Answered = remote.got /\ Answered' = remote.got
    BY <2>3, <2>4 DEF Answered
  <2>6. Delivers("up")
    BY <2>1, <2>3, <2>4, <2>5 DEF Delivers, Ended
  <2> QED
    BY <2>6
<1>7. CASE Answer
  <2>1. /\ remote'.got = remote.got /\ remote'.work = 0 /\ remote.work # 0 /\ UNCHANGED client
        /\ remote.got \in Nat
    BY <1>1, <1>7, Numbers DEF Answer, Typed
  <2>2. Answered' = Answered + 1
    BY <2>1 DEF Answered
  <2>3. Sends("down")
    BY <2>1, <2>2 DEF Sends
  <2> QED
    BY <2>3
<1>8. CASE UNCHANGED client /\ remote'.got = remote.got /\ remote'.work = remote.work
  BY <1>8 DEF Silent, Answered
<1>9. EndInput \/ Kill => client'.sent = client.sent /\ client'.got = client.got /\ UNCHANGED remote
  BY <1>1 DEF EndInput, Kill, Typed
<1>10. RemoteEnds \/ RemoteDies \/ StreamOpens =>
         UNCHANGED client /\ remote'.got = remote.got /\ remote'.work = remote.work
  BY <1>1 DEF RemoteEnds, RemoteDies, RemoteGone, StreamOpens, Typed
<1>11. CASE Next
  <2>1. CASE WrapperUp \/ DaemonUp
    BY <1>2, <2>1 DEF WrapperUp, DaemonUp, Copying, Read, Write, UpEnds
  <2>2. CASE WrapperMain
    BY <1>2, <2>2 DEF WrapperMain, Copying, Read, Write, Connect, ConnectFails, Welcomed,
                      WrapperEnds
  <2>3. CASE DaemonMain
    BY <1>2, <1>8, <1>10, <2>3
       DEF DaemonMain, Copying, Read, Write, StreamFails, Welcome, DownEnds, Joined, CloseStream
  <2>4. CASE RemoteMain
    BY <1>6, <1>7, <1>8, <1>10, <2>4 DEF RemoteMain
  <2>5. CASE Faults
    BY <1>2, <1>5, <1>8, <1>9, <1>10, <2>5 DEF Faults, NotWelcomed, CloseListener
  <2> QED
    BY <1>3, <1>4, <1>5, <1>9, <1>11, <2>1, <2>2, <2>3, <2>4, <2>5 DEF Next
<1> QED
  BY <1>2, <1>11 DEF vars

\* The first state of the relay is the first one of the channel.
LEMMA InitIsChannel == Init => Pipeline!Init
<1> SUFFICES ASSUME Init PROVE Pipeline!Init
  OBVIOUS
<1>1. /\ client.sent = 0 /\ client.got = 0 /\ remote.got = 0 /\ remote.work = 0
      /\ remote.state = "none" /\ broken = FALSE /\ ~Ended("out")
  BY PipeNames DEF Init, Opened, Ended
<1> QED
  BY <1>1 DEF Pipeline!Init, Pipeline!Directions

\* The variables of the channel
Sent ==
  [d \in {"up", "down"} |->
     IF d = "up" THEN client.sent ELSE remote.got - (IF remote.work = 0 THEN 0 ELSE 1)]
Got == [d \in {"up", "down"} |-> IF d = "up" THEN remote.got ELSE client.got]
Told ==
  {d \in {"up", "down"} :
     IF d = "up" THEN remote.state # "none" /\ Ended("fwd") ELSE Ended("out")}

\* What they are at either end; where the reader was told, it has everything.
Mapped ==
  /\ Sent \in [{"up", "down"} -> Int] /\ Got \in [{"up", "down"} -> Int]
  /\ Sent["up"] = client.sent /\ Sent["down"] = Answered
  /\ Got["up"] = remote.got /\ Got["down"] = client.got
  /\ Told \subseteq {"up", "down"}
  /\ "up" \in Told <=> remote.state # "none" /\ Ended("fwd")
  /\ "down" \in Told <=> Ended("out")

ToldAll == \A d \in Told : Got[d] = Sent[d] \/ broken

\* The invariant is what these two need.
LEMMA MappedVariables == IInv => Mapped /\ ToldAll
<1> SUFFICES ASSUME IInv PROVE Mapped /\ ToldAll
  OBVIOUS
<1> USE DEF IInv
<1>1. /\ client.sent \in Int /\ client.got \in Int /\ remote.got \in Int
  BY Numbers
<1>2. remote.got - (IF remote.work = 0 THEN 0 ELSE 1) \in Int
  BY <1>1
<1>3. Answered = remote.got - (IF remote.work = 0 THEN 0 ELSE 1)
  BY <1>1 DEF Answered
<1>4. Mapped
  BY <1>1, <1>2, <1>3 DEF Mapped, Sent, Got, Told
<1>5. ToldAll
  BY <1>4, ToldAtTheEnd DEF Mapped, ToldAll
<1> QED
  BY <1>4, <1>5

\* A counter that goes up in one direction.
LEMMA Incremented ==
  ASSUME NEW f \in [{"up", "down"} -> Int], NEW g \in [{"up", "down"} -> Int],
         NEW d \in {"up", "down"}, g[d] = f[d] + 1,
         \A e \in {"up", "down"} : e # d => g[e] = f[e]
  PROVE  g = [f EXCEPT ![d] = @ + 1]
OBVIOUS

\* Every step of the relay is a step of the channel or a stutter.
LEMMA StepIsChannel ==
  ASSUME IInv, IInv', [Next]_vars
  PROVE  Pipeline!Next
<1>1. Mapped /\ Mapped' /\ ToldAll'
  BY MappedVariables, PTL
<1>2. /\ Sent \in [{"up", "down"} -> Int] /\ Got \in [{"up", "down"} -> Int]
      /\ Sent["up"] = client.sent /\ Sent["down"] = Answered
      /\ Got["up"] = remote.got /\ Got["down"] = client.got
      /\ Told \subseteq {"up", "down"}
      /\ "up" \in Told <=> remote.state # "none" /\ Ended("fwd")
      /\ "down" \in Told <=> Ended("out")
  BY <1>1 DEF Mapped
<1>3. /\ Sent' \in [{"up", "down"} -> Int] /\ Got' \in [{"up", "down"} -> Int]
      /\ Sent'["up"] = client'.sent /\ Sent'["down"] = Answered'
      /\ Got'["up"] = remote'.got /\ Got'["down"] = client'.got
      /\ Told' \subseteq {"up", "down"}
      /\ "up" \in Told' <=> remote'.state # "none" /\ Ended("fwd")'
      /\ "down" \in Told' <=> Ended("out")'
  BY <1>1 DEF Mapped
<1>4. Told \subseteq Told' /\ (broken => broken')
  BY <1>2, <1>3, StepStaysEnded DEF StaysEnded
<1>5. \A d \in Told' \ Told : Got'[d] = Sent'[d] \/ broken'
  BY <1>1 DEF ToldAll
<1>6. \/ UNCHANGED <<Sent, Got>>
      \/ \E d \in {"up", "down"} :
           \/ Sent' = [Sent EXCEPT ![d] = @ + 1] /\ UNCHANGED Got
           \/ /\ Got[d] < Sent[d] /\ d \notin Told
              /\ Got' = [Got EXCEPT ![d] = @ + 1] /\ UNCHANGED Sent
  <2>1. \A f, g \in [{"up", "down"} -> Int] :
          f["up"] = g["up"] /\ f["down"] = g["down"] => f = g
    OBVIOUS
  <2>2. CASE Silent
    BY <1>2, <1>3, <2>1, <2>2 DEF Silent
  <2>3. ASSUME NEW d \in {"up", "down"}, Sends(d)
        PROVE  Sent' = [Sent EXCEPT ![d] = @ + 1] /\ UNCHANGED Got
    <3>1. /\ Sent'[d] = Sent[d] + 1 /\ Got'["up"] = Got["up"] /\ Got'["down"] = Got["down"]
          /\ \A e \in {"up", "down"} : e # d => Sent'[e] = Sent[e]
      BY <1>2, <1>3, <2>3 DEF Sends
    <3> QED
      BY <1>2, <1>3, <2>1, <3>1, Incremented
  <2>4. ASSUME NEW d \in {"up", "down"}, Delivers(d)
        PROVE  /\ Got[d] < Sent[d] /\ d \notin Told
               /\ Got' = [Got EXCEPT ![d] = @ + 1] /\ UNCHANGED Sent
    <3>1. /\ Got'[d] = Got[d] + 1 /\ Sent'["up"] = Sent["up"] /\ Sent'["down"] = Sent["down"]
          /\ \A e \in {"up", "down"} : e # d => Got'[e] = Got[e]
          /\ Got[d] < Sent[d] /\ d \notin Told
      BY <1>2, <1>3, <2>4 DEF Delivers
    <3> QED
      BY <1>2, <1>3, <2>1, <3>1, Incremented
  <2> QED
    BY <2>2, <2>3, <2>4, StepCarries
<1>7. Told' \subseteq {"up", "down"}
  BY <1>3
<1> QED
  BY <1>4, <1>5, <1>6, <1>7
     DEF Pipeline!Next, Pipeline!Send, Pipeline!Deliver, Pipeline!Directions, Sent, Got, Told

\* Four threads, two sockets and an SSH process carry each request and each answer once
\* and in order, and tell a side of the end only after it got everything, unless
\* something broke (stdin_to_socket, left_to_right, shutdown_write).
THEOREM RelayIsChannel == Spec => IsChannel
<1>1. Init => Pipeline!Init
  BY InitIsChannel
<1>2. IInv /\ IInv' /\ [Next]_vars => [Pipeline!Next]_<<Sent, Got, Told, broken>>
  BY StepIsChannel
<1> QED
  BY <1>1, <1>2, AlwaysIInv, PTL DEF Spec, IsChannel, Pipeline!Spec, Sent, Got, Told


-----------------------------------------------------------------------------
(***************************************************************************)
(* RemoteSession: its safety for all channels, sessions, replay keys and   *)
(* expiries.  RemoteIInv adds to the properties what they rest on:         *)
(*   - a channel is served once, so before its turn it has no worker and   *)
(*     no thread (Unserved);                                               *)
(*   - a thread, from its start to its end, goes with the registry's entry *)
(*     for its own channel (Watched);                                      *)
(*   - the ledger has consumed the key of every live worker, and of no     *)
(*     live worker the key the broker is about to consume (Consumed).      *)
(***************************************************************************)

Waiting(a) == \/ entry[a] = "idle"
              \/ a \in queue
              \/ a = cur /\ stage \in {"issue", "consume", "pin", "start"}

\* A channel whose turn has not come has no worker and no thread.
Unserved ==
  /\ \A a \in Attempts : Waiting(a) => worker[a] = "none" /\ watch[a] = None
  /\ \A a \in queue : entry[a] # "idle" /\ a # cur
  /\ cur # None => entry[cur] # "idle"
  /\ stage = "register" => watch[cur] = None
  /\ stage \in {"register", "reply"} => worker[cur] # "none"

\* A thread supervises its own channel's worker and that is who is registered.
Watched ==
  \A a \in Attempts :
    /\ watch[a] \in {None, "born", a}
    /\ watch[a] # None => owner[Sid[a]] = a

\* Replay keys of live workers are consumed, and the key at hand is fresh.
Consumed ==
  /\ \A a \in Alive : ledger[Key[a]] = "consumed"
  /\ stage = "consume" => ledger[Key[cur]] = "issued"
  /\ stage \in {"pin", "start"} =>
       ledger[Key[cur]] = "consumed" /\ \A a \in Alive : Key[a] # Key[cur]
  /\ stage = "down" => Alive = {}

RemoteIInv == RemoteTypeOK /\ Unserved /\ Watched /\ Consumed /\ LiveIsSupervised /\ DistinctWorkers

\* The initial state satisfies the invariant.
LEMMA RemoteInitIInv == RemoteInit => RemoteIInv
<1> SUFFICES ASSUME RemoteInit PROVE RemoteIInv
  OBVIOUS
<1> USE ConstantsAssumption DEF RemoteInit, None
<1>1. RemoteTypeOK
  <2>1. spent \in BOOLEAN
    BY Zenon
  <2>2. bound \in BOOLEAN
    BY Zenon
  <2>3. now \in 0..MaxTime
    OBVIOUS
  <2> QED
    BY <2>1, <2>2, <2>3 DEF RemoteTypeOK, EntryStates, WorkerStates, BrokerSteps
<1>2. Unserved /\ Watched
  BY DEF Unserved, Waiting, Watched
<1>3. Consumed /\ LiveIsSupervised /\ DistinctWorkers
  BY DEF Alive, Consumed, LiveIsSupervised, DistinctWorkers
<1> QED
  BY <1>1, <1>2, <1>3 DEF RemoteIInv

\* The death of the broker leaves no live worker, no thread and no record.
LEMMA DieIInv == RemoteIInv /\ Die /\ cur \in Attempts => RemoteIInv'
<1> SUFFICES ASSUME RemoteIInv, Die, cur \in Attempts PROVE RemoteIInv'
  OBVIOUS
<1> USE ConstantsAssumption DEF RemoteIInv, Die, None
<1>1. RemoteTypeOK'
  BY DEF RemoteTypeOK, EntryStates, WorkerStates, BrokerSteps
<1>2. Alive' = {}
  BY DEF RemoteTypeOK, Alive
<1>3. Unserved'
  BY DEF RemoteTypeOK, Unserved, Waiting
<1>4. Watched'
  BY DEF RemoteTypeOK, Watched
<1>5. Consumed' /\ LiveIsSupervised' /\ DistinctWorkers'
  BY <1>2 DEF Consumed, LiveIsSupervised, DistinctWorkers
<1> QED
  BY <1>1, <1>3, <1>4, <1>5

\* The steps of the entry processes, the workers and the clock.
LEMMA WorldIInv ==
  ASSUME RemoteIInv,
         \/ TimePasses
         \/ \E a \in Attempts : EntryStep(a) \/ Hangup(a) \/ SeesEnd(a) \/ Fails(a)
  PROVE  RemoteIInv'
<1> USE ConstantsAssumption
        DEF RemoteIInv, RemoteTypeOK, Unserved, Waiting, Watched, Consumed, LiveIsSupervised,
            DistinctWorkers, Alive, None, EntryStates, WorkerStates, BrokerSteps,
            brokerVars
<1>1. CASE TimePasses
  BY <1>1 DEF TimePasses
<1>2. ASSUME NEW a \in Attempts, Ask(a) PROVE RemoteIInv'
  BY <1>2 DEF Ask, Valid
<1>3. ASSUME NEW a \in Attempts, OuterReady(a) \/ StreamEnds(a) \/ Hangup(a) PROVE RemoteIInv'
  BY <1>3 DEF OuterReady, StreamEnds, Hangup
<1>4. ASSUME NEW a \in Attempts, SeesEnd(a) \/ Fails(a) PROVE RemoteIInv'
  BY <1>4 DEF SeesEnd, Fails, WorkerExits
<1> QED
  BY <1>1, <1>2, <1>3, <1>4 DEF EntryStep

\* The steps of the supervising threads.
LEMMA SuperviseIInv ==
  ASSUME RemoteIInv, NEW a \in Attempts, Supervise(a)
  PROVE  RemoteIInv'
<1> USE ConstantsAssumption
        DEF RemoteIInv, RemoteTypeOK, Unserved, Waiting, Watched, Consumed, LiveIsSupervised,
            DistinctWorkers, Alive, None, EntryStates, WorkerStates, BrokerSteps,
            brokerVars
<1>1. CASE Lookup(a)
  BY <1>1 DEF Lookup
<1>2. CASE Reap(a)
  BY <1>2 DEF Reap, Due
<1>3. CASE Remove(a)
  BY <1>3 DEF Remove
<1> QED
  BY <1>1, <1>2, <1>3 DEF Supervise

\* The steps of the broker's request thread.
LEMMA BrokerIInv ==
  ASSUME RemoteIInv, BrokerStep
  PROVE  RemoteIInv'
<1> USE ConstantsAssumption
        DEF RemoteIInv, RemoteTypeOK, Unserved, Waiting, Watched, Consumed, LiveIsSupervised,
            DistinctWorkers, Alive, None, EntryStates, WorkerStates, BrokerSteps
<1>1. CASE Activate
  BY <1>1 DEF Activate
<1>2. ASSUME NEW a \in Attempts, Accept(a) PROVE RemoteIInv'
  BY <1>2 DEF Accept
<1>3. CASE Issue
  BY <1>3 DEF Issue, Fresh, Valid, Serve
<1>4. CASE Consume
  BY <1>4 DEF Consume, Valid, Serve
<1>5. CASE StartWorker
  BY <1>5 DEF StartWorker
<1>7. CASE LaunchFails
  BY <1>7 DEF LaunchFails
<1>8. CASE Register
  BY <1>8 DEF Register, Registrable, Enrol, Valid
<1>9. CASE Reply
  <2>1. CASE Respond("ready")
    BY <1>9, <2>1 DEF Reply, Respond
  <2>2. CASE Die
    BY <1>9, <2>2, DieIInv DEF Reply
  <2> QED
    BY <1>9, <2>1, <2>2 DEF Reply
<1>10. CASE Reject
  <2>1. CASE ~spent /\ Respond("gone")
    BY <1>10, <2>1 DEF Reject, Respond
  <2>2. CASE Die
    BY <1>10, <2>2, DieIInv DEF Reject
  <2> QED
    BY <1>10, <2>1, <2>2 DEF Reject
<1> QED
  BY <1>1, <1>2, <1>3, <1>4, <1>5, <1>7, <1>8, <1>9, <1>10 DEF BrokerStep

\* The wait for the pinning child, and the restart of the socket unit.
LEMMA PinIInv ==
  ASSUME RemoteIInv, PinStep \/ Rebind
  PROVE  RemoteIInv'
<1>1. CASE Pin \/ (PinFails /\ Serve("reject") /\ UNCHANGED <<ledger, worker>>)
  BY <1>1, ConstantsAssumption
     DEF Pin, PinFails, Serve, RemoteIInv, RemoteTypeOK, Unserved, Waiting, Watched,
         Consumed, LiveIsSupervised, DistinctWorkers, Alive, None, BrokerSteps
<1>2. CASE PinFails /\ Die
  BY <1>2, DieIInv DEF PinFails, RemoteIInv, RemoteTypeOK
<1>3. CASE Rebind
  BY <1>3, ConstantsAssumption
     DEF Rebind, RemoteIInv, RemoteTypeOK, Unserved, Waiting, Watched, Consumed,
         LiveIsSupervised, DistinctWorkers, Alive, None, EntryStates
<1> QED
  BY <1>1, <1>2, <1>3 DEF PinStep, PinFails

\* Every reachable state satisfies the invariant.
THEOREM RemoteInductive == RemoteSpec => []RemoteIInv
<1>1. RemoteInit => RemoteIInv
  BY RemoteInitIInv
<1>2. RemoteIInv /\ [RemoteNext]_remoteVars => RemoteIInv'
  <2> SUFFICES ASSUME RemoteIInv, [RemoteNext]_remoteVars PROVE RemoteIInv'
    OBVIOUS
  <2>1. CASE BrokerStep
    BY <2>1, BrokerIInv
  <2>2. CASE \E a \in Attempts : Supervise(a)
    BY <2>2, SuperviseIInv
  <2>3. CASE \/ TimePasses
             \/ \E a \in Attempts : EntryStep(a) \/ Hangup(a) \/ SeesEnd(a) \/ Fails(a)
    BY <2>3, WorldIInv
  <2>4. CASE PinStep \/ Rebind
    BY <2>4, PinIInv
  <2>5. CASE UNCHANGED remoteVars
    BY <2>5 DEF remoteVars, brokerVars, RemoteIInv, RemoteTypeOK, Unserved, Waiting, Watched, Consumed,
                LiveIsSupervised, DistinctWorkers, Alive
  <2> QED
    BY <2>1, <2>2, <2>3, <2>4, <2>5 DEF RemoteNext
<1> QED
  BY <1>1, <1>2, PTL DEF RemoteSpec

\* Every variable keeps its type, the broker serves a channel exactly between
\* accepting and answering it.
THEOREM RemoteTypeCorrect == RemoteSpec => []RemoteTypeOK
BY RemoteInductive, PTL DEF RemoteIInv

\* The registry is the sole owner of live workers: each is registered and has
\* its supervising thread, and they answer distinct requests of distinct sessions.
THEOREM RegistryKnows == RemoteSpec => []WorkersAreKnown
<1>1. RemoteIInv => WorkersAreKnown
  BY DEF RemoteIInv, WorkersAreKnown
<1> QED
  BY <1>1, RemoteInductive, PTL

\* NamespaceReady is written after the registration of the worker.
THEOREM ReadyFollows == RemoteSpec => ReadyAfterRegistration
<1> DEFINE Follows == \A a \in Attempts :
                        entry[a] # "ready" /\ entry'[a] = "ready" =>
                          worker[a] # "none" /\ (a \in Alive => owner[Sid[a]] = a)
<1>1. RemoteIInv /\ [RemoteNext]_remoteVars => [Follows]_remoteVars
  <2> SUFFICES ASSUME RemoteIInv, RemoteNext PROVE Follows
    OBVIOUS
  <2> USE DEF RemoteIInv, RemoteTypeOK, EntryStates
  <2>1. CASE Reply
    BY <2>1 DEF Reply, Respond, Die, Unserved, LiveIsSupervised
  <2>2. CASE Reject \/ PinFails \/ Rebind
    BY <2>2 DEF Reject, PinFails, Serve, Rebind, Respond, Die
  <2>3. CASE UNCHANGED entry
    BY <2>3
  <2>4. CASE \E a \in Attempts : EntryStep(a) \/ Hangup(a)
    BY <2>4 DEF EntryStep, Ask, OuterReady, StreamEnds, Hangup
  <2> QED
    BY <2>1, <2>2, <2>3, <2>4
       DEF RemoteNext, BrokerStep, PinStep, Pin, Activate, Accept, Issue, Consume, StartWorker,
           LaunchFails, Register, Serve, Supervise, Lookup, Reap, Remove, SeesEnd,
           Fails, WorkerExits, TimePasses
<1> QED
  BY <1>1, RemoteInductive, PTL DEF RemoteSpec, ReadyAfterRegistration
=============================================================================
