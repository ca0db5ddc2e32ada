------------------------------ MODULE Mediation ------------------------------
(***************************************************************************)
(* Approval of unknown paths while one sandboxed command runs.             *)
(*                                                                         *)
(*   homed/mediation.py     RemoteUnknownPathMediator, the client in a     *)
(*       projected-home worker thread, and UnknownPathMediator, the table  *)
(*       of pending requests in the launching process                      *)
(*   approval/protocol.py   ApprovalServer, one thread per connection      *)
(*   approval/terminal.py   ApprovalController, the operator's terminal    *)
(*   learner.py             the draft a learning run takes from decisions  *)
(*                                                                         *)
(* A launching process serves one session.  A request's deadline and its   *)
(* place in the rate window are its age: due once its timeout has passed,  *)
(* past when the window has moved over it.  A client's own timeout is only *)
(* a moment it may stop waiting, as is an interrupted FUSE operation.      *)
(***************************************************************************)
EXTENDS Naturals, FiniteSets

CONSTANTS
  Callers,      \* file operations that ask, each once
  Keys,         \* pairs of path and operation
  Want,         \* [Callers -> Keys], what each asks for
  Credentials,  \* keys of credential-sensitive paths
  Operators,    \* external approval clients, besides the terminal
  MaxPending,   \* max_pending
  MaxRecent     \* max_requests_per_session

ASSUME ConstantsAssumption ==
  /\ IsFiniteSet(Callers)
  /\ Want \in [Callers -> Keys]
  /\ Credentials \subseteq Keys
  /\ MaxPending \in Nat \ {0}
  /\ MaxRecent \in Nat \ {0}
  /\ "terminal" \notin Operators

VARIABLES
  client,   \* what each file operation waits for, or the result it got
  thread,   \* its connection's thread in the launching process
  via,      \* the number of the request its thread waits on
  last,     \* _next_request: the number given last
  reqs,     \* every request ever made, by number
  live,     \* numbers in _pending and _coalesced
  allowed,  \* _allowed_once
  draft,    \* keys the learner has drafted rules for
  shown,    \* the request each operator has on the screen
  phase     \* of the relay: running, cancelled, closed

callVars == <<client, thread, via>>
tableVars == <<last, reqs, live, allowed>>
vars == <<callVars, tableVars, draft, shown, phase>>

None == "none"
Nothing == [number |-> 0, key |-> None]

Seats == Operators \cup {"terminal"}

\* deny and hide differ in the error number the operation fails with only.
Decisions == {"allow_once", "deny"}

RequestResults == {"allow_once", "deny", "timeout", "cancelled"}
Results == RequestResults \cup {"queue_full", "rate_limited"}

Requests == [key : Keys, age : {"fresh", "due", "past"},
             result : RequestResults \cup {None}]

Unresolved == {n \in live : reqs[n].result = None}

\* The requests that still count against the session's rate.
Recent == {n \in DOMAIN reqs : reqs[n].age # "past"}

Waiters(n) == {c \in Callers : thread[c] = "waiting" /\ via[c] = n}

Init ==
  /\ client = [c \in Callers |-> "idle"]
  /\ thread = [c \in Callers |-> "none"]
  /\ via = [c \in Callers |-> 0]
  /\ last = 0
  /\ reqs = <<>>
  /\ live = {}
  /\ allowed = {}
  /\ draft = {}
  /\ shown = [o \in Seats |-> Nothing]
  /\ phase = "running"

-----------------------------------------------------------------------------
(* The client: RemoteUnknownPathMediator.request()                         *)

Answered(c, r) ==
  client' = [client EXCEPT ![c] = IF client[c] = "asking" THEN r ELSE client[c]]

\* The mediation socket takes the connection, or is gone.
Send(c) ==
  /\ client[c] = "idle"
  /\ IF phase = "closed"
     THEN client' = [client EXCEPT ![c] = "cancelled"] /\ UNCHANGED thread
     ELSE /\ client' = [client EXCEPT ![c] = "asking"]
          /\ thread' = [thread EXCEPT ![c] = "sent"]
  /\ UNCHANGED <<via, tableVars, draft, shown, phase>>

\* The socket's timeout, or an interrupt: the thread behind it stays.
GiveUp(c) ==
  /\ client[c] = "asking"
  /\ client' = [client EXCEPT ![c] = "cancelled"]
  /\ UNCHANGED <<thread, via, tableVars, draft, shown, phase>>

\* A connection nobody accepted before the server closed.
Refused(c) ==
  /\ phase = "closed" /\ thread[c] = "sent"
  /\ Answered(c, "cancelled")
  /\ thread' = [thread EXCEPT ![c] = "done"]
  /\ UNCHANGED <<via, tableVars, draft, shown, phase>>

-----------------------------------------------------------------------------
(* The connection's thread: UnknownPathMediator.request()                  *)

Return(c, r) ==
  /\ Answered(c, r)
  /\ thread' = [thread EXCEPT ![c] = "done"]

\* What the session has been allowed once needs no further request.
Remembered(k) == k \in allowed /\ k \notin Credentials

Coalesced(k) == {n \in live : reqs[n].key = k}

\* Mutant of FreshNumber: numbers follow the size of the table.
ReusedNumber == Cardinality(live) + 1

FreshNumber == last + 1

HasRoom == Cardinality(live) < MaxPending

ArriveRemembered(c) ==
  /\ Remembered(Want[c])
  /\ Return(c, "allow_once")
  /\ UNCHANGED <<via, tableVars>>

ArriveRejected(c) ==
  /\ ~Remembered(Want[c]) /\ Coalesced(Want[c]) = {}
  /\ \/ ~HasRoom /\ Return(c, "queue_full")
     \/ HasRoom /\ Cardinality(Recent) >= MaxRecent /\ Return(c, "rate_limited")
  /\ UNCHANGED <<via, tableVars>>

WaitFor(c, n) ==
  /\ thread' = [thread EXCEPT ![c] = "waiting"]
  /\ via' = [via EXCEPT ![c] = n]
  /\ UNCHANGED <<client, allowed>>

\* A request in the table is joined whether or not it has a result by now.
ArriveJoining(c) ==
  /\ ~Remembered(Want[c])
  /\ \E n \in Coalesced(Want[c]) : WaitFor(c, n)
  /\ UNCHANGED <<last, reqs, live>>

ArriveNew(c) ==
  /\ ~Remembered(Want[c]) /\ Coalesced(Want[c]) = {}
  /\ HasRoom /\ Cardinality(Recent) < MaxRecent
  /\ last' = FreshNumber
  /\ reqs' = [n \in DOMAIN reqs \cup {FreshNumber} |->
                IF n = FreshNumber
                THEN [key |-> Want[c], age |-> "fresh", result |-> None]
                ELSE reqs[n]]
  /\ live' = live \cup {FreshNumber}
  /\ WaitFor(c, FreshNumber)

Arrive(c) ==
  /\ thread[c] = "sent"
  /\ \/ ArriveRemembered(c)
     \/ ArriveRejected(c)
     \/ ArriveJoining(c)
     \/ ArriveNew(c)
  /\ UNCHANGED <<draft, shown, phase>>

Remember(k, r) ==
  IF r = "allow_once" /\ k \notin Credentials THEN allowed \cup {k} ELSE allowed

\* _finish() of a request that has no result yet.
Finish(n, r) ==
  /\ reqs' = [reqs EXCEPT ![n].result = r]
  /\ allowed' = Remember(reqs[n].key, r)

\* Mutant of LastLeaves: the request leaves the table with its first waiter.
FirstLeaves(c) == live \ {via[c]}

\* The last waiter of a request takes it out of the table.
LastLeaves(c) == IF Waiters(via[c]) = {c} THEN live \ {via[c]} ELSE live

\* Mutant of Overdue: the waiter sleeps until it is notified.
NeverOverdue(n) == FALSE

Overdue(n) == reqs[n].age # "fresh"

TimesOut(c) ==
  /\ thread[c] = "waiting"
  /\ reqs[via[c]].result = None /\ Overdue(via[c])
  /\ Finish(via[c], "timeout")
  /\ Return(c, "timeout")
  /\ live' = LastLeaves(c)
  /\ UNCHANGED <<via, last, draft, shown, phase>>

Wake(c) ==
  /\ thread[c] = "waiting"
  /\ reqs[via[c]].result # None
  /\ Return(c, reqs[via[c]].result)
  /\ live' = LastLeaves(c)
  /\ UNCHANGED <<via, last, reqs, allowed, draft, shown, phase>>

-----------------------------------------------------------------------------
(* Decisions: the operator's terminal and external approval clients        *)

\* The terminal shows the oldest unresolved request, once the one it had on
\* the screen is resolved; external clients may know any request.
Review(o) ==
  /\ phase = "running"
  /\ \E n \in Unresolved :
       /\ o = "terminal" =>
            /\ \A m \in Unresolved : n <= m
            /\ shown[o].number \notin Unresolved
       /\ shown' = [shown EXCEPT ![o] = [number |-> n, key |-> reqs[n].key]]
  /\ UNCHANGED <<callVars, tableVars, draft, phase>>

\* Mutant of Decidable: a request with a result may be decided again.
DecidableTwice(n) == n \in live

Decidable(n) == n \in live /\ reqs[n].result = None

\* Whether the approval socket and the terminal still take decisions.
Seated(o) ==
  /\ shown[o] # Nothing
  /\ phase = "running" \/ (phase = "cancelled" /\ o # "terminal")

\* decide(): the learner drafts a rule, then the request is finished.
Decide(o) ==
  /\ Seated(o) /\ Decidable(shown[o].number)
  /\ LET n == shown[o].number
     IN \E d \in Decisions :
          /\ draft' = IF d = "allow_once" THEN draft \cup {reqs[n].key} ELSE draft
          /\ IF reqs[n].result = None THEN Finish(n, d) ELSE UNCHANGED <<reqs, allowed>>
  /\ shown' = [shown EXCEPT ![o] = Nothing]
  /\ UNCHANGED <<callVars, last, live, phase>>

\* The learner's callback raises: the request is cancelled, nothing is drafted.
DecideFails(o) ==
  /\ Seated(o) /\ Decidable(shown[o].number)
  /\ Finish(shown[o].number, "cancelled")
  /\ UNCHANGED <<callVars, last, live, draft, shown, phase>>

-----------------------------------------------------------------------------
(* The end of the command, and time                                        *)

\* cancel_session(), when the relay sees the end of the child.
CancelSession ==
  /\ phase = "running"
  /\ phase' = "cancelled"
  /\ reqs' = [n \in DOMAIN reqs |->
                IF n \in Unresolved THEN [reqs[n] EXCEPT !.result = "cancelled"]
                ELSE reqs[n]]
  /\ allowed' = {}
  /\ UNCHANGED <<callVars, last, live, draft, shown>>

CloseServers ==
  /\ phase = "cancelled"
  /\ phase' = "closed"
  /\ shown' = [o \in Seats |-> Nothing]
  /\ UNCHANGED <<callVars, tableVars, draft>>

\* Requests grow old in the order they were made.
Ages(n) ==
  /\ reqs[n].age # "past"
  /\ LET older == IF reqs[n].age = "fresh" THEN "due" ELSE "past"
     IN /\ \A m \in DOMAIN reqs : m < n => reqs[m].age \in {older, "past"}
        /\ reqs' = [reqs EXCEPT ![n].age = older]
  /\ UNCHANGED <<callVars, last, live, allowed, draft, shown, phase>>

-----------------------------------------------------------------------------
Serve(c) == Arrive(c) \/ TimesOut(c) \/ Wake(c)

Next ==
  \/ \E c \in Callers : Send(c) \/ GiveUp(c) \/ Refused(c) \/ Serve(c)
  \/ \E o \in Seats : Review(o) \/ Decide(o) \/ DecideFails(o)
  \/ \E n \in DOMAIN reqs : Ages(n)
  \/ CancelSession
  \/ CloseServers

Spec == Init /\ [][Next]_vars

\* Connection threads run and time passes.  Operators need not decide, clients
\* need not give up, and the command need not end.
FairSpec ==
  /\ Spec
  /\ \A c \in Callers : WF_vars(Serve(c)) /\ WF_vars(Refused(c))
  /\ WF_vars(\E n \in DOMAIN reqs : Ages(n))

-----------------------------------------------------------------------------
(* Properties                                                              *)

\* Every variable keeps its type, and the table holds numbers given out.
TypeOK ==
  /\ client \in [Callers -> {"idle", "asking"} \cup Results]
  /\ thread \in [Callers -> {"none", "sent", "waiting", "done"}]
  /\ last \in Nat
  /\ reqs \in [1..last -> Requests]
  /\ via \in [Callers -> 0..last]
  /\ live \subseteq 1..last
  /\ allowed \subseteq Keys
  /\ draft \subseteq Keys
  /\ shown \in [Seats -> [number : 1..last, key : Keys] \cup {Nothing}]
  /\ phase \in {"running", "cancelled", "closed"}

\* "cap the number ... of pending kernel requests": the table holds exactly the
\* requests threads wait on, so an entry can neither leak and use up the bound
\* nor vanish under a waiter; it holds one per key, and no more than the bound.
TableIsWaitedOn ==
  /\ \A n \in live : Waiters(n) # {}
  /\ \A c \in Callers : thread[c] = "waiting" => via[c] \in live
  /\ \A m, n \in live : reqs[m].key = reqs[n].key => m = n

\* The table never exceeds its bound.
QueueIsBounded == Cardinality(live) <= MaxPending

\* The table is exact and within its bound.
TableIsSound == TableIsWaitedOn /\ QueueIsBounded

\* A credential is never in the set that answers without a request, so an allowed
\* operation on one waited on a request for it that an operator allowed: its own,
\* or one that it joined while another operation waited on it, decided before
\* it arrived perhaps (CredentialsNeedLiveApproval).
CredentialsAreAsked ==
  /\ allowed \cap Credentials = {}
  /\ \A c \in Callers :
       (client[c] = "allow_once" /\ Want[c] \in Credentials) =>
         /\ via[c] # 0
         /\ reqs[via[c]].key = Want[c] /\ reqs[via[c]].result = "allow_once"

\* What the learner drafts is what was allowed: a decision that came too late
\* drafts nothing, and one that was taken is not lost.
DraftIsAllowed ==
  \A k \in Keys :
    k \in draft <=> \E n \in DOMAIN reqs : /\ reqs[n].key = k
                                         /\ reqs[n].result = "allow_once"

\* Nothing is allowed but by a decision in time: neither a credential nor a rule
\* of the draft.
AllowedWasDecided == CredentialsAreAsked /\ DraftIsAllowed

\* "Apply decision only to exact live session/request identity": a request is
\* decided by an operator who was shown that number for that key.
DecidedAsShown ==
  [][\A n \in DOMAIN reqs :
       (reqs[n].result = None /\ reqs'[n].result \in Decisions) =>
         \E o \in Seats : shown[o] = [number |-> n, key |-> reqs[n].key]]_vars

\* "Credential-sensitive access always needs live strong approval": an operation
\* on a credential is not let in by an approval given before it asked, of another.
CredentialsNeedLiveApproval ==
  [][\A c \in Callers :
       (Want[c] \in Credentials /\ thread[c] = "sent" /\ thread'[c] = "waiting") =>
         reqs'[via'[c]].result # "allow_once"]_vars

\* "Block until trusted decision or bounded fail-closed completion": every
\* operation gets an answer though no operator decides and no client gives up.
CallsEnd == \A c \in Callers : client[c] = "asking" ~> client[c] # "asking"
=============================================================================
