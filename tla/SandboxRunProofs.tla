-------------------------- MODULE SandboxRunProofs --------------------------
(***************************************************************************)
(* Proofs about SandboxRun, for any number of commands, grants, sessions   *)
(* and views, and any number of failures.                                  *)
(*                                                                         *)
(* None of the properties is inductive: each says what holds when a run is *)
(* at its end, or while its workload lives, and has to be carried there    *)
(* from its first step.  IInv does that.  Placed ties where a run is to    *)
(* what it has made, recorded and removed by then; Wired says which        *)
(* request it may have under way, for the daemon serves requests of runs   *)
(* that are gone, too; Claims gives every opened session to one run, from  *)
(* the step of the daemon that opens it and not only from the answer that  *)
(* tells the run; Views ties the daemon's mounts to the directories.  Each *)
(* action has a lemma that says it keeps IInv.                             *)
(***************************************************************************)
EXTENDS SandboxRun, TLAPS

\* The steps before the workload starts.
SetUp == {"idle", "list", "opening", "dirs", "home", "mount", "mounting"}

\* Where a run is, and what it has made, recorded and removed by then.
Placed(r) ==
  /\ n[r] <= count[r] /\ dirs[r] \subseteq 0 .. n[r]
  /\ grant[r] = None => count[r] = 0
  /\ pc[r] \in SetUp => home[r] # "closed" /\ work[r] = None
  /\ pc[r] \in {"idle", "list", "opening", "dirs"} => n[r] = 0 /\ ids[r] = {} /\ dirs[r] = {}
  /\ pc[r] = "home" => n[r] = 0 /\ ids[r] = {} /\ dirs[r] = {0}
  /\ pc[r] = "mount" => ids[r] = 1 .. n[r] /\ dirs[r] = 0 .. n[r]
  /\ pc[r] = "mounting" => n[r] # 0 /\ ids[r] = 1 .. (n[r] - 1) /\ dirs[r] = 0 .. n[r]
  /\ pc[r] \in {"fork", "run", "io", "reap"} =>
       ids[r] = 1 .. count[r] /\ dirs[r] = 0 .. count[r] /\ home[r] # "closed"
  /\ pc[r] \in {"clean", "closing", "ending", "done"} => ~Working(r)
  /\ Working(r) => home[r] # "closed"
  /\ pc[r] = "ending" /\ ~bad[r] => dirs[r] \subseteq {0}
  /\ pc[r] = "done" /\ result[r] = "exit" => dirs[r] = {}

\* Which request a run may have under way, and which answer.
Wired(r) ==
  /\ due[r] = "open" => pc[r] \in {"opening", "done", "killed"}
  /\ due[r] = "mount" =>
       n[r] # 0 /\ pc[r] \in {"mounting", "clean", "closing", "ending", "done", "killed"}
  /\ answer[r] # None =>
       /\ due[r] = None
       /\ \/ pc[r] = "opening" /\ answer[r] \in Sessions \cup {"refused"}
          \/ pc[r] = "mounting" /\ answer[r] \in {"refused", "ready"}
  /\ owns[r] => pc[r] \notin {"idle", "list", "opening"} /\ sid[r] \in Sessions

\* The session a run has opened, or will have when it reads the answer.
Claim(r) == IF owns[r] THEN sid[r] ELSE answer[r]

\* Each session has been opened for one run.
Claims ==
  /\ \A r \in Runs : Claim(r) \in Sessions => sess[Claim(r)] # None
  /\ \A r, q \in Runs : Claim(r) \in Sessions /\ Claim(q) = Claim(r) => q = r

\* A view that works is mounted, no view works without the daemon, and what is mounted
\* is mounted on a directory that is still there.
Views ==
  /\ ready \subseteq attached
  /\ ~up => ready = {}
  /\ AttachedPathsAreKept

\* The inductive invariant.
IInv ==
  /\ TypeOK
  /\ \A r \in Runs : Placed(r) /\ Wired(r)
  /\ Claims
  /\ Views

\* The places of views are positive numbers without a gap.
LEMMA IndexFacts ==
  /\ Index \subseteq Nat \ {0}
  /\ \A i \in Index, j \in Nat \ {0} : j <= i => j \in Index
  /\ \A r \in Runs : 1 \in Index /\ 0 .. MaxViews[r] \subseteq Index \cup {0}
<1>1. \A r \in Runs : MaxViews[r] \in Nat \ {0}
  BY ConstantsAssumption
<1>2. \A r \in Runs : \A i \in 1 .. MaxViews[r] : i \in Index
  BY DEF Index
<1>3. \A i \in Index : \E r \in Runs : i \in 1 .. MaxViews[r]
  BY DEF Index
<1> QED
  BY <1>1, <1>2, <1>3

\* The invariant holds at first.
LEMMA InitIInv == Init => IInv
<1> SUFFICES ASSUME Init PROVE IInv
  OBVIOUS
<1>1. TypeOK
  BY ConstantsAssumption DEF Init, TypeOK, Steps, None
<1>2. ASSUME NEW r \in Runs PROVE Placed(r) /\ Wired(r)
  BY <1>2, ConstantsAssumption DEF Init, Placed, Wired, SetUp, Working, None
<1>3. Claims
  BY ConstantsAssumption DEF Init, Claims, Claim, None
<1>4. Views
  BY DEF Init, Views, AttachedPathsAreKept
<1> QED
  BY <1>1, <1>2, <1>3, <1>4 DEF IInv

\* A run is as it was when none of what it has made has changed.
LEMMA PlacedFrame ==
  ASSUME NEW q \in Runs, Placed(q),
         UNCHANGED <<pc[q], grant[q], count[q], n[q], ids[q], dirs[q], home[q], work[q],
                     bad[q], result[q]>>
  PROVE  Placed(q)'
BY DEF Placed, Working

\* What a run counts are numbers.
LEMMA CountsAreNumbers ==
  ASSUME TypeOK, NEW r \in Runs
  PROVE  n[r] \in Nat /\ count[r] \in Nat
<1>1. n[r] \in Index \cup {0} /\ count[r] \in Index \cup {0}
  BY DEF TypeOK
<1>2. \A i \in Index : i \in Nat
  BY IndexFacts
<1> QED
  BY <1>1, <1>2

\* The run joins a session of its grant, which it does not own then, or asks for one.
LEMMA ListSessionsKeeps ==
  ASSUME IInv, NEW r \in Runs, ListSessions(r) PROVE IInv'
<1> USE DEF ListSessions, placeVars, mountVars, argVars, daemonVars, ownerVars, Goto,
           Joins, Leave
<1>1. TypeOK /\ Claims /\ Views /\ \A q \in Runs : Placed(q) /\ Wired(q)
  BY DEF IInv
<1>2. TypeOK'
  <2>1. UNCHANGED <<up, sess, granted, ready, within, attached, grant, count, n, ids,
                    dirs, home, work, answer, bad, troubles>>
    OBVIOUS
  <2>2. /\ pc \in [Runs -> Steps]
        /\ result \in [Runs -> {None, "exit", "error"}]
        /\ sid \in [Runs -> Sessions \cup {None}]
        /\ owns \in [Runs -> BOOLEAN]
        /\ due \in [Runs -> {None, "open", "mount"}]
    BY <1>1 DEF TypeOK
  <2>3. pc' \in [Runs -> Steps]
    BY <2>2 DEF Steps
  <2>4. result' \in [Runs -> {None, "exit", "error"}]
    BY <2>2
  <2>5. sid' \in [Runs -> Sessions \cup {None}]
    <3>1. UNCHANGED sid \/ \E s \in Sessions : sid' = [sid EXCEPT ![r] = s]
      BY DEF Active
    <3> QED
      BY <2>2, <3>1
  <2>6. owns' \in [Runs -> BOOLEAN]
    BY <2>2
  <2>7. due' \in [Runs -> {None, "open", "mount"}]
    BY <2>2
  <2> QED
    BY <1>1, <2>1, <2>2, <2>3, <2>4, <2>5, <2>6, <2>7 DEF TypeOK
<1>3. ASSUME NEW q \in Runs PROVE Placed(q)'
  BY <1>1 DEF TypeOK, Placed, SetUp, Working, None
<1>4. ASSUME NEW q \in Runs PROVE Wired(q)'
  BY <1>1 DEF TypeOK, Wired
<1>5. Claims'
  <2>1. /\ ~owns[r] /\ UNCHANGED <<owns, answer, sess>>
        /\ \A q \in Runs : q # r => sid'[q] = sid[q]
    BY <1>1 DEF TypeOK, Wired
  <2>2. \A q \in Runs : Claim(q)' = Claim(q)
    BY <2>1 DEF Claim
  <2> QED
    BY <1>1, <2>1, <2>2 DEF Claims
<1>6. Views'
  BY <1>1 DEF Views, AttachedPathsAreKept
<1> QED
  BY <1>2, <1>3, <1>4, <1>5, <1>6 DEF IInv

\* It reads the answer: from here on it owns the session.
LEMMA TakeSessionKeeps ==
  ASSUME IInv, NEW r \in Runs, TakeSession(r) PROVE IInv'
<1> USE DEF TakeSession, placeVars, mountVars, argVars, daemonVars, Goto, ownerVars,
           Leave
<1>1. TypeOK /\ Claims /\ Views /\ \A q \in Runs : Placed(q) /\ Wired(q)
  BY DEF IInv
<1>2. TypeOK'
  <2>1. UNCHANGED <<up, sess, granted, ready, within, attached, grant, count, n, ids,
                    dirs, home, work, due, bad, troubles>>
    OBVIOUS
  <2>2. /\ pc \in [Runs -> Steps]
        /\ result \in [Runs -> {None, "exit", "error"}]
        /\ sid \in [Runs -> Sessions \cup {None}]
        /\ owns \in [Runs -> BOOLEAN]
        /\ answer \in [Runs -> {None, "refused", "ready"} \cup Sessions]
    BY <1>1 DEF TypeOK
  <2>3. pc' \in [Runs -> Steps]
    BY <2>2 DEF Steps
  <2>4. result' \in [Runs -> {None, "exit", "error"}]
    BY <2>2
  <2>5. sid' \in [Runs -> Sessions \cup {None}]
    <3>1. answer[r] # "refused" => answer[r] \in Sessions
      BY <1>1 DEF Wired
    <3> QED
      BY <2>2, <3>1
  <2>6. owns' \in [Runs -> BOOLEAN]
    BY <2>2
  <2>7. answer' \in [Runs -> {None, "refused", "ready"} \cup Sessions]
    BY <2>2
  <2> QED
    BY <1>1, <2>1, <2>2, <2>3, <2>4, <2>5, <2>6, <2>7 DEF TypeOK
<1>3. ASSUME NEW q \in Runs PROVE Placed(q)'
  BY <1>1 DEF TypeOK, Placed, SetUp, Working, None
<1>4. ASSUME NEW q \in Runs PROVE Wired(q)'
  BY <1>1 DEF TypeOK, Wired, None
<1>5. Claims'
  BY <1>1, ConstantsAssumption DEF TypeOK, Wired, Claims, Claim, None
<1>6. Views'
  BY <1>1 DEF Views, AttachedPathsAreKept
<1> QED
  BY <1>2, <1>3, <1>4, <1>5, <1>6 DEF IInv

\* Its directory for sockets and home is made, or is not.
LEMMA MakeDirsKeeps ==
  ASSUME IInv, NEW r \in Runs, MakeDirs(r) PROVE IInv'
<1> USE DEF MakeDirs, wireVars, mountVars, ownerVars, argVars, daemonVars, Leave, Goto,
           Trouble
<1>1. TypeOK /\ Claims /\ Views /\ \A q \in Runs : Placed(q) /\ Wired(q)
  BY DEF IInv
<1>2. TypeOK'
  <2>1. UNCHANGED <<up, sess, granted, ready, within, attached, grant, count, sid,
                    owns, n, ids, home, work, due, answer, bad>>
    OBVIOUS
  <2>2. /\ dirs \in [Runs -> SUBSET (Index \cup {0})]
        /\ pc \in [Runs -> Steps]
        /\ result \in [Runs -> {None, "exit", "error"}]
        /\ troubles \in 0 .. MaxTroubles
    BY <1>1 DEF TypeOK
  <2>3. dirs' \in [Runs -> SUBSET (Index \cup {0})]
    BY <2>2
  <2>4. pc' \in [Runs -> Steps]
    BY <2>2 DEF Steps
  <2>5. result' \in [Runs -> {None, "exit", "error"}]
    BY <2>2
  <2>6. troubles' \in 0 .. MaxTroubles
    BY <2>2, ConstantsAssumption
  <2> QED
    BY <1>1, <2>1, <2>2, <2>3, <2>4, <2>5, <2>6 DEF TypeOK
<1>3. ASSUME NEW q \in Runs PROVE Placed(q)'
  BY <1>1 DEF TypeOK, Placed, SetUp, Working, None
<1>4. ASSUME NEW q \in Runs PROVE Wired(q)'
  BY <1>1 DEF TypeOK, Wired
<1>5. Claims'
  BY <1>1 DEF Claims, Claim
<1>6. Views'
  <2>1. dirs[r] = {} /\ \A q \in Runs : q # r => dirs'[q] = dirs[q]
    BY <1>1 DEF TypeOK, Placed
  <2>2. \A p \in attached : p[1] \in Runs /\ p[2] \in dirs[p[1]]
    BY <1>1 DEF TypeOK, Views, AttachedPathsAreKept
  <2>3. AttachedPathsAreKept'
    BY <2>1, <2>2 DEF AttachedPathsAreKept
  <2> QED
    BY <1>1, <2>3 DEF Views
<1> QED
  BY <1>2, <1>3, <1>4, <1>5, <1>6 DEF IInv

\* Its private home starts, or fails to.
LEMMA StartHomeKeeps ==
  ASSUME IInv, NEW r \in Runs, StartHome(r) PROVE IInv'
<1> USE DEF StartHome, wireVars, mountVars, ownerVars, argVars, daemonVars, Abandon,
           Goto
<1>1. TypeOK /\ Claims /\ Views /\ \A q \in Runs : Placed(q) /\ Wired(q)
  BY DEF IInv
<1>2. TypeOK'
  <2>1. UNCHANGED <<up, sess, granted, ready, within, attached, grant, count, sid,
                    owns, n, ids, dirs, work, due, answer, bad, troubles>>
    OBVIOUS
  <2>2. /\ home \in [Runs -> {None, "up", "lost", "closed"}]
        /\ pc \in [Runs -> Steps]
        /\ result \in [Runs -> {None, "exit", "error"}]
    BY <1>1 DEF TypeOK
  <2>3. home' \in [Runs -> {None, "up", "lost", "closed"}]
    BY <2>2
  <2>4. pc' \in [Runs -> Steps]
    BY <2>2 DEF Steps
  <2>5. result' \in [Runs -> {None, "exit", "error"}]
    BY <2>2
  <2> QED
    BY <1>1, <2>1, <2>2, <2>3, <2>4, <2>5 DEF TypeOK
<1>3. ASSUME NEW q \in Runs PROVE Placed(q)'
  <2>1. CASE q = r
    <3>1. /\ n[r] = 0 /\ ids[r] = {} /\ dirs[r] = {0} /\ work[r] = None
          /\ home[r] # "closed" /\ n[r] <= count[r]
          /\ grant[r] = None => count[r] = 0
      BY <1>1 DEF Placed, SetUp
    <3>2. pc'[r] \in {"mount", "clean"} /\ home'[r] # "closed"
      BY <1>1, <3>1 DEF TypeOK
    <3>3. 1 .. 0 = {} /\ 0 .. 0 = {0}
      OBVIOUS
    <3> QED
      BY <2>1, <3>1, <3>2, <3>3 DEF Placed, Working, None
  <2>2. CASE q # r
    BY <1>1, <2>2, PlacedFrame DEF TypeOK
  <2> QED
    BY <2>1, <2>2
<1>4. ASSUME NEW q \in Runs PROVE Wired(q)'
  BY <1>1 DEF TypeOK, Wired
<1>5. Claims'
  BY <1>1 DEF Claims, Claim
<1>6. Views'
  BY <1>1 DEF Views, AttachedPathsAreKept
<1> QED
  BY <1>2, <1>3, <1>4, <1>5, <1>6 DEF IInv

\* It makes the next mountpoint, then asks the daemon to mount.
LEMMA SendMountKeeps ==
  ASSUME IInv, NEW r \in Runs, SendMount(r) PROVE IInv'
<1> USE DEF SendMount, ownerVars, argVars, daemonVars, Abandon, Goto
<1>1. TypeOK /\ Claims /\ Views /\ \A q \in Runs : Placed(q) /\ Wired(q)
  BY DEF IInv
<1>2. n[r] + 1 \in Index /\ n[r] + 1 <= count[r] /\ n[r] \in Nat
  <2>1. n[r] \in Index \cup {0} /\ count[r] \in Index \cup {0} /\ n[r] < count[r]
    BY <1>1 DEF TypeOK
  <2>2. n[r] \in Nat /\ count[r] \in Nat
    BY <1>1, CountsAreNumbers
  <2>3. count[r] \in Index
    BY <2>1, <2>2
  <2> QED
    BY <2>2, <2>3, IndexFacts
<1>3. TypeOK'
  <2>1. UNCHANGED <<up, sess, granted, ready, within, attached, grant, count, sid,
                    owns, ids, home, work, answer, bad, troubles>>
    OBVIOUS
  <2>2. /\ n \in [Runs -> Index \cup {0}]
        /\ dirs \in [Runs -> SUBSET (Index \cup {0})]
        /\ due \in [Runs -> {None, "open", "mount"}]
        /\ pc \in [Runs -> Steps]
        /\ result \in [Runs -> {None, "exit", "error"}]
    BY <1>1 DEF TypeOK
  <2>3. n' \in [Runs -> Index \cup {0}]
    BY <1>2, <2>2
  <2>4. dirs' \in [Runs -> SUBSET (Index \cup {0})]
    BY <1>2, <2>2
  <2>5. due' \in [Runs -> {None, "open", "mount"}]
    BY <2>2
  <2>6. pc' \in [Runs -> Steps]
    BY <2>2 DEF Steps
  <2>7. result' \in [Runs -> {None, "exit", "error"}]
    BY <2>2
  <2> QED
    BY <1>1, <2>1, <2>2, <2>3, <2>4, <2>5, <2>6, <2>7 DEF TypeOK
<1>4. ASSUME NEW q \in Runs PROVE Placed(q)'
  <2>1. CASE q = r
    <3>1. /\ n'[r] = n[r] + 1 /\ dirs'[r] = (0 .. n[r]) \cup {n[r] + 1}
          /\ ids'[r] = 1 .. n[r] /\ pc'[r] \in {"mounting", "clean"}
          /\ home'[r] # "closed" /\ work'[r] = None
          /\ grant'[r] = grant[r] /\ count'[r] = count[r]
      <4>1. Placed(r) /\ pc[r] = "mount"
        BY <1>1
      <4>2. /\ dirs[r] = 0 .. n[r] /\ ids[r] = 1 .. n[r]
            /\ home[r] # "closed" /\ work[r] = None
        BY <4>1 DEF Placed, SetUp
      <4> QED
        BY <1>1, <4>2 DEF TypeOK
    <3> HIDE DEF SendMount
    <3>2. dirs'[r] = 0 .. n'[r] /\ ids'[r] = 1 .. (n'[r] - 1) /\ n'[r] # 0
      <4>1. n[r] \in Nat /\ n'[r] = n[r] + 1
        BY <1>2, <3>1
      <4>2. (0 .. n[r]) \cup {n[r] + 1} = 0 .. (n[r] + 1)
        BY <4>1
      <4> QED
        BY <3>1, <4>1, <4>2
    <3> QED
      BY <1>1, <1>2, <2>1, <3>1, <3>2 DEF Placed, Working, None
  <2>2. CASE q # r
    BY <1>1, <2>2, PlacedFrame DEF TypeOK
  <2> QED
    BY <2>1, <2>2
<1>5. ASSUME NEW q \in Runs PROVE Wired(q)'
  <2>1. n'[r] # 0 /\ due[r] # "open" /\ answer[r] = None
    <3>1. n'[r] = n[r] + 1 /\ pc[r] = "mount" /\ Wired(r)
      BY <1>1 DEF TypeOK
    <3>2. due[r] # "open" /\ answer[r] = None
      BY <3>1 DEF Wired
    <3> QED
      BY <1>2, <3>1, <3>2
  <2>2. CASE q = r
    BY <1>1, <2>1, <2>2 DEF TypeOK, Wired
  <2>3. CASE q # r
    BY <1>1, <2>3 DEF TypeOK, Wired
  <2> QED
    BY <2>2, <2>3
<1>6. Claims'
  BY <1>1 DEF Claims, Claim
<1>7. Views'
  BY <1>1 DEF Views, AttachedPathsAreKept
<1> QED
  BY <1>3, <1>4, <1>5, <1>6, <1>7 DEF IInv

\* It records the mount it is told of, and only that.
LEMMA TakeMountKeeps ==
  ASSUME IInv, NEW r \in Runs, TakeMount(r) PROVE IInv'
<1> USE DEF TakeMount, placeVars, ownerVars, argVars, daemonVars, Goto, Known, Abandon
<1>1. TypeOK /\ Claims /\ Views /\ \A q \in Runs : Placed(q) /\ Wired(q)
  BY DEF IInv
<1>2. n[r] \in Index /\ n[r] \in Nat /\ n[r] # 0
  BY <1>1, IndexFacts DEF TypeOK, Placed
<1>3. TypeOK'
  <2>1. UNCHANGED <<up, sess, granted, ready, within, attached, grant, count, sid,
                    owns, n, dirs, home, work, due, bad, troubles>>
    OBVIOUS
  <2>2. /\ answer \in [Runs -> {None, "refused", "ready"} \cup Sessions]
        /\ ids \in [Runs -> SUBSET Index]
        /\ pc \in [Runs -> Steps]
        /\ result \in [Runs -> {None, "exit", "error"}]
    BY <1>1 DEF TypeOK
  <2>3. answer' \in [Runs -> {None, "refused", "ready"} \cup Sessions]
    BY <2>2
  <2>4. ids' \in [Runs -> SUBSET Index]
    BY <1>2, <2>2
  <2>5. pc' \in [Runs -> Steps]
    BY <2>2 DEF Steps
  <2>6. result' \in [Runs -> {None, "exit", "error"}]
    BY <2>2
  <2> QED
    BY <1>1, <2>1, <2>2, <2>3, <2>4, <2>5, <2>6 DEF TypeOK
<1>4. ASSUME NEW q \in Runs PROVE Placed(q)'
  <2>1. CASE q = r
    <3>1. ids[r] = 1 .. (n[r] - 1) /\ ids'[r] \in {ids[r], ids[r] \cup {n[r]}}
      BY <1>1 DEF TypeOK, Placed
    <3>2. pc'[r] = "mount" => ids'[r] = 1 .. n[r]
      <4>1. (1 .. (n[r] - 1)) \cup {n[r]} = 1 .. n[r]
        BY <1>2
      <4>2. pc'[r] = "mount" => ids'[r] = ids[r] \cup {n[r]}
        BY <1>1 DEF TypeOK
      <4> QED
        BY <3>1, <4>1, <4>2
    <3> QED
      BY <1>1, <2>1, <3>2 DEF TypeOK, Placed, SetUp, Working, None
  <2>2. CASE q # r
    BY <1>1, <2>2, PlacedFrame DEF TypeOK
  <2> QED
    BY <2>1, <2>2
<1>5. ASSUME NEW q \in Runs PROVE Wired(q)'
  BY <1>1 DEF TypeOK, Wired, None
<1>6. Claims'
  BY <1>1, ConstantsAssumption DEF Claims, Claim, None
<1>7. Views'
  BY <1>1 DEF Views, AttachedPathsAreKept
<1> QED
  BY <1>3, <1>4, <1>5, <1>6, <1>7 DEF IInv

\* It starts the workload when everything it binds is there.
LEMMA LaunchKeeps ==
  ASSUME IInv, NEW r \in Runs, Launch(r) PROVE IInv'
<1> USE DEF Launch, wireVars, placeVars, mountVars, ownerVars, argVars, daemonVars,
           Abandon, Goto, Bindable
<1>1. TypeOK /\ Claims /\ Views /\ \A q \in Runs : Placed(q) /\ Wired(q)
  BY DEF IInv
<1>2. TypeOK'
  <2>1. UNCHANGED <<up, sess, granted, ready, within, attached, grant, count, sid,
                    owns, n, ids, dirs, home, due, answer, bad, troubles>>
    OBVIOUS
  <2>2. /\ work \in [Runs -> {None, "alive", "dying", "loose", "dead"}]
        /\ pc \in [Runs -> Steps]
        /\ result \in [Runs -> {None, "exit", "error"}]
    BY <1>1 DEF TypeOK
  <2>3. work' \in [Runs -> {None, "alive", "dying", "loose", "dead"}]
    BY <2>2
  <2>4. pc' \in [Runs -> Steps]
    BY <2>2 DEF Steps
  <2>5. result' \in [Runs -> {None, "exit", "error"}]
    BY <2>2
  <2> QED
    BY <1>1, <2>1, <2>2, <2>3, <2>4, <2>5 DEF TypeOK
<1>3. ASSUME NEW q \in Runs PROVE Placed(q)'
  BY <1>1 DEF TypeOK, Placed, SetUp, Working, None
<1>4. ASSUME NEW q \in Runs PROVE Wired(q)'
  BY <1>1 DEF TypeOK, Wired
<1>5. Claims'
  BY <1>1 DEF Claims, Claim
<1>6. Views'
  BY <1>1 DEF Views, AttachedPathsAreKept
<1> QED
  BY <1>2, <1>3, <1>4, <1>5, <1>6 DEF IInv

\* The relay is entered.
LEMMA EnterRelayKeeps ==
  ASSUME IInv, NEW r \in Runs, EnterRelay(r) PROVE IInv'
<1> USE DEF EnterRelay, wireVars, endVars, placeVars, mountVars, ownerVars, argVars,
           daemonVars, Goto
<1>1. TypeOK /\ Claims /\ Views /\ \A q \in Runs : Placed(q) /\ Wired(q)
  BY DEF IInv
<1>2. TypeOK'
  BY <1>1 DEF TypeOK, Steps
<1>3. ASSUME NEW q \in Runs PROVE Placed(q)'
  BY <1>1 DEF Placed, SetUp, Working
<1>4. ASSUME NEW q \in Runs PROVE Wired(q)'
  BY <1>1 DEF Wired
<1>5. Claims'
  BY <1>1 DEF Claims, Claim
<1>6. Views'
  BY <1>1 DEF Views, AttachedPathsAreKept
<1> QED
  BY <1>2, <1>3, <1>4, <1>5, <1>6 DEF IInv

\* A health test fails: the workload is hung up and waited for.
LEMMA RelayFailsKeeps ==
  ASSUME IInv, NEW r \in Runs, RelayFails(r) PROVE IInv'
<1> USE DEF RelayFails, wireVars, placeVars, mountVars, ownerVars, argVars, daemonVars,
           Goto, HangUp, TestHealth, Healthy
<1>1. TypeOK /\ Claims /\ Views /\ \A q \in Runs : Placed(q) /\ Wired(q)
  BY DEF IInv
<1>2. TypeOK'
  BY <1>1 DEF TypeOK, Steps
<1>3. ASSUME NEW q \in Runs PROVE Placed(q)'
  BY <1>1 DEF Placed, SetUp, Working
<1>4. ASSUME NEW q \in Runs PROVE Wired(q)'
  BY <1>1 DEF Wired
<1>5. Claims'
  BY <1>1 DEF Claims, Claim
<1>6. Views'
  BY <1>1 DEF Views, AttachedPathsAreKept
<1> QED
  BY <1>2, <1>3, <1>4, <1>5, <1>6 DEF IInv

\* A health test passes.
LEMMA RelayGoesOnKeeps ==
  ASSUME IInv, NEW r \in Runs, RelayGoesOn(r) PROVE IInv'
<1> USE DEF RelayGoesOn, wireVars, endVars, placeVars, mountVars, ownerVars, argVars,
           daemonVars, Goto, TestHealth, Healthy
<1>1. TypeOK /\ Claims /\ Views /\ \A q \in Runs : Placed(q) /\ Wired(q)
  BY DEF IInv
<1>2. TypeOK'
  BY <1>1 DEF TypeOK, Steps
<1>3. ASSUME NEW q \in Runs PROVE Placed(q)'
  BY <1>1 DEF Placed, SetUp, Working
<1>4. ASSUME NEW q \in Runs PROVE Wired(q)'
  BY <1>1 DEF Wired
<1>5. Claims'
  BY <1>1 DEF Claims, Claim
<1>6. Views'
  BY <1>1 DEF Views, AttachedPathsAreKept
<1> QED
  BY <1>2, <1>3, <1>4, <1>5, <1>6 DEF IInv

\* The workload is reaped.
LEMMA ReapKeeps ==
  ASSUME IInv, NEW r \in Runs, Reap(r) PROVE IInv'
<1> USE DEF Reap, wireVars, endVars, placeVars, mountVars, ownerVars, argVars,
           daemonVars, Goto, Reaped
<1>1. TypeOK /\ Claims /\ Views /\ \A q \in Runs : Placed(q) /\ Wired(q)
  BY DEF IInv
<1>2. TypeOK'
  BY <1>1 DEF TypeOK, Steps
<1>3. ASSUME NEW q \in Runs PROVE Placed(q)'
  BY <1>1 DEF Placed, SetUp, Working
<1>4. ASSUME NEW q \in Runs PROVE Wired(q)'
  BY <1>1 DEF Wired
<1>5. Claims'
  BY <1>1 DEF Claims, Claim
<1>6. Views'
  BY <1>1 DEF Views, AttachedPathsAreKept
<1> QED
  BY <1>2, <1>3, <1>4, <1>5, <1>6 DEF IInv

\* A run without a grant closes its home and removes its directory: it has no view.
LEMMA FinishLocalKeeps ==
  ASSUME IInv, NEW r \in Runs, FinishLocal(r) PROVE IInv'
<1> USE DEF FinishLocal, wireVars, endVars, mountVars, ownerVars, argVars, daemonVars,
           Goto, CloseHome
<1>1. TypeOK /\ Claims /\ Views /\ \A q \in Runs : Placed(q) /\ Wired(q)
  BY DEF IInv
<1>2. TypeOK'
  BY <1>1 DEF TypeOK, Steps
<1>3. ASSUME NEW q \in Runs PROVE Placed(q)'
  BY <1>1 DEF TypeOK, Placed, SetUp, Working
<1>4. ASSUME NEW q \in Runs PROVE Wired(q)'
  BY <1>1 DEF Wired
<1>5. Claims'
  BY <1>1 DEF Claims, Claim
<1>6. Views'
  <2>1. dirs[r] \subseteq {0} /\ \A q \in Runs : q # r => dirs'[q] = dirs[q]
    <3>1. count[r] = 0 /\ n[r] <= count[r] /\ dirs[r] \subseteq 0 .. n[r]
      BY <1>1 DEF Placed
    <3>2. n[r] \in Nat
      BY <1>1, CountsAreNumbers
    <3>3. dirs[r] \subseteq {0}
      BY <3>1, <3>2
    <3> QED
      BY <1>1, <3>3
  <2>2. \A p \in attached : p[1] \in Runs /\ p[2] \in Index /\ p[2] \in dirs[p[1]]
    BY <1>1 DEF TypeOK, Views, AttachedPathsAreKept
  <2>3. AttachedPathsAreKept'
    BY <2>1, <2>2, IndexFacts DEF AttachedPathsAreKept
  <2> QED
    BY <1>1, <2>3 DEF Views
<1> QED
  BY <1>2, <1>3, <1>4, <1>5, <1>6 DEF IInv

\* The clean-up starts, after the workload: the sockets and the home are closed.
LEMMA CloseApiAndHomeKeeps ==
  ASSUME IInv, NEW r \in Runs, CloseApiAndHome(r) PROVE IInv'
<1> USE DEF CloseApiAndHome, wireVars, endVars, mountVars, ownerVars, argVars,
           daemonVars, Goto, CloseHome
<1>1. TypeOK /\ Claims /\ Views /\ \A q \in Runs : Placed(q) /\ Wired(q)
  BY DEF IInv
<1>2. TypeOK'
  BY <1>1 DEF TypeOK, Steps
<1>3. ASSUME NEW q \in Runs PROVE Placed(q)'
  BY <1>1 DEF Placed, SetUp, Working
<1>4. ASSUME NEW q \in Runs PROVE Wired(q)'
  BY <1>1 DEF Wired
<1>5. Claims'
  BY <1>1 DEF Claims, Claim
<1>6. Views'
  BY <1>1 DEF Views, AttachedPathsAreKept
<1> QED
  BY <1>2, <1>3, <1>4, <1>5, <1>6 DEF IInv

\* A mount is closed, as far as the daemon can.
LEMMA CloseViewKeeps ==
  ASSUME IInv, NEW r \in Runs, CloseView(r) PROVE IInv'
<1> USE DEF CloseView, wireVars, placeVars, ownerVars, argVars
<1>1. TypeOK /\ Claims /\ Views /\ \A q \in Runs : Placed(q) /\ Wired(q)
  BY DEF IInv
<1>2. TypeOK'
  <2>1. UNCHANGED <<up, sess, granted, within, pc, grant, count, sid, owns, n, dirs,
                    home, work, due, answer, result, troubles>>
    OBVIOUS
  <2>2. /\ ids \in [Runs -> SUBSET Index]
        /\ ready \subseteq Runs \X Index
        /\ attached \subseteq Runs \X Index
        /\ bad \in [Runs -> BOOLEAN]
    BY <1>1 DEF TypeOK
  <2>3. ids' \in [Runs -> SUBSET Index]
    BY <2>2
  <2>4. ready' \subseteq Runs \X Index
    BY <2>2
  <2>5. attached' \subseteq Runs \X Index
    BY <2>2
  <2>6. bad' \in [Runs -> BOOLEAN]
    BY <2>2
  <2> QED
    BY <1>1, <2>1, <2>2, <2>3, <2>4, <2>5, <2>6 DEF TypeOK
<1>3. ASSUME NEW q \in Runs PROVE Placed(q)'
  BY <1>1 DEF TypeOK, Placed, Working
<1>4. ASSUME NEW q \in Runs PROVE Wired(q)'
  BY <1>1 DEF Wired
<1>5. Claims'
  BY <1>1 DEF Claims, Claim
<1>6. Views'
  BY <1>1 DEF Views, AttachedPathsAreKept
<1> QED
  BY <1>2, <1>3, <1>4, <1>5, <1>6 DEF IInv

\* Mountpoints are removed, and those still mounted are kept.
LEMMA LeavePathsKeeps ==
  ASSUME IInv, NEW r \in Runs, LeavePaths(r) PROVE IInv'
<1> USE DEF LeavePaths, wireVars, mountVars, ownerVars, argVars, daemonVars, Goto,
           RemovePaths, StillMounted
<1>1. TypeOK /\ Claims /\ Views /\ \A q \in Runs : Placed(q) /\ Wired(q)
  BY DEF IInv
<1>2. TypeOK'
  BY <1>1 DEF TypeOK, Steps
<1>3. ASSUME NEW q \in Runs PROVE Placed(q)'
  <2>1. CASE q = r
    <3>1. /\ pc'[r] = "ending" /\ dirs'[r] = StillMounted(r) \cup {0}
          /\ bad'[r] = (bad[r] \/ StillMounted(r) # {})
          /\ UNCHANGED <<n, count, grant, home, work>>
      BY <1>1 DEF TypeOK
    <3>2. StillMounted(r) \cup {0} \subseteq 0 .. n[r] /\ n[r] \in Nat
      <4>1. n[r] \in Nat
        BY <1>1, CountsAreNumbers
      <4>2. StillMounted(r) \subseteq dirs[r] /\ dirs[r] \subseteq 0 .. n[r]
        BY <1>1 DEF Placed
      <4> HIDE DEF StillMounted
      <4> QED
        BY <4>1, <4>2
    <3> HIDE DEF StillMounted, RemovePaths
    <3> QED
      BY <1>1, <2>1, <3>1, <3>2 DEF Placed, SetUp, Working
  <2>2. CASE q # r
    BY <1>1, <2>2, PlacedFrame DEF TypeOK
  <2> QED
    BY <2>1, <2>2
<1>4. ASSUME NEW q \in Runs PROVE Wired(q)'
  BY <1>1 DEF Wired
<1>5. Claims'
  BY <1>1 DEF Claims, Claim
<1>6. Views'
  BY <1>1 DEF TypeOK, Views, AttachedPathsAreKept
<1> QED
  BY <1>2, <1>3, <1>4, <1>5, <1>6 DEF IInv

\* A session that is owned is ended, and the last directory removed.
LEMMA FinishKeeps ==
  ASSUME IInv, NEW r \in Runs, Finish(r) PROVE IInv'
<1> USE DEF Finish, wireVars, mountVars, ownerVars, argVars, Goto, EndSessionOf, Under
<1>1. TypeOK /\ Claims /\ Views /\ \A q \in Runs : Placed(q) /\ Wired(q)
  BY DEF IInv
<1>2. TypeOK'
  <2>1. UNCHANGED <<up, granted, within, grant, count, sid, owns, n, ids, home, work,
                    due, answer, bad, troubles>>
    OBVIOUS
  <2>2. /\ sess \in [Sessions -> {None, "active", "ended"}]
        /\ ready \subseteq Runs \X Index
        /\ attached \subseteq Runs \X Index
        /\ dirs \in [Runs -> SUBSET (Index \cup {0})]
        /\ result \in [Runs -> {None, "exit", "error"}]
        /\ pc \in [Runs -> Steps]
    BY <1>1 DEF TypeOK
  <2>3. sess' \in [Sessions -> {None, "active", "ended"}]
    BY <2>2
  <2>4. ready' \subseteq Runs \X Index
    BY <2>2
  <2>5. attached' \subseteq Runs \X Index
    BY <2>2
  <2>6. dirs' \in [Runs -> SUBSET (Index \cup {0})]
    BY <2>2
  <2>7. result' \in [Runs -> {None, "exit", "error"}]
    BY <2>2
  <2>8. pc' \in [Runs -> Steps]
    BY <2>2 DEF Steps
  <2> QED
    BY <1>1, <2>1, <2>2, <2>3, <2>4, <2>5, <2>6, <2>7, <2>8 DEF TypeOK
<1>3. ASSUME NEW q \in Runs PROVE Placed(q)'
  BY <1>1 DEF TypeOK, Placed, SetUp, Working
<1>4. ASSUME NEW q \in Runs PROVE Wired(q)'
  BY <1>1 DEF Wired
<1>5. Claims'
  BY <1>1 DEF TypeOK, Claims, Claim, None
<1>6. Views'
  BY <1>1, IndexFacts DEF TypeOK, Views, AttachedPathsAreKept
<1> QED
  BY <1>2, <1>3, <1>4, <1>5, <1>6 DEF IInv

\* The daemon opens a session, for a run that waits or for one that is gone: no other
\* run has it.
LEMMA ServeOpenKeeps ==
  ASSUME IInv, NEW r \in Runs, ServeOpen(r) PROVE IInv'
<1> USE DEF ServeOpen, runVars, endVars, placeVars, mountVars, ownerVars, argVars, Reply
<1>1. TypeOK /\ Claims /\ Views /\ \A q \in Runs : Placed(q) /\ Wired(q)
  BY DEF IInv
<1>2. TypeOK'
  <2>1. UNCHANGED <<up, ready, within, attached, pc, grant, count, sid, owns, n, ids,
                    dirs, home, work, bad, result, troubles>>
    OBVIOUS
  <2>2. /\ due \in [Runs -> {None, "open", "mount"}]
        /\ sess \in [Sessions -> {None, "active", "ended"}]
        /\ granted \in [Sessions -> Grants \cup {None}]
        /\ answer \in [Runs -> {None, "refused", "ready"} \cup Sessions]
    BY <1>1 DEF TypeOK
  <2>3. due' \in [Runs -> {None, "open", "mount"}]
    BY <2>2
  <2>4. sess' \in [Sessions -> {None, "active", "ended"}]
    BY <2>2
  <2>5. granted' \in [Sessions -> Grants \cup {None}]
    <3>1. grant[r] \in Grants \cup {None}
      BY <1>1 DEF TypeOK
    <3> QED
      BY <2>2, <3>1
  <2>6. answer' \in [Runs -> {None, "refused", "ready"} \cup Sessions]
    BY <2>2
  <2> QED
    BY <1>1, <2>1, <2>2, <2>3, <2>4, <2>5, <2>6 DEF TypeOK
<1>3. ASSUME NEW q \in Runs PROVE Placed(q)'
  BY <1>1 DEF Placed, Working
<1>4. ASSUME NEW q \in Runs PROVE Wired(q)'
  BY <1>1 DEF TypeOK, Wired, None
<1>5. Claims'
  <2>1. pc[r] \in {"opening", "done", "killed"} /\ (owns[r] => pc[r] # "opening")
    BY <1>1 DEF Wired
  <2>2. UNCHANGED owns /\ UNCHANGED sid /\ \A q \in Runs : q # r => answer'[q] = answer[q]
    BY <1>1 DEF TypeOK
  <2>3. \A q \in Runs : q # r => Claim(q)' = Claim(q)
    BY <2>2 DEF Claim
  <2>4. CASE pc[r] # "opening"
    <3>1. answer' = answer
      BY <2>1, <2>4
    <3>2. \A q \in Runs : Claim(q)' = Claim(q)
      BY <2>2, <3>1 DEF Claim
    <3>3. \A s \in Sessions : sess[s] # None => sess'[s] # None
      BY <1>1 DEF TypeOK
    <3> QED
      BY <1>1, <3>2, <3>3 DEF Claims
  <2>5. CASE pc[r] = "opening"
    <3>1. Claim(r)' = answer'[r] /\ Claim(r)' \in Sessions \cup {"refused"}
      BY <1>1, <2>1, <2>2, <2>5 DEF TypeOK, Claim
    <3>2. Claim(r)' \in Sessions =>
            sess[Claim(r)'] = None /\ sess' = [sess EXCEPT ![Claim(r)'] = "active"]
      BY <1>1, <2>5, <3>1, ConstantsAssumption DEF TypeOK
    <3>3. Claim(r)' \notin Sessions => sess' = sess
      BY <1>1, <2>5, <3>1 DEF TypeOK
    <3>4. /\ \A s \in Sessions : sess[s] # None => sess'[s] # None
          /\ Claim(r)' \in Sessions => sess'[Claim(r)'] # None
      BY <1>1, <3>2, <3>3 DEF TypeOK, None
    <3> QED
      BY <1>1, <2>3, <3>2, <3>4 DEF Claims
  <2> QED
    BY <2>4, <2>5
<1>6. Views'
  BY <1>1 DEF Views, AttachedPathsAreKept
<1> QED
  BY <1>2, <1>3, <1>4, <1>5, <1>6 DEF IInv

\* The daemon mounts a view, for a run that waits or for one that is gone.
LEMMA ServeMountKeeps ==
  ASSUME IInv, NEW r \in Runs, ServeMount(r) PROVE IInv'
<1> USE DEF ServeMount, runVars, endVars, placeVars, mountVars, ownerVars, argVars,
           Reply
<1>1. TypeOK /\ Claims /\ Views /\ \A q \in Runs : Placed(q) /\ Wired(q)
  BY DEF IInv
<1>2. n[r] \in Index
  BY <1>1 DEF TypeOK, Wired
<1>3. TypeOK'
  <2>1. UNCHANGED <<up, sess, granted, pc, grant, count, sid, owns, n, ids, dirs, home,
                    work, bad, result, troubles>>
    OBVIOUS
  <2>2. /\ due \in [Runs -> {None, "open", "mount"}]
        /\ ready \subseteq Runs \X Index
        /\ attached \subseteq Runs \X Index
        /\ within \in [Runs -> [Index -> Sessions \cup {None}]]
        /\ answer \in [Runs -> {None, "refused", "ready"} \cup Sessions]
    BY <1>1 DEF TypeOK
  <2>3. due' \in [Runs -> {None, "open", "mount"}]
    BY <2>2
  <2>4. ready' \subseteq Runs \X Index
    BY <1>2, <2>2
  <2>5. attached' \subseteq Runs \X Index
    BY <1>2, <2>2
  <2>6. within' \in [Runs -> [Index -> Sessions \cup {None}]]
    <3>1. UNCHANGED within \/ \E s \in Sessions : within' = [within EXCEPT ![r][n[r]] = s]
      BY DEF Active
    <3> QED
      BY <2>2, <3>1
  <2>7. answer' \in [Runs -> {None, "refused", "ready"} \cup Sessions]
    BY <2>2
  <2> QED
    BY <1>1, <2>1, <2>2, <2>3, <2>4, <2>5, <2>6, <2>7 DEF TypeOK
<1>4. ASSUME NEW q \in Runs PROVE Placed(q)'
  BY <1>1 DEF Placed, Working
<1>5. ASSUME NEW q \in Runs PROVE Wired(q)'
  BY <1>1 DEF TypeOK, Wired, None
<1>6. Claims'
  <2>1. UNCHANGED <<owns, sid, sess>> /\ \A q \in Runs : q # r => answer'[q] = answer[q]
    BY <1>1 DEF TypeOK
  <2>2. answer'[r] \in {answer[r], "refused", "ready"}
    BY <1>1 DEF TypeOK
  <2>3. \A q \in Runs : Claim(q)' = Claim(q) \/ Claim(q)' \in {"refused", "ready"}
    BY <2>1, <2>2 DEF Claim
  <2> QED
    BY <1>1, <2>1, <2>3, ConstantsAssumption DEF Claims
<1>7. Views'
  BY <1>1 DEF Views, AttachedPathsAreKept
<1> QED
  BY <1>3, <1>4, <1>5, <1>6, <1>7 DEF IInv

\* A turn of the relay: the workload has exited, or goes on.
LEMMA RelayTurnsKeeps ==
  ASSUME IInv, NEW r \in Runs, RelayTurns(r) PROVE IInv'
<1> USE DEF RelayTurns, wireVars, placeVars, mountVars, ownerVars, argVars, daemonVars,
           Goto
<1>1. TypeOK /\ Claims /\ Views /\ \A q \in Runs : Placed(q) /\ Wired(q)
  BY DEF IInv
<1>2. TypeOK'
  <2>1. UNCHANGED <<up, sess, granted, ready, within, attached, grant, count, sid,
                    owns, n, ids, dirs, home, work, due, answer, bad, troubles>>
    OBVIOUS
  <2>2. /\ pc \in [Runs -> Steps]
        /\ result \in [Runs -> {None, "exit", "error"}]
    BY <1>1 DEF TypeOK
  <2>3. pc' \in [Runs -> Steps]
    BY <2>2 DEF Steps
  <2>4. result' \in [Runs -> {None, "exit", "error"}]
    BY <2>2
  <2> QED
    BY <1>1, <2>1, <2>2, <2>3, <2>4 DEF TypeOK
<1>3. ASSUME NEW q \in Runs PROVE Placed(q)'
  BY <1>1 DEF TypeOK, Placed, SetUp, Working
<1>4. ASSUME NEW q \in Runs PROVE Wired(q)'
  BY <1>1 DEF TypeOK, Wired
<1>5. Claims'
  BY <1>1 DEF Claims, Claim
<1>6. Views'
  BY <1>1 DEF Views, AttachedPathsAreKept
<1> QED
  BY <1>2, <1>3, <1>4, <1>5, <1>6 DEF IInv

\* The relay fails.
LEMMA RelayBreaksKeeps ==
  ASSUME IInv, NEW r \in Runs, RelayBreaks(r) PROVE IInv'
<1> USE DEF RelayBreaks, wireVars, placeVars, mountVars, ownerVars, argVars, daemonVars,
           Goto, Abandon, HangUp, LetGo, Trouble
<1>1. TypeOK /\ Claims /\ Views /\ \A q \in Runs : Placed(q) /\ Wired(q)
  BY DEF IInv
<1>2. TypeOK'
  <2>1. UNCHANGED <<up, sess, granted, ready, within, attached, grant, count, sid,
                    owns, n, ids, dirs, home, due, answer, bad>>
    OBVIOUS
  <2>2. /\ work \in [Runs -> {None, "alive", "dying", "loose", "dead"}]
        /\ pc \in [Runs -> Steps]
        /\ result \in [Runs -> {None, "exit", "error"}]
        /\ troubles \in 0 .. MaxTroubles
    BY <1>1 DEF TypeOK
  <2>3. work' \in [Runs -> {None, "alive", "dying", "loose", "dead"}]
    BY <2>2
  <2>4. pc' \in [Runs -> Steps]
    BY <2>2 DEF Steps
  <2>5. result' \in [Runs -> {None, "exit", "error"}]
    BY <2>2
  <2>6. troubles' \in 0 .. MaxTroubles
    BY <2>2, ConstantsAssumption
  <2> QED
    BY <1>1, <2>1, <2>2, <2>3, <2>4, <2>5, <2>6 DEF TypeOK
<1>3. ASSUME NEW q \in Runs PROVE Placed(q)'
  <2>1. CASE q # r
    <3>1. UNCHANGED <<pc[q], grant[q], count[q], n[q], ids[q], dirs[q], home[q], work[q],
                      bad[q], result[q]>>
      BY <1>1, <2>1 DEF TypeOK
    <3> QED
      BY <1>1, <3>1, PlacedFrame
  <2>2. CASE q = r
    <3>1. UNCHANGED <<grant[r], count[r], n[r], ids[r], dirs[r], home[r], bad[r]>>
      OBVIOUS
    <3>2. CASE pc[r] \in {"run", "io"}
      <4>1. pc'[r] = "reap" /\ (Working(r)' => Working(r))
        BY <1>1, <3>2 DEF TypeOK, Working
      <4> QED
        BY <1>1, <2>2, <3>1, <3>2, <4>1 DEF Placed, SetUp
    <3>3. CASE pc[r] = "fork"
      <4>1. pc'[r] \in {"clean", "closing", "ending", "done"} /\ ~Working(r)'
        BY <1>1, <3>3 DEF TypeOK, Working
      <4>2. pc'[r] = "clean"
        BY <1>1, <3>3 DEF TypeOK
      <4> QED
        BY <1>1, <2>2, <3>1, <4>1, <4>2 DEF Placed, SetUp
    <3> QED
      BY <3>2, <3>3
  <2> QED
    BY <2>1, <2>2
<1>4. ASSUME NEW q \in Runs PROVE Wired(q)'
  BY <1>1 DEF TypeOK, Wired
<1>5. Claims'
  BY <1>1 DEF Claims, Claim
<1>6. Views'
  BY <1>1 DEF Views, AttachedPathsAreKept
<1> QED
  BY <1>2, <1>3, <1>4, <1>5, <1>6 DEF IInv

\* A person interrupts the run.
LEMMA InterruptKeeps ==
  ASSUME IInv, NEW r \in Runs, Interrupt(r) PROVE IInv'
<1> USE DEF Interrupt, placeVars, mountVars, ownerVars, argVars, daemonVars, HangUp,
           LetGo, Goto, Abandon, Leave, Trouble
<1>1. TypeOK /\ Claims /\ Views /\ \A q \in Runs : Placed(q) /\ Wired(q)
  BY DEF IInv
<1>2. TypeOK'
  <2>1. UNCHANGED <<up, sess, granted, ready, within, attached, grant, count, sid,
                    owns, n, ids, dirs, home, due, bad>>
    OBVIOUS
  <2>2. /\ pc \in [Runs -> Steps]
        /\ result \in [Runs -> {None, "exit", "error"}]
        /\ work \in [Runs -> {None, "alive", "dying", "loose", "dead"}]
        /\ answer \in [Runs -> {None, "refused", "ready"} \cup Sessions]
        /\ troubles \in 0 .. MaxTroubles
    BY <1>1 DEF TypeOK
  <2>3. pc' \in [Runs -> Steps]
    BY <2>2 DEF Steps
  <2>4. result' \in [Runs -> {None, "exit", "error"}]
    BY <2>2
  <2>5. work' \in [Runs -> {None, "alive", "dying", "loose", "dead"}]
    BY <2>2
  <2>6. answer' \in [Runs -> {None, "refused", "ready"} \cup Sessions]
    BY <2>2
  <2>7. troubles' \in 0 .. MaxTroubles
    BY <2>2, ConstantsAssumption
  <2> QED
    BY <1>1, <2>1, <2>2, <2>3, <2>4, <2>5, <2>6, <2>7 DEF TypeOK
<1>3. ASSUME NEW q \in Runs PROVE Placed(q)'
  BY <1>1 DEF TypeOK, Placed, SetUp, Working, None
<1>4. ASSUME NEW q \in Runs PROVE Wired(q)'
  BY <1>1 DEF TypeOK, Wired
<1>5. Claims'
  BY <1>1, ConstantsAssumption DEF Claims, Claim, None
<1>6. Views'
  BY <1>1 DEF Views, AttachedPathsAreKept
<1> QED
  BY <1>2, <1>3, <1>4, <1>5, <1>6 DEF IInv

\* The run is killed: what it has made stays.
LEMMA KilledKeeps ==
  ASSUME IInv, NEW r \in Runs, Killed(r) PROVE IInv'
<1> USE DEF Killed, endVars, placeVars, mountVars, ownerVars, argVars, daemonVars,
           HangUp, Goto, Trouble
<1>1. TypeOK /\ Claims /\ Views /\ \A q \in Runs : Placed(q) /\ Wired(q)
  BY DEF IInv
<1>2. TypeOK'
  <2>1. UNCHANGED <<up, sess, granted, ready, within, attached, grant, count, sid,
                    owns, n, ids, dirs, home, due, bad, result>>
    OBVIOUS
  <2>2. /\ pc \in [Runs -> Steps]
        /\ work \in [Runs -> {None, "alive", "dying", "loose", "dead"}]
        /\ answer \in [Runs -> {None, "refused", "ready"} \cup Sessions]
        /\ troubles \in 0 .. MaxTroubles
    BY <1>1 DEF TypeOK
  <2>3. pc' \in [Runs -> Steps]
    BY <2>2 DEF Steps
  <2>4. work' \in [Runs -> {None, "alive", "dying", "loose", "dead"}]
    BY <2>2
  <2>5. answer' \in [Runs -> {None, "refused", "ready"} \cup Sessions]
    BY <2>2
  <2>6. troubles' \in 0 .. MaxTroubles
    BY <2>2, ConstantsAssumption
  <2> QED
    BY <1>1, <2>1, <2>2, <2>3, <2>4, <2>5, <2>6 DEF TypeOK
<1>3. ASSUME NEW q \in Runs PROVE Placed(q)'
  BY <1>1 DEF Placed, SetUp, Working, None
<1>4. ASSUME NEW q \in Runs PROVE Wired(q)'
  BY <1>1 DEF TypeOK, Wired
<1>5. Claims'
  BY <1>1, ConstantsAssumption DEF Claims, Claim, None
<1>6. Views'
  BY <1>1 DEF Views, AttachedPathsAreKept
<1> QED
  BY <1>2, <1>3, <1>4, <1>5, <1>6 DEF IInv

\* The workload exits by itself.
LEMMA WorkExitsKeeps ==
  ASSUME IInv, NEW r \in Runs, WorkExits(r) PROVE IInv'
<1> USE DEF WorkExits, wireVars, endVars, placeVars, mountVars, ownerVars, argVars,
           daemonVars
<1>1. TypeOK /\ Claims /\ Views /\ \A q \in Runs : Placed(q) /\ Wired(q)
  BY DEF IInv
<1>2. TypeOK'
  BY <1>1 DEF TypeOK
<1>3. ASSUME NEW q \in Runs PROVE Placed(q)'
  BY <1>1 DEF Placed, Working, None
<1>4. ASSUME NEW q \in Runs PROVE Wired(q)'
  BY <1>1 DEF Wired
<1>5. Claims'
  BY <1>1 DEF Claims, Claim
<1>6. Views'
  BY <1>1 DEF Views, AttachedPathsAreKept
<1> QED
  BY <1>2, <1>3, <1>4, <1>5, <1>6 DEF IInv

\* The workload, hung up, dies.
LEMMA WorkDiesKeeps ==
  ASSUME IInv, NEW r \in Runs, WorkDies(r) PROVE IInv'
<1> USE DEF WorkDies, wireVars, endVars, placeVars, mountVars, ownerVars, argVars,
           daemonVars
<1>1. TypeOK /\ Claims /\ Views /\ \A q \in Runs : Placed(q) /\ Wired(q)
  BY DEF IInv
<1>2. TypeOK'
  BY <1>1 DEF TypeOK
<1>3. ASSUME NEW q \in Runs PROVE Placed(q)'
  BY <1>1 DEF Placed, Working, None
<1>4. ASSUME NEW q \in Runs PROVE Wired(q)'
  BY <1>1 DEF Wired
<1>5. Claims'
  BY <1>1 DEF Claims, Claim
<1>6. Views'
  BY <1>1 DEF Views, AttachedPathsAreKept
<1> QED
  BY <1>2, <1>3, <1>4, <1>5, <1>6 DEF IInv

\* The process of the home dies.
LEMMA HomeDiesKeeps ==
  ASSUME IInv, NEW r \in Runs, HomeDies(r) PROVE IInv'
<1> USE DEF HomeDies, wireVars, endVars, mountVars, ownerVars, argVars, daemonVars,
           Trouble
<1>1. TypeOK /\ Claims /\ Views /\ \A q \in Runs : Placed(q) /\ Wired(q)
  BY DEF IInv
<1>2. TypeOK'
  <2>1. UNCHANGED <<up, sess, granted, ready, within, attached, pc, grant, count, sid,
                    owns, n, ids, dirs, work, due, answer, bad, result>>
    OBVIOUS
  <2>2. /\ home \in [Runs -> {None, "up", "lost", "closed"}]
        /\ troubles \in 0 .. MaxTroubles
    BY <1>1 DEF TypeOK
  <2>3. home' \in [Runs -> {None, "up", "lost", "closed"}]
    BY <2>2
  <2>4. troubles' \in 0 .. MaxTroubles
    BY <2>2, ConstantsAssumption
  <2> QED
    BY <1>1, <2>1, <2>2, <2>3, <2>4 DEF TypeOK
<1>3. ASSUME NEW q \in Runs PROVE Placed(q)'
  BY <1>1 DEF Placed, Working
<1>4. ASSUME NEW q \in Runs PROVE Wired(q)'
  BY <1>1 DEF Wired
<1>5. Claims'
  BY <1>1 DEF Claims, Claim
<1>6. Views'
  BY <1>1 DEF Views, AttachedPathsAreKept
<1> QED
  BY <1>2, <1>3, <1>4, <1>5, <1>6 DEF IInv

\* The workload ends the session over its socket.
LEMMA ApiClosesKeeps ==
  ASSUME IInv, NEW r \in Runs, ApiCloses(r) PROVE IInv'
<1> USE DEF ApiCloses, wireVars, runVars, endVars, placeVars, mountVars, ownerVars,
           argVars, EndSessionOf, Under
<1>1. TypeOK /\ Claims /\ Views /\ \A q \in Runs : Placed(q) /\ Wired(q)
  BY DEF IInv
<1>2. TypeOK'
  BY <1>1 DEF TypeOK
<1>3. ASSUME NEW q \in Runs PROVE Placed(q)'
  BY <1>1 DEF Placed, Working
<1>4. ASSUME NEW q \in Runs PROVE Wired(q)'
  BY <1>1 DEF Wired
<1>5. Claims'
  BY <1>1 DEF Claims, Claim, None
<1>6. Views'
  BY <1>1 DEF Views, AttachedPathsAreKept
<1> QED
  BY <1>2, <1>3, <1>4, <1>5, <1>6 DEF IInv

-----------------------------------------------------------------------------
\* Arguments that parse name a grant, or no remote.
LEMMA GrantTyped ==
  ASSUME NEW r \in Runs, NEW a \in Arguments(r), Parses(a)
  PROVE  /\ GrantOf(a) \in Grants \cup {None}
         /\ RemoteCount(a) \in Index \cup {0} /\ RemoteCount(a) \in Nat
         /\ GrantOf(a) = None => RemoteCount(a) = 0
<1>1. /\ a.option \in Grants \cup {None} /\ a.prefixes \subseteq Grants
      /\ a.remotes \in 0 .. MaxViews[r]
  BY DEF Arguments
<1>2. a.remotes \in Index \cup {0} /\ 1 \in Index /\ a.remotes \in Nat
  BY <1>1, IndexFacts
<1>3. GrantOf(a) \in Grants \cup {None}
  BY <1>1 DEF GrantOf
<1>4. a.remotes > 0 => GrantOf(a) # None
  BY DEF Parses
<1> QED
  BY <1>2, <1>3, <1>4 DEF RemoteCount

\* A run begins.
LEMMA BeginKeeps ==
  ASSUME IInv, NEW r \in Runs, NEW a \in Arguments(r), Begin(r, a) PROVE IInv'
<1>1. TypeOK /\ Claims /\ Views /\ \A q \in Runs : Placed(q) /\ Wired(q)
  BY DEF IInv
<1>2. /\ pc[r] = "idle"
      /\ UNCHANGED <<daemonVars, ownerVars, mountVars, placeVars, work, bad, wireVars,
                     troubles>>
      /\ pc' = [pc EXCEPT ![r] = pc'[r]] /\ pc'[r] \in {"done", "dirs", "list"}
      /\ result' = result \/ (result' = [result EXCEPT ![r] = "error"] /\ pc'[r] = "done")
      /\ pc'[r] = "done" => result'[r] = "error"
  BY <1>1 DEF Begin, TypeOK, Leave, Goto, ProfileRefuses
<1>3. \/ UNCHANGED <<grant, count>>
      \/ /\ grant' = [grant EXCEPT ![r] = GrantOf(a)] /\ GrantOf(a) \in Grants \cup {None}
         /\ count' = [count EXCEPT ![r] = RemoteCount(a)]
         /\ RemoteCount(a) \in Index \cup {0} /\ RemoteCount(a) \in Nat
         /\ GrantOf(a) = None => RemoteCount(a) = 0
  BY GrantTyped DEF Begin, argVars
<1> USE DEF daemonVars, ownerVars, mountVars, placeVars, wireVars
<1>4. TypeOK'
  <2>1. /\ pc \in [Runs -> Steps] /\ result \in [Runs -> {None, "exit", "error"}]
        /\ grant \in [Runs -> Grants \cup {None}] /\ count \in [Runs -> Index \cup {0}]
    BY <1>1 DEF TypeOK
  <2>2. pc' \in [Runs -> Steps] /\ result' \in [Runs -> {None, "exit", "error"}]
    BY <1>2, <2>1 DEF Steps
  <2>3. grant' \in [Runs -> Grants \cup {None}] /\ count' \in [Runs -> Index \cup {0}]
    BY <1>3, <2>1
  <2> QED
    BY <1>1, <1>2, <2>2, <2>3 DEF TypeOK
<1>5. ASSUME NEW q \in Runs PROVE Placed(q)'
  <2>1. CASE q = r
    <3>1. /\ n[r] = 0 /\ ids[r] = {} /\ dirs[r] = {} /\ work[r] = None /\ home[r] # "closed"
          /\ grant[r] = None => count[r] = 0
          /\ n[r] <= count[r]
      BY <1>1, <1>2 DEF Placed, SetUp
    <3>2. grant'[r] = None => count'[r] = 0
      BY <1>1, <1>3, <3>1 DEF TypeOK
    <3>3. n'[r] <= count'[r]
      BY <1>1, <1>2, <1>3, <3>1 DEF TypeOK
    <3> QED
      BY <1>2, <2>1, <3>1, <3>2, <3>3 DEF Placed, SetUp, Working, None
  <2>2. CASE q # r
    BY <1>1, <1>2, <1>3, <2>2, PlacedFrame DEF TypeOK
  <2> QED
    BY <2>1, <2>2
<1>6. ASSUME NEW q \in Runs PROVE Wired(q)'
  BY <1>1, <1>2 DEF TypeOK, Wired, None
<1>7. Claims' /\ Views'
  BY <1>1, <1>2 DEF Claims, Claim, Views, AttachedPathsAreKept
<1> QED
  BY <1>4, <1>5, <1>6, <1>7 DEF IInv

\* The daemon dies, starts again, or ends a session that is over.
LEMMA DaemonKeeps ==
  ASSUME IInv, DaemonDies \/ DaemonStarts \/ \E s \in Sessions : SessionEnds(s) PROVE IInv'
<1>1. TypeOK /\ Claims /\ Views /\ \A q \in Runs : Placed(q) /\ Wired(q)
  BY DEF IInv
<1>2. UNCHANGED runVars
  BY DEF DaemonDies, DaemonStarts, SessionEnds
<1> USE <1>2 DEF runVars, argVars, ownerVars, mountVars, placeVars, endVars
<1>3. ASSUME NEW q \in Runs PROVE Placed(q)'
  BY <1>1, PlacedFrame
<1>4. CASE DaemonDies
  <2>1. /\ up' = FALSE /\ ready' = {} /\ due' = [q \in Runs |-> None]
        /\ troubles < MaxTroubles /\ troubles' = troubles + 1
        /\ UNCHANGED <<sess, granted, within, attached>>
    BY <1>4 DEF DaemonDies, Trouble
  <2>2. /\ \A q \in Runs : answer'[q] = answer[q] \/ (answer'[q] = "refused"
             /\ (answer[q] # None \/ (due[q] # None /\ pc[q] \in {"opening", "mounting"})))
        /\ answer' = [q \in Runs |-> answer'[q]]
    BY <1>4 DEF DaemonDies
  <2>3. TypeOK'
    <3>1. answer' \in [Runs -> {None, "refused", "ready"} \cup Sessions]
      BY <1>1, <2>2 DEF TypeOK
    <3>2. troubles' \in 0 .. MaxTroubles
      BY <1>1, <2>1, ConstantsAssumption DEF TypeOK
    <3>3. due' \in [Runs -> {None, "open", "mount"}]
      BY <2>1
    <3> QED
      BY <1>1, <2>1, <3>1, <3>2, <3>3 DEF TypeOK
  <2>4. ASSUME NEW q \in Runs PROVE Wired(q)'
    BY <1>1, <2>1, <2>2 DEF Wired, None
  <2>5. \A q \in Runs : Claim(q)' = Claim(q) \/ Claim(q)' \notin Sessions
    BY <2>2, ConstantsAssumption DEF Claim
  <2>6. Claims' /\ Views'
    BY <1>1, <2>1, <2>5 DEF Claims, Views, AttachedPathsAreKept
  <2> QED
    BY <1>3, <2>3, <2>4, <2>6 DEF IInv
<1>5. CASE DaemonStarts
  <2>1. /\ up' = TRUE /\ ~up /\ attached' \subseteq attached
        /\ UNCHANGED <<sess, granted, ready, within, due, answer, troubles>>
    BY <1>5 DEF DaemonStarts, wireVars
  <2>2. TypeOK'
    BY <1>1, <2>1 DEF TypeOK
  <2>3. ASSUME NEW q \in Runs PROVE Wired(q)'
    BY <1>1, <2>1 DEF Wired
  <2>4. Claims' /\ Views'
    BY <1>1, <2>1 DEF Claims, Claim, Views, AttachedPathsAreKept
  <2> QED
    BY <1>3, <2>2, <2>3, <2>4 DEF IInv
<1>6. CASE \E s \in Sessions : SessionEnds(s)
  <2>1. PICK s \in Sessions : SessionEnds(s)
    BY <1>6
  <2>2. /\ sess' = [sess EXCEPT ![s] = "ended"] /\ ready' = ready \ Under(s)
        /\ attached' \subseteq attached
        /\ (ready \subseteq attached => ready' \subseteq attached')
        /\ UNCHANGED <<up, granted, within, due, answer, troubles>>
    BY <2>1 DEF SessionEnds, EndSessionOf, wireVars
  <2>3. TypeOK'
    <3>1. sess' \in [Sessions -> {None, "active", "ended"}]
      BY <1>1, <2>2 DEF TypeOK
    <3>2. ready' \subseteq Runs \X Index /\ attached' \subseteq Runs \X Index
      BY <1>1, <2>2 DEF TypeOK
    <3> QED
      BY <1>1, <2>2, <3>1, <3>2 DEF TypeOK
  <2>4. ASSUME NEW q \in Runs PROVE Wired(q)'
    BY <1>1, <2>2 DEF Wired
  <2>5. Claims'
    BY <1>1, <2>2 DEF TypeOK, Claims, Claim, None
  <2>6. Views'
    BY <1>1, <2>2 DEF Views, AttachedPathsAreKept
  <2> QED
    BY <1>3, <2>3, <2>4, <2>5, <2>6 DEF IInv
<1> QED
  BY <1>4, <1>5, <1>6

\* A view dies.
LEMMA ViewDiesKeeps ==
  ASSUME IInv, NEW r \in Runs, NEW i \in Index, ViewDies(r, i) PROVE IInv'
<1>1. TypeOK /\ Claims /\ Views /\ \A q \in Runs : Placed(q) /\ Wired(q)
  BY DEF IInv
<1>2. /\ ready' = ready \ {<<r, i>>} /\ attached' \in {attached, attached \ {<<r, i>>}}
      /\ troubles < MaxTroubles /\ troubles' = troubles + 1
      /\ UNCHANGED <<up, sess, granted, within, runVars, due, answer>>
  BY DEF ViewDies, Trouble, wireVars
<1> USE DEF runVars, argVars, ownerVars, mountVars, placeVars, endVars
<1>3. TypeOK'
  <2>1. troubles' \in 0 .. MaxTroubles
    BY <1>1, <1>2, ConstantsAssumption DEF TypeOK
  <2> QED
    BY <1>1, <1>2, <2>1 DEF TypeOK
<1>4. ASSUME NEW q \in Runs PROVE Placed(q)' /\ Wired(q)'
  BY <1>1, <1>2, PlacedFrame DEF Wired
<1>5. Claims' /\ Views'
  BY <1>1, <1>2 DEF Claims, Claim, Views, AttachedPathsAreKept
<1> QED
  BY <1>3, <1>4, <1>5 DEF IInv

\* Every step keeps the invariant.
LEMMA StepIInv == IInv /\ [Next]_vars => IInv'
<1> SUFFICES ASSUME IInv, [Next]_vars PROVE IInv'
  OBVIOUS
<1>1. CASE DaemonStep
  BY <1>1, DaemonKeeps, ServeOpenKeeps, ServeMountKeeps DEF DaemonStep
<1>2. ASSUME NEW r \in Runs, RunStep(r) PROVE IInv'
  BY <1>2, ListSessionsKeeps, TakeSessionKeeps, MakeDirsKeeps, StartHomeKeeps, SendMountKeeps,
     TakeMountKeeps, LaunchKeeps, RelayFailsKeeps, RelayGoesOnKeeps, ReapKeeps,
     FinishLocalKeeps, CloseApiAndHomeKeeps, CloseViewKeeps, LeavePathsKeeps, FinishKeeps
     DEF RunStep
<1>3. ASSUME NEW r \in Runs, WorldStep(r) PROVE IInv'
  BY <1>3, BeginKeeps, EnterRelayKeeps, RelayTurnsKeeps, RelayBreaksKeeps, InterruptKeeps,
     KilledKeeps, WorkExitsKeeps, WorkDiesKeeps, HomeDiesKeeps, ApiClosesKeeps, ViewDiesKeeps DEF WorldStep
<1>4. CASE UNCHANGED vars
  <2> USE <1>4 DEF vars, daemonVars, runVars, argVars, ownerVars, mountVars, placeVars,
                   endVars, wireVars
  <2>1. TypeOK' /\ Claims' /\ Views'
    BY DEF IInv, TypeOK, Claims, Claim, Views, AttachedPathsAreKept
  <2>2. ASSUME NEW q \in Runs PROVE Placed(q)' /\ Wired(q)'
    BY PlacedFrame DEF IInv, Wired
  <2> QED
    BY <2>1, <2>2 DEF IInv
<1> QED
  BY <1>1, <1>2, <1>3, <1>4 DEF Next

\* IInv holds in every reachable state.
THEOREM AlwaysIInv == Spec => []IInv
BY InitIInv, StepIInv, PTL DEF Spec

-----------------------------------------------------------------------------
\* While the workload lives, the run is where it has not cleaned up.
LEMMA IInvWaits == IInv => CleanUpWaitsForWork
<1> SUFFICES ASSUME IInv, NEW r \in Runs, Working(r)
             PROVE  /\ pc[r] \in {"fork", "run", "io", "reap", "killed"}
                    /\ home[r] # "closed"
                    /\ pc[r] # "killed" => ids[r] = 1 .. count[r] /\ dirs[r] = 0 .. count[r]
  BY DEF CleanUpWaitsForWork
<1>1. Placed(r) /\ pc[r] \in Steps
  BY DEF IInv, TypeOK
<1>2. work[r] # None
  BY DEF Working, None
<1>3. pc[r] \notin SetUp \cup {"clean", "closing", "ending", "done"}
  BY <1>1, <1>2 DEF Placed
<1>4. pc[r] \in {"fork", "run", "io", "reap", "killed"}
  BY <1>1, <1>3 DEF Steps, SetUp
<1> QED
  BY <1>1, <1>4 DEF Placed

\* What is mounted is below a directory that is still there.
LEMMA IInvFound == IInv => MountsAreFound
<1> SUFFICES ASSUME IInv PROVE MountsAreFound
  OBVIOUS
<1>1. TypeOK /\ AttachedPathsAreKept /\ ready \subseteq attached
  BY DEF IInv, Views
<1>2. ASSUME NEW r \in Runs, pc[r] = "done", result[r] = "exit"
      PROVE  /\ dirs[r] = {}
             /\ \A i \in Index : <<r, i>> \notin ready /\ <<r, i>> \notin attached
  <2>1. dirs[r] = {}
    BY <1>2 DEF IInv, Placed
  <2>2. \A i \in Index : <<r, i>> \notin attached
    BY <1>1, <2>1 DEF AttachedPathsAreKept
  <2> QED
    BY <1>1, <2>1, <2>2
<1> QED
  BY <1>1, <1>2 DEF MountsAreFound, ExitMeansClean

\* The clean-up never works under a workload that the run still waits for, whatever is
\* interrupted, dies or is lost meanwhile: the home, the sockets and all mountpoints are
\* there as long as it lives (the finally of _relay() inside that of run_sandbox()).
\* Nothing is said of a workload let loose: an interrupt in _relay()'s finally, or a
\* failure between the fork and its try, makes the clean-up go on without it.
THEOREM AlwaysWaits == Spec => []CleanUpWaitsForWork
BY AlwaysIInv, IInvWaits, PTL

\* A run that ends with its workload's exit code has left nothing mounted and no
\* directory, and a path is given up only when nothing is mounted on it
\* (run_sandbox()'s removal of its mountpoints).
THEOREM AlwaysFound == Spec => []MountsAreFound
BY AlwaysIInv, IInvFound, PTL

-----------------------------------------------------------------------------
\* The end of one run ends no session of another: each has been claimed once.
LEMMA StepLeavesAlone ==
  ASSUME IInv, [Next]_vars, NEW r \in Runs, NEW q \in Runs, r # q,
         pc[r] = "ending", pc'[r] = "done", owns[q], sess[sid[q]] = "active"
  PROVE  sess'[sid[q]] = "active"
<1>1. TypeOK /\ Claims /\ Wired(q)
  BY DEF IInv
<1>2. sid[q] \in Sessions
  BY <1>1 DEF Wired
<1>3. CASE UNCHANGED sess
  BY <1>3
<1>4. CASE Finish(r)
  <2>1. owns[r] => sid[r] # sid[q]
    BY <1>1, <1>2 DEF Claims, Claim
  <2>2. UNCHANGED sess \/ (owns[r] /\ sess' = [sess EXCEPT ![sid[r]] = "ended"])
    BY <1>4 DEF Finish, EndSessionOf
  <2> QED
    BY <1>1, <1>2, <2>1, <2>2 DEF TypeOK
<1>5. DaemonStep => UNCHANGED pc
  BY DEF DaemonStep, DaemonDies, DaemonStarts, ServeOpen, ServeMount, SessionEnds, runVars
<1>6. ASSUME NEW p \in Runs, RunStep(p) \/ WorldStep(p) PROVE UNCHANGED sess \/ Finish(r)
  <2>1. CASE Finish(p)
    <3>1. p = r
      BY <1>1, <2>1 DEF Finish, Goto, TypeOK
    <3> QED
      BY <2>1, <3>1
  <2>2. CASE ApiCloses(p)
    BY <1>1, <2>2 DEF ApiCloses, runVars
  <2>3. CASE UNCHANGED sess
    BY <2>3
  <2> QED
    BY <1>6, <2>1, <2>2, <2>3
       DEF RunStep, WorldStep, ListSessions, TakeSession, MakeDirs, StartHome, SendMount,
           TakeMount, Launch, RelayFails, RelayGoesOn, Reap, FinishLocal, CloseApiAndHome,
           CloseView, LeavePaths, Begin, EnterRelay, RelayTurns, RelayBreaks, Interrupt, Killed,
           WorkExits, WorkDies, HomeDies, ViewDies, daemonVars
<1> QED
  BY <1>3, <1>4, <1>5, <1>6 DEF Next, vars, daemonVars, runVars

\* A run that came to a session another run had opened leaves it open when it ends
\* (owns_session).
THEOREM AlwaysLeftAlone == Spec => GuestsLeaveSessionsAlone
<1>1. IInv /\ [Next]_vars =>
        [\A r, q \in Runs :
           r # q /\ pc[r] = "ending" /\ pc'[r] = "done" /\ owns[q]
           /\ pc[q] \notin {"done", "killed"} /\ sess[sid[q]] = "active"
           => sess'[sid[q]] = "active"]_vars
  BY StepLeavesAlone
<1> QED
  BY <1>1, AlwaysIInv, PTL DEF Spec, GuestsLeaveSessionsAlone
=============================================================================
