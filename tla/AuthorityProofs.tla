--------------------------- MODULE AuthorityProofs ---------------------------
(***************************************************************************)
(* Whatever grants callers propose or bring and validators answer, however *)
(* many there are and whatever workers are launched meanwhile: nothing is  *)
(* stored that goes beyond what a person said yes to or what was brought   *)
(* in signed, and nothing else is served.                                  *)
(*                                                                         *)
(* For the life of grants the argument is one step long: the relation "g   *)
(* is covered by a" is transitive along renewals that ask nobody.  For the *)
(* launches it is the inductive invariant IInv, which follows the grant    *)
(* from the request to the worker: a request that is not refused is a      *)
(* stored grant within the ceiling; a source is pinned for an entry of the *)
(* plan only when the grant has an export signed like that entry; and so a *)
(* worker has a stored grant within the ceiling and a sealed plan that has *)
(* nothing but the grant's exports, which is what it checks its            *)
(* descriptors against before it serves.  What the planner computes is not *)
(* used: the broker looks each planned export up in the grant.             *)
(*                                                                         *)
(* That all of the grant is served, over the right channels, and that      *)
(* nothing stays open is LaunchInv, which takes stock of the broker's      *)
(* descriptor table at each step.  It needs to know what the operators on  *)
(* tables do for every table: that the kernel finds a free number, and     *)
(* that the two loops that move a worker's descriptors to their fixed      *)
(* numbers overwrite none that is still to come; and of the planner, that  *)
(* no target is planned twice: a plan as long as the grant, each entry     *)
(* signed, then leaves no export out.                                      *)
(*                                                                         *)
(* That the planner computes the reference is the third part: there is a   *)
(* way to sort the exports; after each turn of the loop there is a plan    *)
(* if and only if the exports seen so far fit together, with an entry for  *)
(* each of their targets, in order; and such a plan is the reference,      *)
(* which looks at the set of exports alone.                                *)
(*                                                                         *)
(* On that rests the last part, CalmInv: a grant that could be served is   *)
(* refused only after something failed.  It adds to the others that what   *)
(* was pinned is what was signed, that each slot of a worker's plan is     *)
(* filled with the clone sealed into it, and that as long as nothing       *)
(* fails a staging directory belongs to a live worker.                     *)
(***************************************************************************)
EXTENDS Authority, FiniteSetTheorems, WellFoundedInduction, SequenceTheorems, TLAPS

\* g goes in nothing beyond a.
Covers(a, g) ==
  /\ ExportsOf(g) = ExportsOf(a)
  /\ g.binding = a.binding /\ g.policy = a.policy /\ g.extensions = a.extensions
  /\ g.features \subseteq a.features

\* What compare_grants() lets pass as not widened is covered.
LEMMA UnwidenedIsCovered ==
  ASSUME NEW old, NEW new, ~Widened(old, new)
  PROVE  Covers(old, new)
BY DEF Widened, Covers

\* A grant covered by a covered grant is covered.
LEMMA CoversIsTransitive ==
  ASSUME NEW a, NEW b, NEW c, Covers(a, b), Covers(b, c)
  PROVE  Covers(a, c)
BY DEF Covers

\* No call of create() or renew() stores a grant beyond all that were vouched for.
LEMMA LifecycleKeeps ==
  ASSUME NoSilentWidening, LifecycleNext
  PROVE  NoSilentWidening'
<1>1. \A g \in stored : \E a \in Vouched : Covers(a, g)
  BY DEF NoSilentWidening, Covers
<1>2. SUFFICES \A g \in stored' : \E a \in Vouched' : Covers(a, g)
  BY DEF NoSilentWidening, Covers, ExportsOf
<1>3. Vouched \subseteq Vouched'
  BY DEF LifecycleNext, Create, Import, Renew, Vouched
<1>4. CASE Create
  <2>1. PICK c \in Proposals : stored' = stored \cup {c} /\ c \in Vouched'
    BY <1>4 DEF Create, Store, Vouched
  <2>2. Covers(c, c)
    BY DEF Covers
  <2> QED
    BY <1>1, <1>3, <2>1, <2>2
<1>5. ASSUME NEW c \in Foreign, Import(c)
      PROVE  \A g \in stored' : \E a \in Vouched' : Covers(a, g)
  <2>1. stored' = stored \cup {c} /\ c \in Vouched'
    BY <1>5 DEF Import, Store, Vouched
  <2>2. Covers(c, c)
    BY DEF Covers
  <2> QED
    BY <1>1, <1>3, <2>1, <2>2
<1>6. ASSUME NEW old \in stored \cup Foreign, NEW proposed \in Proposals, Renew(old, proposed)
      PROVE  \A g \in stored' : \E a \in Vouched' : Covers(a, g)
  <2>1. PICK c \in Proposals :
          /\ stored' = stored \cup {c}
          /\ authorised' =
               IF Widened(old, c) \/ CanonicalChanges(proposed, c) # {}
               THEN authorised \cup {c} ELSE authorised
    BY <1>6 DEF Renew, Store
  <2>2. CASE Widened(old, c) \/ CanonicalChanges(proposed, c) # {}
    <3>1. c \in Vouched' /\ Covers(c, c)
      BY <2>1, <2>2 DEF Covers, Vouched
    <3> QED
      BY <1>1, <1>3, <2>1, <3>1
  <2>3. CASE ~Widened(old, c)
    <3>1. PICK a \in Vouched' : Covers(a, old)
      <4>1. CASE old \in stored
        BY <1>1, <1>3, <4>1
      <4>2. CASE old \notin stored
        BY <1>6, <4>2 DEF Renew, Vouched, Covers
      <4> QED
        BY <4>1, <4>2
    <3>2. Covers(a, c)
      BY <2>3, <3>1, UnwidenedIsCovered, CoversIsTransitive
    <3> QED
      BY <1>1, <1>3, <2>1, <3>1, <3>2
  <2> QED
    BY <2>2, <2>3
<1> QED
  BY <1>4, <1>5, <1>6 DEF LifecycleNext

\* The composition lets the life of grants run as GrantLifecycle alone has it, whose
\* run leaves the broker out.
LEMMA AuthorityIsALifecycle == Spec => LifecycleSpec
<1>1. Init => LifecycleInit
  BY DEF Init
<1>2. [Next]_vars => [LifecycleNext]_lifecycleVars
  BY DEF Next, vars, lifecycleVars
<1> QED
  BY <1>1, <1>2, PTL DEF Spec, LifecycleSpec

\* "Renew cannot silently widen": however long the chain of renewals and whatever
\* foreign grants are imported or renewed, every stored grant is covered by one a
\* person said yes to or by one that was brought in signed.
THEOREM NothingWidensSilently == Spec => []NoSilentWidening
<1>1. LifecycleInit => NoSilentWidening
  BY DEF LifecycleInit, NoSilentWidening
<1>2. NoSilentWidening /\ [LifecycleNext]_lifecycleVars => NoSilentWidening'
  <2>1. NoSilentWidening /\ UNCHANGED lifecycleVars => NoSilentWidening'
    BY DEF NoSilentWidening, lifecycleVars, ExportsOf, Vouched
  <2> QED
    BY <2>1, LifecycleKeeps
<1> QED
  BY <1>1, <1>2, AuthorityIsALifecycle, PTL DEF LifecycleSpec

\* A stored grant's rows, typed: a host has no binding but that of a stored grant.
LEMMA StoreIsTyped ==
  ASSUME LifecycleTypeOK, NEW g \in Proposals, Store(g), authorised' \subseteq authorised \cup {g},
         outside' \subseteq Foreign
  PROVE  LifecycleTypeOK'
<1>1. stored' = stored \cup {g} /\ hosts' = [hosts EXCEPT ![g.binding.host] = g.binding]
  BY DEF Store
<1>2. hosts' \in [Hosts -> {h.binding : h \in stored'} \cup {NoHost}]
  BY <1>1 DEF LifecycleTypeOK, Hosts
<1> QED
  BY <1>1, <1>2 DEF LifecycleTypeOK

\* Only what is stored was agreed to: no call records a yes and then drops it.
THEOREM LifecycleIsTyped == Spec => []LifecycleTypeOK
<1>1. LifecycleInit => LifecycleTypeOK
  BY DEF LifecycleInit, LifecycleTypeOK
<1>2. LifecycleTypeOK /\ [LifecycleNext]_lifecycleVars => LifecycleTypeOK'
  <2> SUFFICES ASSUME LifecycleTypeOK, [LifecycleNext]_lifecycleVars PROVE LifecycleTypeOK'
    OBVIOUS
  <2>1. CASE UNCHANGED lifecycleVars
    BY <2>1 DEF LifecycleTypeOK, lifecycleVars
  <2>2. CASE Create
    BY <2>2, StoreIsTyped DEF Create, LifecycleTypeOK
  <2>3. ASSUME NEW g \in Foreign, Import(g)
        PROVE  LifecycleTypeOK'
    BY <2>3, StoreIsTyped, ProposalsAssumption DEF Import, LifecycleTypeOK
  <2>4. ASSUME NEW current \in stored \cup Foreign, NEW proposed \in Proposals,
               Renew(current, proposed)
        PROVE  LifecycleTypeOK'
    <3>1. outside' \subseteq Foreign
      BY <2>4 DEF Renew, LifecycleTypeOK
    <3>2. PICK g \in Proposals : Store(g) /\ authorised' \subseteq authorised \cup {g}
      BY <2>4 DEF Renew
    <3> QED
      BY <3>1, <3>2, StoreIsTyped
  <2> QED
    BY <2>1, <2>2, <2>3, <2>4 DEF LifecycleNext
<1> QED
  BY <1>1, <1>2, AuthorityIsALifecycle, PTL DEF LifecycleSpec

-----------------------------------------------------------------------------
(* What workers serve                                                      *)

\* What is served for the export x: its target and access, and an object with the
\* signed inode.
ServedFor(e, x) == x.target = e.target /\ x.access = e.access /\ x.ino = Ino[e.obj]

\* The fields of a worker process.
WorkerFields == {"st", "n", "grant", "entries", "table", "tree"}

\* The request that is served is a stored grant ...
Granted == pc # "idle" => req \in stored

\* ... and within the ceiling, once it has not been refused.
Admitted == pc \notin {"idle", "refuse"} => WithinCeiling(req)

\* What has been pinned are the first entries of the plan, each signed.
Pinning ==
  /\ resolved \in Seq(ToSet(resolved))
  /\ pc = "idle" => resolved = <<>>
  /\ \A i \in DOMAIN resolved : Signed(req, BuildPlan(req).exports[i])

\* A worker that was born has a stored grant within the ceiling and a plan of nothing
\* but signed exports, and serves nothing but them.
Launched(w) ==
  /\ DOMAIN w = WorkerFields
  /\ w.grant \in stored /\ WithinCeiling(w.grant)
  /\ \A i \in DOMAIN w.entries : Signed(w.grant, w.entries[i].export)
  /\ w.st = "serving" => \A e \in w.tree : \E x \in ExportsOf(w.grant) : ServedFor(e, x)

\* Every process is none or a worker that was launched.
Workers ==
  /\ DOMAIN worker = Pids
  /\ \A p \in Pids : worker[p] = NoWorker \/ Launched(worker[p])

\* The inductive invariant.
IInv == Granted /\ Admitted /\ Pinning /\ Workers

\* Workers that are left alone stay as they are: stored grants stay.
LEMMA WorkersStand ==
  ASSUME Workers, stored \subseteq stored', UNCHANGED worker
  PROVE  Workers'
<1> SUFFICES ASSUME NEW p \in Pids, worker[p] # NoWorker
             PROVE  Launched(worker[p])'
  BY DEF Workers
<1>1. Launched(worker[p])
  BY DEF Workers
<1> QED
  BY <1>1 DEF Launched, ServedFor, ExportsOf

\* A worker that does not come to serve keeps its grant and its entries.
LEMMA StatusChanges ==
  ASSUME Workers, UNCHANGED stored, NEW p, NEW s, s # "serving",
         worker[p] # NoWorker, worker' = [worker EXCEPT ![p].st = s]
  PROVE  Workers'
<1>1. DOMAIN worker' = Pids
  BY DEF Workers
<1>2. ASSUME NEW q \in Pids, worker'[q] # NoWorker
      PROVE  Launched(worker[q])'
  <2>1. CASE q = p
    <3>1. Launched(worker[p])
      BY <2>1 DEF Workers
    <3>2. worker'[q] = [worker[p] EXCEPT !.st = s]
      BY <2>1 DEF Workers
    <3>3. /\ DOMAIN worker'[q] = WorkerFields
          /\ worker'[q].st = s
          /\ worker'[q].grant = worker[p].grant
          /\ worker'[q].entries = worker[p].entries
      BY <3>1, <3>2 DEF Launched, WorkerFields
    <3> QED
      BY <3>1, <3>3 DEF Launched
  <2>2. CASE q # p
    <3>1. worker'[q] = worker[q]
      BY <2>2 DEF Workers
    <3>2. Launched(worker[q])
      BY <1>2, <3>1 DEF Workers
    <3> QED
      BY <3>1, <3>2 DEF Launched, ServedFor, ExportsOf
  <2> QED
    BY <2>1, <2>2
<1> QED
  BY <1>1, <1>2 DEF Workers

\* A worker goes.
LEMMA WorkerGoes ==
  ASSUME Workers, UNCHANGED stored, DOMAIN worker' = Pids,
         \A q \in Pids : worker'[q] = worker[q] \/ worker'[q] = NoWorker
  PROVE  Workers'
<1> SUFFICES ASSUME NEW q \in Pids, worker'[q] # NoWorker
             PROVE  Launched(worker[q])'
  BY DEF Workers
<1>1. worker'[q] = worker[q] /\ Launched(worker[q])
  BY DEF Workers
<1> QED
  BY <1>1 DEF Launched, ServedFor, ExportsOf

\* What is pinned for a request stays so as long as the request is served.
LEMMA PinningStands ==
  ASSUME Pinning, UNCHANGED <<req, resolved>>, pc' = "idle" => pc = "idle"
  PROVE  Pinning'
BY DEF Pinning

\* Nothing is pinned when a request is done.
LEMMA IdlePins ==
  ASSUME Pinning, resolved' = <<>>
  PROVE  Pinning'
BY DEF Pinning

\* The broker dies, or is done with a request.
LEMMA DieKeeps ==
  ASSUME IInv, Die, UNCHANGED lifecycleVars
  PROVE  IInv'
<1>1. pc' = "idle" /\ resolved' = <<>> /\ UNCHANGED <<stored>>
  BY DEF Die, Goto, lifecycleVars
<1>2. Workers'
  BY DEF Die, Workers
<1>3. Pinning'
  BY <1>1, IdlePins DEF IInv
<1> QED
  BY <1>1, <1>2, <1>3 DEF IInv, Granted, Admitted

\* A grant that is not within the ceiling is not resolved.
LEMMA RequestKeeps ==
  ASSUME IInv, NEW g \in stored, Request(g), UNCHANGED lifecycleVars
  PROVE  IInv'
<1>1. /\ req' = g /\ pc' \in {"resolve", "refuse"}
      /\ pc' = "resolve" => WithinCeiling(g)
      /\ pc = "idle"
      /\ UNCHANGED <<resolved, worker, stored>>
  BY DEF Request, Goto, lifecycleVars
<1>2. Workers'
  BY <1>1, WorkersStand DEF IInv
<1>3. resolved = <<>>
  BY <1>1 DEF IInv, Pinning
<1>4. Pinning'
  BY <1>1, <1>3, IdlePins DEF IInv
<1> QED
  BY <1>1, <1>2, <1>4 DEF IInv, Granted, Admitted

\* A source is pinned for an export that is signed like the planned one.
LEMMA ResolveNextKeeps ==
  ASSUME IInv, ResolveNext, UNCHANGED lifecycleVars
  PROVE  IInv'
<1>1. /\ UNCHANGED <<req, worker, stored>>
      /\ pc = "resolve" /\ pc' \in {"resolve", "refuse"}
  BY DEF ResolveNext, Goto, lifecycleVars
<1>2. Workers'
  BY <1>1, WorkersStand DEF IInv
<1>3. Granted' /\ Admitted'
  BY <1>1 DEF IInv, Granted, Admitted
<1>4. CASE UNCHANGED resolved
  BY <1>1, <1>2, <1>3, <1>4, PinningStands DEF IInv
<1>5. CASE resolved' # resolved
  <2> DEFINE e == BuildPlan(req).exports[Len(resolved) + 1]
             x == ExportOf(req, e)
             o == at[x.source]
  <2>1. Signed(req, e) /\ resolved' = Append(resolved, o)
    BY <1>5 DEF ResolveNext
  <2>2. resolved \in Seq(ToSet(resolved) \cup {o})
    BY SeqMonotonic DEF IInv, Pinning
  <2>3. /\ Len(resolved) \in Nat
        /\ DOMAIN resolved = 1..Len(resolved)
        /\ resolved' \in Seq(ToSet(resolved) \cup {o})
        /\ Len(resolved') = Len(resolved) + 1
    BY <2>1, <2>2, AppendProperties, LenProperties
  <2>4. DOMAIN resolved' = 1..(Len(resolved) + 1)
    BY <2>3, LenProperties
  <2>5. resolved' \in Seq(ToSet(resolved'))
    BY <2>3, <2>4, SeqDef DEF ToSet
  <2>6. \A i \in DOMAIN resolved' : Signed(req, BuildPlan(req).exports[i])
    BY <2>1, <2>3, <2>4 DEF IInv, Pinning
  <2>7. Pinning'
    BY <1>1, <2>5, <2>6 DEF Pinning
  <2> QED
    BY <1>2, <1>3, <2>7 DEF IInv
<1> QED
  BY <1>4, <1>5

\* The steps of the broker before a worker is born, and the broken ones after, that
\* change neither the request nor a worker.
LEMMA RequestStandsKeeps ==
  ASSUME IInv, UNCHANGED <<req, resolved, worker>>, UNCHANGED lifecycleVars,
         pc \notin {"idle", "refuse"}, pc' # "idle"
  PROVE  IInv'
<1>1. Workers'
  BY WorkersStand DEF IInv, lifecycleVars
<1>2. Pinning'
  BY PinningStands DEF IInv
<1> QED
  BY <1>1, <1>2 DEF IInv, Granted, Admitted, lifecycleVars

\* A step of a worker or of the file system.
LEMMA ElsewhereKeeps ==
  ASSUME IInv, UNCHANGED <<pc, req, resolved>>, UNCHANGED lifecycleVars, Workers'
  PROVE  IInv'
<1>1. Pinning'
  BY PinningStands DEF IInv
<1> QED
  BY <1>1 DEF IInv, Granted, Admitted, lifecycleVars

\* The worker gets the grant of the request and the plan that was made from it.
LEMMA ForkKeeps ==
  ASSUME IInv, NEW p \in Pids, Fork(p), UNCHANGED lifecycleVars
  PROVE  IInv'
<1> DEFINE w == [st |-> "born", n |-> count, grant |-> req, entries |-> SealedEntries,
                 table |-> Installed(Closed(fds, {File("readyRead", count),
                                                  File("continueWrite", count)}),
                                     Layout(count, Clones)),
                 tree |-> {}]
<1>1. /\ worker' = [worker EXCEPT ![p] = w]
      /\ pc = "fork" /\ pc' = "handshake"
      /\ UNCHANGED <<req, resolved, stored>>
  BY DEF Fork, Goto, lifecycleVars
<1>2. /\ DOMAIN w = WorkerFields
      /\ w.st = "born" /\ w.grant = req /\ w.entries = SealedEntries
  BY DEF WorkerFields
<1> HIDE DEF w
<1>3. req \in stored /\ WithinCeiling(req)
  BY <1>1 DEF IInv, Granted, Admitted
<1>4. \A i \in DOMAIN SealedEntries : Signed(req, SealedEntries[i].export)
  BY DEF IInv, Pinning, SealedEntries
<1>5. DOMAIN worker' = Pids /\ worker'[p] = w
      /\ \A q \in Pids \ {p} : worker'[q] = worker[q]
  BY <1>1 DEF IInv, Workers
<1>6. Launched(worker[p])'
  BY <1>1, <1>2, <1>3, <1>4, <1>5 DEF Launched
<1>7. ASSUME NEW q \in Pids \ {p}, worker'[q] # NoWorker
      PROVE  Launched(worker[q])'
  <2>1. worker'[q] = worker[q] /\ Launched(worker[q])
    BY <1>5, <1>7 DEF IInv, Workers
  <2> QED
    BY <1>1, <2>1 DEF Launched, ServedFor, ExportsOf
<1>8. Workers'
  BY <1>5, <1>6, <1>7 DEF Workers
<1>9. Pinning'
  BY <1>1, PinningStands DEF IInv
<1> QED
  BY <1>1, <1>3, <1>8, <1>9 DEF IInv, Granted, Admitted

\* The launch fails: the worker goes.
LEMMA LaunchFailsKeeps ==
  ASSUME IInv, NEW failed, LaunchFails(failed), pc \notin {"idle", "refuse"},
         UNCHANGED lifecycleVars
  PROVE  IInv'
<1>1. /\ worker' = [p \in Pids |-> IF p = pid THEN NoWorker ELSE worker[p]]
      /\ pc' = "refuse"
      /\ UNCHANGED <<req, resolved, stored>>
  BY DEF LaunchFails, Goto, lifecycleVars
<1>2. Workers'
  BY <1>1, WorkerGoes DEF IInv
<1>3. Pinning'
  BY <1>1, PinningStands DEF IInv
<1> QED
  BY <1>1, <1>2, <1>3 DEF IInv, Granted, Admitted

\* The worker continues, and the broker is done with the request.
LEMMA ContinueKeeps ==
  ASSUME IInv, Continue, UNCHANGED lifecycleVars
  PROVE  IInv'
<1>1. /\ worker' = [worker EXCEPT ![pid].st = "mapped"]
      /\ worker[pid] # NoWorker
      /\ pc' = "idle" /\ resolved' = <<>>
      /\ UNCHANGED stored
  BY DEF Continue, Goto, lifecycleVars, NoWorker, None
<1>2. Workers'
  BY <1>1, StatusChanges DEF IInv
<1>3. Pinning'
  BY <1>1, IdlePins DEF IInv
<1> QED
  BY <1>1, <1>2, <1>3 DEF IInv, Granted, Admitted

\* A refusal ends the request, or the broker.
LEMMA RefuseKeeps ==
  ASSUME IInv, Refuse, UNCHANGED lifecycleVars
  PROVE  IInv'
<1>1. CASE Die
  BY <1>1, DieKeeps
<1>2. CASE ~Die
  <2>1. /\ pc' = "idle" /\ resolved' = <<>>
        /\ UNCHANGED <<worker, stored>>
    BY <1>2 DEF Refuse, Goto, lifecycleVars
  <2>2. Workers'
    BY <2>1, WorkersStand DEF IInv
  <2>3. Pinning'
    BY <2>1, IdlePins DEF IInv
  <2> QED
    BY <2>1, <2>2, <2>3 DEF IInv, Granted, Admitted
<1> QED
  BY <1>1, <1>2

\* What a worker mounts has been checked against the plan, entry by entry.
LEMMA ServeKeeps ==
  ASSUME IInv, NEW p \in Pids, Serve(p), UNCHANGED lifecycleVars
  PROVE  IInv'
<1>1. /\ worker' = [worker EXCEPT ![p].st = "serving", ![p].tree = Tree(worker[p])]
      /\ worker[p] # NoWorker /\ Verified(worker[p])
      /\ UNCHANGED <<pc, req, resolved, stored>>
  BY DEF Serve, lifecycleVars, NoWorker, None
<1>2. Launched(worker[p]) /\ DOMAIN worker = Pids
  BY <1>1 DEF IInv, Workers
<1>3. worker'[p] = [worker[p] EXCEPT !.st = "serving", !.tree = Tree(worker[p])]
  BY <1>1, <1>2
<1>4. /\ DOMAIN worker' = Pids
      /\ \A q \in Pids \ {p} : worker'[q] = worker[q]
  BY <1>1, <1>2
<1>5. /\ DOMAIN worker'[p] = WorkerFields
      /\ worker'[p].grant = worker[p].grant
      /\ worker'[p].entries = worker[p].entries
      /\ worker'[p].tree = Tree(worker[p])
  BY <1>2, <1>3 DEF Launched, WorkerFields
<1>6. \A e \in Tree(worker[p]) : \E x \in ExportsOf(worker[p].grant) : ServedFor(e, x)
  <2> SUFFICES ASSUME NEW e \in Tree(worker[p])
               PROVE  \E x \in ExportsOf(worker[p].grant) : ServedFor(e, x)
    OBVIOUS
  <2>1. PICK i \in DOMAIN worker[p].entries :
          /\ e.target = worker[p].entries[i].export.target
          /\ e.access = worker[p].entries[i].export.access
          /\ e.obj = worker[p].table[SourceBase + worker[p].entries[i].export.slot].obj
    BY DEF Tree
  <2> DEFINE planned == worker[p].entries[i].export
  <2>2. Ino[e.obj] = planned.ino
    BY <1>1, <2>1 DEF Verified
  <2>3. PICK x \in ToSet(worker[p].grant.exports) : SameExport(planned, x)
    BY <1>2, <2>1 DEF Launched, Signed
  <2>4. x \in ExportsOf(worker[p].grant)
    BY <2>3 DEF ToSet, ExportsOf
  <2>5. planned.target = x.target /\ planned.access = x.access /\ planned.ino = x.ino
    BY <2>3 DEF SameExport, Planned
  <2> QED
    BY <2>1, <2>2, <2>4, <2>5 DEF ServedFor
<1>7. Launched(worker[p])'
  BY <1>1, <1>2, <1>5, <1>6 DEF Launched, ServedFor, ExportsOf
<1>8. ASSUME NEW q \in Pids \ {p}, worker'[q] # NoWorker
      PROVE  Launched(worker[q])'
  <2>1. worker'[q] = worker[q] /\ Launched(worker[q])
    BY <1>4, <1>8 DEF IInv, Workers
  <2>2. UNCHANGED stored
    BY <1>1
  <2> QED
    BY <2>1, <2>2 DEF Launched, ServedFor, ExportsOf
<1>9. Workers'
  BY <1>4, <1>7, <1>8 DEF Workers
<1> QED
  BY <1>1, <1>9, ElsewhereKeeps

\* The other steps of workers only change how far they are.
LEMMA WorkerKeeps ==
  ASSUME IInv, NEW p \in Pids, UNCHANGED lifecycleVars,
         WorkerReady(p) \/ RejectPlan(p) \/ WorkerDies(p)
  PROVE  IInv'
<1>1. PICK s \in {"ready", "rejected", "dead"} : worker' = [worker EXCEPT ![p].st = s]
  BY DEF WorkerReady, RejectPlan, WorkerDies
<1>2. worker[p] # NoWorker /\ UNCHANGED <<pc, req, resolved, stored>>
  BY DEF WorkerReady, RejectPlan, WorkerDies, NoWorker, None, lifecycleVars
<1>3. Workers'
  BY <1>1, <1>2, StatusChanges DEF IInv
<1> QED
  BY <1>2, <1>3, ElsewhereKeeps

\* A worker that has died is reaped.
LEMMA ReapKeeps ==
  ASSUME IInv, NEW p \in Pids, Reap(p) \/ ReapFails(p), UNCHANGED lifecycleVars
  PROVE  IInv'
<1>1. /\ worker' = [worker EXCEPT ![p] = NoWorker]
      /\ UNCHANGED <<pc, req, resolved, stored>>
  BY DEF Reap, ReapFails, lifecycleVars
<1>2. Workers'
  BY <1>1, WorkerGoes DEF IInv, Workers
<1> QED
  BY <1>1, <1>2, ElsewhereKeeps

\* Every step of the broker keeps the invariant ...
LEMMA BrokerKeeps ==
  ASSUME IInv, BrokerStep, UNCHANGED lifecycleVars
  PROVE  IInv'
<1>1. CASE ResolveNext
  BY <1>1, ResolveNextKeeps
<1>2. CASE Receive
  BY <1>2, RequestStandsKeeps DEF Receive, Goto
<1>3. CASE CloneMounts \/ CreateLogs \/ Prepare \/ MakePipes
  BY <1>3, RequestStandsKeeps DEF CloneMounts, CreateLogs, Prepare, MakePipes, Goto
<1>4. CASE MakeStaging
  BY <1>4, RequestStandsKeeps DEF MakeStaging, Goto
<1>5. ASSUME NEW p \in Pids, Fork(p)
      PROVE  IInv'
  BY <1>5, ForkKeeps
<1>6. CASE HandshakeFails \/ PrepareFails \/ MapFails
  BY <1>6, LaunchFailsKeeps DEF HandshakeFails, PrepareFails, MapFails
<1>7. CASE Continue
  BY <1>7, ContinueKeeps
<1>8. CASE Refuse
  BY <1>8, RefuseKeeps
<1> QED
  BY <1>1, <1>2, <1>3, <1>4, <1>5, <1>6, <1>7, <1>8 DEF BrokerStep

\* ... and so does every other step of a launch.
LEMMA EnvironmentKeeps ==
  ASSUME IInv, Environment, UNCHANGED lifecycleVars
  PROVE  IInv'
<1>1. CASE ChildFails
  BY <1>1, RequestStandsKeeps DEF ChildFails, Goto
<1>2. CASE KernelRefuses
  BY <1>2, DieKeeps DEF KernelRefuses
<1>3. ASSUME NEW p \in Pids,
             \/ WorkerReady(p) \/ Serve(p) \/ RejectPlan(p) \/ WorkerDies(p)
             \/ Reap(p) \/ ReapFails(p)
      PROVE  IInv'
  BY <1>3, WorkerKeeps, ServeKeeps, ReapKeeps
<1>4. CASE UNCHANGED <<pc, req, resolved, worker>>
  <2>1. Workers'
    BY <1>4, WorkersStand DEF IInv, lifecycleVars
  <2> QED
    BY <1>4, <2>1, ElsewhereKeeps
<1>5. ASSUME NEW s \in Sources, NEW t \in Sources, Rename(s, t)
      PROVE  UNCHANGED <<pc, req, resolved, worker>>
  BY <1>5 DEF Rename
<1>6. ASSUME NEW s \in Sources, NEW o \in Objects, Replace(s, o)
      PROVE  UNCHANGED <<pc, req, resolved, worker>>
  BY <1>6 DEF Replace
<1> QED
  BY <1>1, <1>2, <1>3, <1>4, <1>5, <1>6 DEF Environment

\* A grant that is stored while workers run takes nothing from them.
LEMMA LifecycleLeavesLaunches ==
  ASSUME IInv, stored \subseteq stored', UNCHANGED launchVars
  PROVE  IInv'
<1>1. UNCHANGED <<pc, req, resolved, worker>>
  BY DEF launchVars
<1>2. Workers'
  BY <1>1, WorkersStand DEF IInv
<1>3. Pinning'
  BY <1>1, PinningStands DEF IInv
<1> QED
  BY <1>1, <1>2, <1>3 DEF IInv, Granted, Admitted

\* The invariant holds at first ...
LEMMA InitIInv == Init => IInv
<1> SUFFICES ASSUME Init PROVE IInv
  OBVIOUS
<1>1. pc = "idle" /\ resolved = <<>> /\ worker = [p \in Pids |-> NoWorker]
  BY DEF Init, LaunchInit
<1>2. Pinning
  BY <1>1, EmptySeq DEF Pinning
<1> QED
  BY <1>1, <1>2 DEF IInv, Granted, Admitted, Workers

\* ... and every step keeps it.
LEMMA StepIInv == IInv /\ [Next]_vars => IInv'
<1> SUFFICES ASSUME IInv, [Next]_vars PROVE IInv'
  OBVIOUS
<1>1. CASE LifecycleNext /\ UNCHANGED launchVars
  <2>1. stored \subseteq stored'
    BY <1>1 DEF LifecycleNext, Create, Import, Renew, Store
  <2> QED
    BY <1>1, <2>1, LifecycleLeavesLaunches
<1>2. CASE BrokerStep /\ UNCHANGED lifecycleVars
  BY <1>2, BrokerKeeps
<1>3. CASE Environment /\ UNCHANGED lifecycleVars
  BY <1>3, EnvironmentKeeps
<1>4. ASSUME NEW g \in stored, Request(g), UNCHANGED lifecycleVars
      PROVE  IInv'
  BY <1>4, RequestKeeps
<1>5. CASE UNCHANGED vars
  BY <1>5, LifecycleLeavesLaunches DEF vars, lifecycleVars
<1> QED
  BY <1>1, <1>2, <1>3, <1>4, <1>5 DEF Next

\* IInv holds in every reachable state.
THEOREM AlwaysIInv == Spec => []IInv
BY InitIInv, StepIInv, PTL DEF Spec

\* A grant within the ceiling has its sources below an allowed root, with no more
\* than its access, and apart from every forbidden one.
LEMMA CeilingBounds ==
  ASSUME NEW g \in Proposals, WithinCeiling(g), NEW x \in ToSet(g.exports)
  PROVE  /\ \A f \in Forbidden : ~IsPrefix(x.source, f) /\ ~IsPrefix(f, x.source)
         /\ \E r \in Roots : IsPrefix(r.path, x.source) /\ (r.access = "ro" => x.access = "ro")
<1>1. PICK r \in Roots : IsPrefix(r.path, x.source) /\ (x.access = "rw" => r.access = "rw")
  BY DEF WithinCeiling, RootsOver
<1>2. x.access \in {"ro", "rw"}
  BY ProposalsAssumption DEF WellFormed, ToSet
<1>3. r.access = "ro" => x.access = "ro"
  BY <1>1, <1>2
<1>4. \A f \in Forbidden : ~IsPrefix(x.source, f) /\ ~IsPrefix(f, x.source)
  BY DEF WithinCeiling, ForbiddenSource, Overlap
<1> QED
  BY <1>1, <1>3, <1>4

\* A served target is of an export of the worker's grant, which somebody vouched for.
LEMMA IInvIsVouchedFor ==
  IInv /\ LifecycleTypeOK /\ NoSilentWidening => ServedIsVouchedFor
<1> SUFFICES ASSUME IInv, LifecycleTypeOK, NoSilentWidening PROVE ServedIsVouchedFor
  OBVIOUS
<1>1. ASSUME NEW p \in Serving
      PROVE  /\ worker[p].grant \in stored /\ WithinCeiling(worker[p].grant)
             /\ \A e \in worker[p].tree :
                  \E x \in ExportsOf(worker[p].grant) : ServedFor(e, x)
  <2>1. worker[p] # NoWorker /\ worker[p].st = "serving" /\ p \in Pids
    BY <1>1 DEF Serving, NoWorker, None
  <2> QED
    BY <2>1 DEF IInv, Workers, Launched
<1>2. ASSUME NEW p \in Serving
      PROVE  worker[p].grant \in Proposals /\ WithinCeiling(worker[p].grant)
  BY <1>1, <1>2 DEF LifecycleTypeOK
<1>3. ServedIsWithinCeiling
  BY <1>2, CeilingBounds DEF ServedIsWithinCeiling
<1>4. ASSUME NEW p \in Serving, NEW e \in worker[p].tree
      PROVE  \E a \in Vouched : \E x \in ExportsOf(a) : ServedFor(e, x)
  <2>1. PICK a \in Vouched : ExportsOf(worker[p].grant) = ExportsOf(a)
    BY <1>1, <1>4 DEF NoSilentWidening
  <2> QED
    BY <1>1, <1>4, <2>1
<1> QED
  BY <1>3, <1>4 DEF ServedIsVouchedFor, ServedFor

\* End to end: whatever is signed, renewed, presented, moved or replaced, and whatever
\* fails, every target a worker serves, its access and the inode behind it are those of
\* an export a person said yes to or of a grant brought in signed (renew(),
\* grant.import, _grant_export_for_plan_export(), the worker's verify_fd()), and its
\* source is below an allowed root of the ceiling and away from every forbidden one
\* (validate_grant_against_ceiling()).
THEOREM NothingElseIsServed == Spec => []ServedIsVouchedFor
BY AlwaysIInv, LifecycleIsTyped, NothingWidensSilently, IInvIsVouchedFor, PTL

-----------------------------------------------------------------------------
(* Counting                                                                *)

\* A set of numbers that is not empty has a least element.
LEMMA Least ==
  ASSUME NEW S, S \subseteq Nat, S # {}
  PROVE  \E x \in S : \A y \in S : ~(y < x)
<1>1. \E x \in S : \A y \in S : ~(<<y, x>> \in OpToRel(<, Nat))
  BY WFMin, NatLessThanWellFounded
<1> QED
  BY <1>1 DEF OpToRel

\* Counting up: what holds of 0 and goes from each number to the next holds up to m.
\* (A set stands for the statement: the provers take no operator for a parameter.)
LEMMA Counted ==
  ASSUME NEW m \in Nat, NEW S, 0 \in S, \A i \in 0..(m - 1) : i \in S => i + 1 \in S
  PROVE  \A i \in 0..m : i \in S
<1> DEFINE T == {i \in 0..m : i \notin S}
<1>1. SUFFICES ASSUME T # {} PROVE FALSE
  OBVIOUS
<1>2. PICK x \in T : \A y \in T : ~(y < x)
  <2>1. T \subseteq Nat
    OBVIOUS
  <2> HIDE DEF T
  <2> QED
    BY <1>1, <2>1, Least
<1>3. x # 0 /\ x - 1 \in 0..(m - 1)
  OBVIOUS
<1>4. x - 1 \in S
  BY <1>2, <1>3
<1> QED
  BY <1>3, <1>4

\* An interval is finite, of the length one expects.
LEMMA Interval ==
  ASSUME NEW a \in Nat, NEW c \in Nat
  PROVE  IsFiniteSet(a..(a + c)) /\ Cardinality(a..(a + c)) = c + 1
<1>1. a \in Int /\ a + c \in Int
  OBVIOUS
<1>2. /\ IsFiniteSet(a..(a + c))
      /\ Cardinality(a..(a + c)) = IF a > a + c THEN 0 ELSE (a + c) - a + 1
  BY <1>1, FS_Interval, Zenon
<1> QED
  BY <1>2

-----------------------------------------------------------------------------
(* Descriptor tables                                                       *)

\* A descriptor table: finitely many numbers are open.
Table(t) == DOMAIN t \subseteq Nat /\ IsFiniteSet(DOMAIN t)

\* The files a table holds.
Held(t) == {t[k] : k \in DOMAIN t}

\* The kernel finds a free number: more numbers are tried than are open.
LEMMA LowestIsFree ==
  ASSUME NEW t, Table(t), NEW floor \in Nat
  PROVE  /\ Lowest(t, floor) \in Nat /\ Lowest(t, floor) >= floor
         /\ Lowest(t, floor) \notin DOMAIN t
<1> DEFINE D == DOMAIN t
           c == Cardinality(D)
           F == {k \in floor..(floor + c) : k \notin D}
<1>1. c \in Nat
  BY FS_CardinalityType DEF Table
<1>2. F # {}
  <2>1. IsFiniteSet(floor..(floor + c)) /\ Cardinality(floor..(floor + c)) = c + 1
    <3> HIDE DEF c
    <3> QED
      BY <1>1, Interval
  <2>2. SUFFICES ASSUME floor..(floor + c) \subseteq D PROVE FALSE
    OBVIOUS
  <2>3. Cardinality(floor..(floor + c)) <= c
    <3>1. floor..(floor + c) \in SUBSET D
      BY <2>2
    <3> QED
      BY <3>1, FS_Subset DEF Table
  <2> HIDE DEF c
  <2> QED
    BY <1>1, <2>1, <2>3
<1>3. PICK k \in F : \A j \in F : ~(j < k)
  <2>1. F \subseteq Nat
    BY <1>1
  <2> HIDE DEF F
  <2> QED
    BY <1>2, <2>1, Least
<1>4. k \in floor..(floor + c) /\ k \notin D
  OBVIOUS
<1>5. \A j \in floor..(k - 1) : j \in D
  <2> HIDE DEF D, c
  <2> QED
    BY <1>1, <1>3, <1>4
<1>6. Lowest(t, floor) \in floor..(floor + c) /\ Lowest(t, floor) \notin D
  BY <1>4, <1>5 DEF Lowest
<1> HIDE DEF D, c
<1>7. D = DOMAIN t
  BY DEF D
<1> QED
  BY <1>1, <1>6, <1>7

\* dup2() to a free number adds the file.
LEMMA DupToHolds ==
  ASSUME NEW t, Table(t), NEW k \in Nat, NEW f
  PROVE  /\ Table(DupTo(t, k, f))
         /\ k \notin DOMAIN t => Held(DupTo(t, k, f)) = Held(t) \cup {f}
<1>1. DOMAIN DupTo(t, k, f) = DOMAIN t \cup {k}
  BY DEF DupTo
<1>2. IsFiniteSet(DOMAIN t \cup {k})
  BY FS_AddElement DEF Table
<1> QED
  BY <1>1, <1>2 DEF Table, Held, DupTo

\* So does opening one.
LEMMA OpenHolds ==
  ASSUME NEW t, Table(t), NEW f
  PROVE  Table(Open(t, f)) /\ Held(Open(t, f)) = Held(t) \cup {f}
BY LowestIsFree, DupToHolds DEF Open

\* Closing files takes all of their numbers.
LEMMA ClosedHolds ==
  ASSUME NEW t, Table(t), NEW F
  PROVE  Table(Closed(t, F)) /\ Held(Closed(t, F)) = Held(t) \ F
<1> DEFINE K == {k \in DOMAIN t : t[k] \in F}
<1>1. DOMAIN Closed(t, F) = DOMAIN t \ K
  BY DEF Closed, Close
<1>2. IsFiniteSet(DOMAIN t \ K)
  BY FS_Difference DEF Table
<1> QED
  BY <1>1, <1>2 DEF Table, Held, Closed, Close

\* A broker that has just started holds nothing but its own files.
LEMMA BaseHolds ==
  ASSUME NEW extra \in Extras
  PROVE  Table(Base(extra)) /\ Held(Base(extra)) = {File("own", 0)}
<1> DEFINE own == File("own", 0)
<1>1. DOMAIN Base(extra) = 0..3 \cup extra
  BY DEF Base
<1>2. extra \subseteq Nat /\ IsFiniteSet(extra)
  BY LaunchAssumption
<1>3. IsFiniteSet(0..3 \cup extra)
  <2>1. IsFiniteSet(0..3)
    <3>1. 0 \in Int /\ 3 \in Int
      OBVIOUS
    <3> QED
      BY <3>1, FS_Interval, Zenon
  <2> QED
    BY <1>2, <2>1, FS_Union
<1>4. \A k \in 0..3 \cup extra : Base(extra)[k] = own
  BY DEF Base
<1> HIDE DEF own
<1>5. Held(Base(extra)) = {own}
  <2>1. 0 \in DOMAIN Base(extra)
    BY <1>1
  <2>2. own \in Held(Base(extra))
    BY <1>1, <1>4, <2>1 DEF Held
  <2>3. \A x \in Held(Base(extra)) : x = own
    BY <1>1, <1>4 DEF Held
  <2> QED
    BY <2>2, <2>3
<1> QED
  BY <1>1, <1>2, <1>3, <1>5 DEF Table, own

\* OpenAll() is what its recursion says: there is the function of the tables after each
\* file, and OpenAll() is its last value.
LEMMA OpenedExists ==
  ASSUME NEW t, NEW s, Len(s) \in Nat
  PROVE  \E f : /\ f = [i \in 0..Len(s) |-> IF i = 0 THEN t ELSE Open(f[i - 1], s[i])]
                /\ OpenAll(t, s) = f[Len(s)]
<1> DEFINE start == t
           Is(f, m) == f = [i \in 0..m |-> IF i = 0 THEN start ELSE Open(f[i - 1], s[i])]
           S == {m \in 0..Len(s) : \E f : Is(f, m)}
<1>1. 0 \in S
  <2> DEFINE f == [i \in {0} |-> start]
  <2>1. 0..0 = {0}
    OBVIOUS
  <2> HIDE DEF start
  <2>2. Is(f, 0)
    BY <2>1
  <2> HIDE DEF f, Is
  <2> QED
    BY <2>2
<1>2. ASSUME NEW m \in 0..(Len(s) - 1), m \in S PROVE m + 1 \in S
  <2> HIDE DEF start
  <2>1. PICK f : Is(f, m)
    BY <1>2
  <2> DEFINE h == [i \in 0..(m + 1) |-> IF i = m + 1 THEN Open(f[m], s[m + 1]) ELSE f[i]]
  <2>2. Is(h, m + 1)
    <3>1. ASSUME NEW i \in 0..(m + 1)
          PROVE  h[i] = IF i = 0 THEN start ELSE Open(h[i - 1], s[i])
      <4>1. CASE i = m + 1
        <5>1. h[i] = Open(f[m], s[m + 1]) /\ h[i - 1] = f[m]
          BY <4>1
        <5> HIDE DEF h
        <5> QED
          BY <4>1, <5>1
      <4>2. CASE i # m + 1
        <5>1. h[i] = f[i] /\ (i # 0 => h[i - 1] = f[i - 1])
          BY <4>2
        <5>2. f[i] = IF i = 0 THEN start ELSE Open(f[i - 1], s[i])
          BY <2>1, <4>2
        <5> HIDE DEF h
        <5> QED
          BY <5>1, <5>2
      <4> QED
        BY <4>1, <4>2
    <3> QED
      BY <3>1
  <2> HIDE DEF h, Is
  <2>3. m + 1 \in 0..Len(s)
    OBVIOUS
  <2> QED
    BY <2>2, <2>3
<1>3. Len(s) \in S
  <2> HIDE DEF S
  <2>1. \A m \in 0..(Len(s) - 1) : m \in S => m + 1 \in S
    BY <1>2
  <2>2. \A m \in 0..Len(s) : m \in S
    BY <1>1, <2>1, Counted
  <2> QED
    BY <2>2
<1> DEFINE g[i \in 0..Len(s)] == IF i = 0 THEN start ELSE Open(g[i - 1], s[i])
<1>4. OpenAll(t, s) = g[Len(s)]
  BY DEF OpenAll
<1>5. Is(g, Len(s))
  <2> HIDE DEF start
  <2> QED
    BY <1>3
<1> HIDE DEF g
<1> QED
  BY <1>4, <1>5

\* Opening a sequence of files adds those files.
LEMMA OpenAllHolds ==
  ASSUME NEW t, Table(t), NEW s, NEW X, s \in Seq(X)
  PROVE  Table(OpenAll(t, s)) /\ Held(OpenAll(t, s)) = Held(t) \cup ToSet(s)
<1>1. Len(s) \in Nat /\ DOMAIN s = 1..Len(s)
  OBVIOUS
<1>2. PICK f : /\ f = [i \in 0..Len(s) |-> IF i = 0 THEN t ELSE Open(f[i - 1], s[i])]
               /\ OpenAll(t, s) = f[Len(s)]
  BY <1>1, OpenedExists
<1> DEFINE S == {m \in 0..Len(s) : Table(f[m]) /\ Held(f[m]) = Held(t) \cup {s[i] : i \in 1..m}}
<1>3. 0 \in S
  <2>1. f[0] = t
    BY <1>1, <1>2
  <2> QED
    BY <1>1, <2>1
<1>4. ASSUME NEW m \in 0..(Len(s) - 1), m \in S PROVE m + 1 \in S
  <2>1. f[m + 1] = Open(f[m], s[m + 1])
    BY <1>1, <1>2
  <2>2. Table(f[m]) /\ Held(f[m]) = Held(t) \cup {s[i] : i \in 1..m}
    BY <1>4
  <2>3. Table(f[m + 1]) /\ Held(f[m + 1]) = Held(f[m]) \cup {s[m + 1]}
    BY <2>1, <2>2, OpenHolds
  <2>4. {s[i] : i \in 1..(m + 1)} = {s[i] : i \in 1..m} \cup {s[m + 1]}
    OBVIOUS
  <2>5. m + 1 \in 0..Len(s)
    BY <1>1
  <2> QED
    BY <2>2, <2>3, <2>4, <2>5
<1>5. Len(s) \in S
  <2> HIDE DEF S
  <2>1. \A m \in 0..(Len(s) - 1) : m \in S => m + 1 \in S
    BY <1>4
  <2>2. \A m \in 0..Len(s) : m \in S
    BY <1>1, <1>3, <2>1, Counted
  <2> QED
    BY <1>1, <2>2
<1> QED
  BY <1>1, <1>2, <1>5 DEF ToSet

-----------------------------------------------------------------------------
(* The worker's descriptors                                                *)

\* Relocated() is what its recursion says.
LEMMA RelocatedExists ==
  ASSUME NEW t, NEW s, Len(s) \in Nat
  PROVE  \E f : /\ f = [i \in 0..Len(s) |->
                         IF i = 0
                         THEN [table |-> t, moves |-> <<>>,
                               destinations |-> {s[j][1] : j \in DOMAIN s}]
                         ELSE Relocate(f[i - 1], s[i])]
                /\ Relocated(t, s) = f[Len(s)]
<1> DEFINE start == [table |-> t, moves |-> <<>>, destinations |-> {s[j][1] : j \in DOMAIN s}]
           Is(f, m) == f = [i \in 0..m |-> IF i = 0 THEN start ELSE Relocate(f[i - 1], s[i])]
           S == {m \in 0..Len(s) : \E f : Is(f, m)}
<1>1. 0 \in S
  <2> DEFINE f == [i \in {0} |-> start]
  <2>1. 0..0 = {0}
    OBVIOUS
  <2> HIDE DEF start
  <2>2. Is(f, 0)
    BY <2>1
  <2> HIDE DEF f, Is
  <2> QED
    BY <2>2
<1>2. ASSUME NEW m \in 0..(Len(s) - 1), m \in S PROVE m + 1 \in S
  <2> HIDE DEF start
  <2>1. PICK f : Is(f, m)
    BY <1>2
  <2> DEFINE h == [i \in 0..(m + 1) |-> IF i = m + 1 THEN Relocate(f[m], s[m + 1]) ELSE f[i]]
  <2>2. Is(h, m + 1)
    <3>1. ASSUME NEW i \in 0..(m + 1)
          PROVE  h[i] = IF i = 0 THEN start ELSE Relocate(h[i - 1], s[i])
      <4>1. CASE i = m + 1
        <5>1. h[i] = Relocate(f[m], s[m + 1]) /\ h[i - 1] = f[m]
          BY <4>1
        <5> HIDE DEF h
        <5> QED
          BY <4>1, <5>1
      <4>2. CASE i # m + 1
        <5>1. h[i] = f[i] /\ (i # 0 => h[i - 1] = f[i - 1])
          BY <4>2
        <5>2. f[i] = IF i = 0 THEN start ELSE Relocate(f[i - 1], s[i])
          BY <2>1, <4>2
        <5> HIDE DEF h
        <5> QED
          BY <5>1, <5>2
      <4> QED
        BY <4>1, <4>2
    <3> QED
      BY <3>1
  <2> HIDE DEF h, Is
  <2>3. m + 1 \in 0..Len(s)
    OBVIOUS
  <2> QED
    BY <2>2, <2>3
<1>3. Len(s) \in S
  <2> HIDE DEF S
  <2>1. \A m \in 0..(Len(s) - 1) : m \in S => m + 1 \in S
    BY <1>2
  <2>2. \A m \in 0..Len(s) : m \in S
    BY <1>1, <2>1, Counted
  <2> QED
    BY <2>2
<1> DEFINE g[i \in 0..Len(s)] == IF i = 0 THEN start ELSE Relocate(g[i - 1], s[i])
<1>4. Relocated(t, s) = g[Len(s)]
  BY DEF Relocated
<1>5. Is(g, Len(s))
  <2> HIDE DEF start
  <2> QED
    BY <1>3
<1> HIDE DEF g
<1> QED
  BY <1>4, <1>5

\* Duplicated() is what its recursion says.
LEMMA DuplicatedExists ==
  ASSUME NEW t, NEW s, Len(s) \in Nat
  PROVE  \E f : /\ f = [i \in 0..Len(s) |->
                         IF i = 0 THEN t ELSE DupTo(f[i - 1], s[i][1], f[i - 1][s[i][2]])]
                /\ Duplicated(t, s) = f[Len(s)]
<1> DEFINE start == t
           Is(f, m) == f = [i \in 0..m |->
                         IF i = 0 THEN start
                                  ELSE DupTo(f[i - 1], s[i][1], f[i - 1][s[i][2]])]
           S == {m \in 0..Len(s) : \E f : Is(f, m)}
<1>1. 0 \in S
  <2> DEFINE f == [i \in {0} |-> start]
  <2>1. 0..0 = {0}
    OBVIOUS
  <2> HIDE DEF start
  <2>2. Is(f, 0)
    BY <2>1
  <2> HIDE DEF f, Is
  <2> QED
    BY <2>2
<1>2. ASSUME NEW m \in 0..(Len(s) - 1), m \in S PROVE m + 1 \in S
  <2> HIDE DEF start
  <2>1. PICK f : Is(f, m)
    BY <1>2
  <2> DEFINE h == [i \in 0..(m + 1) |->
                     IF i = m + 1 THEN DupTo(f[m], s[m + 1][1], f[m][s[m + 1][2]]) ELSE f[i]]
  <2>2. Is(h, m + 1)
    <3>1. ASSUME NEW i \in 0..(m + 1)
          PROVE  h[i] = IF i = 0 THEN start ELSE DupTo(h[i - 1], s[i][1], h[i - 1][s[i][2]])
      <4>1. CASE i = m + 1
        <5>1. h[i] = DupTo(f[m], s[m + 1][1], f[m][s[m + 1][2]]) /\ h[i - 1] = f[m]
          BY <4>1
        <5> HIDE DEF h
        <5> QED
          BY <4>1, <5>1
      <4>2. CASE i # m + 1
        <5>1. h[i] = f[i] /\ (i # 0 => h[i - 1] = f[i - 1])
          BY <4>2
        <5>2. f[i] = IF i = 0 THEN start ELSE DupTo(f[i - 1], s[i][1], f[i - 1][s[i][2]])
          BY <2>1, <4>2
        <5> HIDE DEF h
        <5> QED
          BY <5>1, <5>2
      <4> QED
        BY <4>1, <4>2
    <3> QED
      BY <3>1
  <2> HIDE DEF h, Is
  <2>3. m + 1 \in 0..Len(s)
    OBVIOUS
  <2> QED
    BY <2>2, <2>3
<1>3. Len(s) \in S
  <2> HIDE DEF S
  <2>1. \A m \in 0..(Len(s) - 1) : m \in S => m + 1 \in S
    BY <1>2
  <2>2. \A m \in 0..Len(s) : m \in S
    BY <1>1, <2>1, Counted
  <2> QED
    BY <2>2
<1> DEFINE g[i \in 0..Len(s)] ==
             IF i = 0 THEN start ELSE DupTo(g[i - 1], s[i][1], g[i - 1][s[i][2]])
<1>4. Duplicated(t, s) = g[Len(s)]
  BY DEF Duplicated
<1>5. Is(g, Len(s))
  <2> HIDE DEF start
  <2> QED
    BY <1>3
<1> HIDE DEF g
<1> QED
  BY <1>4, <1>5

\* U is T with one file found at k, away from the destinations D; others stay.
Moved(T, U, k, D, file) ==
  /\ Table(U) /\ k \in DOMAIN U /\ k \notin D /\ U[k] = file
  /\ \A j \in DOMAIN T : T[j] # file => j \in DOMAIN U /\ U[j] = T[j]

\* One turn of the first loop finds the file a number that is no destination.
LEMMA RelocateHolds ==
  ASSUME NEW T, Table(T), NEW M, NEW D, D \subseteq 0..74, NEW move, move[2] \in Held(T),
         NEW acc, acc = [table |-> T, moves |-> M, destinations |-> D]
  PROVE  \E U, k :
           /\ Relocate(acc, move)
                = [table |-> U, moves |-> Append(M, <<move[1], k>>), destinations |-> D]
           /\ Moved(T, U, k, D, move[2])
<1> DEFINE source == NumberOf(T, move[2])
           free == Lowest(T, RelocationFloor)
           V == DupTo(T, free, move[2])
           W == Close(V, {source})
<1>1. source \in DOMAIN T /\ T[source] = move[2]
  BY DEF NumberOf, Held
<1>2. free \in Nat /\ free >= 75 /\ free \notin DOMAIN T
  BY LowestIsFree DEF RelocationFloor
<1>3. Relocate(acc, move) =
        IF source \in D
        THEN [table |-> W, moves |-> Append(M, <<move[1], free>>), destinations |-> D]
        ELSE [table |-> T, moves |-> Append(M, <<move[1], source>>), destinations |-> D]
  <2>1. acc.table = T /\ acc.moves = M /\ acc.destinations = D
    OBVIOUS
  <2> QED
    BY <2>1 DEF Relocate
<1> HIDE DEF source, free
<1>4. CASE source \in D
  <2>1. /\ DOMAIN V = DOMAIN T \cup {free}
        /\ \A j \in DOMAIN V : V[j] = IF j = free THEN move[2] ELSE T[j]
    BY <1>1 DEF DupTo
  <2>2. DOMAIN W = DOMAIN V \ {source} /\ \A j \in DOMAIN W : W[j] = V[j]
    BY DEF Close
  <2>3. Table(V)
    BY <1>2, DupToHolds
  <2> HIDE DEF V, W
  <2>4. IsFiniteSet(DOMAIN W)
    BY <2>2, <2>3, FS_Difference DEF Table
  <2>5. Table(W)
    BY <2>2, <2>3, <2>4 DEF Table
  <2>6. free \in DOMAIN W \ D /\ W[free] = move[2]
    BY <1>1, <1>2, <2>1, <2>2
  <2>7. \A j \in DOMAIN T : T[j] # move[2] => j \in DOMAIN W /\ W[j] = T[j]
    BY <1>1, <1>2, <2>1, <2>2
  <2>8. Moved(T, W, free, D, move[2])
    BY <2>5, <2>6, <2>7 DEF Moved
  <2> QED
    BY <1>3, <1>4, <2>8
<1>5. CASE source \notin D
  <2>1. Moved(T, T, source, D, move[2])
    BY <1>1, <1>5 DEF Moved
  <2> QED
    BY <1>3, <1>5, <2>1
<1> QED
  BY <1>4, <1>5

\* A layout gives each destination one file that the table holds, and each file one
\* destination.
Orderly(s, t) ==
  /\ \A i \in DOMAIN s : s[i][1] \in 0..74 /\ s[i][2] \in Held(t)
  /\ \A i, j \in DOMAIN s : s[i][1] = s[j][1] \/ s[i][2] = s[j][2] => i = j

\* The moves take each file of the layout from a number that no move overwrites.
MovesAll(T, M, s) ==
  /\ M \in Seq(Nat \X Nat) /\ Len(M) = Len(s)
  /\ \A j \in DOMAIN s : /\ M[j][1] = s[j][1]
                         /\ M[j][2] \in DOMAIN T
                         /\ \A i \in DOMAIN s : M[j][2] # s[i][1]
                         /\ T[M[j][2]] = s[j][2]

\* The first loop makes such moves: a file that was moved away is not lost, and those
\* still to come are held.
LEMMA RelocatedHolds ==
  ASSUME NEW t, Table(t), NEW s, NEW X, s \in Seq(X), Orderly(s, t)
  PROVE  \E T, M :
           /\ Relocated(t, s)
                = [table |-> T, moves |-> M, destinations |-> {s[j][1] : j \in DOMAIN s}]
           /\ MovesAll(T, M, s)
<1> DEFINE D == {s[j][1] : j \in DOMAIN s}
           n == Len(s)
<1>1. n \in Nat /\ DOMAIN s = 1..n
  OBVIOUS
<1>2. PICK f : /\ f = [i \in 0..n |->
                         IF i = 0 THEN [table |-> t, moves |-> <<>>, destinations |-> D]
                                  ELSE Relocate(f[i - 1], s[i])]
               /\ Relocated(t, s) = f[n]
  BY <1>1, RelocatedExists
<1> DEFINE Good(m, T, M) ==
             /\ f[m] = [table |-> T, moves |-> M, destinations |-> D]
             /\ Table(T) /\ M \in Seq(Nat \X Nat) /\ Len(M) = m
             /\ \A j \in 1..m : /\ M[j][1] = s[j][1]
                                /\ M[j][2] \in DOMAIN T \ D
                                /\ T[M[j][2]] = s[j][2]
             /\ \A j \in (m + 1)..n : s[j][2] \in Held(T)
           S == {m \in 0..n : \E T, M : Good(m, T, M)}
<1>3. D \subseteq 0..74
  BY <1>1 DEF Orderly
<1>4. 0 \in S
  <2>1. f[0] = [table |-> t, moves |-> <<>>, destinations |-> D]
    BY <1>1, <1>2
  <2>2. Good(0, t, <<>>)
    BY <1>1, <2>1 DEF Orderly
  <2> HIDE DEF Good
  <2> QED
    BY <1>1, <2>2
<1>5. ASSUME NEW m \in 0..(n - 1), m \in S PROVE m + 1 \in S
  <2>1. PICK T, M : Good(m, T, M)
    BY <1>5
  <2> HIDE DEF D
  <2>2. f[m + 1] = Relocate(f[m], s[m + 1])
    BY <1>1, <1>2
  <2>3. s[m + 1][2] \in Held(T) /\ m + 1 \in DOMAIN s
    BY <1>1, <2>1
  <2>4. PICK U, k :
          /\ f[m + 1]
               = [table |-> U, moves |-> Append(M, <<s[m + 1][1], k>>), destinations |-> D]
          /\ Moved(T, U, k, D, s[m + 1][2])
    <3>1. f[m] = [table |-> T, moves |-> M, destinations |-> D]
      BY <2>1
    <3>2. Table(T)
      BY <2>1
    <3> HIDE DEF Good
    <3>3. \E U, k :
            /\ Relocate(f[m], s[m + 1])
                 = [table |-> U, moves |-> Append(M, <<s[m + 1][1], k>>), destinations |-> D]
            /\ Moved(T, U, k, D, s[m + 1][2])
      BY <1>3, <2>3, <3>1, <3>2, RelocateHolds, Zenon
    <3> QED
      BY <2>2, <3>3, Zenon
  <2> DEFINE N == Append(M, <<s[m + 1][1], k>>)
  <2>5. k \in Nat /\ s[m + 1][1] \in Nat
    <3>1. s[m + 1][1] \in 0..74
      BY <2>3 DEF Orderly
    <3>2. k \in Nat
      BY <2>4 DEF Table, Moved
    <3>3. \A z \in 0..74 : z \in Nat
      OBVIOUS
    <3> QED
      BY <3>1, <3>2, <3>3, Zenon
  <2>6. /\ N \in Seq(Nat \X Nat) /\ Len(N) = m + 1 /\ N[m + 1] = <<s[m + 1][1], k>>
        /\ \A j \in 1..m : N[j] = M[j]
    BY <2>1, <2>5
  <2>7. \A i, j \in 1..n : s[i][2] = s[j][2] => i = j
    BY <1>1 DEF Orderly
  <2>8. ASSUME NEW j \in 1..(m + 1)
        PROVE  N[j][1] = s[j][1] /\ N[j][2] \in DOMAIN U \ D /\ U[N[j][2]] = s[j][2]
    <3>1. CASE j = m + 1
      BY <2>4, <2>6, <3>1 DEF Moved
    <3>2. CASE j # m + 1
      <4>1. j \in 1..m /\ j \in 1..n /\ m + 1 \in 1..n
        BY <3>2
      <4>2. s[j][2] # s[m + 1][2]
        BY <2>7, <3>2, <4>1
      <4>3. N[j] = M[j] /\ M[j][1] = s[j][1] /\ M[j][2] \in DOMAIN T \ D /\ T[M[j][2]] = s[j][2]
        BY <2>1, <2>6, <4>1
      <4> HIDE DEF N
      <4> QED
        BY <2>4, <4>2, <4>3 DEF Moved
    <3> QED
      BY <3>1, <3>2
  <2>9. ASSUME NEW j \in (m + 2)..n PROVE s[j][2] \in Held(U)
    <3>1. j \in (m + 1)..n /\ j \in 1..n /\ m + 1 \in 1..n /\ j # m + 1
      OBVIOUS
    <3>2. s[j][2] # s[m + 1][2] /\ s[j][2] \in Held(T)
      BY <2>1, <2>7, <3>1
    <3> QED
      BY <2>4, <3>2 DEF Held, Moved
  <2>10. Good(m + 1, U, N)
    <3> HIDE DEF N
    <3> QED
      BY <2>4, <2>6, <2>8, <2>9 DEF N, Moved
  <2> HIDE DEF Good, N
  <2> QED
    BY <2>10
<1>6. n \in S
  <2> HIDE DEF S
  <2>1. \A m \in 0..(n - 1) : m \in S => m + 1 \in S
    BY <1>5
  <2>2. \A m \in 0..n : m \in S
    BY <1>1, <1>4, <2>1, Counted
  <2> QED
    BY <1>1, <2>2
<1>7. PICK T, M : Good(n, T, M)
  BY <1>6
<1>8. \A j \in DOMAIN s : s[j][1] \in D
  OBVIOUS
<1>9. \A j \in DOMAIN s : /\ M[j][1] = s[j][1] /\ M[j][2] \in DOMAIN T /\ T[M[j][2]] = s[j][2]
                          /\ \A i \in DOMAIN s : M[j][2] # s[i][1]
  <2> HIDE DEF D
  <2> QED
    BY <1>1, <1>7, <1>8
<1>10. Relocated(t, s) = [table |-> T, moves |-> M, destinations |-> D]
  BY <1>2, <1>7
<1>11. M \in Seq(Nat \X Nat) /\ Len(M) = Len(s)
  BY <1>7
<1>12. MovesAll(T, M, s)
  BY <1>9, <1>11 DEF MovesAll
<1> QED
  BY <1>10, <1>12

\* The second loop brings each file to its destination: what it overwrites it no longer
\* needs.
LEMMA DuplicatedHolds ==
  ASSUME NEW t, Table(t), NEW s, NEW X, s \in Seq(X), Orderly(s, t),
         NEW T, NEW M, MovesAll(T, M, s)
  PROVE  \A j \in DOMAIN s : Duplicated(T, M)[s[j][1]] = s[j][2]
<1> DEFINE n == Len(M)
<1>1. n \in Nat /\ DOMAIN s = 1..n
  BY DEF MovesAll
<1>2. PICK f : /\ f = [i \in 0..n |-> IF i = 0 THEN T
                                      ELSE DupTo(f[i - 1], M[i][1], f[i - 1][M[i][2]])]
               /\ Duplicated(T, M) = f[n]
  BY <1>1, DuplicatedExists
<1> DEFINE Unmoved(m) == \A j \in 1..n : M[j][2] \in DOMAIN f[m] /\ f[m][M[j][2]] = s[j][2]
           Arrived(m) == \A j \in 1..m : s[j][1] \in DOMAIN f[m] /\ f[m][s[j][1]] = s[j][2]
           S == {m \in 0..n : Unmoved(m) /\ Arrived(m)}
<1>3. 0 \in S
  <2>1. f[0] = T
    BY <1>1, <1>2
  <2>2. Unmoved(0)
    BY <1>1, <2>1 DEF MovesAll
  <2>3. Arrived(0)
    OBVIOUS
  <2> HIDE DEF Unmoved, Arrived
  <2> QED
    BY <1>1, <2>2, <2>3
<1>4. ASSUME NEW m \in 0..(n - 1), m \in S PROVE m + 1 \in S
  <2>1. m + 1 \in 1..n /\ m + 1 \in 0..n
    BY <1>1
  <2> DEFINE a == s[m + 1][1]
             b == M[m + 1][2]
             c == s[m + 1][2]
             g == f[m]
             h == f[m + 1]
  <2>2. h = DupTo(g, a, c)
    <3>1. f[m + 1] = DupTo(f[m], M[m + 1][1], f[m][M[m + 1][2]])
      BY <1>2, <2>1
    <3>2. M[m + 1][1] = s[m + 1][1]
      BY <1>1, <2>1 DEF MovesAll
    <3>3. f[m][M[m + 1][2]] = s[m + 1][2]
      BY <1>4, <2>1
    <3> QED
      BY <3>1, <3>2, <3>3
  <2>3. \A k \in DOMAIN g : k # a => k \in DOMAIN h /\ h[k] = g[k]
    <3> HIDE DEF a, c, g, h
    <3> QED
      BY <2>2 DEF DupTo
  <2>4. a \in DOMAIN h /\ h[a] = c
    <3> HIDE DEF a, c, g, h
    <3> QED
      BY <2>2 DEF DupTo
  <2>5. Unmoved(m + 1)
    <3>1. \A j \in 1..n : M[j][2] # a
      BY <1>1, <2>1 DEF MovesAll
    <3>2. \A j \in 1..n : M[j][2] \in DOMAIN g /\ g[M[j][2]] = s[j][2]
      BY <1>4
    <3> HIDE DEF a, g
    <3> QED
      BY <2>3, <3>1, <3>2
  <2>6. Arrived(m + 1)
    <3>1. \A j \in 1..m : s[j][1] # a
      BY <1>1, <2>1 DEF Orderly
    <3>2. \A j \in 1..m : s[j][1] \in DOMAIN g /\ g[s[j][1]] = s[j][2]
      BY <1>4
    <3>3. \A j \in 1..m : s[j][1] \in DOMAIN h /\ h[s[j][1]] = s[j][2]
      <4> HIDE DEF a, g, h
      <4> QED
        BY <2>3, <3>1, <3>2
    <3> QED
      BY <2>4, <3>3
  <2> HIDE DEF Unmoved, Arrived
  <2> QED
    BY <2>1, <2>5, <2>6
<1>5. n \in S
  <2> HIDE DEF S
  <2>1. \A m \in 0..(n - 1) : m \in S => m + 1 \in S
    BY <1>4
  <2>2. \A m \in 0..n : m \in S
    BY <1>1, <1>3, <2>1, Counted
  <2> QED
    BY <1>1, <2>2
<1> QED
  BY <1>1, <1>2, <1>5

\* _install_worker_fds() puts every file of the layout at its destination, whatever the
\* numbers the files had before.
LEMMA InstalledHolds ==
  ASSUME NEW t, Table(t), NEW s, NEW X, s \in Seq(X), Orderly(s, t)
  PROVE  \A j \in DOMAIN s : Installed(t, s)[s[j][1]] = s[j][2]
<1>1. PICK T, M :
                  /\ Relocated(t, s)
                       = [table |-> T, moves |-> M, destinations |-> {s[j][1] : j \in DOMAIN s}]
                  /\ MovesAll(T, M, s)
  BY RelocatedHolds
<1>2. \A j \in DOMAIN s : Duplicated(T, M)[s[j][1]] = s[j][2]
  BY <1>1, DuplicatedHolds
<1>3. /\ Relocated(t, s).table = T /\ Relocated(t, s).moves = M
      /\ Relocated(t, s).destinations = {s[j][1] : j \in DOMAIN s}
  BY <1>1
<1> DEFINE final == Duplicated(T, M)
<1>4. Installed(t, s) = [k \in 0..2 \cup {s[j][1] : j \in DOMAIN s} |-> final[k]]
  BY <1>3 DEF Installed
<1> HIDE DEF final
<1>5. \A j \in DOMAIN s : Installed(t, s)[s[j][1]] = final[s[j][1]]
  BY <1>4
<1> QED
  BY <1>2, <1>5 DEF final

-----------------------------------------------------------------------------
(* The planner                                                             *)

\* A plan has a slot for each entry, in order, and no target twice.
WellPlanned(plan) ==
  /\ plan \in Seq(ToSet(plan))
  /\ \A i \in DOMAIN plan : plan[i].slot = i - 1
  /\ \A i, j \in DOMAIN plan : plan[i].target = plan[j].target => i = j

\* PlanFrom() is what its recursion says.
LEMMA PlanExists ==
  ASSUME NEW s, Len(s) \in Nat
  PROVE  \E f : /\ f = [i \in 0..Len(s) |->
                         IF i = 0 THEN [ok |-> TRUE, exports |-> <<>>]
                                  ELSE PlanNext(f[i - 1], s[i])]
                /\ PlanFrom(s) = f[Len(s)]
<1> DEFINE start == [ok |-> TRUE, exports |-> <<>>]
           Is(f, m) == f = [i \in 0..m |-> IF i = 0 THEN start ELSE PlanNext(f[i - 1], s[i])]
           S == {m \in 0..Len(s) : \E f : Is(f, m)}
<1>1. 0 \in S
  <2> DEFINE f == [i \in {0} |-> start]
  <2>1. 0..0 = {0}
    OBVIOUS
  <2> HIDE DEF start
  <2>2. Is(f, 0)
    BY <2>1
  <2> HIDE DEF f, Is
  <2> QED
    BY <2>2
<1>2. ASSUME NEW m \in 0..(Len(s) - 1), m \in S PROVE m + 1 \in S
  <2> HIDE DEF start
  <2>1. PICK f : Is(f, m)
    BY <1>2
  <2> DEFINE h == [i \in 0..(m + 1) |-> IF i = m + 1 THEN PlanNext(f[m], s[m + 1]) ELSE f[i]]
  <2>2. Is(h, m + 1)
    <3>1. ASSUME NEW i \in 0..(m + 1)
          PROVE  h[i] = IF i = 0 THEN start ELSE PlanNext(h[i - 1], s[i])
      <4>1. CASE i = m + 1
        <5>1. h[i] = PlanNext(f[m], s[m + 1]) /\ h[i - 1] = f[m]
          BY <4>1
        <5> HIDE DEF h
        <5> QED
          BY <4>1, <5>1
      <4>2. CASE i # m + 1
        <5>1. h[i] = f[i] /\ (i # 0 => h[i - 1] = f[i - 1])
          BY <4>2
        <5>2. f[i] = IF i = 0 THEN start ELSE PlanNext(f[i - 1], s[i])
          BY <2>1, <4>2
        <5> HIDE DEF h
        <5> QED
          BY <5>1, <5>2
      <4> QED
        BY <4>1, <4>2
    <3> QED
      BY <3>1
  <2> HIDE DEF h, Is
  <2>3. m + 1 \in 0..Len(s)
    OBVIOUS
  <2> QED
    BY <2>2, <2>3
<1>3. Len(s) \in S
  <2> HIDE DEF S
  <2>1. \A m \in 0..(Len(s) - 1) : m \in S => m + 1 \in S
    BY <1>2
  <2>2. \A m \in 0..Len(s) : m \in S
    BY <1>1, <2>1, Counted
  <2> QED
    BY <2>2
<1> DEFINE g[i \in 0..Len(s)] == IF i = 0 THEN start ELSE PlanNext(g[i - 1], s[i])
<1>4. PlanFrom(s) = g[Len(s)]
  BY DEF PlanFrom
<1>5. Is(g, Len(s))
  <2> HIDE DEF start
  <2> QED
    BY <1>3
<1> HIDE DEF g
<1> QED
  BY <1>4, <1>5

\* A turn of the planner's loop adds no target a second time.
LEMMA PlanNextHolds ==
  ASSUME NEW plan, WellPlanned(plan.exports), NEW x
  PROVE  WellPlanned(PlanNext(plan, x).exports)
<1> DEFINE s == plan.exports
           e == Planned(x, Len(s))
<1>1. WellPlanned(NoPlan.exports)
  BY DEF WellPlanned, NoPlan, ToSet
<1>2. ASSUME \A d \in ToSet(s) : d.target # x.target
      PROVE  WellPlanned(Append(s, e))
  <2>1. s \in Seq(ToSet(s)) /\ DOMAIN s = 1..Len(s) /\ Len(s) \in Nat
    BY DEF WellPlanned
  <2>2. e.target = x.target /\ e.slot = Len(s)
    BY DEF Planned
  <2> DEFINE t == Append(s, e)
  <2>3. /\ DOMAIN t = 1..(Len(s) + 1) /\ t[Len(s) + 1] = e
        /\ \A i \in 1..Len(s) : t[i] = s[i]
    BY <2>1
  <2> HIDE DEF e, t
  <2>4. t \in Seq(ToSet(t))
    <3>1. s \in Seq(ToSet(t)) /\ e \in ToSet(t)
      <4>1. ToSet(s) \subseteq ToSet(t) /\ e \in ToSet(t)
        BY <2>1, <2>3 DEF ToSet
      <4>2. \A i \in 1..Len(s) : s[i] \in ToSet(t)
        BY <2>1, <4>1 DEF ToSet
      <4> QED
        BY <2>1, <4>1, <4>2
    <3> QED
      BY <3>1 DEF t
  <2>5. \A i \in 1..Len(s) : s[i].target # e.target
    BY <1>2, <2>1, <2>2 DEF ToSet
  <2>6. ASSUME NEW i \in DOMAIN t PROVE t[i].slot = i - 1
    BY <2>1, <2>2, <2>3 DEF WellPlanned
  <2>7. ASSUME NEW i \in DOMAIN t, NEW j \in DOMAIN t, t[i].target = t[j].target PROVE i = j
    <3>1. CASE i \in 1..Len(s) /\ j \in 1..Len(s)
      BY <2>1, <2>3, <2>7, <3>1 DEF WellPlanned
    <3>2. CASE i \in 1..Len(s) /\ j = Len(s) + 1
      BY <2>3, <2>5, <2>7, <3>2
    <3>3. CASE j \in 1..Len(s) /\ i = Len(s) + 1
      BY <2>3, <2>5, <2>7, <3>3
    <3> QED
      BY <2>1, <2>3, <3>1, <3>2, <3>3
  <2> QED
    BY <2>4, <2>6, <2>7 DEF WellPlanned, t
<1> DEFINE after == [plan EXCEPT !.exports = Append(s, e)]
<1>3. \/ PlanNext(plan, x) = NoPlan
      \/ PlanNext(plan, x) = plan
      \/ PlanNext(plan, x) = after /\ {d \in ToSet(s) : d.target = x.target} = {}
  BY DEF PlanNext
<1>4. CASE PlanNext(plan, x) = after /\ {d \in ToSet(s) : d.target = x.target} = {}
  <2>1. WellPlanned(Append(s, e))
    BY <1>2, <1>4
  <2>2. after.exports = Append(s, e)
    OBVIOUS
  <2> QED
    BY <1>4, <2>1, <2>2
<1> QED
  BY <1>1, <1>3, <1>4

\* So the planner never plans a target twice.
LEMMA PlanFromHolds ==
  ASSUME NEW s, Len(s) \in Nat
  PROVE  WellPlanned(PlanFrom(s).exports)
<1> DEFINE start == [ok |-> TRUE, exports |-> <<>>]
<1>1. PICK f : /\ f = [i \in 0..Len(s) |-> IF i = 0 THEN start ELSE PlanNext(f[i - 1], s[i])]
               /\ PlanFrom(s) = f[Len(s)]
  BY PlanExists
<1> DEFINE S == {m \in 0..Len(s) : WellPlanned(f[m].exports)}
<1>2. 0 \in S
  <2>1. WellPlanned(<<>>)
    BY DEF WellPlanned, ToSet
  <2>2. start.exports = <<>>
    OBVIOUS
  <2> HIDE DEF start
  <2>3. f[0] = start
    BY <1>1
  <2> QED
    BY <2>1, <2>2, <2>3
<1>3. ASSUME NEW m \in 0..(Len(s) - 1), m \in S PROVE m + 1 \in S
  <2>1. m + 1 \in 0..Len(s) /\ m + 1 # 0 /\ (m + 1) - 1 = m
    OBVIOUS
  <2>2. f[m + 1] = PlanNext(f[m], s[m + 1])
    <3> HIDE DEF start
    <3> QED
      BY <1>1, <2>1
  <2> QED
    BY <1>3, <2>1, <2>2, PlanNextHolds
<1>4. Len(s) \in S
  <2> HIDE DEF S
  <2>1. \A m \in 0..(Len(s) - 1) : m \in S => m + 1 \in S
    BY <1>3
  <2>2. \A m \in 0..Len(s) : m \in S
    BY <1>2, <2>1, Counted
  <2> QED
    BY <2>2
<1> QED
  BY <1>1, <1>4

\* Nor does the plan of a grant have a target twice.
LEMMA BuildPlanHolds ==
  ASSUME NEW g, g.exports \in Seq(ToSet(g.exports))
  PROVE  WellPlanned(BuildPlan(g).exports)
<1>1. Len(Candidates(g)) \in Nat
  <2>1. Len(g.exports) \in Nat /\ DOMAIN g.exports = 1..Len(g.exports)
    OBVIOUS
  <2>2. DOMAIN Candidates(g) = 1..Len(g.exports)
    BY <2>1 DEF Candidates, InOrder
  <2> QED
    BY <2>1, <2>2 DEF Candidates, InOrder
<1> QED
  BY <1>1, PlanFromHolds DEF BuildPlan

\* A plan as long as the grant's exports, each of its entries signed, has an entry for
\* every export: no two entries have one target.
LEMMA PlanCovers ==
  ASSUME NEW g, g.exports \in Seq(ToSet(g.exports)), NEW plan, WellPlanned(plan),
         Len(plan) = Len(g.exports), \A i \in DOMAIN plan : Signed(g, plan[i])
  PROVE  \A x \in ToSet(g.exports) : \E i \in DOMAIN plan : SameExport(plan[i], x)
<1> DEFINE n == Len(plan)
           f == [i \in 1..n |-> CHOOSE k \in 1..n : SameExport(plan[i], g.exports[k])]
<1>1. n \in Nat /\ DOMAIN plan = 1..n /\ DOMAIN g.exports = 1..n
  BY LenProperties DEF WellPlanned
<1>2. ASSUME NEW i \in 1..n
      PROVE  f[i] \in 1..n /\ SameExport(plan[i], g.exports[f[i]])
  <2>1. \E k \in 1..n : SameExport(plan[i], g.exports[k])
    BY <1>1 DEF Signed, ToSet
  <2> QED
    BY <2>1
<1>3. f \in [1..n -> 1..n]
  BY <1>2
<1> HIDE DEF f, n
<1>4. ASSUME NEW i \in 1..n, NEW j \in 1..n, f[i] = f[j]
      PROVE  i = j
  <2>1. \A e, x : SameExport(e, x) => e.target = x.target
    BY DEF SameExport, Planned
  <2>2. plan[i].target = g.exports[f[i]].target /\ plan[j].target = g.exports[f[j]].target
    BY <1>2, <2>1
  <2> QED
    BY <1>1, <1>4, <2>2 DEF WellPlanned
<1>5. f \in Injection(1..n, 1..n)
  BY <1>3, <1>4 DEF Injection, IsInjective
<1>6. f \in Surjection(1..n, 1..n)
  <2>1. IsFiniteSet(1..n)
    BY <1>1, FS_Interval
  <2> QED
    BY <1>5, <2>1, FS_Injection
<1>7. ASSUME NEW k \in 1..n
      PROVE  \E i \in 1..n : f[i] = k
  BY <1>6 DEF Surjection
<1> QED
  BY <1>1, <1>2, <1>7 DEF ToSet

-----------------------------------------------------------------------------
(* What the broker and its workers hold                                    *)

\* What the broker keeps between requests: its own files and the read end of the log of
\* each worker.
Kept ==
  {File("own", 0)} \cup {LogRead(worker[p].n) : p \in {q \in Pids : worker[q] # NoWorker}}
\* The descriptors the resolving child has sent.
Raws == {Pinned("raw", count, i, resolved[i]) : i \in DOMAIN resolved}
\* What the request being served has open, at each step.
Begun == {Connection(count), Stream(count)}
Cloned == Begun \cup ToSet(Clones)
Logged == Cloned \cup {LogRead(count), LogWrite(count)}
Prepared == Logged \cup {Runtime(count), SealedPlan(count)}
Piped == Prepared \cup ToSet(HandshakePipes)
Handed == {Connection(count)} \cup LaunchFiles

\* What a request may have open where the broker is: when it refuses, the stream is
\* closed if the executor closed it.
Carried ==
  CASE pc = "idle" -> {{}}
    [] pc = "resolve" -> {Begun}
    [] pc = "clone" -> {Begun \cup Raws}
    [] pc = "logs" -> {Cloned}
    [] pc = "prepare" -> {Logged}
    [] pc = "pipes" -> {Prepared}
    [] pc = "fork" -> {Piped}
    [] pc \in {"handshake", "map"} -> {Handed}
    [] pc = "refuse" -> {Begun, {Connection(count)}}

\* The broker holds what it keeps and what the request has open, and nothing else.
Holding == \E X \in Carried : Held(fds) = Kept \cup X

\* Where the broker can be.
Steps == {"idle", "resolve", "clone", "logs", "prepare", "pipes", "fork", "handshake",
          "map", "refuse"}

\* The worker is the one being launched.
Launching(p) == p = pid /\ pc \in {"handshake", "map"}

\* Workers have the numbers of different requests, past ones unless one is being launched.
Numbered ==
  /\ count \in Nat /\ pc \in Steps
  /\ pc \notin {"handshake", "map", "refuse"} => pid = None
  /\ \A p \in Pids : worker[p] # NoWorker =>
       /\ worker[p].n \in 0..count
       /\ worker[p].n = count => pc = "idle" \/ Launching(p)
       /\ \A q \in Pids : worker[q] # NoWorker /\ worker[q].n = worker[p].n => q = p
  /\ pc \in {"handshake", "map"} =>
       pid \in Pids /\ worker[pid] # NoWorker /\ worker[pid].n = count

\* Once the descriptors have been received there is one for each entry of the plan and
\* each export of the grant.
Sized ==
  /\ pc \in {"clone", "logs", "prepare", "pipes", "fork"} =>
       Len(resolved) = Len(BuildPlan(req).exports) /\ Len(resolved) = Len(req.exports)
  /\ pc \in {"pipes", "fork"} => Sealable

\* What the plan and the grant say of a target.
Entry(x) == [target |-> x.target, access |-> x.access, ino |-> x.ino, kind |-> x.kind]

\* A worker has its channels at their numbers and an entry for every export of its grant;
\* and when it serves, what it shows is what the grant says.
Equipped(w) ==
  /\ w.table[6] = Stream(w.n) /\ w.table[7] = LogWrite(w.n)
  /\ w.table[RuntimeNumber] = Runtime(w.n)
  /\ \A x \in ToSet(w.grant.exports) :
       \E i \in DOMAIN w.entries : SameExport(w.entries[i].export, x)
  /\ w.st = "serving" =>
       {[target |-> e.target, access |-> e.access, ino |-> Ino[e.obj],
         kind |-> Kind[e.obj]] : e \in w.tree}
         = {Entry(x) : x \in ToSet(w.grant.exports)}

\* Every worker is equipped.
Equipment == \A p \in Pids : worker[p] # NoWorker => Equipped(worker[p])

\* The inductive invariant of a launch.
LaunchInv == Table(fds) /\ Numbered /\ Holding /\ Sized /\ Equipment

\* The clones of the request are one file for each place.
LEMMA ClonesAre ==
  ASSUME Pinning
  PROVE  /\ Len(resolved) \in Nat /\ DOMAIN Clones = 1..Len(resolved)
         /\ Clones \in Seq(ToSet(Clones)) /\ Len(Clones) = Len(resolved)
         /\ ToSet(Clones) = {Pinned("clone", count, i, resolved[i]) : i \in DOMAIN resolved}
         /\ \A i \in 1..Len(resolved) : Clones[i] = Pinned("clone", count, i, resolved[i])
<1>1. Len(resolved) \in Nat /\ DOMAIN resolved = 1..Len(resolved)
  BY LenProperties DEF Pinning
<1>2. Clones = [i \in 1..Len(resolved) |-> Pinned("clone", count, i, resolved[i])]
  BY <1>1 DEF Clones
<1>3. ToSet(Clones) = {Pinned("clone", count, i, resolved[i]) : i \in DOMAIN resolved}
  BY <1>1, <1>2 DEF ToSet
<1>4. Clones \in Seq(ToSet(Clones)) /\ Len(Clones) = Len(resolved)
  BY <1>1, <1>2, <1>3
<1> QED
  BY <1>1, <1>2, <1>3, <1>4

\* c is a followed by b.
Joined(c, a, b) ==
  /\ DOMAIN c = 1..(Len(a) + Len(b)) /\ c \in Seq(ToSet(c))
  /\ \A i \in 1..Len(a) : c[i] = a[i]
  /\ \A i \in 1..Len(b) : c[Len(a) + i] = b[i]

\* Concatenation joins.
LEMMA ConcatJoins ==
  ASSUME NEW X, NEW a \in Seq(X), NEW Y, NEW b \in Seq(Y)
  PROVE  Joined(a \o b, a, b)
<1>1. a \in Seq(X \cup Y) /\ b \in Seq(X \cup Y)
  BY SeqMonotonic
<1> DEFINE c == a \o b
<1>2. /\ c \in Seq(X \cup Y) /\ Len(c) = Len(a) + Len(b)
      /\ \A i \in 1..Len(a) : c[i] = a[i]
      /\ \A i \in 1..Len(b) : c[Len(a) + i] = b[i]
  BY <1>1
<1> HIDE DEF c
<1>3. DOMAIN c = 1..Len(c)
  BY <1>2
<1>4. c \in Seq(ToSet(c))
  <2>1. PICK n \in Nat : c \in [1..n -> X \cup Y]
    BY <1>2, SeqDef
  <2>2. c \in [1..n -> ToSet(c)]
    BY <2>1 DEF ToSet
  <2> QED
    BY <2>2, SeqDef
<1>5. Joined(c, a, b)
  BY <1>2, <1>3, <1>4 DEF Joined
<1> QED
  BY <1>5 DEF c

\* The layout is orderly: the destinations are apart as long as there are no more sources
\* than the layout has room for, and the files are.
LEMMA LayoutHolds ==
  ASSUME Pinning, Sealable, NEW t,
         Piped \ {File("readyRead", count), File("continueWrite", count)} \subseteq Held(t)
  PROVE  LET s == Layout(count, Clones)
         IN /\ s \in Seq(ToSet(s)) /\ Orderly(s, t) /\ {4, 5, 6} \subseteq DOMAIN s
            /\ s[4] = <<6, Stream(count)>> /\ s[5] = <<7, LogWrite(count)>>
            /\ s[6] = <<RuntimeNumber, Runtime(count)>>
            /\ \A i \in DOMAIN resolved :
                 /\ 6 + i \in DOMAIN s
                 /\ s[6 + i] = <<9 + i, Pinned("clone", count, i, resolved[i])>>
<1> DEFINE n == Len(resolved)
           head == << <<3, ReadyWrite(count)>>, <<4, ContinueRead(count)>>,
                      <<5, SealedPlan(count)>>, <<6, Stream(count)>>,
                      <<7, LogWrite(count)>>, <<74, Runtime(count)>> >>
           tail == [i \in DOMAIN Clones |-> <<10 + i - 1, Clones[i]>>]
           s == Layout(count, Clones)
<1>1. n \in 1..64 /\ DOMAIN Clones = 1..n
  <2>1. DOMAIN Clones = 1..n
    BY ClonesAre
  <2>2. n \in 1..(74 - 10)
    BY DEF Sealable, SourceLimit, SourceBase
  <2>3. 74 - 10 = 64
    OBVIOUS
  <2> HIDE DEF n
  <2> QED
    BY <2>1, <2>2, <2>3
<1>2. s = head \o tail
  BY DEF Layout, RuntimeNumber, SourceBase
<1>3. /\ DOMAIN s = 1..(6 + n) /\ s \in Seq(ToSet(s))
      /\ \A j \in 1..6 : s[j] = head[j]
      /\ \A i \in 1..n : s[6 + i] = <<9 + i, Clones[i]>>
  <2> DEFINE Y == {<<10 + i - 1, Clones[i]>> : i \in DOMAIN Clones}
             Z == {head[i] : i \in 1..6}
  <2>1. tail \in Seq(Y) /\ Len(tail) = n
    BY <1>1
  <2>2. head \in Seq(Z) /\ Len(head) = 6
    OBVIOUS
  <2>3. \A i \in 1..n : tail[i] = <<9 + i, Clones[i]>>
    BY <1>1
  <2> HIDE DEF n, Y, Z, head, tail, s
  <2> HIDE DEF Layout
  <2>4. Joined(s, head, tail)
    <3>1. Joined(head \o tail, head, tail)
      BY <2>1, <2>2, ConcatJoins, Zenon
    <3> QED
      BY <1>2, <3>1
  <2> QED
    BY <2>1, <2>2, <2>3, <2>4 DEF Joined
<1>4. /\ s[1] = <<3, ReadyWrite(count)>> /\ s[2] = <<4, ContinueRead(count)>>
      /\ s[3] = <<5, SealedPlan(count)>> /\ s[4] = <<6, Stream(count)>>
      /\ s[5] = <<7, LogWrite(count)>> /\ s[6] = <<74, Runtime(count)>>
  <2> HIDE DEF s, n
  <2> QED
    BY <1>3
<1>5. \A i \in 1..n : s[6 + i] = <<9 + i, Pinned("clone", count, i, resolved[i])>>
  BY <1>3, ClonesAre
<1> DEFINE Fixed == 1..6
           Back == {6 + i : i \in 1..n}
<1>6. \A j \in DOMAIN s : j \in Fixed \/ \E i \in 1..n : j = 6 + i
  <2> SUFFICES ASSUME NEW j \in 1..(6 + n) PROVE j \in 1..6 \/ \E i \in 1..n : j = 6 + i
    BY <1>3
  <2>1. CASE j > 6
    <3>1. j - 6 \in 1..n /\ j = 6 + (j - 6)
      BY <1>1, <2>1
    <3> QED
      BY <3>1
  <2> QED
    BY <1>1, <2>1
<1> HIDE DEF s, n, Fixed
<1>7. ASSUME NEW j \in DOMAIN s
      PROVE  s[j][1] \in 0..74 /\ s[j][2] \in Held(t)
  <2>1. CASE j \in Fixed
    <3>1. j \in {1, 2, 3, 4, 5, 6}
      BY <2>1 DEF Fixed
    <3>2. s[j][1] \in {3, 4, 5, 6, 7, 74}
          /\ s[j][2] \in {ReadyWrite(count), ContinueRead(count), SealedPlan(count),
                          Stream(count), LogWrite(count), Runtime(count)}
      BY <1>4, <3>1
    <3>3. {ReadyWrite(count), ContinueRead(count), SealedPlan(count),
           Stream(count), LogWrite(count), Runtime(count)} \subseteq Held(t)
      BY DEF Piped, Prepared, Logged, Cloned, Begun, HandshakePipes, ToSet,
         ReadyWrite, ContinueRead, SealedPlan, Stream, LogWrite, Runtime, File
    <3> QED
      BY <3>2, <3>3
  <2>2. ASSUME NEW i \in 1..n, j = 6 + i
        PROVE  s[j][1] \in 0..74 /\ s[j][2] \in Held(t)
    <3>1. s[j] = <<9 + i, Pinned("clone", count, i, resolved[i])>>
      BY <1>5, <2>2
    <3>2. 9 + i \in 0..74
      BY <1>1
    <3>3. Pinned("clone", count, i, resolved[i]) \in ToSet(Clones)
      BY ClonesAre, <1>1 DEF ToSet
    <3>4. Pinned("clone", count, i, resolved[i]) \in Held(t)
      BY <3>3 DEF Piped, Prepared, Logged, Cloned, File, Pinned
    <3> QED
      BY <3>1, <3>2, <3>4
  <2> QED
    BY <1>6, <2>1, <2>2
<1>8. ASSUME NEW i \in DOMAIN s, NEW j \in DOMAIN s,
             s[i][1] = s[j][1] \/ s[i][2] = s[j][2]
      PROVE  i = j
  <2>1. CASE i \in Fixed /\ j \in Fixed
    <3>1. i \in {1, 2, 3, 4, 5, 6} /\ j \in {1, 2, 3, 4, 5, 6}
      BY <2>1 DEF Fixed
    <3> QED
      BY <1>4, <1>8, <3>1 DEF ReadyWrite, ContinueRead, SealedPlan, Stream, LogWrite, Runtime,
                              File
  <2>2. ASSUME NEW a \in Fixed, NEW b \in 1..n
        PROVE  s[a][1] # s[6 + b][1] /\ s[a][2] # s[6 + b][2]
    <3>1. s[6 + b] = <<9 + b, Pinned("clone", count, b, resolved[b])>>
      BY <1>5
    <3>2. a \in {1, 2, 3, 4, 5, 6}
      BY DEF Fixed
    <3>3. s[a][1] \in {3, 4, 5, 6, 7, 74} /\ s[a][2].what # "clone"
      BY <1>4, <3>2 DEF ReadyWrite, ContinueRead, SealedPlan, Stream, LogWrite, Runtime, File
    <3>4. 9 + b \notin {3, 4, 5, 6, 7, 74}
      BY <1>1
    <3>5. Pinned("clone", count, b, resolved[b]).what = "clone"
      BY DEF Pinned
    <3> QED
      BY <3>1, <3>3, <3>4, <3>5
  <2>3. ASSUME NEW a \in 1..n, NEW b \in 1..n,
               s[6 + a][1] = s[6 + b][1] \/ s[6 + a][2] = s[6 + b][2]
        PROVE  a = b
    <3>1. /\ s[6 + a] = <<9 + a, Pinned("clone", count, a, resolved[a])>>
          /\ s[6 + b] = <<9 + b, Pinned("clone", count, b, resolved[b])>>
      BY <1>5
    <3>2. \/ 9 + a = 9 + b
          \/ Pinned("clone", count, a, resolved[a]) = Pinned("clone", count, b, resolved[b])
      BY <2>3, <3>1
    <3> QED
      BY <1>1, <3>2 DEF Pinned
  <2> QED
    BY <1>6, <1>8, <2>1, <2>2, <2>3
<1>9. Orderly(s, t)
  BY <1>7, <1>8 DEF Orderly
<1>10. {4, 5, 6} \subseteq DOMAIN s
  BY <1>1, <1>3
<1>11. DOMAIN resolved = 1..n /\ \A i \in 1..n : 6 + i \in DOMAIN s
  <2>1. DOMAIN resolved = 1..n
    BY LenProperties DEF Pinning, n
  <2> QED
    BY <1>1, <1>3, <2>1
<1> QED
  BY <1>3, <1>4, <1>5, <1>9, <1>10, <1>11 DEF s, RuntimeNumber

\* The worker finds its channels at their numbers, and each clone where the plan has its
\* slot.
LEMMA InstalledChannels ==
  ASSUME Pinning, Sealable, NEW t, Table(t),
         Piped \ {File("readyRead", count), File("continueWrite", count)} \subseteq Held(t)
  PROVE  LET table == Installed(t, Layout(count, Clones))
         IN /\ table[6] = Stream(count) /\ table[7] = LogWrite(count)
            /\ table[RuntimeNumber] = Runtime(count)
            /\ \A i \in DOMAIN resolved :
                 table[9 + i] = Pinned("clone", count, i, resolved[i])
<1> DEFINE s == Layout(count, Clones)
<1>1. /\ s \in Seq(ToSet(s)) /\ Orderly(s, t) /\ {4, 5, 6} \subseteq DOMAIN s
      /\ s[4] = <<6, Stream(count)>> /\ s[5] = <<7, LogWrite(count)>>
      /\ s[6] = <<RuntimeNumber, Runtime(count)>>
      /\ \A i \in DOMAIN resolved :
           6 + i \in DOMAIN s /\ s[6 + i] = <<9 + i, Pinned("clone", count, i, resolved[i])>>
  BY LayoutHolds
<1> HIDE DEF s
<1>2. \A j \in DOMAIN s : Installed(t, s)[s[j][1]] = s[j][2]
  BY <1>1, InstalledHolds
<1>3. Installed(t, s)[6] = Stream(count) /\ Installed(t, s)[7] = LogWrite(count)
      /\ Installed(t, s)[RuntimeNumber] = Runtime(count)
  BY <1>1, <1>2
<1>4. \A i \in DOMAIN resolved : Installed(t, s)[9 + i] = Pinned("clone", count, i, resolved[i])
  BY <1>1, <1>2
<1> QED
  BY <1>3, <1>4 DEF s

\* What is kept depends on the workers alone.
LEMMA KeptStands ==
  ASSUME UNCHANGED worker
  PROVE  Kept' = Kept
BY DEF Kept

\* What is kept are own files and logs of workers.
LEMMA KeptIs ==
  /\ \A f \in Kept : f.what \in {"own", "logRead"}
  /\ \A n : LogRead(n) \in Kept => \E q \in Pids : worker[q] # NoWorker /\ worker[q].n = n
<1>1. \A f \in Kept : \/ f = File("own", 0)
                      \/ \E q \in Pids : worker[q] # NoWorker /\ f = LogRead(worker[q].n)
  BY DEF Kept
<1>2. File("own", 0).what = "own" /\ \A n : LogRead(n).what = "logRead" /\ LogRead(n).n = n
  BY DEF File, LogRead
<1> QED
  BY <1>1, <1>2

\* No worker has the log of a request that has none yet.
LEMMA CountIsFree ==
  ASSUME Numbered, pc \notin {"idle", "handshake", "map"}
  PROVE  LogRead(count) \notin Kept
BY KeptIs DEF Numbered, Launching

\* The equipment of workers that stay.
LEMMA EquipmentStands ==
  ASSUME Equipment, \A q \in Pids : worker'[q] = worker[q] \/ worker'[q] = NoWorker
  PROVE  Equipment'
<1> SUFFICES ASSUME NEW q \in Pids, worker'[q] # NoWorker
             PROVE  Equipped(worker'[q])
  BY DEF Equipment, Equipped
<1> QED
  BY DEF Equipment

\* A step of the broker before it has a worker.
LEMMA BrokerStands ==
  ASSUME LaunchInv, UNCHANGED <<worker, count, pid>>,
         pc \notin {"idle", "handshake", "map", "refuse"},
         pc' \in Steps \ {"idle", "handshake", "map"},
         Table(fds'), Holding', Sized'
  PROVE  LaunchInv'
<1>1. Numbered'
  BY DEF LaunchInv, Numbered, Launching
<1>2. Equipment'
  BY EquipmentStands DEF LaunchInv
<1> QED
  BY <1>1, <1>2 DEF LaunchInv, Table

\* While the child resolves, the broker opens nothing.
LEMMA ResolveNextHolds ==
  ASSUME LaunchInv, ResolveNext \/ ChildFails
  PROVE  LaunchInv'
<1>1. /\ pc = "resolve" /\ pc' \in {"resolve", "refuse"}
      /\ UNCHANGED <<worker, count, pid, fds>>
  BY DEF ResolveNext, ChildFails, Goto
<1>2. Held(fds) = Kept \cup Begun
  BY <1>1 DEF LaunchInv, Holding, Carried
<1>3. Kept' = Kept /\ Begun' = Begun /\ Held(fds') = Held(fds)
  BY <1>1, KeptStands DEF Begun
<1>4. Begun' \in Carried'
  BY <1>1 DEF Carried
<1>5. Holding'
  BY <1>2, <1>3, <1>4 DEF Holding, Held
<1>6. Sized' /\ Table(fds')
  BY <1>1 DEF LaunchInv, Sized, Table
<1>7. pc' \in Steps \ {"idle", "handshake", "map"}
  BY <1>1 DEF Steps
<1> QED
  BY <1>1, <1>5, <1>6, <1>7, BrokerStands

\* What the request's own files are called.
LEMMA Names ==
  /\ \A n : /\ Connection(n).what = "connection" /\ Stream(n).what = "stream"
            /\ LogRead(n).what = "logRead" /\ LogWrite(n).what = "logWrite"
            /\ Runtime(n).what = "runtime" /\ SealedPlan(n).what = "plan"
            /\ ReadyWrite(n).what = "readyWrite" /\ ContinueRead(n).what = "continueRead"
            /\ \A w : File(w, n).what = w
            /\ LogRead(n).n = n
  /\ \A f \in Begun : f.what \in {"connection", "stream"}
  /\ \A f \in Raws : f.what = "raw"
  /\ \A f \in ToSet(Clones) : f.what = "clone"
<1>1. \A w, n : File(w, n).what = w /\ File(w, n).n = n
  BY DEF File
<1>2. \A n : /\ Connection(n).what = "connection" /\ Stream(n).what = "stream"
            /\ LogRead(n).what = "logRead" /\ LogWrite(n).what = "logWrite"
            /\ Runtime(n).what = "runtime" /\ SealedPlan(n).what = "plan"
            /\ ReadyWrite(n).what = "readyWrite" /\ ContinueRead(n).what = "continueRead"
            /\ LogRead(n).n = n
  BY <1>1 DEF Connection, Stream, LogRead, LogWrite, Runtime, SealedPlan, ReadyWrite,
              ContinueRead
<1>3. \A f \in Begun : f.what \in {"connection", "stream"}
  BY <1>2 DEF Begun
<1>4. \A w, n, i, o : Pinned(w, n, i, o).what = w
  BY DEF Pinned
<1>5. \A f \in Raws : f.what = "raw"
  BY <1>4 DEF Raws
<1>6. \A f \in ToSet(Clones) : f.what = "clone"
  BY <1>4 DEF Clones, ToSet
<1> QED
  BY <1>1, <1>2, <1>3, <1>5, <1>6

\* The pair is closed; the descriptors stay if they are as many as the exports.
LEMMA ReceiveHolds ==
  ASSUME IInv, LaunchInv, Receive
  PROVE  LaunchInv'
<1> DEFINE raw == [i \in DOMAIN resolved |-> Pinned("raw", count, i, resolved[i])]
           pair == <<File("pair", count)>>
           with == Closed(OpenAll(OpenAll(fds, pair), raw), ToSet(pair))
<1>1. /\ pc = "resolve" /\ UNCHANGED <<worker, count, pid, req, resolved>>
      /\ Len(resolved) = Len(BuildPlan(req).exports)
      /\ pc' = IF Len(raw) = Len(req.exports) THEN "clone" ELSE "refuse"
      /\ fds' = IF Len(raw) = Len(req.exports) THEN with ELSE Closed(with, ToSet(raw))
  BY DEF Receive, Received, Goto
<1>2. Held(fds) = Kept \cup Begun /\ Table(fds)
  BY <1>1 DEF LaunchInv, Holding, Carried
<1>3. raw \in Seq(Raws) /\ Len(raw) = Len(resolved) /\ ToSet(raw) = Raws
  <2>1. Len(resolved) \in Nat /\ DOMAIN resolved = 1..Len(resolved)
    BY LenProperties DEF IInv, Pinning
  <2> QED
    BY <2>1 DEF Raws, ToSet
<1>4. pair \in Seq({File("pair", count)}) /\ ToSet(pair) = {File("pair", count)}
  BY DEF ToSet
<1> HIDE DEF raw, pair
<1>5. /\ Table(OpenAll(fds, pair))
      /\ Held(OpenAll(fds, pair)) = Kept \cup Begun \cup {File("pair", count)}
  BY <1>2, <1>4, OpenAllHolds
<1>6. /\ Table(OpenAll(OpenAll(fds, pair), raw))
      /\ Held(OpenAll(OpenAll(fds, pair), raw))
           = Kept \cup Begun \cup {File("pair", count)} \cup Raws
  BY <1>3, <1>5, OpenAllHolds
<1>7. /\ Table(with)
      /\ Held(with)
           = (Kept \cup Begun \cup {File("pair", count)} \cup Raws) \ {File("pair", count)}
  BY <1>4, <1>6, ClosedHolds
<1>8. File("pair", count).what = "pair"
  BY Names
<1>9. Held(with) = Kept \cup Begun \cup Raws
  BY <1>7, <1>8, KeptIs, Names
<1> HIDE DEF with
<1>10. Table(Closed(with, ToSet(raw))) /\ Held(Closed(with, ToSet(raw))) = Kept \cup Begun
  <2>1. Held(Closed(with, ToSet(raw))) = (Kept \cup Begun \cup Raws) \ Raws
    BY <1>3, <1>7, <1>9, ClosedHolds
  <2>2. \A f \in Kept \cup Begun : f \notin Raws
    BY KeptIs, Names
  <2> QED
    BY <1>7, <2>1, <2>2, ClosedHolds
<1>11. Kept' = Kept /\ Begun' = Begun /\ Raws' = Raws
  BY <1>1, KeptStands DEF Begun, Raws
<1>12. CASE Len(raw) = Len(req.exports)
  <2>1. /\ Begun' \cup Raws' \in Carried'
        /\ Held(fds') = Kept \cup Begun \cup Raws /\ pc' = "clone"
    BY <1>1, <1>9, <1>12 DEF Carried
  <2>2. Holding'
    BY <1>11, <2>1 DEF Holding, Held
  <2>3. Table(fds') /\ Sized'
    BY <1>1, <1>3, <1>7, <1>12 DEF Sized
  <2>4. pc' \in Steps \ {"idle", "handshake", "map"}
    BY <2>1 DEF Steps
  <2> QED
    BY <1>1, <2>2, <2>3, <2>4, BrokerStands
<1>13. CASE Len(raw) # Len(req.exports)
  <2>1. Begun' \in Carried' /\ Held(fds') = Kept \cup Begun /\ pc' = "refuse"
    BY <1>1, <1>10, <1>13 DEF Carried
  <2>2. Holding'
    BY <1>11, <2>1 DEF Holding, Held
  <2>3. Table(fds') /\ Sized'
    BY <1>1, <1>10, <1>13 DEF Sized
  <2>4. pc' \in Steps \ {"idle", "handshake", "map"}
    BY <2>1 DEF Steps
  <2> QED
    BY <1>1, <2>2, <2>3, <2>4, BrokerStands
<1> QED
  BY <1>12, <1>13

\* A step of the executor that only opens and closes descriptors.
LEMMA OpenedKeeps ==
  ASSUME LaunchInv, UNCHANGED <<worker, count, pid, req, resolved>>,
         pc \notin {"idle", "handshake", "map", "refuse"},
         pc' \in Steps \ {"idle", "handshake", "map"}, Sized',
         NEW t, fds' = t, Table(t), NEW X, Held(t) = Kept \cup X, X \in Carried'
  PROVE  LaunchInv'
<1>1. Kept' = Kept
  BY KeptStands
<1>2. Holding'
  BY <1>1 DEF Holding, Held
<1> QED
  BY <1>2, BrokerStands

\* The clones take the place of the descriptors they were made from.
LEMMA CloneMountsHolds ==
  ASSUME IInv, LaunchInv, CloneMounts
  PROVE  LaunchInv'
<1> DEFINE t == Closed(OpenAll(fds, Clones), Raw)
<1>1. /\ pc = "clone" /\ pc' = "logs" /\ fds' = t
      /\ UNCHANGED <<worker, count, pid, req, resolved>>
  BY DEF CloneMounts, Goto
<1>2. Held(fds) = Kept \cup Begun \cup Raws /\ Table(fds)
  BY <1>1 DEF LaunchInv, Holding, Carried
<1>3. Raw = Raws
  <2>1. Raw = {f \in Held(fds) : f.what = "raw"}
    BY DEF Raw, Held
  <2> QED
    BY <1>2, <2>1, KeptIs, Names
<1>4. Clones \in Seq(ToSet(Clones))
  BY ClonesAre DEF IInv
<1>5. /\ Table(OpenAll(fds, Clones))
      /\ Held(OpenAll(fds, Clones)) = Kept \cup Begun \cup Raws \cup ToSet(Clones)
  BY <1>2, <1>4, OpenAllHolds
<1>6. Table(t) /\ Held(t) = (Kept \cup Begun \cup Raws \cup ToSet(Clones)) \ Raws
  BY <1>3, <1>5, ClosedHolds
<1> HIDE DEF t
<1>7. Held(t) = Kept \cup Cloned
  BY <1>6, KeptIs, Names DEF Cloned
<1>8. Cloned \in Carried'
  BY <1>1 DEF Carried, Cloned, Begun, Clones
<1>9. Sized' /\ pc' \in Steps \ {"idle", "handshake", "map"}
  BY <1>1 DEF LaunchInv, Sized, Steps
<1> QED
  BY <1>1, <1>6, <1>7, <1>8, <1>9, OpenedKeeps

\* The log is opened.
LEMMA CreateLogsHolds ==
  ASSUME IInv, LaunchInv, CreateLogs
  PROVE  LaunchInv'
<1> DEFINE logs == <<LogRead(count), LogWrite(count)>>
           t == OpenAll(fds, logs)
<1>1. /\ pc = "logs" /\ pc' = "prepare" /\ fds' = t
      /\ UNCHANGED <<worker, count, pid, req, resolved>>
  BY DEF CreateLogs, Goto
<1>2. Held(fds) = Kept \cup Cloned /\ Table(fds)
  BY <1>1 DEF LaunchInv, Holding, Carried
<1>3. /\ logs \in Seq({LogRead(count), LogWrite(count)})
      /\ ToSet(logs) = {LogRead(count), LogWrite(count)}
  BY DEF ToSet
<1> HIDE DEF logs
<1>4. Table(t) /\ Held(t) = Kept \cup Logged
  BY <1>2, <1>3, OpenAllHolds DEF Logged
<1> HIDE DEF t
<1>5. Logged \in Carried'
  BY <1>1 DEF Carried, Logged, Cloned, Begun, Clones
<1>6. Sized' /\ pc' \in Steps \ {"idle", "handshake", "map"}
  BY <1>1 DEF LaunchInv, Sized, Steps
<1> QED
  BY <1>1, <1>4, <1>5, <1>6, OpenedKeeps

\* The runtime is verified and cloned, the plan sealed.
LEMMA PrepareHolds ==
  ASSUME IInv, LaunchInv, Prepare
  PROVE  LaunchInv'
<1> DEFINE both == <<File("verified", count), Runtime(count)>>
           with == OpenAll(fds, both)
           without == Closed(with, {File("verified", count)})
           t == Open(without, SealedPlan(count))
<1>1. /\ pc = "prepare" /\ pc' = "pipes" /\ fds' = t /\ Sealable
      /\ UNCHANGED <<worker, count, pid, req, resolved>>
  BY DEF Prepare, Goto
<1>2. Held(fds) = Kept \cup Logged /\ Table(fds)
  BY <1>1 DEF LaunchInv, Holding, Carried
<1>3. both \in Seq({File("verified", count), Runtime(count)})
      /\ ToSet(both) = {File("verified", count), Runtime(count)}
  BY DEF ToSet
<1> HIDE DEF both
<1>4. /\ Table(with)
      /\ Held(with) = Kept \cup Logged \cup {File("verified", count), Runtime(count)}
  BY <1>2, <1>3, OpenAllHolds
<1> HIDE DEF with
<1>5. File("verified", count) \notin Kept \cup Logged \cup {Runtime(count)}
  BY KeptIs, Names DEF Logged, Cloned
<1>6. Table(without) /\ Held(without) = Kept \cup Logged \cup {Runtime(count)}
  <2>1. Table(without) /\ Held(without)
          = (Kept \cup Logged \cup {File("verified", count), Runtime(count)})
              \ {File("verified", count)}
    BY <1>4, ClosedHolds
  <2> QED
    BY <1>5, <2>1
<1> HIDE DEF without
<1>7. Table(t) /\ Held(t) = Kept \cup Prepared
  BY <1>6, OpenHolds DEF Prepared
<1> HIDE DEF t
<1>8. Prepared \in Carried'
  BY <1>1 DEF Carried, Prepared, Logged, Cloned, Begun, Clones
<1>9. Sized' /\ pc' \in Steps \ {"idle", "handshake", "map"}
  BY <1>1 DEF LaunchInv, Sized, Steps, Sealable
<1> QED
  BY <1>1, <1>7, <1>8, <1>9, OpenedKeeps

\* The pipes of the handshake are opened.
LEMMA MakePipesHolds ==
  ASSUME IInv, LaunchInv, MakePipes
  PROVE  LaunchInv'
<1> DEFINE t == OpenAll(fds, HandshakePipes)
<1>1. /\ pc = "pipes" /\ pc' = "fork" /\ fds' = t
      /\ UNCHANGED <<worker, count, pid, req, resolved>>
  BY DEF MakePipes, Goto
<1>2. Held(fds) = Kept \cup Prepared /\ Table(fds)
  BY <1>1 DEF LaunchInv, Holding, Carried
<1>3. HandshakePipes \in Seq(ToSet(HandshakePipes))
  BY DEF ToSet, HandshakePipes
<1>4. Table(t) /\ Held(t) = Kept \cup Piped
  BY <1>2, <1>3, OpenAllHolds DEF Piped
<1> HIDE DEF t
<1>5. Piped \in Carried'
  BY <1>1 DEF Carried, Piped, Prepared, Logged, Cloned, Begun, Clones, HandshakePipes
<1>6. Sized' /\ pc' \in Steps \ {"idle", "handshake", "map"}
  BY <1>1 DEF LaunchInv, Sized, Steps, Sealable
<1> QED
  BY <1>1, <1>4, <1>5, <1>6, OpenedKeeps

\* A broker that starts again holds its own files, and there are no workers.
LEMMA DieHolds ==
  ASSUME LaunchInv, Die
  PROVE  LaunchInv'
<1>1. /\ pc' = "idle" /\ pid' = None /\ UNCHANGED count
      /\ worker' = [p \in Pids |-> NoWorker]
      /\ \E extra \in Extras : fds' = Base(extra)
  BY DEF Die, Goto
<1>2. Table(fds') /\ Held(fds') = {File("own", 0)}
  BY <1>1, BaseHolds
<1>3. Kept' = {File("own", 0)}
  BY <1>1 DEF Kept
<1>4. {} \in Carried'
  BY <1>1 DEF Carried
<1>5. Holding'
  BY <1>2, <1>3, <1>4 DEF Holding, Held
<1>6. Numbered'
  BY <1>1 DEF LaunchInv, Numbered, Steps
<1>7. Sized' /\ Equipment'
  BY <1>1 DEF Sized, Equipment
<1> QED
  BY <1>2, <1>5, <1>6, <1>7 DEF LaunchInv, Table

\* A request adds its connection and its stream.
LEMMA RequestHolds ==
  ASSUME LaunchInv, NEW g, Request(g)
  PROVE  LaunchInv'
<1> DEFINE files == <<Connection(count + 1), Stream(count + 1)>>
           t == OpenAll(fds, files)
<1>1. /\ pc = "idle" /\ pc' \in {"resolve", "refuse"} /\ count' = count + 1
      /\ fds' = t /\ UNCHANGED <<worker, pid>>
  BY DEF Request, Goto
<1>2. Held(fds) = Kept /\ Table(fds)
  BY <1>1 DEF LaunchInv, Holding, Carried
<1>3. files \in Seq({Connection(count + 1), Stream(count + 1)})
      /\ ToSet(files) = {Connection(count + 1), Stream(count + 1)}
  BY DEF ToSet
<1>4. Begun' = {Connection(count + 1), Stream(count + 1)}
  BY <1>1 DEF Begun
<1> HIDE DEF files
<1>5. Table(t) /\ Held(t) = Kept \cup Begun'
  BY <1>2, <1>3, <1>4, OpenAllHolds
<1> HIDE DEF t
<1>6. Begun' \in Carried' /\ Kept' = Kept
  BY <1>1, KeptStands DEF Carried
<1>7. Holding'
  BY <1>1, <1>5, <1>6 DEF Holding, Held
<1>8. Numbered'
  <2>1. \A p \in Pids : worker[p] # NoWorker =>
          worker[p].n \in 0..(count + 1) /\ worker[p].n # count + 1
    BY DEF LaunchInv, Numbered
  <2> QED
    BY <1>1, <2>1 DEF LaunchInv, Numbered, Steps, Launching
<1>9. Sized' /\ Equipment'
  BY <1>1, EquipmentStands DEF LaunchInv, Sized
<1> QED
  BY <1>1, <1>5, <1>7, <1>8, <1>9 DEF LaunchInv, Table

\* The worker that is born takes its number from the request.
LEMMA ForkHolds ==
  ASSUME IInv, LaunchInv, req.exports \in Seq(ToSet(req.exports)), NEW p \in Pids, Fork(p)
  PROVE  LaunchInv'
<1> DEFINE ours == {File("readyRead", count), File("continueWrite", count)}
           its == {ReadyWrite(count), ContinueRead(count)}
           w == [st |-> "born", n |-> count, grant |-> req, entries |-> SealedEntries,
                 table |-> Installed(Closed(fds, ours), Layout(count, Clones)),
                 tree |-> {}]
<1>1. /\ pc = "fork" /\ pc' = "handshake" /\ pid' = p /\ worker[p] = NoWorker
      /\ fds' = Closed(fds, its)
      /\ worker' = [worker EXCEPT ![p] = w]
      /\ UNCHANGED <<count, req, resolved>>
  BY DEF Fork, Goto
<1>2. Held(fds) = Kept \cup Piped /\ Table(fds)
  BY <1>1 DEF LaunchInv, Holding, Carried
<1>3. Table(Closed(fds, ours)) /\ Held(Closed(fds, ours)) = (Kept \cup Piped) \ ours
  BY <1>2, ClosedHolds
<1>4. Table(Closed(fds, its)) /\ Held(Closed(fds, its)) = (Kept \cup Piped) \ its
  BY <1>2, ClosedHolds
<1>5. /\ w.st = "born" /\ w.n = count /\ w.grant = req /\ w.entries = SealedEntries
      /\ w.table = Installed(Closed(fds, ours), Layout(count, Clones)) /\ w # NoWorker
  BY DEF NoWorker, None
<1> HIDE DEF w
<1>6. DOMAIN worker' = Pids /\ worker'[p] = w
      /\ \A q \in Pids \ {p} : worker'[q] = worker[q]
  BY <1>1 DEF IInv, Workers
<1>7. Equipped(w)
  <2>1. Sealable /\ Pinning
    BY <1>1 DEF LaunchInv, Sized, IInv
  <2>2. Piped \ ours \subseteq Held(Closed(fds, ours))
    BY <1>3
  <2>3. /\ w.table[6] = Stream(w.n) /\ w.table[7] = LogWrite(w.n)
        /\ w.table[RuntimeNumber] = Runtime(w.n)
    BY <1>3, <1>5, <2>1, <2>2, InstalledChannels
  <2>4. ASSUME NEW x \in ToSet(req.exports)
        PROVE  \E i \in DOMAIN SealedEntries : SameExport(SealedEntries[i].export, x)
    <3> DEFINE plan == BuildPlan(req).exports
    <3>1. WellPlanned(plan)
      BY BuildPlanHolds
    <3>2. Len(plan) = Len(req.exports) /\ Len(resolved) = Len(plan)
      BY <1>1 DEF LaunchInv, Sized
    <3> HIDE DEF plan
    <3>3. DOMAIN plan = DOMAIN resolved
      BY <2>1, <3>1, <3>2, LenProperties DEF WellPlanned, Pinning
    <3>4. \A i \in DOMAIN plan : Signed(req, plan[i])
      BY <2>1, <3>3 DEF Pinning, plan
    <3>5. PICK i \in DOMAIN plan : SameExport(plan[i], x)
      BY <3>1, <3>2, <3>4, PlanCovers
    <3>6. i \in DOMAIN SealedEntries /\ SealedEntries[i].export = plan[i]
      BY <3>3 DEF SealedEntries, plan
    <3> QED
      BY <3>5, <3>6
  <2> QED
    BY <1>5, <2>3, <2>4 DEF Equipped
<1>8. Equipment'
  <2> SUFFICES ASSUME NEW q \in Pids, worker'[q] # NoWorker
               PROVE  Equipped(worker'[q])
    BY DEF Equipment, Equipped
  <2> QED
    BY <1>6, <1>7 DEF LaunchInv, Equipment
<1>9. \A q \in Pids : worker[q] # NoWorker => worker[q].n \in 0..count /\ worker[q].n # count
  BY <1>1 DEF LaunchInv, Numbered, Launching
<1>10. Numbered'
  BY <1>1, <1>5, <1>6, <1>9 DEF LaunchInv, Numbered, Launching, Steps
<1>11. Kept' = Kept \cup {LogRead(count)}
  <2>1. {q \in Pids : worker'[q] # NoWorker} = {q \in Pids : worker[q] # NoWorker} \cup {p}
    BY <1>5, <1>6
  <2>2. \A q \in Pids : worker[q] # NoWorker => worker'[q].n = worker[q].n
    BY <1>1, <1>6
  <2> QED
    BY <1>5, <1>6, <2>1, <2>2 DEF Kept
<1>12. Handed' = Handed
  BY <1>1 DEF Handed, LaunchFiles, Clones
<1>13. Held(Closed(fds, its)) = Kept' \cup Handed'
  <2>1. its \cap (Kept \cup Prepared) = {}
    BY KeptIs, Names DEF Prepared, Logged, Cloned
  <2>2. ToSet(HandshakePipes) = ours \cup its
    BY DEF HandshakePipes, ToSet
  <2>3. ours \cap its = {}
    BY Names
  <2>4. (Kept \cup Piped) \ its = Kept \cup Prepared \cup ours
    BY <2>1, <2>2, <2>3 DEF Piped
  <2>5. Prepared \cup ours = Handed \cup {LogRead(count)}
    BY DEF Prepared, Logged, Cloned, Begun, Handed, LaunchFiles
  <2> QED
    BY <1>4, <1>11, <1>12, <2>4, <2>5
<1>14. Handed' \in Carried'
  BY <1>1 DEF Carried
<1>15. Holding'
  BY <1>1, <1>13, <1>14 DEF Holding, Held
<1>16. Sized'
  BY <1>1 DEF Sized
<1> QED
  BY <1>1, <1>4, <1>8, <1>10, <1>15, <1>16 DEF LaunchInv, Table

\* The same processes are workers, for the same requests.
SameNumbers ==
  \A q \in Pids : /\ worker'[q] = NoWorker <=> worker[q] = NoWorker
                  /\ worker[q] # NoWorker => worker'[q].n = worker[q].n

\* Then the broker keeps the same.
LEMMA SameKept ==
  ASSUME SameNumbers
  PROVE  Kept' = Kept
<1>1. {q \in Pids : worker'[q] # NoWorker} = {q \in Pids : worker[q] # NoWorker}
  BY DEF SameNumbers
<1>2. \A q \in {r \in Pids : worker[r] # NoWorker} : worker'[q].n = worker[q].n
  BY DEF SameNumbers
<1> QED
  BY <1>1, <1>2 DEF Kept

\* A worker that does not come to serve keeps its equipment.
LEMMA StatusHolds ==
  ASSUME IInv, Equipment, NEW p \in Pids, NEW s, s # "serving", s # None,
         worker[p] # NoWorker, worker' = [worker EXCEPT ![p].st = s]
  PROVE  SameNumbers /\ Equipment'
<1>1. DOMAIN worker = Pids /\ DOMAIN worker[p] = WorkerFields
  BY DEF IInv, Workers, Launched
<1>2. worker'[p] = [worker[p] EXCEPT !.st = s] /\ \A q \in Pids \ {p} : worker'[q] = worker[q]
  BY <1>1
<1>3. /\ worker'[p].st = s /\ worker'[p].n = worker[p].n
      /\ worker'[p].table = worker[p].table
      /\ worker'[p].grant = worker[p].grant /\ worker'[p].entries = worker[p].entries
  BY <1>1, <1>2 DEF WorkerFields
<1>4. worker'[p] # NoWorker
  BY <1>3 DEF NoWorker
<1>5. Equipped(worker'[p])
  BY <1>3 DEF Equipment, Equipped
<1>6. Equipment'
  <2> SUFFICES ASSUME NEW q \in Pids, worker'[q] # NoWorker
               PROVE  Equipped(worker'[q])
    BY DEF Equipment, Equipped
  <2> QED
    BY <1>2, <1>5 DEF Equipment
<1> QED
  BY <1>2, <1>3, <1>4, <1>6 DEF SameNumbers

\* Steps that leave the broker alone.
LEMMA BrokerLeft ==
  ASSUME LaunchInv, SameNumbers, UNCHANGED <<pc, req, count, fds, resolved, pid>>, Equipment'
  PROVE  LaunchInv'
<1>1. Kept' = Kept
  BY SameKept
<1>2. Carried' = Carried
  BY DEF Carried, Begun, Raws, Cloned, Logged, Prepared, Piped, Handed, LaunchFiles,
         Clones, HandshakePipes
<1>3. Holding'
  BY <1>1, <1>2 DEF LaunchInv, Holding, Held
<1>4. Numbered'
  BY DEF LaunchInv, Numbered, Launching, SameNumbers
<1>5. Sized' /\ Table(fds')
  BY DEF LaunchInv, Sized, Sealable, Table
<1> QED
  BY <1>3, <1>4, <1>5 DEF LaunchInv, Table

\* A step of the file system or of the life of grants.
LEMMA ElsewhereHolds ==
  ASSUME LaunchInv, UNCHANGED <<pc, req, count, fds, resolved, pid, worker>>
  PROVE  LaunchInv'
<1>1. SameNumbers
  BY DEF SameNumbers
<1>2. Equipment'
  BY EquipmentStands DEF LaunchInv
<1> QED
  BY <1>1, <1>2, BrokerLeft

\* The staging directory is no descriptor.
LEMMA MakeStagingHolds ==
  ASSUME LaunchInv, MakeStaging
  PROVE  LaunchInv'
<1>1. /\ pc = "handshake" /\ pc' = "map"
      /\ UNCHANGED <<req, count, fds, resolved, pid, worker>>
  BY DEF MakeStaging, Goto
<1>2. Held(fds) = Kept \cup Handed
  BY <1>1 DEF LaunchInv, Holding, Carried
<1>3. Kept' = Kept /\ Handed' = Handed
  BY <1>1, KeptStands DEF Handed, LaunchFiles, Clones
<1>4. Handed' \in Carried'
  BY <1>1 DEF Carried
<1>5. Holding'
  BY <1>1, <1>2, <1>3, <1>4 DEF Holding, Held
<1>6. Numbered'
  BY <1>1 DEF LaunchInv, Numbered, Launching, Steps
<1>7. Equipment' /\ Sized' /\ Table(fds')
  BY <1>1, EquipmentStands DEF LaunchInv, Sized, Table
<1> QED
  BY <1>5, <1>6, <1>7 DEF LaunchInv, Table

\* When a launch fails, whatever has been opened for it is closed, the log's read end
\* with the worker.
LEMMA LaunchFailsHolds ==
  ASSUME IInv, LaunchInv, NEW failed, LaunchFails(failed),
         pc \in {"prepare", "handshake", "map"}
  PROVE  LaunchInv'
<1> DEFINE gone == LaunchFiles \cup {LogRead(count)}
<1>1. /\ pc' = "refuse" /\ fds' = Closed(fds, gone) /\ UNCHANGED <<req, count, resolved, pid>>
      /\ worker' = [p \in Pids |-> IF p = pid THEN NoWorker ELSE worker[p]]
  BY DEF LaunchFails, Goto
<1>2. Table(fds) /\ Held(fds) \subseteq Kept \cup Handed \cup {LogRead(count)}
      /\ Kept \subseteq Held(fds) /\ Connection(count) \in Held(fds)
  BY DEF LaunchInv, Holding, Carried, Logged, Cloned, Begun, Handed, LaunchFiles
<1>3. Table(fds') /\ Held(fds') = Held(fds) \ gone
  BY <1>1, <1>2, ClosedHolds
<1>4. \A q \in Pids : worker'[q] = worker[q] \/ worker'[q] = NoWorker
  BY <1>1
<1>5. {q \in Pids : worker'[q] # NoWorker} = {q \in Pids : worker[q] # NoWorker} \ {pid}
  BY <1>1
<1>6. \A q \in Pids : worker[q] # NoWorker /\ q # pid =>
        worker[q].n # count /\ worker'[q] = worker[q]
  BY <1>1 DEF LaunchInv, Numbered, Launching
<1>7. \A q \in Pids : worker[q] # NoWorker /\ q = pid => worker[q].n = count
  <2>1. CASE pc = "prepare"
    BY <2>1, LaunchAssumption DEF LaunchInv, Numbered
  <2> QED
    BY <2>1 DEF LaunchInv, Numbered
<1>8. Kept' = Kept \ {LogRead(count)}
  <2>1. \A f : f \in Kept' <=>
          \/ f = File("own", 0)
          \/ \E q \in Pids : worker[q] # NoWorker /\ q # pid /\ f = LogRead(worker[q].n)
    BY <1>5, <1>6 DEF Kept
  <2>2. \A f : f \in Kept <=>
          \/ f = File("own", 0)
          \/ \E q \in Pids : worker[q] # NoWorker /\ f = LogRead(worker[q].n)
    BY DEF Kept
  <2>3. /\ File("own", 0) # LogRead(count)
        /\ \A q \in Pids : worker[q].n # count => LogRead(worker[q].n) # LogRead(count)
    BY Names
  <2> QED
    BY <1>6, <1>7, <2>1, <2>2, <2>3
<1>9. Held(fds') = Kept' \cup {Connection(count)}
  <2>1. Connection(count) \notin gone
    BY Names DEF LaunchFiles
  <2>2. Kept \cap LaunchFiles = {}
    BY KeptIs, Names DEF LaunchFiles
  <2>3. Handed = {Connection(count)} \cup LaunchFiles
    BY DEF Handed
  <2> HIDE DEF gone
  <2> QED
    BY <1>2, <1>3, <1>8, <2>1, <2>2, <2>3 DEF gone
<1>10. {Connection(count')} \in Carried' /\ UNCHANGED count
  BY <1>1 DEF Carried
<1>11. Holding'
  BY <1>9, <1>10 DEF Holding, Held
<1>12. Numbered'
  BY <1>1, <1>6 DEF LaunchInv, Numbered, Launching, Steps
<1>13. Equipment' /\ Sized'
  BY <1>1, <1>4, EquipmentStands DEF LaunchInv, Sized
<1> QED
  BY <1>3, <1>11, <1>12, <1>13 DEF LaunchInv, Table

\* When the worker continues, nothing of the request stays but the log's read end.
LEMMA ContinueHolds ==
  ASSUME IInv, LaunchInv, Continue
  PROVE  LaunchInv'
<1> DEFINE gone == LaunchFiles \cup {Connection(count)}
<1>1. /\ pc = "map" /\ pc' = "idle" /\ pid' = None
      /\ fds' = Closed(fds, gone) /\ UNCHANGED count
      /\ worker' = [worker EXCEPT ![pid].st = "mapped"]
  BY DEF Continue, Goto
<1>2. Table(fds) /\ Held(fds) = Kept \cup Handed
  BY <1>1 DEF LaunchInv, Holding, Carried
<1>3. Table(fds') /\ Held(fds') = (Kept \cup Handed) \ gone
  BY <1>1, <1>2, ClosedHolds
<1>4. Handed = gone /\ Kept \cap gone = {}
  BY KeptIs, Names DEF Handed, LaunchFiles
<1>5. Held(fds') = Kept
  BY <1>3, <1>4
<1>6. pid \in Pids /\ worker[pid] # NoWorker
  BY <1>1 DEF LaunchInv, Numbered
<1>7. SameNumbers /\ Equipment'
  <2>1. "mapped" # "serving" /\ "mapped" # None
    BY DEF None
  <2> QED
    BY <1>1, <1>6, <2>1, StatusHolds DEF LaunchInv
<1>8. Kept' = Kept
  BY <1>7, SameKept
<1>9. {} \in Carried'
  BY <1>1 DEF Carried
<1>10. Holding'
  BY <1>5, <1>8, <1>9 DEF Holding, Held
<1>11. Numbered' /\ Sized'
  BY <1>1, <1>7 DEF LaunchInv, Numbered, Steps, SameNumbers, Sized
<1> QED
  BY <1>3, <1>7, <1>10, <1>11 DEF LaunchInv, Table

\* A refusal closes what the request still has open.
LEMMA RefuseHolds ==
  ASSUME LaunchInv, Refuse
  PROVE  LaunchInv'
<1>1. pc = "refuse"
  BY DEF Refuse
<1>2. PICK X \in {Begun, {Connection(count)}} : Held(fds) = Kept \cup X
  BY <1>1 DEF LaunchInv, Holding, Carried
<1>3. CASE Die
  BY <1>3, DieHolds
<1>4. CASE ~Die
  <2> DEFINE gone == {Stream(count), Connection(count)}
  <2>1. /\ pc' = "idle" /\ pid' = None /\ fds' = Closed(fds, gone) /\ UNCHANGED <<count,
                                                                                  worker>>
    BY <1>4 DEF Refuse, Goto
  <2>2. Table(fds') /\ Held(fds') = (Kept \cup X) \ gone
    BY <1>2, <2>1, ClosedHolds DEF LaunchInv
  <2>3. Kept \cap gone = {} /\ X \subseteq gone
    BY <1>2, KeptIs, Names DEF Begun
  <2>4. Held(fds') = Kept'
    BY <2>1, <2>2, <2>3, KeptStands
  <2>5. {} \in Carried'
    BY <2>1 DEF Carried
  <2>6. Holding'
    BY <2>4, <2>5 DEF Holding, Held
  <2>7. Numbered' /\ Sized' /\ Equipment'
    BY <2>1, EquipmentStands DEF LaunchInv, Numbered, Steps, Sized
  <2> QED
    BY <2>2, <2>6, <2>7 DEF LaunchInv, Table
<1> QED
  BY <1>3, <1>4

\* The other steps of a worker leave what it has.
LEMMA WorkerHolds ==
  ASSUME IInv, LaunchInv, NEW p \in Pids, WorkerReady(p) \/ RejectPlan(p) \/ WorkerDies(p)
  PROVE  LaunchInv'
<1>1. PICK s \in {"ready", "rejected", "dead"} : worker' = [worker EXCEPT ![p].st = s]
  BY DEF WorkerReady, RejectPlan, WorkerDies
<1>2. worker[p] # NoWorker /\ UNCHANGED <<pc, req, count, fds, resolved, pid>>
  BY DEF WorkerReady, RejectPlan, WorkerDies, NoWorker, None
<1>3. SameNumbers /\ Equipment'
  BY <1>1, <1>2, StatusHolds DEF LaunchInv, None
<1> QED
  BY <1>2, <1>3, BrokerLeft

\* What the worker has checked is what was planned, and every export was planned.
LEMMA ServeHolds ==
  ASSUME IInv, LaunchInv, NEW p \in Pids, Serve(p)
  PROVE  LaunchInv'
<1> DEFINE w == worker[p]
           Shown(e) == [target |-> e.target, access |-> e.access, ino |-> Ino[e.obj],
                        kind |-> Kind[e.obj]]
<1>1. /\ worker' = [worker EXCEPT ![p].st = "serving", ![p].tree = Tree(w)]
      /\ w # NoWorker /\ Verified(w)
      /\ UNCHANGED <<pc, req, count, fds, resolved, pid>>
  BY DEF Serve, NoWorker, None
<1>2. DOMAIN worker = Pids /\ Launched(w) /\ DOMAIN w = WorkerFields /\ Equipped(w)
  BY <1>1 DEF IInv, Workers, Launched, LaunchInv, Equipment
<1>3. worker'[p] = [w EXCEPT !.st = "serving", !.tree = Tree(w)]
      /\ \A q \in Pids \ {p} : worker'[q] = worker[q]
  BY <1>1, <1>2
<1>4. /\ worker'[p].st = "serving" /\ worker'[p].n = w.n
      /\ worker'[p].table = w.table /\ worker'[p].tree = Tree(w)
      /\ worker'[p].grant = w.grant /\ worker'[p].entries = w.entries
  BY <1>2, <1>3 DEF WorkerFields
<1>5. worker'[p] # NoWorker
  BY <1>4 DEF NoWorker, None
<1> DEFINE Slotted(i) == w.entries[i].export
           Mounted(i) == [target |-> Slotted(i).target, access |-> Slotted(i).access,
                          obj |-> w.table[SourceBase + Slotted(i).slot].obj]
<1>6. Tree(w) = {Mounted(i) : i \in DOMAIN w.entries}
  BY DEF Tree
<1>7. \A i \in DOMAIN w.entries : Shown(Mounted(i)) = Entry(Slotted(i))
  BY <1>1 DEF Verified, Entry
<1>8. \A e, x : SameExport(e, x) => Entry(e) = Entry(x)
  BY DEF SameExport, Planned, Entry
<1>9. \A i \in DOMAIN w.entries : \E x \in ToSet(w.grant.exports) : SameExport(Slotted(i), x)
  BY <1>2 DEF Launched, Signed
<1>10. \A x \in ToSet(w.grant.exports) : \E i \in DOMAIN w.entries : SameExport(Slotted(i), x)
  BY <1>2 DEF Equipped
<1> HIDE DEF w, Shown, Mounted, Slotted
<1>11. {Shown(e) : e \in Tree(w)} = {Entry(x) : x \in ToSet(w.grant.exports)}
  <2>1. \A i \in DOMAIN w.entries :
          \E x \in ToSet(w.grant.exports) : Shown(Mounted(i)) = Entry(x)
    BY <1>7, <1>8, <1>9
  <2>2. \A x \in ToSet(w.grant.exports) :
          \E i \in DOMAIN w.entries : Shown(Mounted(i)) = Entry(x)
    BY <1>7, <1>8, <1>10
  <2> HIDE DEF Entry
  <2> QED
    BY <1>6, <2>1, <2>2
<1>12. Equipped(worker'[p])
  BY <1>2, <1>4, <1>11 DEF Equipped, Shown
<1>13. SameNumbers
  BY <1>1, <1>3, <1>4, <1>5 DEF SameNumbers, w
<1>14. Equipment'
  <2> SUFFICES ASSUME NEW q \in Pids, worker'[q] # NoWorker
               PROVE  Equipped(worker'[q])
    BY DEF Equipment, Equipped
  <2> QED
    BY <1>3, <1>12 DEF LaunchInv, Equipment
<1> QED
  BY <1>1, <1>13, <1>14, BrokerLeft

\* The log of the worker that is reaped is the only file that goes.
LEMMA ReapHolds ==
  ASSUME IInv, LaunchInv, NEW p \in Pids, Reap(p) \/ ReapFails(p)
  PROVE  LaunchInv'
<1> DEFINE n == worker[p].n
<1>1. /\ p # pid /\ worker[p] # NoWorker
      /\ fds' = Closed(fds, {LogRead(n)}) /\ worker' = [worker EXCEPT ![p] = NoWorker]
      /\ UNCHANGED <<pc, req, count, resolved, pid>>
  BY DEF Reap, ReapFails, NoWorker, None
<1>2. PICK X \in Carried : Held(fds) = Kept \cup X
  BY DEF LaunchInv, Holding
<1>3. Table(fds') /\ Held(fds') = (Kept \cup X) \ {LogRead(n)}
  BY <1>1, <1>2, ClosedHolds DEF LaunchInv
<1>4. pc = "idle" \/ n # count
  BY <1>1 DEF LaunchInv, Numbered, Launching
<1>5. LogRead(n) \notin X
  <2>1. pc # "idle" => LogRead(n) # LogRead(count)
    BY <1>4, Names
  <2>2. \A k : LogRead(k) \notin Begun \cup Raws \cup Cloned \cup Handed
    BY Names DEF Cloned, Handed, LaunchFiles
  <2>3. \A k : LogRead(k) \in Logged => LogRead(k) = LogRead(count)
    BY <2>2, Names DEF Logged
  <2>4. \A k : LogRead(k) \in Prepared => LogRead(k) = LogRead(count)
    BY <2>3, Names DEF Prepared
  <2>5. \A k : LogRead(k) \notin ToSet(HandshakePipes)
    BY Names DEF HandshakePipes, ToSet
  <2>6. \A k : LogRead(k) \in Piped => LogRead(k) = LogRead(count)
    BY <2>4, <2>5 DEF Piped
  <2>7. \A k : LogRead(k) # Connection(count)
    BY Names
  <2> QED
    BY <1>2, <2>1, <2>2, <2>3, <2>4, <2>6, <2>7 DEF LaunchInv, Numbered, Steps, Carried
<1>6. DOMAIN worker = Pids
  BY DEF IInv, Workers
<1>7. /\ {q \in Pids : worker'[q] # NoWorker} = {q \in Pids : worker[q] # NoWorker} \ {p}
      /\ \A q \in Pids \ {p} : worker'[q] = worker[q]
  BY <1>1, <1>6
<1>8. \A q \in Pids : worker[q] # NoWorker /\ q # p => worker[q].n # n
  BY <1>1 DEF LaunchInv, Numbered
<1>9. Kept' = Kept \ {LogRead(n)}
  <2>1. \A f : f \in Kept' <=>
          \/ f = File("own", 0)
          \/ \E q \in Pids : worker[q] # NoWorker /\ q # p /\ f = LogRead(worker[q].n)
    BY <1>7 DEF Kept
  <2>2. \A f : f \in Kept <=>
          \/ f = File("own", 0)
          \/ \E q \in Pids : worker[q] # NoWorker /\ f = LogRead(worker[q].n)
    BY DEF Kept
  <2>3. File("own", 0) # LogRead(n) /\ \A k : k # n => LogRead(k) # LogRead(n)
    BY Names
  <2> QED
    BY <1>8, <2>1, <2>2, <2>3
<1>10. Held(fds') = Kept' \cup X
  BY <1>3, <1>5, <1>9
<1>11. Carried' = Carried
  BY <1>1 DEF Carried, Begun, Raws, Cloned, Logged, Prepared, Piped, Handed, LaunchFiles,
         Clones, HandshakePipes
<1>12. Holding'
  BY <1>10, <1>11 DEF Holding, Held
<1>13. Numbered'
  BY <1>1, <1>7 DEF LaunchInv, Numbered, Launching
<1>14. Equipment' /\ Sized'
  BY <1>1, <1>7, EquipmentStands DEF LaunchInv, Sized, Sealable
<1> QED
  BY <1>3, <1>12, <1>13, <1>14 DEF LaunchInv, Table

\* Every step of the broker keeps the invariant ...
LEMMA BrokerHolds ==
  ASSUME IInv, LifecycleTypeOK, LaunchInv, BrokerStep
  PROVE  LaunchInv'
<1>1. CASE ResolveNext
  BY <1>1, ResolveNextHolds
<1>2. CASE Receive \/ CloneMounts \/ CreateLogs \/ Prepare \/ MakePipes
  BY <1>2, ReceiveHolds, CloneMountsHolds, CreateLogsHolds, PrepareHolds, MakePipesHolds
<1>3. ASSUME NEW p \in Pids, Fork(p)
      PROVE  LaunchInv'
  <2>1. req \in Proposals
    BY <1>3 DEF Fork, IInv, Granted, LifecycleTypeOK
  <2>2. req.exports \in Seq(ToSet(req.exports))
    BY <2>1, ProposalsAssumption DEF WellFormed
  <2> QED
    BY <1>3, <2>2, ForkHolds
<1>4. CASE MakeStaging \/ Continue \/ Refuse
  BY <1>4, MakeStagingHolds, ContinueHolds, RefuseHolds
<1>5. CASE HandshakeFails \/ PrepareFails \/ MapFails
  BY <1>5, LaunchFailsHolds DEF HandshakeFails, PrepareFails, MapFails
<1> QED
  BY <1>1, <1>2, <1>3, <1>4, <1>5 DEF BrokerStep

\* ... and so does every other step of a launch.
LEMMA EnvironmentHolds ==
  ASSUME IInv, LaunchInv, Environment
  PROVE  LaunchInv'
<1>1. CASE ChildFails
  BY <1>1, ResolveNextHolds
<1>2. CASE KernelRefuses
  BY <1>2, DieHolds DEF KernelRefuses
<1>3. ASSUME NEW p \in Pids,
             \/ WorkerReady(p) \/ Serve(p) \/ RejectPlan(p) \/ WorkerDies(p)
             \/ Reap(p) \/ ReapFails(p)
      PROVE  LaunchInv'
  BY <1>3, WorkerHolds, ServeHolds, ReapHolds
<1>4. ASSUME NEW s \in Sources, NEW t \in Sources, Rename(s, t)
      PROVE  LaunchInv'
  BY <1>4, ElsewhereHolds DEF Rename
<1>5. ASSUME NEW s \in Sources, NEW o \in Objects, Replace(s, o)
      PROVE  LaunchInv'
  BY <1>5, ElsewhereHolds DEF Replace
<1> QED
  BY <1>1, <1>2, <1>3, <1>4, <1>5 DEF Environment

\* The invariant holds at first ...
LEMMA InitLaunchInv == Init => LaunchInv
<1> SUFFICES ASSUME Init PROVE LaunchInv
  OBVIOUS
<1>1. /\ pc = "idle" /\ count = 0 /\ pid = None /\ worker = [p \in Pids |-> NoWorker]
      /\ \E extra \in Extras : fds = Base(extra)
  BY DEF Init, LaunchInit
<1>2. Table(fds) /\ Held(fds) = {File("own", 0)}
  BY <1>1, BaseHolds
<1>3. Kept = {File("own", 0)}
  BY <1>1 DEF Kept
<1>4. {} \in Carried
  BY <1>1 DEF Carried
<1>5. Holding
  BY <1>2, <1>3, <1>4 DEF Holding
<1>6. Numbered /\ Sized /\ Equipment
  BY <1>1 DEF Numbered, Steps, Sized, Equipment
<1> QED
  BY <1>2, <1>5, <1>6 DEF LaunchInv

\* ... and every step keeps it.
LEMMA StepLaunchInv == IInv /\ LifecycleTypeOK /\ LaunchInv /\ [Next]_vars => LaunchInv'
<1> SUFFICES ASSUME IInv, LifecycleTypeOK, LaunchInv, [Next]_vars PROVE LaunchInv'
  OBVIOUS
<1>1. CASE UNCHANGED launchVars
  BY <1>1, ElsewhereHolds DEF launchVars
<1>2. CASE BrokerStep
  BY <1>2, BrokerHolds
<1>3. CASE Environment
  BY <1>3, EnvironmentHolds
<1>4. ASSUME NEW g \in stored, Request(g)
      PROVE  LaunchInv'
  BY <1>4, RequestHolds
<1> QED
  BY <1>1, <1>2, <1>3, <1>4 DEF Next, vars

\* LaunchInv holds in every reachable state.
THEOREM AlwaysLaunchInv == Spec => []LaunchInv
BY InitLaunchInv, StepLaunchInv, AlwaysIInv, LifecycleIsTyped, PTL DEF Spec

\* "Root broker must retain sole ownership of worker descriptors": whatever is requested,
\* refused, killed or denied, between two requests the broker holds its own files and the
\* read end of each worker's log (executor.py, MappingWorker.start()), for any number of
\* requests, processes and sources.
THEOREM NothingIsLeftOpen == Spec => []IdleHoldsNothing
<1>1. LaunchInv => IdleHoldsNothing
  <2> SUFFICES ASSUME LaunchInv, pc = "idle" PROVE Held(fds) = Kept
    BY DEF IdleHoldsNothing, Held, Kept
  <2> QED
    BY DEF LaunchInv, Holding, Carried
<1> QED
  BY <1>1, AlwaysLaunchInv, PTL

\* What a worker serves is what was signed, no more and no less, and it speaks over the
\* request's own stream and log: whatever numbers the broker's descriptors had
\* (_install_worker_fds()), and although the planner drops repeated exports
\* (build_namespace_plan(), the worker's verify_fd()).
THEOREM SignedIsServed == Spec => []ServesWhatWasSigned
<1>1. LaunchInv => ServesWhatWasSigned
  <2> SUFFICES ASSUME LaunchInv, NEW p \in Serving
               PROVE  /\ {[target |-> e.target, access |-> e.access, ino |-> Ino[e.obj],
                            kind |-> Kind[e.obj]] : e \in worker[p].tree}
                            = {Entry(x) : x \in ToSet(worker[p].grant.exports)}
                      /\ worker[p].table[6] = Stream(worker[p].n)
                      /\ worker[p].table[7] = LogWrite(worker[p].n)
                      /\ worker[p].table[RuntimeNumber] = Runtime(worker[p].n)
    BY DEF ServesWhatWasSigned, Entry
  <2>1. worker[p] # NoWorker /\ p \in Pids /\ worker[p].st = "serving"
    BY DEF Serving, NoWorker, None
  <2> QED
    BY <2>1 DEF LaunchInv, Equipment, Equipped
<1> QED
  BY <1>1, AlwaysLaunchInv, PTL

-----------------------------------------------------------------------------
(* What the planner computes                                               *)

\* Numbers can be put in order.
LEMMA SortingExists ==
  ASSUME NEW n \in Nat, NEW r, \A i \in 1..n : r[i] \in Nat
  PROVE  \E p \in Bijection(1..n, 1..n) : \A i, j \in 1..n : i < j => r[p[i]] <= r[p[j]]
<1> DEFINE Before(i, j) == r[i] < r[j] \/ (r[i] = r[j] /\ i < j)
           Earlier(i) == {j \in 1..n : Before(j, i)}
           pos == [i \in 1..n |-> Cardinality(Earlier(i)) + 1]
<1>1. IsFiniteSet(1..n) /\ Cardinality(1..n) = n
  <2>1. CASE n = 0
    <3>1. 1..n = {}
      BY <2>1
    <3> QED
      BY <2>1, <3>1, FS_EmptySet
  <2>2. CASE n # 0
    <3>1. n - 1 \in Nat /\ 1 + (n - 1) = n
      BY <2>2
    <3>2. IsFiniteSet(1..(1 + (n - 1))) /\ Cardinality(1..(1 + (n - 1))) = (n - 1) + 1
      BY <3>1, Interval
    <3> QED
      BY <3>1, <3>2
  <2> QED
    BY <2>1, <2>2
<1>2. ASSUME NEW i \in 1..n
      PROVE  IsFiniteSet(Earlier(i)) /\ Cardinality(Earlier(i)) \in Nat /\ i \notin Earlier(i)
  <2>1. Earlier(i) \in SUBSET (1..n) /\ i \notin Earlier(i)
    OBVIOUS
  <2> HIDE DEF Earlier
  <2> QED
    BY <1>1, <2>1, FS_Subset, FS_CardinalityType
<1>3. ASSUME NEW i \in 1..n, NEW S, IsFiniteSet(S), Earlier(i) \cup {i} \subseteq S
      PROVE  Cardinality(Earlier(i)) + 1 <= Cardinality(S)
  <2> HIDE DEF Earlier
  <2>1. Cardinality(Earlier(i) \cup {i}) = Cardinality(Earlier(i)) + 1
    BY <1>2, FS_AddElement
  <2>2. Earlier(i) \cup {i} \in SUBSET S
    BY <1>3
  <2>3. Cardinality(Earlier(i) \cup {i}) <= Cardinality(S)
    BY <1>3, <2>2, FS_Subset
  <2> QED
    BY <2>1, <2>3
<1>4. ASSUME NEW i \in 1..n, NEW j \in 1..n, Before(i, j)
      PROVE  pos[i] < pos[j]
  <2>1. Earlier(i) \cup {i} \subseteq Earlier(j)
    BY <1>4
  <2> HIDE DEF Earlier
  <2>2. Cardinality(Earlier(i)) + 1 <= Cardinality(Earlier(j))
    BY <1>2, <1>3, <2>1
  <2> QED
    BY <1>2, <2>2
<1>5. \A i \in 1..n : pos[i] \in 1..n
  <2> SUFFICES ASSUME NEW i \in 1..n PROVE pos[i] \in 1..n
    OBVIOUS
  <2>1. Earlier(i) \cup {i} \subseteq 1..n
    OBVIOUS
  <2> HIDE DEF Earlier
  <2>2. Cardinality(Earlier(i)) + 1 <= n
    BY <1>1, <1>3, <2>1
  <2> QED
    BY <1>2, <2>2
<1>6. \A i, j \in 1..n : i = j \/ Before(i, j) \/ Before(j, i)
  OBVIOUS
<1>7. \A i, j \in 1..n : pos[i] = pos[j] => i = j
  <2> HIDE DEF pos, Before
  <2>1. \A i \in 1..n : pos[i] \in Nat
    BY <1>5
  <2> QED
    BY <1>4, <1>6, <2>1
<1>8. pos \in [1..n -> 1..n]
  <2> HIDE DEF Earlier
  <2> QED
    BY <1>5
<1> HIDE DEF pos
<1>9. pos \in Surjection(1..n, 1..n)
  <2>1. pos \in Injection(1..n, 1..n)
    BY <1>7, <1>8 DEF Injection, IsInjective
  <2> QED
    BY <1>1, <2>1, FS_Injection
<1> DEFINE p == [k \in 1..n |-> CHOOSE i \in 1..n : pos[i] = k]
<1>10. \A k \in 1..n : p[k] \in 1..n /\ pos[p[k]] = k
  BY <1>9 DEF Surjection
<1>11. p \in [1..n -> 1..n]
  BY <1>10
<1> HIDE DEF p
<1>12. \A w \in 1..n : p[pos[w]] = w /\ pos[w] \in 1..n
  BY <1>7, <1>8, <1>10
<1>13. p \in Bijection(1..n, 1..n)
  <2>1. \A i, j \in 1..n : p[i] = p[j] => i = j
    BY <1>10
  <2>2. p \in Injection(1..n, 1..n)
    BY <1>11, <2>1 DEF Injection, IsInjective
  <2>3. p \in Surjection(1..n, 1..n)
    BY <1>11, <1>12 DEF Surjection
  <2> QED
    BY <2>2, <2>3 DEF Bijection
<1>14. ASSUME NEW i \in 1..n, NEW j \in 1..n, i < j
       PROVE  r[p[i]] <= r[p[j]]
  <2>1. pos[p[i]] < pos[p[j]] /\ p[i] \in 1..n /\ p[j] \in 1..n
    BY <1>10, <1>14
  <2>2. ~Before(p[j], p[i])
    <3>1. pos[p[i]] \in Nat /\ pos[p[j]] \in Nat
      BY <1>10
    <3> HIDE DEF Before
    <3> QED
      BY <1>4, <2>1, <3>1
  <2> QED
    BY <2>1, <2>2
<1> QED
  BY <1>13, <1>14

\* The elements of a sequence without repetitions are as many as its places.
LEMMA DistinctCount ==
  ASSUME NEW k \in Nat, NEW q, \A i, j \in 1..k : q[i] = q[j] => i = j
  PROVE  Cardinality({q[i] : i \in 1..k}) = k
<1> DEFINE S == {q[i] : i \in 1..k}
           f == [i \in 1..k |-> q[i]]
<1>1. f \in [1..k -> S] /\ \A i, j \in 1..k : f[i] = f[j] => i = j
  OBVIOUS
<1>2. \A x \in S : \E i \in 1..k : f[i] = x
  OBVIOUS
<1> HIDE DEF f, S
<1>3. f \in Bijection(1..k, S)
  BY <1>1, <1>2 DEF Bijection, Injection, Surjection, IsInjective
<1>4. Cardinality(S) = k
  BY <1>3, FS_CountingElements DEF ExistsBijection
<1> QED
  BY <1>4 DEF S

\* The exports of a grant, in whatever order: a sequence, of targets that have a rank.
Aimed(s) ==
  /\ s \in Seq(ToSet(s))
  /\ \A x \in ToSet(s) : x.target \in ToSet(TargetOrder)

\* Targets differ in rank, and each overlaps itself.
LEMMA RankHolds ==
  ASSUME NEW t \in ToSet(TargetOrder)
  PROVE  Rank(t) \in Nat /\ TargetOrder[Rank(t)] = t /\ Overlap(t, t)
<1>1. DOMAIN TargetOrder = 1..Len(TargetOrder) /\ Len(TargetOrder) \in Nat
  BY TargetsAssumption
<1>2. \E i \in DOMAIN TargetOrder : TargetOrder[i] = t
  BY DEF ToSet
<1>3. Rank(t) \in DOMAIN TargetOrder /\ TargetOrder[Rank(t)] = t
  BY <1>2 DEF Rank
<1>4. t \in Seq(ToSet(t))
  BY TargetsAssumption
<1>5. Len(t) \in Nat
  BY <1>4
<1>6. Overlap(t, t)
  BY <1>5 DEF Overlap, IsPrefix
<1> QED
  BY <1>1, <1>3, <1>6

\* A sequence in some order is as long as it was, of the same elements.
LEMMA InOrderHolds ==
  ASSUME NEW s, s \in Seq(ToSet(s)), NEW order \in Orders(s)
  PROVE  /\ InOrder(s, order) \in Seq(ToSet(s)) /\ Len(InOrder(s, order)) = Len(s)
         /\ ToSet(InOrder(s, order)) = ToSet(s)
         /\ \A i \in 1..Len(s) : InOrder(s, order)[i] = s[order[i]]
<1> DEFINE n == Len(s)
           c == InOrder(s, order)
<1>1. n \in Nat /\ DOMAIN s = 1..n
  OBVIOUS
<1>2. \A i \in 1..n : order[i] \in 1..n
  BY <1>1 DEF Orders, Bijection, Injection
<1>3. \A k \in 1..n : \E i \in 1..n : order[i] = k
  BY <1>1 DEF Orders, Bijection, Surjection
<1>4. c = [i \in 1..n |-> s[order[i]]]
  BY <1>1 DEF InOrder
<1>5. \A i \in 1..n : s[i] \in ToSet(s)
  BY <1>1 DEF ToSet
<1> HIDE DEF n, c
<1>6. c \in Seq(ToSet(s)) /\ Len(c) = n /\ DOMAIN c = 1..n
  BY <1>1, <1>2, <1>4, <1>5
<1>7. ToSet(c) = ToSet(s)
  BY <1>1, <1>2, <1>3, <1>4, <1>6 DEF ToSet
<1> QED
  BY <1>4, <1>6, <1>7 DEF n, c

\* The candidates are the exports, in the order of their targets.
LEMMA CandidatesHold ==
  ASSUME NEW g, Aimed(g.exports)
  PROVE  /\ Candidates(g) \in Seq(ToSet(g.exports))
         /\ ToSet(Candidates(g)) = ToSet(g.exports)
         /\ \A i, j \in 1..Len(Candidates(g)) :
              i < j => Rank(Candidates(g)[i].target) <= Rank(Candidates(g)[j].target)
<1> DEFINE s == g.exports
           n == Len(s)
           r == [i \in 1..n |-> Rank(s[i].target)]
           Sorted(p) == \A i, j \in DOMAIN g.exports :
                          i < j => Rank(g.exports[p[i]].target) <= Rank(g.exports[p[j]].target)
           order == CHOOSE p \in Orders(g.exports) : Sorted(p)
<1>1. n \in Nat /\ DOMAIN s = 1..n
  BY DEF Aimed
<1>2. \A i \in 1..n : r[i] \in Nat
  BY <1>1, RankHolds DEF Aimed, ToSet
<1>3. \E p \in Orders(s) : Sorted(p)
  <2>1. PICK p \in Bijection(1..n, 1..n) : \A i, j \in 1..n : i < j => r[p[i]] <= r[p[j]]
    BY <1>1, <1>2, SortingExists
  <2>2. \A i \in 1..n : p[i] \in 1..n
    BY DEF Bijection, Injection
  <2>3. \A i \in 1..n : r[p[i]] = Rank(s[p[i]].target)
    BY <2>2
  <2> HIDE DEF r
  <2>4. Sorted(p)
    BY <1>1, <2>1, <2>3
  <2>5. p \in Orders(s)
    BY <1>1, <2>1 DEF Orders
  <2> QED
    BY <2>4, <2>5
<1>4. order \in Orders(s) /\ Sorted(order)
  BY <1>3
<1>5. Candidates(g) = InOrder(s, order)
  BY DEF Candidates
<1> HIDE DEF order
<1>6. s \in Seq(ToSet(s))
  BY DEF Aimed
<1>7. /\ Candidates(g) \in Seq(ToSet(s)) /\ Len(Candidates(g)) = n
      /\ ToSet(Candidates(g)) = ToSet(s)
      /\ \A i \in 1..n : Candidates(g)[i] = s[order[i]]
  BY <1>4, <1>5, <1>6, InOrderHolds
<1> QED
  BY <1>1, <1>4, <1>7

\* The first m candidates are such that there is a plan of them.
Fits(c, m) ==
  /\ \A k \in 1..m : ~Reserved(c[k].target)
  /\ \A j, k \in 1..m : Overlap(c[j].target, c[k].target) => Planned(c[j], 0) = Planned(c[k], 0)

\* The plan after m turns: there is none unless the candidates fit; otherwise it has
\* an entry for each of their targets and no other, in the order of targets.
PlansThe(c, m, plan) ==
  /\ plan.ok <=> Fits(c, m)
  /\ plan.ok => \E q :
       /\ plan = [ok |-> TRUE, exports |-> q]
       /\ WellPlanned(q)
       /\ \A i \in DOMAIN q : \E k \in 1..m : q[i] = Planned(c[k], i - 1)
       /\ \A k \in 1..m : \E i \in DOMAIN q : q[i].target = c[k].target
       /\ \A i, j \in DOMAIN q : i < j => Rank(q[i].target) < Rank(q[j].target)

\* Exports are planned alike in one slot when they are in another.
LEMMA PlannedAlike ==
  ASSUME NEW x, NEW y, NEW i, NEW j, Planned(x, i) = Planned(y, i)
  PROVE  Planned(x, j) = Planned(y, j)
<1>1. /\ x.target = y.target /\ x.access = y.access /\ x.kind = y.kind /\ x.ino = y.ino
  BY DEF Planned
<1> QED
  BY <1>1 DEF Planned

\* Overlapping goes both ways.
LEMMA OverlapIsMutual ==
  ASSUME NEW t, NEW u, Overlap(t, u)
  PROVE  Overlap(u, t)
BY DEF Overlap

\* A turn of the loop takes the next candidate into account.
LEMMA PlanNextPlans ==
  ASSUME NEW c, NEW m \in Nat, NEW plan, PlansThe(c, m, plan), plan.ok \/ plan = NoPlan,
         \A k \in 1..(m + 1) : c[k].target \in ToSet(TargetOrder),
         \A k \in 1..m : Rank(c[k].target) <= Rank(c[m + 1].target)
  PROVE  /\ PlansThe(c, m + 1, PlanNext(plan, c[m + 1]))
         /\ PlanNext(plan, c[m + 1]).ok \/ PlanNext(plan, c[m + 1]) = NoPlan
<1> DEFINE x == c[m + 1]
           next == PlanNext(plan, x)
<1>1. \A k \in 1..(m + 1) : k \in 1..m \/ k = m + 1
  OBVIOUS
<1>2. m + 1 \in 1..(m + 1) /\ \A k \in 1..m : k \in 1..(m + 1)
  OBVIOUS
<1>3. SUFFICES /\ next.ok \/ next = NoPlan
               /\ PlansThe(c, m + 1, next)
  OBVIOUS
<1>4. Fits(c, m + 1) => Fits(c, m)
  BY <1>2 DEF Fits
<1>5. ASSUME next = NoPlan, ~Fits(c, m + 1)
      PROVE  PlansThe(c, m + 1, next)
  BY <1>5 DEF PlansThe, NoPlan
<1>6. CASE ~plan.ok
  <2>1. next = NoPlan
    BY <1>6 DEF PlanNext
  <2>2. ~Fits(c, m + 1)
    BY <1>4, <1>6 DEF PlansThe
  <2> QED
    BY <1>5, <2>1, <2>2
<1>7. CASE plan.ok
  <2>1. Fits(c, m)
    BY <1>7 DEF PlansThe
  <2>2. PICK q :
          /\ plan = [ok |-> TRUE, exports |-> q]
          /\ WellPlanned(q)
          /\ \A i \in DOMAIN q : \E k \in 1..m : q[i] = Planned(c[k], i - 1)
          /\ \A k \in 1..m : \E i \in DOMAIN q : q[i].target = c[k].target
          /\ \A i, j \in DOMAIN q : i < j => Rank(q[i].target) < Rank(q[j].target)
    BY <1>7 DEF PlansThe
  <2>3. q \in Seq(ToSet(q)) /\ Len(q) \in Nat /\ DOMAIN q = 1..Len(q)
    BY <2>2 DEF WellPlanned
  <2>4. plan.exports = q
    BY <2>2
  <2> DEFINE same == {e \in ToSet(q) : e.target = x.target}
             nested == \E e \in ToSet(q) : Overlap(e.target, x.target)
  <2>5. next = IF Reserved(x.target) THEN NoPlan
               ELSE IF same # {} THEN IF \A e \in same : SameExport(e, x) THEN plan ELSE NoPlan
               ELSE IF nested THEN NoPlan
               ELSE [plan EXCEPT !.exports = Append(@, Planned(x, Len(@)))]
    BY <1>7, <2>4 DEF PlanNext
  <2> HIDE DEF next
  <2>6. \A e \in ToSet(q) : \E i \in DOMAIN q : e = q[i]
    BY <2>3 DEF ToSet
  <2>7. ASSUME NEW e \in ToSet(q)
        PROVE  \E k \in 1..m : e = Planned(c[k], e.slot) /\ e.target = c[k].target
    <3>1. PICK i \in DOMAIN q : e = q[i]
      BY <2>6
    <3>2. PICK k \in 1..m : q[i] = Planned(c[k], i - 1)
      BY <2>2
    <3>3. e.slot = i - 1 /\ e.target = c[k].target
      BY <3>1, <3>2 DEF Planned
    <3> QED
      BY <3>1, <3>2, <3>3
  <2>8. CASE Reserved(x.target)
    <3>1. ~Fits(c, m + 1)
      BY <1>2, <2>8 DEF Fits
    <3>2. next = NoPlan
      BY <2>5, <2>8
    <3> QED
      BY <1>5, <3>1, <3>2
  <2>9. CASE ~Reserved(x.target) /\ same # {}
    <3>1. CASE \A e \in same : SameExport(e, x)
      <4>1. next = plan
        BY <2>5, <2>9, <3>1
      <4>2. PICK e \in ToSet(q) : e.target = x.target /\ SameExport(e, x)
        BY <2>9, <3>1
      <4>3. PICK l \in 1..m : e = Planned(c[l], e.slot) /\ e.target = c[l].target
        BY <2>7
      <4>4. Planned(c[l], 0) = Planned(x, 0) /\ c[l].target = x.target
        <5>1. Planned(c[l], e.slot) = Planned(x, e.slot)
          BY <4>2, <4>3 DEF SameExport
        <5> QED
          BY <4>2, <4>3, <5>1, PlannedAlike
      <4>5. Fits(c, m + 1)
        <5>1. ASSUME NEW j \in 1..m, Overlap(c[j].target, x.target) \/ Overlap(x.target, c[j].target)
              PROVE  Planned(c[j], 0) = Planned(x, 0)
          <6>1. Overlap(c[j].target, c[l].target)
            BY <4>4, <5>1, OverlapIsMutual
          <6> QED
            BY <2>1, <4>4, <6>1 DEF Fits
        <5>2. ASSUME NEW j \in 1..(m + 1), NEW k \in 1..(m + 1),
                     Overlap(c[j].target, c[k].target)
              PROVE  Planned(c[j], 0) = Planned(c[k], 0)
          <6>1. CASE j \in 1..m /\ k \in 1..m
            BY <2>1, <5>2, <6>1 DEF Fits
          <6>2. CASE j = m + 1 /\ k \in 1..m
            BY <5>1, <5>2, <6>2
          <6>3. CASE j \in 1..m /\ k = m + 1
            BY <5>1, <5>2, <6>3
          <6> QED
            BY <1>1, <6>1, <6>2, <6>3
        <5>3. \A k \in 1..(m + 1) : ~Reserved(c[k].target)
          BY <1>1, <2>1, <2>9 DEF Fits
        <5> QED
          BY <5>2, <5>3 DEF Fits
      <4>6. \A k \in 1..(m + 1) : \E i \in DOMAIN q : q[i].target = c[k].target
        BY <1>1, <2>2, <4>4
      <4>7. \A i \in DOMAIN q : \E k \in 1..(m + 1) : q[i] = Planned(c[k], i - 1)
        BY <1>2, <2>2
      <4>8. plan.ok
        BY <1>7
      <4> QED
        BY <2>2, <4>1, <4>5, <4>6, <4>7, <4>8 DEF PlansThe
    <3>2. CASE ~\A e \in same : SameExport(e, x)
      <4>1. next = NoPlan
        BY <2>5, <2>9, <3>2
      <4>2. PICK e \in ToSet(q) : e.target = x.target /\ ~SameExport(e, x)
        BY <3>2
      <4>3. PICK l \in 1..m : e = Planned(c[l], e.slot) /\ e.target = c[l].target
        BY <2>7
      <4>4. Overlap(c[l].target, x.target)
        BY <1>2, <4>2, <4>3, RankHolds
      <4>5. Planned(c[l], 0) # Planned(x, 0)
        BY <4>2, <4>3, PlannedAlike DEF SameExport
      <4>6. ~Fits(c, m + 1)
        BY <1>2, <4>4, <4>5 DEF Fits
      <4> QED
        BY <1>5, <4>1, <4>6
    <3> QED
      BY <3>1, <3>2
  <2>10. CASE ~Reserved(x.target) /\ same = {} /\ nested
    <3>1. next = NoPlan
      BY <2>5, <2>10
    <3>2. PICK e \in ToSet(q) : Overlap(e.target, x.target)
      BY <2>10
    <3>3. e.target # x.target
      BY <2>10
    <3>4. PICK l \in 1..m : e = Planned(c[l], e.slot) /\ e.target = c[l].target
      BY <2>7
    <3>5. Planned(c[l], 0) # Planned(x, 0)
      BY <3>3, <3>4 DEF Planned
    <3>6. ~Fits(c, m + 1)
      BY <1>2, <3>2, <3>4, <3>5 DEF Fits
    <3> QED
      BY <1>5, <3>1, <3>6
  <2>11. CASE ~Reserved(x.target) /\ same = {} /\ ~nested
    <3> DEFINE e == Planned(x, Len(q))
               t == Append(q, e)
    <3>1. next = [ok |-> TRUE, exports |-> t]
      BY <2>2, <2>5, <2>11
    <3>2. WellPlanned(t)
      <4>1. WellPlanned(next.exports)
        BY <2>2, <2>4, PlanNextHolds DEF next
      <4> QED
        BY <3>1, <4>1
    <3>3. /\ DOMAIN t = 1..(Len(q) + 1) /\ t[Len(q) + 1] = e
          /\ \A i \in 1..Len(q) : t[i] = q[i]
      BY <2>3
    <3>4. e.target = x.target
      BY DEF Planned
    <3>5. \A j \in 1..m : ~Overlap(c[j].target, x.target) /\ ~Overlap(x.target, c[j].target)
      <4>1. ASSUME NEW j \in 1..m PROVE ~Overlap(c[j].target, x.target)
        <5>1. PICK i \in DOMAIN q : q[i].target = c[j].target
          BY <2>2
        <5>2. q[i] \in ToSet(q)
          BY DEF ToSet
        <5> QED
          BY <2>11, <5>1, <5>2
      <4> QED
        BY <4>1, OverlapIsMutual
    <3>6. Fits(c, m + 1)
      <4>1. \A k \in 1..(m + 1) : ~Reserved(c[k].target)
        BY <1>1, <2>1, <2>11 DEF Fits
      <4>2. ASSUME NEW j \in 1..(m + 1), NEW k \in 1..(m + 1),
                   Overlap(c[j].target, c[k].target)
            PROVE  Planned(c[j], 0) = Planned(c[k], 0)
        <5>1. CASE j \in 1..m /\ k \in 1..m
          BY <2>1, <4>2, <5>1 DEF Fits
        <5>2. CASE ~(j \in 1..m /\ k \in 1..m)
          <6>1. j = m + 1 /\ k = m + 1
            BY <1>1, <3>5, <4>2, <5>2
          <6> QED
            BY <6>1
        <5> QED
          BY <5>1, <5>2
      <4> QED
        BY <4>1, <4>2 DEF Fits
    <3>7. ASSUME NEW i \in DOMAIN t PROVE \E k \in 1..(m + 1) : t[i] = Planned(c[k], i - 1)
      <4>1. CASE i \in 1..Len(q)
        BY <1>2, <2>2, <2>3, <3>3, <4>1
      <4>2. CASE i = Len(q) + 1
        <5>1. i - 1 = Len(q)
          BY <2>3, <4>2
        <5> QED
          BY <1>2, <3>3, <4>2, <5>1
      <4> QED
        BY <2>3, <3>3, <4>1, <4>2
    <3>8. ASSUME NEW k \in 1..(m + 1) PROVE \E i \in DOMAIN t : t[i].target = c[k].target
      <4>1. CASE k \in 1..m
        <5>1. PICK i \in DOMAIN q : q[i].target = c[k].target
          BY <2>2, <4>1
        <5>2. i \in 1..Len(q) /\ i \in DOMAIN t
          BY <2>3, <3>3
        <5> HIDE DEF t
        <5> QED
          BY <3>3, <5>1, <5>2
      <4>2. CASE k = m + 1
        <5>1. Len(q) + 1 \in DOMAIN t
          BY <2>3, <3>3
        <5> HIDE DEF t, e
        <5> QED
          BY <3>3, <3>4, <4>2, <5>1
      <4> QED
        BY <1>1, <4>1, <4>2
    <3>9. ASSUME NEW i \in DOMAIN t, NEW j \in DOMAIN t, i < j
          PROVE  Rank(t[i].target) < Rank(t[j].target)
      <4>1. i \in 1..Len(q) /\ (j \in 1..Len(q) \/ j = Len(q) + 1)
        BY <2>3, <3>3, <3>9
      <4>2. CASE j \in 1..Len(q)
        <5> HIDE DEF t
        <5> QED
          BY <2>2, <2>3, <3>3, <3>9, <4>1, <4>2
      <4>3. CASE j = Len(q) + 1
        <5>1. PICK k \in 1..m : q[i] = Planned(c[k], i - 1)
          BY <2>2, <2>3, <4>1
        <5>2. q[i].target = c[k].target
          BY <5>1 DEF Planned
        <5>3. q[i].target # x.target
          BY <2>3, <2>11, <4>1 DEF ToSet
        <5>4. /\ Rank(c[k].target) \in Nat /\ TargetOrder[Rank(c[k].target)] = c[k].target
              /\ Rank(x.target) \in Nat /\ TargetOrder[Rank(x.target)] = x.target
          BY <1>2, RankHolds
        <5>5. Rank(c[k].target) <= Rank(x.target) /\ Rank(c[k].target) # Rank(x.target)
          BY <5>2, <5>3, <5>4
        <5>6. t[i] = q[i] /\ t[j].target = x.target
          BY <3>3, <3>4, <4>1, <4>3
        <5> HIDE DEF t, x
        <5> QED
          BY <5>2, <5>4, <5>5, <5>6
      <4> QED
        BY <4>1, <4>2, <4>3
    <3> HIDE DEF t
    <3>10. next.ok
      BY <3>1
    <3> QED
      BY <3>1, <3>2, <3>6, <3>7, <3>8, <3>9, <3>10 DEF PlansThe
  <2> QED
    BY <2>8, <2>9, <2>10, <2>11
<1> QED
  BY <1>6, <1>7

\* So the loop over all the candidates makes a plan of them.
LEMMA PlanFromPlans ==
  ASSUME NEW c, Len(c) \in Nat,
         \A k \in 1..Len(c) : c[k].target \in ToSet(TargetOrder),
         \A j, k \in 1..Len(c) : j < k => Rank(c[j].target) <= Rank(c[k].target)
  PROVE  PlansThe(c, Len(c), PlanFrom(c))
<1> DEFINE start == [ok |-> TRUE, exports |-> <<>>]
           n == Len(c)
<1>1. PICK f : /\ f = [i \in 0..n |-> IF i = 0 THEN start ELSE PlanNext(f[i - 1], c[i])]
               /\ PlanFrom(c) = f[n]
  BY PlanExists
<1> DEFINE S == {m \in 0..n : PlansThe(c, m, f[m]) /\ (f[m].ok \/ f[m] = NoPlan)}
<1>2. 0 \in S
  <2>1. f[0] = start
    <3> HIDE DEF start
    <3> QED
      BY <1>1
  <2>2. Fits(c, 0)
    BY DEF Fits
  <2>3. WellPlanned(<<>>) /\ DOMAIN <<>> = {}
    BY DEF WellPlanned, ToSet
  <2>4. start.ok
    OBVIOUS
  <2> DEFINE Has(q) ==
               /\ start = [ok |-> TRUE, exports |-> q]
               /\ WellPlanned(q)
               /\ \A i \in DOMAIN q : \E k \in 1..0 : q[i] = Planned(c[k], i - 1)
               /\ \A k \in 1..0 : \E i \in DOMAIN q : q[i].target = c[k].target
               /\ \A i, j \in DOMAIN q : i < j => Rank(q[i].target) < Rank(q[j].target)
  <2>5. PlansThe(c, 0, start)
    <3>1. Has(<<>>)
      BY <2>3
    <3> HIDE DEF Has
    <3>2. \E q : Has(q)
      BY <3>1
    <3> HIDE DEF start
    <3> QED
      BY <2>2, <2>4, <3>2 DEF PlansThe, Has
  <2> HIDE DEF start
  <2> QED
    BY <2>1, <2>4, <2>5
<1>3. ASSUME NEW m \in 0..(n - 1), m \in S PROVE m + 1 \in S
  <2>1. m \in Nat /\ m + 1 \in 0..n /\ m + 1 # 0 /\ (m + 1) - 1 = m
    OBVIOUS
  <2>2. f[m + 1] = PlanNext(f[m], c[m + 1])
    <3> HIDE DEF start
    <3> QED
      BY <1>1, <2>1
  <2>3. \A k \in 1..(m + 1) : c[k].target \in ToSet(TargetOrder)
    OBVIOUS
  <2>4. \A k \in 1..m : Rank(c[k].target) <= Rank(c[m + 1].target)
    OBVIOUS
  <2>5. PlansThe(c, m, f[m]) /\ (f[m].ok \/ f[m] = NoPlan)
    BY <1>3
  <2>6. /\ PlansThe(c, m + 1, PlanNext(f[m], c[m + 1]))
        /\ PlanNext(f[m], c[m + 1]).ok \/ PlanNext(f[m], c[m + 1]) = NoPlan
    BY <2>1, <2>3, <2>4, <2>5, PlanNextPlans
  <2> QED
    BY <2>1, <2>2, <2>6
<1>4. n \in S
  <2> HIDE DEF S
  <2>1. \A m \in 0..(n - 1) : m \in S => m + 1 \in S
    BY <1>3
  <2>2. \A m \in 0..n : m \in S
    BY <1>2, <2>1, Counted
  <2> QED
    BY <2>2
<1> QED
  BY <1>1, <1>4

\* A plan in the order of its targets is numbered by how many come before.
LEMMA NthTarget ==
  ASSUME NEW q, WellPlanned(q), NEW i \in DOMAIN q,
         \A j \in DOMAIN q : Rank(q[j].target) \in Nat,
         \A j, k \in DOMAIN q : j < k => Rank(q[j].target) < Rank(q[k].target)
  PROVE  Cardinality({u \in {q[j].target : j \in DOMAIN q} : Rank(u) < Rank(q[i].target)}) = i - 1
<1>1. DOMAIN q = 1..Len(q) /\ Len(q) \in Nat
  BY DEF WellPlanned
<1>2. ASSUME NEW j \in DOMAIN q PROVE Rank(q[j].target) < Rank(q[i].target) <=> j < i
  BY <1>1
<1> DEFINE r == [j \in 1..(i - 1) |-> q[j].target]
<1>3. i - 1 \in Nat /\ 1..(i - 1) \subseteq DOMAIN q
  BY <1>1
<1>4. \A j, k \in 1..(i - 1) : r[j] = r[k] => j = k
  BY <1>3 DEF WellPlanned
<1>5. {u \in {q[j].target : j \in DOMAIN q} : Rank(u) < Rank(q[i].target)}
        = {r[j] : j \in 1..(i - 1)}
  BY <1>1, <1>2
<1> HIDE DEF r
<1>6. Cardinality({r[j] : j \in 1..(i - 1)}) = i - 1
  <2> DEFINE m == i - 1
  <2>1. m \in Nat /\ \A j, k \in 1..m : r[j] = r[k] => j = k
    BY <1>3, <1>4
  <2> HIDE DEF m
  <2>2. Cardinality({r[j] : j \in 1..m}) = m
    BY <2>1, DistinctCount
  <2> QED
    BY <2>2 DEF m
<1> QED
  BY <1>5, <1>6

\* The loop computes the reference, each entry signed.
LEMMA PlanIsTheReference ==
  ASSUME NEW g, Aimed(g.exports)
  PROVE  /\ BuildPlan(g).ok <=> HasPlan(g)
         /\ HasPlan(g) => /\ BuildPlan(g).exports = PlanOf(g)
                          /\ \A i \in DOMAIN PlanOf(g) : Signed(g, PlanOf(g)[i])
<1> DEFINE c == Candidates(g)
           X == ToSet(g.exports)
<1>1. c \in Seq(X) /\ Len(c) \in Nat /\ DOMAIN c = 1..Len(c) /\ ToSet(c) = X
  BY CandidatesHold
<1>2. \A k \in 1..Len(c) : c[k] \in X
  BY <1>1
<1>3. \A x \in X : \E k \in 1..Len(c) : x = c[k]
  BY <1>1 DEF ToSet
<1>4. \A x \in X : x.target \in ToSet(TargetOrder)
  BY DEF Aimed
<1>5. PlansThe(c, Len(c), BuildPlan(g))
  <2>1. \A j, k \in 1..Len(c) : j < k => Rank(c[j].target) <= Rank(c[k].target)
    BY CandidatesHold
  <2> HIDE DEF c, X
  <2> QED
    BY <1>1, <1>2, <1>4, <2>1, PlanFromPlans DEF BuildPlan, c
<1> HIDE DEF c, X
<1>6. Fits(c, Len(c)) <=> HasPlan(g)
  <2>1. ASSUME Fits(c, Len(c)) PROVE HasPlan(g)
    <3>1. \A x \in X : ~Reserved(x.target)
      BY <1>3, <2>1 DEF Fits
    <3>2. ASSUME NEW x \in X, NEW y \in X, Overlap(x.target, y.target)
          PROVE  Planned(x, 0) = Planned(y, 0)
      <4>1. PICK j, k \in 1..Len(c) : x = c[j] /\ y = c[k]
        BY <1>3
      <4> QED
        BY <2>1, <3>2, <4>1 DEF Fits
    <3> QED
      BY <3>1, <3>2 DEF HasPlan, X
  <2>2. ASSUME HasPlan(g) PROVE Fits(c, Len(c))
    BY <1>2, <2>2 DEF HasPlan, Fits, X
  <2> QED
    BY <2>1, <2>2
<1>7. ASSUME HasPlan(g)
      PROVE  /\ BuildPlan(g).exports = PlanOf(g)
             /\ \A i \in DOMAIN PlanOf(g) : Signed(g, PlanOf(g)[i])
  <2>1. PICK q :
          /\ BuildPlan(g) = [ok |-> TRUE, exports |-> q]
          /\ WellPlanned(q)
          /\ \A i \in DOMAIN q : \E k \in 1..Len(c) : q[i] = Planned(c[k], i - 1)
          /\ \A k \in 1..Len(c) : \E i \in DOMAIN q : q[i].target = c[k].target
          /\ \A i, j \in DOMAIN q : i < j => Rank(q[i].target) < Rank(q[j].target)
    BY <1>5, <1>6, <1>7 DEF PlansThe
  <2>2. q \in Seq(ToSet(q)) /\ DOMAIN q = 1..Len(q) /\ Len(q) \in Nat
    BY <2>1 DEF WellPlanned
  <2>3. ASSUME NEW i \in DOMAIN q
        PROVE  \E x \in X : q[i] = Planned(x, i - 1) /\ q[i].target = x.target
    <3>1. PICK k \in 1..Len(c) : q[i] = Planned(c[k], i - 1)
      BY <2>1
    <3>2. q[i].target = c[k].target
      BY <3>1 DEF Planned
    <3> QED
      BY <1>2, <3>1, <3>2
  <2>4. \A i \in DOMAIN q : Rank(q[i].target) \in Nat
    BY <1>4, <2>3, RankHolds
  <2> DEFINE targets == {x.target : x \in X}
             Before(t) == {u \in targets : Rank(u) < Rank(t)}
             nth(i) == CHOOSE t \in targets : Cardinality(Before(t)) = i - 1
  <2>5. targets = {q[i].target : i \in DOMAIN q}
    <3>1. ASSUME NEW x \in X PROVE \E i \in DOMAIN q : q[i].target = x.target
      BY <1>3, <2>1
    <3> QED
      BY <2>3, <3>1
  <2>6. ASSUME NEW i \in DOMAIN q PROVE Cardinality(Before(q[i].target)) = i - 1
    <3> HIDE DEF targets
    <3> QED
      BY <2>1, <2>4, <2>5, NthTarget
  <2>7. ASSUME NEW i \in DOMAIN q PROVE nth(i) = q[i].target
    <3>1. q[i].target \in targets
      BY <2>5
    <3>2. ASSUME NEW t \in targets, Cardinality(Before(t)) = i - 1
          PROVE  t = q[i].target
      <4>1. PICK k \in DOMAIN q : t = q[k].target
        BY <2>5
      <4>2. Cardinality(Before(t)) = k - 1
        BY <2>6, <4>1
      <4>3. k = i
        BY <2>2, <3>2, <4>2
      <4> QED
        BY <4>1, <4>3
    <3> HIDE DEF targets, Before
    <3> QED
      BY <2>6, <3>1, <3>2
  <2>8. Cardinality(targets) = Len(q)
    <3> DEFINE r == [i \in 1..Len(q) |-> q[i].target]
    <3>1. \A i, j \in 1..Len(q) : r[i] = r[j] => i = j
      BY <2>1, <2>2 DEF WellPlanned
    <3>2. targets = {r[i] : i \in 1..Len(q)}
      <4> HIDE DEF targets
      <4> QED
        BY <2>2, <2>5
    <3> HIDE DEF r, targets
    <3> QED
      BY <2>2, <3>1, <3>2, DistinctCount
  <2> DEFINE entry(i) == Planned(CHOOSE x \in X : x.target = nth(i), i - 1)
  <2>9. ASSUME NEW i \in DOMAIN q PROVE q[i] = entry(i)
    <3> HIDE DEF nth, targets, Before
    <3>1. PICK x \in X : q[i] = Planned(x, i - 1) /\ q[i].target = x.target
      BY <2>3
    <3> DEFINE y == CHOOSE z \in X : z.target = nth(i)
    <3>2. y \in X /\ y.target = x.target
      BY <2>7, <3>1
    <3> HIDE DEF y
    <3>3. Overlap(x.target, y.target)
      BY <1>4, <3>2, RankHolds
    <3>4. Planned(x, 0) = Planned(y, 0)
      BY <1>7, <3>2, <3>3 DEF HasPlan, X
    <3>5. Planned(x, i - 1) = Planned(y, i - 1)
      BY <3>4, PlannedAlike
    <3> QED
      BY <3>1, <3>5 DEF y
  <2>10. PlanOf(g) = [i \in 1..Cardinality(targets) |-> entry(i)]
    BY DEF PlanOf, X
  <2>11. BuildPlan(g).exports = q
    BY <2>1
  <2>12. ASSUME NEW i \in DOMAIN q PROVE Signed(g, q[i])
    <3>1. PICK x \in X : q[i] = Planned(x, i - 1)
      BY <2>3
    <3>2. q[i].slot = i - 1
      BY <3>1 DEF Planned
    <3> QED
      BY <3>1, <3>2 DEF Signed, SameExport, X
  <2> HIDE DEF entry, nth, targets, Before
  <2>13. q = [i \in 1..Len(q) |-> q[i]]
    BY <2>2
  <2>14. q = PlanOf(g)
    BY <2>2, <2>8, <2>9, <2>10, <2>13
  <2> QED
    BY <2>11, <2>12, <2>14
<1> QED
  BY <1>5, <1>6, <1>7 DEF PlansThe

\* "Equivalent grants produce identical plans".
LEMMA PlansAgree ==
  ASSUME NEW g, Aimed(g.exports)
  PROVE  PlanIsCanonical(g)
<1> SUFFICES ASSUME NEW order \in Orders(g.exports)
             PROVE  LET h == [exports |-> InOrder(g.exports, order)]
                    IN /\ BuildPlan(h).ok <=> HasPlan(g)
                       /\ HasPlan(g) => BuildPlan(h).exports = PlanOf(g)
  BY DEF PlanIsCanonical
<1> DEFINE h == [exports |-> InOrder(g.exports, order)]
<1>1. h.exports = InOrder(g.exports, order)
  OBVIOUS
<1> HIDE DEF h
<1>2. h.exports \in Seq(ToSet(g.exports)) /\ ToSet(h.exports) = ToSet(g.exports)
  BY <1>1, InOrderHolds DEF Aimed
<1>3. Aimed(h.exports)
  BY <1>2 DEF Aimed
<1>4. (HasPlan(h) <=> HasPlan(g)) /\ PlanOf(h) = PlanOf(g)
  BY <1>2 DEF HasPlan, PlanOf
<1> QED
  BY <1>3, <1>4, PlanIsTheReference DEF h

\* While a request is served the plan made of its grant is the reference, whatever
\* order its exports are in.
THEOREM EqualGrantsEqualPlans == Spec => []PlansAreCanonical
<1>1. IInv /\ LifecycleTypeOK => PlansAreCanonical
  <2> SUFFICES ASSUME IInv, LifecycleTypeOK, pc # "idle" PROVE PlanIsCanonical(req)
    BY DEF PlansAreCanonical
  <2>1. req \in Proposals
    BY DEF IInv, Granted, LifecycleTypeOK
  <2>2. Aimed(req.exports)
    BY <2>1, ProposalsAssumption, TargetsAssumption DEF WellFormed, Aimed
  <2> QED
    BY <2>2, PlansAgree
<1> QED
  BY <1>1, AlwaysIInv, LifecycleIsTyped, PTL

-----------------------------------------------------------------------------
(* What is not refused                                                     *)

\* An object is the one that was signed for the planned export.
ShowsAs(e, o) == Ino[o] = e.ino /\ Kind[o] = e.kind

\* What has been pinned are the signed objects.
Matched == \A i \in DOMAIN resolved : ShowsAs(BuildPlan(req).exports[i], resolved[i])

\* A worker's plan is its grant's, and each slot of it is filled with the clone that was
\* sealed into it, of the signed object.
Filled(w) ==
  /\ PlannedExports(w) = BuildPlan(w.grant).exports
  /\ \A i \in DOMAIN w.entries :
       LET e == w.entries[i].export
           file == w.table[SourceBase + e.slot]
       IN file.what = "clone" /\ <<file.n, file.i>> = w.entries[i].mount /\ ShowsAs(e, file.obj)

AllFilled == \A p \in Pids : worker[p] # NoWorker => Filled(worker[p])

\* As long as nothing fails, every path has its first object, and a staging directory is
\* that of a live worker.
Undisturbed ==
  calm => /\ at = FirstAt
          /\ \A p \in staging : p \in Pids /\ worker[p] # NoWorker
          /\ pc = "handshake" => pid \notin staging

\* The two halves of CalmIsServed.
Unrefused == calm /\ pc = "refuse" => ~(Servable(req) /\ Len(req.exports) = Len(PlanOf(req)))
Unrejected == calm => \A p \in Pids : worker[p].st = "rejected" => ~Servable(worker[p].grant)

\* The inductive invariant of the refusals.
CalmInv == Matched /\ AllFilled /\ Undisturbed /\ Unrefused /\ Unrejected

\* The export found for a planned one is signed like it.
LEMMA ExportFound ==
  ASSUME NEW g, g.exports \in Seq(ToSet(g.exports)), NEW e, Signed(g, e)
  PROVE  ExportOf(g, e) \in ToSet(g.exports) /\ SameExport(e, ExportOf(g, e))
<1> DEFINE I == {i \in 1..Len(g.exports) : SameExport(e, g.exports[i])}
<1>1. DOMAIN g.exports = 1..Len(g.exports) /\ Len(g.exports) \in Nat
  OBVIOUS
<1>2. I # {} /\ I \subseteq Nat
  BY <1>1 DEF Signed, ToSet
<1>3. ExportOf(g, e) = g.exports[Min(I)]
  BY <1>2 DEF ExportOf, SelectInSeq
<1>4. \E x \in I : \A y \in I : x <= y
  <2> HIDE DEF I
  <2>1. PICK x \in I : \A y \in I : ~(y < x)
    BY <1>2, Least
  <2> QED
    BY <1>2, <2>1
<1>5. Min(I) \in I
  BY <1>4 DEF Min
<1> QED
  BY <1>1, <1>3, <1>5 DEF ToSet

\* The plan of a grant that can be served is the reference, each entry signed.
LEMMA ServablePlan ==
  ASSUME NEW g \in Proposals, HasPlan(g)
  PROVE  /\ g.exports \in Seq(ToSet(g.exports)) /\ Len(g.exports) \in Nat \ {0}
         /\ BuildPlan(g).ok /\ BuildPlan(g).exports = PlanOf(g)
         /\ \A i \in DOMAIN BuildPlan(g).exports : Signed(g, BuildPlan(g).exports[i])
<1> USE ProposalsAssumption, TargetsAssumption
<1>1. g.exports \in Seq(ToSet(g.exports)) /\ Len(g.exports) \in Nat \ {0}
  BY DEF WellFormed
<1>2. Aimed(g.exports)
  BY <1>1 DEF Aimed
<1>3. BuildPlan(g).ok /\ BuildPlan(g).exports = PlanOf(g)
  BY <1>2, PlanIsTheReference
<1>4. \A i \in DOMAIN PlanOf(g) : Signed(g, PlanOf(g)[i])
  BY <1>2, PlanIsTheReference
<1> QED
  BY <1>1, <1>3, <1>4

\* Workers that stay as they are, or go.
LEMMA FilledStand ==
  ASSUME AllFilled, \A q \in Pids : worker'[q] = worker[q] \/ worker'[q] = NoWorker
  PROVE  AllFilled'
<1> SUFFICES ASSUME NEW q \in Pids, worker'[q] # NoWorker
             PROVE  Filled(worker'[q])
  BY DEF AllFilled, Filled, ShowsAs, PlannedExports
<1> QED
  BY DEF AllFilled

\* No worker comes to reject its plan.
LEMMA UnrejectedStand ==
  ASSUME Unrejected, calm' => calm,
         \A q \in Pids : worker'[q] = worker[q] \/ worker'[q].st # "rejected"
  PROVE  Unrejected'
BY DEF Unrejected, Servable, Matches

\* A step of the broker before it has a worker.
LEMMA BrokerCalm ==
  ASSUME CalmInv, UNCHANGED <<at, worker, staging>>, Matched', Unrefused', calm' => calm,
         pc' # "handshake"
  PROVE  CalmInv'
<1>1. AllFilled'
  BY FilledStand DEF CalmInv
<1>2. Unrejected'
  BY UnrejectedStand DEF CalmInv
<1>3. Undisturbed'
  BY DEF CalmInv, Undisturbed
<1> QED
  BY <1>1, <1>2, <1>3 DEF CalmInv

\* A grant is refused at once only when it is not within the ceiling or has no plan.
LEMMA RequestCalm ==
  ASSUME IInv, LifecycleTypeOK, CalmInv, NEW g \in stored, Request(g)
  PROVE  CalmInv'
<1>1. /\ pc = "idle" /\ req' = g /\ UNCHANGED <<at, resolved, worker, staging, calm>>
      /\ pc' = IF WithinCeiling(g) /\ BuildPlan(g).ok THEN "resolve" ELSE "refuse"
  BY DEF Request, Goto
<1>2. resolved' = <<>>
  BY <1>1 DEF IInv, Pinning
<1>3. Matched'
  BY <1>2 DEF Matched
<1>4. pc' = "refuse" => ~Servable(g)
  <2>1. g \in Proposals
    BY DEF LifecycleTypeOK
  <2>2. HasPlan(g) => BuildPlan(g).ok
    BY <2>1, ServablePlan
  <2> QED
    BY <1>1, <2>2 DEF Servable
<1>5. Unrefused'
  BY <1>1, <1>4 DEF Unrefused, Servable, Matches
<1>6. pc' # "handshake"
  BY <1>1
<1> QED
  BY <1>1, <1>3, <1>5, <1>6, BrokerCalm

\* While no path changes, each source of a grant that can be served resolves.
LEMMA ResolveNextCalm ==
  ASSUME IInv, LifecycleTypeOK, CalmInv, ResolveNext
  PROVE  CalmInv'
<1> DEFINE plan == BuildPlan(req).exports
           e == plan[Len(resolved) + 1]
           x == ExportOf(req, e)
           o == at[x.source]
<1>1. /\ pc = "resolve" /\ UNCHANGED <<at, req, worker, staging, calm>>
      /\ Len(resolved) < Len(plan)
      /\ IF Signed(req, e) /\ Resolves(x)
         THEN resolved' = Append(resolved, o) /\ UNCHANGED pc
         ELSE pc' = "refuse" /\ UNCHANGED resolved
  BY DEF ResolveNext, Goto
<1>2. req \in Proposals
  BY <1>1 DEF IInv, Granted, LifecycleTypeOK
<1>3. req.exports \in Seq(ToSet(req.exports))
  BY <1>2, ProposalsAssumption DEF WellFormed
<1>4. resolved \in Seq(ToSet(resolved)) /\ Len(resolved) \in Nat
      /\ DOMAIN resolved = 1..Len(resolved)
  BY LenProperties DEF IInv, Pinning
<1> HIDE DEF e, x, o, plan
<1>5. Matched'
  <2>1. CASE UNCHANGED resolved
    BY <1>1, <2>1 DEF CalmInv, Matched, ShowsAs
  <2>2. CASE Signed(req, e) /\ Resolves(x) /\ resolved' = Append(resolved, o)
    <3>1. SameExport(e, x)
      BY <1>3, <2>2, ExportFound DEF x
    <3>2. ShowsAs(e, o)
      BY <2>2, <3>1 DEF Resolves, Matches, SameExport, Planned, ShowsAs, o
    <3>3. /\ DOMAIN resolved' = 1..(Len(resolved) + 1)
          /\ resolved'[Len(resolved) + 1] = o
          /\ \A i \in 1..Len(resolved) : resolved'[i] = resolved[i]
      BY <1>4, <2>2
    <3>4. ASSUME NEW i \in DOMAIN resolved'
          PROVE  ShowsAs(plan[i], resolved'[i])
      <4>1. CASE i \in 1..Len(resolved)
        BY <1>4, <3>3, <4>1 DEF CalmInv, Matched, plan
      <4>2. CASE i = Len(resolved) + 1
        BY <3>2, <3>3, <4>2 DEF e
      <4> QED
        BY <1>4, <3>3, <4>1, <4>2
    <3> QED
      BY <1>1, <3>4 DEF Matched, ShowsAs, plan
  <2> QED
    BY <1>1, <2>1, <2>2
<1>6. Unrefused'
  <2> SUFFICES ASSUME calm, pc' = "refuse", Servable(req)
               PROVE  FALSE
    BY <1>1 DEF Unrefused, Servable, Matches
  <2>1. HasPlan(req)
    BY DEF Servable
  <2>2. plan = PlanOf(req) /\ \A i \in DOMAIN plan : Signed(req, plan[i])
    BY <1>2, <2>1, ServablePlan DEF plan
  <2>3. DOMAIN plan = 1..Len(plan) /\ Len(plan) \in Nat
    BY <1>3, BuildPlanHolds, LenProperties DEF WellPlanned, plan
  <2>4. Signed(req, e)
    BY <1>1, <1>4, <2>2, <2>3 DEF e
  <2>5. x \in ToSet(req.exports)
    BY <1>3, <2>4, ExportFound DEF x
  <2>6. at = FirstAt
    BY DEF CalmInv, Undisturbed
  <2>7. Resolves(x)
    BY <2>5, <2>6 DEF Servable, Resolves
  <2> QED
    BY <1>1, <2>4, <2>7
<1>7. pc' # "handshake"
  BY <1>1
<1> QED
  BY <1>1, <1>5, <1>6, <1>7, BrokerCalm

\* As many descriptors arrive as the plan has entries.
LEMMA ReceiveCalm ==
  ASSUME IInv, LifecycleTypeOK, CalmInv, Receive
  PROVE  CalmInv'
<1>1. /\ pc = "resolve" /\ UNCHANGED <<at, req, resolved, worker, staging, calm>>
      /\ Len(resolved) = Len(BuildPlan(req).exports)
      /\ pc' = IF Len([i \in DOMAIN resolved |-> Pinned("raw", count, i, resolved[i])])
                     = Len(req.exports)
               THEN "clone" ELSE "refuse"
  BY DEF Receive, Goto
<1>2. Len([i \in DOMAIN resolved |-> Pinned("raw", count, i, resolved[i])]) = Len(resolved)
  <2>1. Len(resolved) \in Nat /\ DOMAIN resolved = 1..Len(resolved)
    BY LenProperties DEF IInv, Pinning
  <2> QED
    BY <2>1
<1>3. req \in Proposals
  BY <1>1 DEF IInv, Granted, LifecycleTypeOK
<1>4. Matched'
  BY <1>1 DEF CalmInv, Matched, ShowsAs
<1>5. Servable(req) /\ Len(req.exports) = Len(PlanOf(req)) => pc' # "refuse"
  BY <1>1, <1>2, <1>3, ServablePlan DEF Servable
<1>6. Unrefused'
  BY <1>1, <1>5 DEF Unrefused, Servable, Matches
<1>7. pc' # "handshake"
  BY <1>1
<1> QED
  BY <1>1, <1>4, <1>6, <1>7, BrokerCalm

\* Steps that go on, and those that end calm.
LEMMA BrokerGoesOn ==
  ASSUME CalmInv, CloneMounts \/ CreateLogs \/ Prepare \/ MakePipes \/ ChildFails
  PROVE  CalmInv'
<1>1. UNCHANGED <<at, req, resolved, worker, staging>>
      /\ pc' \in {"logs", "prepare", "pipes", "fork", "refuse"}
      /\ calm' \in {calm, FALSE} /\ (pc' = "refuse" => calm' = FALSE)
  BY DEF CloneMounts, CreateLogs, Prepare, MakePipes, ChildFails, Goto
<1>2. Matched'
  BY <1>1 DEF CalmInv, Matched, ShowsAs
<1>3. Unrefused'
  BY <1>1 DEF Unrefused
<1>4. calm' => calm
  BY <1>1, Zenon
<1>5. pc' # "handshake"
  BY <1>1
<1> QED
  BY <1>1, <1>2, <1>3, <1>4, <1>5, BrokerCalm

\* The broker dies, or is done with a request.
LEMMA DoneCalm ==
  ASSUME CalmInv, UNCHANGED <<at, staging>>, resolved' = <<>>, pc' = "idle",
         AllFilled', Unrejected',
         calm' => calm /\ \A q \in Pids : worker[q] # NoWorker => worker'[q] # NoWorker
  PROVE  CalmInv'
<1>1. Matched' /\ Unrefused'
  BY DEF Matched, Unrefused
<1>2. Undisturbed'
  BY DEF CalmInv, Undisturbed
<1> QED
  BY <1>1, <1>2 DEF CalmInv

\* The broker dies.
LEMMA DieCalm ==
  ASSUME CalmInv, Die
  PROVE  CalmInv'
<1>1. /\ pc' = "idle" /\ resolved' = <<>> /\ calm' = FALSE /\ UNCHANGED <<at, staging>>
      /\ worker' = [p \in Pids |-> NoWorker]
  BY DEF Die, Goto
<1>2. AllFilled'
  BY <1>1, FilledStand DEF CalmInv
<1>3. Unrejected'
  BY <1>1 DEF Unrejected
<1> QED
  BY <1>1, <1>2, <1>3, DoneCalm

\* Every slot of the new worker's plan is filled: the broker installs the clones in the
\* plan's order, and its number is one no live worker's directory has.
LEMMA ForkCalm ==
  ASSUME IInv, LifecycleTypeOK, LaunchInv, CalmInv, NEW p \in Pids, Fork(p)
  PROVE  CalmInv'
<1> DEFINE ours == {File("readyRead", count), File("continueWrite", count)}
           plan == BuildPlan(req).exports
           w == [st |-> "born", n |-> count, grant |-> req, entries |-> SealedEntries,
                 table |-> Installed(Closed(fds, ours), Layout(count, Clones)),
                 tree |-> {}]
<1>1. /\ pc = "fork" /\ pc' = "handshake" /\ pid' = p /\ worker[p] = NoWorker
      /\ worker' = [worker EXCEPT ![p] = w]
      /\ UNCHANGED <<at, req, resolved, staging, calm>>
  BY DEF Fork, Goto
<1>2. /\ w.st = "born" /\ w.grant = req /\ w.entries = SealedEntries /\ w # NoWorker
      /\ w.table = Installed(Closed(fds, ours), Layout(count, Clones))
  BY DEF NoWorker, None
<1> HIDE DEF w
<1>3. worker'[p] = w /\ \A q \in Pids \ {p} : worker'[q] = worker[q]
  BY <1>1 DEF IInv, Workers
<1>4. Filled(w)
  <2>1. Sealable /\ Pinning
    BY <1>1 DEF LaunchInv, Sized, IInv
  <2>2. Table(Closed(fds, ours)) /\ Piped \ ours \subseteq Held(Closed(fds, ours))
    <3>1. Held(fds) = Kept \cup Piped /\ Table(fds)
      BY <1>1 DEF LaunchInv, Holding, Carried
    <3> QED
      BY <3>1, ClosedHolds
  <2>3. \A i \in DOMAIN resolved : w.table[9 + i] = Pinned("clone", count, i, resolved[i])
    BY <1>2, <2>1, <2>2, InstalledChannels
  <2>4. req.exports \in Seq(ToSet(req.exports))
    BY <1>1, ProposalsAssumption DEF IInv, Granted, LifecycleTypeOK, WellFormed
  <2>5. WellPlanned(plan)
    BY <2>4, BuildPlanHolds
  <2>6. DOMAIN resolved = DOMAIN plan /\ DOMAIN resolved \subseteq Nat
    <3>1. Len(resolved) = Len(plan)
      BY <1>1 DEF LaunchInv, Sized
    <3>2. DOMAIN resolved = 1..Len(resolved) /\ DOMAIN plan = 1..Len(plan)
      BY <2>1, <2>5, LenProperties DEF WellPlanned, Pinning
    <3> HIDE DEF plan
    <3> QED
      BY <3>1, <3>2
  <2>7. /\ DOMAIN SealedEntries = DOMAIN resolved
        /\ \A i \in DOMAIN resolved :
             SealedEntries[i].export = plan[i] /\ SealedEntries[i].mount = <<count, i>>
    BY DEF SealedEntries
  <2> HIDE DEF plan
  <2>8. ASSUME NEW i \in DOMAIN resolved
        PROVE  LET file == w.table[SourceBase + plan[i].slot]
               IN /\ file.what = "clone" /\ <<file.n, file.i>> = <<count, i>>
                  /\ ShowsAs(plan[i], file.obj)
    <3>1. plan[i].slot = i - 1
      BY <2>5, <2>6 DEF WellPlanned
    <3>2. SourceBase + plan[i].slot = 9 + i
      BY <2>6, <3>1 DEF SourceBase
    <3>3. w.table[SourceBase + plan[i].slot] = Pinned("clone", count, i, resolved[i])
      BY <2>3, <3>2
    <3>4. ShowsAs(plan[i], resolved[i])
      BY DEF CalmInv, Matched, plan
    <3> QED
      BY <3>3, <3>4 DEF Pinned
  <2>9. ASSUME NEW i \in DOMAIN w.entries
        PROVE  LET e == w.entries[i].export
                   file == w.table[SourceBase + e.slot]
               IN /\ file.what = "clone" /\ <<file.n, file.i>> = w.entries[i].mount
                  /\ ShowsAs(e, file.obj)
    <3>1. i \in DOMAIN resolved /\ w.entries[i].export = plan[i]
          /\ w.entries[i].mount = <<count, i>>
      BY <1>2, <2>7
    <3> HIDE DEF SourceBase
    <3> QED
      BY <2>8, <3>1
  <2>10. PlannedExports(w) = plan
    <3>1. PlannedExports(w) = [i \in DOMAIN plan |-> plan[i]]
      BY <1>2, <2>6, <2>7 DEF PlannedExports
    <3>2. plan \in Seq(ToSet(plan))
      BY <2>5 DEF WellPlanned
    <3> QED
      BY <3>1, <3>2
  <2> QED
    BY <1>2, <2>9, <2>10 DEF Filled, plan
<1>5. AllFilled'
  <2> SUFFICES ASSUME NEW q \in Pids, worker'[q] # NoWorker
               PROVE  Filled(worker'[q])
    BY DEF AllFilled, Filled, ShowsAs, PlannedExports
  <2> QED
    BY <1>3, <1>4 DEF CalmInv, AllFilled
<1>6. Matched'
  BY <1>1 DEF CalmInv, Matched, ShowsAs
<1>7. Unrefused'
  BY <1>1 DEF Unrefused
<1>8. Unrejected'
  <2>1. \A q \in Pids : worker'[q] = worker[q] \/ worker'[q].st # "rejected"
    BY <1>2, <1>3
  <2> QED
    BY <1>1, <2>1, UnrejectedStand DEF CalmInv
<1>9. Undisturbed'
  BY <1>1, <1>2, <1>3 DEF CalmInv, Undisturbed
<1> QED
  BY <1>5, <1>6, <1>7, <1>8, <1>9 DEF CalmInv

\* The directory is that of the worker being launched.
LEMMA MakeStagingCalm ==
  ASSUME LaunchInv, CalmInv, MakeStaging
  PROVE  CalmInv'
<1>1. /\ pc = "handshake" /\ pc' = "map" /\ staging' = staging \cup {pid}
      /\ UNCHANGED <<at, req, resolved, worker, calm>>
  BY DEF MakeStaging, Goto
<1>2. pid \in Pids /\ worker[pid] # NoWorker
  BY <1>1 DEF LaunchInv, Numbered
<1>3. Matched' /\ Unrefused'
  BY <1>1 DEF CalmInv, Matched, ShowsAs, Unrefused
<1>4. AllFilled' /\ Unrejected'
  BY <1>1, FilledStand, UnrejectedStand DEF CalmInv
<1>5. Undisturbed'
  BY <1>1, <1>2 DEF CalmInv, Undisturbed
<1> QED
  BY <1>3, <1>4, <1>5 DEF CalmInv

\* A launch fails calmly only for a grant with more exports than a layout has room for.
LEMMA LaunchFailsCalm ==
  ASSUME IInv, LifecycleTypeOK, LaunchInv, CalmInv, NEW failed, LaunchFails(failed),
         \/ pc \in {"handshake", "map"} /\ failed
         \/ pc = "handshake" /\ pid \in staging
         \/ pc = "prepare" /\ (Sealable => failed)
  PROVE  CalmInv'
<1>1. /\ worker' = [p \in Pids |-> IF p = pid THEN NoWorker ELSE worker[p]]
      /\ pc' = "refuse" /\ (calm' => calm /\ ~failed)
      /\ UNCHANGED <<at, req, resolved, staging>>
  BY DEF LaunchFails, Goto
<1>2. AllFilled'
  BY <1>1, FilledStand DEF CalmInv
<1>3. Unrejected'
  <2>1. \A q \in Pids : worker'[q] = worker[q] \/ worker'[q].st # "rejected"
    BY <1>1 DEF NoWorker, None
  <2> QED
    BY <1>1, <2>1, UnrejectedStand DEF CalmInv
<1>4. Matched'
  BY <1>1 DEF CalmInv, Matched, ShowsAs
<1>5. calm' => pc = "prepare" /\ ~Sealable
  <2>1. calm /\ pc = "handshake" => pid \notin staging
    BY DEF CalmInv, Undisturbed
  <2> QED
    BY <1>1, <2>1
<1>6. Unrefused'
  <2> SUFFICES ASSUME calm', Servable(req) PROVE FALSE
    BY <1>1 DEF Unrefused, Servable, Matches
  <2>1. pc = "prepare" /\ ~Sealable
    BY <1>5
  <2>2. req \in Proposals
    BY <2>1 DEF IInv, Granted, LifecycleTypeOK
  <2>3. Len(req.exports) \in Nat \ {0} /\ Len(req.exports) <= SourceLimit - SourceBase
    BY <2>2, ServablePlan DEF Servable
  <2>4. Len(resolved) = Len(req.exports)
    BY <2>1 DEF LaunchInv, Sized
  <2>5. SourceLimit - SourceBase \in Nat
    BY DEF SourceLimit, SourceBase
  <2>6. Len(resolved) \in 1..(SourceLimit - SourceBase)
    BY <2>3, <2>4, <2>5
  <2> QED
    BY <2>1, <2>6 DEF Sealable
<1>7. Undisturbed'
  <2> SUFFICES ASSUME calm'
               PROVE  at = FirstAt /\ \A p \in staging : p \in Pids /\ worker'[p] # NoWorker
    BY <1>1 DEF Undisturbed
  <2>1. at = FirstAt /\ \A p \in staging : p \in Pids /\ worker[p] # NoWorker
    BY <1>1 DEF CalmInv, Undisturbed
  <2>2. pid = None
    BY <1>5 DEF LaunchInv, Numbered
  <2> QED
    BY <1>1, <2>1, <2>2, LaunchAssumption
<1> QED
  BY <1>2, <1>3, <1>4, <1>6, <1>7 DEF CalmInv

\* A worker whose status changes keeps its grant, its plan and its table.
LEMMA StatusCalm ==
  ASSUME IInv, AllFilled, NEW p \in Pids, NEW s, s # None,
         worker[p] # NoWorker, worker' = [worker EXCEPT ![p].st = s]
  PROVE  /\ AllFilled'
         /\ worker'[p] # NoWorker /\ worker'[p].st = s /\ worker'[p].grant = worker[p].grant
         /\ \A q \in Pids \ {p} : worker'[q] = worker[q]
<1>1. DOMAIN worker = Pids /\ DOMAIN worker[p] = WorkerFields
  BY DEF IInv, Workers, Launched
<1>2. worker'[p] = [worker[p] EXCEPT !.st = s] /\ \A q \in Pids \ {p} : worker'[q] = worker[q]
  BY <1>1
<1>3. /\ worker'[p].st = s /\ worker'[p].grant = worker[p].grant
      /\ worker'[p].table = worker[p].table /\ worker'[p].entries = worker[p].entries
  BY <1>1, <1>2 DEF WorkerFields
<1>4. worker'[p] # NoWorker
  BY <1>3 DEF NoWorker
<1>5. Filled(worker'[p])
  <2>1. Filled(worker[p])
    BY DEF AllFilled
  <2>2. PlannedExports(worker'[p]) = PlannedExports(worker[p])
    BY <1>3 DEF PlannedExports
  <2> QED
    BY <1>3, <2>1, <2>2 DEF Filled
<1>6. AllFilled'
  <2> SUFFICES ASSUME NEW q \in Pids, worker'[q] # NoWorker
               PROVE  Filled(worker'[q])
    BY DEF AllFilled, Filled, ShowsAs, PlannedExports
  <2> QED
    BY <1>2, <1>5 DEF AllFilled
<1> QED
  BY <1>2, <1>3, <1>4, <1>6

\* The worker continues.
LEMMA ContinueCalm ==
  ASSUME IInv, LaunchInv, CalmInv, Continue
  PROVE  CalmInv'
<1>1. /\ pc = "map" /\ worker[pid].st = "ready"
      /\ worker' = [worker EXCEPT ![pid].st = "mapped"]
      /\ pc' = "idle" /\ resolved' = <<>> /\ UNCHANGED <<at, staging, calm>>
  BY DEF Continue, Goto
<1>2. pid \in Pids /\ worker[pid] # NoWorker
  BY <1>1 DEF LaunchInv, Numbered
<1>3. /\ AllFilled'
      /\ worker'[pid] # NoWorker /\ worker'[pid].st = "mapped"
      /\ \A q \in Pids \ {pid} : worker'[q] = worker[q]
  BY <1>1, <1>2, StatusCalm DEF CalmInv, None
<1>4. Unrejected'
  <2>1. \A q \in Pids : worker'[q] = worker[q] \/ worker'[q].st # "rejected"
    BY <1>3
  <2> QED
    BY <1>1, <2>1, UnrejectedStand DEF CalmInv
<1> QED
  BY <1>1, <1>3, <1>4, DoneCalm

\* A refusal ends the request, or the broker.
LEMMA RefuseCalm ==
  ASSUME CalmInv, Refuse
  PROVE  CalmInv'
<1>1. CASE Die
  BY <1>1, DieCalm
<1>2. CASE ~Die
  <2>1. pc' = "idle" /\ resolved' = <<>> /\ UNCHANGED <<at, worker, staging, calm>>
    BY <1>2 DEF Refuse, Goto
  <2>2. AllFilled' /\ Unrejected'
    BY <2>1, FilledStand, UnrejectedStand DEF CalmInv
  <2> QED
    BY <2>1, <2>2, DoneCalm
<1> QED
  BY <1>1, <1>2

\* Steps that leave the broker alone.
LEMMA ElsewhereCalm ==
  ASSUME CalmInv, UNCHANGED <<pc, req, resolved, pid>>, AllFilled', Unrejected',
         calm' => calm /\ UNCHANGED at /\ staging' \subseteq staging
                  /\ \A q \in staging' : worker[q] # NoWorker => worker'[q] # NoWorker
  PROVE  CalmInv'
<1>1. Matched'
  BY DEF CalmInv, Matched, ShowsAs
<1>2. Unrefused'
  BY DEF CalmInv, Unrefused, Servable, Matches
<1>3. Undisturbed'
  BY DEF CalmInv, Undisturbed
<1> QED
  BY <1>1, <1>2, <1>3 DEF CalmInv

\* A worker whose slots are filled rejects its plan only for a target it reserves, or
\* because the plan is too long.
LEMMA RejectPlanCalm ==
  ASSUME IInv, LifecycleTypeOK, CalmInv, NEW p \in Pids, RejectPlan(p)
  PROVE  CalmInv'
<1>1. /\ worker[p].st = "mapped" /\ ~Verified(worker[p])
      /\ worker' = [worker EXCEPT ![p].st = "rejected"]
      /\ UNCHANGED <<at, pc, req, resolved, pid, staging, calm>>
  BY DEF RejectPlan
<1>2. worker[p] # NoWorker
  BY <1>1 DEF NoWorker, None
<1>3. /\ AllFilled'
      /\ worker'[p] # NoWorker /\ worker'[p].grant = worker[p].grant
      /\ \A q \in Pids \ {p} : worker'[q] = worker[q]
  BY <1>1, <1>2, StatusCalm DEF CalmInv, None
<1>4. ~Servable(worker[p].grant)
  <2> DEFINE w == worker[p]
  <2>1. Filled(w) /\ Launched(w)
    BY <1>2 DEF CalmInv, AllFilled, IInv, Workers
  <2>2. CASE \E i \in DOMAIN w.entries : ~WorkerTakes(w.entries[i].export.target)
    <3>1. PICK i \in DOMAIN w.entries : ~WorkerTakes(w.entries[i].export.target)
      BY <2>2
    <3>2. PICK x \in ToSet(w.grant.exports) : SameExport(w.entries[i].export, x)
      BY <2>1 DEF Launched, Signed
    <3>3. w.entries[i].export.target = x.target
      BY <3>2 DEF SameExport, Planned
    <3> QED
      BY <3>1, <3>2, <3>3 DEF Servable
  <2>3. CASE ~(PlanBytes(PlannedExports(w)) <= MaxPlanBytes)
    <3>1. w.grant \in Proposals
      BY <2>1 DEF Launched, LifecycleTypeOK
    <3>2. HasPlan(w.grant) => PlannedExports(w) = PlanOf(w.grant)
      BY <2>1, <3>1, ServablePlan DEF Filled
    <3> QED
      BY <2>3, <3>2 DEF Servable
  <2> QED
    BY <1>1, <2>1, <2>2, <2>3 DEF Verified, Filled, ShowsAs
<1>5. Unrejected'
  BY <1>1, <1>3, <1>4 DEF CalmInv, Unrejected, Servable, Matches
<1> QED
  BY <1>1, <1>3, <1>5, ElsewhereCalm

\* The other steps of a worker.
LEMMA WorkerCalm ==
  ASSUME IInv, CalmInv, NEW p \in Pids, WorkerReady(p) \/ WorkerDies(p)
  PROVE  CalmInv'
<1>1. PICK s \in {"ready", "dead"} : worker' = [worker EXCEPT ![p].st = s]
  BY DEF WorkerReady, WorkerDies
<1>2. /\ worker[p] # NoWorker /\ UNCHANGED <<at, pc, req, resolved, pid, staging>>
      /\ calm' => calm
  <2>1. worker[p] # NoWorker /\ UNCHANGED <<at, pc, req, resolved, pid, staging>>
    BY DEF WorkerReady, WorkerDies, NoWorker, None
  <2>2. calm' => calm
    BY Zenon DEF WorkerReady, WorkerDies
  <2> QED
    BY <2>1, <2>2
<1>3. /\ AllFilled'
      /\ worker'[p] # NoWorker /\ worker'[p].st = s
      /\ \A q \in Pids \ {p} : worker'[q] = worker[q]
  BY <1>1, <1>2, StatusCalm DEF CalmInv, None
<1>4. Unrejected'
  <2>1. \A q \in Pids : worker'[q] = worker[q] \/ worker'[q].st # "rejected"
    BY <1>3
  <2> QED
    BY <1>2, <2>1, UnrejectedStand DEF CalmInv
<1>5. calm => \A q \in staging' : worker[q] # NoWorker => worker'[q] # NoWorker
  <2>1. \A q \in Pids : worker[q] # NoWorker => worker'[q] # NoWorker
    BY <1>3
  <2> QED
    BY <1>2, <2>1 DEF CalmInv, Undisturbed
<1> QED
  BY <1>2, <1>3, <1>4, <1>5, ElsewhereCalm

\* A worker that serves keeps its plan and its table.
LEMMA ServeCalm ==
  ASSUME IInv, CalmInv, NEW p \in Pids, Serve(p)
  PROVE  CalmInv'
<1>1. /\ worker' = [worker EXCEPT ![p].st = "serving", ![p].tree = Tree(worker[p])]
      /\ worker[p] # NoWorker
      /\ UNCHANGED <<at, pc, req, resolved, pid, staging, calm>>
  BY DEF Serve, NoWorker, None
<1>2. DOMAIN worker = Pids /\ DOMAIN worker[p] = WorkerFields
  BY <1>1 DEF IInv, Workers, Launched
<1>3. worker'[p] = [worker[p] EXCEPT !.st = "serving", !.tree = Tree(worker[p])]
      /\ \A q \in Pids \ {p} : worker'[q] = worker[q]
  BY <1>1, <1>2
<1>4. /\ worker'[p].st = "serving" /\ worker'[p].grant = worker[p].grant
      /\ worker'[p].table = worker[p].table /\ worker'[p].entries = worker[p].entries
  BY <1>2, <1>3 DEF WorkerFields
<1>5. worker'[p] # NoWorker
  BY <1>4 DEF NoWorker, None
<1>6. Filled(worker'[p])
  <2>1. Filled(worker[p])
    BY <1>1 DEF CalmInv, AllFilled
  <2>2. PlannedExports(worker'[p]) = PlannedExports(worker[p])
    BY <1>4 DEF PlannedExports
  <2> QED
    BY <1>4, <2>1, <2>2 DEF Filled
<1>7. AllFilled'
  <2> SUFFICES ASSUME NEW q \in Pids, worker'[q] # NoWorker
               PROVE  Filled(worker'[q])
    BY DEF AllFilled, Filled, ShowsAs, PlannedExports
  <2> QED
    BY <1>3, <1>6 DEF CalmInv, AllFilled
<1>8. Unrejected'
  <2>1. \A q \in Pids : worker'[q] = worker[q] \/ worker'[q].st # "rejected"
    BY <1>3, <1>4
  <2> QED
    BY <1>1, <2>1, UnrejectedStand DEF CalmInv
<1>9. calm => \A q \in staging' : worker[q] # NoWorker => worker'[q] # NoWorker
  BY <1>1, <1>3, <1>5 DEF CalmInv, Undisturbed
<1> QED
  BY <1>1, <1>7, <1>8, <1>9, ElsewhereCalm

\* The directory goes with its worker.
LEMMA ReapCalm ==
  ASSUME IInv, CalmInv, NEW p \in Pids, Reap(p)
  PROVE  CalmInv'
<1>1. /\ worker' = [worker EXCEPT ![p] = NoWorker] /\ staging' = staging \ {p}
      /\ UNCHANGED <<at, pc, req, resolved, pid, calm>>
  BY DEF Reap, Cleaned
<1>2. worker'[p] = NoWorker /\ \A q \in Pids \ {p} : worker'[q] = worker[q]
  BY <1>1 DEF IInv, Workers
<1>3. AllFilled'
  BY <1>2, FilledStand DEF CalmInv
<1>4. Unrejected'
  <2>1. \A q \in Pids : worker'[q] = worker[q] \/ worker'[q].st # "rejected"
    BY <1>2 DEF NoWorker, None
  <2> QED
    BY <1>1, <2>1, UnrejectedStand DEF CalmInv
<1>5. calm => \A q \in staging' : worker[q] # NoWorker => worker'[q] # NoWorker
  BY <1>1, <1>2 DEF CalmInv, Undisturbed
<1> QED
  BY <1>1, <1>3, <1>4, <1>5, ElsewhereCalm

\* A worker is reaped and its directory stays.
LEMMA ReapFailsCalm ==
  ASSUME IInv, CalmInv, NEW p \in Pids, ReapFails(p)
  PROVE  CalmInv'
<1>1. /\ worker' = [worker EXCEPT ![p] = NoWorker] /\ calm' = FALSE
      /\ UNCHANGED <<at, pc, req, resolved, pid, staging>>
  BY DEF ReapFails
<1>2. worker'[p] = NoWorker /\ \A q \in Pids \ {p} : worker'[q] = worker[q]
  BY <1>1 DEF IInv, Workers
<1>3. AllFilled'
  BY <1>2, FilledStand DEF CalmInv
<1>4. Unrejected'
  BY <1>1 DEF Unrejected
<1> QED
  BY <1>1, <1>3, <1>4, ElsewhereCalm

\* A step of the file system or of the life of grants.
LEMMA OutsideCalm ==
  ASSUME CalmInv, UNCHANGED <<pc, req, resolved, pid, worker, staging>>,
         calm' => calm /\ UNCHANGED at
  PROVE  CalmInv'
<1>1. AllFilled' /\ Unrejected'
  BY FilledStand, UnrejectedStand DEF CalmInv
<1> QED
  BY <1>1, ElsewhereCalm

\* CalmInv holds at first ...
LEMMA InitCalmInv == Init => CalmInv
<1> SUFFICES ASSUME Init PROVE CalmInv
  OBVIOUS
<1>1. /\ at = FirstAt /\ pc = "idle" /\ resolved = <<>> /\ staging = {}
      /\ worker = [p \in Pids |-> NoWorker]
  BY DEF Init, LaunchInit
<1>2. Matched /\ Undisturbed /\ Unrefused
  BY <1>1 DEF Matched, Undisturbed, Unrefused
<1>3. AllFilled /\ Unrejected
  BY <1>1 DEF AllFilled, Unrejected, NoWorker, None
<1> QED
  BY <1>2, <1>3 DEF CalmInv

\* ... and every step keeps it.
LEMMA StepCalmInv ==
  IInv /\ LifecycleTypeOK /\ LaunchInv /\ CalmInv /\ [Next]_vars => CalmInv'
<1> SUFFICES ASSUME IInv, LifecycleTypeOK, LaunchInv, CalmInv, [Next]_vars PROVE CalmInv'
  OBVIOUS
<1>1. CASE UNCHANGED launchVars
  BY <1>1, OutsideCalm DEF launchVars
<1>2. CASE BrokerStep
  <2>1. CASE ResolveNext \/ Receive
    BY <2>1, ResolveNextCalm, ReceiveCalm
  <2>2. CASE CloneMounts \/ CreateLogs \/ Prepare \/ MakePipes
    BY <2>2, BrokerGoesOn
  <2>3. ASSUME NEW p \in Pids, Fork(p) PROVE CalmInv'
    BY <2>3, ForkCalm
  <2>4. CASE MakeStaging \/ Continue \/ Refuse
    BY <2>4, MakeStagingCalm, ContinueCalm, RefuseCalm
  <2>5. CASE HandshakeFails
    <3>1. \/ pc = "handshake" /\ LaunchFails(TRUE)
          \/ pc = "handshake" /\ pid \in staging /\ LaunchFails(FALSE)
      BY <2>5 DEF HandshakeFails
    <3> QED
      BY <3>1, LaunchFailsCalm
  <2>6. CASE PrepareFails
    BY <2>6, LaunchFailsCalm DEF PrepareFails
  <2>7. CASE MapFails
    BY <2>7, LaunchFailsCalm DEF MapFails
  <2> QED
    BY <1>2, <2>1, <2>2, <2>3, <2>4, <2>5, <2>6, <2>7 DEF BrokerStep
<1>3. CASE Environment
  <2>1. CASE ChildFails
    BY <2>1, BrokerGoesOn
  <2>2. CASE KernelRefuses
    BY <2>2, DieCalm DEF KernelRefuses
  <2>3. ASSUME NEW p \in Pids,
               \/ WorkerReady(p) \/ Serve(p) \/ RejectPlan(p) \/ WorkerDies(p)
               \/ Reap(p) \/ ReapFails(p)
        PROVE  CalmInv'
    BY <2>3, WorkerCalm, ServeCalm, RejectPlanCalm, ReapCalm, ReapFailsCalm
  <2>4. ASSUME NEW s \in Sources, NEW t \in Sources, Rename(s, t)
        PROVE  CalmInv'
    BY <2>4, OutsideCalm DEF Rename
  <2>5. ASSUME NEW s \in Sources, NEW o \in Objects, Replace(s, o)
        PROVE  CalmInv'
    BY <2>5, OutsideCalm DEF Replace
  <2> QED
    BY <1>3, <2>1, <2>2, <2>3, <2>4, <2>5 DEF Environment
<1>4. ASSUME NEW g \in stored, Request(g)
      PROVE  CalmInv'
  BY <1>4, RequestCalm
<1> QED
  BY <1>1, <1>2, <1>3, <1>4 DEF Next, vars

\* CalmInv holds in every reachable state.
THEOREM AlwaysCalmInv == Spec => []CalmInv
BY InitCalmInv, StepCalmInv, AlwaysIInv, AlwaysLaunchInv, LifecycleIsTyped, PTL DEF Spec

\* As long as no call fails, no process dies and no path changes, no grant that is within
\* the ceiling and has a plan short enough for the worker is refused (executor.py,
\* mapping.py), and no worker rejects the plan sealed for it (aspr-mount-worker.c),
\* whatever earlier sessions left behind.
THEOREM CalmGrantsAreServed == Spec => []CalmIsServed
<1>1. CalmInv => CalmIsServed
  BY DEF CalmInv, Unrefused, Unrejected, CalmIsServed
<1> QED
  BY <1>1, AlwaysCalmInv, PTL
=============================================================================
