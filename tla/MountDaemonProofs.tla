-------------------------- MODULE MountDaemonProofs --------------------------
(***************************************************************************)
(* Proofs about MountDaemon, for any number of grants, sessions and        *)
(* mounts and any validity windows.  The inductive invariant is the        *)
(* conjunction of TypeOK, ControlOK, SoleUnrevokedSession, OwnershipOK,    *)
(* EndedOK and AuthorityOK; each has a lemma that every step keeps it.     *)
(***************************************************************************)
EXTENDS MountDaemon, TLAPS

WaitSteps == {"open_spawn", "open_pid", "open_wait"}

\* The thread is in a loop r, or in a close() the loop called.
Within(r) == pc = r \/ (pc \in CloseSteps /\ back = r)

\* The registers of the daemon's thread agree with the rows.
ControlOK ==
  /\ todo \subseteq Rows
  /\ pc \in OpenSteps \cup CloseSteps \cup {"recover_wipe"} => cur \in Rows
  /\ pc \in WaitSteps => mstate[cur] = "creating"
  /\ pc = "open_marker" => mstate[cur] = "ready"
  /\ pc \in CloseSteps \ {"close_wipe"} => mstate[cur] = "draining"
  /\ \A p \in Rows : msess[p] \in Sessions /\ sstate[msess[p]] # None
  /\ \A s \in Sessions : sstate[s] # None => sgrant[s] \in Grants
  /\ pc = "exec" => todo = {}
  /\ pc \in CloseSteps => cur \notin todo
  /\ pc \in {"recover", "recover_wipe"} \/ Within("sclose") =>
       \A p \in todo : mstate[p] # "closed"

\* ClosedIsReleased and ReadyIsOwned need to know what open() and close()
\* have done so far, and that recover() still has every stale row before it.
OwnershipOK ==
  /\ ClosedIsReleased
  /\ ReadyIsOwned
  /\ pc \in {"open_pid", "open_wait", "open_marker"} => cur \in tracked \cap transports
  /\ pc = "close_commit" => cur \notin tracked \cup transports \cup markers
  /\ pc \in {"recover", "recover_wipe"} =>
       \A p \in Paths : mstate[p] \in {"creating", "ready"} => p \in todo

\* session.close has yet to visit what it must not leave in service.
EndedOK ==
  /\ EndedSessionsHoldNothing
  /\ Within("sclose") =>
       /\ req.op = "sclose"
       /\ \A p \in Rows :
            msess[p] = req.session /\ mstate[p] \in {"creating", "ready"} => p \in todo

\* The refresh: retired sessions, then enforced mounts, then the scope.
AuthorityOK ==
  /\ RefreshedAuthority
  /\ arrived <= now /\ seen <= now
  /\ \A s \in Sessions : sstate[s] = "revoked" => sgrant[s] \in revoked
  /\ \A s \in Sessions : sstate[s] = "expired" => Expiry[sgrant[s]] <= now
  /\ pc = "list" \/ Within("enforce") =>
       \A s \in Active : arrived < Expiry[sgrant[s]]
  /\ Within("enforce") =>
       /\ arrived <= seen
       /\ \A s \in Sessions : sstate[s] = "expired" => Expiry[sgrant[s]] <= seen
       /\ \A p \in Rows : mstate[p] = "ready" => p \in todo \/ ~Dead(GrantOf(p), seen)

\* What every step lemma opens: the tuples of variables, the names of steps
\* and states, and the ways a step ends.
USE ConstantsAssumption
DEF None, Tick, grantVars, sessionVars, rowVars, diskVars, worldVars, ctlVars,
    ownVars, daemonVars, Requests, Steps, OpenSteps, CloseSteps, WaitSteps,
    MountStates, SessionStates, Rows, Active, Within,
    Goto, Forget, Finish, Refuse, Return, Kill, Wipe, CloseTransport

\* The initial state satisfies the whole invariant.
LEMMA InitInvariant ==
  Init => /\ TypeOK /\ ControlOK /\ SoleUnrevokedSession
          /\ OwnershipOK /\ EndedOK /\ AuthorityOK
<1> SUFFICES ASSUME Init
             PROVE  /\ TypeOK /\ ControlOK /\ SoleUnrevokedSession
                    /\ OwnershipOK /\ EndedOK /\ AuthorityOK
  OBVIOUS
<1>1. TypeOK /\ ControlOK
  BY DEF Init, TypeOK, ControlOK
<1>2. SoleUnrevokedSession
  BY DEF Init, SoleUnrevokedSession
<1>3. OwnershipOK
  BY DEF Init, OwnershipOK, ClosedIsReleased, ReadyIsOwned
<1>4. EndedOK
  BY DEF Init, EndedOK, EndedSessionsHoldNothing
<1>5. AuthorityOK
  BY DEF Init, AuthorityOK, RefreshedAuthority
<1> QED
  BY <1>1, <1>2, <1>3, <1>4, <1>5

\* Every step keeps the types and the agreement of registers and rows.
LEMMA StepType ==
  TypeOK /\ ControlOK /\ [Next]_vars => TypeOK' /\ ControlOK'
<1> SUFFICES ASSUME TypeOK, ControlOK, [Next]_vars
             PROVE  TypeOK' /\ ControlOK'
  OBVIOUS
<1>1. CASE Start
  BY <1>1 DEF Start, StaleRows, TypeOK, ControlOK
<1>2. CASE Crash
  BY <1>2 DEF Crash, Die, TypeOK, ControlOK
<1>3. CASE RecoverWipe
  BY <1>3 DEF RecoverWipe, TypeOK, ControlOK
<1>4. CASE RecoverDone
  BY <1>4 DEF RecoverDone, BoundScope, SoleActive, TypeOK, ControlOK
<1>5. CASE Retire
  BY <1>5 DEF Retire, TypeOK, ControlOK
<1>6. CASE EnforceList
  BY <1>6 DEF EnforceList, TypeOK, ControlOK
<1>7. CASE Refreshed
  BY <1>7 DEF Refreshed, BoundScope, SoleActive, TypeOK, ControlOK
<1>8. CASE ImportGrant
  BY <1>8 DEF ImportGrant, TypeOK, ControlOK
<1>9. CASE RevokeGrant
  BY <1>9 DEF RevokeGrant, MayRevoke, TypeOK, ControlOK
<1>10. CASE OpenSession
  BY <1>10 DEF OpenSession, MayOpenSession, TypeOK, ControlOK
<1>11. CASE CloseSession
  BY <1>11 DEF CloseSession, SessionMounts, TypeOK, ControlOK
<1>12. CASE CloseSessionRow
  BY <1>12 DEF CloseSessionRow, TypeOK, ControlOK
<1>13. CASE List
  BY <1>13 DEF List, TypeOK, ControlOK
<1>14. CASE OpenMount
  BY <1>14 DEF OpenMount, NewRow, MayOpenMount, SoleActive, Die, TypeOK, ControlOK
<1>15. CASE OpenSpawn
  BY <1>15 DEF OpenSpawn, TypeOK, ControlOK
<1>16. CASE OpenPid
  BY <1>16 DEF OpenPid, TypeOK, ControlOK
<1>17. CASE OpenReady
  BY <1>17 DEF OpenReady, TypeOK, ControlOK
<1>18. CASE OpenMarker
  BY <1>18 DEF OpenMarker, TypeOK, ControlOK
<1>19. CASE OpenFail
  BY <1>19 DEF OpenFail, TypeOK, ControlOK
<1>20. CASE CloseMount
  BY <1>20 DEF CloseMount, BeginClose, TypeOK, ControlOK
<1>21. CASE ShowMount
  BY <1>21 DEF ShowMount, BeginClose, TypeOK, ControlOK
<1>22. CASE CloseDrained
  BY <1>22 DEF CloseDrained, TypeOK, ControlOK
<1>23. CASE CloseGivesUp
  BY <1>23 DEF CloseGivesUp, TypeOK, ControlOK
<1>24. CASE CloseUnmount
  BY <1>24 DEF CloseUnmount, TypeOK, ControlOK
<1>25. CASE CloseStop
  BY <1>25 DEF CloseStop, TypeOK, ControlOK
<1>26. CASE CloseCommit
  BY <1>26 DEF CloseCommit, TypeOK, ControlOK
<1>27. CASE CloseWipe
  BY <1>27 DEF CloseWipe, TypeOK, ControlOK
<1>28. CASE TimePasses
  BY <1>28 DEF TimePasses, TypeOK, ControlOK
<1>29. ASSUME NEW r \in Requests, Receive(r)
      PROVE  TypeOK' /\ ControlOK'
  BY <1>29
  DEF Receive, Refresh, TypeOK, ControlOK
<1>30. ASSUME NEW p \in Paths, Recover(p)
      PROVE  TypeOK' /\ ControlOK'
  BY <1>30 DEF Recover, TypeOK, ControlOK
<1>31. ASSUME NEW p \in Paths, Enforce(p)
      PROVE  TypeOK' /\ ControlOK'
  BY <1>31 DEF Enforce, BeginClose, TypeOK, ControlOK
<1>32. ASSUME NEW p \in Paths, CloseSessionMount(p)
      PROVE  TypeOK' /\ ControlOK'
  BY <1>32 DEF CloseSessionMount, BeginClose, TypeOK, ControlOK
<1>33. ASSUME NEW p \in Paths, RcloneMounts(p)
      PROVE  TypeOK' /\ ControlOK'
  BY <1>33 DEF RcloneMounts, TypeOK, ControlOK
<1>34. ASSUME NEW p \in Paths, RcloneExits(p)
      PROVE  TypeOK' /\ ControlOK'
  BY <1>34 DEF RcloneExits, TypeOK, ControlOK
<1>35. ASSUME NEW p \in Paths, UserUnmounts(p)
      PROVE  TypeOK' /\ ControlOK'
  BY <1>35 DEF UserUnmounts, TypeOK, ControlOK
<1>36. ASSUME NEW p \in Paths, Write(p)
      PROVE  TypeOK' /\ ControlOK'
  BY <1>36 DEF Write, TypeOK, ControlOK
<1>37. ASSUME NEW p \in Paths, Upload(p)
      PROVE  TypeOK' /\ ControlOK'
  BY <1>37 DEF Upload, TypeOK, ControlOK
<1>38. CASE UNCHANGED vars
  BY <1>38 DEF vars, TypeOK, ControlOK
<1>39. CASE Accept
  BY <1>39
  DEF Accept, TypeOK, ControlOK
<1>40. CASE AcceptTimesOut
  BY <1>40
  DEF AcceptTimesOut, Refresh, TypeOK, ControlOK
<1>41. CASE HangUp
  BY <1>41
  DEF HangUp, Part, Die, TypeOK, ControlOK
<1>42. CASE Answer
  BY <1>42
  DEF Answer, Part, Die, TypeOK, ControlOK
<1> QED
  BY <1>1, <1>2, <1>3, <1>4, <1>5, <1>6, <1>7, <1>8, <1>9, <1>10, <1>11,
     <1>12, <1>13, <1>14, <1>15, <1>16, <1>17, <1>18, <1>19, <1>20, <1>21,
     <1>22, <1>23, <1>24, <1>25, <1>26, <1>27, <1>28, <1>29, <1>30, <1>31,
     <1>32, <1>33, <1>34, <1>35, <1>36, <1>37, <1>38, <1>39, <1>40,
     <1>41, <1>42
  DEF Next, DaemonStep, ClientStep, RecoverStep, RefreshStep, SessionStep, OpenStep,
     CloseStep, World

\* Every step keeps one unrevoked session.
LEMMA StepSession ==
  TypeOK /\ SoleUnrevokedSession /\ [Next]_vars => SoleUnrevokedSession'
<1> SUFFICES ASSUME TypeOK, SoleUnrevokedSession, [Next]_vars
             PROVE  SoleUnrevokedSession'
  OBVIOUS
<1>1. CASE Retire
  BY <1>1 DEF Retire, TypeOK, SoleUnrevokedSession
<1>2. CASE ImportGrant
  BY <1>2 DEF ImportGrant, TypeOK, SoleUnrevokedSession
<1>3. CASE RevokeGrant
  BY <1>3 DEF RevokeGrant, MayRevoke, TypeOK, SoleUnrevokedSession
<1>4. CASE OpenSession
  BY <1>4 DEF OpenSession, MayOpenSession, TypeOK, SoleUnrevokedSession
<1>5. CASE CloseSessionRow
  BY <1>5 DEF CloseSessionRow, TypeOK, SoleUnrevokedSession
<1>6. CASE \/ Start
           \/ Crash
           \/ RecoverWipe
           \/ RecoverDone
           \/ EnforceList
           \/ Refreshed
           \/ CloseSession
           \/ List
           \/ OpenMount
           \/ OpenSpawn
           \/ OpenPid
           \/ OpenReady
           \/ OpenMarker
           \/ OpenFail
           \/ CloseMount
           \/ ShowMount
           \/ CloseDrained
           \/ CloseGivesUp
           \/ CloseUnmount
           \/ CloseStop
           \/ CloseCommit
           \/ CloseWipe
           \/ World
           \/ Accept \/ AcceptTimesOut \/ HangUp \/ Answer
           \/ \E r \in Requests : Receive(r)
           \/ \E p \in Paths : Recover(p)
           \/ \E p \in Paths : Enforce(p)
           \/ \E p \in Paths : CloseSessionMount(p)
  <2>1. UNCHANGED <<grantVars, sessionVars>>
    BY <1>6
    DEF Start, StaleRows, Crash, Die, RecoverWipe, RecoverDone, BoundScope,
        SoleActive, EnforceList, Refreshed, CloseSession, SessionMounts,
        List, OpenMount, NewRow, MayOpenMount, OpenSpawn, OpenPid, OpenReady,
        OpenMarker, OpenFail, CloseMount, BeginClose, ShowMount,
        CloseDrained, CloseGivesUp, CloseUnmount, CloseStop, CloseCommit,
        CloseWipe, TimePasses, Accept, AcceptTimesOut, Receive,
        Refresh, HangUp, Answer, Part, Recover, Enforce, CloseSessionMount,
        RcloneMounts, RcloneExits, UserUnmounts, Write, Upload, World
  <2> QED
    BY <2>1 DEF TypeOK, SoleUnrevokedSession
<1>7. CASE UNCHANGED vars
  BY <1>7 DEF vars, TypeOK, SoleUnrevokedSession
<1> QED
  BY <1>1, <1>2, <1>3, <1>4, <1>5, <1>6, <1>7
  DEF Next, DaemonStep, ClientStep, RecoverStep, RefreshStep, SessionStep, OpenStep,
     CloseStep, World

\* Every step keeps what a row says and what the daemon owns in agreement.
LEMMA StepOwnership ==
  TypeOK /\ ControlOK /\ OwnershipOK /\ [Next]_vars => OwnershipOK'
<1> SUFFICES ASSUME TypeOK, ControlOK, OwnershipOK, [Next]_vars
             PROVE  OwnershipOK'
  OBVIOUS
<1>1. CASE Start
  BY <1>1
  DEF Start, StaleRows, OwnershipOK, ClosedIsReleased, ReadyIsOwned, TypeOK,
      ControlOK
<1>2. CASE Crash
  BY <1>2
  DEF Crash, Die, OwnershipOK, ClosedIsReleased, ReadyIsOwned, TypeOK,
      ControlOK
<1>3. CASE RecoverWipe
  BY <1>3
  DEF RecoverWipe, OwnershipOK, ClosedIsReleased, ReadyIsOwned, TypeOK,
      ControlOK
<1>4. CASE RecoverDone
  BY <1>4
  DEF RecoverDone, BoundScope, SoleActive, OwnershipOK, ClosedIsReleased,
      ReadyIsOwned, TypeOK, ControlOK
<1>5. CASE Retire
  BY <1>5
  DEF Retire, OwnershipOK, ClosedIsReleased, ReadyIsOwned, TypeOK, ControlOK
<1>6. CASE EnforceList
  BY <1>6
  DEF EnforceList, OwnershipOK, ClosedIsReleased, ReadyIsOwned, TypeOK,
      ControlOK
<1>7. CASE Refreshed
  BY <1>7
  DEF Refreshed, BoundScope, SoleActive, OwnershipOK, ClosedIsReleased,
      ReadyIsOwned, TypeOK, ControlOK
<1>8. CASE ImportGrant
  BY <1>8
  DEF ImportGrant, OwnershipOK, ClosedIsReleased, ReadyIsOwned, TypeOK,
      ControlOK
<1>9. CASE RevokeGrant
  BY <1>9
  DEF RevokeGrant, MayRevoke, OwnershipOK, ClosedIsReleased, ReadyIsOwned,
      TypeOK, ControlOK
<1>10. CASE OpenSession
  BY <1>10
  DEF OpenSession, MayOpenSession, OwnershipOK, ClosedIsReleased,
      ReadyIsOwned, TypeOK, ControlOK
<1>11. CASE CloseSession
  BY <1>11
  DEF CloseSession, SessionMounts, OwnershipOK, ClosedIsReleased,
      ReadyIsOwned, TypeOK, ControlOK
<1>12. CASE CloseSessionRow
  BY <1>12
  DEF CloseSessionRow, OwnershipOK, ClosedIsReleased, ReadyIsOwned, TypeOK,
      ControlOK
<1>13. CASE List
  BY <1>13
  DEF List, OwnershipOK, ClosedIsReleased, ReadyIsOwned, TypeOK, ControlOK
<1>14. CASE OpenMount
  BY <1>14
  DEF OpenMount, NewRow, MayOpenMount, SoleActive, Die, OwnershipOK,
      ClosedIsReleased, ReadyIsOwned, TypeOK, ControlOK
<1>15. CASE OpenSpawn
  BY <1>15
  DEF OpenSpawn, OwnershipOK, ClosedIsReleased, ReadyIsOwned, TypeOK,
      ControlOK
<1>16. CASE OpenPid
  BY <1>16
  DEF OpenPid, OwnershipOK, ClosedIsReleased, ReadyIsOwned, TypeOK,
      ControlOK
<1>17. CASE OpenReady
  BY <1>17
  DEF OpenReady, OwnershipOK, ClosedIsReleased, ReadyIsOwned, TypeOK,
      ControlOK
<1>18. CASE OpenMarker
  BY <1>18
  DEF OpenMarker, OwnershipOK, ClosedIsReleased, ReadyIsOwned, TypeOK,
      ControlOK
<1>19. CASE OpenFail
  BY <1>19
  DEF OpenFail, OwnershipOK, ClosedIsReleased, ReadyIsOwned, TypeOK,
      ControlOK
<1>20. CASE CloseMount
  BY <1>20
  DEF CloseMount, BeginClose, OwnershipOK, ClosedIsReleased, ReadyIsOwned,
      TypeOK, ControlOK
<1>21. CASE ShowMount
  BY <1>21
  DEF ShowMount, BeginClose, OwnershipOK, ClosedIsReleased, ReadyIsOwned,
      TypeOK, ControlOK
<1>22. CASE CloseDrained
  BY <1>22
  DEF CloseDrained, OwnershipOK, ClosedIsReleased, ReadyIsOwned, TypeOK,
      ControlOK
<1>23. CASE CloseGivesUp
  BY <1>23
  DEF CloseGivesUp, OwnershipOK, ClosedIsReleased, ReadyIsOwned, TypeOK,
      ControlOK
<1>24. CASE CloseUnmount
  BY <1>24
  DEF CloseUnmount, OwnershipOK, ClosedIsReleased, ReadyIsOwned, TypeOK,
      ControlOK
<1>25. CASE CloseStop
  BY <1>25
  DEF CloseStop, OwnershipOK, ClosedIsReleased, ReadyIsOwned, TypeOK,
      ControlOK
<1>26. CASE CloseCommit
  BY <1>26
  DEF CloseCommit, OwnershipOK, ClosedIsReleased, ReadyIsOwned, TypeOK,
      ControlOK
<1>27. CASE CloseWipe
  BY <1>27
  DEF CloseWipe, OwnershipOK, ClosedIsReleased, ReadyIsOwned, TypeOK,
      ControlOK
<1>28. CASE TimePasses
  BY <1>28
  DEF TimePasses, OwnershipOK, ClosedIsReleased, ReadyIsOwned, TypeOK,
      ControlOK
<1>29. ASSUME NEW r \in Requests, Receive(r)
      PROVE  OwnershipOK'
  BY <1>29
  DEF Receive, Refresh, OwnershipOK, ClosedIsReleased, ReadyIsOwned, TypeOK, ControlOK
<1>30. ASSUME NEW p \in Paths, Recover(p)
      PROVE  OwnershipOK'
  BY <1>30
  DEF Recover, OwnershipOK, ClosedIsReleased, ReadyIsOwned, TypeOK,
      ControlOK
<1>31. ASSUME NEW p \in Paths, Enforce(p)
      PROVE  OwnershipOK'
  BY <1>31
  DEF Enforce, BeginClose, OwnershipOK, ClosedIsReleased, ReadyIsOwned,
      TypeOK, ControlOK
<1>32. ASSUME NEW p \in Paths, CloseSessionMount(p)
      PROVE  OwnershipOK'
  BY <1>32
  DEF CloseSessionMount, BeginClose, OwnershipOK, ClosedIsReleased,
      ReadyIsOwned, TypeOK, ControlOK
<1>33. ASSUME NEW p \in Paths, RcloneMounts(p)
      PROVE  OwnershipOK'
  BY <1>33
  DEF RcloneMounts, OwnershipOK, ClosedIsReleased, ReadyIsOwned, TypeOK,
      ControlOK
<1>34. ASSUME NEW p \in Paths, RcloneExits(p)
      PROVE  OwnershipOK'
  BY <1>34
  DEF RcloneExits, OwnershipOK, ClosedIsReleased, ReadyIsOwned, TypeOK,
      ControlOK
<1>35. ASSUME NEW p \in Paths, UserUnmounts(p)
      PROVE  OwnershipOK'
  BY <1>35
  DEF UserUnmounts, OwnershipOK, ClosedIsReleased, ReadyIsOwned, TypeOK,
      ControlOK
<1>36. ASSUME NEW p \in Paths, Write(p)
      PROVE  OwnershipOK'
  BY <1>36
  DEF Write, OwnershipOK, ClosedIsReleased, ReadyIsOwned, TypeOK, ControlOK
<1>37. ASSUME NEW p \in Paths, Upload(p)
      PROVE  OwnershipOK'
  BY <1>37
  DEF Upload, OwnershipOK, ClosedIsReleased, ReadyIsOwned, TypeOK, ControlOK
<1>38. CASE UNCHANGED vars
  BY <1>38
  DEF vars, OwnershipOK, ClosedIsReleased, ReadyIsOwned, TypeOK, ControlOK
<1>39. CASE Accept
  BY <1>39
  DEF Accept, OwnershipOK, ClosedIsReleased, ReadyIsOwned, TypeOK, ControlOK
<1>40. CASE AcceptTimesOut
  BY <1>40
  DEF AcceptTimesOut, Refresh, OwnershipOK, ClosedIsReleased, ReadyIsOwned, TypeOK, ControlOK
<1>41. CASE HangUp
  BY <1>41
  DEF HangUp, Part, Die, OwnershipOK, ClosedIsReleased, ReadyIsOwned, TypeOK, ControlOK
<1>42. CASE Answer
  BY <1>42
  DEF Answer, Part, Die, OwnershipOK, ClosedIsReleased, ReadyIsOwned, TypeOK, ControlOK
<1> QED
  BY <1>1, <1>2, <1>3, <1>4, <1>5, <1>6, <1>7, <1>8, <1>9, <1>10, <1>11,
     <1>12, <1>13, <1>14, <1>15, <1>16, <1>17, <1>18, <1>19, <1>20, <1>21,
     <1>22, <1>23, <1>24, <1>25, <1>26, <1>27, <1>28, <1>29, <1>30, <1>31,
     <1>32, <1>33, <1>34, <1>35, <1>36, <1>37, <1>38, <1>39, <1>40,
     <1>41, <1>42
  DEF Next, DaemonStep, ClientStep, RecoverStep, RefreshStep, SessionStep, OpenStep,
     CloseStep, World

\* Every step keeps an ended session without mounts in service.
LEMMA StepEnded ==
  TypeOK /\ ControlOK /\ EndedOK /\ [Next]_vars => EndedOK'
<1> SUFFICES ASSUME TypeOK, ControlOK, EndedOK, [Next]_vars
             PROVE  EndedOK'
  OBVIOUS
<1>1. CASE Start
  BY <1>1
  DEF Start, StaleRows, EndedOK, EndedSessionsHoldNothing, TypeOK, ControlOK
<1>2. CASE Crash
  BY <1>2 DEF Crash, Die, EndedOK, EndedSessionsHoldNothing, TypeOK, ControlOK
<1>3. CASE RecoverWipe
  BY <1>3
  DEF RecoverWipe, EndedOK, EndedSessionsHoldNothing, TypeOK, ControlOK
<1>4. CASE RecoverDone
  BY <1>4
  DEF RecoverDone, BoundScope, SoleActive, EndedOK, EndedSessionsHoldNothing,
      TypeOK, ControlOK
<1>5. CASE Retire
  BY <1>5 DEF Retire, EndedOK, EndedSessionsHoldNothing, TypeOK, ControlOK
<1>6. CASE EnforceList
  BY <1>6
  DEF EnforceList, EndedOK, EndedSessionsHoldNothing, TypeOK, ControlOK
<1>7. CASE Refreshed
  BY <1>7
  DEF Refreshed, BoundScope, SoleActive, EndedOK, EndedSessionsHoldNothing,
      TypeOK, ControlOK
<1>8. CASE ImportGrant
  BY <1>8
  DEF ImportGrant, EndedOK, EndedSessionsHoldNothing, TypeOK, ControlOK
<1>9. CASE RevokeGrant
  BY <1>9
  DEF RevokeGrant, MayRevoke, EndedOK, EndedSessionsHoldNothing, TypeOK,
      ControlOK
<1>10. CASE OpenSession
  BY <1>10
  DEF OpenSession, MayOpenSession, EndedOK, EndedSessionsHoldNothing, TypeOK,
      ControlOK
<1>11. CASE CloseSession
  BY <1>11
  DEF CloseSession, SessionMounts, EndedOK, EndedSessionsHoldNothing, TypeOK,
      ControlOK
<1>12. CASE CloseSessionRow
  BY <1>12
  DEF CloseSessionRow, EndedOK, EndedSessionsHoldNothing, TypeOK, ControlOK
<1>13. CASE List
  BY <1>13 DEF List, EndedOK, EndedSessionsHoldNothing, TypeOK, ControlOK
<1>14. CASE OpenMount
  BY <1>14
  DEF OpenMount, NewRow, MayOpenMount, SoleActive, Die, EndedOK,
      EndedSessionsHoldNothing, TypeOK, ControlOK
<1>15. CASE OpenSpawn
  BY <1>15 DEF OpenSpawn, EndedOK, EndedSessionsHoldNothing, TypeOK, ControlOK
<1>16. CASE OpenPid
  BY <1>16 DEF OpenPid, EndedOK, EndedSessionsHoldNothing, TypeOK, ControlOK
<1>17. CASE OpenReady
  BY <1>17 DEF OpenReady, EndedOK, EndedSessionsHoldNothing, TypeOK, ControlOK
<1>18. CASE OpenMarker
  BY <1>18
  DEF OpenMarker, EndedOK, EndedSessionsHoldNothing, TypeOK, ControlOK
<1>19. CASE OpenFail
  BY <1>19 DEF OpenFail, EndedOK, EndedSessionsHoldNothing, TypeOK, ControlOK
<1>20. CASE CloseMount
  BY <1>20
  DEF CloseMount, BeginClose, EndedOK, EndedSessionsHoldNothing, TypeOK,
      ControlOK
<1>21. CASE ShowMount
  BY <1>21
  DEF ShowMount, BeginClose, EndedOK, EndedSessionsHoldNothing, TypeOK,
      ControlOK
<1>22. CASE CloseDrained
  BY <1>22
  DEF CloseDrained, EndedOK, EndedSessionsHoldNothing, TypeOK, ControlOK
<1>23. CASE CloseGivesUp
  BY <1>23
  DEF CloseGivesUp, EndedOK, EndedSessionsHoldNothing, TypeOK, ControlOK
<1>24. CASE CloseUnmount
  BY <1>24
  DEF CloseUnmount, EndedOK, EndedSessionsHoldNothing, TypeOK, ControlOK
<1>25. CASE CloseStop
  BY <1>25 DEF CloseStop, EndedOK, EndedSessionsHoldNothing, TypeOK, ControlOK
<1>26. CASE CloseCommit
  BY <1>26
  DEF CloseCommit, EndedOK, EndedSessionsHoldNothing, TypeOK, ControlOK
<1>27. CASE CloseWipe
  BY <1>27 DEF CloseWipe, EndedOK, EndedSessionsHoldNothing, TypeOK, ControlOK
<1>28. CASE TimePasses
  BY <1>28
  DEF TimePasses, EndedOK, EndedSessionsHoldNothing, TypeOK, ControlOK
<1>29. ASSUME NEW r \in Requests, Receive(r)
      PROVE  EndedOK'
  BY <1>29
  DEF Receive, Refresh, EndedOK, EndedSessionsHoldNothing, TypeOK, ControlOK
<1>30. ASSUME NEW p \in Paths, Recover(p)
      PROVE  EndedOK'
  BY <1>30 DEF Recover, EndedOK, EndedSessionsHoldNothing, TypeOK, ControlOK
<1>31. ASSUME NEW p \in Paths, Enforce(p)
      PROVE  EndedOK'
  BY <1>31
  DEF Enforce, BeginClose, EndedOK, EndedSessionsHoldNothing, TypeOK,
      ControlOK
<1>32. ASSUME NEW p \in Paths, CloseSessionMount(p)
      PROVE  EndedOK'
  BY <1>32
  DEF CloseSessionMount, BeginClose, EndedOK, EndedSessionsHoldNothing,
      TypeOK, ControlOK
<1>33. ASSUME NEW p \in Paths, RcloneMounts(p)
      PROVE  EndedOK'
  BY <1>33
  DEF RcloneMounts, EndedOK, EndedSessionsHoldNothing, TypeOK, ControlOK
<1>34. ASSUME NEW p \in Paths, RcloneExits(p)
      PROVE  EndedOK'
  BY <1>34
  DEF RcloneExits, EndedOK, EndedSessionsHoldNothing, TypeOK, ControlOK
<1>35. ASSUME NEW p \in Paths, UserUnmounts(p)
      PROVE  EndedOK'
  BY <1>35
  DEF UserUnmounts, EndedOK, EndedSessionsHoldNothing, TypeOK, ControlOK
<1>36. ASSUME NEW p \in Paths, Write(p)
      PROVE  EndedOK'
  BY <1>36 DEF Write, EndedOK, EndedSessionsHoldNothing, TypeOK, ControlOK
<1>37. ASSUME NEW p \in Paths, Upload(p)
      PROVE  EndedOK'
  BY <1>37 DEF Upload, EndedOK, EndedSessionsHoldNothing, TypeOK, ControlOK
<1>38. CASE UNCHANGED vars
  BY <1>38 DEF vars, EndedOK, EndedSessionsHoldNothing, TypeOK, ControlOK
<1>39. CASE Accept
  BY <1>39
  DEF Accept, EndedOK, EndedSessionsHoldNothing, TypeOK, ControlOK
<1>40. CASE AcceptTimesOut
  BY <1>40
  DEF AcceptTimesOut, Refresh, EndedOK, EndedSessionsHoldNothing, TypeOK, ControlOK
<1>41. CASE HangUp
  BY <1>41
  DEF HangUp, Part, Die, EndedOK, EndedSessionsHoldNothing, TypeOK, ControlOK
<1>42. CASE Answer
  BY <1>42
  DEF Answer, Part, Die, EndedOK, EndedSessionsHoldNothing, TypeOK, ControlOK
<1> QED
  BY <1>1, <1>2, <1>3, <1>4, <1>5, <1>6, <1>7, <1>8, <1>9, <1>10, <1>11,
     <1>12, <1>13, <1>14, <1>15, <1>16, <1>17, <1>18, <1>19, <1>20, <1>21,
     <1>22, <1>23, <1>24, <1>25, <1>26, <1>27, <1>28, <1>29, <1>30, <1>31,
     <1>32, <1>33, <1>34, <1>35, <1>36, <1>37, <1>38, <1>39, <1>40,
     <1>41, <1>42
  DEF Next, DaemonStep, ClientStep, RecoverStep, RefreshStep, SessionStep, OpenStep,
     CloseStep, World

\* Every step keeps the authority of what is served.
LEMMA StepAuthority ==
  TypeOK /\ ControlOK /\ SoleUnrevokedSession /\ EndedOK /\ AuthorityOK /\ [Next]_vars => AuthorityOK'
<1> SUFFICES ASSUME TypeOK, ControlOK, SoleUnrevokedSession, EndedOK, AuthorityOK, [Next]_vars
             PROVE  AuthorityOK'
  OBVIOUS
<1>1. CASE Start
  BY <1>1
  DEF Start, StaleRows, AuthorityOK, RefreshedAuthority, EndedOK,
      EndedSessionsHoldNothing, SoleUnrevokedSession, GrantOf, Dead, TypeOK,
      ControlOK
<1>2. CASE Crash
  BY <1>2
  DEF Crash, Die, AuthorityOK, RefreshedAuthority, EndedOK,
      EndedSessionsHoldNothing, SoleUnrevokedSession, GrantOf, Dead, TypeOK,
      ControlOK
<1>3. CASE RecoverWipe
  BY <1>3
  DEF RecoverWipe, AuthorityOK, RefreshedAuthority, EndedOK,
      EndedSessionsHoldNothing, SoleUnrevokedSession, GrantOf, Dead, TypeOK,
      ControlOK
<1>4. CASE RecoverDone
  BY <1>4
  DEF RecoverDone, BoundScope, SoleActive, AuthorityOK, RefreshedAuthority,
      EndedOK, EndedSessionsHoldNothing, SoleUnrevokedSession, GrantOf, Dead,
      TypeOK, ControlOK
<1>5. CASE Retire
  BY <1>5
  DEF Retire, AuthorityOK, RefreshedAuthority, EndedOK,
      EndedSessionsHoldNothing, SoleUnrevokedSession, GrantOf, Dead, TypeOK,
      ControlOK
<1>6. CASE EnforceList
  BY <1>6
  DEF EnforceList, AuthorityOK, RefreshedAuthority, EndedOK,
      EndedSessionsHoldNothing, SoleUnrevokedSession, GrantOf, Dead, TypeOK,
      ControlOK
<1>7. CASE Refreshed
  BY <1>7
  DEF Refreshed, BoundScope, SoleActive, AuthorityOK, RefreshedAuthority,
      EndedOK, EndedSessionsHoldNothing, SoleUnrevokedSession, GrantOf, Dead,
      TypeOK, ControlOK
<1>8. CASE ImportGrant
  BY <1>8
  DEF ImportGrant, AuthorityOK, RefreshedAuthority, EndedOK,
      EndedSessionsHoldNothing, SoleUnrevokedSession, GrantOf, Dead, TypeOK,
      ControlOK
<1>9. CASE RevokeGrant
  BY <1>9
  DEF RevokeGrant, MayRevoke, AuthorityOK, RefreshedAuthority, EndedOK,
      EndedSessionsHoldNothing, SoleUnrevokedSession, GrantOf, Dead, TypeOK,
      ControlOK
<1>10. CASE OpenSession
  BY <1>10
  DEF OpenSession, MayOpenSession, AuthorityOK, RefreshedAuthority, EndedOK,
      EndedSessionsHoldNothing, SoleUnrevokedSession, GrantOf, Dead, TypeOK,
      ControlOK
<1>11. CASE CloseSession
  BY <1>11
  DEF CloseSession, SessionMounts, AuthorityOK, RefreshedAuthority, EndedOK,
      EndedSessionsHoldNothing, SoleUnrevokedSession, GrantOf, Dead, TypeOK,
      ControlOK
<1>12. CASE CloseSessionRow
  BY <1>12
  DEF CloseSessionRow, AuthorityOK, RefreshedAuthority, EndedOK,
      EndedSessionsHoldNothing, SoleUnrevokedSession, GrantOf, Dead, TypeOK,
      ControlOK
<1>13. CASE List
  BY <1>13
  DEF List, AuthorityOK, RefreshedAuthority, EndedOK,
      EndedSessionsHoldNothing, SoleUnrevokedSession, GrantOf, Dead, TypeOK,
      ControlOK
<1>14. CASE OpenMount
  BY <1>14
  DEF OpenMount, NewRow, MayOpenMount, SoleActive, Die, AuthorityOK,
      RefreshedAuthority, EndedOK, EndedSessionsHoldNothing,
      SoleUnrevokedSession, GrantOf, Dead, TypeOK, ControlOK
<1>15. CASE OpenSpawn
  BY <1>15
  DEF OpenSpawn, AuthorityOK, RefreshedAuthority, EndedOK,
      EndedSessionsHoldNothing, SoleUnrevokedSession, GrantOf, Dead, TypeOK,
      ControlOK
<1>16. CASE OpenPid
  BY <1>16
  DEF OpenPid, AuthorityOK, RefreshedAuthority, EndedOK,
      EndedSessionsHoldNothing, SoleUnrevokedSession, GrantOf, Dead, TypeOK,
      ControlOK
<1>17. CASE OpenReady
  BY <1>17
  DEF OpenReady, AuthorityOK, RefreshedAuthority, EndedOK,
      EndedSessionsHoldNothing, SoleUnrevokedSession, GrantOf, Dead, TypeOK,
      ControlOK
<1>18. CASE OpenMarker
  BY <1>18
  DEF OpenMarker, AuthorityOK, RefreshedAuthority, EndedOK,
      EndedSessionsHoldNothing, SoleUnrevokedSession, GrantOf, Dead, TypeOK,
      ControlOK
<1>19. CASE OpenFail
  BY <1>19
  DEF OpenFail, AuthorityOK, RefreshedAuthority, EndedOK,
      EndedSessionsHoldNothing, SoleUnrevokedSession, GrantOf, Dead, TypeOK,
      ControlOK
<1>20. CASE CloseMount
  BY <1>20
  DEF CloseMount, BeginClose, AuthorityOK, RefreshedAuthority, EndedOK,
      EndedSessionsHoldNothing, SoleUnrevokedSession, GrantOf, Dead, TypeOK,
      ControlOK
<1>21. CASE ShowMount
  BY <1>21
  DEF ShowMount, BeginClose, AuthorityOK, RefreshedAuthority, EndedOK,
      EndedSessionsHoldNothing, SoleUnrevokedSession, GrantOf, Dead, TypeOK,
      ControlOK
<1>22. CASE CloseDrained
  BY <1>22
  DEF CloseDrained, AuthorityOK, RefreshedAuthority, EndedOK,
      EndedSessionsHoldNothing, SoleUnrevokedSession, GrantOf, Dead, TypeOK,
      ControlOK
<1>23. CASE CloseGivesUp
  BY <1>23
  DEF CloseGivesUp, AuthorityOK, RefreshedAuthority, EndedOK,
      EndedSessionsHoldNothing, SoleUnrevokedSession, GrantOf, Dead, TypeOK,
      ControlOK
<1>24. CASE CloseUnmount
  BY <1>24
  DEF CloseUnmount, AuthorityOK, RefreshedAuthority, EndedOK,
      EndedSessionsHoldNothing, SoleUnrevokedSession, GrantOf, Dead, TypeOK,
      ControlOK
<1>25. CASE CloseStop
  BY <1>25
  DEF CloseStop, AuthorityOK, RefreshedAuthority, EndedOK,
      EndedSessionsHoldNothing, SoleUnrevokedSession, GrantOf, Dead, TypeOK,
      ControlOK
<1>26. CASE CloseCommit
  BY <1>26
  DEF CloseCommit, AuthorityOK, RefreshedAuthority, EndedOK,
      EndedSessionsHoldNothing, SoleUnrevokedSession, GrantOf, Dead, TypeOK,
      ControlOK
<1>27. CASE CloseWipe
  BY <1>27
  DEF CloseWipe, AuthorityOK, RefreshedAuthority, EndedOK,
      EndedSessionsHoldNothing, SoleUnrevokedSession, GrantOf, Dead, TypeOK,
      ControlOK
<1>28. CASE TimePasses
  BY <1>28
  DEF TimePasses, AuthorityOK, RefreshedAuthority, EndedOK,
      EndedSessionsHoldNothing, SoleUnrevokedSession, GrantOf, Dead, TypeOK,
      ControlOK
<1>29. ASSUME NEW r \in Requests, Receive(r)
      PROVE  AuthorityOK'
  BY <1>29
  DEF Receive, Refresh, AuthorityOK, RefreshedAuthority, EndedOK,
      EndedSessionsHoldNothing, SoleUnrevokedSession, GrantOf, Dead, TypeOK,
      ControlOK
<1>30. ASSUME NEW p \in Paths, Recover(p)
      PROVE  AuthorityOK'
  BY <1>30
  DEF Recover, AuthorityOK, RefreshedAuthority, EndedOK,
      EndedSessionsHoldNothing, SoleUnrevokedSession, GrantOf, Dead, TypeOK,
      ControlOK
<1>31. ASSUME NEW p \in Paths, Enforce(p)
      PROVE  AuthorityOK'
  BY <1>31
  DEF Enforce, BeginClose, AuthorityOK, RefreshedAuthority, EndedOK,
      EndedSessionsHoldNothing, SoleUnrevokedSession, GrantOf, Dead, TypeOK,
      ControlOK
<1>32. ASSUME NEW p \in Paths, CloseSessionMount(p)
      PROVE  AuthorityOK'
  BY <1>32
  DEF CloseSessionMount, BeginClose, AuthorityOK, RefreshedAuthority,
      EndedOK, EndedSessionsHoldNothing, SoleUnrevokedSession, GrantOf, Dead,
      TypeOK, ControlOK
<1>33. ASSUME NEW p \in Paths, RcloneMounts(p)
      PROVE  AuthorityOK'
  BY <1>33
  DEF RcloneMounts, AuthorityOK, RefreshedAuthority, EndedOK,
      EndedSessionsHoldNothing, SoleUnrevokedSession, GrantOf, Dead, TypeOK,
      ControlOK
<1>34. ASSUME NEW p \in Paths, RcloneExits(p)
      PROVE  AuthorityOK'
  BY <1>34
  DEF RcloneExits, AuthorityOK, RefreshedAuthority, EndedOK,
      EndedSessionsHoldNothing, SoleUnrevokedSession, GrantOf, Dead, TypeOK,
      ControlOK
<1>35. ASSUME NEW p \in Paths, UserUnmounts(p)
      PROVE  AuthorityOK'
  BY <1>35
  DEF UserUnmounts, AuthorityOK, RefreshedAuthority, EndedOK,
      EndedSessionsHoldNothing, SoleUnrevokedSession, GrantOf, Dead, TypeOK,
      ControlOK
<1>36. ASSUME NEW p \in Paths, Write(p)
      PROVE  AuthorityOK'
  BY <1>36
  DEF Write, AuthorityOK, RefreshedAuthority, EndedOK,
      EndedSessionsHoldNothing, SoleUnrevokedSession, GrantOf, Dead, TypeOK,
      ControlOK
<1>37. ASSUME NEW p \in Paths, Upload(p)
      PROVE  AuthorityOK'
  BY <1>37
  DEF Upload, AuthorityOK, RefreshedAuthority, EndedOK,
      EndedSessionsHoldNothing, SoleUnrevokedSession, GrantOf, Dead, TypeOK,
      ControlOK
<1>38. CASE UNCHANGED vars
  BY <1>38
  DEF vars, AuthorityOK, RefreshedAuthority, EndedOK,
      EndedSessionsHoldNothing, SoleUnrevokedSession, GrantOf, Dead, TypeOK,
      ControlOK
<1>39. CASE Accept
  BY <1>39
  DEF Accept, AuthorityOK, RefreshedAuthority, EndedOK,
      EndedSessionsHoldNothing, SoleUnrevokedSession, GrantOf, Dead, TypeOK,
      ControlOK
<1>40. CASE AcceptTimesOut
  BY <1>40
  DEF AcceptTimesOut, Refresh, AuthorityOK, RefreshedAuthority, EndedOK,
      EndedSessionsHoldNothing, SoleUnrevokedSession, GrantOf, Dead, TypeOK,
      ControlOK
<1>41. CASE HangUp
  BY <1>41
  DEF HangUp, Part, Die, AuthorityOK, RefreshedAuthority, EndedOK,
      EndedSessionsHoldNothing, SoleUnrevokedSession, GrantOf, Dead, TypeOK,
      ControlOK
<1>42. CASE Answer
  BY <1>42
  DEF Answer, Part, Die, AuthorityOK, RefreshedAuthority, EndedOK,
      EndedSessionsHoldNothing, SoleUnrevokedSession, GrantOf, Dead, TypeOK,
      ControlOK
<1> QED
  BY <1>1, <1>2, <1>3, <1>4, <1>5, <1>6, <1>7, <1>8, <1>9, <1>10, <1>11,
     <1>12, <1>13, <1>14, <1>15, <1>16, <1>17, <1>18, <1>19, <1>20, <1>21,
     <1>22, <1>23, <1>24, <1>25, <1>26, <1>27, <1>28, <1>29, <1>30, <1>31,
     <1>32, <1>33, <1>34, <1>35, <1>36, <1>37, <1>38, <1>39, <1>40,
     <1>41, <1>42
  DEF Next, DaemonStep, ClientStep, RecoverStep, RefreshStep, SessionStep, OpenStep,
     CloseStep, World

\* No step leaves the closed state or moves a row to another session.
LEMMA StepFinal ==
  TypeOK /\ ControlOK /\ [Next]_vars => KeepsClosed
<1> SUFFICES ASSUME TypeOK, ControlOK, [Next]_vars
             PROVE  KeepsClosed
  OBVIOUS
<1>1. CASE OpenMount
  BY <1>1
  DEF OpenMount, NewRow, MayOpenMount, SoleActive, Die, KeepsClosed, TypeOK,
      ControlOK
<1>2. CASE OpenReady
  BY <1>2 DEF OpenReady, KeepsClosed, TypeOK, ControlOK
<1>3. CASE OpenFail
  BY <1>3 DEF OpenFail, KeepsClosed, TypeOK, ControlOK
<1>4. CASE CloseMount
  BY <1>4 DEF CloseMount, BeginClose, KeepsClosed, TypeOK, ControlOK
<1>5. CASE ShowMount
  BY <1>5 DEF ShowMount, BeginClose, KeepsClosed, TypeOK, ControlOK
<1>6. CASE CloseCommit
  BY <1>6 DEF CloseCommit, KeepsClosed, TypeOK, ControlOK
<1>7. ASSUME NEW p \in Paths, Recover(p)
      PROVE  KeepsClosed
  BY <1>7 DEF Recover, KeepsClosed, TypeOK, ControlOK
<1>8. ASSUME NEW p \in Paths, Enforce(p)
      PROVE  KeepsClosed
  BY <1>8 DEF Enforce, BeginClose, KeepsClosed, TypeOK, ControlOK
<1>9. ASSUME NEW p \in Paths, CloseSessionMount(p)
      PROVE  KeepsClosed
  BY <1>9 DEF CloseSessionMount, BeginClose, KeepsClosed, TypeOK, ControlOK
<1>10. CASE \/ Start
           \/ Crash
           \/ RecoverWipe
           \/ RecoverDone
           \/ Retire
           \/ EnforceList
           \/ Refreshed
           \/ ImportGrant
           \/ RevokeGrant
           \/ OpenSession
           \/ CloseSession
           \/ CloseSessionRow
           \/ List
           \/ OpenSpawn
           \/ OpenPid
           \/ OpenMarker
           \/ CloseDrained
           \/ CloseGivesUp
           \/ CloseUnmount
           \/ CloseStop
           \/ CloseWipe
           \/ World
           \/ Accept \/ AcceptTimesOut \/ HangUp \/ Answer
           \/ \E r \in Requests : Receive(r)
  <2>1. UNCHANGED <<mstate, msess>>
    BY <1>10
    DEF Start, StaleRows, Crash, Die, RecoverWipe, RecoverDone, BoundScope,
        SoleActive, Retire, EnforceList, Refreshed, ImportGrant, RevokeGrant,
        MayRevoke, OpenSession, MayOpenSession, CloseSession, SessionMounts,
        CloseSessionRow, List, OpenSpawn, OpenPid, OpenMarker, CloseDrained,
        CloseGivesUp, CloseUnmount, CloseStop, CloseWipe, TimePasses, Accept,
        AcceptTimesOut, Receive, Refresh, HangUp, Answer, Part,
        RcloneMounts, RcloneExits, UserUnmounts, Write, Upload, World
  <2> QED
    BY <2>1 DEF KeepsClosed, TypeOK, ControlOK
<1>11. CASE UNCHANGED vars
  BY <1>11 DEF vars, KeepsClosed, TypeOK, ControlOK
<1> QED
  BY <1>1, <1>2, <1>3, <1>4, <1>5, <1>6, <1>7, <1>8, <1>9, <1>10, <1>11
  DEF Next, DaemonStep, ClientStep, RecoverStep, RefreshStep, SessionStep, OpenStep,
     CloseStep, World

-----------------------------------------------------------------------------
(* The theorems                                                            *)

Invariant == /\ TypeOK /\ ControlOK /\ SoleUnrevokedSession
             /\ OwnershipOK /\ EndedOK /\ AuthorityOK

\* The conjunction holds in every reachable state.
THEOREM Inductive == Spec => []Invariant
<1>1. Init => Invariant
  BY InitInvariant DEF Invariant
<1>2. Invariant /\ [Next]_vars => Invariant'
  BY StepType, StepSession, StepOwnership, StepEnded, StepAuthority DEF Invariant
<1> QED
  BY <1>1, <1>2, PTL DEF Spec

\* Every variable of the daemon, the database and the disk keeps its type.
THEOREM TypeCorrect == Spec => []TypeOK
<1>1. Invariant => TypeOK
  BY DEF Invariant
<1> QED
  BY <1>1, Inductive, PTL

\* One active session at most, of a stored and unrevoked grant.
THEOREM SessionIsSole == Spec => []SoleUnrevokedSession
<1>1. Invariant => SoleUnrevokedSession
  BY DEF Invariant
<1> QED
  BY <1>1, Inductive, PTL

\* What a row says is true: a closed one has let go of all it named, a ready one
\* is owned by the daemon that serves now, and a closed session has no mount in
\* service.
THEOREM RowsStayTrue == Spec => []RowsAreTrue
<1>1. Invariant => RowsAreTrue
  BY DEF Invariant, RowsAreTrue, OwnershipOK, EndedOK
<1> QED
  BY <1>1, Inductive, PTL

\* No operation runs while a mount is served without authority.
THEOREM AuthorityIsFresh == Spec => []RefreshedAuthority
<1>1. Invariant => RefreshedAuthority
  BY DEF Invariant, AuthorityOK
<1> QED
  BY <1>1, Inductive, PTL

\* A closed mount stays closed and no row changes its session.
THEOREM ClosedStays == Spec => ClosedIsFinal
<1>1. Invariant /\ [Next]_vars => [KeepsClosed]_vars
  BY StepFinal DEF Invariant
<1> QED
  BY <1>1, Inductive, PTL DEF Spec, ClosedIsFinal
=============================================================================
