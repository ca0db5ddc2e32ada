------------------------------ MODULE Authority ------------------------------
(***************************************************************************)
(* From the word of a person, or a grant brought in signed, to what a      *)
(* worker serves: the life of grants (GrantLifecycle) and the launch of    *)
(* workers (WorkerLaunch) interleaved.  A client presents a grant of its   *)
(* store, the revoked ones too; the broker keeps no revocations of its     *)
(* own.                                                                    *)
(***************************************************************************)
EXTENDS GrantLifecycle, WorkerLaunch

\* TargetOrder lists every target a grant has, once: a target has at most 4096 bytes,
\* and no two have the same.
ASSUME TargetsAssumption ==
  /\ TargetOrder \in Seq(ToSet(TargetOrder)) /\ IsInjective(TargetOrder)
  /\ \A t \in ToSet(TargetOrder) : t \in Seq(ToSet(t))
  /\ \A g \in Proposals : \A x \in ToSet(g.exports) : x.target \in ToSet(TargetOrder)

vars == <<lifecycleVars, launchVars>>

Init == LifecycleInit /\ LaunchInit

Next ==
  \/ LifecycleNext /\ UNCHANGED launchVars
  \/ (BrokerStep \/ Environment \/ \E g \in stored : Request(g)) /\ UNCHANGED lifecycleVars

Spec == Init /\ [][Next]_vars

\* End to end: every target a worker serves, with its access and the inode behind
\* it, is in a grant a person said yes to or in one that was brought in signed, and
\* none was signed for a path the ceiling of the machine's owner forbids.
ServedIsVouchedFor ==
  /\ ServedIsWithinCeiling
  /\ \A p \in Serving : \A e \in worker[p].tree : \E a \in Vouched : \E x \in ExportsOf(a) :
       x.target = e.target /\ x.access = e.access /\ x.ino = Ino[e.obj]
=============================================================================
