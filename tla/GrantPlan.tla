------------------------------ MODULE GrantPlan ------------------------------
(***************************************************************************)
(* What a grant may be turned into: the root-owned ceiling it has to stay  *)
(* within and the plan of the namespace made from it.                      *)
(*                                                                         *)
(*   session/ceiling.py          validate_grant_against_ceiling()          *)
(*   namespace/planner.py        build_namespace_plan()                    *)
(*   native/aspr-mount-worker.c  the worker's own list of reserved targets *)
(*                                                                         *)
(* A path is the sequence of its components.  An export is a record of its *)
(* canonical source, target, access, kind and the signed inode; a planned  *)
(* export has no source, and a descriptor slot.                            *)
(***************************************************************************)
EXTENDS Naturals, FiniteSets, SequencesExt

CONSTANTS
  TargetOrder,      \* the targets, in the order of their bytes
  PlannerReserved,  \* paths no target may overlap: _reserved()
  WorkerReserved,   \* paths no target may overlap: valid_target()
  Roots,            \* the source roots of the ceiling: path, access, kinds
  Forbidden,        \* forbidden source roots
  MaxExports,
  Policy            \* the ceiling's policy hash

Overlap(p, q) == IsPrefix(p, q) \/ IsPrefix(q, p)

RootsOver(source) == {r \in Roots : IsPrefix(r.path, source)}

\* ServerCeilingV1: the roots do not overlap, so a source has at most one.
ASSUME RootsAssumption == \A r, s \in Roots : r # s => ~Overlap(r.path, s.path)

ForbiddenSource(source) == \E f \in Forbidden : Overlap(source, f)

WithinCeiling(g) ==
  /\ Len(g.exports) <= MaxExports
  /\ g.policy \in {"none", Policy}
  /\ \A x \in ToSet(g.exports) :
       /\ \E r \in RootsOver(x.source) :
            /\ x.kind \in r.kinds
            /\ x.access = "rw" => r.access = "rw"
       /\ ~ForbiddenSource(x.source)

-----------------------------------------------------------------------------
Rank(target) == CHOOSE i \in DOMAIN TargetOrder : TargetOrder[i] = target

Planned(x, slot) ==
  [target |-> x.target, access |-> x.access, kind |-> x.kind, ino |-> x.ino,
   slot |-> slot]

SameExport(e, x) == e = Planned(x, e.slot)

Reserved(target) == \E r \in PlannerReserved : Overlap(target, r)

NoPlan == [ok |-> FALSE, exports |-> <<>>]

\* The body of the planner's loop: the next candidate in the order of targets.  At
\* most one planned export has its target.
PlanNext(plan, x) ==
  LET sameTarget == {e \in ToSet(plan.exports) : e.target = x.target}
      nested == \E e \in ToSet(plan.exports) : Overlap(e.target, x.target)
  IN IF ~plan.ok \/ Reserved(x.target) THEN NoPlan
     ELSE IF sameTarget # {}
     THEN IF \A e \in sameTarget : SameExport(e, x) THEN plan ELSE NoPlan
     ELSE IF nested THEN NoPlan
     ELSE [plan EXCEPT !.exports = Append(@, Planned(x, Len(@)))]

\* The orders a sequence can be put in, and the sequence in one of them.
Orders(s) == Bijection(DOMAIN s, DOMAIN s)

InOrder(s, order) == [i \in DOMAIN s |-> s[order[i]]]

\* Mutant of Candidates: the exports are planned in the order they were signed.
AsSigned(g) == g.exports

\* sorted() by target.  Of two exports with one target either may come first: they
\* are planned alike, or there is no plan.
Candidates(g) ==
  LET order == CHOOSE p \in Orders(g.exports) :
                 \A i, j \in DOMAIN g.exports :
                   i < j => Rank(g.exports[p[i]].target) <= Rank(g.exports[p[j]].target)
  IN InOrder(g.exports, order)

PlanFrom(candidates) ==
  LET plan[i \in 0..Len(candidates)] ==
        IF i = 0 THEN [ok |-> TRUE, exports |-> <<>>]
                 ELSE PlanNext(plan[i - 1], candidates[i])
  IN plan[Len(candidates)]

BuildPlan(g) == PlanFrom(Candidates(g))

\* _grant_export_for_plan_export(): there is an export signed like the planned one,
\* and the first is taken.
Signed(g, e) == \E x \in ToSet(g.exports) : SameExport(e, x)

ExportOf(g, e) ==
  g.exports[SelectInSeq(g.exports, LAMBDA x : SameExport(e, x))]

\* valid_target() of the native worker
WorkerTakes(target) == \A r \in WorkerReserved : ~Overlap(target, r)

-----------------------------------------------------------------------------
\* The reference definition: a grant has a plan when its targets are free and
\* apart, an export repeated being one export, and the plan is its exports in
\* the order of their targets, numbered from zero.
HasPlan(g) ==
  /\ \A x \in ToSet(g.exports) : ~Reserved(x.target)
  /\ \A x, y \in ToSet(g.exports) :
       Overlap(x.target, y.target) => Planned(x, 0) = Planned(y, 0)

PlanOf(g) ==
  LET targets == {x.target : x \in ToSet(g.exports)}
      nth(i) == CHOOSE t \in targets :
                  Cardinality({u \in targets : Rank(u) < Rank(t)}) = i - 1
  IN [i \in 1..Cardinality(targets) |->
        Planned(CHOOSE x \in ToSet(g.exports) : x.target = nth(i), i - 1)]

\* "Equivalent grants produce identical plans": the planner's loop computes the
\* reference, for a grant and for every other order of its exports.
PlanIsCanonical(g) ==
  \A order \in Orders(g.exports) :
    LET h == [exports |-> InOrder(g.exports, order)]
    IN /\ BuildPlan(h).ok <=> HasPlan(g)
       /\ HasPlan(g) => BuildPlan(h).exports = PlanOf(g)
=============================================================================
