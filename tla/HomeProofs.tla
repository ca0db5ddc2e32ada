----------------------------- MODULE HomeProofs -----------------------------
(***************************************************************************)
(* Proofs about ProjectedHome and about Mediation, the two models of the   *)
(* process that serves a session's home: for any paths and rules, any      *)
(* quota and any requests, and for any number of operations, keys and      *)
(* operators.                                                              *)
(*                                                                         *)
(* The inductive invariant of the home has four parts: the trees are well  *)
(* formed and within the quota of files (Stored), files lie where the rules*)
(* say (Sound), the table of inodes counts what the kernel counts (Tables, *)
(* Underway), and handles are those the kernel has open (Handling).        *)
(* The quota of bytes is about steps (Kept): whoever takes one has looked  *)
(* at a sum over files, so the lemmas begin with induction.                *)
(*                                                                         *)
(* The inductive invariant of the mediation adds to the checked invariants *)
(* that a thread waits on a request for its own key, and that what an      *)
(* operator was shown of a number stays true of that number.               *)
(***************************************************************************)
EXTENDS ProjectedHome, Mediation, FiniteSetTheorems, SequenceTheorems,
        WellFoundedInduction, TLAPS

-----------------------------------------------------------------------------
(* Induction over numbers, from the finite sets of the proof library       *)

\* A set of finite sets has one that contains no other (the proof library has
\* it as a well-founded ordering).
LEMMA FiniteMinimum ==
  ASSUME NEW U, NEW T, T \subseteq FiniteSubsetsOf(U), T # {}
  PROVE  \E x \in T : \A y \in T : ~(y \subseteq x /\ y # x)
<1>1. IsWellFoundedOn(StrictSubsetOrdering(U), FiniteSubsetsOf(U))
  BY FS_StrictSubsetOrderingWellFounded
<1>2. PICK x \in T : \A y \in T : ~(<<y, x>> \in StrictSubsetOrdering(U))
  BY ONLY <1>1, WFMin, T \subseteq FiniteSubsetsOf(U), T # {}, Zenon
<1> QED BY <1>2 DEF StrictSubsetOrdering, FiniteSubsetsOf

\* Numbers have a least one among them: the sets 1..n have a smallest.
LEMMA Least ==
  ASSUME NEW T \in SUBSET Nat, T # {}
  PROVE  \E n \in T : \A m \in T : n <= m
<1> DEFINE S == {1 .. n : n \in T}
<1>1. S \subseteq FiniteSubsetsOf(Nat)
  <2>1. SUFFICES ASSUME NEW n \in T PROVE 1 .. n \in SUBSET Nat /\ IsFiniteSet(1 .. n)
    BY DEF FiniteSubsetsOf
  <2>2. n \in Int /\ 1 \in Int BY SMT
  <2>3. IsFiniteSet(1 .. n) BY <2>2, FS_Interval
  <2> QED BY <2>3, SMT
<1>2. S # {}
  OBVIOUS
<1>3. PICK x \in S : \A y \in S : ~(y \subseteq x /\ y # x)
  <2> HIDE DEF S
  <2> QED BY <1>1, <1>2, FiniteMinimum
<1>4. PICK n \in T : x = 1 .. n
  OBVIOUS
<1>5. ASSUME NEW m \in T PROVE n <= m
  <2>1. CASE m < n
    <3>1. 1 .. m \in S OBVIOUS
    <3>2. 1 .. m \subseteq 1 .. n BY <2>1, SMT
    <3>3. n \in 1 .. n /\ n \notin 1 .. m BY <2>1, SMT
    <3> QED BY <3>1, <3>2, <3>3, <1>3, <1>4, Zenon
  <2> QED BY <2>1, SMT
<1> QED BY <1>5

\* Induction over the numbers, with the predicate as a set.
LEMMA Induction ==
  ASSUME NEW T, 0 \in T, \A n \in Nat : n \in T => n + 1 \in T
  PROVE  Nat \subseteq T
<1> SUFFICES ASSUME Nat \ T # {} PROVE FALSE
  OBVIOUS
<1>1. PICK n \in Nat \ T : \A m \in Nat \ T : n <= m
  BY Least
<1>2. n # 0 /\ n - 1 \in Nat /\ ~(n <= n - 1) /\ n = (n - 1) + 1
  BY <1>1, SMT
<1>3. n - 1 \in T
  BY <1>1, <1>2
<1> QED BY <1>1, <1>2, <1>3

-----------------------------------------------------------------------------
(* Sums of sizes                                                           *)

\* What size is, whatever a file holds.
Sizes == [1 .. MaxObject -> Nat]
\* What an object adds to the sum over F.
Part(F, v, o) == IF o \in F THEN v[o] ELSE 0
\* s holds the sums over the first objects, up to k.
AddsUp(F, v, s, k) ==
  /\ s \in [0 .. k -> Nat] /\ s[0] = 0
  /\ \A o \in 1 .. k : s[o] = s[o - 1] + Part(F, v, o)

\* There are such sums.
LEMMA SumsExist ==
  ASSUME NEW F, NEW v \in Sizes, NEW k \in 0 .. MaxObject
  PROVE  \E s : AddsUp(F, v, s, k)
<1>0. MaxObject \in Nat BY ParametersAssumption
<1> DEFINE T == {i \in Nat : i <= MaxObject => \E s : AddsUp(F, v, s, i)}
<1>1. 0 \in T
  <2>1. AddsUp(F, v, [i \in 0 .. 0 |-> 0], 0) BY DEF AddsUp
  <2> QED BY <2>1
<1>2. ASSUME NEW i \in Nat, i \in T, i + 1 <= MaxObject PROVE \E s : AddsUp(F, v, s, i + 1)
  <2>1. PICK s : AddsUp(F, v, s, i)
    BY <1>0, <1>2
  <2> DEFINE u == [j \in 0 .. i + 1 |-> IF j <= i THEN s[j] ELSE s[i] + Part(F, v, i + 1)]
  <2>2. Part(F, v, i + 1) \in Nat
    <3>1. i + 1 \in 1 .. MaxObject BY <1>0, <1>2
    <3> QED BY <3>1 DEF Part, Sizes
  <2>3. AddsUp(F, v, u, i + 1)
    BY <2>1, <2>2 DEF AddsUp
  <2> QED BY <2>3
<1>3. Nat \subseteq T
  <2>1. \A i \in Nat : i \in T => i + 1 \in T BY <1>2
  <2> HIDE DEF T
  <2> QED BY <1>1, <2>1, Induction
<1> QED BY <1>0, <1>3

\* The recursive function of Total is one of them.
LEMMA TotalAddsUp ==
  ASSUME NEW F, NEW v \in Sizes
  PROVE  \E s : AddsUp(F, v, s, MaxObject) /\ Total(F, v) = s[MaxObject]
<1>0. MaxObject \in Nat BY ParametersAssumption
<1> DEFINE Body(s) == [o \in 0 .. MaxObject |-> IF o = 0 THEN 0 ELSE s[o - 1] + Part(F, v, o)]
<1> DEFINE chosen == CHOOSE s : s = Body(s)
<1>1. Total(F, v) = chosen[MaxObject]
  BY Zenon DEF Total, Part
<1>2. PICK h : AddsUp(F, v, h, MaxObject)
  BY <1>0, SumsExist
<1>3. h = Body(h)
  BY <1>0, <1>2 DEF AddsUp
<1>4. chosen = Body(chosen)
  BY <1>3
<1> HIDE DEF chosen
<1>5. chosen = h
  <2> DEFINE T == {i \in Nat : i <= MaxObject => chosen[i] = h[i]}
  <2>1. 0 \in T BY <1>0, <1>3, <1>4
  <2>2. ASSUME NEW i \in Nat, i \in T, i + 1 <= MaxObject PROVE chosen[i + 1] = h[i + 1]
    BY <1>0, <1>3, <1>4, <2>2
  <2>3. Nat \subseteq T
    <3>1. \A i \in Nat : i \in T => i + 1 \in T BY <2>2, <1>0
    <3> HIDE DEF T
    <3> QED BY <2>1, <3>1, Induction
  <2>4. \A o \in 0 .. MaxObject : chosen[o] = h[o] BY <2>3, <1>0
  <2> QED BY <1>3, <1>4, <2>4
<1> QED BY <1>1, <1>2, <1>5

\* A sum of which every part but one is no greater, and one at most d greater,
\* is at most d greater (the quota checks of write and create).
LEMMA TotalGrows ==
  ASSUME NEW F, NEW v \in Sizes, NEW G, NEW w \in Sizes, NEW x \in Nat, NEW d \in Nat,
         \A o \in 1 .. MaxObject : Part(G, w, o) <= Part(F, v, o) + (IF o = x THEN d ELSE 0)
  PROVE  Total(F, v) \in Nat /\ Total(G, w) \in Nat /\ Total(G, w) <= Total(F, v) + d
<1>0. MaxObject \in Nat BY ParametersAssumption
<1>1. PICK s : AddsUp(F, v, s, MaxObject) /\ Total(F, v) = s[MaxObject]
  BY TotalAddsUp
<1>2. PICK u : AddsUp(G, w, u, MaxObject) /\ Total(G, w) = u[MaxObject]
  BY TotalAddsUp
<1> DEFINE T == {i \in Nat : i <= MaxObject => u[i] <= s[i] + (IF i >= x THEN d ELSE 0)}
<1>3. 0 \in T BY <1>0, <1>1, <1>2 DEF AddsUp
<1>4. ASSUME NEW i \in Nat, i \in T, i + 1 <= MaxObject
      PROVE  u[i + 1] <= s[i + 1] + (IF i + 1 >= x THEN d ELSE 0)
  <2>1. /\ s[i + 1] = s[i] + Part(F, v, i + 1) /\ u[i + 1] = u[i] + Part(G, w, i + 1)
        /\ s[i] \in Nat /\ u[i] \in Nat
    BY <1>0, <1>1, <1>2, <1>4 DEF AddsUp
  <2>2. Part(F, v, i + 1) \in Nat /\ Part(G, w, i + 1) \in Nat
    BY <1>0, <1>4 DEF Part, Sizes
  <2>3. Part(G, w, i + 1) <= Part(F, v, i + 1) + (IF i + 1 = x THEN d ELSE 0)
    BY <1>0, <1>4
  <2>4. u[i] <= s[i] + (IF i >= x THEN d ELSE 0)
    BY <1>4, <1>0
  <2> QED BY <2>1, <2>2, <2>3, <2>4
<1>5. Nat \subseteq T
  <2>1. \A i \in Nat : i \in T => i + 1 \in T BY <1>4, <1>0
  <2> HIDE DEF T
  <2> QED BY <1>3, <2>1, Induction
<1>6. u[MaxObject] <= s[MaxObject] + d
  <2>1. MaxObject \in T BY <1>5, <1>0
  <2>2. u[MaxObject] \in Nat /\ s[MaxObject] \in Nat BY <1>0, <1>1, <1>2 DEF AddsUp
  <2> QED BY <2>1, <2>2
<1> QED BY <1>0, <1>1, <1>2, <1>6 DEF AddsUp

-----------------------------------------------------------------------------
(* Paths and trees                                                         *)

\* The names of files and directories.
Names == UNION {Range(p) : p \in Paths}

\* A path is a sequence of names, and so is all that leads to it.
LEMMA PathIsSeq ==
  ASSUME NEW p \in Paths
  PROVE  /\ p \in Seq(Names) /\ Len(p) \in Nat /\ Len(p) > 0
         /\ \A n \in 1 .. Len(p) : /\ SubSeq(p, 1, n) \in Paths
                                   /\ SubSeq(p, 1, n) \in Seq(Names)
                                   /\ Len(SubSeq(p, 1, n)) = n
                                   /\ \A m \in 1 .. n : SubSeq(SubSeq(p, 1, n), 1, m) = SubSeq(p, 1, m)
<1>1. p \in Seq(Range(p)) /\ p # <<>>
  BY ParametersAssumption DEF Root
<1>2. Range(p) \subseteq Names
  BY DEF Names
<1>3. p \in Seq(Names)
  BY <1>1, <1>2, SeqMonotonic
<1>4. Len(p) \in Nat /\ Len(p) > 0
  BY <1>1, <1>3
<1>5. ASSUME NEW n \in 1 .. Len(p)
      PROVE  /\ SubSeq(p, 1, n) \in Paths /\ SubSeq(p, 1, n) \in Seq(Names)
             /\ Len(SubSeq(p, 1, n)) = n
             /\ \A m \in 1 .. n : SubSeq(SubSeq(p, 1, n), 1, m) = SubSeq(p, 1, m)
  <2>1. SubSeq(p, 1, n) \in Paths
    BY ParametersAssumption
  <2>2. /\ SubSeq(p, 1, n) \in Seq(Names) /\ Len(SubSeq(p, 1, n)) = n
        /\ \A i \in 1 .. n : SubSeq(p, 1, n)[i] = p[i]
    BY <1>3, <1>4, <1>5, SubSeqProperties, SMT
  <2>3. ASSUME NEW m \in 1 .. n PROVE SubSeq(SubSeq(p, 1, n), 1, m) = SubSeq(p, 1, m)
    <3>1. /\ SubSeq(p, 1, m) \in Seq(Names) /\ Len(SubSeq(p, 1, m)) = m
          /\ \A i \in 1 .. m : SubSeq(p, 1, m)[i] = p[i]
      BY <1>3, <1>4, <1>5, <2>3, SubSeqProperties, SMT
    <3> DEFINE s == SubSeq(p, 1, n)
    <3>2. /\ SubSeq(s, 1, m) \in Seq(Names) /\ Len(SubSeq(s, 1, m)) = m
          /\ \A i \in 1 .. m : SubSeq(s, 1, m)[i] = s[i]
      BY <1>4, <1>5, <2>2, <2>3, SubSeqProperties, SMT
    <3>3. \A i \in 1 .. m : SubSeq(s, 1, m)[i] = SubSeq(p, 1, m)[i]
      BY <2>2, <2>3, <3>1, <3>2, <1>5
    <3> QED BY <3>1, <3>2, <3>3, SeqEqual
  <2> QED BY <2>1, <2>2, <2>3
<1> QED BY <1>3, <1>4, <1>5

\* A tree of nodes with a directory above each.
WellFormed(f) ==
  /\ DOMAIN f \subseteq Paths /\ Range(f) \subseteq Nodes
  /\ \A p \in DOMAIN f : \A q \in Above(p) : q \in DOMAIN f /\ f[q].kind = "dir"

\* A tree with the directories above p, as _ensure_parents() leaves it.
Added(f, p) == With(f, Above(p), Dir)
\* There is a file at p.
FileIn(f, p) == p \in DOMAIN f /\ f[p].kind = "file"

\* What is above a path has above it what is above the path, and is shorter.
LEMMA AboveIsClosed ==
  ASSUME NEW p \in Paths
  PROVE  /\ Above(p) \subseteq Paths /\ p \notin Above(p)
         /\ \A q \in Above(p) : Above(q) \subseteq Above(p) /\ Len(q) < Len(p)
<1>1. Len(p) \in Nat /\ Len(p) > 0
  BY PathIsSeq
<1>2. ASSUME NEW q \in Above(p) PROVE q \in Paths /\ Above(q) \subseteq Above(p) /\ Len(q) < Len(p)
  <2>1. PICK m \in 1 .. Len(p) - 1 : q = SubSeq(p, 1, m) BY <1>2 DEF Above
  <2>2. m \in 1 .. Len(p) /\ m < Len(p) BY <1>1, <2>1, SMT
  <2>3. q \in Paths /\ Len(q) = m /\ \A n \in 1 .. m : SubSeq(q, 1, n) = SubSeq(p, 1, n)
    BY <2>1, <2>2, PathIsSeq
  <2>4. ASSUME NEW x \in Above(q) PROVE x \in Above(p)
    <3>1. PICK n \in 1 .. m - 1 : x = SubSeq(q, 1, n) BY <2>3, <2>4 DEF Above
    <3>2. n \in 1 .. m /\ n \in 1 .. Len(p) - 1 BY <2>1, <1>1, <3>1, SMT
    <3> QED BY <2>3, <3>1, <3>2 DEF Above
  <2> QED BY <2>2, <2>3, <2>4
<1> QED BY <1>1, <1>2

\* The nodes are directories and files.
LEMMA NodesHaveKinds ==
  /\ \A x \in Nodes : x.kind \in {"dir", "file"} /\ x.object \in 0 .. MaxObject
  /\ Dir \in Nodes /\ Dir.kind = "dir"
  /\ \A o \in 0 .. MaxObject : File(o) \in Nodes /\ File(o).kind = "file" /\ File(o).object = o
BY ParametersAssumption DEF Nodes, Dir, File

\* _ensure_parents() keeps the tree well formed and adds directories only.
LEMMA AddedIsWellFormed ==
  ASSUME NEW f, WellFormed(f), NEW p \in Paths, \A q \in Above(p) : ~FileIn(f, q)
  PROVE  /\ WellFormed(Added(f, p))
         /\ DOMAIN Added(f, p) = DOMAIN f \cup Above(p)
         /\ \A q \in DOMAIN f : Added(f, p)[q] = f[q]
         /\ \A q \in Above(p) : Added(f, p)[q].kind = "dir"
         /\ \A q \in DOMAIN Added(f, p) : FileIn(Added(f, p), q) => q \in DOMAIN f
         /\ Files(Added(f, p)) = Files(f)
<1> DEFINE g == Added(f, p)
<1>1. DOMAIN g = DOMAIN f \cup Above(p)
  BY DEF Added, With
<1>2. \A q \in DOMAIN f : g[q] = f[q]
  BY DEF Added, With
<1>3. \A q \in Above(p) : q \notin DOMAIN f => g[q] = Dir
  BY DEF Added, With
<1>4. \A q \in DOMAIN f : f[q] \in Nodes
  BY DEF WellFormed, Range
<1>5. \A q \in Above(p) : g[q].kind = "dir"
  BY <1>2, <1>3, <1>4, NodesHaveKinds DEF FileIn
<1>6. \A q \in DOMAIN g : g[q] \in Nodes
  BY <1>1, <1>2, <1>3, <1>4, NodesHaveKinds
<1>7. DOMAIN g \subseteq Paths
  BY <1>1, AboveIsClosed DEF WellFormed
<1>8. ASSUME NEW q \in DOMAIN g, NEW r \in Above(q) PROVE r \in DOMAIN g /\ g[r].kind = "dir"
  <2>1. CASE q \in DOMAIN f BY <1>1, <1>2, <2>1, <1>8 DEF WellFormed
  <2>2. CASE q \in Above(p) BY <1>1, <1>5, <1>8, <2>2, AboveIsClosed
  <2> QED BY <1>1, <2>1, <2>2
<1>9. WellFormed(g)
  BY <1>6, <1>7, <1>8 DEF WellFormed, Range
<1>10. \A q \in DOMAIN g : FileIn(g, q) => q \in DOMAIN f
  BY <1>1, <1>5 DEF FileIn
<1>11. Files(g) = Files(f)
  <2>1. \A q : q \in DOMAIN g /\ g[q].kind = "file" <=> q \in DOMAIN f /\ f[q].kind = "file"
    BY <1>1, <1>2, <1>10 DEF FileIn
  <2> HIDE DEF g
  <2> QED BY <2>1, <1>2 DEF Files
<1> QED BY <1>1, <1>2, <1>5, <1>9, <1>10, <1>11

\* So does a node in a directory.
LEMMA GrownIsWellFormed ==
  ASSUME NEW f, WellFormed(f), NEW p \in Paths, p \notin DOMAIN f, NEW x \in Nodes,
         \A q \in Above(p) : q \in DOMAIN f /\ f[q].kind = "dir"
  PROVE  /\ WellFormed(With(f, {p}, x))
         /\ DOMAIN With(f, {p}, x) = DOMAIN f \cup {p}
         /\ With(f, {p}, x)[p] = x /\ \A q \in DOMAIN f : With(f, {p}, x)[q] = f[q]
<1> DEFINE g == With(f, {p}, x)
<1>1. DOMAIN g = DOMAIN f \cup {p} /\ g[p] = x /\ \A q \in DOMAIN f : g[q] = f[q]
  BY DEF With
<1> HIDE DEF g
<1>2. \A q \in DOMAIN g : g[q] \in Nodes
  BY <1>1 DEF WellFormed, Range
<1>3. ASSUME NEW q \in DOMAIN g, NEW r \in Above(q) PROVE r \in DOMAIN g /\ g[r].kind = "dir"
  BY <1>1, <1>3 DEF WellFormed
<1>4. WellFormed(g)
  BY <1>1, <1>2, <1>3 DEF WellFormed, Range
<1> QED BY <1>1, <1>4 DEF g

\* Its object joins the files, if it is one.
LEMMA GrownFiles ==
  ASSUME NEW f, NEW p, p \notin DOMAIN f, NEW x
  PROVE  /\ x.kind = "file" => Files(With(f, {p}, x)) = Files(f) \cup {x.object}
         /\ x.kind = "dir" => Files(With(f, {p}, x)) = Files(f)
<1> DEFINE g == With(f, {p}, x)
<1>1. DOMAIN g = DOMAIN f \cup {p} /\ g[p] = x /\ \A q \in DOMAIN f : g[q] = f[q]
  BY DEF With
<1> HIDE DEF g
<1>2. x.kind = "file" => Files(g) = Files(f) \cup {x.object}
  BY <1>1 DEF Files
<1>3. x.kind = "dir" => Files(g) = Files(f)
  BY <1>1 DEF Files
<1> QED BY <1>2, <1>3 DEF g

\* A path strictly below another.
LEMMA BelowIsAbove ==
  ASSUME NEW p \in Paths, NEW q \in Paths
  PROVE  q \in Beneath[p] <=> p \in Above(q)
<1>1. q \in Beneath[p] <=> Len(p) <= Len(q) /\ SubSeq(p, 1, Len(p)) = SubSeq(q, 1, Len(p)) /\ p # q
  BY DEF Beneath, IsStrictPrefix, IsPrefix
<1>2. /\ p \in Seq(Names) /\ Len(p) \in Nat /\ Len(p) > 0
      /\ q \in Seq(Names) /\ Len(q) \in Nat /\ Len(q) > 0
  BY PathIsSeq
<1>3. SubSeq(p, 1, Len(p)) = p /\ SubSeq(q, 1, Len(q)) = q
  BY <1>2, SubSeqFull
<1>4. p \in Above(q) <=> \E n \in 1 .. Len(q) - 1 : p = SubSeq(q, 1, n)
  BY DEF Above
<1>5. \A n \in 1 .. Len(q) : Len(SubSeq(q, 1, n)) = n
  BY PathIsSeq
<1> QED
  <2>1. ASSUME q \in Beneath[p] PROVE p \in Above(q)
    <3>1. Len(p) <= Len(q) /\ p = SubSeq(q, 1, Len(p)) /\ p # q BY <1>1, <1>3, <2>1
    <3>2. Len(p) # Len(q) BY <3>1, <1>3
    <3>3. Len(p) \in 1 .. Len(q) - 1 BY <3>1, <3>2, <1>2, SMT
    <3> QED BY <1>4, <3>1, <3>3
  <2>2. ASSUME p \in Above(q) PROVE q \in Beneath[p]
    <3>1. PICK n \in 1 .. Len(q) - 1 : p = SubSeq(q, 1, n) BY <1>4, <2>2
    <3>2. n \in 1 .. Len(q) /\ n < Len(q) BY <1>2, SMT
    <3>3. Len(p) = n BY <3>1, <3>2, <1>5
    <3>4. Len(p) <= Len(q) /\ SubSeq(p, 1, Len(p)) = SubSeq(q, 1, Len(p)) BY <3>1, <3>2, <3>3, <1>3
    <3>5. p # q BY <3>2, <3>3
    <3> QED BY <1>1, <3>4, <3>5
  <2> QED BY <2>1, <2>2

\* A file or an empty directory can go.
LEMMA ShrunkIsWellFormed ==
  ASSUME NEW f, WellFormed(f), NEW p \in DOMAIN f,
         f[p].kind = "file" \/ Below(f, p) = {}
  PROVE  /\ WellFormed(Without(f, p))
         /\ DOMAIN Without(f, p) = DOMAIN f \ {p}
         /\ \A q \in DOMAIN f \ {p} : Without(f, p)[q] = f[q]
         /\ Files(Without(f, p)) \subseteq Files(f)
<1> DEFINE g == Without(f, p)
<1>1. DOMAIN g = DOMAIN f \ {p} /\ \A q \in DOMAIN f \ {p} : g[q] = f[q]
  BY DEF Without, Restrict
<1> HIDE DEF g
<1>2. ASSUME NEW q \in DOMAIN g, NEW r \in Above(q) PROVE r \in DOMAIN g /\ g[r].kind = "dir"
  <2>1. r \in DOMAIN f /\ f[r].kind = "dir"
    BY <1>1, <1>2 DEF WellFormed
  <2>2. r # p
    <3>1. SUFFICES ASSUME r = p PROVE FALSE OBVIOUS
    <3>2. q \in DOMAIN f /\ p \in Paths /\ q \in Paths BY <1>1 DEF WellFormed
    <3>3. q \in Beneath[p] BY <3>1, <3>2, <1>2, BelowIsAbove
    <3>4. Below(f, p) # {} BY <3>2, <3>3 DEF Below
    <3> QED BY <3>1, <3>4, <2>1
  <2> QED BY <1>1, <2>1, <2>2
<1>3. WellFormed(g)
  BY <1>1, <1>2 DEF WellFormed, Range
<1>4. Files(g) \subseteq Files(f)
  BY <1>1 DEF Files
<1> QED BY <1>1, <1>3, <1>4 DEF g

\* Where a rename of p to q takes what is at x.
To(p, q, x) == q \o SubSeq(x, Len(p) + 1, Len(x))
\* x is p or below it.
Under(p, x) == x = p \/ p \in Above(x)

-----------------------------------------------------------------------------
(* Renames                                                                 *)

\* One path is above another when it is shorter and agrees with it, name by name.
LEMMA AboveByPlace ==
  ASSUME NEW p \in Paths, NEW x \in Paths
  PROVE  /\ p \in Above(x) => /\ Len(p) < Len(x)
                              /\ \A i \in 1 .. Len(p) : x[i] = p[i]
         /\ (Len(p) < Len(x) /\ \A i \in 1 .. Len(p) : x[i] = p[i]) => p \in Above(x)
<1>1. p \in Seq(Names) /\ Len(p) \in Nat /\ Len(p) > 0 /\ x \in Seq(Names) /\ Len(x) \in Nat
  BY PathIsSeq
<1>2. \A n \in 1 .. Len(x) : /\ SubSeq(x, 1, n) \in Seq(Names) /\ Len(SubSeq(x, 1, n)) = n
                             /\ \A i \in 1 .. n : SubSeq(x, 1, n)[i] = x[i]
  <2>1. SUFFICES ASSUME NEW n \in 1 .. Len(x)
                 PROVE  /\ SubSeq(x, 1, n) \in Seq(Names) /\ Len(SubSeq(x, 1, n)) = n
                        /\ \A i \in 1 .. n : SubSeq(x, 1, n)[i] = x[i]
    OBVIOUS
  <2>2. \A i \in 1 .. n : x[i] \in Names BY <1>1, <2>1, ElementOfSeq
  <2> QED BY <1>1, <2>1, <2>2, SubSeqProperties, SMT
<1>3. ASSUME p \in Above(x) PROVE Len(p) < Len(x) /\ \A i \in 1 .. Len(p) : x[i] = p[i]
  <2>1. PICK n \in 1 .. Len(x) - 1 : p = SubSeq(x, 1, n) BY <1>3 DEF Above
  <2>2. n \in 1 .. Len(x) /\ n < Len(x) BY <1>1, <2>1, SMT
  <2> QED BY <1>2, <2>1, <2>2
<1>4. ASSUME Len(p) < Len(x), \A i \in 1 .. Len(p) : x[i] = p[i] PROVE p \in Above(x)
  <2>1. Len(p) \in 1 .. Len(x) /\ Len(p) \in 1 .. Len(x) - 1 BY <1>1, <1>4, SMT
  <2>2. SubSeq(x, 1, Len(p)) = p BY <1>1, <1>2, <1>4, <2>1, SeqEqual
  <2> QED BY <2>1, <2>2 DEF Above
<1> QED BY <1>3, <1>4

\* The new name of x, name by name.
LEMMA ToByPlace ==
  ASSUME NEW p \in Paths, NEW q \in Paths, NEW x \in Paths, Under(p, x)
  PROVE  /\ To(p, q, x) \in Seq(Names) /\ Len(p) <= Len(x)
         /\ Len(To(p, q, x)) = Len(q) + Len(x) - Len(p)
         /\ \A i \in 1 .. Len(q) : To(p, q, x)[i] = q[i]
         /\ \A i \in 1 .. Len(x) - Len(p) : To(p, q, x)[Len(q) + i] = x[Len(p) + i]
         /\ \A i \in 1 .. Len(p) : x[i] = p[i]
<1>1. /\ p \in Seq(Names) /\ Len(p) \in Nat /\ Len(p) > 0 /\ x \in Seq(Names) /\ Len(x) \in Nat
      /\ q \in Seq(Names) /\ Len(q) \in Nat
  BY PathIsSeq
<1>2. Len(p) <= Len(x) /\ \A i \in 1 .. Len(p) : x[i] = p[i]
  BY <1>1, AboveByPlace DEF Under
<1> DEFINE rest == SubSeq(x, Len(p) + 1, Len(x))
<1>3. \A i \in Len(p) + 1 .. Len(x) : x[i] \in Names
  BY <1>1, ElementOfSeq, SMT
<1>4. /\ rest \in Seq(Names) /\ Len(rest) = Len(x) - Len(p)
      /\ \A i \in 1 .. Len(x) - Len(p) : rest[i] = x[Len(p) + i]
  <2>1. /\ rest \in Seq(Names)
        /\ Len(rest) = IF Len(p) + 1 <= Len(x) THEN Len(x) - (Len(p) + 1) + 1 ELSE 0
        /\ \A i \in 1 .. Len(x) - (Len(p) + 1) + 1 : rest[i] = x[Len(p) + 1 + i - 1]
    <3>1. Len(p) + 1 \in Int /\ Len(x) \in Int BY <1>1, SMT
    <3> QED BY <1>3, <3>1, SubSeqProperties
  <2> HIDE DEF rest
  <2> QED BY <2>1, <1>1, <1>2, SMT
<1> HIDE DEF rest
<1>5. /\ q \o rest \in Seq(Names) /\ Len(q \o rest) = Len(q) + Len(rest)
      /\ \A i \in 1 .. Len(q) + Len(rest) : (q \o rest)[i] =
             IF i <= Len(q) THEN q[i] ELSE rest[i - Len(q)]
  BY <1>1, <1>4, ConcatProperties
<1>6. To(p, q, x) = q \o rest
  BY DEF To, rest
<1>7. \A i \in 1 .. Len(q) : To(p, q, x)[i] = q[i]
  BY <1>1, <1>4, <1>5, <1>6, <1>2
<1>8. ASSUME NEW i \in 1 .. Len(x) - Len(p) PROVE To(p, q, x)[Len(q) + i] = x[Len(p) + i]
  <2>1. /\ Len(q) + i \in 1 .. Len(q) + Len(rest) /\ ~(Len(q) + i <= Len(q))
        /\ (Len(q) + i) - Len(q) = i
    BY <1>1, <1>2, <1>4, <1>8
  <2> QED BY <1>4, <1>5, <1>6, <1>8, <2>1
<1> QED BY <1>1, <1>2, <1>4, <1>5, <1>6, <1>7, <1>8

\* Two nodes are never moved to one name.
LEMMA ToIsInjective ==
  ASSUME NEW p \in Paths, NEW q \in Paths, NEW x \in Paths, Under(p, x),
         NEW y \in Paths, Under(p, y), To(p, q, x) = To(p, q, y)
  PROVE  x = y
<1>1. /\ Len(p) \in Nat /\ x \in Seq(Names) /\ Len(x) \in Nat
      /\ Len(q) \in Nat /\ y \in Seq(Names) /\ Len(y) \in Nat
  BY PathIsSeq
<1>2. /\ Len(p) <= Len(x) /\ Len(To(p, q, x)) = Len(q) + Len(x) - Len(p)
      /\ \A i \in 1 .. Len(x) - Len(p) : To(p, q, x)[Len(q) + i] = x[Len(p) + i]
      /\ \A i \in 1 .. Len(p) : x[i] = p[i]
  BY ToByPlace
<1>3. /\ Len(p) <= Len(y) /\ Len(To(p, q, y)) = Len(q) + Len(y) - Len(p)
      /\ \A i \in 1 .. Len(y) - Len(p) : To(p, q, y)[Len(q) + i] = y[Len(p) + i]
      /\ \A i \in 1 .. Len(p) : y[i] = p[i]
  BY ToByPlace
<1>4. Len(x) = Len(y)
  BY <1>1, <1>2, <1>3
<1>5. ASSUME NEW i \in 1 .. Len(x) PROVE x[i] = y[i]
  <2>1. CASE i <= Len(p) BY <1>1, <1>2, <1>3, <1>5, <2>1
  <2>2. CASE i > Len(p)
    <3>1. i - Len(p) \in 1 .. Len(x) - Len(p) /\ Len(p) + (i - Len(p)) = i
      BY <1>1, <1>2, <1>5, <2>2
    <3> QED BY <1>2, <1>3, <1>4, <3>1
  <2> QED BY <1>1, <1>5, <2>1, <2>2
<1> QED BY <1>1, <1>4, <1>5, SeqEqual

\* What was below p is moved to the same place below q.
LEMMA ToIsUnder ==
  ASSUME NEW p \in Paths, NEW q \in Paths, NEW x \in Paths, Under(p, x), To(p, q, x) \in Paths
  PROVE  Under(q, To(p, q, x)) /\ (x = p => To(p, q, x) = q) /\ (x # p => q \in Above(To(p, q, x)))
<1>1. /\ Len(p) \in Nat /\ x \in Seq(Names) /\ Len(x) \in Nat
      /\ Len(q) \in Nat /\ q \in Seq(Names)
  BY PathIsSeq
<1>2. /\ To(p, q, x) \in Seq(Names) /\ Len(p) <= Len(x)
      /\ Len(To(p, q, x)) = Len(q) + Len(x) - Len(p)
      /\ \A i \in 1 .. Len(q) : To(p, q, x)[i] = q[i]
  BY ToByPlace
<1>3. x = p => To(p, q, x) = q
  <2>1. SUFFICES ASSUME x = p PROVE To(p, q, x) = q OBVIOUS
  <2>2. Len(To(p, q, x)) = Len(q) BY <1>1, <1>2, <2>1
  <2> QED BY <1>1, <1>2, <2>2, SeqEqual
<1>4. x # p => q \in Above(To(p, q, x))
  <2>1. SUFFICES ASSUME x # p PROVE q \in Above(To(p, q, x)) OBVIOUS
  <2>2. Len(p) < Len(x) BY <2>1, AboveByPlace DEF Under
  <2>3. Len(q) < Len(To(p, q, x)) BY <1>1, <1>2, <2>2
  <2> QED BY <1>2, <2>3, AboveByPlace
<1> QED BY <1>3, <1>4 DEF Under

\* What lies above the new name of x is above q, or the new name of something
\* above x.
LEMMA AboveTo ==
  ASSUME NEW p \in Paths, NEW q \in Paths, NEW x \in Paths, Under(p, x), To(p, q, x) \in Paths,
         NEW r \in Above(To(p, q, x))
  PROVE  r \in Above(q) \/ \E z \in Above(x) : Under(p, z) /\ r = To(p, q, z)
<1> DEFINE y == To(p, q, x)
<1>1. /\ Len(p) \in Nat /\ Len(p) > 0 /\ x \in Seq(Names) /\ Len(x) \in Nat
      /\ Len(q) \in Nat /\ Len(q) > 0 /\ q \in Seq(Names) /\ p \in Seq(Names)
  BY PathIsSeq
<1>2. /\ y \in Seq(Names) /\ Len(p) <= Len(x) /\ Len(y) = Len(q) + Len(x) - Len(p)
      /\ \A i \in 1 .. Len(q) : y[i] = q[i]
      /\ \A i \in 1 .. Len(x) - Len(p) : y[Len(q) + i] = x[Len(p) + i]
      /\ \A i \in 1 .. Len(p) : x[i] = p[i]
  BY ToByPlace
<1>3. r \in Paths /\ r \in Seq(Names) /\ Len(r) \in Nat /\ Len(r) > 0
  BY AboveIsClosed, PathIsSeq
<1>4. Len(r) < Len(y) /\ \A i \in 1 .. Len(r) : y[i] = r[i]
  BY <1>3, AboveByPlace
<1> HIDE DEF y
<1>5. CASE Len(r) < Len(q)
  <2>1. \A i \in 1 .. Len(r) : q[i] = r[i] BY <1>1, <1>2, <1>3, <1>4, <1>5
  <2> QED BY <1>3, <1>5, <2>1, AboveByPlace
<1>6. CASE Len(q) <= Len(r)
  <2> DEFINE n == Len(p) + (Len(r) - Len(q))
             z == SubSeq(x, 1, n)
  <2>1. n \in 1 .. Len(x) - 1 /\ n \in 1 .. Len(x) /\ Len(p) <= n
    BY <1>1, <1>2, <1>3, <1>4, <1>6
  <2>2. z \in Above(x) BY <2>1 DEF Above
  <2>3. z \in Paths /\ z \in Seq(Names) /\ Len(z) = n BY <2>1, PathIsSeq
  <2> HIDE DEF z
  <2>4. \A i \in 1 .. n : x[i] = z[i] BY <2>2, <2>3, AboveByPlace
  <2>5. Under(p, z)
    <3>1. \A i \in 1 .. Len(p) : z[i] = p[i] BY <1>1, <1>2, <2>1, <2>4
    <3>2. CASE Len(p) < n BY <3>1, <3>2, <2>3, AboveByPlace DEF Under
    <3>3. CASE Len(p) = n BY <3>1, <3>3, <2>3, <1>1, SeqEqual DEF Under
    <3> QED BY <2>1, <1>1, <3>2, <3>3
  <2>6. /\ To(p, q, z) \in Seq(Names) /\ Len(p) <= Len(z)
        /\ Len(To(p, q, z)) = Len(q) + Len(z) - Len(p)
        /\ \A i \in 1 .. Len(q) : To(p, q, z)[i] = q[i]
        /\ \A i \in 1 .. Len(z) - Len(p) : To(p, q, z)[Len(q) + i] = z[Len(p) + i]
        /\ \A i \in 1 .. Len(p) : z[i] = p[i]
    BY <2>3, <2>5, ToByPlace
  <2>7. Len(To(p, q, z)) = Len(r) BY <1>1, <1>3, <2>3, <2>6
  <2>8. ASSUME NEW i \in 1 .. Len(r) PROVE r[i] = To(p, q, z)[i]
    <3>1. CASE i <= Len(q) BY <1>1, <1>2, <1>4, <2>6, <2>8, <3>1
    <3>2. CASE i > Len(q)
      <4>1. /\ i - Len(q) \in 1 .. Len(z) - Len(p) /\ i - Len(q) \in 1 .. Len(x) - Len(p)
            /\ Len(q) + (i - Len(q)) = i /\ Len(p) + (i - Len(q)) \in 1 .. n
        BY <1>1, <1>2, <1>3, <1>4, <2>1, <2>3, <2>8, <3>2
      <4>2. y[i] = x[Len(p) + (i - Len(q))] BY <4>1, <1>2
      <4>3. To(p, q, z)[i] = z[Len(p) + (i - Len(q))] BY <4>1, <2>6
      <4>4. y[i] = r[i] BY <1>4, <2>8
      <4> QED BY <4>1, <4>2, <4>3, <4>4, <2>4
    <3> QED BY <1>1, <2>8, <3>1, <3>2
  <2>9. r = To(p, q, z) BY <1>3, <2>6, <2>7, <2>8, SeqEqual
  <2> QED BY <2>2, <2>5, <2>9
<1> QED BY <1>1, <1>3, <1>5, <1>6
\* RenameIn(b, p, q), by its parts: the nodes that move,
Moving(t, p) == {p} \cup Below(t, p)
\* their new names,
MovedTo(t, p, q) == {To(p, q, x) : x \in Moving(t, p)}
\* and the tree after it.
Renamed(t, p, q) ==
  [y \in MovedTo(t, p, q) \cup (DOMAIN t \ Moving(t, p)) |->
     IF y \in MovedTo(t, p, q) THEN t[CHOOSE x \in Moving(t, p) : To(p, q, x) = y] ELSE t[y]]

\* What moves is p and what is below it.
LEMMA MovingIsUnder ==
  ASSUME NEW t, WellFormed(t), NEW p \in DOMAIN t
  PROVE  \A x : x \in Moving(t, p) <=> x \in DOMAIN t /\ Under(p, x)
<1>1. \A x \in DOMAIN t : x \in Paths
  BY DEF WellFormed
<1>2. \A x \in DOMAIN t : x \in Beneath[p] <=> p \in Above(x)
  BY <1>1, BelowIsAbove
<1> QED BY <1>2 DEF Moving, Below, Under

\* A rename keeps the tree well formed and moves what it finds: nothing is lost
\* from a directory and no node is left without one.
LEMMA RenamedIsWellFormed ==
  ASSUME NEW t, WellFormed(t), NEW p \in DOMAIN t, NEW q \in Paths, ~IsPrefix(p, q),
         MovedTo(t, p, q) \subseteq Paths,
         \A r \in Above(q) : r \in DOMAIN t /\ t[r].kind = "dir",
         q \in DOMAIN t => Below(t, q) = {}
  PROVE  /\ WellFormed(Renamed(t, p, q))
         /\ Files(Renamed(t, p, q)) \subseteq Files(t)
         /\ \A y \in DOMAIN Renamed(t, p, q) :
              \/ y \in DOMAIN t /\ Renamed(t, p, q)[y] = t[y]
              \/ \E x \in DOMAIN t : /\ Under(p, x) /\ y = To(p, q, x)
                                     /\ Renamed(t, p, q)[y] = t[x]
<1> DEFINE g == Renamed(t, p, q)
           M == Moving(t, p)
           N == MovedTo(t, p, q)
<1>1. p \in Paths /\ \A x \in DOMAIN t : x \in Paths
  BY DEF WellFormed
<1>2. \A x : x \in M <=> x \in DOMAIN t /\ Under(p, x)
  BY MovingIsUnder
<1>3. DOMAIN g = N \cup (DOMAIN t \ M)
  BY DEF Renamed
<1>4. ASSUME NEW x \in M PROVE To(p, q, x) \in N /\ To(p, q, x) \in Paths /\ g[To(p, q, x)] = t[x]
  <2>1. To(p, q, x) \in N /\ To(p, q, x) \in Paths BY DEF MovedTo
  <2>2. \A y \in M : To(p, q, y) = To(p, q, x) => y = x BY <1>1, <1>2, ToIsInjective
  <2>3. (CHOOSE y \in M : To(p, q, y) = To(p, q, x)) = x BY <2>2
  <2> QED BY <1>3, <2>1, <2>3 DEF Renamed
<1>5. \A y \in DOMAIN t \ M : y \notin N => g[y] = t[y]
  BY DEF Renamed
<1>6. \A y \in N : \E x \in M : y = To(p, q, x)
  BY DEF MovedTo
<1> HIDE DEF g, M, N
<1>7. p \notin Above(q)
  <2>1. p # q => (IsPrefix(p, q) <=> p \in Above(q))
    BY <1>1, BelowIsAbove DEF Beneath, IsStrictPrefix
  <2>2. q \notin Above(q) BY AboveIsClosed
  <2> QED BY <2>1, <2>2
<1>8. \A y \in DOMAIN g : g[y] \in Nodes
  <2>1. \A x \in DOMAIN t : t[x] \in Nodes BY DEF WellFormed, Range
  <2> QED BY <2>1, <1>2, <1>3, <1>4, <1>5, <1>6
<1>9. DOMAIN g \subseteq Paths
  BY <1>1, <1>3, <1>4, <1>6
<1>10. ASSUME NEW r \in DOMAIN t, ~Under(p, r), r \notin N PROVE r \in DOMAIN g /\ g[r] = t[r]
  BY <1>2, <1>3, <1>5, <1>10
<1>11. ASSUME NEW y \in DOMAIN g, NEW r \in Above(y) PROVE r \in DOMAIN g /\ g[r].kind = "dir"
  <2>1. CASE y \in N
    <3>1. PICK x \in M : y = To(p, q, x) BY <2>1, <1>6
    <3>2. x \in DOMAIN t /\ x \in Paths /\ Under(p, x) /\ To(p, q, x) \in Paths
      BY <1>1, <1>2, <1>4, <3>1
    <3>3. CASE r \in Above(q)
      <4>1. r \in Paths /\ Above(r) \subseteq Above(q) /\ Len(r) < Len(q) BY <3>3, AboveIsClosed
      <4>2. r # p /\ p \notin Above(r) BY <4>1, <3>3, <1>7
      <4>3. ASSUME r \in N PROVE FALSE
        <5>1. PICK z \in M : r = To(p, q, z) BY <4>3, <1>6
        <5>2. Under(q, r) BY <5>1, <1>1, <1>2, <1>4, ToIsUnder
        <5>3. Len(r) \in Nat /\ Len(q) \in Nat BY <4>1, PathIsSeq
        <5>4. r = q \/ Len(q) < Len(r) BY <5>2, <4>1, AboveIsClosed DEF Under
        <5> QED BY <5>3, <5>4, <4>1
      <4> QED BY <4>2, <4>3, <3>3, <1>10 DEF Under
    <3>4. CASE \E z \in Above(x) : Under(p, z) /\ r = To(p, q, z)
      <4>1. PICK z \in Above(x) : Under(p, z) /\ r = To(p, q, z) BY <3>4
      <4>2. z \in DOMAIN t /\ t[z].kind = "dir" BY <3>2, <4>1 DEF WellFormed
      <4>3. z \in M BY <4>1, <4>2, <1>2
      <4> QED BY <4>1, <4>2, <4>3, <1>3, <1>4
    <3>5. r \in Above(q) \/ \E z \in Above(x) : Under(p, z) /\ r = To(p, q, z)
      BY <1>1, <1>11, <3>1, <3>2, AboveTo
    <3> QED BY <3>3, <3>4, <3>5
  <2>2. CASE y \notin N
    <3>1. y \in DOMAIN t /\ ~Under(p, y) /\ y \in Paths BY <2>2, <1>1, <1>2, <1>3
    <3>2. r \in DOMAIN t /\ t[r].kind = "dir" BY <3>1, <1>11 DEF WellFormed
    <3>3. ~Under(p, r)
      BY <3>1, <1>11, AboveIsClosed DEF Under
    <3>4. r \notin N
      <4>1. SUFFICES ASSUME r \in N PROVE FALSE OBVIOUS
      <4>2. PICK z \in M : r = To(p, q, z) BY <4>1, <1>6
      <4>3. Under(q, r) BY <4>2, <1>1, <1>2, <1>4, ToIsUnder
      <4>4. q \in Above(y) BY <4>3, <3>1, <1>11, AboveIsClosed DEF Under
      <4>5. q \in DOMAIN t BY <3>1, <4>4 DEF WellFormed
      <4>6. y \in Below(t, q) BY <3>1, <4>4, BelowIsAbove DEF Below
      <4> QED BY <4>5, <4>6
    <3> QED BY <3>2, <3>3, <3>4, <1>10
  <2> QED BY <2>1, <2>2
<1>12. WellFormed(g)
  BY <1>8, <1>9, <1>11 DEF WellFormed, Range
<1>13. ASSUME NEW y \in DOMAIN g
       PROVE  \/ y \in DOMAIN t /\ g[y] = t[y]
              \/ \E x \in DOMAIN t : Under(p, x) /\ y = To(p, q, x) /\ g[y] = t[x]
  <2>1. CASE y \in N BY <2>1, <1>2, <1>4, <1>6
  <2>2. CASE y \notin N BY <2>2, <1>3, <1>5
  <2> QED BY <2>1, <2>2
<1>14. Files(g) \subseteq Files(t)
  BY <1>13 DEF Files
<1> QED BY <1>12, <1>13, <1>14 DEF g

-----------------------------------------------------------------------------
(* What is stored, and the quota                                           *)

\* The part of the invariant about what is stored: well-formed trees, objects of
\* the private tree that have a size, and the quota of files.
Stored ==
  /\ DOMAIN tree = Trees /\ \A b \in Trees : WellFormed(tree[b])
  /\ size \in [1 .. MaxObject -> 0 .. MaxSize]
  /\ Files(tree["private"]) \subseteq 1 .. MaxObject
  /\ Cardinality(Files(tree["private"])) <= MaxFiles

\* A step takes the private tree no further than the quota of bytes,
Within ==
  LET used == Total(Files(tree["private"]), size)
      after == Total(Files(tree'["private"]), size')
  IN  after <= used \/ after <= MaxBytes
\* or is an append the kernel placed before the end of the file.
Misplaced ==
  \E o \in 1 .. MaxObject : \E at \in 0 .. size[o] - 1, k \in 1 .. MaxSize :
    AppendIn("private", o, at, k)
Kept == Within \/ Misplaced

\* The bounds are numbers.
LEMMA Bounds ==
  /\ MaxBytes \in Nat /\ MaxFiles \in Nat /\ MaxInode \in Nat
  /\ MaxHandle \in Nat /\ MaxObject \in Nat /\ MaxCount \in Nat /\ MaxSize \in Nat
  /\ Trees = {"private", "overlay"}
BY ParametersAssumption DEF Trees

\* Sets of objects have cardinalities, and one more object counts one more.
LEMMA ObjectsAreFinite ==
  ASSUME NEW F, F \subseteq 1 .. MaxObject
  PROVE  /\ IsFiniteSet(F) /\ Cardinality(F) \in Nat
         /\ \A G \in SUBSET F : IsFiniteSet(G) /\ Cardinality(G) \in Nat /\ Cardinality(G) <= Cardinality(F)
         /\ \A o \in 1 .. MaxObject : o \notin F => Cardinality(F \cup {o}) = Cardinality(F) + 1
<1>1. 1 \in Int /\ MaxObject \in Int BY Bounds
<1>2. IsFiniteSet(1 .. MaxObject) BY <1>1, FS_Interval
<1>3. IsFiniteSet(F) BY <1>2, FS_Subset
<1>4. Cardinality(F) \in Nat BY <1>3, FS_CardinalityType
<1>5. \A G \in SUBSET F : IsFiniteSet(G) /\ Cardinality(G) <= Cardinality(F)
  BY <1>3, FS_Subset
<1>6. \A G \in SUBSET F : Cardinality(G) \in Nat
  BY <1>5, FS_CardinalityType
<1>7. \A o \in 1 .. MaxObject : o \notin F => Cardinality(F \cup {o}) = Cardinality(F) + 1
  BY <1>3, FS_AddElement
<1> QED BY <1>3, <1>4, <1>5, <1>6, <1>7

\* A tree may lose files.
LEMMA FewerFilesAreStored ==
  ASSUME Stored, NEW b \in Trees, NEW f, WellFormed(f), tree' = [tree EXCEPT ![b] = f], size' = size,
         b = "private" => Files(f) \subseteq Files(tree[b])
  PROVE  Stored' /\ Within
<1>1. DOMAIN tree' = Trees /\ \A c \in Trees : tree'[c] = IF c = b THEN f ELSE tree[c]
  BY DEF Stored
<1>2. Files(tree'["private"]) \subseteq Files(tree["private"])
  BY <1>1 DEF Trees
<1>3. \A c \in Trees : WellFormed(tree'[c])
  BY <1>1 DEF Stored
<1>4. Cardinality(Files(tree'["private"])) <= MaxFiles
  <2>1. /\ Cardinality(Files(tree["private"])) \in Nat
        /\ Cardinality(Files(tree'["private"])) \in Nat
        /\ Cardinality(Files(tree'["private"])) <= Cardinality(Files(tree["private"]))
    BY <1>2, ObjectsAreFinite DEF Stored
  <2> QED BY <2>1, Bounds DEF Stored
<1>5. Within
  <2> DEFINE F == Files(tree["private"])
             G == Files(tree'["private"])
  <2>1. size \in Sizes BY Bounds DEF Stored, Sizes
  <2>2. \A o \in 1 .. MaxObject : Part(G, size, o) <= Part(F, size, o) + (IF o = 0 THEN 0 ELSE 0)
    BY <1>2, <2>1, Bounds DEF Part, Sizes
  <2> HIDE DEF F, G
  <2>3. Total(F, size) \in Nat /\ Total(G, size) \in Nat /\ Total(G, size) <= Total(F, size) + 0
    BY <2>1, <2>2, TotalGrows
  <2>4. Total(G, size) <= Total(F, size) BY <2>3
  <2> QED BY <2>4 DEF Within, F, G
<1> QED BY <1>1, <1>2, <1>3, <1>4, <1>5 DEF Stored, WellFormed

\* Nothing changes but the size of an object: a file that grows has the quota's leave.
LEMMA ResizedIsStored ==
  ASSUME Stored, NEW o \in 1 .. MaxObject, NEW n \in 0 .. MaxSize,
         tree' = tree, size' = [size EXCEPT ![o] = n]
  PROVE  Stored' /\ ((n > size[o] => FitsSize("private", size[o], n)) => Within)
<1>1. size' \in [1 .. MaxObject -> 0 .. MaxSize]
  BY DEF Stored
<1> DEFINE F == Files(tree["private"])
<1>2. F \subseteq 1 .. MaxObject /\ size \in Sizes /\ size' \in Sizes
  BY <1>1, Bounds DEF Stored, Sizes
<1>3. Stored'
  BY <1>1 DEF Stored, WellFormed
<1>4. SUFFICES ASSUME n > size[o] => FitsSize("private", size[o], n) PROVE Within
  BY <1>3
<1> DEFINE d == IF n > size[o] THEN n - size[o] ELSE 0
<1>5. o \in Nat /\ size[o] \in Nat /\ n \in Nat /\ d \in Nat
  BY <1>2, Bounds DEF Sizes
<1>6. \A i \in 1 .. MaxObject : Part(F, size', i) <= Part(F, size, i) + (IF i = o THEN d ELSE 0)
  <2>1. SUFFICES ASSUME NEW i \in 1 .. MaxObject
                 PROVE  Part(F, size', i) <= Part(F, size, i) + (IF i = o THEN d ELSE 0)
    OBVIOUS
  <2>2. size[i] \in Nat /\ size'[i] \in Nat BY <1>2 DEF Sizes
  <2>3. CASE i = o
    <3>1. size'[i] = n BY <2>3 DEF Stored
    <3> QED BY <2>2, <2>3, <3>1, <1>5 DEF Part
  <2>4. CASE i # o
    <3>1. size'[i] = size[i] BY <2>4 DEF Stored
    <3> QED BY <2>2, <2>4, <3>1, <1>5 DEF Part
  <2> QED BY <2>3, <2>4
<1>7. n > size[o] => Total(F, size) + d <= MaxBytes
  BY <1>4 DEF FitsSize, Fits, Used
<1>8. ~(n > size[o]) => d = 0
  OBVIOUS
<1> HIDE DEF d, F
<1>9. Total(F, size) \in Nat /\ Total(F, size') \in Nat /\ Total(F, size') <= Total(F, size) + d
  BY <1>2, <1>5, <1>6, TotalGrows
<1>10. Total(F, size') <= Total(F, size) \/ Total(F, size') <= MaxBytes
  BY <1>5, <1>7, <1>8, <1>9, Bounds
<1> QED BY <1>10 DEF Within, F

\* A new, empty file.
LEMMA OneMoreFileIsStored ==
  ASSUME Stored, NEW f, WellFormed(f), NEW o \in 1 .. MaxObject, o \notin Files(tree["private"]),
         Files(f) = Files(tree["private"]) \cup {o},
         tree' = [tree EXCEPT !["private"] = f], size' = [size EXCEPT ![o] = 0],
         Fits("private", 1, 0)
  PROVE  Stored' /\ Within
<1>1. DOMAIN tree' = Trees /\ tree'["private"] = f /\ tree'["overlay"] = tree["overlay"]
  BY DEF Stored, Trees
<1> DEFINE F == Files(tree["private"])
<1>2. /\ size \in Sizes /\ size' \in Sizes /\ size' \in [1 .. MaxObject -> 0 .. MaxSize]
      /\ F \subseteq 1 .. MaxObject /\ F \cup {o} \subseteq 1 .. MaxObject
  BY Bounds DEF Stored, Sizes
<1>3. Cardinality(F \cup {o}) <= MaxFiles
  <2>1. Cardinality(F \cup {o}) = Cardinality(F) + 1 BY <1>2, ObjectsAreFinite
  <2> QED BY <2>1 DEF Fits
<1>4. Within
  <2>2. ASSUME NEW i \in 1 .. MaxObject
        PROVE  Part(F \cup {o}, size', i) <= Part(F, size, i) + (IF i = 0 THEN 0 ELSE 0)
    <3>1. size[i] \in Nat BY <1>2 DEF Sizes
    <3>2. i # o => size'[i] = size[i] BY DEF Stored
    <3>3. size'[o] = 0 BY DEF Stored
    <3> QED BY <3>1, <3>2, <3>3 DEF Part
  <2> DEFINE G == F \cup {o}
  <2>1. G = Files(tree'["private"]) BY <1>1
  <2> HIDE DEF F, G
  <2>3. Total(F, size) \in Nat /\ Total(G, size') \in Nat /\ Total(G, size') <= Total(F, size) + 0
    BY <1>2, <2>2, TotalGrows DEF G
  <2>4. Total(G, size') <= Total(F, size) BY <2>3
  <2> QED BY <2>1, <2>4 DEF Within, F
<1>6. \A c \in Trees : WellFormed(tree'[c])
  BY <1>1 DEF Stored, Trees
<1> QED BY <1>1, <1>2, <1>3, <1>4, <1>6 DEF Stored, WellFormed

-----------------------------------------------------------------------------
(* Routing                                                                 *)

\* The names in paths and in rules.
AllNames == Names \cup UNION {Range(Rules[i].path) : i \in DOMAIN Rules}

\* Rules are sequences of names with a scope and a mode.
LEMMA RulesAreTyped ==
  /\ Len(Rules) \in Nat /\ DOMAIN Rules = 1 .. Len(Rules)
  /\ \A i \in 1 .. Len(Rules) :
       /\ Rules[i].path \in Seq(AllNames) /\ Len(Rules[i].path) \in Nat
       /\ Rules[i].scope \in {"exact", "subtree"} /\ Rules[i].mode \in Modes
  /\ \A p \in Paths : p \in Seq(AllNames) /\ Len(p) \in Nat
<1> DEFINE RuleSet == [path : {Rules[i].path : i \in DOMAIN Rules},
                       scope : {"exact", "subtree"}, mode : Modes, list : BOOLEAN]
<1>1. Rules \in Seq(RuleSet) BY ParametersAssumption
<1>2. Len(Rules) \in Nat /\ DOMAIN Rules = 1 .. Len(Rules) BY <1>1, LenProperties
<1>3. ASSUME NEW i \in 1 .. Len(Rules)
      PROVE  /\ Rules[i].path \in Seq(AllNames) /\ Len(Rules[i].path) \in Nat
             /\ Rules[i].scope \in {"exact", "subtree"} /\ Rules[i].mode \in Modes
  <2>1. Rules[i] \in RuleSet BY <1>1, <1>3, ElementOfSeq
  <2>2. Rules[i].path \in Seq(Range(Rules[i].path)) BY <1>2, <1>3, ParametersAssumption
  <2>3. Range(Rules[i].path) \subseteq AllNames BY <1>2, <1>3 DEF AllNames
  <2>4. Rules[i].path \in Seq(AllNames) BY <2>2, <2>3, SeqMonotonic
  <2> QED BY <2>1, <2>4, LenProperties
<1>4. \A p \in Paths : p \in Seq(AllNames) /\ Len(p) \in Nat
  <2>1. Names \subseteq AllNames BY DEF AllNames
  <2> QED BY <2>1, PathIsSeq, SeqMonotonic
<1> QED BY <1>2, <1>3, <1>4

\* A prefix is shorter and agrees, name by name.
LEMMA PrefixByPlace ==
  ASSUME NEW s \in Seq(AllNames), NEW t \in Seq(AllNames)
  PROVE  IsPrefix(s, t) <=> Len(s) <= Len(t) /\ \A i \in 1 .. Len(s) : s[i] = t[i]
<1>1. Len(s) \in Nat /\ Len(t) \in Nat BY LenProperties
<1>2. SubSeq(s, 1, Len(s)) = s BY SubSeqFull
<1>3. CASE Len(s) <= Len(t)
  <2>1. \A i \in 1 .. Len(s) : t[i] \in AllNames BY <1>1, <1>3, ElementOfSeq
  <2>2. /\ SubSeq(t, 1, Len(s)) \in Seq(AllNames) /\ Len(SubSeq(t, 1, Len(s))) = Len(s)
        /\ \A i \in 1 .. Len(s) : SubSeq(t, 1, Len(s))[i] = t[i]
    BY <1>1, <2>1, SubSeqProperties, SMT
  <2>3. s = SubSeq(t, 1, Len(s)) <=> \A i \in 1 .. Len(s) : s[i] = t[i]
    BY <2>2, SeqEqual
  <2> QED BY <1>2, <1>3, <2>3 DEF IsPrefix
<1>4. CASE ~(Len(s) <= Len(t)) BY <1>4 DEF IsPrefix
<1> QED BY <1>3, <1>4

\* The candidates of decision(), and the first of its stable sort.
Candidates(p) == {i \in 1 .. Len(Rules) : Matches(Rules[i], p)}
\* The rules no other candidate comes before.
Best(p) ==
  {i \in Candidates(p) : \A j \in Candidates(p) :
     /\ ~ComesBefore(Rules[j], Rules[i])
     /\ j < i => ComesBefore(Rules[i], Rules[j])}

\* One rule decides at most,
LEMMA BestIsUnique ==
  ASSUME NEW p, NEW i \in Best(p), NEW j \in Best(p)
  PROVE  i = j
<1>1. i \in Int /\ j \in Int BY RulesAreTyped DEF Best, Candidates
<1> QED BY <1>1 DEF Best

\* and one does if any matches: the sort of decision() puts one first.
LEMMA BestExists ==
  ASSUME NEW p \in Paths, Candidates(p) # {}
  PROVE  Best(p) # {}
<1> DEFINE C == Candidates(p)
           E == {i \in C : Rules[i].scope = "exact"}
           S == IF E # {} THEN E ELSE C
<1>1. /\ \A i \in C : /\ i \in Nat /\ Len(Rules[i].path) \in Nat
                      /\ Rules[i].scope \in {"exact", "subtree"} /\ Len(Rules[i].path) <= Len(p)
      /\ Len(p) \in Nat
  <2>1. SUFFICES ASSUME NEW i \in C PROVE Len(Rules[i].path) <= Len(p)
    BY RulesAreTyped DEF Candidates
  <2>2. Matches(Rules[i], p) /\ Len(p) \in Nat BY RulesAreTyped DEF Candidates
  <2> QED BY <2>2 DEF Matches, IsPrefix
<1>2. S # {} /\ S \subseteq C OBVIOUS
<1>3. ASSUME NEW i \in S, NEW j \in C \ S
      PROVE  ~ComesBefore(Rules[j], Rules[i]) /\ ComesBefore(Rules[i], Rules[j])
  <2>1. Rules[i].scope = "exact" /\ Rules[j].scope = "subtree" BY <1>1, <1>3
  <2> QED BY <2>1 DEF ComesBefore
<1>4. ASSUME NEW i \in S, NEW j \in S PROVE Rules[i].scope = Rules[j].scope
  BY <1>1, <1>4
<1> HIDE DEF S, E
<1>5. PICK l \in S : \A j \in S : Len(Rules[j].path) <= Len(Rules[l].path)
  <2> DEFINE T == {Len(p) - Len(Rules[i].path) : i \in S}
  <2>1. T \in SUBSET Nat /\ T # {} BY <1>1, <1>2
  <2>2. PICK n \in T : \A m \in T : n <= m
    <3> HIDE DEF T
    <3> QED BY <2>1, Least
  <2>3. PICK l \in S : n = Len(p) - Len(Rules[l].path) BY <2>2
  <2>4. ASSUME NEW j \in S PROVE Len(Rules[j].path) <= Len(Rules[l].path)
    <3>1. Len(p) - Len(Rules[l].path) <= Len(p) - Len(Rules[j].path) BY <2>2, <2>3
    <3> QED BY <3>1, <1>1, <1>2
  <2> QED BY <2>4
<1> DEFINE L == {i \in S : Len(Rules[i].path) = Len(Rules[l].path)}
           D == {i \in L : Rules[i].mode = "deny"}
           F == IF D # {} THEN D ELSE L
<1>6. F # {} /\ F \subseteq L /\ L \subseteq S BY <1>5
<1>7. PICK i \in F : \A j \in F : i <= j
  <2>1. F \in SUBSET Nat /\ F # {} BY <1>1, <1>2, <1>6
  <2> HIDE DEF F
  <2> QED BY <2>1, Least
<1>8. ASSUME NEW j \in C
      PROVE  ~ComesBefore(Rules[j], Rules[i]) /\ (j < i => ComesBefore(Rules[i], Rules[j]))
  <2>1. i \in S /\ i \in C /\ i \in L BY <1>6, <1>2
  <2>2. CASE j \notin S BY <2>1, <2>2, <1>3
  <2>3. CASE j \in S
    <3>1. /\ Rules[i].scope = Rules[j].scope /\ Len(Rules[i].path) \in Nat /\ Len(Rules[j].path) \in Nat
          /\ Len(Rules[i].path) = Len(Rules[l].path)
      BY <2>1, <2>3, <1>4, <1>1, <1>2
    <3>2. ~(Rules[j].scope = "exact" /\ Rules[i].scope = "subtree")
      BY <3>1
    <3>3. CASE j \notin L
      <4>1. Len(Rules[j].path) < Len(Rules[i].path) BY <3>1, <3>3, <2>3, <1>5
      <4> QED BY <4>1, <3>1, <3>2 DEF ComesBefore
    <3>4. CASE j \in L
      <4>1. Len(Rules[j].path) = Len(Rules[i].path) BY <3>4, <3>1
      <4>2. CASE j \in F
        <5>1. i <= j /\ i \in Nat /\ j \in Nat BY <1>7, <4>2, <1>1, <2>1
        <5>2. Rules[i].mode = "deny" <=> Rules[j].mode = "deny" BY <4>2, <3>4
        <5> QED BY <5>1, <5>2, <4>1, <3>1, <3>2 DEF ComesBefore
      <4>3. CASE j \notin F
        <5>1. Rules[i].mode = "deny" /\ Rules[j].mode # "deny" BY <4>3, <3>4
        <5> QED BY <5>1, <4>1, <3>1, <3>2 DEF ComesBefore
      <4> QED BY <4>2, <4>3
    <3> QED BY <3>3, <3>4
  <2> QED BY <2>2, <2>3
<1>9. i \in C BY <1>6, <1>2
<1>10. i \in Best(p) BY <1>8, <1>9 DEF Best
<1> QED BY <1>10

\* So the decider is no rule or the first one.
LEMMA DeciderIsBest ==
  ASSUME NEW p \in Paths
  PROVE  \/ Candidates(p) = {} /\ Decider(Rules, p) = NoRule
         \/ \E i \in Best(p) : Decider(Rules, p) = Rules[i]
<1>1. Decider(Rules, p) = IF Candidates(p) = {} THEN NoRule ELSE Rules[CHOOSE i \in Best(p) : TRUE]
  BY Zenon DEF Decider, Candidates, Best
<1> QED BY <1>1, BestExists

\* A path for which some writing is allowed has a writable rule, and the tree
\* it names answers for every writing and for lookups.
LEMMA WritableRoutes ==
  ASSUME NEW p \in Paths, NEW op \in WriteOps, Route(p, op) \in Trees
  PROVE  /\ \A o \in WriteOps \cup {"lookup"} : Route(p, o) = Route(p, op)
         /\ Decider(Rules, p).mode \in Writable
         /\ Candidates(p) # {}
<1>1. \A o \in WriteOps \cup {"lookup"} : o \in Operations
  BY DEF WriteOps, Operations, ReadOps
<1>2. \A o \in WriteOps \cup {"lookup"} :
        Route(p, o) = IF ~Allows(Decider(Rules, p), o) THEN "none"
                      ELSE IF Decider(Rules, p).mode = "private-rw" THEN "private"
                      ELSE IF Decider(Rules, p).mode = "overlay-rw" THEN "overlay" ELSE "host"
  BY <1>1 DEF Route, Routes, Allowed
<1>3. Allows(Decider(Rules, p), op)
  BY <1>2 DEF Trees
<1>4. Decider(Rules, p).mode \in Writable
  BY <1>3 DEF Allows
<1>5. \A o \in WriteOps \cup {"lookup"} : Allows(Decider(Rules, p), o)
  BY <1>4 DEF Allows, Writable, WriteOps, ReadOps
<1>6. Decider(Rules, p) # NoRule
  BY <1>4 DEF NoRule, Rule, Writable
<1>7. Candidates(p) # {}
  BY <1>6, DeciderIsBest DEF Best
<1>8. \A o \in WriteOps \cup {"lookup"} : Route(p, o) = Route(p, op)
  BY <1>2, <1>5
<1> QED BY <1>4, <1>7, <1>8

\* Where writable rules are flat, what is below a writable path is in its tree.
LEMMA FlatRoutes ==
  ASSUME FlatRules, NEW q \in Paths, NEW y \in Paths, q \in Above(y),
         Route(q, "rename") \in Trees
  PROVE  Route(y, "lookup") = Route(q, "rename")
<1>1. "rename" \in WriteOps BY DEF WriteOps
<1>2. Decider(Rules, q).mode \in Writable /\ Candidates(q) # {} BY <1>1, WritableRoutes
<1>3. PICK i \in Best(q) : Decider(Rules, q) = Rules[i] BY <1>2, DeciderIsBest
<1>4. i \in 1 .. Len(Rules) /\ Matches(Rules[i], q) /\ i \in DOMAIN Rules
  BY <1>3, RulesAreTyped DEF Best, Candidates
<1>5. Rules[i].scope = "subtree" /\ \A j \in DOMAIN Rules : ~IsStrictPrefix(Rules[i].path, Rules[j].path)
  BY <1>2, <1>3, <1>4 DEF FlatRules
<1>6. /\ Rules[i].path \in Seq(AllNames) /\ q \in Seq(AllNames) /\ y \in Seq(AllNames)
      /\ Len(q) \in Nat /\ Len(y) \in Nat /\ Len(Rules[i].path) \in Nat
  BY <1>4, RulesAreTyped
<1>7. Len(Rules[i].path) <= Len(q) /\ \A k \in 1 .. Len(Rules[i].path) : Rules[i].path[k] = q[k]
  BY <1>4, <1>6, PrefixByPlace DEF Matches
<1>8. Len(q) < Len(y) /\ \A k \in 1 .. Len(q) : y[k] = q[k] BY AboveByPlace
<1>9. Len(Rules[i].path) <= Len(y) /\ \A k \in 1 .. Len(Rules[i].path) : Rules[i].path[k] = y[k]
  BY <1>6, <1>7, <1>8
<1>10. i \in Candidates(y)
  BY <1>4, <1>5, <1>6, <1>9, PrefixByPlace DEF Candidates, Matches
<1>11. ASSUME NEW j \in Candidates(y) PROVE j \in Candidates(q)
  <2>1. /\ j \in 1 .. Len(Rules) /\ j \in DOMAIN Rules /\ Matches(Rules[j], y)
        /\ Rules[j].path \in Seq(AllNames) /\ Len(Rules[j].path) \in Nat
    BY <1>11, RulesAreTyped DEF Candidates
  <2>2. Len(Rules[j].path) <= Len(y) /\ \A k \in 1 .. Len(Rules[j].path) : Rules[j].path[k] = y[k]
    BY <2>1, <1>6, PrefixByPlace DEF Matches
  <2>3. Len(Rules[j].path) <= Len(Rules[i].path)
    <3>1. SUFFICES ASSUME Len(Rules[i].path) < Len(Rules[j].path) PROVE FALSE BY <1>6, <2>1
    <3>2. \A k \in 1 .. Len(Rules[i].path) : Rules[i].path[k] = Rules[j].path[k]
      BY <1>6, <1>9, <2>1, <2>2, <3>1
    <3>3. IsPrefix(Rules[i].path, Rules[j].path)
      <4>1. Len(Rules[i].path) <= Len(Rules[j].path) BY <1>6, <2>1, <3>1
      <4> QED BY <1>6, <2>1, <3>2, <4>1, PrefixByPlace
    <3>4. Rules[i].path # Rules[j].path BY <3>1, <1>6
    <3> QED BY <1>5, <2>1, <3>3, <3>4 DEF IsStrictPrefix
  <2>4. Rules[j].scope = "subtree"
    <3>1. Rules[j].path # y BY <2>3, <1>6, <1>7, <1>8, <2>1
    <3> QED BY <2>1, <3>1 DEF Matches
  <2>5. IsPrefix(Rules[j].path, q)
    <3>1. Len(Rules[j].path) <= Len(q) BY <2>1, <2>3, <1>6, <1>7
    <3>2. \A k \in 1 .. Len(Rules[j].path) : Rules[j].path[k] = q[k]
      BY <2>1, <2>2, <3>1, <1>6, <1>8
    <3> QED BY <3>1, <3>2, <2>1, <1>6, PrefixByPlace
  <2> QED BY <2>1, <2>4, <2>5 DEF Candidates, Matches
<1>12. i \in Best(y)
  BY <1>3, <1>10, <1>11 DEF Best
<1>13. Decider(Rules, y) = Rules[i]
  BY <1>10, <1>12, DeciderIsBest, BestIsUnique
<1>14. \A p \in Paths, o \in {"rename", "lookup"} :
        Route(p, o) = IF ~Allows(Decider(Rules, p), o) THEN "none"
                      ELSE IF Decider(Rules, p).mode = "private-rw" THEN "private"
                      ELSE IF Decider(Rules, p).mode = "overlay-rw" THEN "overlay" ELSE "host"
  BY DEF Route, Routes, Allowed, WriteOps, Operations, ReadOps
<1>15. Route(q, "rename") = Route(q, "lookup")
  BY <1>1, WritableRoutes
<1>16. Route(y, "lookup") = Route(q, "lookup")
  BY <1>3, <1>13, <1>14
<1> QED BY <1>15, <1>16

-----------------------------------------------------------------------------
(* The operations on the trees                                             *)

\* The files of a tree are the tree's by the rules.
Follow(b, f) == \A p \in DOMAIN f : f[p].kind = "file" => Route(p, "lookup") = b
\* The part of the invariant about the trees; that files follow rules needs the
\* rules to be flat, the rest does not.
Sound == Stored /\ (FlatRules => \A b \in Trees : Follow(b, tree[b]))

\* The trees are trees of nodes.
LEMMA TreesAreTrees ==
  ASSUME Stored, NEW b \in Trees
  PROVE  /\ WellFormed(tree[b])
         /\ \A p \in DOMAIN tree[b] : p \in Paths /\ tree[b][p] \in Nodes
         /\ \A q : IsFile(b, q) <=> FileIn(tree[b], q)
BY DEF Stored, WellFormed, Range, IsFile, FileIn

\* What _ensure_parents() leaves of a tree.
LEMMA ParentsAreAdded ==
  ASSUME Sound, NEW b \in Trees, NEW p \in Paths, ParentsOk(b, p)
  PROVE  /\ WellFormed(WithParents(b, p)) /\ Files(WithParents(b, p)) = Files(tree[b])
         /\ DOMAIN WithParents(b, p) = DOMAIN tree[b] \cup Above(p)
         /\ \A q \in DOMAIN tree[b] : WithParents(b, p)[q] = tree[b][q]
         /\ \A q \in Above(p) : q \in DOMAIN WithParents(b, p) /\ WithParents(b, p)[q].kind = "dir"
         /\ FlatRules => Follow(b, WithParents(b, p))
<1>1. WellFormed(tree[b]) BY TreesAreTrees DEF Sound
<1>2. \A q \in Above(p) : ~FileIn(tree[b], q) BY TreesAreTrees DEF Sound, ParentsOk
<1>3. WithParents(b, p) = Added(tree[b], p) BY DEF WithParents, Added
<1>4. /\ WellFormed(WithParents(b, p))
      /\ DOMAIN WithParents(b, p) = DOMAIN tree[b] \cup Above(p)
      /\ \A q \in DOMAIN tree[b] : WithParents(b, p)[q] = tree[b][q]
      /\ \A q \in Above(p) : WithParents(b, p)[q].kind = "dir"
      /\ \A q \in DOMAIN WithParents(b, p) : FileIn(WithParents(b, p), q) => q \in DOMAIN tree[b]
      /\ Files(WithParents(b, p)) = Files(tree[b])
  BY <1>1, <1>2, <1>3, AddedIsWellFormed
<1>5. FlatRules => Follow(b, WithParents(b, p))
  BY <1>4 DEF Sound, Follow, FileIn
<1> QED BY <1>4, <1>5

\* What is left to show of a tree that has changed.
LEMMA ChangedIsSound ==
  ASSUME Sound, NEW b \in Trees, NEW f, tree' = [tree EXCEPT ![b] = f],
         FlatRules => Follow(b, f), Stored' /\ Within
  PROVE  Sound' /\ Kept
<1>1. \A c \in Trees : tree'[c] = IF c = b THEN f ELSE tree[c]
  BY DEF Sound, Stored
<1> QED BY <1>1 DEF Sound, Follow, Kept

\* A create or a rename that fails after it keeps the trees sound, and the quota.
LEMMA ParentsAreSound ==
  ASSUME Sound, NEW b \in Trees, NEW p \in Paths, ParentsOk(b, p),
         tree' = [tree EXCEPT ![b] = WithParents(b, p)], size' = size
  PROVE  Sound' /\ Kept
<1>1. /\ WellFormed(WithParents(b, p)) /\ Files(WithParents(b, p)) = Files(tree[b])
      /\ FlatRules => Follow(b, WithParents(b, p))
  BY ParentsAreAdded
<1>2. Stored' /\ Within BY <1>1, FewerFilesAreStored DEF Sound
<1> QED BY <1>1, <1>2, ChangedIsSound

\* A directory, or a file its rule sends here, may be added.
LEMMA FollowsGrown ==
  ASSUME NEW b \in Trees, NEW f, NEW p \in Paths, NEW x, FlatRules => Follow(b, f),
         x.kind = "file" => Route(p, "lookup") = b, p \notin DOMAIN f
  PROVE  FlatRules => Follow(b, With(f, {p}, x))
BY DEF Follow, With

\* _ensure_parents() does not make the node itself.
LEMMA NotAbove ==
  ASSUME Sound, NEW b \in Trees, NEW p \in Paths, ParentsOk(b, p), p \notin DOMAIN tree[b]
  PROVE  p \notin DOMAIN WithParents(b, p)
<1>1. DOMAIN WithParents(b, p) = DOMAIN tree[b] \cup Above(p)
  BY DEF WithParents, With
<1>2. p \notin Above(p) BY AboveIsClosed
<1> QED BY <1>1, <1>2

\* mkdir() keeps the trees sound.
LEMMA MkdirIsSound ==
  ASSUME Sound, NEW b \in Trees, NEW p \in Paths, ParentsOk(b, p), MkdirIn(b, p), size' = size
  PROVE  Sound' /\ Kept
<1> DEFINE f == WithParents(b, p)
<1>1. p \notin DOMAIN tree[b] /\ tree' = [tree EXCEPT ![b] = With(f, {p}, Dir)]
  BY DEF MkdirIn
<1>2. /\ WellFormed(f) /\ Files(f) = Files(tree[b]) /\ p \notin DOMAIN f
      /\ \A q \in Above(p) : q \in DOMAIN f /\ f[q].kind = "dir"
      /\ FlatRules => Follow(b, f)
  BY <1>1, ParentsAreAdded, NotAbove
<1> HIDE DEF f
<1>3. WellFormed(With(f, {p}, Dir)) /\ Files(With(f, {p}, Dir)) = Files(f)
  <2> DEFINE x == Dir
  <2>1. x \in Nodes /\ x.kind = "dir" BY NodesHaveKinds
  <2> HIDE DEF x
  <2>2. WellFormed(With(f, {p}, x))
    BY <1>2, <2>1, GrownIsWellFormed, Zenon
  <2>3. Files(With(f, {p}, x)) = Files(f)
    BY <1>2, <2>1, GrownFiles
  <2> QED BY <2>1, <2>2, <2>3 DEF x
<1>4. FlatRules => Follow(b, With(f, {p}, Dir))
  BY <1>2, NodesHaveKinds, FollowsGrown
<1>5. Stored' /\ Within
  BY <1>1, <1>2, <1>3, FewerFilesAreStored DEF Sound
<1> QED BY <1>1, <1>4, <1>5, ChangedIsSound

\* create() does: in the private tree it has checked the quota for one file more.
LEMMA CreateIsSound ==
  ASSUME Sound, NEW b \in Trees, NEW p \in Paths, ParentsOk(b, p), CreateIn(b, p),
         Route(p, "lookup") = b
  PROVE  Sound' /\ Kept
<1> DEFINE f == WithParents(b, p)
<1>1. p \notin DOMAIN tree[b] /\ Fits(b, 1, 0)
  BY DEF CreateIn
<1>2. /\ WellFormed(f) /\ Files(f) = Files(tree[b]) /\ p \notin DOMAIN f
      /\ \A q \in Above(p) : q \in DOMAIN f /\ f[q].kind = "dir"
      /\ FlatRules => Follow(b, f)
  BY <1>1, ParentsAreAdded, NotAbove
<1>3. ASSUME NEW o \in 0 .. MaxObject
      PROVE  /\ WellFormed(With(f, {p}, File(o))) /\ Files(With(f, {p}, File(o))) = Files(f) \cup {o}
             /\ FlatRules => Follow(b, With(f, {p}, File(o)))
  <2>1. File(o) \in Nodes /\ File(o).kind = "file" /\ File(o).object = o BY NodesHaveKinds
  <2> DEFINE x == File(o)
  <2> HIDE DEF f, x
  <2>2. x \in Nodes /\ x.kind = "file" /\ x.object = o BY <2>1 DEF x
  <2>3. WellFormed(With(f, {p}, x))
    BY <1>2, <2>2, GrownIsWellFormed, Zenon
  <2>4. Files(With(f, {p}, x)) = Files(f) \cup {x.object}
    BY <1>2, <2>2, GrownFiles
  <2>5. FlatRules => Follow(b, With(f, {p}, x))
    BY <1>2, FollowsGrown
  <2> QED BY <2>2, <2>3, <2>4, <2>5 DEF x
<1>4. CASE b = "overlay"
  <2>1. tree' = [tree EXCEPT ![b] = With(f, {p}, File(0))] /\ size' = size
    BY <1>4 DEF CreateIn
  <2>2. 0 \in 0 .. MaxObject BY Bounds
  <2>3. Stored' /\ Within
    BY <2>1, <2>2, <1>3, <1>4, FewerFilesAreStored DEF Sound
  <2> QED BY <2>1, <2>2, <2>3, <1>3, ChangedIsSound
<1>5. CASE b = "private"
  <2>1. PICK o \in Fresh : /\ tree' = [tree EXCEPT ![b] = With(f, {p}, File(o))]
                           /\ size' = [size EXCEPT ![o] = 0]
    BY <1>5 DEF CreateIn
  <2>2. o \in 1 .. MaxObject /\ o \in 0 .. MaxObject /\ o \notin Files(tree["private"])
    BY <2>1, Bounds DEF Fresh
  <2>3. Stored' /\ Within
    BY <1>1, <1>2, <1>3, <1>5, <2>1, <2>2, OneMoreFileIsStored DEF Sound
  <2> QED BY <2>1, <2>2, <2>3, <1>3, ChangedIsSound
<1> QED BY <1>4, <1>5 DEF Trees

\* unlink() and rmdir() do.
LEMMA RemoveIsSound ==
  ASSUME Sound, NEW b \in Trees, NEW p \in Paths, NEW op \in {"unlink", "rmdir"}, RemoveIn(b, p, op),
         size' = size
  PROVE  Sound' /\ Kept
<1> DEFINE f == tree[b]
<1>1. /\ p \in DOMAIN f /\ (f[p].kind = "file" \/ Below(f, p) = {})
      /\ tree' = [tree EXCEPT ![b] = Without(f, p)]
  BY DEF RemoveIn, IsFile, Sound, Stored
<1>2. WellFormed(f) /\ (FlatRules => Follow(b, f)) BY DEF Sound, Stored
<1> HIDE DEF f
<1>3. /\ WellFormed(Without(f, p))
      /\ DOMAIN Without(f, p) = DOMAIN f \ {p}
      /\ \A q \in DOMAIN f \ {p} : Without(f, p)[q] = f[q]
      /\ Files(Without(f, p)) \subseteq Files(f)
  BY <1>1, <1>2, ShrunkIsWellFormed
<1>4. FlatRules => Follow(b, Without(f, p))
  BY <1>2, <1>3 DEF Follow
<1>5. Stored' /\ Within
  BY <1>1, <1>3, FewerFilesAreStored DEF Sound, f
<1> QED BY <1>1, <1>4, <1>5, ChangedIsSound

\* rename() does, with what it carries along.
LEMMA RenameIsSound ==
  ASSUME Sound, NEW b \in Trees, NEW p \in Paths, NEW q \in Paths, ParentsOk(b, q), RenameIn(b, p, q),
         Route(q, "rename") = b, size' = size
  PROVE  Sound' /\ Kept
<1> DEFINE t == WithParents(b, q)
<1>1. /\ p \in DOMAIN tree[b] /\ ~IsPrefix(p, q) /\ MovedTo(t, p, q) \subseteq Paths
      /\ q \in DOMAIN t => Below(t, q) = {}
      /\ tree' = [tree EXCEPT ![b] = Renamed(t, p, q)]
  BY DEF RenameIn, Movable, MovedTo, Moving, Renamed, To
<1>2. /\ WellFormed(t) /\ Files(t) = Files(tree[b]) /\ p \in DOMAIN t
      /\ \A r \in Above(q) : r \in DOMAIN t /\ t[r].kind = "dir"
      /\ FlatRules => Follow(b, t)
  BY <1>1, ParentsAreAdded
<1> HIDE DEF t
<1>3. /\ WellFormed(Renamed(t, p, q)) /\ Files(Renamed(t, p, q)) \subseteq Files(t)
      /\ \A y \in DOMAIN Renamed(t, p, q) :
           \/ y \in DOMAIN t /\ Renamed(t, p, q)[y] = t[y]
           \/ \E x \in DOMAIN t : Under(p, x) /\ y = To(p, q, x) /\ Renamed(t, p, q)[y] = t[x]
  BY <1>1, <1>2, RenamedIsWellFormed
<1>4. ASSUME FlatRules, NEW y \in DOMAIN Renamed(t, p, q), Renamed(t, p, q)[y].kind = "file"
      PROVE  Route(y, "lookup") = b
  <2>1. CASE y \in DOMAIN t /\ Renamed(t, p, q)[y] = t[y]
    BY <1>2, <1>4, <2>1 DEF Follow
  <2>2. CASE \E x \in DOMAIN t : Under(p, x) /\ y = To(p, q, x) /\ Renamed(t, p, q)[y] = t[x]
    <3>1. PICK x \in DOMAIN t : Under(p, x) /\ y = To(p, q, x) BY <2>2
    <3>2. y \in Paths /\ x \in Paths BY <1>2, <1>3, <1>4 DEF WellFormed
    <3>3. (x = p => y = q) /\ (x # p => q \in Above(y)) BY <3>1, <3>2, ToIsUnder
    <3>4. CASE y = q
      <4>1. "rename" \in WriteOps /\ "lookup" \in WriteOps \cup {"lookup"} BY DEF WriteOps
      <4> QED BY <3>4, <4>1, WritableRoutes
    <3>5. CASE q \in Above(y)
      BY <1>4, <3>2, <3>5, FlatRoutes
    <3> QED BY <3>3, <3>4, <3>5
  <2> QED BY <1>3, <2>1, <2>2
<1>5. FlatRules => Follow(b, Renamed(t, p, q))
  BY <1>4 DEF Follow
<1>6. Stored' /\ Within
  BY <1>1, <1>2, <1>3, FewerFilesAreStored DEF Sound
<1> QED BY <1>1, <1>5, <1>6, ChangedIsSound

\* And what leaves the storage alone.
LEMMA StillSound ==
  ASSUME Sound, tree' = tree, size' = size
  PROVE  Sound' /\ Kept
<1>1. Sound' BY DEF Sound, Stored, Follow, WellFormed
<1>2. Total(Files(tree["private"]), size) \in Nat
  <2>1. size \in Sizes BY Bounds DEF Sound, Stored, Sizes
  <2> QED BY <2>1, TotalAddsUp, Bounds DEF AddsUp
<1>3. Within BY <1>2 DEF Within
<1> QED BY <1>1, <1>3 DEF Kept

\* A file has a new size.  Other objects have none.
LEMMA ResizedIsSound ==
  ASSUME Sound, NEW o, NEW n, tree' = tree, size' = [size EXCEPT ![o] = n],
         o \in 1 .. MaxObject =>
           n \in 0 .. MaxSize /\ (n > size[o] => FitsSize("private", size[o], n))
  PROVE  Sound' /\ Kept
<1>1. CASE o \in 1 .. MaxObject
  <2>1. Stored' /\ Within BY <1>1, ResizedIsStored DEF Sound
  <2> QED BY <2>1 DEF Sound, Follow, Kept
<1>2. CASE o \notin 1 .. MaxObject
  <2>1. size' = size BY <1>2 DEF Sound, Stored
  <2> QED BY <2>1, StillSound
<1> QED BY <1>1, <1>2

\* truncate() checks the quota for what the file grows,
LEMMA ResizeIsSound ==
  ASSUME Sound, NEW b, NEW o, NEW n \in 0 .. MaxSize, ResizeIn(b, o, n), tree' = tree
  PROVE  Sound' /\ Kept
<1>1. FitsSize("private", size[o], n) /\ size' = [size EXCEPT ![o] = n] BY DEF ResizeIn
<1> QED BY <1>1, ResizedIsSound

\* and so does write().
LEMMA GrowIsSound ==
  ASSUME Sound, NEW o, NEW n \in 0 .. MaxSize, ResizeIn("private", o, Larger(size[o], n)), tree' = tree
  PROVE  Sound' /\ Kept
<1> DEFINE m == Larger(size[o], n)
<1>1. FitsSize("private", size[o], m) /\ size' = [size EXCEPT ![o] = m] BY DEF ResizeIn
<1>2. o \in 1 .. MaxObject => m \in 0 .. MaxSize
  BY Bounds DEF Sound, Stored, Larger
<1> HIDE DEF m
<1> QED BY <1>1, <1>2, ResizedIsSound

\* write() with O_APPEND does unless the kernel placed it before the end.
LEMMA AppendIsSound ==
  ASSUME Sound, NEW b, NEW o, NEW at \in Nat, NEW k \in 1 .. MaxSize, AppendIn(b, o, at, k),
         tree' = tree
  PROVE  Sound' /\ Kept
<1>1. /\ AppendIn("private", o, at, k) /\ size[o] + k <= MaxSize
      /\ FitsSize("private", size[o], Larger(size[o], at + k))
      /\ size' = [size EXCEPT ![o] = size[o] + k]
  BY DEF AppendIn
<1>2. CASE o \notin 1 .. MaxObject
  <2>1. size' = size BY <1>1, <1>2 DEF Sound, Stored
  <2> QED BY <2>1, StillSound
<1>3. CASE o \in 1 .. MaxObject
  <2>1. size[o] \in Nat /\ k \in Nat /\ size[o] + k \in 0 .. MaxSize
    BY <1>1, <1>3, Bounds DEF Sound, Stored
  <2>2. Stored' /\ (FitsSize("private", size[o], size[o] + k) => Within)
    BY <1>1, <1>3, <2>1, ResizedIsStored DEF Sound
  <2>3. CASE at < size[o]
    <3>1. at \in 0 .. size[o] - 1 BY <2>1, <2>3
    <3>2. Misplaced BY <1>1, <1>3, <3>1 DEF Misplaced
    <3> QED BY <2>2, <3>2 DEF Sound, Follow, Kept
  <2>4. CASE at >= size[o]
    <3>1. Larger(size[o], at + k) = at + k BY <2>1, <2>4 DEF Larger
    <3>2. Total(Files(tree["private"]), size) \in Nat
      <4>1. size \in Sizes BY Bounds DEF Sound, Stored, Sizes
      <4> QED BY <4>1, TotalAddsUp, Bounds DEF AddsUp
    <3>3. FitsSize("private", size[o], size[o] + k)
      BY <1>1, <2>1, <2>4, <3>1, <3>2, Bounds DEF FitsSize, Fits, Used
    <3> QED BY <2>2, <3>3 DEF Sound, Follow, Kept
  <2> QED BY <2>1, <2>3, <2>4
<1> QED BY <1>2, <1>3

\* O_TRUNC
LEMMA EmptiedIsSound ==
  ASSUME Sound, NEW o, size' = [size EXCEPT ![o] = 0], tree' = tree
  PROVE  Sound' /\ Kept
<1>1. o \in 1 .. MaxObject => 0 \in 0 .. MaxSize /\ ~(0 > size[o])
  BY Bounds DEF Sound, Stored
<1> QED BY <1>1, ResizedIsSound

-----------------------------------------------------------------------------
(* Inodes and handles                                                      *)

\* What a node of the table is of.
Answering == {"private", "overlay", "host", "virtual"}
\* What the table holds.
Entries == [tree : Answering, path : Paths, count : Nat \ {0}]

\* The part of the invariant about inodes: what the kernel counted is counted in
\* the table, and numbers are given out in order.
Tables ==
  /\ inodes \in 0 .. MaxInode
  /\ DOMAIN table \subseteq 2 .. inodes + 1
  /\ \A i \in DOMAIN table : table[i] \in Entries
  /\ \A i \in DOMAIN known : known[i] \in Nat \ {0}
  /\ KernelInodesResolve

\* The part about handles: the kernel has those open that the table has, by
\* inodes, and has an end for the file of each inode.
Openings == [inode : 2 .. MaxInode + 1, flag : Held]
Handling ==
  /\ opened \in 0 .. MaxHandle
  /\ DOMAIN held \subseteq DOMAIN handles /\ DOMAIN handles \subseteq 1 .. opened
  /\ \A h \in DOMAIN held : held[h] \in Openings
  /\ ends \in [2 .. MaxInode + 1 -> Nat]

\* The table counts inode i once more than the kernel does.
Ahead(entries, counted, i) ==
  i \in DOMAIN entries /\ (i \in DOMAIN counted => counted[i] < entries[i].count)

\* The part about a request under way: between the two steps of create(), the
\* node it made is counted ahead of the kernel.
Underway ==
  /\ request \in [op : {"idle", "readdir", "create"}, path : Paths \cup {Root},
                  names : SUBSET Paths, inode : Nat]
  /\ request.op = "create" => Ahead(table, known, request.inode)

\* What answers for a path is one of the trees, or nothing.
LEMMA AnswersAreTrees ==
  ASSUME NEW p \in Paths, NEW op \in Operations
  PROVE  /\ Route(p, op) \in {"none", "private", "overlay", "host"}
         /\ Answer(p) \in {"none"} \cup Answering
<1>1. \A o \in Operations : Route(p, o) \in {"none", "private", "overlay", "host"}
  BY DEF Route, Routes
<1>2. "lookup" \in Operations BY DEF Operations, ReadOps
<1> QED BY <1>1, <1>2 DEF Answer, Answering

\* More numbers are given out.
LEMMA MoreNumbers ==
  ASSUME NEW m \in Nat, NEW n \in Nat, m <= n
  PROVE  2 .. m + 1 \subseteq 2 .. n + 1
OBVIOUS

\* An inode is in the table, or is a number nobody has seen.
LEMMA InodeIsKnown ==
  ASSUME Tables, NEW b, NEW p
  PROVE  LET i == InodeOf(b, p) IN
         \/ i \in DOMAIN table
         \/ i \notin DOMAIN table /\ i \notin DOMAIN known /\ i = inodes + 2
<1> DEFINE there == {j \in DOMAIN table : table[j].tree = b /\ table[j].path = p}
<1>1. CASE there = {}
  <2>1. InodeOf(b, p) = inodes + 2 BY <1>1 DEF InodeOf
  <2>2. inodes + 2 \notin 2 .. inodes + 1 BY Bounds DEF Tables
  <2> QED BY <2>1, <2>2 DEF Tables, KernelInodesResolve
<1>2. CASE there # {}
  <2>1. InodeOf(b, p) \in there BY <1>2 DEF InodeOf
  <2> QED BY <2>1
<1> QED BY <1>1, <1>2

\* A reply with a node counts it in the table whenever the kernel counts it.
LEMMA ReplyKeepsTables ==
  ASSUME Tables, NEW b \in Answering, NEW p \in Paths, NEW counts \in BOOLEAN, Reply(b, p, counts)
  PROVE  /\ Tables'
         /\ InodeOf(b, p) \in Nat
         /\ ~counts => Ahead(table', known', InodeOf(b, p))
<1> DEFINE i == InodeOf(b, p)
<1>1. /\ i <= MaxInode + 1
      /\ table' = NodeRemembered(b, p, i)
      /\ inodes' = IF i \in DOMAIN table THEN inodes ELSE inodes + 1
      /\ known' = IF counts THEN Counted(known, i) ELSE known
  BY DEF Reply
<1>2. i \in Nat /\ i \in 2 .. inodes + 2 /\ (i \in DOMAIN table \/ (i \notin DOMAIN known /\ i = inodes + 2))
  <2>1. i \in DOMAIN table \/ (i \notin DOMAIN table /\ i \notin DOMAIN known /\ i = inodes + 2)
    BY InodeIsKnown
  <2> HIDE DEF i
  <2>2. inodes \in Nat BY Bounds DEF Tables
  <2>3. CASE i \in DOMAIN table
    <3>1. i \in 2 .. inodes + 1 BY <2>3 DEF Tables
    <3> QED BY <2>2, <2>3, <3>1
  <2>4. CASE i \notin DOMAIN table BY <2>1, <2>2, <2>4
  <2> QED BY <2>3, <2>4
<1> HIDE DEF i
<1>3. inodes' \in 0 .. MaxInode /\ inodes <= inodes' /\ i \in 2 .. inodes' + 1
  <2>1. inodes \in Nat /\ inodes <= MaxInode /\ MaxInode \in Nat BY Bounds DEF Tables
  <2>2. CASE i \in DOMAIN table BY <1>1, <2>1, <2>2 DEF Tables
  <2>3. CASE i \notin DOMAIN table BY <1>1, <1>2, <2>1, <2>3
  <2> QED BY <2>2, <2>3
<1>4. /\ DOMAIN table' = DOMAIN table \cup {i}
      /\ \A j \in DOMAIN table : j # i => table'[j] = table[j]
      /\ table'[i] \in Entries
      /\ table'[i].count = IF i \in DOMAIN table THEN table[i].count + 1 ELSE 1
  <2>1. CASE i \in DOMAIN table
    <3>1. table' = [table EXCEPT ![i].count = @ + 1] BY <1>1, <2>1 DEF NodeRemembered
    <3>2. table[i] \in Entries BY <2>1 DEF Tables
    <3>3. table'[i] = [table[i] EXCEPT !.count = @ + 1] BY <3>1, <2>1
    <3>4. table'[i].count = table[i].count + 1 /\ table'[i] \in Entries BY <3>2, <3>3 DEF Entries
    <3> QED BY <2>1, <3>1, <3>4
  <2>2. CASE i \notin DOMAIN table
    <3>1. table' = With(table, {i}, [tree |-> b, path |-> p, count |-> 1]) BY <1>1, <2>2 DEF NodeRemembered
    <3>2. DOMAIN table' = DOMAIN table \cup {i} /\ \A j \in DOMAIN table : table'[j] = table[j]
      BY <3>1 DEF With
    <3>3. table'[i] = [tree |-> b, path |-> p, count |-> 1] BY <3>1, <2>2 DEF With
    <3> QED BY <2>2, <3>2, <3>3 DEF Entries
  <2> QED BY <2>1, <2>2
<1>5. \A j \in DOMAIN table' : table'[j] \in Entries
  BY <1>4 DEF Tables
<1>6. \A j \in DOMAIN known : j \in DOMAIN table /\ table[j].count >= known[j] /\ known[j] \in Nat \ {0}
  BY DEF Tables, KernelInodesResolve
<1>7. \A j \in DOMAIN table : table[j].count \in Nat \ {0}
  BY DEF Tables, Entries
<1>8. \A j \in DOMAIN known : /\ j \in DOMAIN table'
                              /\ table'[j].count >= known[j]
                              /\ j = i => table'[j].count >= known[j] + 1
  BY <1>4, <1>6, <1>7
<1>11. DOMAIN table' \subseteq 2 .. inodes' + 1
  <2>1. inodes \in Nat /\ inodes' \in Nat BY <1>3, Bounds DEF Tables
  <2>2. inodes <= inodes' BY <1>3
  <2>3. 2 .. inodes + 1 \subseteq 2 .. inodes' + 1 BY <2>1, <2>2, MoreNumbers
  <2> QED BY <2>3, <1>3, <1>4 DEF Tables
<1>9. CASE ~counts
  <2>1. known' = known BY <1>1, <1>9
  <2>2. KernelInodesResolve' BY <2>1, <1>8 DEF KernelInodesResolve
  <2>3. Ahead(table', known', i)
    <3>1. \A j \in DOMAIN known : j = i => known[j] < table'[j].count BY <1>4, <1>6, <1>7
    <3> QED BY <2>1, <3>1, <1>4 DEF Ahead
  <2>4. \A j \in DOMAIN known' : known'[j] \in Nat \ {0} BY <2>1, <1>6
  <2> QED BY <1>2, <1>3, <1>5, <1>11, <2>2, <2>3, <2>4, <1>9 DEF Tables, i
<1>10. CASE counts
  <2>1. /\ DOMAIN known' = DOMAIN known \cup {i}
        /\ \A j \in DOMAIN known : j # i => known'[j] = known[j]
        /\ known'[i] = IF i \in DOMAIN known THEN known[i] + 1 ELSE 1
    BY <1>1, <1>10 DEF Counted, With
  <2>2. \A j \in DOMAIN known' : known'[j] \in Nat \ {0}
    BY <2>1, <1>6
  <2>3. KernelInodesResolve'
    <3>1. table'[i].count >= 1 BY <1>4, <1>7
    <3> QED BY <2>1, <3>1, <1>4, <1>8 DEF KernelInodesResolve
  <2> QED BY <1>2, <1>3, <1>5, <1>11, <2>2, <2>3, <1>10 DEF Tables, i
<1> QED BY <1>9, <1>10

-----------------------------------------------------------------------------
(* The inductive invariant                                                 *)

\* The inductive invariant.
HomeIInv == Tables /\ Handling /\ Underway /\ Sound

\* Steps that leave the tables alone,
LEMMA TablesStay ==
  ASSUME Tables, table' = table, inodes' = inodes, known' = known
  PROVE  Tables'
BY DEF Tables, KernelInodesResolve

\* the handles,
LEMMA HandlingStays ==
  ASSUME Handling, handles' = handles, opened' = opened, held' = held,
         ends' = ends \/ \E i, n : n \in Nat /\ Sees(i, n)
  PROVE  Handling'
<1>1. ends' \in [2 .. MaxInode + 1 -> Nat] BY DEF Handling, Sees
<1> QED BY <1>1 DEF Handling

\* and the request; requests that change the tables do not run inside create().
LEMMA UnderwayStays ==
  ASSUME Underway, request' = request, Serving \/ (table' = table /\ known' = known)
  PROVE  Underway'
BY DEF Underway, Serving

\* A new handle.
LEMMA HandleIsNew ==
  ASSUME Handling, NEW b, NEW o, NEW i \in 2 .. MaxInode + 1, NEW flag \in Held,
         NewHandle(b, o, i, flag), ends' = ends \/ \E j, n : n \in Nat /\ Sees(j, n)
  PROVE  Handling'
<1>1. opened \in Nat /\ opened < MaxHandle /\ opened' = opened + 1 /\ MaxHandle \in Nat
  BY Bounds DEF Handling, NewHandle
<1>2. opened' \in 0 .. MaxHandle /\ opened + 1 \in 1 .. opened' /\ 1 .. opened \subseteq 1 .. opened'
  BY <1>1
<1>3. DOMAIN handles' = DOMAIN handles \cup {opened + 1}
  BY DEF NewHandle, With
<1>4. DOMAIN held' = DOMAIN held \cup {opened + 1} /\ \A h \in DOMAIN held' : held'[h] \in Openings
  BY DEF NewHandle, With, Handling, Openings
<1>5. ends' \in [2 .. MaxInode + 1 -> Nat] BY DEF Handling, Sees
<1> QED BY <1>2, <1>3, <1>4, <1>5 DEF Handling

\* Where a file ends is a number.
LEMMA SizesAreNumbers ==
  ASSUME Stored, NEW v \in Sizes, NEW b, NEW p
  PROVE  SizeAt(v, b, p) \in Nat
<1>1. CASE b = "private" /\ IsFile(b, p)
  <2>1. tree[b][p].object \in Files(tree["private"]) BY <1>1 DEF IsFile, Files
  <2> QED BY <1>1, <2>1 DEF SizeAt, Stored, Sizes
<1>2. CASE ~(b = "private" /\ IsFile(b, p)) BY <1>2 DEF SizeAt
<1> QED BY <1>1, <1>2

\* Inodes the kernel holds have numbers that are given out.
LEMMA InodesAreNumbers ==
  ASSUME Tables, NEW i \in DOMAIN table
  PROVE  i \in 2 .. MaxInode + 1
<1>1. i \in 2 .. inodes + 1 /\ inodes \in Nat /\ inodes <= MaxInode BY Bounds DEF Tables
<1> QED BY <1>1, Bounds

\* The kernel counts the node create() made, which the table counted before.
LEMMA CountedOnce ==
  ASSUME Tables, table' = table, inodes' = inodes, NEW i, Ahead(table, known, i),
         known' = Counted(known, i)
  PROVE  Tables'
<1>1. /\ DOMAIN known' = DOMAIN known \cup {i}
      /\ \A j \in DOMAIN known : j # i => known'[j] = known[j]
      /\ known'[i] = IF i \in DOMAIN known THEN known[i] + 1 ELSE 1
  BY DEF Counted, With
<1>2. \A j \in DOMAIN table : table[j].count \in Nat \ {0}
  BY DEF Tables, Entries
<1>3. \A j \in DOMAIN known : j \in DOMAIN table /\ table[j].count >= known[j] /\ known[j] \in Nat \ {0}
  BY DEF Tables, KernelInodesResolve
<1>4. \A j \in DOMAIN known' : known'[j] \in Nat \ {0}
  BY <1>1, <1>3
<1>5. i \in DOMAIN table /\ table[i].count >= known'[i]
  BY <1>1, <1>2, <1>3 DEF Ahead
<1>6. KernelInodesResolve'
  BY <1>1, <1>3, <1>5 DEF KernelInodesResolve
<1> QED BY <1>4, <1>6 DEF Tables

\* forget() takes from the table no more than the kernel gives back.
LEMMA ForgottenOrKept ==
  ASSUME Tables, NEW i \in Named1, NEW n \in 1 .. MaxCount, NEW refused \in BOOLEAN,
         Forget(i, n, refused)
  PROVE  Tables'
<1>1. /\ i \in DOMAIN known /\ i \in DOMAIN table /\ n <= known[i] /\ n \in Nat /\ n > 0
      /\ inodes' = inodes
      /\ known' = IF n = known[i] THEN Without(known, i) ELSE [known EXCEPT ![i] = @ - n]
      /\ table' = IF refused THEN table
                  ELSE IF n >= table[i].count THEN Without(table, i)
                  ELSE [table EXCEPT ![i].count = @ - n]
  BY Bounds DEF Forget, Named1, Named
<1>2. \A j \in DOMAIN table : table[j] \in Entries /\ table[j].count \in Nat \ {0}
  BY DEF Tables, Entries
<1>3. \A j \in DOMAIN known : j \in DOMAIN table /\ table[j].count >= known[j] /\ known[j] \in Nat \ {0}
  BY DEF Tables, KernelInodesResolve
<1>4. /\ DOMAIN known' = IF n = known[i] THEN DOMAIN known \ {i} ELSE DOMAIN known
      /\ \A j \in DOMAIN known : j # i => known'[j] = known[j]
      /\ n # known[i] => known'[i] = known[i] - n
  BY <1>1 DEF Without, Restrict
<1>5. \A j \in DOMAIN known' : known'[j] \in Nat \ {0}
  BY <1>1, <1>3, <1>4
<1>6. CASE refused
  <2>1. table' = table BY <1>1, <1>6
  <2>2. KernelInodesResolve' BY <2>1, <1>1, <1>2, <1>3, <1>4 DEF KernelInodesResolve
  <2> QED BY <2>1, <2>2, <1>1, <1>5 DEF Tables
<1>7. CASE ~refused /\ n >= table[i].count
  <2>1. table' = Without(table, i) BY <1>1, <1>7
  <2>2. DOMAIN table' = DOMAIN table \ {i} /\ \A j \in DOMAIN table : j # i => table'[j] = table[j]
    BY <2>1 DEF Without, Restrict
  <2>3. n = known[i] BY <1>1, <1>2, <1>3, <1>7
  <2>4. KernelInodesResolve' BY <2>2, <2>3, <1>3, <1>4 DEF KernelInodesResolve
  <2> QED BY <2>2, <2>4, <1>1, <1>5 DEF Tables
<1>8. CASE ~refused /\ ~(n >= table[i].count)
  <2>1. table' = [table EXCEPT ![i].count = @ - n] BY <1>1, <1>8
  <2>2. DOMAIN table' = DOMAIN table /\ \A j \in DOMAIN table : j # i => table'[j] = table[j]
    BY <2>1
  <2>3. table'[i] = [table[i] EXCEPT !.count = @ - n] BY <2>1, <1>1
  <2>4. table[i].count - n \in Nat \ {0} BY <1>1, <1>2, <1>8
  <2>5. table'[i].count = table[i].count - n /\ table'[i] \in Entries
    BY <2>3, <2>4, <1>1, <1>2 DEF Entries
  <2>6. KernelInodesResolve' BY <2>2, <2>5, <1>1, <1>2, <1>3, <1>4 DEF KernelInodesResolve
  <2> QED BY <2>2, <2>5, <2>6, <1>1, <1>5 DEF Tables
<1> QED BY <1>6, <1>7, <1>8

\* The kernel names nodes by inodes it holds, and these have paths.
LEMMA NamedNodesHavePaths ==
  ASSUME Tables, NEW i \in Named1
  PROVE  PathOf(i) \in Paths
<1>1. i \in DOMAIN table /\ i # 1 BY DEF Named1, Named
<1>2. table[i].path \in Paths BY <1>1 DEF Tables, Entries
<1> QED BY <1>1, <1>2 DEF PathOf

\* The parent of a path is the root, or above it and so is all else above it.
LEMMA ParentIsAbove ==
  ASSUME NEW p \in Paths, NEW q \in Above(p)
  PROVE  Parents[p] # Root /\ (q = Parents[p] \/ q \in Above(Parents[p]))
<1>1. p \in Seq(Names) /\ Len(p) \in Nat /\ Len(p) > 0 BY PathIsSeq
<1>2. Parents[p] = SubSeq(p, 1, Len(p) - 1) BY DEF Parents, Front
<1>3. PICK n \in 1 .. Len(p) - 1 : q = SubSeq(p, 1, n) BY DEF Above
<1>4. Len(p) - 1 \in 1 .. Len(p) BY <1>1, <1>3
<1>5. /\ Len(Parents[p]) = Len(p) - 1
      /\ \A m \in 1 .. Len(p) - 1 : SubSeq(Parents[p], 1, m) = SubSeq(p, 1, m)
  BY <1>2, <1>4, PathIsSeq
<1>6. Parents[p] # Root BY <1>1, <1>4, <1>5 DEF Root
<1>7. CASE n = Len(p) - 1 BY <1>2, <1>3, <1>6, <1>7
<1>8. CASE n # Len(p) - 1
  <2>1. n \in 1 .. Len(Parents[p]) - 1 BY <1>1, <1>3, <1>5, <1>8
  <2>2. q = SubSeq(Parents[p], 1, n) BY <1>3, <1>5
  <2> QED BY <2>1, <2>2, <1>6 DEF Above
<1> QED BY <1>7, <1>8

\* Another daemon works in directories that are there.
LEMMA PeersHaveParents ==
  ASSUME Stored, NEW p \in Paths, IsDir("private", Parents[p])
  PROVE  ParentsOk("private", p)
<1>1. SUFFICES ASSUME NEW q \in Above(p) PROVE ~IsFile("private", q)
  BY DEF ParentsOk
<1> DEFINE f == tree["private"]
<1>2. WellFormed(f) BY Bounds DEF Stored
<1>3. Parents[p] # Root /\ (q = Parents[p] \/ q \in Above(Parents[p])) BY ParentIsAbove
<1>4. Parents[p] \in DOMAIN f /\ f[Parents[p]].kind = "dir" BY <1>3 DEF IsDir
<1>5. q \in DOMAIN f => f[q].kind = "dir" BY <1>2, <1>3, <1>4 DEF WellFormed
<1> QED BY <1>5 DEF IsFile

\* Requests are about paths.
LEMMA InReachArePaths == InReach \subseteq Paths
BY DEF InReach

-----------------------------------------------------------------------------
(* The actions                                                             *)

\* lookup() and getattr().
LEMMA AnswersKeepIInv ==
  ASSUME HomeIInv, NEW p \in Paths, Serving, NEW counts \in BOOLEAN,
         Answer(p) # "none", Reply(Answer(p), p, counts), NEW i,
         Sees(i, SizeAt(size, Answer(p), p)), UNCHANGED <<storage, handles, opened, held, request>>
  PROVE  HomeIInv' /\ Kept
<1>1. Answer(p) \in Answering
  <2>1. "lookup" \in Operations BY DEF Operations, ReadOps
  <2> QED BY <2>1, AnswersAreTrees
<1>2. Tables' BY <1>1, ReplyKeepsTables DEF HomeIInv
<1>3. Handling'
  <2>1. size \in Sizes BY Bounds DEF HomeIInv, Sound, Stored, Sizes
  <2>2. SizeAt(size, Answer(p), p) \in Nat BY <2>1, SizesAreNumbers DEF HomeIInv, Sound
  <2> QED BY <2>2, HandlingStays DEF HomeIInv
<1>4. Underway' BY UnderwayStays DEF HomeIInv
<1>5. Sound' /\ Kept BY StillSound DEF HomeIInv, storage
<1> QED BY <1>2, <1>3, <1>4, <1>5 DEF HomeIInv

\* forget().
LEMMA ForgetKeepsIInv ==
  ASSUME HomeIInv, NEW i \in Named1, NEW n \in 1 .. MaxCount, NEW refused \in BOOLEAN,
         Forget(i, n, refused)
  PROVE  HomeIInv' /\ Kept
<1>1. Serving /\ UNCHANGED <<storage, inodes, handles, opened, held, ends, request>> BY DEF Forget
<1>2. Tables' BY ForgottenOrKept DEF HomeIInv
<1>3. Handling' BY <1>1, HandlingStays DEF HomeIInv
<1>4. Underway' BY <1>1, UnderwayStays DEF HomeIInv
<1>5. Sound' /\ Kept BY <1>1, StillSound DEF HomeIInv, storage
<1> QED BY <1>2, <1>3, <1>4, <1>5 DEF HomeIInv

\* open(), also with O_TRUNC, also when that fails.
LEMMA OpenKeepsIInv ==
  ASSUME HomeIInv, NEW i \in Named1, NEW flag \in Held \cup {"truncate"}, Open(i, flag)
  PROVE  HomeIInv' /\ Kept
<1>1. /\ Serving /\ UNCHANGED <<tree, table, inodes, known, request>>
      /\ \E b, p : OpenIn(b, i, p, flag)
  BY DEF Open, OpenAt
<1>2. PICK b, p : OpenIn(b, i, p, flag) BY <1>1
<1>3. Tables' BY <1>1, TablesStay DEF HomeIInv
<1>4. Handling'
  <2>1. i \in 2 .. MaxInode + 1 BY InodesAreNumbers DEF HomeIInv, Named1, Named
  <2>2. CASE UNCHANGED <<handles, opened, held, ends>> BY <2>2, HandlingStays DEF HomeIInv
  <2>3. CASE \E o : \E f \in Held : NewHandle(b, o, i, f) /\ (Sees(i, 0) \/ ends' = ends)
    <3>1. PICK o : \E f \in Held : NewHandle(b, o, i, f) /\ (Sees(i, 0) \/ ends' = ends) BY <2>3
    <3>2. PICK f \in Held : NewHandle(b, o, i, f) /\ (Sees(i, 0) \/ ends' = ends) BY <3>1
    <3>3. 0 \in Nat OBVIOUS
    <3> QED BY <2>1, <3>2, <3>3, HandleIsNew DEF HomeIInv
  <2>4. (IF flag = "truncate" THEN "write" ELSE flag) \in Held BY DEF Held
  <2> QED BY <1>2, <2>2, <2>3, <2>4 DEF OpenIn
<1>5. Underway' BY <1>1, UnderwayStays DEF HomeIInv
<1>6. Sound' /\ Kept
  <2>1. tree' = tree BY <1>1
  <2>2. size' = size \/ \E o : size' = [size EXCEPT ![o] = 0] BY <1>2 DEF OpenIn
  <2> QED BY <2>1, <2>2, StillSound, EmptiedIsSound DEF HomeIInv
<1> QED BY <1>3, <1>4, <1>5, <1>6 DEF HomeIInv

\* release().
LEMMA ReleaseKeepsIInv ==
  ASSUME HomeIInv, NEW h \in DOMAIN held, NEW refused \in BOOLEAN, Release(h, refused)
  PROVE  HomeIInv' /\ Kept
<1>1. Serving /\ UNCHANGED <<storage, table, inodes, opened, known, ends, request>> BY DEF Release
<1>2. Tables' BY <1>1, TablesStay DEF HomeIInv
<1>3. Handling'
  <2>1. DOMAIN held' = DOMAIN held \ {h} /\ \A g \in DOMAIN held' : held'[g] = held[g]
    BY DEF Release, Without, Restrict
  <2>2. DOMAIN handles' = DOMAIN handles \/ DOMAIN handles' = DOMAIN handles \ {h}
    BY DEF Release, Without, Restrict
  <2> QED BY <1>1, <2>1, <2>2 DEF HomeIInv, Handling
<1>4. Underway' BY <1>1, UnderwayStays DEF HomeIInv
<1>5. Sound' /\ Kept BY <1>1, StillSound DEF HomeIInv, storage
<1> QED BY <1>2, <1>3, <1>4, <1>5 DEF HomeIInv

\* What the kernel holds open has an inode, and that an end.
LEMMA EndsAreNumbers ==
  ASSUME Handling, NEW h \in DOMAIN held
  PROVE  held[h].inode \in 2 .. MaxInode + 1 /\ ends[held[h].inode] \in Nat
BY DEF Handling, Openings

\* write(),
LEMMA WriteKeepsIInv ==
  ASSUME HomeIInv, NEW h \in DOMAIN held, NEW n \in 0 .. MaxSize, Write(h, n)
  PROVE  HomeIInv' /\ Kept
<1> DEFINE o == handles[h].object
<1>1. /\ ResizeIn("private", o, Larger(size[o], n))
      /\ Sees(held[h].inode, Larger(ends[held[h].inode], n))
      /\ UNCHANGED <<tree, table, inodes, handles, opened, known, held, request>>
  BY DEF Write
<1>2. Tables' BY <1>1, TablesStay DEF HomeIInv
<1>3. Handling'
  <2>1. ends[held[h].inode] \in Nat BY EndsAreNumbers DEF HomeIInv
  <2>2. Larger(ends[held[h].inode], n) \in Nat BY <2>1, Bounds DEF Larger
  <2> QED BY <1>1, <2>2, HandlingStays DEF HomeIInv
<1>4. Underway' BY <1>1, UnderwayStays DEF HomeIInv
<1> HIDE DEF o
<1>5. Sound' /\ Kept BY <1>1, GrowIsSound DEF HomeIInv
<1> QED BY <1>2, <1>3, <1>4, <1>5 DEF HomeIInv

\* write() with O_APPEND,
LEMMA WriteAtEndKeepsIInv ==
  ASSUME HomeIInv, NEW h \in DOMAIN held, NEW k \in 1 .. MaxSize, WriteAtEnd(h, k)
  PROVE  HomeIInv' /\ Kept
<1> DEFINE at == ends[held[h].inode]
<1>1. /\ AppendIn(handles[h].tree, handles[h].object, at, k) /\ Sees(held[h].inode, at + k)
      /\ UNCHANGED <<tree, table, inodes, handles, opened, known, held, request>>
  BY DEF WriteAtEnd
<1>2. at \in Nat /\ at + k \in Nat
  <2>1. at \in Nat BY EndsAreNumbers DEF HomeIInv
  <2> QED BY <2>1, Bounds
<1> HIDE DEF at
<1>3. Tables' BY <1>1, TablesStay DEF HomeIInv
<1>4. Handling' BY <1>1, <1>2, HandlingStays DEF HomeIInv
<1>5. Underway' BY <1>1, UnderwayStays DEF HomeIInv
<1>6. Sound' /\ Kept BY <1>1, <1>2, AppendIsSound DEF HomeIInv
<1> QED BY <1>3, <1>4, <1>5, <1>6 DEF HomeIInv

\* truncate() by handle, with a reply about the path or without one,
LEMMA FtruncateKeepsIInv ==
  ASSUME HomeIInv, NEW h \in DOMAIN held, NEW n \in 0 .. MaxSize, Ftruncate(h, n)
  PROVE  HomeIInv' /\ Kept
<1> DEFINE i == held[h].inode
           p == PathOf(i)
<1>1. /\ Serving /\ i \in Named1 /\ ResizeIn(handles[h].tree, handles[h].object, n)
      /\ UNCHANGED <<tree, handles, opened, held, request>>
      /\ \/ UNCHANGED <<table, inodes, known, ends>>
         \/ /\ Answer(p) # "none" /\ Reply(Answer(p), p, FALSE)
            /\ Sees(i, SizeAt(size', Answer(p), p))
  BY DEF Ftruncate
<1>2. p \in Paths BY <1>1, NamedNodesHavePaths DEF HomeIInv
<1> HIDE DEF i, p
<1>3. Sound' /\ Kept BY <1>1, ResizeIsSound DEF HomeIInv
<1>4. Tables'
  <2>1. CASE UNCHANGED <<table, inodes, known, ends>> BY <2>1, TablesStay DEF HomeIInv
  <2>2. CASE Answer(p) # "none" /\ Reply(Answer(p), p, FALSE)
    <3>1. "lookup" \in Operations /\ FALSE \in BOOLEAN BY DEF Operations, ReadOps
    <3>2. Answer(p) \in Answering BY <1>2, <2>2, <3>1, AnswersAreTrees
    <3> QED BY <1>2, <2>2, <3>1, <3>2, ReplyKeepsTables DEF HomeIInv
  <2> QED BY <1>1, <2>1, <2>2
<1>5. Handling'
  <2>1. size' \in Sizes BY <1>3, Bounds DEF Sound, Stored, Sizes
  <2>2. SizeAt(size', Answer(p), p) \in Nat BY <2>1, SizesAreNumbers DEF HomeIInv, Sound
  <2> QED BY <1>1, <2>2, HandlingStays DEF HomeIInv
<1>6. Underway' BY <1>1, UnderwayStays DEF HomeIInv
<1> QED BY <1>3, <1>4, <1>5, <1>6 DEF HomeIInv

\* and by inode.
LEMMA TruncateKeepsIInv ==
  ASSUME HomeIInv, NEW i \in Named1, NEW n \in 0 .. MaxSize, Truncate(i, n)
  PROVE  HomeIInv' /\ Kept
<1> DEFINE p == PathOf(i)
<1>1. /\ Serving /\ UNCHANGED <<tree, handles, opened, held, request>> /\ Sees(i, n)
      /\ ResizeIn("private", tree["private"][p].object, n) /\ Reply("private", p, FALSE)
  BY DEF Truncate
<1>2. p \in Paths /\ n \in Nat BY NamedNodesHavePaths, Bounds DEF HomeIInv
<1>3. "private" \in Answering /\ FALSE \in BOOLEAN BY DEF Answering
<1> HIDE DEF p
<1>4. Tables' BY <1>1, <1>2, <1>3, ReplyKeepsTables DEF HomeIInv
<1>5. Handling' BY <1>1, <1>2, HandlingStays DEF HomeIInv
<1>6. Underway' BY <1>1, UnderwayStays DEF HomeIInv
<1>7. Sound' /\ Kept BY <1>1, ResizeIsSound DEF HomeIInv
<1> QED BY <1>4, <1>5, <1>6, <1>7 DEF HomeIInv

\* Nodes of the trees are nodes of the table.
LEMMA TreesAnswer == Trees \subseteq Answering BY DEF Trees, Answering

\* create(), its first step: the rule that lets a file be made names its tree.
LEMMA CreateKeepsIInv ==
  ASSUME HomeIInv, NEW p \in Paths, Create(p)
  PROVE  HomeIInv' /\ Kept
<1> DEFINE b == Route(p, "create")
           i == InodeOf(b, p)
<1>1. /\ request = Idle /\ b \in Trees /\ ParentsOk(b, p) /\ CreateIn(b, p) /\ Reply(b, p, FALSE)
      /\ request' = [op |-> "create", path |-> p, names |-> {}, inode |-> i]
      /\ UNCHANGED <<handles, opened, held, ends>>
  BY DEF Create
<1>2. Route(p, "lookup") = b
  <2>1. "create" \in WriteOps BY DEF WriteOps
  <2> QED BY <1>1, <2>1, WritableRoutes
<1>3. b \in Answering /\ FALSE \in BOOLEAN BY <1>1, TreesAnswer
<1> HIDE DEF b
<1>4. Tables' /\ i \in Nat /\ Ahead(table', known', i)
  BY <1>1, <1>3, ReplyKeepsTables DEF HomeIInv
<1>5. Handling' BY <1>1, HandlingStays DEF HomeIInv
<1> HIDE DEF i
<1>6. Underway' BY <1>1, <1>4 DEF Underway
<1>7. Sound' /\ Kept BY <1>1, <1>2, CreateIsSound DEF HomeIInv
<1> QED BY <1>4, <1>5, <1>6, <1>7 DEF HomeIInv

\* create(), its second step.
LEMMA CreateOpensKeepsIInv ==
  ASSUME HomeIInv, CreateOpens
  PROVE  HomeIInv' /\ Kept
<1>1. request.op = "create" /\ request' = Idle /\ UNCHANGED <<storage, table, inodes>>
  BY DEF CreateOpens
<1>2. Ahead(table, known, request.inode) BY <1>1 DEF HomeIInv, Underway
<1>3. Tables' /\ Handling'
  <2> DEFINE i == request.inode
  <2>1. ASSUME NEW b, NEW o, NEW flag \in Held, NewHandle(b, o, i, flag),
               known' = Counted(known, i), Sees(i, 0)
        PROVE  Tables' /\ Handling'
    <3>1. i \in 2 .. MaxInode + 1 /\ 0 \in Nat BY <1>2, InodesAreNumbers DEF Ahead, HomeIInv
    <3>2. Handling' BY <2>1, <3>1, HandleIsNew DEF HomeIInv
    <3> QED BY <1>1, <1>2, <2>1, <3>2, CountedOnce DEF HomeIInv
  <2>2. CASE UNCHANGED <<handles, opened, held, known, ends>>
    BY <1>1, <2>2, TablesStay, HandlingStays DEF HomeIInv
  <2> QED BY <2>1, <2>2 DEF CreateOpens, kernel
<1>4. Underway' BY <1>1 DEF Underway, Idle
<1>5. Sound' /\ Kept BY <1>1, StillSound DEF HomeIInv, storage
<1> QED BY <1>3, <1>4, <1>5 DEF HomeIInv

\* A create() that fails.
LEMMA CreateFailsKeepsIInv ==
  ASSUME HomeIInv, NEW p \in Paths, CreateFails(p)
  PROVE  HomeIInv' /\ Kept
<1> DEFINE b == Route(p, "create")
<1>1. /\ b \in Trees /\ ParentsOk(b, p) /\ tree' = [tree EXCEPT ![b] = WithParents(b, p)]
      /\ UNCHANGED <<size, table, inodes, handles, opened, known, held, ends, request>>
  BY DEF CreateFails, kernel
<1> HIDE DEF b
<1>2. Tables' BY <1>1, TablesStay DEF HomeIInv
<1>3. Handling' BY <1>1, HandlingStays DEF HomeIInv
<1>4. Underway' BY <1>1, UnderwayStays DEF HomeIInv
<1>5. Sound' /\ Kept BY <1>1, ParentsAreSound DEF HomeIInv
<1> QED BY <1>2, <1>3, <1>4, <1>5 DEF HomeIInv

\* mkdir().
LEMMA MkdirKeepsIInv ==
  ASSUME HomeIInv, NEW p \in Paths, Mkdir(p)
  PROVE  HomeIInv' /\ Kept
<1> DEFINE b == Route(p, "mkdir")
<1>1. /\ Serving /\ b \in Trees /\ ParentsOk(b, p) /\ MkdirIn(b, p) /\ Reply(b, p, TRUE)
      /\ Sees(InodeOf(b, p), 0) /\ 0 \in Nat
      /\ UNCHANGED <<size, handles, opened, held, request>>
  BY DEF Mkdir
<1>2. b \in Answering /\ TRUE \in BOOLEAN BY <1>1, TreesAnswer
<1> HIDE DEF b
<1>3. Tables' BY <1>1, <1>2, ReplyKeepsTables DEF HomeIInv
<1>4. Handling' BY <1>1, HandlingStays DEF HomeIInv
<1>5. Underway' BY <1>1, UnderwayStays DEF HomeIInv
<1>6. Sound' /\ Kept BY <1>1, MkdirIsSound DEF HomeIInv
<1> QED BY <1>3, <1>4, <1>5, <1>6 DEF HomeIInv

\* unlink() and rmdir().
LEMMA RemoveKeepsIInv ==
  ASSUME HomeIInv, NEW p \in Paths, NEW op \in {"unlink", "rmdir"}, RemoveNode(p, op)
  PROVE  HomeIInv' /\ Kept
<1> DEFINE b == Route(p, op)
<1>1. /\ b \in Trees /\ RemoveIn(b, p, op)
      /\ UNCHANGED <<size, table, inodes, handles, opened, known, held, ends, request>>
  BY DEF RemoveNode, kernel
<1> HIDE DEF b
<1>2. Tables' BY <1>1, TablesStay DEF HomeIInv
<1>3. Handling' BY <1>1, HandlingStays DEF HomeIInv
<1>4. Underway' BY <1>1, UnderwayStays DEF HomeIInv
<1>5. Sound' /\ Kept BY <1>1, RemoveIsSound DEF HomeIInv
<1> QED BY <1>2, <1>3, <1>4, <1>5 DEF HomeIInv

\* rename(): the rule of the new name names the tree.
LEMMA RenameKeepsIInv ==
  ASSUME HomeIInv, NEW p \in Paths, NEW q \in Paths, Rename(p, q)
  PROVE  HomeIInv' /\ Kept
<1> DEFINE b == RenameRoute(p, q)
<1>1. /\ b \in Trees /\ ParentsOk(b, q) /\ RenameIn(b, p, q)
      /\ UNCHANGED <<size, table, inodes, handles, opened, known, held, ends, request>>
  BY DEF Rename, kernel
<1>2. Route(q, "rename") = b BY <1>1 DEF RenameRoute, Trees
<1> HIDE DEF b
<1>3. Tables' BY <1>1, TablesStay DEF HomeIInv
<1>4. Handling' BY <1>1, HandlingStays DEF HomeIInv
<1>5. Underway' BY <1>1, UnderwayStays DEF HomeIInv
<1>6. Sound' /\ Kept BY <1>1, <1>2, RenameIsSound DEF HomeIInv
<1> QED BY <1>3, <1>4, <1>5, <1>6 DEF HomeIInv

\* A rename() that fails.
LEMMA RenameFailsKeepsIInv ==
  ASSUME HomeIInv, NEW p \in Paths, NEW q \in Paths, RenameFails(p, q)
  PROVE  HomeIInv' /\ Kept
<1> DEFINE b == RenameRoute(p, q)
<1>1. /\ b \in Trees /\ ParentsOk(b, q) /\ tree' = [tree EXCEPT ![b] = WithParents(b, q)]
      /\ UNCHANGED <<size, table, inodes, handles, opened, known, held, ends, request>>
  BY DEF RenameFails, kernel
<1> HIDE DEF b
<1>2. Tables' BY <1>1, TablesStay DEF HomeIInv
<1>3. Handling' BY <1>1, HandlingStays DEF HomeIInv
<1>4. Underway' BY <1>1, UnderwayStays DEF HomeIInv
<1>5. Sound' /\ Kept BY <1>1, ParentsAreSound DEF HomeIInv
<1> QED BY <1>2, <1>3, <1>4, <1>5 DEF HomeIInv

\* readdir(): the names,
LEMMA ReaddirKeepsIInv ==
  ASSUME HomeIInv, NEW i \in Named1, Readdir(i)
  PROVE  HomeIInv' /\ Kept
<1>1. /\ request' = [Idle EXCEPT !.op = "readdir", !.names = Listing(PathOf(i))]
      /\ UNCHANGED <<storage, table, inodes, handles, opened, known, held, ends>>
  BY DEF Readdir, kernel
<1>2. Listing(PathOf(i)) \subseteq Paths
  BY TreesAreTrees DEF Listing, HomeIInv, Sound
<1>3. Tables' BY <1>1, TablesStay DEF HomeIInv
<1>4. Handling' BY <1>1, HandlingStays DEF HomeIInv
<1>5. Underway' BY <1>1, <1>2 DEF Underway, Idle
<1>6. Sound' /\ Kept BY <1>1, StillSound DEF HomeIInv, storage
<1> QED BY <1>3, <1>4, <1>5, <1>6 DEF HomeIInv

\* and each of them, in steps others run between.
LEMMA ReaddirNextKeepsIInv ==
  ASSUME HomeIInv, ReaddirNext
  PROVE  HomeIInv' /\ Kept
<1>1. request.op = "readdir" /\ UNCHANGED <<storage, handles, opened, held>> BY DEF ReaddirNext
<1> DEFINE next(p) == IF request.names \ {p} = {} THEN Idle
                      ELSE [request EXCEPT !.names = request.names \ {p}]
<1>2. PICK p \in request.names :
        \/ request' = next(p) /\ UNCHANGED <<table, inodes, known, ends>>
        \/ /\ Answer(p) # "none"
           /\ \E room \in BOOLEAN : /\ Reply(Answer(p), p, room)
                                    /\ request' = IF room THEN next(p) ELSE Idle
           /\ \/ ends' = ends
              \/ Sees(InodeOf(Answer(p), p), SizeAt(size, Answer(p), p))
  BY DEF ReaddirNext
<1>3. p \in Paths BY <1>2 DEF HomeIInv, Underway
<1>4. request' \in {Idle, next(p)} BY <1>2
<1>5. Underway'
  <2>1. next(p) = Idle \/ next(p) = [request EXCEPT !.names = request.names \ {p}] OBVIOUS
  <2> HIDE DEF next
  <2>2. request.names \ {p} \in SUBSET Paths BY DEF HomeIInv, Underway
  <2>3. next(p) \in [op : {"idle", "readdir", "create"}, path : Paths \cup {Root},
                     names : SUBSET Paths, inode : Nat] /\ next(p).op # "create"
    BY <1>1, <2>1, <2>2 DEF HomeIInv, Underway, Idle
  <2> QED BY <1>4, <2>3 DEF Underway, Idle
<1>6. Tables'
  <2>1. CASE UNCHANGED <<table, inodes, known>> BY <2>1, TablesStay DEF HomeIInv
  <2>2. CASE Answer(p) # "none" /\ \E room \in BOOLEAN : Reply(Answer(p), p, room)
    <3>1. Answer(p) \in Answering
      <4>1. "lookup" \in Operations BY DEF Operations, ReadOps
      <4> QED BY <4>1, <1>3, <2>2, AnswersAreTrees
    <3> QED BY <1>3, <2>2, <3>1, ReplyKeepsTables DEF HomeIInv
  <2> QED BY <1>2, <2>1, <2>2
<1>7. Handling'
  <2>1. size \in Sizes BY Bounds DEF HomeIInv, Sound, Stored, Sizes
  <2>2. SizeAt(size, Answer(p), p) \in Nat BY <2>1, SizesAreNumbers DEF HomeIInv, Sound
  <2> QED BY <1>1, <1>2, <2>2, HandlingStays DEF HomeIInv
<1>8. Sound' /\ Kept BY <1>1, StillSound DEF HomeIInv, storage
<1> QED BY <1>5, <1>6, <1>7, <1>8 DEF HomeIInv

\* Another daemon of the profile, on the private tree.
LEMMA PeerKeepsIInv ==
  ASSUME HomeIInv, Peer
  PROVE  HomeIInv' /\ Kept
<1>1. UNCHANGED <<table, inodes, handles, opened, known, held, ends, request>> BY DEF Peer, kernel
<1>2. Tables' BY <1>1, TablesStay DEF HomeIInv
<1>3. Handling' BY <1>1, HandlingStays DEF HomeIInv
<1>4. Underway' BY <1>1, UnderwayStays DEF HomeIInv
<1>5. Stored /\ Sound /\ "private" \in Trees BY DEF HomeIInv, Sound, Trees
<1>6. ASSUME NEW p \in Paths, Route(p, "create") = "private", IsDir("private", Parents[p]),
             \/ CreateIn("private", p)
             \/ MkdirIn("private", p) /\ UNCHANGED size
             \/ \E op \in {"unlink", "rmdir"} : RemoveIn("private", p, op) /\ UNCHANGED size
             \/ \E q \in Paths : /\ RenameRoute(p, q) = "private"
                                 /\ IsDir("private", Parents[q])
                                 /\ RenameIn("private", p, q) /\ UNCHANGED size
      PROVE  Sound' /\ Kept
  <2>1. ParentsOk("private", p) BY <1>5, <1>6, PeersHaveParents
  <2>2. Route(p, "lookup") = "private"
    <3>1. "create" \in WriteOps BY DEF WriteOps
    <3> QED BY <1>5, <1>6, <3>1, WritableRoutes
  <2>3. CASE CreateIn("private", p) BY <1>5, <2>1, <2>2, <2>3, CreateIsSound
  <2>4. CASE MkdirIn("private", p) /\ UNCHANGED size BY <1>5, <2>1, <2>4, MkdirIsSound
  <2>5. CASE \E op \in {"unlink", "rmdir"} : RemoveIn("private", p, op) /\ UNCHANGED size
    BY <1>5, <2>5, RemoveIsSound
  <2>6. ASSUME NEW q \in Paths, RenameRoute(p, q) = "private", IsDir("private", Parents[q]),
               RenameIn("private", p, q), size' = size
        PROVE  Sound' /\ Kept
    <3>1. ParentsOk("private", q) BY <1>5, <2>6, PeersHaveParents
    <3>2. Route(q, "rename") = "private" BY <2>6 DEF RenameRoute
    <3> QED BY <1>5, <2>6, <3>1, <3>2, RenameIsSound
  <2> QED BY <1>6, <2>3, <2>4, <2>5, <2>6
<1>7. ASSUME NEW o, NEW n \in 0 .. MaxSize, ResizeIn("private", o, n), tree' = tree
      PROVE  Sound' /\ Kept
  BY <1>5, <1>7, ResizeIsSound
<1>8. ASSUME NEW o \in Files(tree["private"]), NEW at \in 0 .. size[o], NEW k \in 1 .. MaxSize,
             AppendIn("private", o, at, k), tree' = tree
      PROVE  Sound' /\ Kept
  <2>1. at \in Nat OBVIOUS
  <2> QED BY <1>5, <1>8, <2>1, AppendIsSound
<1>9. Sound' /\ Kept BY <1>6, <1>7, <1>8 DEF Peer
<1> QED BY <1>2, <1>3, <1>4, <1>9 DEF HomeIInv

\* The tables of a daemon that has just started.
NothingHandedOut ==
  /\ inodes = 0 /\ table = <<>> /\ opened = 0 /\ handles = <<>>
  /\ known = <<>> /\ held = <<>> /\ ends = [i \in 2 .. MaxInode + 1 |-> 0] /\ request = Idle

\* They are in order.
LEMMA NothingIsHandedOut == NothingHandedOut => Tables /\ Handling /\ Underway
<1>1. SUFFICES ASSUME NothingHandedOut PROVE Tables /\ Handling /\ Underway
  OBVIOUS
<1>2. DOMAIN table = {} /\ DOMAIN handles = {} /\ DOMAIN known = {} /\ DOMAIN held = {}
  BY <1>1 DEF NothingHandedOut
<1>3. 0 \in 0 .. MaxInode /\ 0 \in 0 .. MaxHandle BY Bounds
<1> QED BY <1>1, <1>2, <1>3 DEF NothingHandedOut, Tables, Handling, Underway, KernelInodesResolve, Idle

\* A restart empties the tables and keeps the trees.
LEMMA RestartKeepsIInv ==
  ASSUME HomeIInv, Restart
  PROVE  HomeIInv' /\ Kept
<1>1. NothingHandedOut' BY DEF Restart, NothingHandedOut
<1>2. (NothingHandedOut => Tables /\ Handling /\ Underway)' BY NothingIsHandedOut, PTL
<1>3. Sound' /\ Kept BY StillSound DEF HomeIInv, Restart, storage
<1> QED BY <1>1, <1>2, <1>3 DEF HomeIInv

-----------------------------------------------------------------------------
\* The initial states satisfy the inductive invariant,
LEMMA HomeStartsInIInv == HomeInit => HomeIInv
<1>1. SUFFICES ASSUME HomeInit PROVE HomeIInv OBVIOUS
<1>2. Tables /\ Handling /\ Underway
  <2>1. NothingHandedOut BY <1>1 DEF HomeInit, NothingHandedOut
  <2> QED BY <2>1, NothingIsHandedOut
<1>3. \A b \in Trees : tree[b] = <<>> /\ DOMAIN tree[b] = {}
  BY <1>1 DEF HomeInit
<1>4. Files(tree["private"]) = {}
  BY <1>3, Bounds DEF Files
<1>5. Cardinality(Files(tree["private"])) <= MaxFiles
  <2>1. Cardinality({}) = 0 BY FS_EmptySet
  <2> QED BY <1>4, <2>1, Bounds
<1>6. \A b \in Trees : WellFormed(tree[b]) /\ Follow(b, tree[b])
  BY <1>3 DEF WellFormed, Range, Follow
<1>7. Sound
  BY <1>1, <1>4, <1>5, <1>6, Bounds DEF HomeInit, Sound, Stored
<1> QED BY <1>2, <1>7 DEF HomeIInv

\* every step keeps it, and the quota,
LEMMA HomeStepsKeepIInv == HomeIInv /\ [HomeNext]_homeVars => HomeIInv' /\ Kept
<1> SUFFICES ASSUME HomeIInv, [HomeNext]_homeVars PROVE HomeIInv' /\ Kept OBVIOUS
<1>1. ASSUME NEW p \in InReach,
             \/ Lookup(p) \/ Create(p) \/ CreateFails(p) \/ Mkdir(p)
             \/ \E op \in {"unlink", "rmdir"} : RemoveNode(p, op)
             \/ \E q \in InReach : Rename(p, q) \/ RenameFails(p, q)
      PROVE  HomeIInv' /\ Kept
  <2>1. p \in Paths BY InReachArePaths
  <2>2. CASE Lookup(p)
    <3>1. /\ Serving /\ Answer(p) # "none" /\ Reply(Answer(p), p, TRUE) /\ TRUE \in BOOLEAN
          /\ \E i : Sees(i, SizeAt(size, Answer(p), p))
          /\ UNCHANGED <<storage, handles, opened, held, request>>
      BY <2>2 DEF Lookup
    <3> QED BY <2>1, <3>1, AnswersKeepIInv
  <2>3. CASE Create(p) BY <2>1, <2>3, CreateKeepsIInv
  <2>4. CASE CreateFails(p) BY <2>1, <2>4, CreateFailsKeepsIInv
  <2>5. CASE Mkdir(p) BY <2>1, <2>5, MkdirKeepsIInv
  <2>6. CASE \E op \in {"unlink", "rmdir"} : RemoveNode(p, op) BY <2>1, <2>6, RemoveKeepsIInv
  <2>7. CASE \E q \in InReach : Rename(p, q) \/ RenameFails(p, q)
    BY <2>1, <2>7, InReachArePaths, RenameKeepsIInv, RenameFailsKeepsIInv
  <2> QED BY <1>1, <2>2, <2>3, <2>4, <2>5, <2>6, <2>7
<1>2. ASSUME NEW i \in Named1,
             \/ Getattr(i) \/ Readdir(i)
             \/ \E n \in 1 .. MaxCount, refused \in BOOLEAN : Forget(i, n, refused)
             \/ \E flag \in Held \cup {"truncate"} : Open(i, flag)
             \/ \E n \in 0 .. MaxSize : Truncate(i, n)
      PROVE  HomeIInv' /\ Kept
  <2>1. CASE Getattr(i)
    <3>1. /\ Serving /\ Answer(PathOf(i)) # "none" /\ Reply(Answer(PathOf(i)), PathOf(i), FALSE)
          /\ Sees(i, SizeAt(size, Answer(PathOf(i)), PathOf(i)))
          /\ UNCHANGED <<storage, handles, opened, held, request>> /\ FALSE \in BOOLEAN
      BY <2>1 DEF Getattr
    <3>2. PathOf(i) \in Paths BY NamedNodesHavePaths DEF HomeIInv
    <3> QED BY <3>1, <3>2, AnswersKeepIInv
  <2>2. CASE Readdir(i) BY <2>2, ReaddirKeepsIInv
  <2>3. CASE \E n \in 1 .. MaxCount, refused \in BOOLEAN : Forget(i, n, refused)
    BY <2>3, ForgetKeepsIInv
  <2>4. CASE \E flag \in Held \cup {"truncate"} : Open(i, flag) BY <2>4, OpenKeepsIInv
  <2>5. CASE \E n \in 0 .. MaxSize : Truncate(i, n) BY <2>5, TruncateKeepsIInv
  <2> QED BY <1>2, <2>1, <2>2, <2>3, <2>4, <2>5
<1>3. ASSUME NEW h \in DOMAIN held,
             \/ \E refused \in BOOLEAN : Release(h, refused)
             \/ \E n \in 0 .. MaxSize : Write(h, n) \/ Ftruncate(h, n)
             \/ \E k \in 1 .. MaxSize : WriteAtEnd(h, k)
      PROVE  HomeIInv' /\ Kept
  BY <1>3, ReleaseKeepsIInv, WriteKeepsIInv, FtruncateKeepsIInv, WriteAtEndKeepsIInv
<1>4. CASE CreateOpens BY <1>4, CreateOpensKeepsIInv
<1>5. CASE ReaddirNext BY <1>5, ReaddirNextKeepsIInv
<1>6. CASE Peer BY <1>6, PeerKeepsIInv
<1>7. CASE Restart BY <1>7, RestartKeepsIInv
<1>8. CASE UNCHANGED homeVars
  <2>1. UNCHANGED <<tree, size, table, inodes, handles, opened, known, held, ends, request>>
    BY <1>8 DEF homeVars
  <2> QED BY <2>1, TablesStay, HandlingStays, UnderwayStays, StillSound DEF HomeIInv
<1> QED BY <1>1, <1>2, <1>3, <1>4, <1>5, <1>6, <1>7, <1>8 DEF HomeNext

\* and so it always holds.
LEMMA AlwaysHomeIInv == HomeSpec => []HomeIInv
<1>1. HomeInit => HomeIInv BY HomeStartsInIInv
<1>2. HomeIInv /\ [HomeNext]_homeVars => HomeIInv' BY HomeStepsKeepIInv
<1> QED BY <1>1, <1>2, PTL DEF HomeSpec

\* No step takes the private tree beyond its quota of bytes or files, whatever the
\* kernel asks and whatever other daemons of the profile do to it, over restarts,
\* except an append that the kernel placed before the end of its file: the check of
\* write() is about the offset it was given (_check_file_quota, _check_size,
\* _scan_usage and write in homed/private.py).
THEOREM QuotaAlwaysHolds == HomeSpec => QuotaHolds
<1> DEFINE Step ==
      /\ Cardinality(Files(tree["private"])') <= MaxFiles
      /\ Used(tree["private"])' > MaxBytes /\ Used(tree["private"])' > Used(tree["private"]) =>
           Misplaced
<1>1. HomeIInv /\ [HomeNext]_homeVars => Step
  <2>1. SUFFICES ASSUME HomeIInv, [HomeNext]_homeVars PROVE Step OBVIOUS
  <2>2. HomeIInv' /\ Kept BY <2>1, HomeStepsKeepIInv
  <2>3. Cardinality(Files(tree["private"])') <= MaxFiles BY <2>2 DEF HomeIInv, Sound, Stored
  <2>4. size \in Sizes /\ size' \in Sizes BY <2>1, <2>2, Bounds DEF HomeIInv, Sound, Stored, Sizes
  <2>5. Used(tree["private"]) \in Nat /\ Used(tree["private"])' \in Nat
    BY <2>4, TotalAddsUp, Bounds DEF AddsUp, Used
  <2>6. Within => Used(tree["private"])' <= Used(tree["private"]) \/ Used(tree["private"])' <= MaxBytes
    BY DEF Within, Used
  <2> QED BY <2>2, <2>3, <2>5, <2>6, Bounds DEF Kept
<1>2. HomeIInv /\ [HomeNext]_homeVars => [Step]_homeVars BY <1>1
<1>3. QuotaHolds <=> [][Step]_homeVars BY DEF QuotaHolds, Misplaced
<1> HIDE DEF Step
<1> QED BY <1>2, <1>3, AlwaysHomeIInv, PTL DEF HomeSpec

\* An inode the kernel holds is in the table, counted at least as often as the
\* kernel counted it (_remember and forget in homed/composite.py, the replies of
\* homed/fuse.py).
THEOREM KernelInodesAlwaysResolve == HomeSpec => []KernelInodesResolve
<1>1. HomeIInv => KernelInodesResolve BY DEF HomeIInv, Tables
<1> QED BY <1>1, AlwaysHomeIInv, PTL

\* Every variable has a value of its kind, and every node of a tree is in a
\* directory of it, after any requests of the kernel and of other daemons.
THEOREM HomeIsTyped == HomeSpec => []HomeTypeOK
<1>1. HomeIInv => HomeTypeOK
  <2>1. SUFFICES ASSUME HomeIInv PROVE HomeTypeOK OBVIOUS
  <2>5. Range(held) \subseteq [inode : Nat, flag : Held]
    BY <2>1, Bounds DEF HomeIInv, Handling, Openings, Range
  <2>2. \A b \in Trees : /\ DOMAIN tree[b] \subseteq Paths /\ Range(tree[b]) \subseteq Nodes
                         /\ \A p \in DOMAIN tree[b] : \A q \in Above(p) : IsDir(b, q)
    BY <2>1 DEF HomeIInv, Sound, Stored, WellFormed, IsDir
  <2>3. Range(table) \subseteq
          [tree : {"private", "overlay", "host", "virtual"}, path : Paths, count : Nat \ {0}]
    BY <2>1 DEF HomeIInv, Tables, Entries, Answering, Range
  <2>4. DOMAIN known \subseteq 2 .. inodes + 1 /\ Range(known) \subseteq Nat \ {0}
    BY <2>1 DEF HomeIInv, Tables, KernelInodesResolve, Range
  <2> QED BY <2>1, <2>2, <2>3, <2>4, <2>5
       DEF HomeTypeOK, HomeIInv, Sound, Stored, Tables, Handling, Underway
<1> QED BY <1>1, AlwaysHomeIInv, PTL

\* Where no rule lies inside a writable one, every file lies in the tree the rules
\* name for its path: what create and rename (RenameRoute, EXDEV) decide on one
\* path holds for all that is carried along.
THEOREM HomeIsAlwaysSound ==
  ASSUME FlatRules
  PROVE  HomeSpec => []HomeIsSound
<1>1. HomeIInv => FilesFollowRules BY DEF HomeIInv, Sound, Follow, FilesFollowRules
<1> QED BY <1>1, AlwaysHomeIInv, HomeIsTyped, PTL DEF HomeIsSound

-----------------------------------------------------------------------------
(* Mediation                                                               *)

\* A thread waits on a request for the key it wants.
WaitsForOwnKey ==
  \A c \in Callers : thread[c] = "waiting" => reqs[via[c]].key = Want[c]

\* Numbers are never given to another key.
ShownStaysTrue ==
  \A o \in Seats : shown[o] # Nothing => reqs[shown[o].number].key = shown[o].key

\* An operation has a thread once it asks, and no positive answer while that
\* thread still works on it.
AllowedIsDone ==
  \A c \in Callers : /\ client[c] = "idle" => thread[c] = "none"
                     /\ client[c] = "allow_once" => thread[c] = "done"

IInv ==
  /\ TypeOK
  /\ TableIsWaitedOn
  /\ QueueIsBounded
  /\ WaitsForOwnKey
  /\ AllowedIsDone
  /\ CredentialsAreAsked
  /\ DraftIsAllowed
  /\ ShownStaysTrue

USE ConstantsAssumption

-----------------------------------------------------------------------------
\* The initial states satisfy the inductive invariant.
LEMMA InitIInv == Init => IInv
<1> SUFFICES ASSUME Init PROVE IInv
  OBVIOUS
<1>1. TypeOK
  BY DEF Init, TypeOK, Seats, Nothing
<1>2. TableIsWaitedOn
  BY DEF Init, TableIsWaitedOn
<1>3. QueueIsBounded
  BY FS_EmptySet DEF Init, QueueIsBounded
<1>4. /\ WaitsForOwnKey /\ AllowedIsDone /\ CredentialsAreAsked
      /\ DraftIsAllowed /\ ShownStaysTrue
  BY DEF Init, WaitsForOwnKey, AllowedIsDone, CredentialsAreAsked, DraftIsAllowed,
         ShownStaysTrue, Seats
<1> QED
  BY <1>1, <1>2, <1>3, <1>4 DEF IInv

\* A table that loses entries stays within its bound.
LEMMA Shrinks ==
  ASSUME TypeOK, QueueIsBounded, live' \subseteq live
  PROVE  QueueIsBounded'
<1>0. IsFiniteSet(1..last)
  BY FS_Interval DEF TypeOK
<1>1. IsFiniteSet(live)
  BY <1>0, FS_Subset DEF TypeOK
<1>2. Cardinality(live') <= Cardinality(live)
  BY <1>1, FS_Subset
<1>3. /\ Cardinality(live) \in Nat /\ Cardinality(live') \in Nat
      /\ MaxPending \in Nat
  BY <1>1, FS_Subset, FS_CardinalityType
<1> QED
  BY <1>2, <1>3 DEF QueueIsBounded

\* The client's own steps touch neither the table nor the waiting threads.
LEMMA ClientIInv ==
  ASSUME IInv, NEW c \in Callers, Send(c) \/ GiveUp(c) \/ Refused(c)
  PROVE  IInv'
<1> USE DEF IInv, Send, GiveUp, Refused, Answered
<1>1. UNCHANGED <<via, tableVars, draft, shown, phase>>
  BY DEF callVars
<1>2. \A b \in Callers : /\ thread'[b] = "waiting" <=> thread[b] = "waiting"
                         /\ client'[b] = "allow_once" => client[b] = "allow_once"
                         /\ client'[b] = "idle" => client[b] = "idle"
  BY DEF TypeOK, callVars, AllowedIsDone, Results, RequestResults
<1>3. TypeOK'
  BY <1>1 DEF TypeOK, Results, RequestResults, tableVars
<1>4. TableIsWaitedOn' /\ QueueIsBounded' /\ WaitsForOwnKey'
  BY <1>1, <1>2 DEF TableIsWaitedOn, QueueIsBounded, WaitsForOwnKey, Waiters, tableVars
<1>5. AllowedIsDone'
  BY <1>2 DEF AllowedIsDone, TypeOK, callVars
<1>6. CredentialsAreAsked' /\ DraftIsAllowed' /\ ShownStaysTrue'
  BY <1>1, <1>2 DEF CredentialsAreAsked, DraftIsAllowed, ShownStaysTrue, tableVars
<1> QED
  BY <1>3, <1>4, <1>5, <1>6

-----------------------------------------------------------------------------
\* An operation that is answered at once waits on nothing.
LEMMA AnsweredAtOnceIInv ==
  ASSUME IInv, NEW c \in Callers, thread[c] = "sent",
         ArriveRemembered(c) \/ ArriveRejected(c), UNCHANGED <<draft, shown, phase>>
  PROVE  IInv'
<1> USE DEF IInv, ArriveRemembered, ArriveRejected, Return, Answered, Remembered
<1>1. UNCHANGED <<via, tableVars, draft, shown, phase>>
  OBVIOUS
<1>2. \A b \in Callers :
        /\ thread'[b] = "waiting" <=> thread[b] = "waiting"
        /\ Want[b] \in Credentials /\ client'[b] = "allow_once"
             => client[b] = "allow_once"
        /\ client'[b] = "allow_once" => thread'[b] = "done"
        /\ client'[b] = "idle" => client[b] = "idle" /\ b # c
  BY DEF TypeOK, AllowedIsDone, Results, RequestResults
<1>3. TypeOK'
  BY <1>1 DEF TypeOK, Results, RequestResults, tableVars
<1>4. TableIsWaitedOn' /\ QueueIsBounded' /\ WaitsForOwnKey'
  BY <1>1, <1>2 DEF TableIsWaitedOn, QueueIsBounded, WaitsForOwnKey, Waiters, tableVars
<1>5. AllowedIsDone'
  BY <1>2 DEF AllowedIsDone, TypeOK
<1>6. CredentialsAreAsked' /\ DraftIsAllowed' /\ ShownStaysTrue'
  BY <1>1, <1>2 DEF CredentialsAreAsked, DraftIsAllowed, ShownStaysTrue, tableVars
<1> QED
  BY <1>3, <1>4, <1>5, <1>6

\* A thread joins the request that is pending for its key.
LEMMA JoinIInv ==
  ASSUME IInv, NEW c \in Callers, thread[c] = "sent", ArriveJoining(c),
         UNCHANGED <<draft, shown, phase>>
  PROVE  IInv'
<1> USE DEF IInv
<1>1. PICK n \in Coalesced(Want[c]) : WaitFor(c, n)
  BY DEF ArriveJoining
<1>2. /\ n \in live /\ n \in 1..last /\ reqs[n].key = Want[c]
      /\ UNCHANGED <<client, allowed, last, reqs, live, draft, shown, phase>>
      /\ thread' = [thread EXCEPT ![c] = "waiting"]
      /\ via' = [via EXCEPT ![c] = n]
  BY <1>1 DEF Coalesced, WaitFor, ArriveJoining, TypeOK
<1>3. TypeOK'
  BY <1>2 DEF TypeOK
<1>4. \A m : Waiters(m) \subseteq Waiters(m)'
  BY <1>2 DEF Waiters, TypeOK
<1>5. TableIsWaitedOn' /\ QueueIsBounded' /\ WaitsForOwnKey'
  BY <1>2, <1>4 DEF TableIsWaitedOn, QueueIsBounded, WaitsForOwnKey, TypeOK
<1>6. \A b \in Callers : client'[b] \in {"idle", "allow_once"} => b # c
  BY <1>2 DEF AllowedIsDone
<1>7. AllowedIsDone' /\ CredentialsAreAsked'
  BY <1>2, <1>6 DEF AllowedIsDone, CredentialsAreAsked, TypeOK
<1>8. DraftIsAllowed' /\ ShownStaysTrue'
  BY <1>2 DEF DraftIsAllowed, ShownStaysTrue
<1> QED
  BY <1>3, <1>5, <1>7, <1>8

\* A new request takes a number nobody has seen.
LEMMA NewIInv ==
  ASSUME IInv, NEW c \in Callers, thread[c] = "sent", ArriveNew(c),
         UNCHANGED <<draft, shown, phase>>
  PROVE  IInv'
<1> DEFINE new == [key |-> Want[c], age |-> "fresh", result |-> None]
<1> USE DEF IInv
<1>0. PICK n : n = last + 1
  OBVIOUS
<1>1. /\ UNCHANGED <<client, allowed, draft, shown, phase>>
      /\ last' = n /\ live' = live \cup {n}
      /\ thread' = [thread EXCEPT ![c] = "waiting"]
      /\ via' = [via EXCEPT ![c] = n]
      /\ Coalesced(Want[c]) = {} /\ Cardinality(live) < MaxPending
  BY <1>0 DEF ArriveNew, WaitFor, FreshNumber, HasRoom
<1>2. /\ last \in Nat /\ n \in Nat /\ n \notin 1..last /\ n \notin live
      /\ DOMAIN reqs = 1..last /\ live \subseteq 1..last
  BY <1>0 DEF TypeOK
<1>3. 1..last \cup {n} = 1..n
  BY <1>0, <1>2
<1>4. reqs' = [m \in 1..n |-> IF m = n THEN new ELSE reqs[m]]
  BY <1>0, <1>2, <1>3 DEF ArriveNew, FreshNumber
<1>5. /\ reqs'[n] = new
      /\ \A m \in 1..last : m \in 1..n /\ reqs'[m] = reqs[m]
  BY <1>2, <1>3, <1>4
<1>6. new \in Requests
  BY DEF Requests, TypeOK
<1>7. TypeOK'
  <2>1. reqs' \in [1..last' -> Requests]
    <3>1. \A m \in 1..n : reqs'[m] \in Requests
      BY <1>3, <1>5, <1>6 DEF TypeOK
    <3> HIDE DEF new
    <3> QED
      BY <1>1, <1>4, <3>1
  <2>2. via' \in [Callers -> 0..last'] /\ live' \subseteq 1..last' /\ last' \in Nat
    BY <1>0, <1>1, <1>2 DEF TypeOK
  <2>3. shown' \in [Seats -> [number : 1..last', key : Keys] \cup {Nothing}]
    BY <1>0, <1>1, <1>2 DEF TypeOK
  <2> QED
    BY <1>1, <2>1, <2>2, <2>3 DEF TypeOK
<1>8. TableIsWaitedOn'
  <2>1. \A m \in live : Waiters(m) \subseteq Waiters(m)'
    BY <1>1 DEF Waiters, TypeOK
  <2>2. c \in Waiters(n)'
    BY <1>1 DEF Waiters, TypeOK
  <2>3. \A b \in Callers : thread'[b] = "waiting" => via'[b] \in live'
    BY <1>1 DEF TableIsWaitedOn, TypeOK
  <2>4. \A m \in live : reqs[m].key # Want[c]
    BY <1>1 DEF Coalesced
  <2>5. \A k, m \in live' : reqs'[k].key = reqs'[m].key => k = m
    BY <1>1, <1>2, <1>5, <2>4 DEF TableIsWaitedOn
  <2> QED
    BY <1>1, <2>1, <2>2, <2>3, <2>5 DEF TableIsWaitedOn
<1>9. QueueIsBounded'
  <2>1. IsFiniteSet(1..last)
    BY <1>2, FS_Interval
  <2>2. IsFiniteSet(live)
    BY <1>2, <2>1, FS_Subset
  <2>3. Cardinality(live') = Cardinality(live) + 1
    BY <1>1, <1>2, <2>2, FS_AddElement
  <2>4. Cardinality(live) \in Nat
    BY <2>2, FS_CardinalityType
  <2> QED
    BY <1>1, <2>3, <2>4 DEF QueueIsBounded
<1>10. WaitsForOwnKey'
  BY <1>1, <1>2, <1>5 DEF WaitsForOwnKey, TableIsWaitedOn, TypeOK
<1>11. AllowedIsDone' /\ CredentialsAreAsked'
  <2>1. \A b \in Callers : client'[b] \in {"idle", "allow_once"} => b # c
    BY <1>1 DEF AllowedIsDone
  <2>2. \A b \in Callers : via[b] # 0 => via[b] \in 1..last
    BY <1>2 DEF TypeOK
  <2> QED
    BY <1>1, <1>5, <2>1, <2>2 DEF AllowedIsDone, CredentialsAreAsked, TypeOK
<1>12. DraftIsAllowed'
  <2>1. DOMAIN reqs' = 1..last \cup {n}
    BY <1>3, <1>4
  <2>2. reqs'[n].result # "allow_once"
    BY <1>5 DEF None
  <2> QED
    BY <1>1, <1>2, <1>5, <2>1, <2>2 DEF DraftIsAllowed
<1>13. ShownStaysTrue'
  <2>1. \A o \in Seats : shown[o] # Nothing => shown[o].number \in 1..last
    BY DEF TypeOK
  <2> QED
    BY <1>1, <1>5, <2>1 DEF ShownStaysTrue
<1> QED
  BY <1>7, <1>8, <1>9, <1>10, <1>11, <1>12, <1>13

-----------------------------------------------------------------------------
\* What is on a screen has a number that was given out.
LEMMA ShownIsInRange ==
  ASSUME TypeOK
  PROVE  \A o \in Seats : shown[o] # Nothing => shown[o].number \in 1..last
BY DEF TypeOK

\* A request that is finished takes its result, and its key is remembered.
LEMMA FinishIsTyped ==
  ASSUME TypeOK, NEW n \in live, NEW r \in RequestResults, Finish(n, r)
  PROVE  /\ reqs' \in [1..last -> Requests]
         /\ allowed' \subseteq Keys
         /\ \A m \in 1..last : /\ reqs'[m].key = reqs[m].key
                               /\ m # n => reqs'[m] = reqs[m]
         /\ reqs'[n].result = r
         /\ n \in 1..last
<1>1. n \in 1..last /\ reqs[n] \in Requests
  BY DEF TypeOK
<1>2. [reqs[n] EXCEPT !.result = r] \in Requests
  BY <1>1 DEF Requests
<1>3. reqs' = [reqs EXCEPT ![n] = [reqs[n] EXCEPT !.result = r]]
  BY DEF Finish
<1>4. allowed' \subseteq Keys
  BY <1>1 DEF Finish, Remember, TypeOK, Requests
<1>5. /\ [reqs[n] EXCEPT !.result = r].key = reqs[n].key
      /\ [reqs[n] EXCEPT !.result = r].result = r
  BY <1>1 DEF Requests
<1> QED
  BY <1>1, <1>2, <1>3, <1>4, <1>5 DEF TypeOK

\* A thread that leaves takes its request with it only if nobody else waits.
LEMMA LeavingKeepsTable ==
  ASSUME TypeOK, TableIsWaitedOn, NEW c \in Callers, thread[c] = "waiting",
         thread' = [thread EXCEPT ![c] = "done"], via' = via,
         \A n \in live : reqs'[n].key = reqs[n].key,
         live' = LastLeaves(c)
  PROVE  TableIsWaitedOn' /\ live' \subseteq live
<1>1. live' \subseteq live
  BY DEF LastLeaves
<1>2. \A n \in live' : Waiters(n)' # {}
  <2> SUFFICES ASSUME NEW n \in live' PROVE Waiters(n)' # {}
    OBVIOUS
  <2>1. PICK b \in Callers : b # c /\ thread[b] = "waiting" /\ via[b] = n
    <3>1. Waiters(n) # {} /\ Waiters(n) # {c}
      BY <1>1 DEF LastLeaves, TableIsWaitedOn, Waiters
    <3> QED
      BY <3>1 DEF Waiters
  <2> QED
    BY <2>1 DEF Waiters, TypeOK
<1>3. ASSUME NEW b \in Callers, thread'[b] = "waiting" PROVE via'[b] \in live'
  <2>1. b # c /\ thread[b] = "waiting"
    BY <1>3 DEF TypeOK
  <2>2. via[b] = via[c] => Waiters(via[c]) # {c}
    BY <2>1 DEF Waiters
  <2> QED
    BY <2>1, <2>2 DEF LastLeaves, TableIsWaitedOn
<1>4. \A m, n \in live' : reqs'[m].key = reqs'[n].key => m = n
  BY <1>1 DEF TableIsWaitedOn
<1> QED
  BY <1>1, <1>2, <1>3, <1>4 DEF TableIsWaitedOn

\* The deadline passes: nothing is allowed by it.
LEMMA TimesOutIInv ==
  ASSUME IInv, NEW c \in Callers, TimesOut(c)
  PROVE  IInv'
<1> USE DEF IInv
<1>1. PICK n : n = via[c]
  OBVIOUS
<1>2. /\ n \in live /\ Finish(n, "timeout") /\ reqs[n].result = None
      /\ thread[c] = "waiting" /\ thread' = [thread EXCEPT ![c] = "done"]
      /\ Answered(c, "timeout") /\ live' = LastLeaves(c)
      /\ UNCHANGED <<via, last, draft, shown, phase>>
  BY <1>1 DEF TimesOut, TableIsWaitedOn, Return
<1>3. /\ reqs' \in [1..last -> Requests] /\ allowed' = allowed
      /\ \A m \in 1..last : /\ reqs'[m].key = reqs[m].key
                            /\ m # n => reqs'[m] = reqs[m]
      /\ reqs'[n].result = "timeout" /\ n \in 1..last
  BY <1>2, FinishIsTyped DEF RequestResults, Finish, Remember
<1>4. \A m \in 1..last : reqs'[m].result = "allow_once" <=> reqs[m].result = "allow_once"
  BY <1>2, <1>3 DEF None
<1>5. TableIsWaitedOn' /\ live' \subseteq live
  BY <1>2, <1>3, LeavingKeepsTable DEF TypeOK
<1>6. TypeOK'
  BY <1>2, <1>3, <1>5 DEF TypeOK, Answered, Results, RequestResults
<1>7. QueueIsBounded'
  BY <1>5, Shrinks
<1>8. WaitsForOwnKey' /\ AllowedIsDone'
  BY <1>2, <1>3 DEF WaitsForOwnKey, AllowedIsDone, TableIsWaitedOn, TypeOK, Answered
<1>9. CredentialsAreAsked'
  <2>1. \A b \in Callers : client'[b] = "allow_once" => client[b] = "allow_once"
    BY <1>2 DEF Answered, TypeOK
  <2> QED
    BY <1>2, <1>3, <1>4, <2>1 DEF CredentialsAreAsked, TypeOK
<1>10. DraftIsAllowed'
  <2>1. DOMAIN reqs = 1..last /\ DOMAIN reqs' = 1..last
    BY <1>3 DEF TypeOK
  <2> QED
    BY <1>2, <1>3, <1>4, <2>1 DEF DraftIsAllowed
<1>11. ShownStaysTrue'
  BY <1>2, <1>3, ShownIsInRange DEF ShownStaysTrue
<1> QED
  BY <1>11, <1>5, <1>6, <1>7, <1>8, <1>9, <1>10

\* A waiter takes the result of its request.
LEMMA WakeIInv ==
  ASSUME IInv, NEW c \in Callers, Wake(c)
  PROVE  IInv'
<1> USE DEF IInv
<1>1. PICK n, r : n = via[c] /\ r = reqs[n].result
  OBVIOUS
<1>2. /\ n \in live /\ n \in 1..last /\ r # None /\ reqs[n].key = Want[c]
      /\ thread[c] = "waiting" /\ thread' = [thread EXCEPT ![c] = "done"]
      /\ Answered(c, r) /\ live' = LastLeaves(c)
      /\ UNCHANGED <<via, last, reqs, allowed, draft, shown, phase>>
  BY <1>1 DEF Wake, TableIsWaitedOn, Return, WaitsForOwnKey, TypeOK
<1>3. r \in RequestResults
  BY <1>1, <1>2 DEF TypeOK, Requests
<1>4. TableIsWaitedOn' /\ live' \subseteq live
  BY <1>2, LeavingKeepsTable
<1>5. TypeOK'
  BY <1>2, <1>3, <1>4 DEF TypeOK, Answered, Results
<1>6. QueueIsBounded'
  BY <1>4, Shrinks
<1>7. WaitsForOwnKey'
  BY <1>2 DEF WaitsForOwnKey, TypeOK
<1>8. AllowedIsDone'
  BY <1>2, <1>3 DEF AllowedIsDone, TypeOK, Answered, RequestResults
<1>9. CredentialsAreAsked'
  BY <1>1, <1>2 DEF CredentialsAreAsked, Answered, TypeOK
<1>10. DraftIsAllowed' /\ ShownStaysTrue'
  BY <1>2 DEF DraftIsAllowed, ShownStaysTrue
<1> QED
  BY <1>4, <1>5, <1>6, <1>7, <1>8, <1>9, <1>10

-----------------------------------------------------------------------------
\* A decision reaches the request, the memory of the session and the draft.
LEMMA DecideIInv ==
  ASSUME IInv, NEW o \in Seats, Decide(o) \/ DecideFails(o)
  PROVE  IInv'
<1> USE DEF IInv
<1>1. PICK n, d :
        /\ n \in live /\ reqs[n].result = None
        /\ d \in RequestResults /\ Finish(n, d)
        /\ draft' = IF d = "allow_once" THEN draft \cup {reqs[n].key} ELSE draft
        /\ shown' \in {shown, [shown EXCEPT ![o] = Nothing]}
        /\ UNCHANGED <<callVars, last, live, phase>>
  <2>1. CASE Decide(o)
    BY <2>1 DEF Decide, Decidable, Decisions, RequestResults
  <2>2. CASE DecideFails(o)
    BY <2>2 DEF DecideFails, Decidable, RequestResults
  <2> QED
    BY <2>1, <2>2
<1>2. /\ reqs' \in [1..last -> Requests] /\ allowed' \subseteq Keys
      /\ \A m \in 1..last : /\ reqs'[m].key = reqs[m].key
                            /\ m # n => reqs'[m] = reqs[m]
      /\ reqs'[n].result = d /\ n \in 1..last
  BY <1>1, FinishIsTyped
<1>3. /\ DOMAIN reqs = 1..last /\ DOMAIN reqs' = 1..last
      /\ reqs[n].key \in Keys
  BY <1>2 DEF TypeOK, Requests
<1>4. TypeOK'
  BY <1>1, <1>2, <1>3 DEF TypeOK, callVars
<1>5. TableIsWaitedOn' /\ QueueIsBounded' /\ WaitsForOwnKey' /\ AllowedIsDone'
  BY <1>1, <1>2 DEF TableIsWaitedOn, QueueIsBounded, WaitsForOwnKey, AllowedIsDone,
     Waiters, callVars, TypeOK
<1>6. CredentialsAreAsked'
  <2>1. allowed' \cap Credentials = {}
    BY <1>1 DEF Finish, Remember, CredentialsAreAsked
  <2>2. \A b \in Callers : via[b] # 0 => via[b] \in 1..last
    BY DEF TypeOK
  <2> QED
    BY <1>1, <1>2, <2>1, <2>2 DEF CredentialsAreAsked, callVars, None
<1>7. DraftIsAllowed'
  <2>1. \A m \in 1..last : reqs'[m].result = "allow_once" <=>
          reqs[m].result = "allow_once" \/ (m = n /\ d = "allow_once")
    BY <1>1, <1>2 DEF None
  <2> QED
    BY <1>1, <1>2, <1>3, <2>1 DEF DraftIsAllowed
<1>8. ShownStaysTrue'
  <2>1. \A p \in Seats : shown'[p] # Nothing => shown'[p] = shown[p]
    BY <1>1 DEF TypeOK
  <2> QED
    BY <1>1, <1>2, <2>1, ShownIsInRange DEF ShownStaysTrue
<1> QED
  BY <1>4, <1>5, <1>6, <1>7, <1>8

\* An operator looks at an unresolved request.
LEMMA ReviewIInv ==
  ASSUME IInv, NEW o \in Seats, Review(o)
  PROVE  IInv'
<1> USE DEF IInv
<1>1. PICK n : /\ n \in Unresolved
              /\ shown' = [shown EXCEPT ![o] = [number |-> n, key |-> reqs[n].key]]
              /\ UNCHANGED <<callVars, tableVars, draft, phase>>
  BY DEF Review
<1>2. n \in 1..last /\ reqs[n].key \in Keys
  BY <1>1 DEF Unresolved, TypeOK, Requests
<1>3. TypeOK'
  BY <1>1, <1>2 DEF TypeOK, callVars, tableVars
<1>4. TableIsWaitedOn' /\ QueueIsBounded' /\ WaitsForOwnKey' /\ AllowedIsDone'
  BY <1>1 DEF TableIsWaitedOn, QueueIsBounded, WaitsForOwnKey, AllowedIsDone, Waiters,
     callVars, tableVars
<1>5. CredentialsAreAsked' /\ DraftIsAllowed'
  BY <1>1 DEF CredentialsAreAsked, DraftIsAllowed, callVars, tableVars
<1>6. ShownStaysTrue'
  BY <1>1, <1>2 DEF ShownStaysTrue, TypeOK, tableVars
<1> QED
  BY <1>3, <1>4, <1>5, <1>6

\* A request grows older.
LEMMA AgesIInv ==
  ASSUME IInv, NEW n \in DOMAIN reqs, Ages(n)
  PROVE  IInv'
<1> USE DEF IInv
<1>1. PICK age \in {"due", "past"} :
        /\ reqs' = [reqs EXCEPT ![n] = [reqs[n] EXCEPT !.age = age]]
        /\ UNCHANGED <<callVars, last, live, allowed, draft, shown, phase>>
  BY DEF Ages
<1>2. n \in 1..last /\ reqs[n] \in Requests /\ DOMAIN reqs = 1..last
  BY DEF TypeOK
<1>3. /\ [reqs[n] EXCEPT !.age = age] \in Requests
      /\ [reqs[n] EXCEPT !.age = age].key = reqs[n].key
      /\ [reqs[n] EXCEPT !.age = age].result = reqs[n].result
  BY <1>2 DEF Requests
<1>4. /\ reqs' \in [1..last -> Requests] /\ DOMAIN reqs' = 1..last
      /\ \A m \in 1..last : /\ reqs'[m].key = reqs[m].key
                            /\ reqs'[m].result = reqs[m].result
  BY <1>1, <1>2, <1>3 DEF TypeOK
<1>5. TypeOK'
  BY <1>1, <1>4 DEF TypeOK, callVars
<1>6. TableIsWaitedOn' /\ QueueIsBounded' /\ WaitsForOwnKey' /\ AllowedIsDone'
  BY <1>1, <1>4 DEF TableIsWaitedOn, QueueIsBounded, WaitsForOwnKey, AllowedIsDone,
     Waiters, callVars, TypeOK
<1>7. CredentialsAreAsked'
  <2>1. \A b \in Callers : via[b] # 0 => via[b] \in 1..last
    BY DEF TypeOK
  <2> QED
    BY <1>1, <1>4, <2>1 DEF CredentialsAreAsked, callVars
<1>8. DraftIsAllowed'
  BY <1>1, <1>2, <1>4 DEF DraftIsAllowed
<1>9. ShownStaysTrue'
  BY <1>1, <1>4, ShownIsInRange DEF ShownStaysTrue
<1> QED
  BY <1>5, <1>6, <1>7, <1>8, <1>9

\* The end of the command cancels what is unresolved and forgets what was allowed.
LEMMA EndIInv ==
  ASSUME IInv, CancelSession \/ CloseServers
  PROVE  IInv'
<1> USE DEF IInv
<1>1. CASE CancelSession
  <2>1. /\ UNCHANGED <<callVars, last, live, draft, shown>>
        /\ allowed' = {} /\ phase' = "cancelled"
        /\ reqs' = [m \in DOMAIN reqs |->
                      IF m \in Unresolved THEN [reqs[m] EXCEPT !.result = "cancelled"]
                      ELSE reqs[m]]
    BY <1>1 DEF CancelSession
  <2>2. \A m \in 1..last :
          LET ended == [reqs[m] EXCEPT !.result = "cancelled"]
          IN /\ ended \in Requests /\ reqs[m] \in Requests
             /\ ended.key = reqs[m].key /\ ended.result = "cancelled"
    BY DEF TypeOK, Requests, RequestResults
  <2>3. DOMAIN reqs = 1..last /\ DOMAIN reqs' = 1..last
    BY <2>1 DEF TypeOK
  <2>4. /\ reqs' \in [1..last -> Requests]
        /\ \A m \in 1..last : /\ reqs'[m].key = reqs[m].key
                              /\ reqs'[m].result = "allow_once"
                                   <=> reqs[m].result = "allow_once"
    BY <2>1, <2>2, <2>3 DEF Unresolved, None
  <2>5. TypeOK'
    BY <2>1, <2>4 DEF TypeOK, callVars
  <2>6. TableIsWaitedOn' /\ QueueIsBounded' /\ WaitsForOwnKey' /\ AllowedIsDone'
    BY <2>1, <2>4 DEF TableIsWaitedOn, QueueIsBounded, WaitsForOwnKey, AllowedIsDone,
       Waiters, callVars, TypeOK
  <2>7. CredentialsAreAsked'
    <3>1. \A b \in Callers : via[b] # 0 => via[b] \in 1..last
      BY DEF TypeOK
    <3> QED
      BY <2>1, <2>4, <3>1 DEF CredentialsAreAsked, callVars
  <2>8. DraftIsAllowed'
    BY <2>1, <2>3, <2>4 DEF DraftIsAllowed
  <2>9. ShownStaysTrue'
    BY <2>1, <2>4, ShownIsInRange DEF ShownStaysTrue
  <2> QED
    BY <2>5, <2>6, <2>7, <2>8, <2>9
<1>2. CASE CloseServers
  <2>1. /\ UNCHANGED <<callVars, tableVars, draft>>
        /\ phase' = "closed" /\ shown' = [o \in Seats |-> Nothing]
    BY <1>2 DEF CloseServers
  <2>2. TypeOK'
    BY <2>1 DEF TypeOK, callVars, tableVars
  <2>3. TableIsWaitedOn' /\ QueueIsBounded' /\ WaitsForOwnKey' /\ AllowedIsDone'
    BY <2>1 DEF TableIsWaitedOn, QueueIsBounded, WaitsForOwnKey, AllowedIsDone, Waiters,
       callVars, tableVars
  <2>4. CredentialsAreAsked' /\ DraftIsAllowed' /\ ShownStaysTrue'
    BY <2>1 DEF CredentialsAreAsked, DraftIsAllowed, ShownStaysTrue, callVars, tableVars
  <2> QED
    BY <2>2, <2>3, <2>4
<1> QED
  BY <1>1, <1>2

-----------------------------------------------------------------------------
\* Every reachable state satisfies the inductive invariant.
THEOREM Inductive == Spec => []IInv
<1>1. IInv /\ [Next]_vars => IInv'
  <2> SUFFICES ASSUME IInv, [Next]_vars PROVE IInv'
    OBVIOUS
  <2>1. ASSUME NEW c \in Callers, Arrive(c) PROVE IInv'
    BY <2>1, AnsweredAtOnceIInv, JoinIInv, NewIInv DEF Arrive
  <2>2. ASSUME NEW c \in Callers, Send(c) \/ GiveUp(c) \/ Refused(c) \/ Serve(c)
        PROVE  IInv'
    BY <2>1, <2>2, ClientIInv, TimesOutIInv, WakeIInv DEF Serve
  <2>3. ASSUME NEW o \in Seats, Review(o) \/ Decide(o) \/ DecideFails(o)
        PROVE  IInv'
    BY <2>3, ReviewIInv, DecideIInv
  <2>4. ASSUME NEW n \in DOMAIN reqs, Ages(n) PROVE IInv'
    BY <2>4, AgesIInv
  <2>5. CASE CancelSession \/ CloseServers
    BY <2>5, EndIInv
  <2>6. CASE UNCHANGED vars
    BY <2>6 DEF vars, callVars, tableVars, IInv, TypeOK, TableIsWaitedOn,
       QueueIsBounded, WaitsForOwnKey, AllowedIsDone, CredentialsAreAsked,
       DraftIsAllowed, ShownStaysTrue, Waiters
  <2> QED
    BY <2>2, <2>3, <2>4, <2>5, <2>6 DEF Next
<1> QED
  BY <1>1, InitIInv, PTL DEF Spec

\* The variables keep their types, whatever operators and clients do.
THEOREM TypeCorrect == Spec => []TypeOK
BY Inductive, PTL DEF IInv

\* The table holds exactly what threads wait on, one request per key, and never
\* more than max_pending of them: mediation.py's bound cannot leak.
THEOREM TableStaysSound == Spec => []TableIsSound
<1>1. IInv => TableIsSound
  BY DEF IInv, TableIsSound
<1> QED
  BY <1>1, Inductive, PTL

\* A credential operation is allowed only by a decision on a request it waited
\* on, and the learner drafts exactly the keys that were allowed.
THEOREM AllowedIsDecided == Spec => []AllowedWasDecided
<1>1. IInv => AllowedWasDecided
  BY DEF IInv, AllowedWasDecided
<1> QED
  BY <1>1, Inductive, PTL

\* A request is only ever decided by an operator who was shown that request:
\* decide() goes by the number, and a number never changes its key.
THEOREM DecisionsHitWhatWasShown == Spec => DecidedAsShown
<1> DEFINE Step ==
      \A n \in DOMAIN reqs :
        (reqs[n].result = None /\ reqs'[n].result \in Decisions) =>
          \E o \in Seats : shown[o] = [number |-> n, key |-> reqs[n].key]
<1>1. IInv /\ [Next]_vars => Step
  <2> SUFFICES ASSUME IInv, [Next]_vars, NEW n \in DOMAIN reqs,
                      reqs[n].result = None, reqs'[n].result \in Decisions
               PROVE  \E o \in Seats : shown[o] = [number |-> n, key |-> reqs[n].key]
    OBVIOUS
  <2>0. /\ n \in 1..last /\ DOMAIN reqs = 1..last /\ live \subseteq 1..last
        /\ last \in Nat /\ reqs[n] \in Requests
    BY DEF IInv, TypeOK
  <2>1. reqs' # reqs
    BY DEF Decisions, None
  <2>2. ASSUME NEW c \in Callers, Arrive(c) PROVE FALSE
    <3>1. CASE ArriveNew(c)
      <4>1. n # last + 1
        BY <2>0
      <4> QED
        BY <2>0, <3>1, <4>1 DEF ArriveNew, FreshNumber, Decisions, None
    <3> QED
      BY <2>1, <2>2, <3>1 DEF Arrive, ArriveRemembered, ArriveRejected, ArriveJoining,
         tableVars
  <2>3. ASSUME NEW c \in Callers, TimesOut(c) PROVE FALSE
    <3>1. Finish(via[c], "timeout") /\ via[c] \in live
      BY <2>3 DEF TimesOut, IInv, TableIsWaitedOn
    <3> QED
      BY <2>0, <3>1, FinishIsTyped DEF IInv, RequestResults, Decisions, None
  <2>4. ASSUME NEW c \in Callers, Send(c) \/ GiveUp(c) \/ Refused(c) \/ Wake(c)
        PROVE  FALSE
    BY <2>1, <2>4 DEF Send, GiveUp, Refused, Wake, tableVars
  <2>5. ASSUME NEW o \in Seats, Decide(o)
        PROVE  \E p \in Seats : shown[p] = [number |-> n, key |-> reqs[n].key]
    <3>1. PICK m, d : /\ m = shown[o].number /\ shown[o] # Nothing /\ m \in live
                      /\ d \in Decisions /\ Finish(m, d)
      BY <2>5 DEF Decide, Decidable, Seated
    <3>2. m = n
      BY <2>0, <3>1, FinishIsTyped DEF IInv, RequestResults, Decisions, None
    <3>3. shown[o] = [number |-> shown[o].number, key |-> shown[o].key]
      BY <3>1 DEF IInv, TypeOK
    <3>4. shown[o].key = reqs[n].key
      BY <3>1, <3>2 DEF IInv, ShownStaysTrue
    <3> QED
      BY <3>1, <3>2, <3>3, <3>4
  <2>6. ASSUME NEW o \in Seats, Review(o) \/ DecideFails(o) PROVE FALSE
    <3>1. CASE Review(o)
      BY <2>1, <3>1 DEF Review, tableVars
    <3>2. CASE DecideFails(o)
      <4>1. Finish(shown[o].number, "cancelled") /\ shown[o].number \in live
        BY <3>2 DEF DecideFails, Decidable
      <4> QED
        BY <2>0, <4>1, FinishIsTyped DEF IInv, RequestResults, Decisions, None
    <3> QED
      BY <2>6, <3>1, <3>2
  <2>7. ASSUME NEW m \in DOMAIN reqs, Ages(m) PROVE FALSE
    <3>1. PICK age : reqs' = [reqs EXCEPT ![m] = [reqs[m] EXCEPT !.age = age]]
      BY <2>7 DEF Ages
    <3>2. [reqs[n] EXCEPT !.age = age].result = None
      BY <2>0 DEF Requests
    <3>3. reqs'[n].result = None
      BY <2>0, <3>1, <3>2
    <3> QED
      BY <3>3 DEF Decisions, None
  <2>8. CASE CancelSession
    <3>1. [reqs[n] EXCEPT !.result = "cancelled"].result = "cancelled"
      BY <2>0 DEF Requests
    <3> QED
      BY <2>8, <3>1 DEF CancelSession, Decisions, None
  <2>9. CASE CloseServers \/ UNCHANGED vars
    BY <2>1, <2>9 DEF CloseServers, vars, tableVars
  <2> QED
    BY <2>2, <2>3, <2>4, <2>5, <2>6, <2>7, <2>8, <2>9 DEF Next, Serve
<1>2. IInv /\ [Next]_vars => [Step]_vars
  BY <1>1
<1> QED
  BY <1>2, Inductive, PTL DEF Spec, DecidedAsShown
=============================================================================
