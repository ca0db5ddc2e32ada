---------------------------- MODULE ProfileProofs ----------------------------
(***************************************************************************)
(* ProfileStore and Overlay: the two things that belong to a profile, its  *)
(* file of rules and the upper tree of its home.                           *)
(*                                                                         *)
(* ProfileStore: its safety for all commands, rules and conflicts.         *)
(* ProfileIInv adds to the types what the properties rest on:              *)
(*   - Held: who has the lock stands before its save, read the revision    *)
(*     that is still in the file, and, unless it edits, all of the file;   *)
(*   - Creating: one command at a time creates the profile, while its file *)
(*     is torn, and of a creation no file stems from yet;                  *)
(*   - Snapshot: an editor has a past of the file on the screen.  Within   *)
(*     one creation a revision it shares with the file is the file.        *)
(*                                                                         *)
(* Overlay: TreesAreSound for all names, lower trees and sessions.  A step *)
(* trusts the plan it is part of (put does not look whether its directory  *)
(* is there), so OverlayIInv says of what is still to be done:             *)
(*   - Plans: of an operation, that each node it makes has its directories *)
(*     and no marker by then, that it marks only what is gone by then, and *)
(*     that it commits each record once, after its begin (Planned); of a   *)
(*     replay, the part of this it needs;                                  *)
(*   - Recorded: an intent that waits for its commit is in the journal;    *)
(*   - Unburied: with nothing in the journal but such intents, no marker   *)
(*     hides a node of the upper tree.                                     *)
(* A step leaves a plan that is still Planned for the tree it made (the    *)
(* GoesOn lemmas); an operation starts with one, built step by step from   *)
(* the empty plan (Grown, Fits, Grows), its copies by induction on how     *)
(* much is below a directory (CopyUpCopies); a failure or a crash leaves   *)
(* the journal with a record more, so Unburied asks nothing.               *)
(***************************************************************************)
EXTENDS ProfileStore, Overlay, FiniteSetTheorems, SequenceTheorems, WellFoundedInduction,
        TLAPS

-----------------------------------------------------------------------------
(* ProfileStore                                                            *)

Held ==
  \A a \in Commands :
    /\ pc[a] = "locked" <=> lock = a
    /\ lock = a =>
         /\ present = "whole" /\ doing[a] \in Saves
         /\ base[a].revision = file.revision
         /\ doing[a] # "edit" => base[a] = file
         /\ doing[a] = "learn" => ~file.sealed

Creating ==
  /\ file.birth <= births
  /\ \A a \in Commands :
       doing[a] = "create" =>
         /\ present = "torn" /\ pc[a] = "working"
         /\ base[a].birth = births /\ file.birth < births
         /\ \A b \in Commands : doing[b] = "create" => a = b

Snapshot ==
  \A a \in Commands :
    doing[a] = "edit" =>
      /\ ~base[a].sealed
      /\ base[a].birth <= file.birth
      /\ base[a].birth = file.birth =>
           /\ base[a].revision <= file.revision
           /\ base[a].revision = file.revision => base[a] = file

ProfileIInv == ProfileTypes /\ Held /\ Creating /\ Snapshot

\* The initial state satisfies the invariant.
LEMMA InitIInv == ProfileInit => ProfileIInv
BY ProfileAssumption
   DEF ProfileInit, ProfileIInv, ProfileTypes, Held, Creating, Snapshot, Profiles, Drafts, Blank, NoDraft, Saves

\* A new file is opened by one command, and stems from a creation of its own.
LEMMA OpenNewIInv ==
  ASSUME NEW a \in Commands, NEW p \in Profiles, p.birth = births + 1,
         ProfileIInv, OpenNew(a, p)
  PROVE  ProfileIInv'
<1> USE ProfileAssumption DEF ProfileIInv, OpenNew, Runs
<1>1. ProfileTypes'
  BY DEF ProfileTypes, Profiles
<1>2. Held'
  BY DEF ProfileTypes, Held
<1>3. Creating'
  BY DEF ProfileTypes, Creating, Profiles
<1>4. Snapshot'
  BY DEF ProfileTypes, Snapshot
<1> QED
  BY <1>1, <1>2, <1>3, <1>4

\* create and import open a new file.
LEMMA CreateIInv ==
  ASSUME NEW a \in Commands, ProfileIInv, CreateProfile(a) \/ ImportProfile(a)
  PROVE  ProfileIInv'
<1>1. births \in Nat
  BY DEF ProfileIInv, ProfileTypes
<1>2. CASE CreateProfile(a)
  <2>1. NewProfile \in Profiles /\ NewProfile.birth = births + 1
    BY <1>1 DEF NewProfile, Profiles
  <2> QED
    BY <1>2, <2>1, OpenNewIInv DEF CreateProfile
<1>3. CASE ImportProfile(a)
  <2>1. PICK r \in 1..MaxRevision, s \in BOOLEAN, rs \in SUBSET Rules :
          OpenNew(a, [birth |-> births + 1, revision |-> r, sealed |-> s, rules |-> rs])
    BY <1>3 DEF ImportProfile
  <2> DEFINE p == [birth |-> births + 1, revision |-> r, sealed |-> s, rules |-> rs]
  <2>2. p \in Profiles /\ p.birth = births + 1
    BY <1>1, ProfileAssumption DEF Profiles
  <2> HIDE DEF p
  <2>3. OpenNew(a, p)
    BY <2>1 DEF p
  <2> QED
    BY <2>2, <2>3, OpenNewIInv
<1> QED
  BY <1>2, <1>3

\* The first write: no editor has a profile of that creation yet.
LEMMA WriteNewIInv ==
  ASSUME NEW a \in Commands, ProfileIInv, WriteNew(a)
  PROVE  ProfileIInv'
<1> USE ProfileAssumption DEF ProfileIInv, WriteNew, Runs, Ends
<1>1. ProfileTypes'
  BY DEF ProfileTypes, Profiles, Drafts, Blank, NoDraft
<1>2. Held'
  BY DEF ProfileTypes, Held, Creating, Blank
<1>3. Creating'
  BY DEF ProfileTypes, Creating, Profiles
<1>4. Snapshot'
  BY DEF ProfileTypes, Snapshot, Creating, Profiles
<1> QED
  BY <1>1, <1>2, <1>3, <1>4

\* Reading the file and drafting take no lock and write nothing.
LEMMA DraftIInv ==
  ASSUME NEW a \in Commands, ProfileIInv,
         \/ OpenEditor(a) \/ CloseEditor(a) \/ StartLearning(a) \/ EndLearning(a)
         \/ \E what \in {"seal", "unseal", "archive"} : Ask(a, what)
  PROVE  ProfileIInv'
<1> USE ProfileAssumption DEF ProfileIInv, Runs, storeVars
<1>1. CASE OpenEditor(a) \/ StartLearning(a)
  <2> USE <1>1 DEF OpenEditor, StartLearning, Open, Loadable
  <2>1. ProfileTypes'
    BY DEF ProfileTypes, Saves
  <2>2. Held' /\ Creating'
    BY DEF ProfileTypes, Held, Creating
  <2>3. Snapshot'
    BY DEF ProfileTypes, Snapshot, Profiles
  <2> QED
    BY <2>1, <2>2, <2>3
<1>2. CASE CloseEditor(a) \/ EndLearning(a)
  <2> USE <1>2 DEF CloseEditor, EndLearning
  <2>1. ProfileTypes'
    <3>1. draft' \in [Commands -> Drafts]
      <4>1. CASE CloseEditor(a)
        BY <4>1 DEF ProfileTypes, Drafts
      <4>2. CASE EndLearning(a)
        BY <4>2 DEF ProfileTypes, Drafts, Unknown
      <4> QED
        BY <4>1, <4>2
    <3> QED
      BY <3>1 DEF ProfileTypes, Saves
  <2>2. Held' /\ Creating' /\ Snapshot'
    BY DEF ProfileTypes, Held, Creating, Snapshot
  <2> QED
    BY <2>1, <2>2
<1>3. CASE \E what \in {"seal", "unseal", "archive"} : Ask(a, what)
  <2> USE <1>3 DEF Ask
  <2>1. ProfileTypes'
    BY DEF ProfileTypes, Saves
  <2>2. Held' /\ Creating' /\ Snapshot'
    BY DEF ProfileTypes, Held, Creating, Snapshot
  <2> QED
    BY <2>1, <2>2
<1> QED
  BY <1>1, <1>2, <1>3

\* Whoever takes the lock finds the revision it goes on from.
LEMMA LockIInv ==
  ASSUME NEW a \in Commands, ProfileIInv, Lock(a)
  PROVE  ProfileIInv'
<1> USE ProfileAssumption
    DEF ProfileIInv, Lock, Runs, storeVars, LockIsFree, Loadable, ReadIsCurrent, AcceptsLearning
<1>1. ProfileTypes'
  BY DEF ProfileTypes, Saves
<1>2. Held'
  BY DEF ProfileTypes, Held, Saves
<1>3. Creating' /\ Snapshot'
  BY DEF ProfileTypes, Creating, Snapshot
<1> QED
  BY <1>1, <1>2, <1>3

\* What a command saves is a profile of the same creation, one revision on.
LEMMA SavedIsNext ==
  ASSUME NEW a \in Commands, ProfileIInv, pc[a] = "locked", doing[a] # "archive"
  PROVE  /\ Saved(a) \in Profiles
         /\ Saved(a).birth = file.birth
         /\ Saved(a).revision = file.revision + 1
<1>1. doing[a] \in {"edit", "learn", "seal", "unseal"}
  BY DEF ProfileIInv, Held, Saves
<1>2. draft[a] \in Drafts /\ base[a] \in Profiles /\ file \in Profiles
  BY DEF ProfileIInv, ProfileTypes
<1>3. base[a].revision = file.revision
  BY DEF ProfileIInv, Held
<1>4. /\ file.birth \in Nat /\ file.revision \in Nat \ {0}
      /\ base[a].rules \subseteq Rules
      /\ draft[a].rules \subseteq Rules /\ draft[a].sealed \in BOOLEAN
  BY <1>2 DEF Profiles, Drafts
<1>5. /\ Saved(a).birth = file.birth
      /\ Saved(a).revision = file.revision + 1
  BY <1>3 DEF Saved
<1>6. CASE doing[a] = "edit"
  BY <1>3, <1>4, <1>5, <1>6 DEF Saved, Profiles
<1>7. CASE doing[a] = "learn"
  BY <1>3, <1>4, <1>5, <1>7 DEF Saved, Profiles
<1>8. CASE doing[a] = "seal"
  BY <1>3, <1>4, <1>5, <1>8 DEF Saved, Profiles
<1>9. CASE doing[a] = "unseal"
  BY <1>3, <1>4, <1>5, <1>9 DEF Saved, Profiles
<1> QED
  BY <1>1, <1>5, <1>6, <1>7, <1>8, <1>9

\* A save leaves every editor's profile behind the file.
LEMMA ReplaceIInv ==
  ASSUME NEW a \in Commands, ProfileIInv, Replace(a)
  PROVE  ProfileIInv'
<1> USE ProfileAssumption DEF ProfileIInv, Replace, Runs, Ends
<1>1. file' \in Profiles /\ file'.birth = file.birth /\ file'.revision = file.revision + 1
  BY SavedIsNext
<1>2. ProfileTypes'
  BY <1>1 DEF ProfileTypes, Profiles, Drafts, Blank, NoDraft
<1>3. Held'
  BY DEF ProfileTypes, Held
<1>4. Creating'
  BY <1>1 DEF ProfileTypes, Creating, Held
<1>5. Snapshot'
  <2>1. SUFFICES ASSUME NEW b \in Commands, doing'[b] = "edit"
                 PROVE  /\ ~base'[b].sealed
                        /\ base'[b].birth <= file'.birth
                        /\ base'[b].birth = file'.birth => base'[b].revision < file'.revision
    BY <1>1, <1>2 DEF Snapshot, ProfileTypes, Profiles
  <2>2. b # a /\ doing[b] = "edit" /\ base'[b] = base[b]
    BY <2>1 DEF ProfileTypes
  <2>3. file.revision \in Nat /\ base[b].revision \in Nat
    BY DEF ProfileTypes, Profiles
  <2> QED
    BY <1>1, <2>2, <2>3 DEF Snapshot
<1> QED
  BY <1>2, <1>3, <1>4, <1>5

\* Archiving, and the end of a command, let go of the lock.
LEMMA EndIInv ==
  ASSUME NEW a \in Commands, ProfileIInv, Archive(a) \/ Stop(a)
  PROVE  ProfileIInv'
<1> USE ProfileAssumption DEF ProfileIInv, Archive, Stop, Runs, Ends, storeVars
<1>1. ProfileTypes'
  <2>1. Blank \in Profiles /\ NoDraft \in Drafts
    BY DEF Profiles, Drafts, Blank, NoDraft
  <2>2. base' \in [Commands -> Profiles] /\ draft' \in [Commands -> Drafts]
    BY <2>1 DEF ProfileTypes
  <2> QED
    BY <2>2 DEF ProfileTypes
<1>2. Held'
  BY DEF ProfileTypes, Held
<1>3. Creating'
  BY DEF ProfileTypes, Creating, Held
<1>4. Snapshot'
  BY DEF ProfileTypes, Snapshot
<1> QED
  BY <1>1, <1>2, <1>3, <1>4

\* The invariant holds in every reachable state, for every value of the constants.
THEOREM Inductive == ProfileSpec => []ProfileIInv
<1>1. ProfileInit => ProfileIInv
  BY InitIInv
<1>2. ProfileIInv /\ [ProfileNext]_profileVars => ProfileIInv'
  <2> SUFFICES ASSUME ProfileIInv, [ProfileNext]_profileVars PROVE ProfileIInv'
    OBVIOUS
  <2>1. CASE UNCHANGED profileVars
    BY <2>1 DEF profileVars, ProfileIInv, ProfileTypes, Held, Creating, Snapshot
  <2>2. CASE ProfileNext
    BY <2>2, CreateIInv, WriteNewIInv, DraftIInv, LockIInv, ReplaceIInv, EndIInv DEF ProfileNext
  <2> QED
    BY <2>1, <2>2
<1> QED
  BY <1>1, <1>2, PTL DEF ProfileSpec

\* Every variable keeps its type.
THEOREM TypeCorrect == ProfileSpec => []ProfileTypes
<1>1. ProfileIInv => ProfileTypes
  BY DEF ProfileIInv
<1> QED
  BY <1>1, Inductive, PTL

\* A step changes a whole file only by a save under the lock.
LEMMA OnlySaves ==
  ASSUME ProfileIInv, [ProfileNext]_profileVars, SameProfile, file' # file
  PROVE  \E a \in Commands : Replace(a)
<1>1. ProfileNext
  BY DEF profileVars
<1>2. PICK a \in Commands :
        \/ CreateProfile(a) \/ ImportProfile(a) \/ WriteNew(a)
        \/ OpenEditor(a) \/ CloseEditor(a)
        \/ StartLearning(a) \/ EndLearning(a)
        \/ \E what \in {"seal", "unseal", "archive"} : Ask(a, what)
        \/ Lock(a) \/ Replace(a) \/ Archive(a)
        \/ Stop(a)
  BY <1>1 DEF ProfileNext
<1>3. ~WriteNew(a)
  BY DEF WriteNew, SameProfile, ProfileIInv, Creating
<1> QED
  BY <1>2, <1>3 DEF CreateProfile, ImportProfile, OpenNew, OpenEditor, StartLearning, Open,
     CloseEditor, EndLearning, Ask, Lock, Archive, Stop, storeVars

\* The editor that saves has the file itself on the screen, unless the profile
\* was made anew since.
LEMMA SaverHasTheFile ==
  ASSUME NEW a \in Commands, ProfileIInv, Replace(a), NobodyOutdated
  PROVE  base[a] = file /\ lock = a
<1>1. lock = a /\ base[a].revision = file.revision
  BY DEF Replace, ProfileIInv, Held
<1>2. ~Outdated(a)
  BY <1>1 DEF NobodyOutdated
<1>3. CASE doing[a] = "edit"
  BY <1>1, <1>2, <1>3 DEF Outdated, ProfileIInv, Snapshot
<1>4. CASE doing[a] # "edit"
  BY <1>1, <1>4 DEF ProfileIInv, Held
<1> QED
  BY <1>1, <1>3, <1>4

\* The rules of a sealed profile do not change.
THEOREM SealedStaysFrozen == ProfileSpec => SealedIsFrozen
<1>1. ProfileIInv /\ [ProfileNext]_profileVars =>
        [SameProfile /\ NobodyOutdated /\ file.sealed => file'.rules = file.rules]_profileVars
  <2> SUFFICES ASSUME ProfileIInv, [ProfileNext]_profileVars, SameProfile, NobodyOutdated, file.sealed, file' # file
               PROVE  file'.rules = file.rules
    OBVIOUS
  <2>1. PICK a \in Commands : Replace(a)
    BY OnlySaves
  <2>2. base[a] = file /\ lock = a
    BY <2>1, SaverHasTheFile
  <2>3. doing[a] # "edit" /\ doing[a] # "learn" /\ doing[a] \in Saves \ {"archive"}
    BY <2>1, <2>2 DEF Replace, ProfileIInv, Held, Snapshot
  <2> QED
    BY <2>1, <2>2, <2>3 DEF Replace, Saved, Saves
<1> QED
  BY <1>1, Inductive, PTL DEF ProfileSpec, SealedIsFrozen

\* Every save is the next revision and loses no rule its command has not read.
THEOREM SavesDoStack == ProfileSpec => SavesStack
<1>1. ASSUME ProfileIInv, [ProfileNext]_profileVars PROVE RevisionAdvances
  <2> SUFFICES ASSUME SameProfile, file' # file
               PROVE  file'.revision = file.revision + 1
    BY DEF RevisionAdvances
  <2> QED
    BY <1>1, OnlySaves, SavedIsNext DEF Replace
<1>2. ASSUME ProfileIInv, [ProfileNext]_profileVars PROVE UnseenRulesStay
  <2> SUFFICES ASSUME SameProfile, NobodyOutdated, file' # file,
                      NEW r \in file.rules \ file'.rules
               PROVE  \E a \in Commands : /\ doing[a] = "edit" /\ pc[a] = "locked"
                                          /\ r \in base[a].rules /\ r \notin draft[a].rules
    BY DEF UnseenRulesStay
  <2>1. PICK a \in Commands : Replace(a)
    BY <1>2, OnlySaves
  <2>2. base[a] = file /\ lock = a
    BY <1>2, <2>1, SaverHasTheFile
  <2>3. doing[a] \in {"edit", "learn", "seal", "unseal"}
    BY <1>2, <2>1, <2>2 DEF Replace, ProfileIInv, Held, Saves
  <2>4. doing[a] = "edit"
    BY <2>1, <2>2, <2>3 DEF Replace, Saved
  <2> QED
    BY <2>1, <2>2, <2>4 DEF Replace, Saved
<1>3. ProfileIInv /\ [ProfileNext]_profileVars => [RevisionAdvances /\ UnseenRulesStay]_profileVars
  BY <1>1, <1>2
<1> QED
  BY <1>3, Inductive, PTL DEF ProfileSpec, SavesStack
-----------------------------------------------------------------------------
(* Overlay: what its plans rely on, and what the journal and the markers say *)

\* All above p is a directory of the tree u.
Placed(u, p) == \A q \in Above[p] : u[q] = "dir"

\* The name a step puts something at.
Target(step) == IF step.do = "move" THEN step.entry.dest ELSE step.path
Building == {"put", "mkdir", "move"}
Emptying == {"remove", "rmtree", "move"}

\* The two names of a rename do not contain each other.
Apart(e) == e.kind = "rename" => e.dest \notin From[e.path] /\ e.path \notin From[e.dest]

Shaped(s) ==
  \A i \in DOMAIN s :
    /\ Apart(s[i].entry)
    /\ s[i].do = "move" => s[i].entry.kind = "rename" /\ s[i].entry.path = s[i].path

\* What a plan makes has its directories by then.
Ready(u, s) ==
  \A i \in DOMAIN s :
    s[i].do \in Building =>
      /\ \A j \in DOMAIN s : j < i => s[j].do \notin Emptying
      /\ \/ Placed(u, Target(s[i]))
         \/ \E j \in DOMAIN s :
              j < i /\ s[j].do = "parents" /\ s[j].path = Target(s[i])
         \/ \E j \in DOMAIN s :
              /\ j < i /\ s[j].do = "mkdir"
              /\ Len(Target(s[i])) > 1 /\ s[j].path = Parent(Target(s[i]))

\* A plan to make a directory ends with making it and its commit.
MakesLast(u, ms, s) ==
  s # <<>> /\ s[Len(s)].entry.kind = "mkdir"
  => LET n == Len(s)
         p == s[n].entry.path
     IN /\ s[n].do = "commit"
        /\ \/ n >= 2 /\ s[n - 1].do = "mkdir" /\ s[n - 1].path = p
           \/ n = 1 /\ \A q \in Below[p] : u[q] = "absent" /\ q \notin ms

\* What a plan makes has no marker by then.
Unmarks(ms, s) ==
  \A i \in DOMAIN s :
    s[i].do \in Building =>
      \/ Target(s[i]) \notin ms
      \/ \E j \in DOMAIN s : j < i /\ s[j].do = "clear" /\ s[j].path = Target(s[i])

\* What a plan marks is gone by then, and nothing is done after it.
MarksLast(u, s) ==
  \A i \in DOMAIN s :
    s[i].do = "mark" =>
      /\ \A j \in DOMAIN s : j > i => s[j].do = "commit"
      /\ \/ /\ i > 1 /\ s[i - 1].do \in {"remove", "move"} /\ s[i - 1].path = s[i].path
         \/ /\ u[s[i].path] = "absent"
            /\ \A j \in DOMAIN s : j < i => s[j].do \in {"parents", "begin"} /\ s[j].path = s[i].path

\* Records are begun before they are committed, and those of one plan differ.
Paired(s) ==
  \A i \in DOMAIN s, j \in DOMAIN s :
    /\ s[i].do = "commit" /\ s[j].do = "commit" /\ i # j =>
         ~(s[i].entry.kind = s[j].entry.kind /\ s[i].entry.path = s[j].entry.path)
    /\ s[i].do = "begin" /\ s[j].do = "commit" /\ s[i].entry = s[j].entry => i < j

Planned(u, ms, s) ==
  /\ Ready(u, s) /\ MakesLast(u, ms, s) /\ Unmarks(ms, s) /\ MarksLast(u, s) /\ Paired(s)

Plans ==
  /\ \A i \in DOMAIN pending : Apart(pending[i])
  /\ \A i \in DOMAIN replay : Apart(replay[i])
  /\ Shaped(todo)
  /\ phase = "idle" => todo = <<>>
  /\ phase = "operation" => Planned(upper, marks, todo)
  /\ phase = "replay" =>
       /\ Ready(upper, todo)
       /\ \A i \in DOMAIN todo : todo[i].do \in {"remove", "rmtree", "parents", "move", "mark"}
       /\ todo # <<>> \/ replay # <<>> => pending # <<>>

\* The intent is in the journal and its commit is to come: Begun, of any plan.
Unfinished(s, e) ==
  /\ \E i \in DOMAIN s : s[i].do = "commit" /\ s[i].entry = e
  /\ ~\E i \in DOMAIN s : s[i].do = "begin" /\ s[i].entry = e

Recorded == \A e \in Entries : Unfinished(todo, e) => \E i \in DOMAIN pending : pending[i] = e

Clean ==
  \A i \in DOMAIN pending :
    Unfinished(todo, pending[i]) /\ \A j \in DOMAIN pending : pending[i] = pending[j] => i = j

Unburied == Clean => \A p \in marks : upper[p] = "absent"

OverlayIInv == TypeOK /\ Plans /\ Recorded /\ Unburied

-----------------------------------------------------------------------------
(* Induction over numbers, with a set for the predicate                    *)

\* 
LEMMA FiniteMinimum ==
  ASSUME NEW U, NEW T, T \subseteq FiniteSubsetsOf(U), T # {}
  PROVE  \E x \in T : \A y \in T : ~(y \subseteq x /\ y # x)
<1>1. IsWellFoundedOn(StrictSubsetOrdering(U), FiniteSubsetsOf(U))
  BY FS_StrictSubsetOrderingWellFounded
<1>2. PICK x \in T : \A y \in T : ~(<<y, x>> \in StrictSubsetOrdering(U))
  BY ONLY <1>1, WFMin, T \subseteq FiniteSubsetsOf(U), T # {}, Zenon
<1> QED BY <1>2 DEF StrictSubsetOrdering, FiniteSubsetsOf

\* A nonempty set of numbers has a least one.
LEMMA Least ==
  ASSUME NEW T \in SUBSET Nat, T # {}
  PROVE  \E n \in T : \A m \in T : n <= m
<1> DEFINE S == {1 .. n : n \in T}
<1>1. S \subseteq FiniteSubsetsOf(Nat)
  <2>1. SUFFICES ASSUME NEW n \in T PROVE 1 .. n \in SUBSET Nat /\ IsFiniteSet(1 .. n)
    BY DEF FiniteSubsetsOf
  <2>2. n \in Int /\ 1 \in Int BY SMT
  <2>3. IsFiniteSet(1 .. n) BY <2>2, FS_Interval
  <2> QED BY <2>3, SMT
<1>2. S # {}
  OBVIOUS
<1>3. PICK x \in S : \A y \in S : ~(y \subseteq x /\ y # x)
  <2> HIDE DEF S
  <2> QED BY <1>1, <1>2, FiniteMinimum
<1>4. PICK n \in T : x = 1 .. n
  OBVIOUS
<1>5. ASSUME NEW m \in T PROVE n <= m
  <2>1. CASE m < n
    <3>1. 1 .. m \in S OBVIOUS
    <3>2. 1 .. m \subseteq 1 .. n BY <2>1, SMT
    <3>3. n \in 1 .. n /\ n \notin 1 .. m BY <2>1, SMT
    <3> QED BY <3>1, <3>2, <3>3, <1>3, <1>4, Zenon
  <2> QED BY <2>1, SMT
<1> QED BY <1>5

\* Induction over the numbers, with the predicate as a set.
LEMMA Induction ==
  ASSUME NEW T, 0 \in T, \A n \in Nat : n \in T => n + 1 \in T
  PROVE  Nat \subseteq T
<1> SUFFICES ASSUME Nat \ T # {} PROVE FALSE
  OBVIOUS
<1>1. PICK n \in Nat \ T : \A m \in Nat \ T : n <= m
  BY Least
<1>2. n # 0 /\ n - 1 \in Nat /\ ~(n <= n - 1) /\ n = (n - 1) + 1
  BY <1>1, SMT
<1>3. n - 1 \in T
  BY <1>1, <1>2
<1> QED BY <1>1, <1>2, <1>3

\* What holds of 0 and goes on, up to n.
LEMMA Upto ==
  ASSUME NEW n \in Nat, NEW T, 0 \in T, \A i \in 1 .. n : i - 1 \in T => i \in T
  PROVE  \A i \in 0 .. n : i \in T
<1> DEFINE U == {k \in Nat : k <= n => k \in T}
<1>1. 0 \in U OBVIOUS
<1>2. ASSUME NEW k \in Nat, k \in U PROVE k + 1 \in U
  <2>1. CASE k + 1 <= n
    <3>1. k + 1 \in 1 .. n /\ (k + 1) - 1 = k /\ k \in T BY <1>2, <2>1
    <3> QED BY <3>1
  <2>2. CASE ~(k + 1 <= n) BY <2>2
  <2> QED BY <2>1, <2>2
<1>3. Nat \subseteq U
  <2> HIDE DEF U
  <2> QED BY <1>1, <1>2, Induction
<1> QED BY <1>3

-----------------------------------------------------------------------------
(* Paths                                                                   *)

Components == UNION {ToSet(p) : p \in Paths}

\* A path is a sequence of components.
LEMMA PathIsSeq ==
  ASSUME NEW p \in Paths
  PROVE  p \in Seq(Components) /\ Len(p) \in Nat /\ Len(p) > 0
<1>1. p \in Seq(ToSet(p)) /\ Len(p) > 0
  BY ConstantsAssumption
<1>2. ToSet(p) \subseteq Components
  BY DEF Components
<1>3. p \in Seq(Components)
  BY <1>1, <1>2, SeqMonotonic
<1> QED BY <1>1, <1>3

\* One path leads to another when it is no longer and agrees with it.
LEMMA PrefixByPlace ==
  ASSUME NEW p \in Paths, NEW q \in Paths
  PROVE  IsPrefix(p, q) <=> Len(p) <= Len(q) /\ \A i \in 1 .. Len(p) : p[i] = q[i]
<1>1. p \in Seq(Components) /\ q \in Seq(Components) /\ Len(p) \in Nat /\ Len(q) \in Nat
  BY PathIsSeq
<1>2. SubSeq(p, 1, Len(p)) = p
  BY <1>1, SubSeqFull
<1>3. ASSUME Len(p) <= Len(q)
      PROVE  p = SubSeq(q, 1, Len(p)) <=> \A i \in 1 .. Len(p) : p[i] = q[i]
  <2>1. SubSeq(q, 1, Len(p)) \in Seq(Components) /\ Len(SubSeq(q, 1, Len(p))) = Len(p)
        /\ \A i \in 1 .. Len(p) : SubSeq(q, 1, Len(p))[i] = q[i]
    BY <1>1, <1>3
  <2>2. (\A i \in 1 .. Len(p) : p[i] = SubSeq(q, 1, Len(p))[i]) => p = SubSeq(q, 1, Len(p))
    BY <1>1, <2>1, SeqEqual
  <2> QED BY <2>1, <2>2
<1> QED BY <1>2, <1>3 DEF IsPrefix

\* Equal paths agree everywhere.
LEMMA SamePath ==
  ASSUME NEW p \in Paths, NEW q \in Paths, Len(p) = Len(q), \A i \in 1 .. Len(p) : p[i] = q[i]
  PROVE  p = q
<1>1. p \in Seq(Components) /\ q \in Seq(Components)
  BY PathIsSeq
<1> QED BY <1>1, SeqEqual

\* Above and From as relations.
LEMMA Reading ==
  ASSUME NEW p \in Paths, NEW q \in Paths
  PROVE  /\ q \in Above[p] <=> q # p /\ IsPrefix(q, p)
         /\ q \in From[p] <=> IsPrefix(p, q)
         /\ q \in Below[p] <=> q # p /\ IsPrefix(p, q)
BY DEF Above, From, Below

\* What is above, from and below a name are names, with the name itself where it belongs.
LEMMA Subsets ==
  ASSUME NEW p \in Paths
  PROVE  /\ Above[p] \subseteq Paths /\ From[p] \subseteq Paths /\ Below[p] \subseteq From[p]
         /\ p \in From[p] /\ p \notin Below[p] /\ p \notin Above[p]
         /\ From[p] = Below[p] \union {p}
<1>1. IsPrefix(p, p)
  BY PrefixByPlace, PathIsSeq
<1>2. p \in From[p]
  BY <1>1, Reading
<1> QED BY <1>2 DEF Above, From, Below

\* The order of paths.
LEMMA AboveIsOrder ==
  ASSUME NEW p \in Paths, NEW q \in Paths
  PROVE  /\ q \in Above[p] <=> p \in Below[q]
         /\ q \in Above[p] => Len(q) < Len(p)
         /\ q \in Above[p] => Above[q] \subseteq Above[p]
         /\ q \in Above[p] => Below[p] \subseteq Below[q]
<1>1. q \in Above[p] <=> p \in Below[q]
  BY Reading
<1>2. ASSUME q \in Above[p] PROVE Len(q) < Len(p)
  <2>1. q # p /\ Len(q) <= Len(p) /\ \A i \in 1 .. Len(q) : q[i] = p[i]
    BY <1>2, Reading, PrefixByPlace
  <2>2. Len(q) # Len(p)
    BY <2>1, SamePath
  <2> QED BY <2>1, <2>2, PathIsSeq
<1>3. ASSUME NEW x \in Paths, NEW y \in Paths, NEW z \in Paths, IsPrefix(x, y), IsPrefix(y, z)
      PROVE  IsPrefix(x, z)
  <2>1. Len(x) <= Len(y) /\ Len(y) <= Len(z)
        /\ (\A i \in 1 .. Len(x) : x[i] = y[i]) /\ (\A i \in 1 .. Len(y) : y[i] = z[i])
    BY <1>3, PrefixByPlace
  <2>2. Len(x) \in Nat /\ Len(y) \in Nat /\ Len(z) \in Nat
    BY PathIsSeq
  <2>3. Len(x) <= Len(z) /\ \A i \in 1 .. Len(x) : x[i] = z[i]
    BY <2>1, <2>2
  <2> QED BY <2>3, PrefixByPlace
<1>4. ASSUME q \in Above[p], NEW r \in Above[q] PROVE r \in Above[p]
  <2>1. r \in Paths /\ r # q /\ IsPrefix(r, q) /\ q # p /\ IsPrefix(q, p)
    BY <1>4, Subsets, Reading
  <2>2. IsPrefix(r, p)
    BY <1>3, <2>1
  <2>3. r # p
    <3>1. Len(r) <= Len(q) /\ Len(q) <= Len(p) /\ Len(q) < Len(p)
      BY <2>1, <1>2, <1>4, PrefixByPlace
    <3> QED BY <3>1, <2>1, PathIsSeq
  <2> QED BY <2>1, <2>2, <2>3, Reading
<1>5. ASSUME q \in Above[p], NEW r \in Below[p] PROVE r \in Below[q]
  <2>1. r \in Paths /\ r # p /\ IsPrefix(p, r) /\ q # p /\ IsPrefix(q, p)
    BY <1>5, Subsets, Reading
  <2>2. IsPrefix(q, r)
    BY <1>3, <2>1
  <2>3. r # q
    <3>1. Len(p) <= Len(r) /\ Len(q) < Len(p)
      BY <2>1, <1>2, <1>5, PrefixByPlace
    <3> QED BY <3>1, <2>1, PathIsSeq
  <2> QED BY <2>1, <2>2, <2>3, Reading
<1> QED BY <1>1, <1>2, <1>4, <1>5

\* Two paths that lead to a third: one leads to the other.
LEMMA AboveIsLinear ==
  ASSUME NEW p \in Paths, NEW q \in Paths, NEW r \in Paths, p \in From[q], p \in From[r]
  PROVE  q \in From[r] \/ r \in From[q]
<1>1. Len(q) <= Len(p) /\ Len(r) <= Len(p)
      /\ (\A i \in 1 .. Len(q) : q[i] = p[i]) /\ (\A i \in 1 .. Len(r) : r[i] = p[i])
  BY Reading, PrefixByPlace
<1>2. Len(q) \in Nat /\ Len(r) \in Nat
  BY PathIsSeq
<1>3. CASE Len(q) <= Len(r)
  <2>1. \A i \in 1 .. Len(q) : q[i] = r[i]
    BY <1>1, <1>2, <1>3
  <2> QED BY <2>1, <1>3, Reading, PrefixByPlace
<1>4. CASE Len(r) <= Len(q)
  <2>1. \A i \in 1 .. Len(r) : r[i] = q[i]
    BY <1>1, <1>2, <1>4
  <2> QED BY <2>1, <1>4, Reading, PrefixByPlace
<1> QED BY <1>2, <1>3, <1>4

\* A path is below its parent, and below nothing else but what the parent is below.
LEMMA ParentIsAbove ==
  ASSUME NEW p \in Paths
  PROVE  /\ Len(p) > 1 => Parent(p) \in Paths /\ Parent(p) \in Above[p]
                          /\ Above[p] = Above[Parent(p)] \union {Parent(p)}
                          /\ Len(Parent(p)) = Len(p) - 1
         /\ Len(p) = 1 => Above[p] = {}
<1>1. p \in Seq(Components) /\ Len(p) \in Nat /\ Len(p) > 0
  BY PathIsSeq
<1>2. CASE Len(p) > 1
  <2>1. Parent(p) \in Paths
    BY <1>2, ConstantsAssumption
  <2>2. Len(Parent(p)) = Len(p) - 1 /\ \A i \in 1 .. Len(p) - 1 : Parent(p)[i] = p[i]
    BY <1>1, <1>2 DEF Parent
  <2>3. IsPrefix(Parent(p), p)
    BY <1>1, <2>1, <2>2, PrefixByPlace
  <2>4. Parent(p) \in Above[p]
    <3>1. Parent(p) # p BY <1>1, <2>2
    <3> QED BY <2>1, <2>3, <3>1, Reading
  <2>5. ASSUME NEW q \in Above[p], q # Parent(p) PROVE q \in Above[Parent(p)]
    <3>1. q \in Paths /\ IsPrefix(q, p) /\ Len(q) < Len(p)
      BY <2>5, Subsets, Reading, AboveIsOrder
    <3>2. Len(q) \in Nat /\ \A i \in 1 .. Len(q) : q[i] = p[i]
      BY <3>1, PrefixByPlace, PathIsSeq
    <3>3. Len(q) <= Len(Parent(p))
      BY <3>1, <3>2, <2>2, <1>1
    <3>4. \A i \in 1 .. Len(q) : q[i] = Parent(p)[i]
      <4>1. \A i \in 1 .. Len(q) : i \in 1 .. Len(p) - 1 BY <3>1, <3>2, <1>1
      <4> QED BY <3>2, <2>2, <4>1
    <3>5. IsPrefix(q, Parent(p))
      BY <3>1, <3>3, <3>4, <2>1, PrefixByPlace
    <3> QED BY <3>1, <3>5, <2>1, <2>5, Reading
  <2>6. Above[Parent(p)] \subseteq Above[p]
    BY <2>1, <2>4, AboveIsOrder
  <2> QED BY <1>2, <2>1, <2>2, <2>4, <2>5, <2>6
<1>3. CASE Len(p) = 1
  <2>1. ASSUME NEW q \in Above[p] PROVE FALSE
    <3>1. q \in Paths /\ Len(q) < Len(p) BY <2>1, Subsets, AboveIsOrder
    <3> QED BY <3>1, <1>3, PathIsSeq
  <2> QED BY <1>3, <2>1
<1> QED BY <1>2, <1>3

\* All that leads to a path is a path.
LEMMA PrefixIsPath ==
  ASSUME NEW p \in Paths, NEW n \in 1 .. Len(p)
  PROVE  SubSeq(p, 1, n) \in Paths
<1> DEFINE T == {k \in Nat : k < Len(p) => SubSeq(p, 1, Len(p) - k) \in Paths}
<1>1. p \in Seq(Components) /\ Len(p) \in Nat /\ Len(p) > 0
  BY PathIsSeq
<1>2. 0 \in T
  <2>1. SubSeq(p, 1, Len(p)) = p /\ Len(p) - 0 = Len(p) BY <1>1, SubSeqFull
  <2> QED BY <2>1
<1>3. ASSUME NEW k \in Nat, k \in T PROVE k + 1 \in T
  <2>1. SUFFICES ASSUME k + 1 < Len(p) PROVE SubSeq(p, 1, Len(p) - (k + 1)) \in Paths
    OBVIOUS
  <2>2. PICK m \in 1 .. Len(p) : m = Len(p) - k /\ m > 1 /\ m - 1 = Len(p) - (k + 1)
    BY <1>1, <2>1
  <2>3. PICK q \in Paths : q = SubSeq(p, 1, m)
    <3>1. SubSeq(p, 1, Len(p) - k) \in Paths
      <4>1. k < Len(p) BY <1>1, <2>1
      <4> QED BY <4>1, <1>3
    <3> QED BY <2>2, <3>1
  <2>4. q \in Seq(Components) /\ Len(q) = m /\ \A i \in 1 .. m : q[i] = p[i]
    BY <1>1, <2>2, <2>3
  <2>5. SubSeq(q, 1, m - 1) \in Paths
    BY <2>2, <2>3, <2>4, ConstantsAssumption DEF Parent
  <2>6. SubSeq(q, 1, m - 1) = SubSeq(p, 1, m - 1)
    <3>1. SubSeq(q, 1, m - 1) \in Seq(Components) /\ Len(SubSeq(q, 1, m - 1)) = m - 1
          /\ \A i \in 1 .. m - 1 : SubSeq(q, 1, m - 1)[i] = q[i]
      BY <2>2, <2>4
    <3>2. SubSeq(p, 1, m - 1) \in Seq(Components) /\ Len(SubSeq(p, 1, m - 1)) = m - 1
          /\ \A i \in 1 .. m - 1 : SubSeq(p, 1, m - 1)[i] = p[i]
      BY <1>1, <2>2
    <3>3. \A i \in 1 .. m - 1 : i \in 1 .. m BY <2>2
    <3> QED BY <3>1, <3>2, <3>3, <2>4, SeqEqual
  <2> QED BY <2>2, <2>5, <2>6
<1>4. Nat \subseteq T
  <2> HIDE DEF T
  <2> QED BY <1>2, <1>3, Induction
<1>5. Len(p) - n \in Nat /\ Len(p) - n < Len(p) /\ Len(p) - (Len(p) - n) = n
  BY <1>1
<1>6. Len(p) - n \in T
  <2> HIDE DEF T
  <2> QED BY <1>4, <1>5
<1> QED BY <1>5, <1>6

\* m is p and then what q has after dest.
Rebased(p, dest, q, m) ==
  /\ m \in Seq(Components) /\ Len(m) = Len(p) + Len(q) - Len(dest)
  /\ Len(dest) <= Len(q) /\ Len(p) <= Len(m)
  /\ \A i \in 1 .. Len(p) : m[i] = p[i]
  /\ \A i \in Len(p) + 1 .. Len(m) : m[i] = q[Len(dest) + (i - Len(p))]

\* What Rebase makes of a path from dest.
LEMMA RebaseByPlace ==
  ASSUME NEW p \in Paths, NEW dest \in Paths, NEW q \in From[dest]
  PROVE  Rebased(p, dest, q, Rebase(q, dest, p))
<1>0. PICK m : m = Rebase(q, dest, p)
  OBVIOUS
<1>1. q \in Paths /\ Len(dest) <= Len(q)
  BY Subsets, Reading, PrefixByPlace
<1>2. /\ p \in Seq(Components) /\ q \in Seq(Components)
      /\ Len(p) \in Nat /\ Len(q) \in Nat /\ Len(dest) \in Nat
  BY <1>1, PathIsSeq
<1> DEFINE t == SubSeq(q, Len(dest) + 1, Len(q))
<1>3. m = p \o t
  BY <1>0 DEF Rebase
<1>4. t \in Seq(Components) /\ Len(t) = Len(q) - Len(dest)
      /\ \A i \in 1 .. Len(t) : t[i] = q[Len(dest) + i]
  <2>1. CASE Len(dest) = Len(q)
    <3>1. t = <<>> BY <2>1, <1>2
    <3> QED BY <3>1, <2>1, <1>2
  <2>2. CASE Len(dest) < Len(q)
    <3>1. Len(dest) + 1 \in 1 .. Len(q) BY <2>2, <1>2
    <3>2. t \in Seq(Components) /\ Len(t) = Len(q) - (Len(dest) + 1) + 1
          /\ \A i \in 1 .. Len(q) - (Len(dest) + 1) + 1 : t[i] = q[(Len(dest) + 1) + i - 1]
      BY <3>1, <2>2, <1>2
    <3>3. Len(q) - (Len(dest) + 1) + 1 = Len(q) - Len(dest)
          /\ \A i \in 1 .. Len(q) - Len(dest) : (Len(dest) + 1) + i - 1 = Len(dest) + i
      BY <1>2
    <3> HIDE DEF t
    <3> QED BY <3>2, <3>3
  <2> QED BY <2>1, <2>2, <1>1, <1>2
<1> HIDE DEF t
<1>5. m \in Seq(Components) /\ Len(m) = Len(p) + Len(t)
      /\ \A i \in 1 .. Len(m) : m[i] = IF i <= Len(p) THEN p[i] ELSE t[i - Len(p)]
  <2>1. /\ p \o t \in Seq(Components) /\ Len(p \o t) = Len(p) + Len(t)
        /\ \A i \in 1 .. Len(p) + Len(t) : (p \o t)[i] = IF i <= Len(p) THEN p[i] ELSE t[i - Len(p)]
    BY <1>2, <1>4, ConcatProperties, Zenon
  <2> QED BY <2>1, <1>3, Zenon
<1>6. ASSUME NEW i \in Len(p) + 1 .. Len(m) PROVE m[i] = q[Len(dest) + (i - Len(p))]
  <2>1. i \in 1 .. Len(m) /\ ~(i <= Len(p)) /\ i - Len(p) \in 1 .. Len(t)
    BY <1>2, <1>4, <1>5
  <2> QED BY <2>1, <1>4, <1>5
<1>7. ASSUME NEW i \in 1 .. Len(p) PROVE m[i] = p[i]
  <2>1. i \in 1 .. Len(m) /\ i <= Len(p) BY <1>2, <1>4, <1>5, <1>1
  <2> QED BY <2>1, <1>5
<1> QED BY <1>0, <1>1, <1>2, <1>4, <1>5, <1>6, <1>7 DEF Rebased

\* What stands above q, from dest on, is rebased to what stands above.
LEMMA RebaseKeepsOrder ==
  ASSUME NEW p \in Paths, NEW dest \in Paths, NEW q \in From[dest], NEW r \in From[dest],
         r \in Above[q], Rebase(q, dest, p) \in Paths
  PROVE  Rebase(r, dest, p) \in Paths /\ Rebase(r, dest, p) \in Above[Rebase(q, dest, p)]
<1>0. PICK m \in Paths : m = Rebase(q, dest, p)
  OBVIOUS
<1>11. PICK k : k = Rebase(r, dest, p)
  OBVIOUS
<1>1. q \in Paths /\ r \in Paths /\ Len(r) < Len(q) /\ \A i \in 1 .. Len(r) : r[i] = q[i]
  BY Subsets, AboveIsOrder, Reading, PrefixByPlace
<1>2. /\ m \in Seq(Components) /\ Len(m) = Len(p) + Len(q) - Len(dest)
      /\ Len(dest) <= Len(q) /\ Len(p) <= Len(m)
      /\ \A i \in 1 .. Len(p) : m[i] = p[i]
      /\ \A i \in Len(p) + 1 .. Len(m) : m[i] = q[Len(dest) + (i - Len(p))]
  <2>1. Rebased(p, dest, q, Rebase(q, dest, p)) BY RebaseByPlace
  <2> QED BY <1>0, <2>1 DEF Rebased
<1>3. /\ k \in Seq(Components) /\ Len(k) = Len(p) + Len(r) - Len(dest)
      /\ Len(dest) <= Len(r) /\ Len(p) <= Len(k)
      /\ \A i \in 1 .. Len(p) : k[i] = p[i]
      /\ \A i \in Len(p) + 1 .. Len(k) : k[i] = r[Len(dest) + (i - Len(p))]
  <2>1. Rebased(p, dest, r, Rebase(r, dest, p)) BY RebaseByPlace
  <2> QED BY <1>11, <2>1 DEF Rebased
<1>4. Len(p) \in Nat /\ Len(q) \in Nat /\ Len(r) \in Nat /\ Len(dest) \in Nat
      /\ Len(p) > 0
  BY <1>1, PathIsSeq
<1>5. Len(k) < Len(m) /\ Len(k) \in Nat /\ Len(m) \in Nat /\ Len(k) \in 1 .. Len(m)
  BY <1>1, <1>2, <1>3, <1>4
<1>6. ASSUME NEW i \in 1 .. Len(k) PROVE k[i] = m[i]
  <2>1. CASE i <= Len(p)
    <3>1. i \in 1 .. Len(p) BY <2>1, <1>4, <1>5
    <3> QED BY <3>1, <1>2, <1>3
  <2>2. CASE ~(i <= Len(p))
    <3>1. i \in Len(p) + 1 .. Len(k) /\ i \in Len(p) + 1 .. Len(m)
          /\ Len(dest) + (i - Len(p)) \in 1 .. Len(r)
      BY <2>2, <1>3, <1>4, <1>5
    <3> QED BY <3>1, <1>1, <1>2, <1>3
  <2> QED BY <2>1, <2>2
<1>8. k = SubSeq(m, 1, Len(k))
  <2>1. SubSeq(m, 1, Len(k)) \in Seq(Components) /\ Len(SubSeq(m, 1, Len(k))) = Len(k)
        /\ \A i \in 1 .. Len(k) : SubSeq(m, 1, Len(k))[i] = m[i]
    BY <1>2, <1>5
  <2> QED BY <2>1, <1>3, <1>6, SeqEqual
<1>9. k \in Paths
  BY <1>5, <1>8, PrefixIsPath
<1>10. k \in Above[m]
  <2>1. IsPrefix(k, m) BY <1>5, <1>6, <1>9, PrefixByPlace
  <2>2. k # m BY <1>5
  <2> QED BY <2>1, <2>2, <1>9, Reading
<1> QED BY <1>0, <1>11, <1>9, <1>10

-----------------------------------------------------------------------------
(* Overlay: what each change of the upper tree keeps                       *)

Trees == [Paths -> Nodes]

\* What is there, and every marker, lies in directories.
Tree(u, ms) == \A p \in Paths : u[p] # "absent" \/ p \in ms => Placed(u, p)

\* Nothing stands, and no marker, below what is no directory.
LEMMA NothingBelow ==
  ASSUME NEW u \in Trees, NEW ms, Tree(u, ms), NEW p \in Paths, u[p] # "dir", NEW q \in Below[p]
  PROVE  u[q] = "absent" /\ q \notin ms
<1>1. q \in Paths /\ p \in Above[q]
  BY Subsets, AboveIsOrder
<1> QED BY <1>1 DEF Tree, Placed

\* Making the missing directories above a name, none of them marked or a file, leaves a tree.
LEMMA ParentsAreTree ==
  ASSUME NEW u \in Trees, NEW ms \in SUBSET Paths, Tree(u, ms), NEW p \in Paths, NEW v,
         \A q \in Above[p] : q \notin ms /\ u[q] \in {"absent", "dir"},
         v = [q \in Paths |-> IF q \in Above[p] /\ u[q] = "absent" THEN "dir" ELSE u[q]]
  PROVE  /\ v \in Trees /\ Tree(v, ms) /\ Tree(v, ms \union {p}) /\ Placed(v, p)
         /\ \A q \in Paths : Placed(u, q) => Placed(v, q)
         /\ \A q \in Paths : v[q] # u[q] => q \in Above[p]
<1>1. v \in Trees
  BY DEF Trees, Nodes
<1>2. \A q \in Paths : v[q] = IF q \in Above[p] /\ u[q] = "absent" THEN "dir" ELSE u[q]
  OBVIOUS
<1>3. \A q \in Above[p] : q \in Paths /\ v[q] = "dir"
  BY <1>2, Subsets
<1>4. Placed(v, p)
  BY <1>3 DEF Placed
<1>5. ASSUME NEW q \in Paths, Placed(u, q) PROVE Placed(v, q)
  <2>1. ASSUME NEW r \in Above[q] PROVE v[r] = "dir"
    <3>1. r \in Paths /\ u[r] = "dir" BY <1>5, <2>1, Subsets DEF Placed
    <3> QED BY <3>1, <1>2
  <2> QED BY <2>1 DEF Placed
<1>6. ASSUME NEW q \in Above[p] PROVE Placed(v, q)
  <2>1. Above[q] \subseteq Above[p] BY <1>6, <1>3, AboveIsOrder
  <2> QED BY <2>1, <1>3 DEF Placed
<1>7. ASSUME NEW q \in Paths, v[q] # "absent" \/ q \in ms \union {p} PROVE Placed(v, q)
  <2>1. q \in Above[p] \/ q = p \/ u[q] # "absent" \/ q \in ms BY <1>7, <1>2
  <2> QED BY <2>1, <1>4, <1>5, <1>6 DEF Tree
<1> QED BY <1>1, <1>2, <1>4, <1>5, <1>7 DEF Tree

\* Putting a node where there is no directory leaves a tree.
LEMMA PutIsTree ==
  ASSUME NEW u \in Trees, NEW ms \in SUBSET Paths, Tree(u, ms), NEW p \in Paths, NEW v,
         u[p] # "dir", NEW c \in Nodes, c # "absent" => Placed(u, p),
         v = [u EXCEPT ![p] = c]
  PROVE  /\ v \in Trees /\ Tree(v, ms)
         /\ \A q \in Paths : Placed(u, q) => Placed(v, q)
<1>1. v \in Trees /\ v[p] = c /\ \A q \in Paths : q # p => v[q] = u[q]
  BY DEF Trees
<1>2. ASSUME NEW q \in Paths, Placed(u, q) PROVE Placed(v, q)
  <2>1. ASSUME NEW r \in Above[q] PROVE v[r] = "dir"
    <3>1. r \in Paths /\ u[r] = "dir" BY <1>2, <2>1, Subsets DEF Placed
    <3> QED BY <3>1, <1>1
  <2> QED BY <2>1 DEF Placed
<1> QED BY <1>1, <1>2 DEF Tree

\* Removing a name with nothing below it leaves a tree.
LEMMA RemoveIsTree ==
  ASSUME NEW u \in Trees, NEW ms \in SUBSET Paths, Tree(u, ms), NEW p \in Paths, NEW v,
         \A q \in Below[p] : u[q] = "absent" /\ q \notin ms,
         v = [u EXCEPT ![p] = "absent"]
  PROVE  v \in Trees /\ Tree(v, ms)
<1>1. v \in Trees /\ v[p] = "absent" /\ \A q \in Paths : q # p => v[q] = u[q]
  BY DEF Trees, Nodes
<1>2. ASSUME NEW q \in Paths, v[q] # "absent" \/ q \in ms PROVE Placed(v, q)
  <2>1. Placed(u, q)
    BY <1>1, <1>2 DEF Tree
  <2>2. ASSUME NEW r \in Above[q] PROVE v[r] = "dir"
    <3>1. r \in Paths /\ u[r] = "dir" BY <2>1, <2>2, Subsets DEF Placed
    <3>2. r # p
      <4>1. SUFFICES ASSUME r = p PROVE FALSE OBVIOUS
      <4>2. q \in Below[p] BY <2>2, <4>1, AboveIsOrder
      <4>3. q # p BY <4>2, Subsets
      <4> QED BY <4>2, <4>3, <1>1, <1>2
    <3> QED BY <3>1, <3>2, <1>1
  <2> QED BY <2>2 DEF Placed
<1> QED BY <1>1, <1>2 DEF Tree

\* Removing a name with all below it, markers included, leaves a tree.
LEMMA RemoveTreeIsTree ==
  ASSUME NEW u \in Trees, NEW ms \in SUBSET Paths, Tree(u, ms), NEW p \in Paths, NEW v,
         v = [q \in Paths |-> IF q \in From[p] THEN "absent" ELSE u[q]]
  PROVE  v \in Trees /\ Tree(v, ms \ Below[p])
<1>1. v \in Trees
  BY DEF Trees, Nodes
<1>2. \A q \in Paths : v[q] = IF q \in From[p] THEN "absent" ELSE u[q]
  OBVIOUS
<1>3. ASSUME NEW q \in Paths, v[q] # "absent" \/ q \in ms \ Below[p] PROVE Placed(v, q)
  <2>1. Placed(u, q) /\ q \notin Below[p]
    BY <1>2, <1>3, Subsets DEF Tree
  <2>2. ASSUME NEW r \in Above[q] PROVE v[r] = "dir"
    <3>1. r \in Paths /\ u[r] = "dir" BY <2>1, <2>2, Subsets DEF Placed
    <3>2. r \notin From[p]
      <4>1. SUFFICES ASSUME r \in From[p] PROVE FALSE OBVIOUS
      <4>2. q \in Below[r] BY <2>2, <3>1, AboveIsOrder
      <4>3. r = p \/ p \in Above[r] BY <3>1, <4>1, Subsets, AboveIsOrder
      <4>4. q \in Below[p] BY <3>1, <4>2, <4>3, AboveIsOrder
      <4> QED BY <4>4, <2>1
    <3> QED BY <3>1, <3>2, <1>2
  <2> QED BY <2>2 DEF Placed
<1> QED BY <1>1, <1>3 DEF Tree

\* Nothing above p is from dest, when the two are apart.
LEMMA ApartAbove ==
  ASSUME NEW p \in Paths, NEW dest \in Paths, dest \notin From[p], p \notin From[dest],
         NEW q \in Above[p]
  PROVE  q \in Paths /\ q \notin From[p] /\ q \notin From[dest]
<1>1. q \in Paths BY Subsets
<1>2. q \notin From[p]
  <2>1. SUFFICES ASSUME q \in From[p] PROVE FALSE OBVIOUS
  <2>2. Len(q) < Len(p) BY <1>1, AboveIsOrder
  <2>3. Len(p) <= Len(q) BY <1>1, <2>1, Reading, PrefixByPlace
  <2> QED BY <1>1, <2>2, <2>3, PathIsSeq
<1>3. q \notin From[dest]
  <2>1. SUFFICES ASSUME q \in From[dest] PROVE FALSE OBVIOUS
  <2>2. p \in Below[q] BY <1>1, AboveIsOrder
  <2>3. q = dest \/ dest \in Above[q] BY <1>1, <2>1, Subsets, AboveIsOrder
  <2>4. p \in Below[dest] BY <1>1, <2>2, <2>3, AboveIsOrder
  <2> QED BY <2>4, Subsets
<1> QED BY <1>1, <1>2, <1>3

\* A path above something from p is above p or from p.
LEMMA AboveFrom ==
  ASSUME NEW p \in Paths, NEW q \in From[p], NEW r \in Above[q]
  PROVE  r \in Paths /\ q \in Paths /\ (r \in Above[p] \/ r \in From[p])
<1>1. q \in Paths /\ r \in Paths BY Subsets
<1>2. q \in From[r] BY <1>1, AboveIsOrder, Subsets
<1>3. p \in From[r] \/ r \in From[p] BY <1>1, <1>2, AboveIsLinear
<1>4. ASSUME p \in From[r], p # r PROVE r \in Above[p]
  BY <1>1, <1>4, Subsets, AboveIsOrder
<1> QED BY <1>1, <1>3, <1>4, Subsets

\* A rename of one subtree over nothing, a file or an empty directory leaves a tree.
LEMMA MoveIsTree ==
  ASSUME NEW u \in Trees, NEW ms \in SUBSET Paths, Tree(u, ms),
         NEW p \in Paths, NEW dest \in Paths, dest \notin From[p], p \notin From[dest],
         Placed(u, dest),
         \/ u[dest] # "dir"
         \/ \A q \in Below[dest] : u[q] = "absent" /\ q \notin ms,
         NEW v, NEW ns,
         v = [q \in Paths |->
               IF q \in From[dest]
               THEN IF Rebase(q, dest, p) \in Paths THEN u[Rebase(q, dest, p)] ELSE "absent"
               ELSE IF q \in From[p] THEN "absent" ELSE u[q]],
         ns = (ms \ Below[p]) \union {q \in Below[dest] : Rebase(q, dest, p) \in ms}
  PROVE  /\ v \in Trees /\ ns \in SUBSET Paths /\ Tree(v, ns)
         /\ v[p] = "absent" /\ \A q \in ns : q \in ms \/ q \in Below[dest]
         /\ (\A q \in ms : u[q] = "absent") /\ dest \notin ms => \A q \in ns : v[q] = "absent"
<1>1. v \in Trees
  BY DEF Trees, Nodes
<1>2. ns \in SUBSET Paths
  BY Subsets
<1>3. \A q \in Paths : v[q] = IF q \in From[dest]
               THEN IF Rebase(q, dest, p) \in Paths THEN u[Rebase(q, dest, p)] ELSE "absent"
               ELSE IF q \in From[p] THEN "absent" ELSE u[q]
  OBVIOUS
<1>4. \A q \in Below[dest] : u[q] = "absent" /\ q \notin ms
  BY NothingBelow
<1>5. v[p] = "absent"
  BY <1>3, Subsets
<1>6. \A q \in Above[p] \union Above[dest] : q \in Paths /\ v[q] = u[q]
  BY <1>3, ApartAbove
<1>7. Placed(v, dest)
  BY <1>6 DEF Placed
<1>8. ASSUME NEW q \in From[dest], NEW m \in Paths, m = Rebase(q, dest, p),
             u[m] # "absent" \/ m \in ms
      PROVE  Placed(v, q)
  <2>1. ASSUME NEW r \in Above[q] PROVE v[r] = "dir"
    <3>1. r \in Paths /\ q \in Paths /\ (r \in Above[dest] \/ r \in From[dest]) BY <2>1, AboveFrom
    <3>2. CASE r \in Above[dest] BY <3>2, <1>7 DEF Placed
    <3>3. CASE r \in From[dest]
      <4>1. Rebase(r, dest, p) \in Paths /\ Rebase(r, dest, p) \in Above[m]
        BY <1>8, <2>1, <3>3, RebaseKeepsOrder
      <4>2. u[Rebase(r, dest, p)] = "dir" BY <1>8, <4>1 DEF Tree, Placed
      <4> QED BY <3>1, <3>3, <4>1, <4>2, <1>3
    <3> QED BY <3>1, <3>2, <3>3
  <2> QED BY <2>1 DEF Placed
<1>9. ASSUME NEW q \in Paths, q \notin From[dest], q \notin From[p], Placed(u, q)
      PROVE  Placed(v, q)
  <2>1. ASSUME NEW r \in Above[q] PROVE v[r] = "dir"
    <3>1. r \in Paths /\ u[r] = "dir" BY <1>9, <2>1, Subsets DEF Placed
    <3>2. ASSUME NEW x \in Paths, r \in From[x] PROVE q \in From[x]
      <4>1. r = x \/ x \in Above[r] BY <3>1, <3>2, Subsets, AboveIsOrder
      <4>2. q \in Below[r] BY <3>1, <2>1, AboveIsOrder
      <4>3. q \in Below[x] BY <3>1, <4>1, <4>2, AboveIsOrder
      <4> QED BY <4>3, Subsets
    <3>3. r \notin From[p] /\ r \notin From[dest] BY <3>2, <1>9
    <3> QED BY <3>1, <3>3, <1>3
  <2> QED BY <2>1 DEF Placed
<1>10. ASSUME NEW q \in Paths, v[q] # "absent" \/ q \in ns PROVE Placed(v, q)
  <2>1. CASE v[q] # "absent"
    <3>1. CASE q \in From[dest]
      <4>1. Rebase(q, dest, p) \in Paths /\ u[Rebase(q, dest, p)] # "absent"
        BY <2>1, <3>1, <1>3
      <4> QED BY <3>1, <4>1, <1>8
    <3>2. CASE q \notin From[dest]
      <4>1. q \notin From[p] /\ u[q] # "absent" BY <2>1, <3>2, <1>3
      <4> QED BY <3>2, <4>1, <1>9 DEF Tree
    <3> QED BY <3>1, <3>2
  <2>2. CASE q \in Below[dest] /\ Rebase(q, dest, p) \in ms
    BY <2>2, <1>8, Subsets
  <2>3. CASE q \in ms /\ q \notin Below[p]
    <3>1. Placed(u, q) BY <2>3 DEF Tree
    <3>2. CASE q = dest BY <3>2, <1>7
    <3>3. CASE q = p
      BY <3>1, <3>3, <1>6 DEF Placed
    <3>4. CASE q # dest /\ q # p
      <4>1. q \notin From[p] BY <2>3, <3>4, Subsets
      <4>2. q \notin From[dest] BY <2>3, <3>4, <1>4, Subsets
      <4> QED BY <3>1, <4>1, <4>2, <1>9
    <3> QED BY <3>2, <3>3, <3>4
  <2> QED BY <1>10, <2>1, <2>2, <2>3
<1>11. ASSUME \A q \in ms : u[q] = "absent", dest \notin ms, NEW q \in ns PROVE v[q] = "absent"
  <2>1. CASE q \in ms
    <3>1. q \notin From[dest] BY <2>1, <1>4, <1>11, Subsets
    <3> QED BY <2>1, <3>1, <1>3, <1>11
  <2>2. CASE q \in Below[dest] /\ Rebase(q, dest, p) \in ms
    <3>1. q \in Paths /\ q \in From[dest] BY <2>2, Subsets
    <3> QED BY <2>2, <3>1, <1>3, <1>11
  <2> QED BY <1>11, <2>1, <2>2
<1> QED BY <1>1, <1>2, <1>5, <1>10, <1>11 DEF Tree

-----------------------------------------------------------------------------
(* Overlay: what is left of a plan once its first step was taken           *)

\* What is left of a plan after its first step.
LEMMA TailFacts ==
  ASSUME NEW s \in Seq(Steps), s # <<>>
  PROVE  /\ Tail(s) \in Seq(Steps) /\ Len(s) \in Nat /\ Len(s) > 0 /\ Len(Tail(s)) = Len(s) - 1
         /\ DOMAIN s = 1 .. Len(s) /\ DOMAIN Tail(s) = 1 .. Len(s) - 1
         /\ \A i \in 1 .. Len(s) - 1 : Tail(s)[i] = s[i + 1]
         /\ 1 \in DOMAIN s /\ s[1] = Head(s) /\ s[1] \in Steps /\ Head(s) \in Steps
         /\ Tail(s) = <<>> <=> Len(s) = 1
<1>1. Len(s) \in Nat /\ Len(s) > 0 /\ DOMAIN s = 1 .. Len(s)
  BY SMTT(20)
<1>2. Tail(s) \in Seq(Steps) /\ Len(Tail(s)) = Len(s) - 1
  BY SMTT(20)
<1>3. DOMAIN Tail(s) = 1 .. Len(s) - 1
  BY <1>2
<1>4. \A i \in 1 .. Len(s) - 1 : Tail(s)[i] = s[i + 1]
  BY SMTT(20)
<1>5. 1 \in DOMAIN s /\ s[1] = Head(s) /\ s[1] \in Steps
  BY <1>1
<1>6. Tail(s) = <<>> <=> Len(Tail(s)) = 0
  BY <1>2, EmptySeq
<1> QED BY <1>1, <1>2, <1>3, <1>4, <1>5, <1>6

\* The places of a plan without its first step.
LEMMA TailPlaces ==
  ASSUME NEW s \in Seq(Steps), s # <<>>
  PROVE  /\ \A i \in DOMAIN Tail(s) : i + 1 \in DOMAIN s /\ i + 1 > 1 /\ Tail(s)[i] = s[i + 1] /\ i \in Nat
         /\ \A j \in DOMAIN s : j = 1 \/ (j - 1 \in DOMAIN Tail(s) /\ Tail(s)[j - 1] = s[j])
         /\ \A j \in DOMAIN s : j \in Nat /\ j >= 1 /\ (j - 1) + 1 = j
<1>1. /\ Len(s) \in Nat /\ Len(s) > 0 /\ DOMAIN s = 1 .. Len(s) /\ DOMAIN Tail(s) = 1 .. Len(s) - 1
      /\ \A i \in 1 .. Len(s) - 1 : Tail(s)[i] = s[i + 1]
  BY TailFacts
<1>2. ASSUME NEW j \in DOMAIN s PROVE j = 1 \/ (j - 1 \in DOMAIN Tail(s) /\ Tail(s)[j - 1] = s[j])
  <2>1. j = 1 \/ (j - 1 \in 1 .. Len(s) - 1 /\ (j - 1) + 1 = j) BY <1>1
  <2> QED BY <1>1, <2>1
<1>3. ASSUME NEW i \in DOMAIN Tail(s)
      PROVE  i + 1 \in DOMAIN s /\ i + 1 > 1 /\ Tail(s)[i] = s[i + 1] /\ i \in Nat
  BY <1>1
<1>4. ASSUME NEW j \in DOMAIN s PROVE j \in Nat /\ j >= 1 /\ (j - 1) + 1 = j
  BY <1>1
<1> QED BY <1>2, <1>3, <1>4

\* After a step that keeps directories or makes its own, the rest of the plan has its directories.
LEMMA ReadyGoesOn ==
  ASSUME NEW s \in Seq(Steps), s # <<>>, NEW u, NEW v, Ready(u, s),
         s[1].do \notin Emptying => \A p \in Paths : Placed(u, p) => Placed(v, p),
         s[1].do = "parents" => Placed(v, s[1].path),
         s[1].do = "mkdir" =>
           \A p \in Paths : Len(p) > 1 /\ Parent(p) = s[1].path => Placed(v, p)
  PROVE  Ready(v, Tail(s))
<1>1. ASSUME NEW i \in DOMAIN Tail(s), Tail(s)[i].do \in Building
      PROVE  /\ \A j \in DOMAIN Tail(s) : j < i => Tail(s)[j].do \notin Emptying
             /\ \/ Placed(v, Target(Tail(s)[i]))
                \/ \E j \in DOMAIN Tail(s) :
                     j < i /\ Tail(s)[j].do = "parents" /\ Tail(s)[j].path = Target(Tail(s)[i])
                \/ \E j \in DOMAIN Tail(s) :
                     /\ j < i /\ Tail(s)[j].do = "mkdir"
                     /\ Len(Target(Tail(s)[i])) > 1 /\ Tail(s)[j].path = Parent(Target(Tail(s)[i]))
  <2>1. i + 1 \in DOMAIN s /\ i + 1 > 1 /\ Tail(s)[i] = s[i + 1] /\ i \in Nat
    BY TailPlaces
  <2> DEFINE t == Target(s[i + 1])
  <2>2. t \in Paths
    <3>1. s[i + 1] \in Steps BY <2>1
    <3> QED BY <3>1 DEF Steps, Entries, Target
  <2>3. /\ \A j \in DOMAIN s : j < i + 1 => s[j].do \notin Emptying
        /\ \/ Placed(u, t)
           \/ \E j \in DOMAIN s : j < i + 1 /\ s[j].do = "parents" /\ s[j].path = t
           \/ \E j \in DOMAIN s : /\ j < i + 1 /\ s[j].do = "mkdir"
                                  /\ Len(t) > 1 /\ s[j].path = Parent(t)
    <3>1. s[i + 1].do \in Building BY <1>1, <2>1
    <3> QED BY <3>1, <2>1 DEF Ready
  <2> HIDE DEF t
  <2>4. 1 \in DOMAIN s /\ 1 < i + 1
    BY <2>1, TailFacts
  <2>5. s[1].do \notin Emptying
    BY <2>3, <2>4
  <2>6. \A j \in DOMAIN Tail(s) : j < i => Tail(s)[j].do \notin Emptying
    <3>1. SUFFICES ASSUME NEW j \in DOMAIN Tail(s), j < i PROVE Tail(s)[j].do \notin Emptying
      OBVIOUS
    <3>2. j + 1 \in DOMAIN s /\ Tail(s)[j] = s[j + 1] /\ j + 1 < i + 1 BY <3>1, <2>1, TailPlaces
    <3> QED BY <3>2, <2>3
  <2>7. ASSUME NEW j \in DOMAIN s, j < i + 1
        PROVE  j = 1 \/ (j - 1 \in DOMAIN Tail(s) /\ Tail(s)[j - 1] = s[j] /\ j - 1 < i)
    BY <2>1, <2>7, TailPlaces
  <2>8. CASE Placed(u, t)
    BY <2>8, <2>5, <2>6, <2>1, <2>2 DEF t
  <2>9. ASSUME NEW j \in DOMAIN s, j < i + 1, s[j].do = "parents", s[j].path = t
        PROVE  \/ Placed(v, t)
               \/ \E k \in DOMAIN Tail(s) : k < i /\ Tail(s)[k].do = "parents" /\ Tail(s)[k].path = t
    BY <2>7, <2>9
  <2>10. ASSUME NEW j \in DOMAIN s, j < i + 1, s[j].do = "mkdir", Len(t) > 1, s[j].path = Parent(t)
        PROVE  \/ Placed(v, t)
               \/ \E k \in DOMAIN Tail(s) : k < i /\ Tail(s)[k].do = "mkdir" /\ Tail(s)[k].path = Parent(t)
    BY <2>7, <2>10, <2>2
  <2>11. t = Target(Tail(s)[i])
    BY <2>1 DEF t
  <2> QED BY <2>3, <2>6, <2>8, <2>9, <2>10, <2>11
<1> QED BY <1>1 DEF Ready

\* The rest of a plan still ends with making its directory, or has made an empty one.
LEMMA MakesLastGoesOn ==
  ASSUME NEW s \in Seq(Steps), s # <<>>, NEW u, NEW ms, NEW v, NEW ns, MakesLast(u, ms, s),
         s[1].do = "mkdir" => \A q \in Below[s[1].path] : v[q] = "absent" /\ q \notin ns
  PROVE  MakesLast(v, ns, Tail(s))
<1> DEFINE t == Tail(s)
           n == Len(s)
<1>1. SUFFICES ASSUME t # <<>>, t[Len(t)].entry.kind = "mkdir"
      PROVE  LET p == t[Len(t)].entry.path
             IN /\ t[Len(t)].do = "commit"
                /\ \/ Len(t) >= 2 /\ t[Len(t) - 1].do = "mkdir" /\ t[Len(t) - 1].path = p
                   \/ Len(t) = 1 /\ \A q \in Below[p] : v[q] = "absent" /\ q \notin ns
  BY DEF MakesLast
<1>2. /\ n \in Nat /\ n >= 2 /\ Len(t) = n - 1
      /\ \A i \in 1 .. n - 1 : t[i] = s[i + 1]
  BY <1>1, TailFacts
<1>3. t[Len(t)] = s[n]
  BY <1>2
<1>4. s[n].do = "commit" /\ s[n - 1].do = "mkdir" /\ s[n - 1].path = s[n].entry.path
  BY <1>1, <1>2, <1>3 DEF MakesLast
<1>5. CASE n >= 3
  <2>1. t[n - 2] = s[n - 1] /\ Len(t) - 1 = n - 2 /\ Len(t) >= 2 BY <1>2, <1>5
  <2> HIDE DEF t, n
  <2> QED BY <2>1, <1>3, <1>4
<1>6. CASE n = 2
  <2>1. s[n - 1] = s[1] /\ Len(t) = 1 BY <1>2, <1>6
  <2> HIDE DEF t, n
  <2> QED BY <2>1, <1>3, <1>4
<1> QED BY <1>2, <1>5, <1>6

\* The rest of a plan still builds on names without a marker.
LEMMA UnmarksGoesOn ==
  ASSUME NEW s \in Seq(Steps), s # <<>>, NEW ms, NEW ns, Unmarks(ms, s),
         s[1].do = "clear" => s[1].path \notin ns,
         \/ ns \subseteq ms
         \/ \A i \in DOMAIN s : i > 1 => s[i].do \notin Building
  PROVE  Unmarks(ns, Tail(s))
<1>1. ASSUME NEW i \in DOMAIN Tail(s), Tail(s)[i].do \in Building
      PROVE  \/ Target(Tail(s)[i]) \notin ns
             \/ \E j \in DOMAIN Tail(s) :
                  j < i /\ Tail(s)[j].do = "clear" /\ Tail(s)[j].path = Target(Tail(s)[i])
  <2>1. i + 1 \in DOMAIN s /\ i + 1 > 1 /\ Tail(s)[i] = s[i + 1] /\ i \in Nat
    BY TailPlaces
  <2>2. ns \subseteq ms
    BY <1>1, <2>1
  <2>3. \/ Target(s[i + 1]) \notin ms
        \/ \E j \in DOMAIN s : j < i + 1 /\ s[j].do = "clear" /\ s[j].path = Target(s[i + 1])
    BY <1>1, <2>1 DEF Unmarks
  <2>4. ASSUME NEW j \in DOMAIN s, j < i + 1, s[j].do = "clear", s[j].path = Target(s[i + 1]), j # 1
        PROVE  \E k \in DOMAIN Tail(s) :
                 k < i /\ Tail(s)[k].do = "clear" /\ Tail(s)[k].path = Target(s[i + 1])
    <3>1. j - 1 \in DOMAIN Tail(s) /\ Tail(s)[j - 1] = s[j] /\ j - 1 < i
      BY <2>1, <2>4, TailPlaces
    <3> QED BY <3>1, <2>4
  <2> QED BY <2>1, <2>2, <2>3, <2>4
<1> QED BY <1>1 DEF Unmarks

\* The rest of a plan still marks only what is gone.
LEMMA MarksLastGoesOn ==
  ASSUME NEW s \in Seq(Steps), s # <<>>, NEW u, NEW v, MarksLast(u, s),
         s[1].do \in {"remove", "move"} => v[s[1].path] = "absent",
         s[1].do \in {"parents", "begin"} => v[s[1].path] = u[s[1].path]
  PROVE  MarksLast(v, Tail(s))
<1> DEFINE t == Tail(s)
<1>1. ASSUME NEW i \in DOMAIN t, t[i].do = "mark"
      PROVE  /\ \A j \in DOMAIN t : j > i => t[j].do = "commit"
             /\ \/ i > 1 /\ t[i - 1].do \in {"remove", "move"} /\ t[i - 1].path = t[i].path
                \/ /\ v[t[i].path] = "absent"
                   /\ \A j \in DOMAIN t : j < i => t[j].do \in {"parents", "begin"} /\ t[j].path = t[i].path
  <2>1. i + 1 \in DOMAIN s /\ i + 1 > 1 /\ t[i] = s[i + 1] /\ i \in Nat
    BY TailPlaces
  <2>2. /\ \A j \in DOMAIN s : j > i + 1 => s[j].do = "commit"
        /\ \/ s[i].do \in {"remove", "move"} /\ s[i].path = s[i + 1].path
           \/ /\ u[s[i + 1].path] = "absent"
              /\ \A j \in DOMAIN s : j < i + 1 => s[j].do \in {"parents", "begin"} /\ s[j].path = s[i + 1].path
    <3>1. (i + 1) - 1 = i BY <2>1
    <3> QED BY <1>1, <2>1, <3>1 DEF MarksLast
  <2>3. ASSUME NEW j \in DOMAIN t PROVE j + 1 \in DOMAIN s /\ t[j] = s[j + 1] /\ j \in Nat
    BY <2>3, TailPlaces
  <2>4. ASSUME NEW j \in DOMAIN t, j > i PROVE t[j].do = "commit"
    <3>1. j + 1 > i + 1 BY <2>1, <2>3, <2>4
    <3> QED BY <3>1, <2>2, <2>3, <2>4
  <2>5. CASE s[i].do \in {"remove", "move"} /\ s[i].path = s[i + 1].path
    <3>1. i \in DOMAIN s /\ (i = 1 \/ (i > 1 /\ t[i - 1] = s[i]))
      <4>1. i \in DOMAIN s BY TailFacts
      <4> QED BY <4>1, <2>1, TailPlaces
    <3>2. CASE i = 1
      <4>1. v[t[i].path] = "absent" BY <3>2, <2>1, <2>5
      <4>2. \A j \in DOMAIN t : ~(j < i) BY <3>2, <2>3, TailFacts
      <4> QED BY <4>1, <4>2, <2>4
    <3>3. CASE i > 1 /\ t[i - 1] = s[i]
      BY <3>3, <2>1, <2>4, <2>5
    <3> QED BY <3>1, <3>2, <3>3
  <2>6. CASE /\ u[s[i + 1].path] = "absent"
             /\ \A j \in DOMAIN s : j < i + 1 => s[j].do \in {"parents", "begin"} /\ s[j].path = s[i + 1].path
    <3>1. s[1].do \in {"parents", "begin"} /\ s[1].path = s[i + 1].path
      <4>1. 1 \in DOMAIN s /\ 1 < i + 1 BY <2>1, TailFacts
      <4> QED BY <4>1, <2>6
    <3>2. v[t[i].path] = "absent" BY <3>1, <2>1, <2>6
    <3>3. ASSUME NEW j \in DOMAIN t, j < i PROVE t[j].do \in {"parents", "begin"} /\ t[j].path = t[i].path
      <4>1. j + 1 \in DOMAIN s /\ t[j] = s[j + 1] /\ j + 1 < i + 1 BY <2>1, <2>3, <3>3
      <4> QED BY <4>1, <2>1, <2>6
    <3> QED BY <3>2, <3>3, <2>4
  <2> QED BY <2>2, <2>5, <2>6
<1> QED BY <1>1 DEF MarksLast

\* The rest of a plan still commits each record once and after its begin.
LEMMA PairedGoesOn ==
  ASSUME NEW s \in Seq(Steps), s # <<>>, Paired(s)
  PROVE  Paired(Tail(s))
<1>1. ASSUME NEW i \in DOMAIN Tail(s), NEW j \in DOMAIN Tail(s)
      PROVE  /\ i + 1 \in DOMAIN s /\ Tail(s)[i] = s[i + 1] /\ j + 1 \in DOMAIN s /\ Tail(s)[j] = s[j + 1]
             /\ (i < j <=> i + 1 < j + 1) /\ (i # j <=> i + 1 # j + 1)
  BY <1>1, TailPlaces
<1> QED BY <1>1 DEF Paired

\* The renames in the rest of a plan are between names that do not contain each other.
LEMMA ShapedGoesOn ==
  ASSUME NEW s \in Seq(Steps), s # <<>>, Shaped(s)
  PROVE  Shaped(Tail(s))
<1>1. ASSUME NEW i \in DOMAIN Tail(s) PROVE i + 1 \in DOMAIN s /\ Tail(s)[i] = s[i + 1]
  BY <1>1, TailPlaces
<1> QED BY <1>1 DEF Shaped

-----------------------------------------------------------------------------
(* Overlay: the journal                                                    *)

\* A set of places has a last one.
LEMMA Greatest ==
  ASSUME NEW n \in Nat, NEW T \in SUBSET (1 .. n), T # {}
  PROVE  \E i \in T : \A j \in T : j <= i
<1> DEFINE R == {n - i : i \in T}
<1>1. R \in SUBSET Nat /\ R # {}
  <2>1. \A i \in T : n - i \in Nat OBVIOUS
  <2> QED BY <2>1
<1>2. PICK m \in R : \A k \in R : m <= k
  <2> HIDE DEF R
  <2> QED BY <1>1, Least
<1>3. PICK i \in T : m = n - i
  OBVIOUS
<1>4. ASSUME NEW j \in T PROVE j <= i
  <2>1. n - j \in R OBVIOUS
  <2>2. n - i <= n - j BY <2>1, <1>2, <1>3
  <2>3. i \in 1 .. n /\ j \in 1 .. n OBVIOUS
  <2> QED BY <2>2, <2>3
<1> QED BY <1>4

\* s without its l-th element.
LEMMA RemovedByPlace ==
  ASSUME NEW s \in Seq(Entries), NEW l \in 1 .. Len(s), NEW r, r = RemoveAt(s, l)
  PROVE  /\ r \in Seq(Entries) /\ Len(r) = Len(s) - 1 /\ Len(s) \in Nat
         /\ \A i \in 1 .. Len(s) - 1 : r[i] = IF i < l THEN s[i] ELSE s[i + 1]
<1> DEFINE a == SubSeq(s, 1, l - 1)
           b == SubSeq(s, l + 1, Len(s))
<1>1. Len(s) \in Nat /\ l \in Nat /\ 1 <= l /\ l <= Len(s)
  OBVIOUS
<1>2. a \in Seq(Entries) /\ Len(a) = l - 1 /\ \A i \in 1 .. l - 1 : a[i] = s[i]
  BY <1>1
<1>3. b \in Seq(Entries) /\ Len(b) = Len(s) - l /\ \A i \in 1 .. Len(s) - l : b[i] = s[l + i]
  BY <1>1
<1>4. r = a \o b
  BY DEF RemoveAt
<1> HIDE DEF a, b
<1>5. /\ a \o b \in Seq(Entries) /\ Len(a \o b) = Len(a) + Len(b)
      /\ \A i \in 1 .. Len(a) + Len(b) : (a \o b)[i] = IF i <= Len(a) THEN a[i] ELSE b[i - Len(a)]
  BY <1>2, <1>3, ConcatProperties, Zenon
<1>6. /\ r \in Seq(Entries) /\ Len(r) = Len(a) + Len(b)
      /\ \A i \in 1 .. Len(a) + Len(b) : r[i] = IF i <= Len(a) THEN a[i] ELSE b[i - Len(a)]
  BY <1>4, <1>5
<1>7. Len(a) + Len(b) = Len(s) - 1
  BY <1>1, <1>2, <1>3
<1>8. ASSUME NEW i \in 1 .. Len(s) - 1 PROVE r[i] = IF i < l THEN s[i] ELSE s[i + 1]
  <2>1. CASE i < l
    <3>1. i <= Len(a) /\ i \in 1 .. l - 1 BY <2>1, <1>1, <1>2
    <3> QED BY <3>1, <2>1, <1>2, <1>6, <1>7
  <2>2. CASE ~(i < l)
    <3>1. ~(i <= Len(a)) /\ i - Len(a) \in 1 .. Len(s) - l /\ l + (i - Len(a)) = i + 1
      BY <2>2, <1>1, <1>2
    <3> QED BY <3>1, <2>2, <1>3, <1>6, <1>7
  <2> QED BY <2>1, <2>2
<1> QED BY <1>1, <1>6, <1>7, <1>8

\* What the journal is after a record of the kind and path of e is taken away.
LEMMA ResolvedPlaces ==
  ASSUME NEW e, pending \in Seq(Entries)
  PROVE  \/ /\ Resolved(e) = pending
            /\ \A i \in DOMAIN pending : ~(pending[i].kind = e.kind /\ pending[i].path = e.path)
         \/ \E l \in DOMAIN pending :
              /\ pending[l].kind = e.kind /\ pending[l].path = e.path
              /\ Resolved(e) = RemoveAt(pending, l)
<1> DEFINE same == {i \in DOMAIN pending : pending[i].kind = e.kind /\ pending[i].path = e.path}
           last == CHOOSE i \in same : \A j \in same : j <= i
<1>1. Resolved(e) = IF same = {} THEN pending ELSE RemoveAt(pending, last)
  BY DEF Resolved
<1>2. CASE same = {}
  BY <1>1, <1>2
<1>3. CASE same # {}
  <2>1. same \in SUBSET (1 .. Len(pending)) /\ Len(pending) \in Nat
    OBVIOUS
  <2>2. \E i \in same : \A j \in same : j <= i
    <3> HIDE DEF same
    <3> QED BY <1>3, <2>1, Greatest
  <2>3. last \in same
    <3> HIDE DEF same
    <3> QED BY <2>2
  <2> HIDE DEF last
  <2> QED BY <1>1, <1>3, <2>3
<1> QED BY <1>2, <1>3

\* Resolving a record drops those of its kind and path from the journal and keeps the others.
LEMMA ResolvedKeeps ==
  ASSUME NEW e, pending \in Seq(Entries)
  PROVE  /\ Resolved(e) \in Seq(Entries)
         /\ \A i \in DOMAIN Resolved(e) : \E k \in DOMAIN pending : pending[k] = Resolved(e)[i]
         /\ \A k \in DOMAIN pending :
              ~(pending[k].kind = e.kind /\ pending[k].path = e.path)
              => \E i \in DOMAIN Resolved(e) : Resolved(e)[i] = pending[k]
<1>1. PICK r : r = Resolved(e)
  OBVIOUS
<1>2. CASE r = pending
  BY <1>1, <1>2
<1>3. CASE \E l \in DOMAIN pending :
             /\ pending[l].kind = e.kind /\ pending[l].path = e.path
             /\ r = RemoveAt(pending, l)
  <2>1. PICK l \in 1 .. Len(pending) :
             /\ pending[l].kind = e.kind /\ pending[l].path = e.path
             /\ r = RemoveAt(pending, l)
    BY <1>3
  <2>2. /\ r \in Seq(Entries) /\ Len(r) = Len(pending) - 1 /\ Len(pending) \in Nat
        /\ \A i \in 1 .. Len(pending) - 1 : r[i] = IF i < l THEN pending[i] ELSE pending[i + 1]
    BY <2>1, RemovedByPlace
  <2>3. ASSUME NEW i \in DOMAIN r PROVE \E k \in DOMAIN pending : pending[k] = r[i]
    <3>1. i \in 1 .. Len(pending) - 1 BY <2>2
    <3>2. i \in DOMAIN pending /\ i + 1 \in DOMAIN pending BY <3>1, <2>2
    <3> QED BY <3>1, <3>2, <2>2
  <2>4. ASSUME NEW k \in DOMAIN pending, ~(pending[k].kind = e.kind /\ pending[k].path = e.path)
        PROVE  \E i \in DOMAIN r : r[i] = pending[k]
    <3>1. k # l /\ k \in 1 .. Len(pending) BY <2>1, <2>4
    <3>2. DOMAIN r = 1 .. Len(pending) - 1 BY <2>2
    <3>3. CASE k < l
      <4>1. k \in 1 .. Len(pending) - 1 BY <3>1, <3>3, <2>2
      <4> QED BY <4>1, <3>2, <3>3, <2>2
    <3>4. CASE k > l
      <4>1. k - 1 \in 1 .. Len(pending) - 1 /\ ~(k - 1 < l) /\ (k - 1) + 1 = k BY <3>1, <3>4, <2>2
      <4> QED BY <4>1, <3>2, <2>2
    <3> QED BY <3>1, <3>3, <3>4
  <2> QED BY <1>1, <2>2, <2>3, <2>4
<1> QED BY <1>1, <1>2, <1>3, ResolvedPlaces

\* A journal of different records, all in B, was one of different records, all
\* in B but for e, before e was taken away.
LEMMA ResolvedWasClean ==
  ASSUME NEW e, pending \in Seq(Entries), NEW B, e \notin B,
         \E k \in DOMAIN pending : pending[k] = e,
         \A i \in DOMAIN Resolved(e) :
           Resolved(e)[i] \in B /\ \A j \in DOMAIN Resolved(e) : Resolved(e)[i] = Resolved(e)[j] => i = j
  PROVE  \A i \in DOMAIN pending :
           pending[i] \in B \union {e} /\ \A j \in DOMAIN pending : pending[i] = pending[j] => i = j
<1>1. PICK r : r = Resolved(e)
  OBVIOUS
<1>2. PICK l \in 1 .. Len(pending) : r = RemoveAt(pending, l)
  <2>1. \E l \in DOMAIN pending : r = RemoveAt(pending, l)
    BY <1>1, ResolvedPlaces
  <2> QED BY <2>1
<1>3. /\ r \in Seq(Entries) /\ Len(r) = Len(pending) - 1 /\ Len(pending) \in Nat
      /\ \A i \in 1 .. Len(pending) - 1 : r[i] = IF i < l THEN pending[i] ELSE pending[i + 1]
  <2>1. r = RemoveAt(pending, l) BY <1>2
  <2>2. pending \in Seq(Entries) OBVIOUS
  <2> QED BY ONLY <2>1, <2>2, l \in 1 .. Len(pending), RemovedByPlace, Zenon
<1> DEFINE At(k) == IF k < l THEN k ELSE k - 1
<1>4. ASSUME NEW k \in DOMAIN pending, k # l
      PROVE  At(k) \in DOMAIN r /\ r[At(k)] = pending[k]
  <2>1. CASE k < l
    <3>1. k \in 1 .. Len(pending) - 1 BY <2>1, <1>3
    <3> QED BY <3>1, <2>1, <1>3
  <2>2. CASE k > l
    <3>1. k - 1 \in 1 .. Len(pending) - 1 /\ ~(k - 1 < l) /\ (k - 1) + 1 = k /\ ~(k < l) BY <2>2, <1>3
    <3> QED BY <3>1, <1>3
  <2> QED BY <1>3, <1>4, <2>1, <2>2
<1>5. \A i \in DOMAIN r : r[i] \in B /\ \A j \in DOMAIN r : r[i] = r[j] => i = j
  BY <1>1
<1>6. ASSUME NEW k \in DOMAIN pending, k # l PROVE pending[k] \in B
  BY <1>4, <1>5, <1>6
<1>7. pending[l] = e
  BY <1>6
<1>8. ASSUME NEW i \in DOMAIN pending, NEW j \in DOMAIN pending, pending[i] = pending[j] PROVE i = j
  <2>1. CASE i = l \/ j = l
    BY <2>1, <1>6, <1>7, <1>8
  <2>2. CASE i # l /\ j # l
    <3>1. r[At(i)] = r[At(j)] /\ At(i) \in DOMAIN r /\ At(j) \in DOMAIN r BY <2>2, <1>4, <1>8
    <3>2. At(i) = At(j)
      <4> HIDE DEF At
      <4> QED BY <3>1, <1>5
    <3>3. i \in Nat /\ j \in Nat /\ l \in Nat BY <1>3
    <3> QED BY <2>2, <3>2, <3>3
  <2> QED BY <2>1, <2>2
<1> QED BY <1>6, <1>7, <1>8

\* What a step does to the records that wait for their commit: a begin adds its own, a
\* commit takes its own and all of that kind and path away, others change nothing.
LEMMA UnfinishedAfter ==
  ASSUME todo \in Seq(Steps), todo # <<>>, todo' = Tail(todo), NEW e \in Entries
  PROVE  /\ todo[1].do \notin {"begin", "commit"} => (Unfinished(todo', e) <=> Unfinished(todo, e))
         /\ todo[1].do = "begin" => (Unfinished(todo', e) => Unfinished(todo, e) \/ e = todo[1].entry)
         /\ todo[1].do = "commit" /\ Paired(todo) =>
              /\ Unfinished(todo, todo[1].entry)
              /\ Unfinished(todo', e) => /\ Unfinished(todo, e)
                              /\ ~(e.kind = todo[1].entry.kind /\ e.path = todo[1].entry.path)
<1>1. PICK t : t = Tail(todo)
  OBVIOUS
<1>2. /\ \A i \in DOMAIN t : i + 1 \in DOMAIN todo /\ i + 1 > 1 /\ t[i] = todo[i + 1]
      /\ \A j \in DOMAIN todo : j = 1 \/ (j - 1 \in DOMAIN t /\ t[j - 1] = todo[j])
      /\ 1 \in DOMAIN todo
  BY <1>1, TailPlaces, TailFacts
<1> DEFINE Has(name, x) == \E i \in DOMAIN todo : todo[i].do = name /\ todo[i].entry = x
           Left(name, x) == \E i \in DOMAIN t : t[i].do = name /\ t[i].entry = x
<1>3. Unfinished(todo, e) <=> Has("commit", e) /\ ~Has("begin", e)
  BY DEF Unfinished
<1>4. Unfinished(todo', e) <=> Left("commit", e) /\ ~Left("begin", e)
  BY <1>1 DEF Unfinished
<1>5. ASSUME NEW name PROVE Has(name, e) <=> Left(name, e) \/ (todo[1].do = name /\ todo[1].entry = e)
  BY <1>2
<1>6. Has("commit", e) <=> Left("commit", e) \/ (todo[1].do = "commit" /\ todo[1].entry = e)
  BY <1>5
<1>7. Has("begin", e) <=> Left("begin", e) \/ (todo[1].do = "begin" /\ todo[1].entry = e)
  BY <1>5
<1>8. CASE todo[1].do \notin {"begin", "commit"}
  <2> HIDE DEF Has, Left
  <2> QED BY <1>3, <1>4, <1>6, <1>7, <1>8
<1>9. CASE todo[1].do = "begin"
  <2> HIDE DEF Has, Left
  <2> QED BY <1>3, <1>4, <1>6, <1>7, <1>9
<1>10. CASE todo[1].do = "commit" /\ Paired(todo)
  <2>1. Unfinished(todo, todo[1].entry)
    <3>1. ASSUME NEW i \in DOMAIN todo, todo[i].do = "begin", todo[i].entry = todo[1].entry PROVE FALSE
      <4>1. i < 1 BY <1>2, <1>10, <3>1 DEF Paired
      <4> QED BY <4>1, TailPlaces
    <3> QED BY <3>1, <1>2, <1>10 DEF Unfinished
  <2>2. ASSUME Unfinished(todo', e) PROVE Unfinished(todo, e)
    <3> HIDE DEF Has, Left
    <3> QED BY <1>3, <1>4, <1>6, <1>7, <1>10, <2>2
  <2>3. ASSUME Unfinished(todo', e), e.kind = todo[1].entry.kind, e.path = todo[1].entry.path PROVE FALSE
    <3>1. PICK i \in DOMAIN t : t[i].do = "commit" /\ t[i].entry = e
      BY <1>4, <2>3
    <3>2. i + 1 \in DOMAIN todo /\ i + 1 # 1 /\ todo[i + 1].do = "commit" /\ todo[i + 1].entry = e
      BY <3>1, <1>2
    <3> QED BY <3>2, <1>2, <1>10, <2>3 DEF Paired
  <2> QED BY <1>10, <2>1, <2>2, <2>3
<1> QED BY <1>8, <1>9, <1>10

\* A step that is not of the journal leaves the journal as clean as it is.
LEMMA PlainStep ==
  ASSUME todo \in Seq(Steps), todo # <<>>, todo' = Tail(todo), pending \in Seq(Entries),
         todo[1].do \notin {"begin", "commit"}, pending' = pending, Recorded
  PROVE  Recorded' /\ (Clean' => Clean)
<1>1. \A e \in Entries : Unfinished(todo', e) <=> Unfinished(todo, e)
  BY UnfinishedAfter
<1>2. Recorded'
  <2>1. SUFFICES ASSUME NEW e \in Entries, Unfinished(todo', e) PROVE \E i \in DOMAIN pending : pending[i] = e
    BY DEF Recorded
  <2> QED BY <1>1, <2>1 DEF Recorded
<1>3. ASSUME Clean' PROVE Clean
  <2>1. \A i \in DOMAIN pending : pending[i] \in Entries
    OBVIOUS
  <2>2. \A i \in DOMAIN pending :
          Unfinished(todo', pending[i]) /\ \A j \in DOMAIN pending : pending[i] = pending[j] => i = j
    BY <1>3 DEF Clean
  <2> QED BY <1>1, <2>1, <2>2 DEF Clean
<1> QED BY <1>2, <1>3

\* A begin enters the journal the moment its commit starts to wait.
LEMMA BeginStep ==
  ASSUME todo \in Seq(Steps), todo # <<>>, todo' = Tail(todo), pending \in Seq(Entries),
         todo[1].do = "begin", pending' = Append(pending, todo[1].entry), Recorded
  PROVE  Recorded' /\ (Clean' => Clean)
<1>1. PICK e \in Entries : e = todo[1].entry
  <2>1. todo[1] \in Steps BY TailFacts
  <2> QED BY <2>1 DEF Steps
<1>2. \A x \in Entries : Unfinished(todo', x) => Unfinished(todo, x) \/ x = e
  BY <1>1, UnfinishedAfter
<1>3. PICK n \in Nat : n = Len(pending)
  OBVIOUS
<1>4. DOMAIN pending = 1 .. n /\ DOMAIN pending' = 1 .. n + 1 /\ pending'[n + 1] = e
      /\ \A i \in 1 .. n : pending'[i] = pending[i] /\ pending[i] \in Entries
  BY <1>1, <1>3
<1>5. Recorded'
  <2>1. SUFFICES ASSUME NEW x \in Entries, Unfinished(todo', x) PROVE \E i \in 1 .. n + 1 : pending'[i] = x
    BY <1>4 DEF Recorded
  <2>2. CASE x = e BY <2>2, <1>4
  <2>3. CASE Unfinished(todo, x)
    <3>1. PICK i \in 1 .. n : pending[i] = x BY <2>3, <1>4 DEF Recorded
    <3>2. i \in 1 .. n + 1 /\ pending'[i] = x BY <3>1, <1>4
    <3> QED BY <3>2
  <2> QED BY <1>2, <2>1, <2>2, <2>3
<1>6. ASSUME Clean' PROVE Clean
  <2>1. \A i \in 1 .. n + 1 : /\ Unfinished(todo', pending'[i])
                              /\ \A j \in 1 .. n + 1 : pending'[i] = pending'[j] => i = j
    BY <1>4, <1>6 DEF Clean
  <2>2. ASSUME NEW i \in 1 .. n PROVE Unfinished(todo, pending[i]) /\ \A j \in 1 .. n : pending[i] = pending[j] => i = j
    <3>1. i \in 1 .. n + 1 /\ n + 1 \in 1 .. n + 1 /\ i # n + 1 /\ pending'[i] = pending[i]
          /\ pending[i] \in Entries
      BY <1>4
    <3>2. pending[i] # e BY <3>1, <2>1, <1>4
    <3>3. Unfinished(todo, pending[i])
      <4>1. Unfinished(todo', pending'[i]) BY <2>1, <3>1
      <4>2. PICK x \in Entries : x = pending[i] BY <3>1
      <4>3. Unfinished(todo', x) BY <4>1, <4>2, <3>1 DEF Unfinished
      <4> QED BY <1>2, <3>2, <4>2, <4>3
    <3>4. ASSUME NEW j \in 1 .. n, pending[i] = pending[j] PROVE i = j
      <4>1. j \in 1 .. n + 1 /\ pending'[j] = pending[j] BY <1>4
      <4> QED BY <2>1, <3>1, <3>4, <4>1
    <3> QED BY <3>3, <3>4
  <2> QED BY <1>4, <2>2 DEF Clean
<1> QED BY <1>5, <1>6

\* A commit resolves its record and no other that still waits.
LEMMA CommitStep ==
  ASSUME todo \in Seq(Steps), todo # <<>>, todo' = Tail(todo), pending \in Seq(Entries),
         todo[1].do = "commit", Paired(todo), pending' = Resolved(todo[1].entry), Recorded
  PROVE  Recorded' /\ (Clean' => Clean)
<1>1. PICK e \in Entries : e = todo[1].entry
  <2>1. todo[1] \in Steps BY TailFacts
  <2> QED BY <2>1 DEF Steps
<1>2. \A x \in Entries : Unfinished(todo', x) => Unfinished(todo, x) /\ ~(x.kind = e.kind /\ x.path = e.path)
  BY <1>1, UnfinishedAfter
<1>3. Unfinished(todo, e)
  BY <1>1, UnfinishedAfter
<1>4. pending' = Resolved(e)
  BY <1>1
<1>5. Recorded'
  <2>1. SUFFICES ASSUME NEW x \in Entries, Unfinished(todo', x) PROVE \E i \in DOMAIN Resolved(e) : Resolved(e)[i] = x
    BY <1>4 DEF Recorded
  <2>2. PICK k \in DOMAIN pending : pending[k] = x
    BY <2>1, <1>2 DEF Recorded
  <2> QED BY <2>1, <2>2, <1>2, ResolvedKeeps
<1>6. ASSUME Clean' PROVE Clean
  <2> DEFINE B == {x \in Entries : Unfinished(todo, x) /\ x # e}
  <2>1. \A i \in DOMAIN pending' : /\ Unfinished(todo', pending'[i]) /\ pending'[i] \in Entries
                                   /\ \A j \in DOMAIN pending' : pending'[i] = pending'[j] => i = j
    <3>1. pending' \in Seq(Entries) BY <1>4, ResolvedKeeps
    <3> QED BY <1>6, <3>1 DEF Clean
  <2>2. \A i \in DOMAIN Resolved(e) :
          Resolved(e)[i] \in B /\ \A j \in DOMAIN Resolved(e) : Resolved(e)[i] = Resolved(e)[j] => i = j
    <3>1. ASSUME NEW i \in DOMAIN pending' PROVE pending'[i] \in B
      <4>1. PICK x \in Entries : x = pending'[i] BY <2>1
      <4>2. Unfinished(todo', x) BY <2>1, <4>1 DEF Unfinished
      <4>3. Unfinished(todo, x) /\ x # e BY <1>2, <4>2
      <4> QED BY <4>1, <4>3
    <3> HIDE DEF B
    <3> QED BY <1>4, <2>1, <3>1
  <2>3. \E k \in DOMAIN pending : pending[k] = e
    BY <1>3 DEF Recorded
  <2>4. \A i \in DOMAIN pending :
          pending[i] \in B \union {e} /\ \A j \in DOMAIN pending : pending[i] = pending[j] => i = j
    <3>1. e \notin B OBVIOUS
    <3> HIDE DEF B
    <3> QED BY ONLY <2>2, <2>3, <3>1, pending \in Seq(Entries), ResolvedWasClean
  <2>5. \A x \in B \union {e} : Unfinished(todo, x)
    BY <1>3
  <2> HIDE DEF B
  <2> QED BY <2>4, <2>5 DEF Clean
<1> QED BY <1>5, <1>6

\* The plan is gone: nothing is begun and not committed by it.
LEMMA StopStep ==
  ASSUME pending \in Seq(Entries), todo' = <<>>, Recorded,
         \/ pending' = pending
         \/ \E e \in Entries : Unfinished(todo, e) /\ pending' = Resolved(e)
  PROVE  Recorded' /\ (Clean' => Clean)
<1>1. \A x : ~Unfinished(todo', x)
  BY DEF Unfinished
<1>2. Recorded'
  BY <1>1 DEF Recorded
<1>3. ASSUME Clean' PROVE Clean
  <2>1. DOMAIN pending' = {}
    <3>1. \A i \in DOMAIN pending' : Unfinished(todo', pending'[i]) BY <1>3 DEF Clean
    <3>2. \A i \in DOMAIN pending' : FALSE BY <3>1 DEF Unfinished
    <3> QED BY <3>2
  <2>2. CASE pending' = pending
    BY <2>1, <2>2 DEF Clean
  <2>3. CASE \E e \in Entries : Unfinished(todo, e) /\ pending' = Resolved(e)
    <3>1. PICK e \in Entries : Unfinished(todo, e) /\ pending' = Resolved(e)
      BY <2>3
    <3>2. DOMAIN Resolved(e) = {}
      BY <2>1, <3>1
    <3>3. \E k \in DOMAIN pending : pending[k] = e
      BY <3>1 DEF Recorded
    <3>4. \A i \in DOMAIN pending :
            pending[i] \in {} \union {e} /\ \A j \in DOMAIN pending : pending[i] = pending[j] => i = j
      <4>1. e \notin {} /\ \A i \in DOMAIN Resolved(e) :
              Resolved(e)[i] \in {} /\ \A j \in DOMAIN Resolved(e) : Resolved(e)[i] = Resolved(e)[j] => i = j
        BY <3>2
      <4> QED BY ONLY <4>1, <3>3, pending \in Seq(Entries), ResolvedWasClean
    <3>5. ASSUME NEW i \in DOMAIN pending PROVE pending[i] = e
      BY <3>4
    <3> QED BY <3>1, <3>4, <3>5 DEF Clean
  <2> QED BY <2>2, <2>3
<1> QED BY <1>2, <1>3

-----------------------------------------------------------------------------
(* Overlay: the steps                                                      *)

\* The parts of the types that are not of the trees.
Typed ==
  /\ pending \in Seq(Entries)
  /\ up \subseteq Sessions /\ holder \in Sessions \union {"nobody"}
  /\ phase \in {"idle", "operation", "replay"}
  /\ todo \in Seq(Steps) /\ replay \in Seq(Entries)
  /\ phase = "idle" <=> holder = "nobody"

\* The type invariant, with what it says of the upper tree as one predicate.
LEMMA TypesAreTrees ==
  TypeOK <=> upper \in Trees /\ marks \in SUBSET Paths /\ Tree(upper, marks) /\ Typed
<1>1. \A p \in Paths : InPlace(p) <=> Placed(upper, p)
  BY DEF InPlace, Placed
<1> QED BY <1>1 DEF TypeOK, Trees, Tree, Typed

\* The same of the next state.
LEMMA TypesAreTreesNext ==
  TypeOK' <=> upper' \in Trees /\ marks' \in SUBSET Paths /\ Tree(upper', marks') /\ Typed'
<1>1. \A p \in Paths : InPlace(p)' <=> Placed(upper', p)
  BY DEF InPlace, Placed
<1> QED BY <1>1 DEF TypeOK, Trees, Tree, Typed

\* What is known when a step is about to be taken.
LEMMA Underway ==
  ASSUME OverlayIInv, todo # <<>>
  PROVE  /\ upper \in Trees /\ marks \in SUBSET Paths /\ Tree(upper, marks) /\ Typed
         /\ Ready(upper, todo) /\ Shaped(todo)
         /\ phase \in {"operation", "replay"}
         /\ phase = "operation" => Planned(upper, marks, todo)
         /\ phase = "replay" => /\ todo[1].do \in {"remove", "rmtree", "parents", "move", "mark"}
                                /\ pending # <<>>
         /\ 1 \in DOMAIN todo /\ Current = todo[1] /\ Current \in Steps
         /\ Current.path \in Paths /\ Current.entry \in Entries /\ Current.entry.dest \in Paths
<1>1. todo \in Seq(Steps)
  BY DEF OverlayIInv, TypeOK
<1>2. 1 \in DOMAIN todo /\ Current = todo[1] /\ Current \in Steps
  BY <1>1, TailFacts DEF Current
<1>3. Current.path \in Paths /\ Current.entry \in Entries /\ Current.entry.dest \in Paths
  BY <1>2 DEF Steps, Entries
<1>4. upper \in Trees /\ marks \in SUBSET Paths /\ Tree(upper, marks) /\ Typed
  BY TypesAreTrees DEF OverlayIInv
<1> QED BY <1>2, <1>3, <1>4 DEF OverlayIInv, Plans, Planned, Typed

\* A clean journal is that of an operation, or nothing is under way.
LEMMA CleanIsOperation ==
  ASSUME OverlayIInv, todo # <<>>, Clean
  PROVE  phase = "operation"
<1>1. SUFFICES ASSUME phase = "replay" PROVE FALSE
  BY Underway
<1>2. pending # <<>> /\ pending \in Seq(Entries)
  BY <1>1, Underway DEF Typed
<1>3. 1 \in DOMAIN pending
  BY <1>2
<1>4. Unfinished(todo, pending[1])
  BY <1>3 DEF Clean
<1>5. \A i \in DOMAIN todo : todo[i].do \in {"remove", "rmtree", "parents", "move", "mark"}
  BY <1>1 DEF OverlayIInv, Plans
<1> QED BY <1>4, <1>5 DEF Unfinished

\* The rest of the plan can be taken from the trees a step leaves.
LEMMA PlanGoesOn ==
  ASSUME OverlayIInv, todo # <<>>,
         todo[1].do \notin Emptying => \A p \in Paths : Placed(upper, p) => Placed(upper', p),
         todo[1].do = "parents" => Placed(upper', todo[1].path),
         todo[1].do = "mkdir" =>
           /\ \A p \in Paths : Len(p) > 1 /\ Parent(p) = todo[1].path => Placed(upper', p)
           /\ \A q \in Below[todo[1].path] : upper'[q] = "absent" /\ q \notin marks',
         todo[1].do = "clear" => todo[1].path \notin marks',
         marks' \subseteq marks \/ todo[1].do \in {"mark", "move"},
         todo[1].do \in {"remove", "move"} => upper'[todo[1].path] = "absent",
         todo[1].do \in {"parents", "begin"} => upper'[todo[1].path] = upper[todo[1].path]
  PROVE  /\ Ready(upper', Tail(todo))
         /\ phase = "operation" => Planned(upper', marks', Tail(todo))
<1>1. todo \in Seq(Steps)
  BY Underway DEF Typed
<1>2. Ready(upper, todo) /\ (phase = "operation" => Planned(upper, marks, todo))
  BY Underway
<1>3. Ready(upper', Tail(todo))
  BY <1>1, <1>2, ReadyGoesOn
<1>4. ASSUME phase = "operation" PROVE Planned(upper', marks', Tail(todo))
  <2>1. MakesLast(upper, marks, todo) /\ Unmarks(marks, todo) /\ MarksLast(upper, todo) /\ Paired(todo)
    BY <1>2, <1>4 DEF Planned
  <2>2. MakesLast(upper', marks', Tail(todo))
    BY <1>1, <2>1, MakesLastGoesOn
  <2>3. marks' \subseteq marks \/ \A i \in DOMAIN todo : i > 1 => todo[i].do \notin Building
    <3>0. 1 \in DOMAIN todo BY Underway
    <3>1. CASE todo[1].do = "mark"
      <4>1. \A i \in DOMAIN todo : i > 1 => todo[i].do = "commit"
        BY <3>0, <3>1, <2>1 DEF MarksLast
      <4> QED BY <4>1 DEF Building
    <3>2. CASE todo[1].do = "move"
      <4>1. \A i \in DOMAIN todo : todo[i].do \in Building => ~(1 < i)
        BY <3>0, <3>2, <1>2 DEF Ready, Emptying
      <4>2. \A i \in DOMAIN todo : i > 1 => 1 < i BY <1>1
      <4> QED BY <4>1, <4>2
    <3> QED BY <3>1, <3>2
  <2>4. Unmarks(marks', Tail(todo))
    BY <1>1, <2>1, <2>3, UnmarksGoesOn
  <2>5. MarksLast(upper', Tail(todo))
    BY <1>1, <2>1, MarksLastGoesOn
  <2>6. Paired(Tail(todo))
    BY <1>1, <2>1, PairedGoesOn
  <2> QED BY <1>3, <2>2, <2>4, <2>5, <2>6 DEF Planned
<1> QED BY <1>3, <1>4

\* A step that leaves trees, a journal of renames apart, and a plan that goes on.
LEMMA TakenKeeps ==
  ASSUME OverlayIInv, todo # <<>>, Taken,
         upper' \in Trees, marks' \in SUBSET Paths, Tree(upper', marks'),
         pending' \in Seq(Entries), \A i \in DOMAIN pending' : Apart(pending'[i]),
         phase = "replay" => pending' = pending,
         Ready(upper', Tail(todo)),
         phase = "operation" => Planned(upper', marks', Tail(todo))
  PROVE  TypeOK' /\ Plans'
<1>1. Typed /\ phase \in {"operation", "replay"} /\ Shaped(todo)
  BY Underway
<1>2. todo \in Seq(Steps) /\ todo' = Tail(todo) /\ replay' = replay /\ up' = up
  BY <1>1 DEF Typed, Taken
<1>3. Tail(todo) \in Seq(Steps) /\ (Tail(todo) = <<>> <=> Len(todo) = 1)
  BY <1>2, TailFacts
<1>4. \/ /\ phase = "operation" /\ Len(todo) = 1 /\ phase' = "idle" /\ holder' = "nobody"
      \/ /\ phase' = phase /\ holder' = holder
  BY DEF Taken
<1>5. Typed'
  BY <1>1, <1>2, <1>3, <1>4 DEF Typed
<1>6. Shaped(Tail(todo))
  BY <1>1, <1>2, ShapedGoesOn
<1>7. \A i \in DOMAIN replay : Apart(replay[i])
  BY DEF OverlayIInv, Plans
<1>8. ASSUME phase = "replay"
      PROVE  /\ pending # <<>>
             /\ \A i \in DOMAIN Tail(todo) :
                  Tail(todo)[i].do \in {"remove", "rmtree", "parents", "move", "mark"}
  <2>1. /\ pending # <<>>
        /\ \A i \in DOMAIN todo : todo[i].do \in {"remove", "rmtree", "parents", "move", "mark"}
    BY <1>8 DEF OverlayIInv, Plans
  <2> QED BY <1>2, <2>1, TailPlaces
<1>9. Plans'
  BY <1>1, <1>2, <1>3, <1>4, <1>6, <1>7, <1>8 DEF Plans
<1> QED BY <1>5, <1>9, TypesAreTreesNext

\* What a step that builds finds at its target.
LEMMA TargetIsReady ==
  ASSUME OverlayIInv, todo # <<>>, todo[1].do \in Building
  PROVE  /\ Placed(upper, Target(todo[1]))
         /\ phase = "operation" => Target(todo[1]) \notin marks
<1>1. todo \in Seq(Steps) /\ 1 \in DOMAIN todo /\ \A j \in DOMAIN todo : ~(j < 1)
  BY Underway, TailPlaces DEF Typed
<1>2. Placed(upper, Target(todo[1]))
  BY <1>1, Underway DEF Ready
<1>3. phase = "operation" => Target(todo[1]) \notin marks
  BY <1>1, Underway DEF Planned, Unmarks
<1> QED BY <1>2, <1>3

\* A step of a plan keeps the invariant when it keeps the types, the plans and the records,
\* and, while no marker hides a node, does not put one under a marker.
LEMMA StepKeeps ==
  ASSUME OverlayIInv, todo # <<>>, TypeOK' /\ Plans', Recorded' /\ (Clean' => Clean),
         phase = "operation" /\ (\A p \in marks : upper[p] = "absent")
         => \A p \in marks' : upper'[p] = "absent"
  PROVE  OverlayIInv'
<1>1. ASSUME Clean' PROVE \A p \in marks' : upper'[p] = "absent"
  BY <1>1, CleanIsOperation DEF OverlayIInv, Unburied
<1> QED BY <1>1 DEF OverlayIInv, Unburied

\* The journal of a step that is not of the journal.
LEMMA JournalStays ==
  ASSUME OverlayIInv, todo # <<>>, Taken, pending' = pending,
         todo[1].do \notin {"begin", "commit"}
  PROVE  /\ pending' \in Seq(Entries) /\ \A i \in DOMAIN pending' : Apart(pending'[i])
         /\ Recorded' /\ (Clean' => Clean)
<1>1. pending \in Seq(Entries) /\ todo \in Seq(Steps) /\ todo' = Tail(todo)
  BY Underway DEF Typed, Taken
<1>2. Recorded' /\ (Clean' => Clean)
  BY <1>1, PlainStep DEF OverlayIInv
<1> QED BY <1>1, <1>2 DEF OverlayIInv, Plans

\* Removing a marker.
LEMMA ClearKeepsOverlay ==
  ASSUME OverlayIInv, StepClear
  PROVE  OverlayIInv'
<1>1. todo # <<>> /\ Taken /\ upper' = upper /\ pending' = pending /\ todo[1].do = "clear"
      /\ marks' = marks \ {todo[1].path}
  BY Underway DEF StepClear, Is
<1>2. upper \in Trees /\ marks \in SUBSET Paths /\ Tree(upper, marks)
  BY <1>1, Underway
<1>3. Ready(upper', Tail(todo)) /\ (phase = "operation" => Planned(upper', marks', Tail(todo)))
  BY <1>1, PlanGoesOn
<1>4. marks' \in SUBSET Paths /\ Tree(upper', marks')
  BY <1>1, <1>2 DEF Tree
<1>5. /\ pending' \in Seq(Entries) /\ \A i \in DOMAIN pending' : Apart(pending'[i])
      /\ Recorded' /\ (Clean' => Clean)
  BY <1>1, JournalStays
<1>6. TypeOK' /\ Plans'
  BY <1>1, <1>2, <1>3, <1>4, <1>5, TakenKeeps
<1> QED BY <1>1, <1>5, <1>6, StepKeeps

\* Making the directories above a name.
LEMMA ParentsKeepOverlay ==
  ASSUME OverlayIInv, StepParents
  PROVE  OverlayIInv'
<1>1. todo # <<>> /\ Taken /\ pending' = pending /\ marks' = marks /\ todo[1].do = "parents"
  BY Underway DEF StepParents, Is
<1>2. PICK p \in Paths : p = todo[1].path
  BY <1>1, Underway
<1>3. /\ \A q \in Above[p] : q \notin marks /\ upper[q] \in {"absent", "dir"}
      /\ upper' = [q \in Paths |-> IF q \in Above[p] /\ upper[q] = "absent" THEN "dir" ELSE upper[q]]
  BY <1>1, <1>2, Underway DEF StepParents, Markable, WithParents
<1>4. upper \in Trees /\ marks \in SUBSET Paths /\ Tree(upper, marks)
  BY <1>1, Underway
<1>5. /\ upper' \in Trees /\ Tree(upper', marks) /\ Placed(upper', p)
      /\ \A q \in Paths : Placed(upper, q) => Placed(upper', q)
      /\ \A q \in Paths : upper'[q] # upper[q] => q \in Above[p]
  <2>1. PICK v : v = [q \in Paths |-> IF q \in Above[p] /\ upper[q] = "absent" THEN "dir" ELSE upper[q]]
    OBVIOUS
  <2>2. /\ v \in Trees /\ Tree(v, marks) /\ Placed(v, p)
        /\ \A q \in Paths : Placed(upper, q) => Placed(v, q)
        /\ \A q \in Paths : v[q] # upper[q] => q \in Above[p]
    BY <1>3, <1>4, <2>1, ParentsAreTree, ZenonT(40)
  <2>3. upper' = v
    BY <1>3, <2>1
  <2> QED BY <2>2, <2>3
<1>6. upper'[p] = upper[p]
  BY <1>5, Subsets
<1>7. Ready(upper', Tail(todo)) /\ (phase = "operation" => Planned(upper', marks', Tail(todo)))
  BY <1>1, <1>2, <1>5, <1>6, PlanGoesOn
<1>8. /\ pending' \in Seq(Entries) /\ \A i \in DOMAIN pending' : Apart(pending'[i])
      /\ Recorded' /\ (Clean' => Clean)
  BY <1>1, JournalStays
<1>9. TypeOK' /\ Plans'
  BY <1>1, <1>4, <1>5, <1>7, <1>8, TakenKeeps
<1>10. (\A q \in marks : upper[q] = "absent") => \A q \in marks' : upper'[q] = "absent"
  <2>1. \A q \in marks : upper'[q] = upper[q] BY <1>3, <1>4, <1>5
  <2> QED BY <2>1, <1>1
<1> QED BY <1>1, <1>8, <1>9, <1>10, StepKeeps

\* Writing an intent to the journal.
LEMMA BeginKeepsOverlay ==
  ASSUME OverlayIInv, StepBegin
  PROVE  OverlayIInv'
<1>1. todo # <<>> /\ Taken /\ upper' = upper /\ marks' = marks /\ todo[1].do = "begin"
      /\ pending' = Append(pending, todo[1].entry)
  BY Underway DEF StepBegin, Is, treeVars
<1>2. /\ upper \in Trees /\ marks \in SUBSET Paths /\ Tree(upper, marks)
      /\ pending \in Seq(Entries) /\ todo \in Seq(Steps) /\ todo' = Tail(todo)
      /\ todo[1].entry \in Entries /\ phase = "operation"
  BY <1>1, Underway DEF Typed, Taken
<1>3. Ready(upper', Tail(todo)) /\ (phase = "operation" => Planned(upper', marks', Tail(todo)))
  BY <1>1, PlanGoesOn
<1>4. Apart(todo[1].entry)
  BY <1>1, Underway DEF Shaped
<1>5. pending' \in Seq(Entries) /\ \A i \in DOMAIN pending' : Apart(pending'[i])
  <2>1. \A i \in DOMAIN pending : Apart(pending[i]) BY DEF OverlayIInv, Plans
  <2>2. \A i \in DOMAIN pending' : pending'[i] = todo[1].entry \/ (i \in DOMAIN pending /\ pending'[i] = pending[i])
    BY <1>1, <1>2
  <2>3. pending' \in Seq(Entries) BY <1>1, <1>2
  <2> QED BY <1>4, <2>1, <2>2, <2>3
<1>6. Recorded' /\ (Clean' => Clean)
  BY <1>1, <1>2, BeginStep DEF OverlayIInv
<1>7. TypeOK' /\ Plans'
  BY <1>1, <1>2, <1>3, <1>5, TakenKeeps
<1> QED BY <1>1, <1>6, <1>7, StepKeeps

\* Writing a commit to the journal.
LEMMA CommitKeepsOverlay ==
  ASSUME OverlayIInv, StepCommit
  PROVE  OverlayIInv'
<1>1. todo # <<>> /\ Taken /\ upper' = upper /\ marks' = marks /\ todo[1].do = "commit"
      /\ pending' = Resolved(todo[1].entry)
  BY Underway DEF StepCommit, Is, treeVars
<1>2. /\ upper \in Trees /\ marks \in SUBSET Paths /\ Tree(upper, marks)
      /\ pending \in Seq(Entries) /\ todo \in Seq(Steps) /\ todo' = Tail(todo)
      /\ phase = "operation" /\ Paired(todo)
  BY <1>1, Underway DEF Typed, Taken, Planned
<1>3. Ready(upper', Tail(todo)) /\ (phase = "operation" => Planned(upper', marks', Tail(todo)))
  BY <1>1, PlanGoesOn
<1>4. pending' \in Seq(Entries) /\ \A i \in DOMAIN pending' : \E k \in DOMAIN pending : pending[k] = pending'[i]
  BY <1>1, <1>2, ResolvedKeeps
<1>5. \A i \in DOMAIN pending' : Apart(pending'[i])
  <2>1. \A i \in DOMAIN pending : Apart(pending[i]) BY DEF OverlayIInv, Plans
  <2> QED BY <1>4, <2>1
<1>6. Recorded' /\ (Clean' => Clean)
  BY <1>1, <1>2, CommitStep DEF OverlayIInv
<1>7. TypeOK' /\ Plans'
  BY <1>1, <1>2, <1>3, <1>4, <1>5, TakenKeeps
<1> QED BY <1>1, <1>6, <1>7, StepKeeps

\* Something is put where a plan is ready for it.
LEMMA BuildKeepsOverlay ==
  ASSUME OverlayIInv, todo # <<>>, Taken, todo[1].do \in {"put", "mkdir"},
         pending' = pending, marks' = marks, NEW c \in Nodes, upper[todo[1].path] # "dir",
         todo[1].do = "mkdir" => c = "dir",
         upper' = [upper EXCEPT ![todo[1].path] = c]
  PROVE  OverlayIInv'
<1>1. PICK p \in Paths : p = todo[1].path
  BY Underway
<1>2. p = Target(todo[1]) /\ todo[1].do \in Building /\ todo[1].do \notin Emptying
  BY <1>1 DEF Target, Building, Emptying
<1>3. Placed(upper, p) /\ (phase = "operation" => p \notin marks)
  BY <1>2, TargetIsReady
<1>4. upper \in Trees /\ marks \in SUBSET Paths /\ Tree(upper, marks)
  BY Underway
<1>5. upper' \in Trees /\ Tree(upper', marks) /\ \A q \in Paths : Placed(upper, q) => Placed(upper', q)
  <2>1. upper' = [upper EXCEPT ![p] = c] /\ upper[p] # "dir" BY <1>1
  <2> QED BY <2>1, <1>3, <1>4, PutIsTree
<1>6. upper'[p] = c /\ \A q \in Paths : q # p => upper'[q] = upper[q]
  BY <1>1, <1>4 DEF Trees
<1>7. ASSUME todo[1].do = "mkdir", NEW q \in Paths, Len(q) > 1, Parent(q) = p PROVE Placed(upper', q)
  <2>1. Above[q] = Above[p] \union {p} BY <1>7, ParentIsAbove
  <2>2. Placed(upper', p) /\ upper'[p] = "dir" BY <1>3, <1>5, <1>6, <1>7
  <2> QED BY <2>1, <2>2 DEF Placed
<1>8. ASSUME NEW q \in Below[p] PROVE upper'[q] = "absent" /\ q \notin marks
  <2>1. upper[q] = "absent" /\ q \notin marks BY <1>1, <1>4, NothingBelow
  <2> QED BY <2>1, <1>6, Subsets
<1>9. Ready(upper', Tail(todo)) /\ (phase = "operation" => Planned(upper', marks', Tail(todo)))
  BY <1>1, <1>5, <1>7, <1>8, PlanGoesOn
<1>10. /\ pending' \in Seq(Entries) /\ \A i \in DOMAIN pending' : Apart(pending'[i])
       /\ Recorded' /\ (Clean' => Clean)
  BY JournalStays
<1>11. TypeOK' /\ Plans'
  BY <1>4, <1>5, <1>9, <1>10, TakenKeeps
<1>12. phase = "operation" /\ (\A q \in marks : upper[q] = "absent") => \A q \in marks' : upper'[q] = "absent"
  BY <1>3, <1>4, <1>6
<1> QED BY <1>10, <1>11, <1>12, StepKeeps

\* Publishing a file.
LEMMA PutKeepsOverlay ==
  ASSUME OverlayIInv, StepPut
  PROVE  OverlayIInv'
<1> DEFINE c == IF Current.entry.kind = "create" THEN Empty ELSE Lower[Current.path]
<1>1. todo # <<>> /\ Current = todo[1] /\ Current.path \in Paths
  BY Underway DEF StepPut, Is
<1>2. /\ Taken /\ todo[1].do = "put" /\ pending' = pending /\ marks' = marks
      /\ upper[todo[1].path] # "dir" /\ upper' = [upper EXCEPT ![todo[1].path] = c]
  BY <1>1 DEF StepPut, Is
<1>3. c \in Nodes
  BY <1>1, ConstantsAssumption DEF Nodes
<1> HIDE DEF c
<1> QED BY <1>1, <1>2, <1>3, BuildKeepsOverlay

\* Making a directory, its stale markers cleared.
LEMMA MkdirKeepsOverlay ==
  ASSUME OverlayIInv, StepMkdir
  PROVE  OverlayIInv'
<1>1. todo # <<>> /\ Current = todo[1]
  BY Underway DEF StepMkdir, Is
<1>2. /\ Taken /\ todo[1].do = "mkdir" /\ pending' = pending /\ marks' = marks
      /\ upper[todo[1].path] # "dir" /\ upper' = [upper EXCEPT ![todo[1].path] = "dir"]
  BY <1>1 DEF StepMkdir, Is
<1>3. "dir" \in Nodes
  BY DEF Nodes
<1> QED BY <1>1, <1>2, <1>3, BuildKeepsOverlay

\* Trees that have lost nodes, and are marked no more than they were.
LEMMA LossKeepsOverlay ==
  ASSUME OverlayIInv, todo # <<>>, Taken, pending' = pending, todo[1].do \in {"remove", "rmtree"},
         upper' \in Trees, marks' \in SUBSET marks, Tree(upper', marks'),
         \A q \in Paths : upper'[q] \in {upper[q], "absent"},
         upper'[todo[1].path] = "absent"
  PROVE  OverlayIInv'
<1>1. marks \in SUBSET Paths
  BY Underway
<1>2. todo[1].do \in Emptying
  BY DEF Emptying
<1>3. Ready(upper', Tail(todo)) /\ (phase = "operation" => Planned(upper', marks', Tail(todo)))
  BY <1>2, PlanGoesOn
<1>4. /\ pending' \in Seq(Entries) /\ \A i \in DOMAIN pending' : Apart(pending'[i])
      /\ Recorded' /\ (Clean' => Clean)
  BY JournalStays
<1>5. TypeOK' /\ Plans'
  BY <1>1, <1>3, <1>4, TakenKeeps
<1>6. (\A q \in marks : upper[q] = "absent") => \A q \in marks' : upper'[q] = "absent"
  BY <1>1
<1> QED BY <1>4, <1>5, <1>6, StepKeeps

\* Removing a file or an empty directory.
LEMMA RemoveKeepsOverlay ==
  ASSUME OverlayIInv, StepRemove
  PROVE  OverlayIInv'
<1>1. todo # <<>> /\ Taken /\ pending' = pending /\ marks' = marks /\ todo[1].do = "remove"
      /\ Current = todo[1] /\ upper \in Trees /\ marks \in SUBSET Paths /\ Tree(upper, marks)
  BY Underway DEF StepRemove, Is
<1>2. PICK p \in Paths : p = todo[1].path
  BY <1>1, Underway
<1>3. upper' = [upper EXCEPT ![p] = "absent"]
      /\ (upper[p] # "dir" \/ \A q \in Below[p] : upper[q] = "absent" /\ q \notin marks)
  BY <1>1, <1>2 DEF StepRemove, Removable, Bare
<1>4. \A q \in Below[p] : upper[q] = "absent" /\ q \notin marks
  BY <1>1, <1>3, NothingBelow
<1>5. upper' \in Trees /\ Tree(upper', marks)
  BY <1>1, <1>3, <1>4, RemoveIsTree
<1>6. upper'[p] = "absent" /\ \A q \in Paths : upper'[q] \in {upper[q], "absent"}
  BY <1>1, <1>3 DEF Trees
<1> QED BY <1>1, <1>2, <1>5, <1>6, LossKeepsOverlay

\* The upper tree after a whole subtree was removed, markers included.
LEMMA TreeIsRemoved ==
  ASSUME upper \in Trees, marks \in SUBSET Paths, Tree(upper, marks), NEW p \in Paths, TreeRemoved(p)
  PROVE  /\ upper' \in Trees /\ marks' \in SUBSET marks /\ Tree(upper', marks')
         /\ \A q \in Paths : upper'[q] \in {upper[q], "absent"}
         /\ upper'[p] = "absent"
<1>1. upper' = [q \in Paths |-> IF q \in From[p] THEN "absent" ELSE upper[q]]
      /\ marks' = marks \ Below[p]
  BY DEF TreeRemoved
<1>2. upper' \in Trees /\ Tree(upper', marks')
  BY <1>1, RemoveTreeIsTree
<1>3. p \in From[p]
  BY Subsets
<1> QED BY <1>1, <1>2, <1>3

\* Removing a subtree.
LEMMA RemoveTreeKeepsOverlay ==
  ASSUME OverlayIInv, StepRemoveTree
  PROVE  OverlayIInv'
<1>1. todo # <<>> /\ Taken /\ pending' = pending /\ todo[1].do = "rmtree"
      /\ upper \in Trees /\ marks \in SUBSET Paths /\ Tree(upper, marks)
      /\ todo[1].path \in Paths /\ TreeRemoved(todo[1].path)
  BY Underway DEF StepRemoveTree, Is
<1>2. /\ upper' \in Trees /\ marks' \in SUBSET marks /\ Tree(upper', marks')
      /\ \A q \in Paths : upper'[q] \in {upper[q], "absent"}
      /\ upper'[todo[1].path] = "absent"
  BY <1>1, TreeIsRemoved
<1> QED BY <1>1, <1>2, LossKeepsOverlay

\* Moving a subtree.
LEMMA MoveKeepsOverlay ==
  ASSUME OverlayIInv, StepMove
  PROVE  OverlayIInv'
<1>1. todo # <<>> /\ Taken /\ pending' = pending /\ todo[1].do = "move"
      /\ Current = todo[1] /\ upper \in Trees /\ marks \in SUBSET Paths /\ Tree(upper, marks)
  BY Underway DEF StepMove, Is
<1>2. PICK p \in Paths : p = todo[1].path
  BY <1>1, Underway
<1>3. PICK dest \in Paths : dest = todo[1].entry.dest
  BY <1>1, Underway
<1>4. dest \notin From[p] /\ p \notin From[dest]
  <2>1. Shaped(todo) /\ 1 \in DOMAIN todo BY <1>1, Underway
  <2> QED BY <1>1, <1>2, <1>3, <2>1 DEF Shaped, Apart
<1>5. Target(todo[1]) = dest /\ todo[1].do \in Building
  BY <1>1, <1>3 DEF Target, Building
<1>6. Placed(upper, dest) /\ (phase = "operation" => dest \notin marks)
  BY <1>1, <1>5, TargetIsReady
<1>7. /\ Movable(p, dest)
      /\ upper' = [q \in Paths |->
           IF q \in From[dest]
           THEN IF Rebase(q, dest, p) \in Paths THEN upper[Rebase(q, dest, p)] ELSE "absent"
           ELSE IF q \in From[p] THEN "absent" ELSE upper[q]]
      /\ marks' = (marks \ Below[p]) \union {q \in Below[dest] : Rebase(q, dest, p) \in marks}
  BY <1>1, <1>2, <1>3 DEF StepMove
<1>8. upper[dest] # "dir" \/ \A q \in Below[dest] : upper[q] = "absent" /\ q \notin marks
  BY <1>7 DEF Movable, Bare
<1>9. /\ upper' \in Trees /\ marks' \in SUBSET Paths /\ Tree(upper', marks') /\ upper'[p] = "absent"
      /\ (\A q \in marks : upper[q] = "absent") /\ dest \notin marks => \A q \in marks' : upper'[q] = "absent"
  BY <1>1, <1>4, <1>6, <1>7, <1>8, MoveIsTree
<1>10. Ready(upper', Tail(todo)) /\ (phase = "operation" => Planned(upper', marks', Tail(todo)))
  <2>1. todo[1].do \in Emptying BY <1>1 DEF Emptying
  <2> QED BY <1>1, <1>2, <1>9, <2>1, PlanGoesOn
<1>11. /\ pending' \in Seq(Entries) /\ \A i \in DOMAIN pending' : Apart(pending'[i])
       /\ Recorded' /\ (Clean' => Clean)
  BY <1>1, JournalStays
<1>12. TypeOK' /\ Plans'
  BY <1>1, <1>9, <1>10, <1>11, TakenKeeps
<1> QED BY <1>1, <1>6, <1>9, <1>11, <1>12, StepKeeps

\* Writing a marker for what is gone.
LEMMA MarkKeepsOverlay ==
  ASSUME OverlayIInv, StepMark
  PROVE  OverlayIInv'
<1>1. todo # <<>> /\ Taken /\ pending' = pending /\ todo[1].do = "mark"
  BY Underway DEF StepMark, Is
<1>2. PICK p \in Paths : p = todo[1].path
  BY <1>1, Underway
<1>3. /\ \A q \in Above[p] : q \notin marks /\ upper[q] \in {"absent", "dir"}
      /\ upper' = [q \in Paths |-> IF q \in Above[p] /\ upper[q] = "absent" THEN "dir" ELSE upper[q]]
      /\ marks' = marks \union {p}
  BY <1>1, <1>2, Underway DEF StepMark, Markable, WithParents
<1>4. upper \in Trees /\ marks \in SUBSET Paths /\ Tree(upper, marks)
  BY <1>1, Underway
<1>5. /\ upper' \in Trees /\ Tree(upper', marks') /\ Placed(upper', p)
      /\ \A q \in Paths : Placed(upper, q) => Placed(upper', q)
      /\ \A q \in Paths : upper'[q] # upper[q] => q \in Above[p]
  BY <1>3, <1>4, ParentsAreTree
<1>6. upper'[p] = upper[p] /\ marks' \in SUBSET Paths
  BY <1>3, <1>4, <1>5, Subsets
<1>7. Ready(upper', Tail(todo)) /\ (phase = "operation" => Planned(upper', marks', Tail(todo)))
  BY <1>1, <1>5, PlanGoesOn
<1>8. /\ pending' \in Seq(Entries) /\ \A i \in DOMAIN pending' : Apart(pending'[i])
      /\ Recorded' /\ (Clean' => Clean)
  BY <1>1, JournalStays
<1>9. TypeOK' /\ Plans'
  BY <1>1, <1>5, <1>6, <1>7, <1>8, TakenKeeps
<1>10. phase = "operation" => upper[p] = "absent"
  <2>1. SUFFICES ASSUME phase = "operation" PROVE upper[p] = "absent"
    OBVIOUS
  <2>2. MarksLast(upper, todo) /\ 1 \in DOMAIN todo BY <1>1, <2>1, Underway DEF Planned
  <2> QED BY <1>1, <1>2, <2>2 DEF MarksLast
<1>11. phase = "operation" /\ (\A q \in marks : upper[q] = "absent") => \A q \in marks' : upper'[q] = "absent"
  <2>1. \A q \in marks : upper'[q] = upper[q] BY <1>3, <1>4, <1>5
  <2> QED BY <2>1, <1>3, <1>6, <1>10
<1> QED BY <1>1, <1>8, <1>9, <1>11, StepKeeps

-----------------------------------------------------------------------------
(* Overlay: failures, crashes, starts and the replay                       *)

\* Nothing is wrong with a plan that has come to its end.
LEMMA NothingPlanned ==
  ASSUME NEW u, NEW ms
  PROVE  Shaped(<<>>) /\ Planned(u, ms, <<>>)
BY DEF Shaped, Planned, Ready, MakesLast, Unmarks, MarksLast, Paired

\* The plan is gone, and the trees have lost what they have lost.
LEMMA StopKeepsOverlay ==
  ASSUME OverlayIInv, todo' = <<>>, Typed',
         upper' \in Trees, marks' \in SUBSET marks, Tree(upper', marks'),
         \A q \in Paths : upper'[q] \in {upper[q], "absent"},
         \/ pending' = pending
         \/ \E e \in Entries : Unfinished(todo, e) /\ pending' = Resolved(e),
         \A i \in DOMAIN replay' : Apart(replay'[i]),
         phase' = "replay" /\ replay' # <<>> => pending' # <<>>
  PROVE  OverlayIInv'
<1>1. pending \in Seq(Entries) /\ marks \in SUBSET Paths /\ Recorded
      /\ \A i \in DOMAIN pending : Apart(pending[i])
  BY DEF OverlayIInv, TypeOK, Plans
<1>2. Recorded' /\ (Clean' => Clean)
  BY <1>1, StopStep
<1>3. \A i \in DOMAIN pending' : \E k \in DOMAIN pending : pending[k] = pending'[i]
  <2>1. CASE pending' = pending BY <2>1
  <2>2. CASE \E e \in Entries : Unfinished(todo, e) /\ pending' = Resolved(e)
    BY <2>2, <1>1, ResolvedKeeps
  <2> QED BY <2>1, <2>2
<1>4. \A i \in DOMAIN pending' : Apart(pending'[i])
  BY <1>1, <1>3
<1>5. Plans'
  <2>1. Shaped(todo') /\ Planned(upper', marks', todo') /\ Ready(upper', todo') /\ DOMAIN todo' = {}
    BY NothingPlanned DEF Planned
  <2> QED BY <1>4, <2>1 DEF Plans
<1>6. TypeOK'
  BY <1>1, TypesAreTreesNext
<1>7. Unburied'
  <2>1. SUFFICES ASSUME Clean', NEW p \in marks' PROVE upper'[p] = "absent"
    BY DEF Unburied
  <2>2. p \in marks /\ p \in Paths /\ upper[p] = "absent"
    BY <1>1, <1>2, <2>1 DEF OverlayIInv, Unburied
  <2> QED BY <2>2
<1> QED BY <1>2, <1>5, <1>6, <1>7 DEF OverlayIInv

\* What is known in every state.
LEMMA AlwaysKnown ==
  ASSUME OverlayIInv
  PROVE  /\ upper \in Trees /\ marks \in SUBSET Paths /\ Tree(upper, marks) /\ Typed
         /\ \A i \in DOMAIN pending : Apart(pending[i])
         /\ \A i \in DOMAIN replay : Apart(replay[i])
         /\ phase = "idle" => todo = <<>>
         /\ phase = "replay" /\ (todo # <<>> \/ replay # <<>>) => pending # <<>>
BY TypesAreTrees DEF OverlayIInv, Plans

\* The record a failing operation names is the one of the last step of its plan.
LEMMA LastIsStep ==
  ASSUME todo \in Seq(Steps), todo # <<>>
  PROVE  LastEntry \in Entries /\ LastEntry.path \in Paths /\ Len(todo) \in DOMAIN todo
<1>1. Len(todo) \in DOMAIN todo
  BY TailFacts
<1>2. todo[Len(todo)] \in Steps
  BY <1>1
<1> QED BY <1>1, <1>2 DEF LastEntry, Steps, Entries

\* A step that fails: what its handler undoes leaves a tree and a journal in order.
LEMMA FailKeepsOverlay ==
  ASSUME OverlayIInv, Fail
  PROVE  OverlayIInv'
<1>1. /\ upper \in Trees /\ marks \in SUBSET Paths /\ Tree(upper, marks) /\ Typed
      /\ \A i \in DOMAIN replay : Apart(replay[i])
      /\ todo # <<>> /\ phase = "operation" /\ Planned(upper, marks, todo)
  BY AlwaysKnown, Underway DEF Fail
<1>2. /\ todo' = <<>> /\ replay' = replay /\ phase' = "idle"
      /\ holder' = "nobody" /\ up' = up
  BY DEF Fail
<1>3. todo \in Seq(Steps) /\ pending \in Seq(Entries)
  BY <1>1 DEF Typed
<1>4. \A e : Begun(e) <=> Unfinished(todo, e)
  BY DEF Begun, Unfinished
<1>5. LastEntry \in Entries /\ LastEntry.path \in Paths
  BY <1>1, <1>3, LastIsStep
<1>6. /\ \/ pending' = pending
         \/ \E e \in Entries : Unfinished(todo, e) /\ pending' = Resolved(e)
      /\ upper' \in Trees /\ marks' \in SUBSET marks /\ Tree(upper', marks')
      /\ \A q \in Paths : upper'[q] \in {upper[q], "absent"}
  <2>1. CASE UndoCopy
    <3>1. CASE UNCHANGED <<treeVars, pending>>
      BY <3>1, <1>1 DEF treeVars
    <3>2. CASE ~UNCHANGED <<treeVars, pending>>
      <4>1. PICK i \in DOMAIN todo : TreeRemoved(todo[i].path) /\ pending' = pending
        BY <2>1, <3>2 DEF UndoCopy
      <4>2. todo[i].path \in Paths
        <5>1. todo[i] \in Steps BY <1>3, <4>1
        <5> QED BY <5>1 DEF Steps
      <4> QED BY <1>1, <4>1, <4>2, TreeIsRemoved
    <3> QED BY <3>1, <3>2
  <2>2. CASE UndoMkdir
    <3>1. /\ LastEntry.kind = "mkdir" /\ Unfinished(todo, LastEntry) /\ marks' = marks
          /\ pending' = pending \/ pending' = Resolved(LastEntry)
          /\ IF Remaining("mkdir") THEN upper' = upper
             ELSE upper' = [upper EXCEPT ![LastEntry.path] = "absent"]
      BY <2>2, <1>4 DEF UndoMkdir
    <3>2. CASE Remaining("mkdir")
      BY <1>1, <1>5, <3>1, <3>2
    <3>3. CASE ~Remaining("mkdir")
      <4>1. PICK n \in DOMAIN todo : n = Len(todo) BY <1>1, <1>3, LastIsStep
      <4>2. MakesLast(upper, marks, todo) BY <1>1 DEF Planned
      <4>3. \/ n >= 2 /\ todo[n - 1].do = "mkdir"
            \/ \A q \in Below[LastEntry.path] : upper[q] = "absent" /\ q \notin marks
        BY <1>1, <3>1, <4>1, <4>2 DEF MakesLast, LastEntry
      <4>4. n >= 2 => n - 1 \in DOMAIN todo
        BY <1>3, <4>1
      <4>5. \A q \in Below[LastEntry.path] : upper[q] = "absent" /\ q \notin marks
        BY <3>3, <4>3, <4>4 DEF Remaining
      <4>6. upper' = [upper EXCEPT ![LastEntry.path] = "absent"]
        BY <3>1, <3>3
      <4>7. upper' \in Trees /\ Tree(upper', marks)
        BY <1>1, <1>5, <4>5, <4>6, RemoveIsTree
      <4>8. \A q \in Paths : upper'[q] \in {upper[q], "absent"}
        BY <1>1, <4>6 DEF Trees
      <4> QED BY <1>5, <3>1, <4>7, <4>8
    <3> QED BY <3>2, <3>3
  <2>3. CASE UndoRemove
    BY <2>3, <1>1, <1>4, <1>5 DEF UndoRemove, treeVars
  <2>4. CASE UndoRename
    BY <2>4, <1>1, <1>4, <1>5 DEF UndoRename, treeVars
  <2> QED BY <2>1, <2>2, <2>3, <2>4 DEF Fail
<1>7. pending' \in Seq(Entries)
  BY <1>3, <1>6, ResolvedKeeps
<1>8. Typed'
  BY <1>1, <1>2, <1>7, EmptySeq DEF Typed
<1> QED BY <1>1, <1>2, <1>6, <1>8, StopKeepsOverlay

\* A session that is killed leaves its record in the journal.
LEMMA CrashKeepsOverlay ==
  ASSUME OverlayIInv, NEW s \in Sessions, Crash(s)
  PROVE  OverlayIInv'
<1>1. /\ upper \in Trees /\ marks \in SUBSET Paths /\ Tree(upper, marks) /\ Typed
  BY AlwaysKnown
<1>2. upper' = upper /\ marks' = marks /\ pending' = pending /\ up' = up \ {s}
  BY DEF Crash, treeVars
<1>3. CASE s = holder
  <2>1. holder' = "nobody" /\ phase' = "idle" /\ todo' = <<>> /\ replay' = <<>>
    BY <1>3 DEF Crash
  <2>2. Typed'
    BY <1>1, <1>2, <2>1, EmptySeq DEF Typed
  <2> QED BY <1>1, <1>2, <2>1, <2>2, StopKeepsOverlay
<1>4. CASE s # holder
  <2>1. holder' = holder /\ phase' = phase /\ todo' = todo /\ replay' = replay
    BY <1>4 DEF Crash
  <2>2. Typed'
    BY <1>1, <1>2, <2>1 DEF Typed
  <2>3. TypeOK'
    BY <1>1, <1>2, <2>2, TypesAreTreesNext
  <2> QED BY <1>2, <2>1, <2>3 DEF OverlayIInv, Plans, Recorded, Unburied, Clean
<1> QED BY <1>3, <1>4

\* A start takes the flock and has all of the journal to look at.
LEMMA StartKeepsOverlay ==
  ASSUME OverlayIInv, NEW s \in Sessions, Start(s)
  PROVE  OverlayIInv'
<1>1. /\ upper \in Trees /\ marks \in SUBSET Paths /\ Tree(upper, marks) /\ Typed
      /\ \A i \in DOMAIN pending : Apart(pending[i])
      /\ todo = <<>>
  BY AlwaysKnown DEF Start
<1>2. /\ upper' = upper /\ marks' = marks /\ pending' = pending /\ up' = up /\ todo' = todo
      /\ holder' = s /\ phase' = "replay" /\ replay' = pending
  BY DEF Start, treeVars
<1>3. s # "nobody"
  BY ConstantsAssumption
<1>4. Typed'
  BY <1>1, <1>2, <1>3 DEF Typed
<1> QED BY <1>1, <1>2, <1>4, StopKeepsOverlay

\* The end of a start, whether the replay went well or not.
LEMMA StartedKeepsOverlay ==
  ASSUME OverlayIInv, Started \/ StartFails
  PROVE  OverlayIInv'
<1>1. /\ upper \in Trees /\ marks \in SUBSET Paths /\ Tree(upper, marks) /\ Typed
      /\ \A i \in DOMAIN replay : Apart(replay[i])
  BY AlwaysKnown
<1>2. /\ upper' = upper /\ marks' = marks /\ pending' = pending /\ todo' = <<>>
      /\ holder' = "nobody" /\ phase' = "idle" /\ replay' = <<>> /\ phase = "replay"
      /\ up' = up \/ up' = up \union {holder}
  BY DEF Started, StartFails, treeVars
<1>3. holder \in Sessions
  BY <1>1, <1>2 DEF Typed
<1>4. Typed'
  BY <1>1, <1>2, <1>3, EmptySeq DEF Typed
<1> QED BY <1>1, <1>2, <1>4, StopKeepsOverlay

\* A write to a file that is already in the upper tree.
LEMMA WriteKeepsOverlay ==
  ASSUME OverlayIInv, NEW s \in Sessions, NEW p \in Paths, Write(s, p)
  PROVE  OverlayIInv'
<1>1. /\ upper \in Trees /\ marks \in SUBSET Paths /\ Tree(upper, marks) /\ Typed
      /\ todo = <<>>
  BY AlwaysKnown DEF Write
<1>2. PICK c \in Contents : upper' = [upper EXCEPT ![p] = c]
  BY DEF Write
<1>3. /\ marks' = marks /\ pending' = pending /\ todo' = todo /\ replay' = replay
      /\ holder' = holder /\ phase' = phase /\ up' = up
      /\ phase = "idle" /\ View[p] \in Contents /\ upper[p] # "absent"
  BY DEF Write
<1>4. upper[p] # "dir"
  <2>1. View[p] = Node(upper, marks, p) \/ View[p] = "absent"
    BY DEF View, ViewOf
  <2>2. "absent" \notin Contents /\ "dir" \notin Contents
    BY ConstantsAssumption
  <2>3. Node(upper, marks, p) \in Contents
    BY <1>3, <2>1, <2>2
  <2>4. upper[p] = Node(upper, marks, p)
    BY <1>3, <2>2, <2>3 DEF Node
  <2> QED BY <2>2, <2>3, <2>4
<1>5. Placed(upper, p)
  BY <1>1, <1>3 DEF Tree
<1>6. c \in Nodes
  BY DEF Nodes
<1>7. upper' \in Trees /\ Tree(upper', marks)
  BY <1>1, <1>2, <1>4, <1>5, <1>6, PutIsTree
<1>8. Typed'
  BY <1>1, <1>3 DEF Typed
<1>9. TypeOK'
  BY <1>1, <1>3, <1>7, <1>8, TypesAreTreesNext
<1>10. Recorded' /\ (Clean' <=> Clean)
  BY <1>3 DEF OverlayIInv, Recorded, Clean
<1>11. Plans'
  <2>1. Shaped(todo') /\ DOMAIN todo' = {}
    BY <1>1, <1>3, NothingPlanned
  <2> QED BY <1>1, <1>3, <2>1 DEF OverlayIInv, Plans
<1>12. Unburied'
  <2>1. SUFFICES ASSUME Clean', NEW q \in marks PROVE upper'[q] = "absent"
    BY <1>3 DEF Unburied
  <2>2. upper[q] = "absent" /\ q \in Paths
    BY <1>1, <1>10, <2>1 DEF OverlayIInv, Unburied
  <2> QED BY <1>1, <1>2, <1>3, <2>2 DEF Trees
<1> QED BY <1>9, <1>10, <1>11, <1>12 DEF OverlayIInv

\* Small plans one after the other.
LEMMA SmallPlans ==
  ASSUME NEW a \in Steps, NEW b \in Steps, NEW c \in Steps
  PROVE  /\ <<a, b>> \o <<c>> = <<a, b, c>> /\ <<a>> \o <<c>> = <<a, c>>
         /\ <<a, b, c>> \in Seq(Steps) /\ DOMAIN <<a, b, c>> = 1 .. 3
         /\ <<a, b>> \in Seq(Steps) /\ DOMAIN <<a, b>> = 1 .. 2
         /\ <<>> \o <<c>> = <<c>> /\ <<a>> \o <<>> = <<a>> /\ <<a, b>> \o <<>> = <<a, b>>
         /\ <<>> \o <<>> = <<>>
<1>1. <<a, b>> \o <<c>> = <<a, b, c>>
  <2> DEFINE s == <<a, b>> \o <<c>>
             t == <<a, b, c>>
  <2>1. s \in Seq(Steps) /\ Len(s) = 3
    OBVIOUS
  <2>2. t \in Seq(Steps) /\ Len(t) = 3
    OBVIOUS
  <2>3. s[1] = a /\ s[2] = b /\ s[3] = c
    OBVIOUS
  <2>4. t[1] = a /\ t[2] = b /\ t[3] = c
    OBVIOUS
  <2>5. \A i \in 1 .. Len(s) : i = 1 \/ i = 2 \/ i = 3
    BY <2>1
  <2> HIDE DEF s, t
  <2>6. \A i \in 1 .. Len(s) : s[i] = t[i]
    BY <2>3, <2>4, <2>5
  <2>7. s = t
    BY <2>1, <2>2, <2>6, SeqEqual
  <2> QED BY <2>7 DEF s, t
<1>2. <<a>> \o <<c>> = <<a, c>>
  <2> DEFINE s == <<a>> \o <<c>>
             t == <<a, c>>
  <2>1. s \in Seq(Steps) /\ Len(s) = 2 /\ t \in Seq(Steps) /\ Len(t) = 2
    OBVIOUS
  <2>2. t[1] = a /\ t[2] = c
    OBVIOUS
  <2>3. s[1] = a /\ s[2] = c
    OBVIOUS
  <2>4. \A i \in 1 .. Len(s) : i = 1 \/ i = 2
    BY <2>1
  <2> HIDE DEF s, t
  <2>5. \A i \in 1 .. Len(s) : s[i] = t[i]
    BY <2>2, <2>3, <2>4
  <2>6. s = t
    BY <2>1, <2>5, SeqEqual
  <2> QED BY <2>6 DEF s, t
<1>3. <<a, b, c>> \in Seq(Steps) /\ DOMAIN <<a, b, c>> = 1 .. 3
  OBVIOUS
<1>4. <<a, b>> \in Seq(Steps) /\ DOMAIN <<a, b>> = 1 .. 2
  OBVIOUS
<1>5. <<>> \o <<c>> = <<c>> /\ <<a>> \o <<>> = <<a>>
  <2>1. <<c>> \in Seq(Steps) /\ <<a>> \in Seq(Steps) OBVIOUS
  <2> QED BY <2>1, ConcatEmptySeq, Zenon
<1>6. <<a, b>> \o <<>> = <<a, b>>
  BY <1>4, ConcatEmptySeq, Zenon
<1>7. <<>> \o <<>> = <<>>
  OBVIOUS
<1> QED BY <1>1, <1>2, <1>3, <1>4, <1>5, <1>6, <1>7

\* What a start does about one record.
LEMMA RedoIsPlan ==
  ASSUME NEW e \in Entries, Apart(e), NEW s, s = Redo(e)
  PROVE  /\ s \in Seq(Steps) /\ Shaped(s) /\ Ready(upper, s)
         /\ \A i \in DOMAIN s : s[i].do \in {"remove", "rmtree", "parents", "move", "mark"}
<1>1. e.path \in Paths /\ e.dest \in Paths /\ e.kind \in Kinds
  BY DEF Entries
<1>2. \A name \in StepNames, p \in Paths : Do(name, p, e) \in Steps
  BY DEF Do, Steps
<1>3. /\ <<>> \in Seq(Steps) /\ Shaped(<<>>) /\ Ready(upper, <<>>) /\ DOMAIN <<>> = {}
  BY NothingPlanned, EmptySeq DEF Planned
<1>4. ASSUME NEW name \in {"remove", "rmtree", "mark"}, s = <<Do(name, e.path, e)>>
      PROVE  /\ s \in Seq(Steps) /\ Shaped(s) /\ Ready(upper, s)
             /\ \A i \in DOMAIN s : s[i].do \in {"remove", "rmtree", "parents", "move", "mark"}
  <2>1. s \in Seq(Steps) /\ DOMAIN s = {1} /\ s[1] = Do(name, e.path, e)
    BY <1>1, <1>2, <1>4 DEF StepNames
  <2>2. s[1].do = name /\ s[1].entry = e
    BY <2>1 DEF Do
  <2> QED BY <2>1, <2>2 DEF Shaped, Ready, Building
<1>5. CASE e.kind = "rename"
  <2> DEFINE a == Do("parents", e.dest, e)
             b == Do("move", e.path, e)
             c == Do("mark", e.path, e)
  <2>1. a \in Steps /\ b \in Steps /\ c \in Steps
    BY <1>1, <1>2 DEF StepNames
  <2>2. s = (IF upper[e.path] # "absent" THEN <<a, b>> ELSE <<>>) \o (IF e.lower THEN <<c>> ELSE <<>>)
    BY <1>5 DEF Redo, IfThen
  <2>3. /\ a.do = "parents" /\ b.do = "move" /\ c.do = "mark" /\ a.path = e.dest /\ b.path = e.path
        /\ a.entry = e /\ b.entry = e /\ c.entry = e
    BY DEF Do
  <2> HIDE DEF a, b, c
  <2>4. s = <<a, b>> \/ s = <<a, b, c>> \/ s = <<c>> \/ s = <<>>
    BY <2>1, <2>2, SmallPlans, Zenon
  <2>5. CASE s = <<a, b>> \/ s = <<a, b, c>>
    <3>1. /\ s \in Seq(Steps) /\ s[1] = a /\ s[2] = b /\ 1 \in DOMAIN s
          /\ \A i \in DOMAIN s : i = 1 \/ i = 2 \/ (i = 3 /\ s[i] = c)
      <4>1. CASE s = <<a, b>>
        <5>1. s \in Seq(Steps) /\ DOMAIN s = 1 .. 2 BY <2>1, <4>1, SmallPlans
        <5>2. s[1] = a /\ s[2] = b BY <4>1
        <5> QED BY <5>1, <5>2
      <4>2. CASE s = <<a, b, c>>
        <5>1. s \in Seq(Steps) /\ DOMAIN s = 1 .. 3 BY <2>1, <4>2, SmallPlans
        <5>2. s[1] = a /\ s[2] = b /\ s[3] = c BY <4>2
        <5> QED BY <5>1, <5>2
      <4> QED BY <2>5, <4>1, <4>2
    <3>2. \A i \in DOMAIN s : s[i].do \in {"remove", "rmtree", "parents", "move", "mark"} /\ s[i].entry = e
      BY <3>1, <2>3
    <3>3. \A i \in DOMAIN s : s[i].do = "move" => i = 2
      BY <3>1, <2>3
    <3>4. Shaped(s)
      BY <3>1, <3>2, <3>3, <2>3, <1>5 DEF Shaped
    <3>5. Ready(upper, s)
      <4>1. SUFFICES ASSUME NEW i \in DOMAIN s, s[i].do \in Building
            PROVE  /\ \A j \in DOMAIN s : j < i => s[j].do \notin Emptying
                   /\ \E j \in DOMAIN s : j < i /\ s[j].do = "parents" /\ s[j].path = Target(s[i])
        BY DEF Ready
      <4>2. i = 2 BY <3>2, <3>3, <4>1 DEF Building
      <4>3. Target(s[i]) = e.dest BY <4>2, <3>1, <2>3 DEF Target
      <4>4. \A j \in DOMAIN s : j < 2 => j = 1 BY <3>1
      <4> QED BY <4>2, <4>3, <4>4, <3>1, <2>3 DEF Emptying
    <3> QED BY <3>1, <3>2, <3>4, <3>5
  <2>6. CASE s = <<c>>
    BY <2>6, <1>4 DEF c
  <2> QED BY <2>4, <2>5, <2>6, <1>3
<1>6. CASE e.kind \in {"unlink", "rmdir"}
  <2> DEFINE a == Do("remove", e.path, e)
             c == Do("mark", e.path, e)
  <2>1. a \in Steps /\ c \in Steps
    BY <1>1, <1>2 DEF StepNames
  <2>2. s = (IF upper[e.path] # "absent" THEN <<a>> ELSE <<>>) \o (IF e.lower THEN <<c>> ELSE <<>>)
    BY <1>6 DEF Redo, IfThen
  <2>3. a.do = "remove" /\ c.do = "mark" /\ a.entry = e /\ c.entry = e
    BY DEF Do
  <2> HIDE DEF a, c
  <2>4. s = <<a>> \/ s = <<a, c>> \/ s = <<c>> \/ s = <<>>
    BY <2>1, <2>2, SmallPlans, Zenon
  <2>5. CASE s = <<a, c>>
    <3>1. s \in Seq(Steps) /\ \A i \in DOMAIN s : s[i] = a \/ s[i] = c
      BY <2>1, <2>5
    <3>2. \A i \in DOMAIN s : s[i].do \in {"remove", "mark"} /\ s[i].entry = e
      BY <3>1, <2>3
    <3> QED BY <3>1, <3>2 DEF Shaped, Ready, Building
  <2>6. CASE s = <<a>>
    BY <2>6, <1>4 DEF a
  <2>7. CASE s = <<c>>
    BY <2>7, <1>4 DEF c
  <2> QED BY <2>4, <2>5, <2>6, <2>7, <1>3
<1>7. CASE e.kind \in {"create", "copy-up", "mkdir", "copy-up-dir", "whiteout"}
  <2>1. \/ s = <<>> \/ s = <<Do("remove", e.path, e)>>
        \/ s = <<Do("rmtree", e.path, e)>> \/ s = <<Do("mark", e.path, e)>>
    BY <1>7 DEF Redo, IfThen
  <2> QED BY <2>1, <1>3, <1>4
<1> QED BY <1>1, <1>5, <1>6, <1>7 DEF Kinds

\* A start looks at the next record and plans what undoes or completes it.
LEMMA ReplayKeepsOverlay ==
  ASSUME OverlayIInv, Replay
  PROVE  OverlayIInv'
<1>1. /\ upper \in Trees /\ marks \in SUBSET Paths /\ Tree(upper, marks) /\ Typed
      /\ \A i \in DOMAIN pending : Apart(pending[i])
      /\ \A i \in DOMAIN replay : Apart(replay[i])
      /\ phase = "replay" /\ replay # <<>> /\ pending # <<>>
  BY AlwaysKnown DEF Replay
<1>2. /\ upper' = upper /\ marks' = marks /\ pending' = pending /\ up' = up
      /\ holder' = holder /\ phase' = phase
      /\ todo' = Redo(Head(replay)) /\ replay' = Tail(replay)
  BY DEF Replay, treeVars
<1>3. replay \in Seq(Entries) /\ pending \in Seq(Entries)
  BY <1>1 DEF Typed
<1>4. /\ Head(replay) \in Entries /\ Apart(Head(replay))
      /\ Tail(replay) \in Seq(Entries) /\ \A i \in DOMAIN Tail(replay) : i + 1 \in DOMAIN replay /\ Tail(replay)[i] = replay[i + 1]
  <2>1. 1 \in DOMAIN replay /\ Head(replay) = replay[1] BY <1>1, <1>3
  <2>2. Head(replay) \in Entries /\ Apart(Head(replay)) BY <1>1, <1>3, <2>1
  <2> QED BY <1>1, <1>3, <2>2
<1>5. /\ todo' \in Seq(Steps) /\ Shaped(todo') /\ Ready(upper, todo')
      /\ \A i \in DOMAIN todo' : todo'[i].do \in {"remove", "rmtree", "parents", "move", "mark"}
  BY <1>2, <1>4, RedoIsPlan
<1>6. \A i \in DOMAIN replay' : Apart(replay'[i])
  BY <1>1, <1>2, <1>4
<1>7. Typed'
  BY <1>1, <1>2, <1>4, <1>5 DEF Typed
<1>8. TypeOK'
  BY <1>1, <1>2, <1>7, TypesAreTreesNext
<1>9. Plans'
  BY <1>1, <1>2, <1>5, <1>6 DEF Plans
<1>10. \A e : ~Unfinished(todo', e)
  BY <1>5 DEF Unfinished
<1>11. Recorded'
  BY <1>10 DEF Recorded
<1>12. ~Clean'
  <2>1. 1 \in DOMAIN pending' BY <1>1, <1>2, <1>3
  <2> QED BY <1>10, <2>1 DEF Clean
<1> QED BY <1>8, <1>9, <1>11, <1>12 DEF OverlayIInv, Unburied

\* The overlay starts empty, with nothing in its journal.
LEMMA InitIsSound == Init => OverlayIInv
<1>1. SUFFICES ASSUME Init PROVE OverlayIInv
  OBVIOUS
<1>2. upper \in Trees /\ marks \in SUBSET Paths /\ \A p \in Paths : upper[p] = "absent"
  BY <1>1 DEF Init, Trees, Nodes
<1>3. Tree(upper, marks)
  BY <1>1, <1>2 DEF Init, Tree
<1>4. Typed
  BY <1>1, EmptySeq DEF Init, Typed
<1>5. TypeOK
  BY <1>2, <1>3, <1>4, TypesAreTrees
<1>6. Plans
  BY <1>1, NothingPlanned DEF Init, Plans
<1>7. Recorded /\ Unburied
  BY <1>1 DEF Init, Recorded, Unfinished, Unburied
<1> QED BY <1>5, <1>6, <1>7 DEF OverlayIInv

-----------------------------------------------------------------------------
(* Overlay: plans that copy from the lower tree                            *)

\* Any element of a finite set, once each.
LEMMA SetToSeqLists ==
  ASSUME NEW S, IsFiniteSet(S)
  PROVE  /\ SetToSeq(S) \in Seq(S)
         /\ \A i \in DOMAIN SetToSeq(S), j \in DOMAIN SetToSeq(S) :
              SetToSeq(S)[i] = SetToSeq(S)[j] => i = j
<1> DEFINE n == Cardinality(S)
           fits == {f \in [1 .. n -> S] : IsInjective(f)}
           s == CHOOSE f \in [1 .. n -> S] : IsInjective(f)
<1>1. n \in Nat /\ ExistsBijection(1 .. n, S)
  BY FS_CardinalityType
<1>2. \E f \in [1 .. n -> S] : IsInjective(f)
  BY <1>1 DEF ExistsBijection, Bijection, Injection, IsInjective
<1>3. s \in [1 .. n -> S] /\ IsInjective(s)
  BY <1>2
<1>4. SetToSeq(S) = s
  BY DEF SetToSeq
<1> HIDE DEF s
<1>5. s \in Seq(S)
  BY <1>1, <1>3
<1> QED BY <1>3, <1>4, <1>5 DEF IsInjective

\* FlattenSeq of at least one sequence.
LEMMA Flattening ==
  ASSUME NEW s \in Seq(Seq(Steps)), Len(s) >= 1
  PROVE  \E g \in [1 .. Len(s) -> Seq(Steps)] :
           /\ FlattenSeq(s) = g[Len(s)] /\ g[1] = s[1]
           /\ \A i \in 2 .. Len(s) : g[i] = g[i - 1] \o s[i]
<1> DEFINE Body(k) == [i \in 1 .. Len(s) |-> IF i = 1 THEN s[i] ELSE k[i - 1] \o s[i]]
           chosen == CHOOSE k : k = Body(k)
           Good(g, n) == /\ g \in [1 .. n -> Seq(Steps)] /\ g[1] = s[1]
                         /\ \A i \in 2 .. n : g[i] = g[i - 1] \o s[i]
           T == {n \in Nat : n + 1 <= Len(s) => \E g : Good(g, n + 1)}
<1>1. Len(s) \in Nat /\ \A i \in 1 .. Len(s) : s[i] \in Seq(Steps)
  OBVIOUS
<1>2. 0 \in T
  <2>1. Good([i \in 1 .. 1 |-> s[1]], 0 + 1) BY <1>1
  <2> HIDE DEF Good
  <2> QED BY <2>1
<1>3. ASSUME NEW n \in Nat, n \in T, n + 1 + 1 <= Len(s) PROVE \E g : Good(g, n + 1 + 1)
  <2>1. PICK g : Good(g, n + 1)
    <3> HIDE DEF Good
    <3> QED BY <1>1, <1>3
  <2> DEFINE h == [i \in 1 .. n + 1 + 1 |-> IF i <= n + 1 THEN g[i] ELSE g[n + 1] \o s[n + 1 + 1]]
  <2>2. g[n + 1] \in Seq(Steps) /\ s[n + 1 + 1] \in Seq(Steps) BY <2>1, <1>1, <1>3
  <2>3. g[n + 1] \o s[n + 1 + 1] \in Seq(Steps) BY <2>2
  <2>4. h \in [1 .. n + 1 + 1 -> Seq(Steps)] /\ h[1] = s[1] BY <2>1, <2>3
  <2>5. ASSUME NEW i \in 2 .. n + 1 + 1 PROVE h[i] = h[i - 1] \o s[i]
    <3>1. i \in 1 .. n + 1 + 1 /\ i - 1 \in 1 .. n + 1 + 1 /\ i - 1 <= n + 1 BY <2>5, <1>3
    <3>2. h[i - 1] = g[i - 1] BY <3>1
    <3>3. CASE i <= n + 1
      <4>1. i \in 2 .. n + 1 BY <3>3, <1>3
      <4>2. h[i] = g[i] BY <3>1, <3>3
      <4>3. g[i] = g[i - 1] \o s[i] BY <2>1, <4>1, Zenon
      <4> QED BY <4>2, <4>3, <3>2
    <3>4. CASE ~(i <= n + 1)
      <4>1. i = n + 1 + 1 /\ i - 1 = n + 1 BY <3>4, <3>1, <1>3
      <4>2. h[i] = g[n + 1] \o s[n + 1 + 1] BY <3>1, <3>4
      <4> QED BY <3>2, <4>1, <4>2
    <3> QED BY <3>3, <3>4
  <2>6. Good(h, n + 1 + 1) BY <2>4, <2>5
  <2> QED BY <2>6
<1>4. Nat \subseteq T
  <2> HIDE DEF Good
  <2>1. \A n \in Nat : n \in T => n + 1 \in T BY <1>3
  <2> HIDE DEF T
  <2> QED BY <1>2, <2>1, Induction
<1>5. PICK g : Good(g, Len(s))
  <2>1. Len(s) - 1 + 1 = Len(s) /\ Len(s) - 1 \in Nat BY <1>1
  <2>2. Len(s) - 1 \in T
    <3> HIDE DEF T
    <3> QED BY <2>1, <1>4
  <2> HIDE DEF Good
  <2> QED BY <1>1, <2>1, <2>2
<1>6. g = Body(g)
  <2>1. ASSUME NEW i \in 1 .. Len(s) PROVE g[i] = IF i = 1 THEN s[i] ELSE g[i - 1] \o s[i]
    <3>1. CASE i = 1 BY <3>1, <1>5
    <3>2. CASE i # 1
      <4>1. i \in 2 .. Len(s)
        <5>1. PICK l \in Nat : l = Len(s) BY <1>1
        <5>2. i \in 1 .. l /\ i # 1 BY <5>1, <3>2, Zenon
        <5>3. i \in 2 .. l BY <5>2
        <5> QED BY <5>1, <5>3, Zenon
      <4> QED BY <3>2, <4>1, <1>5
    <3> QED BY <3>1, <3>2
  <2> QED BY <1>5, <2>1
<1>7. chosen = Body(chosen)
  BY <1>6
<1>8. FlattenSeq(s) = chosen[Len(s)]
  <2>1. FlattenSeq(s) = IF Len(s) = 0 THEN s ELSE chosen[Len(s)]
    BY Zenon DEF FlattenSeq
  <2> HIDE DEF chosen
  <2> QED BY <1>1, <2>1
<1>9. chosen[Len(s)] = g[Len(s)]
  <2> HIDE DEF chosen
  <2> DEFINE U == {n \in Nat : n + 1 <= Len(s) => chosen[n + 1] = g[n + 1]}
  <2>1. \A i \in 1 .. Len(s) : chosen[i] = IF i = 1 THEN s[i] ELSE chosen[i - 1] \o s[i]
    BY <1>7, Zenon
  <2>2. 0 \in U
    <3>1. 1 \in 1 .. Len(s) BY <1>1
    <3> QED BY <2>1, <3>1, <1>5
  <2>3. ASSUME NEW n \in Nat, n \in U, n + 1 + 1 <= Len(s) PROVE chosen[n + 1 + 1] = g[n + 1 + 1]
    <3>1. n + 1 + 1 \in 2 .. Len(s) /\ n + 1 + 1 \in 1 .. Len(s) /\ n + 1 + 1 - 1 = n + 1
          /\ n + 1 <= Len(s) /\ n + 1 + 1 # 1
      BY <2>3, <1>1
    <3>2. PICK i \in 2 .. Len(s) : i = n + 1 + 1 BY <3>1
    <3>3. i \in 1 .. Len(s) /\ i # 1 /\ i - 1 = n + 1 BY <3>1, <3>2
    <3>4. chosen[i] = chosen[i - 1] \o s[i] BY <2>1, <3>3, Zenon
    <3>5. g[i] = g[i - 1] \o s[i] BY <1>5, Zenon
    <3>6. chosen[i - 1] = g[i - 1] BY <2>3, <3>1, <3>3
    <3> QED BY <3>2, <3>4, <3>5, <3>6
  <2>4. Nat \subseteq U
    <3>1. \A n \in Nat : n \in U => n + 1 \in U BY <2>3
    <3> HIDE DEF U
    <3> QED BY <2>2, <3>1, Induction
  <2>5. Len(s) - 1 \in Nat /\ Len(s) - 1 + 1 = Len(s) /\ Len(s) - 1 + 1 <= Len(s) BY <1>1
  <2>6. Len(s) - 1 \in U
    <3> HIDE DEF U
    <3> QED BY <2>4, <2>5
  <2> QED BY <2>5, <2>6
<1> QED BY <1>5, <1>8, <1>9

-----------------------------------------------------------------------------
(* Copying up                                                              *)

CopyEntry(p) ==
  IF Lower[p] = "dir" THEN Entry("copy-up-dir", p, p, FALSE) ELSE Entry("copy-up", p, p, FALSE)

\* What the plan of a copy-up of paths in A looks like.
Copies(A, c) ==
  /\ c \in Seq(Steps)
  /\ \A i \in DOMAIN c : /\ c[i].do \in {"parents", "begin", "put", "mkdir", "commit"}
                         /\ c[i].path \in A /\ c[i].entry = CopyEntry(c[i].path)
  /\ \A i \in DOMAIN c : c[i].do \in {"put", "mkdir"} =>
       \E j \in DOMAIN c : j < i /\ c[j].do = "parents" /\ c[j].path = c[i].path
  /\ \A i \in DOMAIN c, j \in DOMAIN c :
       c[i].do = c[j].do /\ c[i].do \in {"begin", "commit"} /\ c[i].path = c[j].path => i = j
  /\ \A j \in DOMAIN c : c[j].do = "commit" =>
       \E i \in DOMAIN c : i < j /\ c[i].do = "begin" /\ c[i].path = c[j].path
  /\ \A i \in DOMAIN c : c[i].do = "begin" =>
       \E j \in DOMAIN c : i < j /\ c[j].do = "commit" /\ c[j].path = c[i].path

\* The places of a plan made of two.
LEMMA JoinedPlaces ==
  ASSUME NEW s \in Seq(Steps), NEW t \in Seq(Steps), NEW r, r = s \o t
  PROVE  /\ r \in Seq(Steps) /\ Len(r) = Len(s) + Len(t) /\ Len(s) \in Nat /\ Len(t) \in Nat
         /\ \A i \in DOMAIN s : i \in DOMAIN r /\ r[i] = s[i] /\ i \in Nat /\ i <= Len(s) /\ i >= 1
         /\ \A i \in DOMAIN t : Len(s) + i \in DOMAIN r /\ r[Len(s) + i] = t[i] /\ i \in Nat /\ i >= 1
         /\ \A i \in DOMAIN r : i \in DOMAIN s \/ (i - Len(s) \in DOMAIN t /\ i = Len(s) + (i - Len(s)))
<1>1. Len(s) \in Nat /\ Len(t) \in Nat /\ DOMAIN s = 1 .. Len(s) /\ DOMAIN t = 1 .. Len(t)
  OBVIOUS
<1>2. /\ r \in Seq(Steps) /\ Len(r) = Len(s) + Len(t)
      /\ \A i \in 1 .. Len(s) + Len(t) : r[i] = IF i <= Len(s) THEN s[i] ELSE t[i - Len(s)]
  BY ConcatProperties, Zenon
<1>3. DOMAIN r = 1 .. Len(s) + Len(t)
  BY <1>2
<1>4. ASSUME NEW i \in DOMAIN s PROVE i \in DOMAIN r /\ r[i] = s[i] /\ i \in Nat /\ i <= Len(s) /\ i >= 1
  BY <1>1, <1>2, <1>3
<1>5. ASSUME NEW i \in DOMAIN t PROVE Len(s) + i \in DOMAIN r /\ r[Len(s) + i] = t[i] /\ i \in Nat /\ i >= 1
  <2>1. /\ Len(s) + i \in 1 .. Len(s) + Len(t) /\ ~(Len(s) + i <= Len(s)) /\ (Len(s) + i) - Len(s) = i
        /\ i \in Nat /\ i >= 1
    BY <1>1
  <2> QED BY <2>1, <1>2, <1>3
<1>6. ASSUME NEW i \in DOMAIN r
      PROVE  i \in DOMAIN s \/ (i - Len(s) \in DOMAIN t /\ i = Len(s) + (i - Len(s)))
  BY <1>1, <1>3
<1> QED BY <1>1, <1>2, <1>4, <1>5, <1>6

\* In what copies, the intent of a path and its commit stand once.
LEMMA CopiesOnce ==
  ASSUME NEW A, NEW c, Copies(A, c), NEW i \in DOMAIN c, NEW j \in DOMAIN c,
         c[i].do = c[j].do, c[i].do \in {"begin", "commit"}, c[i].path = c[j].path
  PROVE  i = j
<1>1. \A x \in DOMAIN c, y \in DOMAIN c :
        c[x].do = c[y].do /\ c[x].do \in {"begin", "commit"} /\ c[x].path = c[y].path => x = y
  BY Zenon DEF Copies
<1> QED BY <1>1

\* Copy-ups of different paths, one after the other.
LEMMA CopiesJoin ==
  ASSUME NEW A, NEW B, A \intersect B = {}, NEW s, NEW t, Copies(A, s), Copies(B, t)
  PROVE  Copies(A \union B, s \o t)
<1>1. PICK r : r = s \o t
  OBVIOUS
<1>2. s \in Seq(Steps) /\ t \in Seq(Steps)
  BY DEF Copies
<1> DEFINE l == Len(s)
<1>3. /\ r \in Seq(Steps) /\ l \in Nat
      /\ \A i \in DOMAIN s : i \in DOMAIN r /\ r[i] = s[i] /\ i \in Nat /\ i <= l /\ i >= 1
      /\ \A i \in DOMAIN t : l + i \in DOMAIN r /\ r[l + i] = t[i] /\ i \in Nat /\ i >= 1
      /\ \A i \in DOMAIN r : i \in DOMAIN s \/ (i - l \in DOMAIN t /\ i = l + (i - l))
  BY <1>1, <1>2, JoinedPlaces
<1>4. \A i \in DOMAIN r : (i \in DOMAIN s /\ r[i] = s[i]) \/ \E k \in DOMAIN t : i = l + k /\ r[i] = t[k]
  BY <1>3
<1> HIDE DEF l
<1>5. ASSUME NEW i \in DOMAIN r
      PROVE  /\ r[i].do \in {"parents", "begin", "put", "mkdir", "commit"}
             /\ r[i].path \in A \union B /\ r[i].entry = CopyEntry(r[i].path)
  BY <1>4 DEF Copies
<1>6. ASSUME NEW i \in DOMAIN r, r[i].do \in {"put", "mkdir"}
      PROVE  \E j \in DOMAIN r : j < i /\ r[j].do = "parents" /\ r[j].path = r[i].path
  <2>1. CASE i \in DOMAIN s /\ r[i] = s[i]
    <3>1. PICK j \in DOMAIN s : j < i /\ s[j].do = "parents" /\ s[j].path = s[i].path
      BY <1>6, <2>1 DEF Copies
    <3> QED BY <3>1, <2>1, <1>3
  <2>2. ASSUME NEW k \in DOMAIN t, i = l + k, r[i] = t[k]
        PROVE  \E j \in DOMAIN r : j < i /\ r[j].do = "parents" /\ r[j].path = r[i].path
    <3>1. PICK j \in DOMAIN t : j < k /\ t[j].do = "parents" /\ t[j].path = t[k].path
      BY <1>6, <2>2 DEF Copies
    <3>2. l + j \in DOMAIN r /\ l + j < i /\ r[l + j] = t[j]
      BY <3>1, <2>2, <1>3
    <3> QED BY <3>1, <3>2, <2>2
  <2> QED BY <1>4, <2>1, <2>2
<1>7. ASSUME NEW i \in DOMAIN r, NEW j \in DOMAIN r, r[i].do = r[j].do, r[i].do \in {"begin", "commit"},
             r[i].path = r[j].path
      PROVE  i = j
  <2>1. CASE i \in DOMAIN s /\ r[i] = s[i] /\ j \in DOMAIN s /\ r[j] = s[j]
    BY <2>1, <1>7, CopiesOnce
  <2>2. ASSUME NEW k \in DOMAIN t, i = l + k, r[i] = t[k], NEW m \in DOMAIN t, j = l + m, r[j] = t[m]
        PROVE  i = j
    <3>1. t[k].do = t[m].do /\ t[k].do \in {"begin", "commit"} /\ t[k].path = t[m].path
      BY <2>2, <1>7
    <3>2. k = m
      BY <3>1, CopiesOnce
    <3> QED BY <3>2, <2>2
  <2>3. ASSUME NEW x \in DOMAIN s, NEW k \in DOMAIN t PROVE s[x].path # t[k].path
    BY <2>3 DEF Copies
  <2> QED BY <1>4, <1>7, <2>1, <2>2, <2>3
<1>8. ASSUME NEW j \in DOMAIN r, r[j].do = "commit"
      PROVE  \E i \in DOMAIN r : i < j /\ r[i].do = "begin" /\ r[i].path = r[j].path
  <2>1. CASE j \in DOMAIN s /\ r[j] = s[j]
    <3>1. PICK i \in DOMAIN s : i < j /\ s[i].do = "begin" /\ s[i].path = s[j].path
      BY <1>8, <2>1 DEF Copies
    <3> QED BY <3>1, <2>1, <1>3
  <2>2. ASSUME NEW k \in DOMAIN t, j = l + k, r[j] = t[k]
        PROVE  \E i \in DOMAIN r : i < j /\ r[i].do = "begin" /\ r[i].path = r[j].path
    <3>1. PICK i \in DOMAIN t : i < k /\ t[i].do = "begin" /\ t[i].path = t[k].path
      BY <1>8, <2>2 DEF Copies
    <3>2. l + i \in DOMAIN r /\ l + i < j /\ r[l + i] = t[i]
      BY <3>1, <2>2, <1>3
    <3> QED BY <3>1, <3>2, <2>2
  <2> QED BY <1>4, <2>1, <2>2
<1>9. ASSUME NEW i \in DOMAIN r, r[i].do = "begin"
      PROVE  \E j \in DOMAIN r : i < j /\ r[j].do = "commit" /\ r[j].path = r[i].path
  <2>1. CASE i \in DOMAIN s /\ r[i] = s[i]
    <3>1. PICK j \in DOMAIN s : i < j /\ s[j].do = "commit" /\ s[j].path = s[i].path
      BY <1>9, <2>1 DEF Copies
    <3> QED BY <3>1, <2>1, <1>3
  <2>2. ASSUME NEW k \in DOMAIN t, i = l + k, r[i] = t[k]
        PROVE  \E j \in DOMAIN r : i < j /\ r[j].do = "commit" /\ r[j].path = r[i].path
    <3>1. PICK j \in DOMAIN t : k < j /\ t[j].do = "commit" /\ t[j].path = t[k].path
      BY <1>9, <2>2 DEF Copies
    <3>2. l + j \in DOMAIN r /\ i < l + j /\ r[l + j] = t[j]
      BY <3>1, <2>2, <1>3
    <3> QED BY <3>1, <3>2, <2>2
  <2> QED BY <1>4, <2>1, <2>2
<1>10. Copies(A \union B, r)
  BY <1>3, <1>5, <1>6, <1>7, <1>8, <1>9 DEF Copies
<1> QED BY <1>1, <1>10

\* The empty plan copies nothing.
LEMMA NothingCopied == Copies({}, <<>>)
BY EmptySeq DEF Copies

\* The places of a plan with a step before it.
LEMMA Prepended ==
  ASSUME NEW a \in Steps, NEW s \in Seq(Steps), NEW r, r = <<a>> \o s
  PROVE  /\ r \in Seq(Steps) /\ Len(s) \in Nat /\ Len(r) = Len(s) + 1 /\ r[1] = a
         /\ \A i \in 1 .. Len(s) : r[1 + i] = s[i]
<1>1. <<a>> \in Seq(Steps) /\ Len(<<a>>) = 1 /\ <<a>>[1] = a /\ Len(s) \in Nat
  OBVIOUS
<1>2. /\ r \in Seq(Steps) /\ Len(r) = Len(<<a>>) + Len(s)
      /\ \A i \in 1 .. Len(<<a>>) + Len(s) : r[i] = IF i <= Len(<<a>>) THEN <<a>>[i] ELSE s[i - Len(<<a>>)]
  BY <1>1, ConcatProperties, Zenon
<1>3. ASSUME NEW i \in 1 .. Len(s) PROVE r[1 + i] = s[i]
  <2>1. 1 + i \in 1 .. 1 + Len(s) /\ ~(1 + i <= 1) /\ (1 + i) - 1 = i
    BY <1>1
  <2> QED BY <2>1, <1>1, <1>2
<1>4. r[1] = a
  <2>1. 1 \in 1 .. 1 + Len(s)
    BY <1>1
  <2> QED BY <2>1, <1>1, <1>2
<1> QED BY <1>1, <1>2, <1>3, <1>4

\* The places of a plan with a step after it.
LEMMA Appended ==
  ASSUME NEW c \in Steps, NEW s \in Seq(Steps), NEW r, r = s \o <<c>>
  PROVE  /\ r \in Seq(Steps) /\ Len(s) \in Nat /\ Len(r) = Len(s) + 1 /\ r[Len(s) + 1] = c
         /\ \A i \in 1 .. Len(s) : r[i] = s[i]
<1>1. <<c>> \in Seq(Steps) /\ Len(<<c>>) = 1 /\ <<c>>[1] = c /\ Len(s) \in Nat
  OBVIOUS
<1>2. /\ r \in Seq(Steps) /\ Len(r) = Len(s) + Len(<<c>>)
      /\ \A i \in 1 .. Len(s) + Len(<<c>>) : r[i] = IF i <= Len(s) THEN s[i] ELSE <<c>>[i - Len(s)]
  BY <1>1, ConcatProperties, Zenon
<1>3. ASSUME NEW i \in 1 .. Len(s) PROVE r[i] = s[i]
  <2>1. i \in 1 .. Len(s) + 1 /\ i <= Len(s)
    BY <1>1
  <2> QED BY <2>1, <1>1, <1>2
<1>4. r[Len(s) + 1] = c
  <2>1. Len(s) + 1 \in 1 .. Len(s) + 1 /\ ~(Len(s) + 1 <= Len(s)) /\ (Len(s) + 1) - Len(s) = 1
    BY <1>1
  <2> QED BY <2>1, <1>1, <1>2
<1> QED BY <1>1, <1>2, <1>3, <1>4

\* The plans of different paths, one after the other.
LEMMA CopiesFlatten ==
  ASSUME NEW s \in Seq(Seq(Steps)), NEW A, \A i \in DOMAIN s : Copies(A[i], s[i]),
         \A i \in DOMAIN s, j \in DOMAIN s : i # j => A[i] \intersect A[j] = {}
  PROVE  Copies(UNION {A[i] : i \in DOMAIN s}, FlattenSeq(s))
<1>1. Len(s) \in Nat /\ DOMAIN s = 1 .. Len(s)
  OBVIOUS
<1>2. CASE Len(s) = 0
  <2>1. FlattenSeq(s) = s
    BY <1>2, Zenon DEF FlattenSeq
  <2>2. s = <<>> /\ UNION {A[i] : i \in DOMAIN s} = {}
    BY <1>2
  <2> QED BY <2>1, <2>2, NothingCopied
<1>3. CASE Len(s) >= 1
  <2>1. PICK g \in [1 .. Len(s) -> Seq(Steps)] :
          /\ FlattenSeq(s) = g[Len(s)] /\ g[1] = s[1]
          /\ \A i \in 2 .. Len(s) : g[i] = g[i - 1] \o s[i]
    BY <1>3, Flattening
  <2> DEFINE Upon(n) == UNION {A[i] : i \in 1 .. n}
             T == {n \in Nat : n >= 1 => Copies(Upon(n), g[n])}
  <2>2. 0 \in T
    OBVIOUS
  <2>3. ASSUME NEW n \in 1 .. Len(s), n - 1 \in T PROVE n \in T
    <3>1. n \in Nat /\ n >= 1 /\ n \in DOMAIN s
      BY <1>1
    <3>2. CASE n = 1
      <4>1. Upon(1) = A[1]
        <5>1. 1 .. 1 = {1} OBVIOUS
        <5> QED BY <5>1
      <4>2. Copies(A[1], s[1]) /\ g[1] = s[1]
        BY <3>1, <3>2, <2>1
      <4>3. Copies(Upon(1), g[1])
        BY <4>1, <4>2, Zenon
      <4> HIDE DEF Upon
      <4> QED BY <3>1, <3>2, <4>3
    <3>3. CASE n # 1
      <4>1. n \in 2 .. Len(s) /\ n - 1 >= 1 /\ n - 1 \in Nat
        BY <3>1, <3>3, <1>1
      <4>2. Copies(Upon(n - 1), g[n - 1])
        BY <2>3, <4>1
      <4>3. Upon(n) = Upon(n - 1) \union A[n]
        <5>1. 1 .. n = 1 .. n - 1 \union {n} BY <3>1
        <5> QED BY <5>1
      <4>4. Upon(n - 1) \intersect A[n] = {}
        <5>1. \A i \in 1 .. n - 1 : i \in DOMAIN s /\ i # n BY <3>1, <1>1
        <5> QED BY <5>1, <3>1
      <4>5. Copies(A[n], s[n])
        BY <3>1
      <4> HIDE DEF Upon
      <4>6. Copies(Upon(n - 1) \union A[n], g[n - 1] \o s[n])
        BY <4>2, <4>4, <4>5, CopiesJoin
      <4> QED BY <4>1, <4>3, <4>6, <2>1, <3>1
    <3> QED BY <3>2, <3>3
  <2>4. \A n \in 0 .. Len(s) : n \in T
    <3>1. \A n \in 1 .. Len(s) : n - 1 \in T => n \in T
      BY <2>3
    <3> HIDE DEF T
    <3> QED BY <1>1, <2>2, <3>1, Upto
  <2>5. Len(s) \in T
    <3>1. Len(s) \in 0 .. Len(s) BY <1>1
    <3> HIDE DEF T
    <3> QED BY <3>1, <2>4
  <2>6. Copies(Upon(Len(s)), g[Len(s)])
    BY <2>5, <1>3
  <2> QED BY <2>1, <2>6, <1>1
<1> QED BY <1>1, <1>2, <1>3

ChildrenOf(p) == SetToSeq({q \in Children[p] : Lower[q] # "absent"})
ChildPlans(f, p) == [i \in DOMAIN ChildrenOf(p) |-> f[ChildrenOf(p)[i]]]
Wrapped(name, p, s) ==
  <<Do("parents", p, CopyEntry(p))>> \o Journaled(CopyEntry(p), <<Do(name, p, CopyEntry(p))>> \o s)
CopyBody(f, p) ==
  IF Lower[p] = "dir" THEN Wrapped("mkdir", p, FlattenSeq(ChildPlans(f, p)))
  ELSE <<Do("parents", p, CopyEntry(p))>> \o Journaled(CopyEntry(p), <<Do("put", p, CopyEntry(p))>>)

\* The children of a path, once each, and what is below them.
LEMMA ChildrenListed ==
  ASSUME NEW p \in Paths
  PROVE  /\ ChildrenOf(p) \in Seq(Paths)
         /\ \A i \in DOMAIN ChildrenOf(p) : ChildrenOf(p)[i] \in Children[p]
         /\ \A i \in DOMAIN ChildrenOf(p), j \in DOMAIN ChildrenOf(p) :
              ChildrenOf(p)[i] = ChildrenOf(p)[j] => i = j
<1> DEFINE C == {q \in Children[p] : Lower[q] # "absent"}
<1>1. C \subseteq Paths /\ C \subseteq Children[p]
  BY Subsets DEF Children
<1>2. IsFiniteSet(C)
  BY <1>1, ConstantsAssumption, FS_Subset DEF ConstantsAssumption
<1> HIDE DEF C
<1>3. /\ SetToSeq(C) \in Seq(C)
      /\ \A i \in DOMAIN SetToSeq(C), j \in DOMAIN SetToSeq(C) : SetToSeq(C)[i] = SetToSeq(C)[j] => i = j
  BY <1>2, SetToSeqLists
<1>4. ChildrenOf(p) = SetToSeq(C)
  BY Zenon DEF ChildrenOf, C
<1>5. ChildrenOf(p) \in Seq(Paths) /\ \A i \in DOMAIN ChildrenOf(p) : ChildrenOf(p)[i] \in C
  BY <1>1, <1>3, <1>4
<1> QED BY <1>1, <1>3, <1>4, <1>5

\* A child of a directory, and all below it, is below the directory.
LEMMA ChildIsBelow ==
  ASSUME NEW p \in Paths, NEW c \in Children[p]
  PROVE  /\ c \in Paths /\ c \in Below[p] /\ Len(c) = Len(p) + 1
         /\ From[c] \subseteq Below[p] /\ Below[c] \subseteq Below[p] /\ c \notin Below[c]
<1>1. c \in Paths /\ c \in Below[p] /\ Len(c) = Len(p) + 1
  BY Subsets DEF Children
<1>2. Below[c] \subseteq Below[p]
  BY <1>1, AboveIsOrder
<1> QED BY <1>1, <1>2, Subsets

\* How many paths are below p.
Depth(p) == Cardinality(Below[p])

\* A child has fewer names below it than its directory: the measure the recursion of a copy
\* descends by.
LEMMA ChildrenAreFewer ==
  ASSUME NEW p \in Paths
  PROVE  /\ Depth(p) \in Nat /\ Depth(p) <= Cardinality(Paths) /\ Cardinality(Paths) \in Nat
         /\ \A c \in Children[p] : Depth(c) < Depth(p)
<1>1. IsFiniteSet(Paths)
  BY ConstantsAssumption DEF ConstantsAssumption
<1>2. IsFiniteSet(Below[p]) /\ Cardinality(Below[p]) <= Cardinality(Paths)
  BY <1>1, Subsets, FS_Subset
<1>3. ASSUME NEW c \in Children[p] PROVE Depth(c) < Depth(p)
  <2>1. c \in Paths /\ Below[c] \subseteq Below[p] /\ c \in Below[p] /\ c \notin Below[c]
    BY ChildIsBelow
  <2>2. Cardinality(Below[c]) <= Cardinality(Below[p])
        /\ (Cardinality(Below[c]) = Cardinality(Below[p]) => Below[c] = Below[p])
    BY <1>2, <2>1, FS_Subset
  <2>3. Cardinality(Below[c]) \in Nat /\ Cardinality(Below[p]) \in Nat
    BY <1>1, <1>2, <2>1, Subsets, FS_Subset, FS_CardinalityType
  <2> QED BY <2>1, <2>2, <2>3 DEF Depth
<1> QED BY <1>1, <1>2, <1>3, FS_CardinalityType DEF Depth

\* The plan to copy a directory depends on the plans of its children only.
LEMMA BodyUsesChildren ==
  ASSUME NEW f, NEW g, NEW p \in Paths, \A c \in Children[p] : f[c] = g[c]
  PROVE  CopyBody(f, p) = CopyBody(g, p)
<1>1. ChildPlans(f, p) = ChildPlans(g, p)
  BY ChildrenListed DEF ChildPlans
<1> QED BY <1>1, Zenon DEF CopyBody

\* There is a function that satisfies the recursive definition of CopyUp.
LEMMA CopyUpExists ==
  \E g : g = [p \in Paths |-> CopyBody(g, p)]
<1> DEFINE T == {n \in Nat : \E f : \A p \in Paths : Depth(p) < n => f[p] = CopyBody(f, p)}
           n == Cardinality(Paths) + 1
<1>1. 0 \in T
  BY ChildrenAreFewer
<1>2. ASSUME NEW k \in Nat, k \in T PROVE k + 1 \in T
  <2>1. PICK f : \A p \in Paths : Depth(p) < k => f[p] = CopyBody(f, p)
    BY <1>2
  <2>2. PICK g : g = [p \in Paths |-> CopyBody(f, p)]
    OBVIOUS
  <2>3. ASSUME NEW p \in Paths, Depth(p) < k + 1 PROVE g[p] = CopyBody(g, p)
    <3>1. \A c \in Children[p] : c \in Paths /\ Depth(c) < k
      <4>1. \A c \in Children[p] : c \in Paths BY ChildIsBelow
      <4>2. \A c \in Children[p] : Depth(c) \in Nat BY <4>1, ChildrenAreFewer
      <4> QED BY <4>1, <4>2, <2>3, ChildrenAreFewer
    <3>2. \A c \in Children[p] : f[c] = g[c]
      BY <3>1, <2>1, <2>2
    <3>3. CopyBody(f, p) = CopyBody(g, p)
      BY <3>2, BodyUsesChildren
    <3> QED BY <2>2, <3>3
  <2> QED BY <2>3
<1>3. Nat \subseteq T
  <2>1. \A k \in Nat : k \in T => k + 1 \in T BY <1>2
  <2> HIDE DEF T
  <2> QED BY <1>1, <2>1, Induction
<1>4. PICK f : \A p \in Paths : f[p] = CopyBody(f, p)
  <2>1. Cardinality(Paths) \in Nat
    BY ConstantsAssumption, FS_CardinalityType DEF ConstantsAssumption
  <2>2. n \in T
    <3> HIDE DEF T
    <3> QED BY <2>1, <1>3
  <2>3. \A p \in Paths : Depth(p) < n
    BY <2>1, ChildrenAreFewer
  <2> QED BY <2>2, <2>3
<1>5. PICK g : g = [p \in Paths |-> CopyBody(f, p)]
  OBVIOUS
<1>6. ASSUME NEW p \in Paths PROVE CopyBody(f, p) = CopyBody(g, p)
  <2>1. \A c \in Children[p] : f[c] = g[c]
    BY ChildIsBelow, <1>4, <1>5
  <2> QED BY <2>1, BodyUsesChildren
<1>7. g = [p \in Paths |-> CopyBody(g, p)]
  BY <1>5, <1>6
<1> QED BY <1>7

\* CopyUp is one, so its plan for a name is made of those of the children.
LEMMA CopyUpByBody ==
  \A p \in Paths : CopyUp[p] = CopyBody(CopyUp, p)
<1> DEFINE Body(f) ==
      [p \in Paths |->
        IF Lower[p] = "dir"
        THEN LET e == Entry("copy-up-dir", p, p, FALSE)
                 children == SetToSeq({q \in Children[p] : Lower[q] # "absent"})
             IN <<Do("parents", p, e)>>
                \o Journaled(e, <<Do("mkdir", p, e)>>
                                \o FlattenSeq([i \in DOMAIN children |-> f[children[i]]]))
        ELSE LET e == Entry("copy-up", p, p, FALSE)
             IN <<Do("parents", p, e)>> \o Journaled(e, <<Do("put", p, e)>>)]
<1>1. ASSUME NEW f PROVE Body(f) = [p \in Paths |-> CopyBody(f, p)]
  <2>1. ASSUME NEW p \in Paths PROVE Body(f)[p] = CopyBody(f, p)
    <3>1. CASE Lower[p] = "dir"
      BY <3>1, Zenon DEF CopyBody, Wrapped, ChildPlans, ChildrenOf, CopyEntry
    <3>2. CASE Lower[p] # "dir"
      BY <3>2, Zenon DEF CopyBody, CopyEntry
    <3> QED BY <3>1, <3>2
  <2> QED BY <2>1, Zenon
<1>2. CopyUp = CHOOSE f : f = Body(f)
  BY Zenon DEF CopyUp
<1>3. \E f : f = Body(f)
  <2>1. PICK f : f = [p \in Paths |-> CopyBody(f, p)] BY CopyUpExists
  <2> HIDE DEF Body
  <2>2. f = Body(f) BY <2>1, <1>1, Zenon
  <2> QED BY <2>2
<1>4. CopyUp = Body(CopyUp)
  <2> HIDE DEF Body
  <2> QED BY <1>2, <1>3, Zenon
<1>5. CopyUp = [p \in Paths |-> CopyBody(CopyUp, p)]
  BY <1>1, <1>4, Zenon
<1> QED BY <1>5, Zenon

\* A plan that copies names of a set copies names of any larger one.
LEMMA CopiesMore ==
  ASSUME NEW A, NEW B, A \subseteq B, NEW c, Copies(A, c)
  PROVE  Copies(B, c)
BY DEF Copies

\* The journal record of a copy, and a step under it.
LEMMA CopyEntryIsEntry ==
  ASSUME NEW p \in Paths, NEW name \in StepNames
  PROVE  /\ CopyEntry(p) \in Entries
         /\ CopyEntry(p).path = p /\ CopyEntry(p).kind \in {"copy-up", "copy-up-dir"}
         /\ Do(name, p, CopyEntry(p)) \in Steps
         /\ Do(name, p, CopyEntry(p)).do = name /\ Do(name, p, CopyEntry(p)).path = p
         /\ Do(name, p, CopyEntry(p)).entry = CopyEntry(p)
<1>1. CopyEntry(p) \in Entries /\ CopyEntry(p).path = p /\ CopyEntry(p).kind \in {"copy-up", "copy-up-dir"}
  BY DEF CopyEntry, Entry, Entries, Kinds
<1> QED BY <1>1 DEF Do, Steps

\* A step, the record, and in it a step and a plan: by place.
At(step, name, p) == step.do = name /\ step.path = p /\ step.entry = CopyEntry(p)

\* Where the steps of a copied node stand: parents, begin, the node, what is below, commit.
WrappedAt(r, name, p, s) ==
  \E n \in Nat :
    /\ n = Len(s) /\ r \in Seq(Steps) /\ DOMAIN r = 1 .. n + 4
    /\ At(r[1], "parents", p) /\ At(r[2], "begin", p)
    /\ At(r[3], name, p) /\ At(r[n + 4], "commit", p)
    /\ \A i \in 1 .. n : r[3 + i] = s[i]

\* The plan that wraps a copied node has its steps in these places.
LEMMA WrappedPlaces ==
  ASSUME NEW p \in Paths, NEW name \in {"put", "mkdir"}, NEW s \in Seq(Steps),
         NEW r, r = Wrapped(name, p, s)
  PROVE  WrappedAt(r, name, p, s)
<1>n. "parents" \in StepNames /\ "begin" \in StepNames /\ name \in StepNames /\ "commit" \in StepNames
  BY DEF StepNames
<1>a. PICK a : a = Do("parents", p, CopyEntry(p))
  OBVIOUS
<1>b. PICK b : b = Do("begin", p, CopyEntry(p))
  OBVIOUS
<1>m. PICK m : m = Do(name, p, CopyEntry(p))
  OBVIOUS
<1>c. PICK c : c = Do("commit", p, CopyEntry(p))
  OBVIOUS
<1>s. a \in Steps /\ b \in Steps /\ m \in Steps /\ c \in Steps
  BY <1>a, <1>b, <1>m, <1>c, <1>n, CopyEntryIsEntry
<1>f. At(a, "parents", p) /\ At(b, "begin", p) /\ At(m, name, p) /\ At(c, "commit", p)
  BY <1>a, <1>b, <1>m, <1>c, <1>n, CopyEntryIsEntry DEF At
<1>e. r = <<a>> \o (<<b>> \o (<<m>> \o s) \o <<c>>)
  <2>1. CopyEntry(p).path = p
    BY <1>n, CopyEntryIsEntry
  <2> QED BY <2>1, <1>a, <1>b, <1>m, <1>c, Zenon DEF Wrapped, Journaled
<1>1. PICK x : x = <<m>> \o s
  OBVIOUS
<1>2. PICK y : y = <<b>> \o x
  OBVIOUS
<1>3. PICK z : z = y \o <<c>>
  OBVIOUS
<1>4. r = <<a>> \o z
  BY <1>1, <1>2, <1>3, <1>e, Zenon
<1>5. PICK n \in Nat : n = Len(s)
  OBVIOUS
<1>6. /\ x \in Seq(Steps) /\ Len(x) = n + 1 /\ x[1] = m
      /\ \A i \in 1 .. n : x[1 + i] = s[i]
  BY <1>s, <1>1, <1>5, Prepended
<1>7. /\ y \in Seq(Steps) /\ Len(y) = n + 1 + 1 /\ y[1] = b
      /\ \A i \in 1 .. n + 1 : y[1 + i] = x[i]
  <2>1. x \in Seq(Steps)
    BY <1>6
  <2> QED BY <1>s, <2>1, <1>6, <1>2, Prepended
<1>8. /\ z \in Seq(Steps) /\ Len(z) = n + 1 + 1 + 1 /\ z[n + 1 + 1 + 1] = c
      /\ \A i \in 1 .. n + 1 + 1 : z[i] = y[i]
  <2>1. y \in Seq(Steps)
    BY <1>7
  <2> QED BY <1>s, <2>1, <1>7, <1>3, Appended
<1>9. /\ r \in Seq(Steps) /\ Len(r) = n + 1 + 1 + 1 + 1 /\ r[1] = a
      /\ \A i \in 1 .. n + 1 + 1 + 1 : r[1 + i] = z[i]
  <2>1. z \in Seq(Steps)
    BY <1>8
  <2> QED BY <1>s, <2>1, <1>8, <1>4, Prepended
<1>10. r[2] = b /\ r[3] = m
  <2>1. /\ 1 \in 1 .. n + 1 + 1 + 1 /\ 2 \in 1 .. n + 1 + 1 + 1 /\ 1 + 1 = 2 /\ 1 + 2 = 3
        /\ 1 \in 1 .. n + 1 + 1 /\ 2 \in 1 .. n + 1 + 1 /\ 1 \in 1 .. n + 1
    OBVIOUS
  <2>2. r[2] = z[1] /\ r[3] = z[2]
    BY <2>1, <1>9
  <2>3. z[1] = y[1] /\ z[2] = y[2]
    BY <2>1, <1>8
  <2>4. y[2] = x[1]
    BY <2>1, <1>7
  <2> QED BY <2>2, <2>3, <2>4, <1>6, <1>7
<1>11. r[n + 4] = c
  <2>1. n + 1 + 1 + 1 \in 1 .. n + 1 + 1 + 1 /\ 1 + (n + 1 + 1 + 1) = n + 4
    OBVIOUS
  <2>2. r[1 + (n + 1 + 1 + 1)] = z[n + 1 + 1 + 1]
    BY <2>1, <1>9
  <2> QED BY <2>1, <2>2, <1>8
<1>12. ASSUME NEW i \in 1 .. n PROVE r[3 + i] = s[i]
  <2>1. /\ 2 + i \in 1 .. n + 1 + 1 + 1 /\ 1 + (2 + i) = 3 + i
        /\ 2 + i \in 1 .. n + 1 + 1 /\ 1 + i \in 1 .. n + 1 /\ 1 + (1 + i) = 2 + i
    OBVIOUS
  <2>2. r[3 + i] = z[2 + i]
    <3>1. r[1 + (2 + i)] = z[2 + i] BY <2>1, <1>9
    <3> QED BY <2>1, <3>1
  <2>3. z[2 + i] = y[2 + i]
    BY <2>1, <1>8
  <2>4. y[2 + i] = x[1 + i]
    <3>1. y[1 + (1 + i)] = x[1 + i] BY <2>1, <1>7
    <3> QED BY <2>1, <3>1
  <2>5. x[1 + i] = s[i]
    BY <1>6
  <2> QED BY <2>2, <2>3, <2>4, <2>5
<1>13. DOMAIN r = 1 .. n + 4
  BY <1>9
<1>14. r[1] = a /\ \A i \in 1 .. n : r[3 + i] = s[i]
  BY <1>9, <1>12
<1> QED BY <1>5, <1>9, <1>10, <1>11, <1>13, <1>14, <1>f, Zenon DEF WrappedAt

\* A path put before what is below it.
LEMMA WrappedCopies ==
  ASSUME NEW p \in Paths, NEW A \in SUBSET Paths, p \notin A, NEW s, Copies(A, s),
         NEW name \in {"put", "mkdir"}, NEW r, r = Wrapped(name, p, s)
  PROVE  /\ Copies(A \union {p}, r)
         /\ \E i \in DOMAIN r : r[i].do = name /\ r[i].path = p
<1>2. s \in Seq(Steps)
  BY DEF Copies
<1>3. PICK n \in Nat :
           /\ n = Len(s) /\ r \in Seq(Steps) /\ DOMAIN r = 1 .. n + 4
           /\ At(r[1], "parents", p) /\ At(r[2], "begin", p)
           /\ At(r[3], name, p) /\ At(r[n + 4], "commit", p)
           /\ \A i \in 1 .. n : r[3 + i] = s[i]
  <2>1. WrappedAt(r, name, p, s) BY <1>2, WrappedPlaces
  <2> QED BY <2>1 DEF WrappedAt
<1>1. /\ r[1].do = "parents" /\ r[1].path = p /\ r[1].entry = CopyEntry(p)
      /\ r[2].do = "begin" /\ r[2].path = p /\ r[2].entry = CopyEntry(p)
      /\ r[3].do = name /\ r[3].path = p /\ r[3].entry = CopyEntry(p)
      /\ r[n + 4].do = "commit" /\ r[n + 4].path = p /\ r[n + 4].entry = CopyEntry(p)
  BY <1>3 DEF At
<1>5. /\ r \in Seq(Steps) /\ n \in Nat /\ DOMAIN r = 1 .. n + 4
      /\ \A i \in 1 .. n : r[3 + i] = s[i]
  BY <1>3
<1>d. DOMAIN s = 1 .. n
  BY <1>2, <1>3
<1>6. /\ 1 \in DOMAIN r /\ 2 \in DOMAIN r /\ 3 \in DOMAIN r /\ n + 4 \in DOMAIN r
      /\ \A i \in DOMAIN s : 3 + i \in DOMAIN r /\ i \in Nat /\ r[3 + i] = s[i]
      /\ \A i \in DOMAIN r : \/ i = 1
                             \/ i = 2
                             \/ i = 3
                             \/ i = n + 4
                             \/ \E k \in DOMAIN s : i = 3 + k /\ r[i] = s[k]
  <2>1. n \in Nat
    BY <1>5
  <2>2. 1 \in 1 .. n + 4 /\ 2 \in 1 .. n + 4 /\ 3 \in 1 .. n + 4 /\ n + 4 \in 1 .. n + 4
    BY <2>1
  <2>3. \A i \in 1 .. n : 3 + i \in 1 .. n + 4 /\ i \in Nat
    BY <2>1
  <2>4. \A i \in 1 .. n + 4 : i \in {1, 2, 3, n + 4} \/ \E k \in 1 .. n : i = 3 + k
    <3>1. \A i \in 1 .. n + 4 : i \in {1, 2, 3, n + 4} \/ (i - 3 \in 1 .. n /\ i = 3 + (i - 3))
      BY <2>1
    <3> QED BY <3>1
  <2>5. \A i \in DOMAIN s : 3 + i \in DOMAIN r /\ i \in Nat /\ r[3 + i] = s[i]
    BY <1>d, <2>3, <1>5, Zenon
  <2>6. ASSUME NEW i \in DOMAIN r
        PROVE  \/ i = 1
               \/ i = 2
               \/ i = 3
               \/ i = n + 4
               \/ \E k \in DOMAIN s : i = 3 + k /\ r[i] = s[k]
    <3>1. i \in {1, 2, 3, n + 4} \/ \E k \in DOMAIN s : i = 3 + k
      BY <1>d, <2>4, <1>5, Zenon
    <3>2. \A k \in DOMAIN s : r[3 + k] = s[k]
      BY <2>5
    <3> QED BY <3>1, <3>2, <1>5, Zenon
  <2> QED BY <2>2, <2>5, <2>6, <1>5, Zenon
<1>7. \A k \in DOMAIN s : /\ s[k].do \in {"parents", "begin", "put", "mkdir", "commit"}
                          /\ s[k].path \in A /\ s[k].entry = CopyEntry(s[k].path)
  BY DEF Copies
<1>8. ASSUME NEW i \in DOMAIN r
      PROVE  /\ r[i].do \in {"parents", "begin", "put", "mkdir", "commit"}
             /\ r[i].path \in A \union {p} /\ r[i].entry = CopyEntry(r[i].path)
  BY <1>1, <1>5, <1>6, <1>7
<1>9. ASSUME NEW i \in DOMAIN r, r[i].do \in {"put", "mkdir"}
      PROVE  \E j \in DOMAIN r : j < i /\ r[j].do = "parents" /\ r[j].path = r[i].path
  <2>1. CASE i = 3
    BY <2>1, <1>1, <1>5, <1>6
  <2>2. ASSUME NEW k \in DOMAIN s, i = 3 + k, r[i] = s[k]
        PROVE  \E j \in DOMAIN r : j < i /\ r[j].do = "parents" /\ r[j].path = r[i].path
    <3>1. PICK j \in DOMAIN s : j < k /\ s[j].do = "parents" /\ s[j].path = s[k].path
      BY <1>9, <2>2 DEF Copies
    <3>2. 3 + j \in DOMAIN r /\ 3 + j < i /\ r[3 + j] = s[j]
      BY <3>1, <2>2, <1>6
    <3> QED BY <3>1, <3>2, <2>2
  <2> QED BY <1>1, <1>5, <1>6, <1>9, <2>1, <2>2
<1>10. ASSUME NEW i \in DOMAIN r, NEW j \in DOMAIN r, r[i].do = r[j].do, r[i].do \in {"begin", "commit"},
              r[i].path = r[j].path
       PROVE  i = j
  <2>1. \A k \in DOMAIN s : s[k].path # p
    BY <1>7
  <2>2. ASSUME NEW x \in DOMAIN s, i = 3 + x, r[i] = s[x], NEW y \in DOMAIN s, j = 3 + y, r[j] = s[y]
        PROVE  i = j
    <3>1. s[x].do = s[y].do /\ s[x].do \in {"begin", "commit"} /\ s[x].path = s[y].path
      BY <2>2, <1>10
    <3>2. x = y
      BY <3>1, CopiesOnce
    <3> QED BY <3>2, <2>2
  <2>3. \A l \in DOMAIN r : \/ l = 1 /\ r[l].do = "parents"
                            \/ l = 2 /\ r[l].do = "begin" /\ r[l].path = p
                            \/ l = 3 /\ r[l].do = name
                            \/ l = n + 4 /\ r[l].do = "commit" /\ r[l].path = p
                            \/ \E k \in DOMAIN s : l = 3 + k /\ r[l] = s[k] /\ r[l].path # p
    BY <1>1, <1>5, <1>6, <2>1
  <2> QED BY <1>10, <2>2, <2>3
<1>11. ASSUME NEW j \in DOMAIN r, r[j].do = "commit"
       PROVE  \E i \in DOMAIN r : i < j /\ r[i].do = "begin" /\ r[i].path = r[j].path
  <2>1. CASE j = n + 4
    <3>1. 2 < j BY <2>1, <1>5
    <3> QED BY <2>1, <3>1, <1>1, <1>5, <1>6
  <2>2. ASSUME NEW k \in DOMAIN s, j = 3 + k, r[j] = s[k]
        PROVE  \E i \in DOMAIN r : i < j /\ r[i].do = "begin" /\ r[i].path = r[j].path
    <3>1. PICK i \in DOMAIN s : i < k /\ s[i].do = "begin" /\ s[i].path = s[k].path
      BY <1>11, <2>2 DEF Copies
    <3>2. 3 + i \in DOMAIN r /\ 3 + i < j /\ r[3 + i] = s[i]
      BY <3>1, <2>2, <1>6
    <3> QED BY <3>1, <3>2, <2>2
  <2> QED BY <1>1, <1>5, <1>6, <1>11, <2>1, <2>2
<1>12. ASSUME NEW i \in DOMAIN r, r[i].do = "begin"
       PROVE  \E j \in DOMAIN r : i < j /\ r[j].do = "commit" /\ r[j].path = r[i].path
  <2>1. CASE i = 2
    <3>1. i < n + 4 BY <2>1, <1>5
    <3> QED BY <2>1, <3>1, <1>1, <1>5, <1>6
  <2>2. ASSUME NEW k \in DOMAIN s, i = 3 + k, r[i] = s[k]
        PROVE  \E j \in DOMAIN r : i < j /\ r[j].do = "commit" /\ r[j].path = r[i].path
    <3>1. PICK j \in DOMAIN s : k < j /\ s[j].do = "commit" /\ s[j].path = s[k].path
      BY <1>12, <2>2 DEF Copies
    <3>2. 3 + j \in DOMAIN r /\ i < 3 + j /\ r[3 + j] = s[j]
      BY <3>1, <2>2, <1>6
    <3> QED BY <3>1, <3>2, <2>2
  <2> QED BY <1>1, <1>5, <1>6, <1>12, <2>1, <2>2
<1>13. Copies(A \union {p}, r)
  BY <1>5, <1>8, <1>9, <1>10, <1>11, <1>12 DEF Copies
<1> QED BY <1>13, <1>1, <1>6

CopiedBelow(p) ==
  /\ Copies(From[p], CopyUp[p])
  /\ Lower[p] = "dir" => \E i \in DOMAIN CopyUp[p] : CopyUp[p][i].do = "mkdir" /\ CopyUp[p][i].path = p

\* The plan for a name copies what is from it on, when those of its children do.
LEMMA CopyUpStep ==
  ASSUME NEW p \in Paths, \A c \in Children[p] : CopiedBelow(c)
  PROVE  CopiedBelow(p)
<1>1. From[p] = Below[p] \union {p} /\ p \notin Below[p] /\ Below[p] \subseteq Paths
  BY Subsets
<1>2. CopyUp[p] = CopyBody(CopyUp, p)
  BY CopyUpByBody
<1>3. CASE Lower[p] = "dir"
  <2> DEFINE l == ChildrenOf(p)
             s == ChildPlans(CopyUp, p)
             A == [i \in DOMAIN l |-> From[l[i]]]
  <2>1. l \in Seq(Paths) /\ (\A i \in DOMAIN l : l[i] \in Children[p])
        /\ \A i \in DOMAIN l, j \in DOMAIN l : l[i] = l[j] => i = j
    BY ChildrenListed
  <2>2. DOMAIN s = DOMAIN l /\ \A i \in DOMAIN l : s[i] = CopyUp[l[i]]
    BY DEF ChildPlans
  <2>3. \A i \in DOMAIN l : Copies(From[l[i]], CopyUp[l[i]])
    BY <2>1 DEF CopiedBelow
  <2>4. s \in Seq(Seq(Steps))
    <3>1. \A i \in DOMAIN l : s[i] \in Seq(Steps)
      BY <2>2, <2>3 DEF Copies
    <3>2. DOMAIN l = 1 .. Len(l) /\ Len(l) \in Nat
      BY <2>1
    <3>3. s = [i \in 1 .. Len(l) |-> s[i]]
      BY <3>2, Zenon DEF ChildPlans
    <3> HIDE DEF l, s
    <3> QED BY <3>1, <3>2, <3>3, <2>2, IsASeq
  <2>5. \A i \in DOMAIN s : A[i] = From[l[i]]
    BY <2>2
  <2>6. \A i \in DOMAIN s : Copies(A[i], s[i])
    BY <2>2, <2>3, <2>5
  <2>7. ASSUME NEW i \in DOMAIN s, NEW j \in DOMAIN s, i # j PROVE A[i] \intersect A[j] = {}
    <3>1. /\ l[i] \in Paths /\ l[j] \in Paths /\ l[i] # l[j] /\ Len(l[i]) = Len(p) + 1 /\ Len(l[j]) = Len(p) + 1
      BY <2>1, <2>2, <2>7, ChildIsBelow
    <3>2. Len(p) \in Nat
      BY PathIsSeq
    <3>3. l[i] \notin From[l[j]] /\ l[j] \notin From[l[i]]
      <4>1. \A x \in Paths, y \in Paths : x \in From[y] /\ x # y => y \in Above[x]
        BY Subsets, AboveIsOrder
      <4>2. l[i] \notin Above[l[j]] /\ l[j] \notin Above[l[i]]
        <5> HIDE DEF l
        <5> QED BY <3>1, <3>2, AboveIsOrder
      <4> HIDE DEF l
      <4> QED BY <3>1, <4>1, <4>2
    <3>4. ASSUME NEW x, x \in From[l[i]], x \in From[l[j]] PROVE FALSE
      <4>1. x \in Paths
        <5> HIDE DEF l
        <5> QED BY <3>1, <3>4, Subsets
      <4> HIDE DEF l
      <4>2. l[i] \in From[l[j]] \/ l[j] \in From[l[i]]
        BY <3>1, <3>4, <4>1, AboveIsLinear
      <4> QED BY <3>3, <4>2
    <3>5. A[i] = From[l[i]] /\ A[j] = From[l[j]]
      BY <2>5
    <3> HIDE DEF A, l
    <3> QED BY <3>4, <3>5
  <2> DEFINE B == UNION {A[i] : i \in DOMAIN s}
  <2>8. Copies(B, FlattenSeq(s))
    <3> HIDE DEF A, s
    <3> QED BY <2>4, <2>6, <2>7, CopiesFlatten
  <2>9. B \subseteq Below[p]
    BY <2>1, <2>2, <2>5, ChildIsBelow
  <2> HIDE DEF B, s
  <2>10. Copies(Below[p], FlattenSeq(s))
    BY <2>8, <2>9, CopiesMore
  <2>11. CopyUp[p] = Wrapped("mkdir", p, FlattenSeq(s))
    BY <1>2, <1>3, Zenon DEF CopyBody, s
  <2>12. /\ Copies(Below[p] \union {p}, CopyUp[p])
         /\ \E i \in DOMAIN CopyUp[p] : CopyUp[p][i].do = "mkdir" /\ CopyUp[p][i].path = p
    <3>1. PICK f : f = FlattenSeq(s)
      OBVIOUS
    <3>2. PICK D \in SUBSET Paths : D = Below[p]
      BY <1>1
    <3>3. PICK g : g = CopyUp[p]
      OBVIOUS
    <3>4. p \notin D /\ Copies(D, f) /\ g = Wrapped("mkdir", p, f)
      BY <1>1, <3>1, <3>2, <3>3, <2>10, <2>11
    <3>5. Copies(D \union {p}, g) /\ \E i \in DOMAIN g : g[i].do = "mkdir" /\ g[i].path = p
      BY <3>4, WrappedCopies
    <3> QED BY <3>2, <3>3, <3>5
  <2> QED BY <1>1, <2>12 DEF CopiedBelow
<1>4. CASE Lower[p] # "dir"
  <2> DEFINE e == CopyEntry(p)
  <2>1. <<Do("put", p, e)>> \o <<>> = <<Do("put", p, e)>>
    <3>1. Do("put", p, e) \in Steps
      BY CopyEntryIsEntry DEF StepNames
    <3> HIDE DEF e
    <3>2. <<Do("put", p, e)>> \in Seq(Steps)
      BY <3>1
    <3> QED BY <3>2, ConcatEmptySeq
  <2>2. CopyUp[p] = Wrapped("put", p, <<>>)
    BY <1>2, <1>4, <2>1, Zenon DEF CopyBody, Wrapped
  <2>3. Copies({} \union {p}, CopyUp[p])
    <3>1. PICK f : f = <<>>
      OBVIOUS
    <3>2. PICK D \in SUBSET Paths : D = {}
      OBVIOUS
    <3>3. PICK g : g = CopyUp[p]
      OBVIOUS
    <3>4. p \notin D /\ Copies(D, f) /\ g = Wrapped("put", p, f)
      BY <3>1, <3>2, <3>3, <2>2, NothingCopied
    <3>5. Copies(D \union {p}, g)
      BY <3>4, WrappedCopies
    <3> QED BY <3>2, <3>3, <3>5
  <2>4. {} \union {p} \subseteq From[p]
    BY <1>1
  <2> QED BY <1>4, <2>3, <2>4, CopiesMore DEF CopiedBelow
<1> QED BY <1>3, <1>4

\* What a copy-up of p does: it stays at p and below, and makes p if it is a directory.
LEMMA CopyUpCopies == \A p \in Paths : CopiedBelow(p)
<1> DEFINE T == {n \in Nat : \A p \in Paths : Depth(p) < n => CopiedBelow(p)}
<1>1. 0 \in T
  BY ChildrenAreFewer
<1>2. ASSUME NEW n \in Nat, n \in T PROVE n + 1 \in T
  <2>1. ASSUME NEW p \in Paths, Depth(p) < n + 1 PROVE CopiedBelow(p)
    <3>1. \A c \in Children[p] : c \in Paths
      BY ChildIsBelow
    <3>2. \A c \in Children[p] : Depth(c) \in Nat /\ Depth(p) \in Nat /\ Depth(c) < Depth(p)
      BY <3>1, ChildrenAreFewer
    <3>3. \A c \in Children[p] : Depth(c) < n
      BY <3>2, <2>1
    <3>4. \A c \in Children[p] : CopiedBelow(c)
      BY <3>1, <3>3, <1>2
    <3> QED BY <3>4, CopyUpStep
  <2> QED BY <2>1
<1>3. Nat \subseteq T
  <2>1. \A n \in Nat : n \in T => n + 1 \in T BY <1>2
  <2> HIDE DEF T
  <2> QED BY <1>1, <2>1, Induction
<1>4. ASSUME NEW p \in Paths PROVE CopiedBelow(p)
  <2>1. Depth(p) \in Nat
    BY ChildrenAreFewer
  <2>2. Depth(p) + 1 \in T
    <3> HIDE DEF T
    <3> QED BY <2>1, <1>3
  <2> QED BY <2>1, <2>2
<1> QED BY <1>4

-----------------------------------------------------------------------------
(* Overlay: plans that operations start with                               *)

\* Records of a plan are begun before they are committed.
Matched(s) ==
  \A j \in DOMAIN s : s[j].do = "commit" => \E i \in DOMAIN s : s[i].do = "begin" /\ s[i].entry = s[j].entry

\* A plan as far as it has been put together, but for how it ends.
Grown(u, ms, s) ==
  /\ s \in Seq(Steps) /\ Shaped(s)
  /\ Ready(u, s) /\ Unmarks(ms, s) /\ MarksLast(u, s) /\ Paired(s) /\ Matched(s)

\* What the next step of a plan has to find in the steps before it.
IsMade(u, s, p) ==
  \/ Placed(u, p)
  \/ \E j \in DOMAIN s : s[j].do = "parents" /\ s[j].path = p
  \/ \E j \in DOMAIN s : s[j].do = "mkdir" /\ Len(p) > 1 /\ s[j].path = Parent(p)

IsUnmarked(ms, s, p) == p \notin ms \/ \E j \in DOMAIN s : s[j].do = "clear" /\ s[j].path = p

IsGone(u, s, p) ==
  \/ s # <<>> /\ s[Len(s)].do \in {"remove", "move"} /\ s[Len(s)].path = p
  \/ u[p] = "absent" /\ \A j \in DOMAIN s : s[j].do \in {"parents", "begin"} /\ s[j].path = p

Fits(u, ms, s, x) ==
  /\ Apart(x.entry)
  /\ x.do = "move" => x.entry.kind = "rename" /\ x.entry.path = x.path
  /\ x.do \in Building =>
       /\ \A j \in DOMAIN s : s[j].do \notin Emptying
       /\ IsMade(u, s, Target(x)) /\ IsUnmarked(ms, s, Target(x))
  /\ x.do # "commit" => \A j \in DOMAIN s : s[j].do # "mark"
  /\ x.do = "mark" => IsGone(u, s, x.path)
  /\ x.do = "begin" => \A j \in DOMAIN s : s[j].do = "commit" => s[j].entry # x.entry
  /\ x.do = "commit" =>
       /\ \A j \in DOMAIN s :
            s[j].do = "commit" => ~(s[j].entry.kind = x.entry.kind /\ s[j].entry.path = x.entry.path)
       /\ \E j \in DOMAIN s : s[j].do = "begin" /\ s[j].entry = x.entry

\* The empty plan is one that can be extended.
LEMMA NothingGrown ==
  ASSUME NEW u, NEW ms
  PROVE  Grown(u, ms, <<>>)
BY EmptySeq, NothingPlanned DEF Grown, Planned, Matched

\* Where the steps of a plan are found when one more is put after them.
AppendedAt(r, s, x) ==
  \E n \in Nat :
    /\ n = Len(s) /\ r \in Seq(Steps) /\ Len(r) = n + 1
    /\ n + 1 \in DOMAIN r /\ r[n + 1] = x
    /\ \A i \in DOMAIN s : i \in DOMAIN r /\ r[i] = s[i] /\ i \in Nat /\ i >= 1 /\ i <= n
    /\ \A i \in DOMAIN r : i \in DOMAIN s \/ i = n + 1

\* A plan with one more step has its steps in these places.
LEMMA AppendedPlaces ==
  ASSUME NEW s \in Seq(Steps), NEW x \in Steps, NEW r, r = s \o <<x>>
  PROVE  AppendedAt(r, s, x)
<1>1. PICK n \in Nat : n = Len(s)
  OBVIOUS
<1>2. /\ r \in Seq(Steps) /\ Len(r) = n + 1 /\ r[n + 1] = x
      /\ \A i \in 1 .. n : r[i] = s[i]
  BY <1>1, Appended
<1>3. DOMAIN s = 1 .. n
  BY <1>1
<1>4. DOMAIN r = 1 .. n + 1
  BY <1>2
<1>5. n + 1 \in 1 .. n + 1 /\ \A i \in 1 .. n : i \in 1 .. n + 1 /\ i \in Nat /\ i >= 1 /\ i <= n
  OBVIOUS
<1>6. \A i \in 1 .. n + 1 : i \in 1 .. n \/ i = n + 1
  OBVIOUS
<1> QED BY <1>1, <1>2, <1>3, <1>4, <1>5, <1>6, Zenon DEF AppendedAt

\* A plan grows by a step that fits it.
LEMMA Grows ==
  ASSUME NEW u, NEW ms, NEW s, Grown(u, ms, s), NEW x \in Steps, Fits(u, ms, s, x), NEW r, r = s \o <<x>>
  PROVE  Grown(u, ms, r)
<1>1. PICK n \in Nat :
           /\ n = Len(s) /\ r \in Seq(Steps) /\ Len(r) = n + 1
           /\ n + 1 \in DOMAIN r /\ r[n + 1] = x
           /\ \A i \in DOMAIN s : i \in DOMAIN r /\ r[i] = s[i] /\ i \in Nat /\ i >= 1 /\ i <= n
           /\ \A i \in DOMAIN r : i \in DOMAIN s \/ i = n + 1
  <2>1. s \in Seq(Steps) BY DEF Grown
  <2>2. AppendedAt(r, s, x) BY <2>1, AppendedPlaces
  <2> QED BY <2>2 DEF AppendedAt
<1>2. /\ s \in Seq(Steps) /\ Shaped(s) /\ Ready(u, s) /\ Unmarks(ms, s) /\ MarksLast(u, s)
      /\ Paired(s) /\ Matched(s)
  BY DEF Grown
<1>3. Shaped(r)
  BY <1>1, <1>2 DEF Fits, Shaped
<1>4. Ready(u, r)
  <2>1. ASSUME NEW i \in DOMAIN r, r[i].do \in Building
        PROVE  /\ \A j \in DOMAIN r : j < i => r[j].do \notin Emptying
               /\ \/ Placed(u, Target(r[i]))
                  \/ \E j \in DOMAIN r :
                       j < i /\ r[j].do = "parents" /\ r[j].path = Target(r[i])
                  \/ \E j \in DOMAIN r :
                       /\ j < i /\ r[j].do = "mkdir"
                       /\ Len(Target(r[i])) > 1 /\ r[j].path = Parent(Target(r[i]))
    <3>1. CASE i \in DOMAIN s
      <4>1. r[i] = s[i] /\ i <= n /\ i \in Nat
        BY <3>1, <1>1
      <4>2. /\ \A j \in DOMAIN s : j < i => s[j].do \notin Emptying
            /\ \/ Placed(u, Target(s[i]))
               \/ \E j \in DOMAIN s :
                    j < i /\ s[j].do = "parents" /\ s[j].path = Target(s[i])
               \/ \E j \in DOMAIN s :
                    /\ j < i /\ s[j].do = "mkdir"
                    /\ Len(Target(s[i])) > 1 /\ s[j].path = Parent(Target(s[i]))
        BY <2>1, <3>1, <4>1, <1>2 DEF Ready
      <4>3. \A j \in DOMAIN r : j < i => r[j].do \notin Emptying
        BY <4>1, <4>2, <1>1
      <4>4. \A j \in DOMAIN s : j \in DOMAIN r /\ r[j] = s[j]
        BY <1>1
      <4> QED BY <4>1, <4>2, <4>3, <4>4
    <3>2. CASE i = n + 1
      <4>1. r[i] = x /\ x.do \in Building
        BY <3>2, <2>1, <1>1
      <4>2. (\A j \in DOMAIN s : s[j].do \notin Emptying) /\ IsMade(u, s, Target(x))
        BY <4>1 DEF Fits
      <4>3. \A j \in DOMAIN s : j \in DOMAIN r /\ r[j] = s[j] /\ j < i
        BY <3>2, <1>1
      <4>4. \A j \in DOMAIN r : j < i => r[j].do \notin Emptying
        BY <4>2, <3>2, <1>1
      <4> QED BY <4>1, <4>2, <4>3, <4>4 DEF IsMade
    <3> QED BY <1>1, <3>1, <3>2
  <2> QED BY <2>1 DEF Ready
<1>5. Unmarks(ms, r)
  <2>1. ASSUME NEW i \in DOMAIN r, r[i].do \in Building
        PROVE  \/ Target(r[i]) \notin ms
               \/ \E j \in DOMAIN r : j < i /\ r[j].do = "clear" /\ r[j].path = Target(r[i])
    <3>1. CASE i \in DOMAIN s
      BY <3>1, <2>1, <1>1, <1>2 DEF Unmarks
    <3>2. CASE i = n + 1
      <4>1. r[i] = x /\ x.do \in Building
        BY <3>2, <2>1, <1>1
      <4>2. IsUnmarked(ms, s, Target(x))
        BY <4>1 DEF Fits
      <4>3. \A j \in DOMAIN s : j \in DOMAIN r /\ r[j] = s[j] /\ j < i
        BY <3>2, <1>1
      <4> QED BY <4>1, <4>2, <4>3 DEF IsUnmarked
    <3> QED BY <1>1, <3>1, <3>2
  <2> QED BY <2>1 DEF Unmarks
<1>6. MarksLast(u, r)
  <2>1. ASSUME NEW i \in DOMAIN r, r[i].do = "mark"
        PROVE  /\ \A j \in DOMAIN r : j > i => r[j].do = "commit"
               /\ \/ /\ i > 1 /\ r[i - 1].do \in {"remove", "move"} /\ r[i - 1].path = r[i].path
                  \/ /\ u[r[i].path] = "absent"
                     /\ \A j \in DOMAIN r : j < i => r[j].do \in {"parents", "begin"} /\ r[j].path = r[i].path
    <3>1. CASE i \in DOMAIN s
      <4>1. r[i] = s[i] /\ i <= n /\ i \in Nat
        BY <3>1, <1>1
      <4>2. /\ \A j \in DOMAIN s : j > i => s[j].do = "commit"
            /\ \/ /\ i > 1 /\ s[i - 1].do \in {"remove", "move"} /\ s[i - 1].path = s[i].path
               \/ /\ u[s[i].path] = "absent"
                  /\ \A j \in DOMAIN s : j < i => s[j].do \in {"parents", "begin"} /\ s[j].path = s[i].path
        BY <2>1, <3>1, <4>1, <1>2 DEF MarksLast
      <4>3. x.do = "commit"
        BY <2>1, <3>1, <4>1 DEF Fits
      <4>4. \A j \in DOMAIN r : j > i => r[j].do = "commit"
        BY <4>2, <4>3, <1>1
      <4>5. i > 1 => i - 1 \in DOMAIN s /\ r[i - 1] = s[i - 1]
        BY <3>1, <4>1, <1>1, <1>2
      <4>6. \A j \in DOMAIN r : j < i => j \in DOMAIN s /\ r[j] = s[j]
        BY <4>1, <1>1
      <4>7. \/ i > 1 /\ r[i - 1].do \in {"remove", "move"} /\ r[i - 1].path = r[i].path
            \/ /\ u[r[i].path] = "absent"
               /\ \A j \in DOMAIN r : j < i => r[j].do \in {"parents", "begin"} /\ r[j].path = r[i].path
        <5>1. CASE i > 1 /\ s[i - 1].do \in {"remove", "move"} /\ s[i - 1].path = s[i].path
          BY <5>1, <4>1, <4>5
        <5>2. CASE /\ u[s[i].path] = "absent"
                   /\ \A j \in DOMAIN s : j < i => s[j].do \in {"parents", "begin"} /\ s[j].path = s[i].path
          BY <5>2, <4>1, <4>6
        <5> QED BY <4>2, <5>1, <5>2
      <4> QED BY <4>4, <4>7
    <3>2. CASE i = n + 1
      <4>1. r[i] = x /\ x.do = "mark"
        BY <3>2, <2>1, <1>1
      <4>2. IsGone(u, s, x.path)
        BY <4>1 DEF Fits
      <4>3. \A j \in DOMAIN r : ~(j > i)
        BY <3>2, <1>1
      <4>4. s # <<>> => n \in DOMAIN s /\ i > 1 /\ i - 1 = n
        BY <3>2, <1>1, <1>2
      <4>5. \A j \in DOMAIN r : j < i => j \in DOMAIN s /\ r[j] = s[j]
        BY <3>2, <1>1
      <4>6. \A j \in DOMAIN s : r[j] = s[j]
        BY <1>1
      <4> QED BY <4>1, <4>2, <4>3, <4>4, <4>5, <4>6, <1>1 DEF IsGone
    <3> QED BY <1>1, <3>1, <3>2
  <2> QED BY <2>1 DEF MarksLast
<1>7. Paired(r)
  <2>1. ASSUME NEW i \in DOMAIN r, NEW j \in DOMAIN r, r[i].do = "commit", r[j].do = "commit", i # j
        PROVE  ~(r[i].entry.kind = r[j].entry.kind /\ r[i].entry.path = r[j].entry.path)
    <3>1. CASE i \in DOMAIN s /\ j \in DOMAIN s
      BY <3>1, <2>1, <1>1, <1>2 DEF Paired
    <3>2. ASSUME x.do = "commit", NEW k \in DOMAIN s, s[k].do = "commit"
          PROVE  ~(s[k].entry.kind = x.entry.kind /\ s[k].entry.path = x.entry.path)
      BY <3>2 DEF Fits
    <3>3. \A k \in DOMAIN r : (k \in DOMAIN s /\ r[k] = s[k]) \/ (k = n + 1 /\ r[k] = x)
      BY <1>1
    <3> QED BY <2>1, <3>1, <3>2, <3>3
  <2>2. ASSUME NEW i \in DOMAIN r, NEW j \in DOMAIN r, r[i].do = "begin", r[j].do = "commit", r[i].entry = r[j].entry
        PROVE  i < j
    <3>1. CASE i \in DOMAIN s /\ j \in DOMAIN s
      BY <3>1, <2>2, <1>1, <1>2 DEF Paired
    <3>2. CASE i = n + 1 /\ j \in DOMAIN s
      <4>1. x.do = "begin" /\ s[j].do = "commit" /\ s[j].entry = x.entry
        BY <3>2, <2>2, <1>1
      <4> QED BY <3>2, <4>1 DEF Fits
    <3>3. CASE i \in DOMAIN s /\ j = n + 1
      BY <3>3, <1>1
    <3>4. CASE i = n + 1 /\ j = n + 1
      BY <3>4, <2>2, <1>1
    <3> QED BY <1>1, <3>1, <3>2, <3>3, <3>4
  <2> QED BY <2>1, <2>2 DEF Paired
<1>8. Matched(r)
  <2>1. ASSUME NEW j \in DOMAIN r, r[j].do = "commit"
        PROVE  \E i \in DOMAIN r : r[i].do = "begin" /\ r[i].entry = r[j].entry
    <3>1. CASE j \in DOMAIN s
      BY <3>1, <2>1, <1>1, <1>2 DEF Matched
    <3>2. CASE j = n + 1
      <4>1. r[j] = x /\ x.do = "commit"
        BY <3>2, <2>1, <1>1
      <4>2. PICK i \in DOMAIN s : s[i].do = "begin" /\ s[i].entry = x.entry
        BY <4>1 DEF Fits
      <4>3. i \in DOMAIN r /\ r[i] = s[i]
        BY <1>1
      <4> QED BY <4>1, <4>2, <4>3
    <3> QED BY <1>1, <3>1, <3>2
  <2> QED BY <2>1 DEF Matched
<1> QED BY <1>1, <1>3, <1>4, <1>5, <1>6, <1>7, <1>8 DEF Grown

\* A copy-up of names that nothing hides is a plan.
LEMMA CopiesGrow ==
  ASSUME NEW u, NEW ms, NEW A \in SUBSET Paths, A \intersect ms = {}, NEW c, Copies(A, c)
  PROVE  /\ Grown(u, ms, c)
         /\ \A i \in DOMAIN c : /\ c[i].do \notin Emptying \union {"mark"}
                                /\ c[i].do = "commit" => c[i].entry.kind \in {"copy-up", "copy-up-dir"}
<1>1. /\ c \in Seq(Steps)
      /\ \A i \in DOMAIN c : /\ c[i].do \in {"parents", "begin", "put", "mkdir", "commit"}
                             /\ c[i].path \in A /\ c[i].entry = CopyEntry(c[i].path)
      /\ \A i \in DOMAIN c : c[i].do \in {"put", "mkdir"} =>
           \E j \in DOMAIN c : j < i /\ c[j].do = "parents" /\ c[j].path = c[i].path
      /\ \A i \in DOMAIN c, j \in DOMAIN c :
           c[i].do = c[j].do /\ c[i].do \in {"begin", "commit"} /\ c[i].path = c[j].path => i = j
      /\ \A j \in DOMAIN c : c[j].do = "commit" =>
           \E i \in DOMAIN c : i < j /\ c[i].do = "begin" /\ c[i].path = c[j].path
  BY DEF Copies
<1>2. \A i \in DOMAIN c : /\ c[i].entry.kind \in {"copy-up", "copy-up-dir"}
                          /\ c[i].entry.path = c[i].path
  <2>1. \A p \in Paths : CopyEntry(p).path = p /\ CopyEntry(p).kind \in {"copy-up", "copy-up-dir"}
    BY CopyEntryIsEntry DEF StepNames
  <2> QED BY <1>1, <2>1
<1>3. \A i \in DOMAIN c : /\ c[i].do \notin Emptying \union {"mark"}
                          /\ c[i].do # "move"
                          /\ c[i].do \in Building => c[i].do \in {"put", "mkdir"}
                          /\ Target(c[i]) = c[i].path
  BY <1>1 DEF Emptying, Building, Target
<1>4. Shaped(c)
  BY <1>2, <1>3 DEF Shaped, Apart
<1>5. Ready(u, c)
  BY <1>1, <1>3 DEF Ready
<1>6. Unmarks(ms, c)
  BY <1>1, <1>3 DEF Unmarks
<1>7. MarksLast(u, c)
  BY <1>3 DEF MarksLast
<1>8. Paired(c)
  <2>1. ASSUME NEW i \in DOMAIN c, NEW j \in DOMAIN c, c[i].do = "commit", c[j].do = "commit", i # j
        PROVE  ~(c[i].entry.kind = c[j].entry.kind /\ c[i].entry.path = c[j].entry.path)
    BY <2>1, <1>1, <1>2
  <2>2. ASSUME NEW i \in DOMAIN c, NEW j \in DOMAIN c, c[i].do = "begin", c[j].do = "commit",
               c[i].entry = c[j].entry
        PROVE  i < j
    <3>1. c[i].path = c[j].path
      BY <2>2, <1>2
    <3>2. PICK k \in DOMAIN c : k < j /\ c[k].do = "begin" /\ c[k].path = c[j].path
      BY <2>2, <1>1
    <3>3. k = i
      BY <3>1, <3>2, <2>2, <1>1
    <3> QED BY <3>2, <3>3
  <2> QED BY <2>1, <2>2 DEF Paired
<1>9. Matched(c)
  BY <1>1 DEF Matched
<1> QED BY <1>1, <1>2, <1>3, <1>4, <1>5, <1>6, <1>7, <1>8, <1>9 DEF Grown

\* A plan that takes nothing away and marks nothing.
Harmless(c) == \A i \in DOMAIN c : c[i].do \notin Emptying \union {"mark"}

\* r is x and then c.
Follows(c, r, x) ==
  /\ \A i \in DOMAIN r : r[i] = x \/ \E k \in DOMAIN c : r[i] = c[k]
  /\ \E i \in DOMAIN r : r[i] = x
  /\ \A k \in DOMAIN c : \E i \in DOMAIN r : r[i] = c[k]

\* A plan may begin with clearing a name.
LEMMA ClearGrows ==
  ASSUME NEW u, NEW ms, NEW c, Grown(u, ms, c), Harmless(c),
         NEW x \in Steps, x.do = "clear", Apart(x.entry), NEW r, r = <<x>> \o c
  PROVE  Grown(u, ms, r) /\ Follows(c, r, x)
<1>1. /\ c \in Seq(Steps) /\ Shaped(c) /\ Ready(u, c) /\ Unmarks(ms, c) /\ MarksLast(u, c)
      /\ Paired(c) /\ Matched(c)
  BY DEF Grown
<1>2. /\ r \in Seq(Steps) /\ Len(c) \in Nat /\ Len(r) = Len(c) + 1 /\ r[1] = x
      /\ \A i \in 1 .. Len(c) : r[1 + i] = c[i]
  BY <1>1, Prepended
<1>3. /\ 1 \in DOMAIN r
      /\ \A i \in DOMAIN c : 1 + i \in DOMAIN r /\ r[1 + i] = c[i] /\ i \in Nat
      /\ \A i \in DOMAIN r : i = 1 \/ \E k \in DOMAIN c : i = 1 + k /\ r[i] = c[k]
  <2>1. DOMAIN c = 1 .. Len(c) /\ DOMAIN r = 1 .. Len(c) + 1
    BY <1>1, <1>2
  <2>2. \A i \in 1 .. Len(c) + 1 : i = 1 \/ (i - 1 \in 1 .. Len(c) /\ i = 1 + (i - 1))
    BY <1>2
  <2>3. 1 \in 1 .. Len(c) + 1 /\ \A i \in 1 .. Len(c) : 1 + i \in 1 .. Len(c) + 1 /\ i \in Nat
    BY <1>2
  <2>4. \A i \in DOMAIN r : i = 1 \/ \E k \in DOMAIN c : i = 1 + k /\ r[i] = c[k]
    <3>1. \A i \in DOMAIN r : i = 1 \/ \E k \in DOMAIN c : i = 1 + k
      BY <2>1, <2>2
    <3> QED BY <3>1, <2>1, <1>2
  <2> QED BY <2>1, <2>3, <2>4, <1>2
<1>4. \A i \in DOMAIN r : (i = 1 /\ r[i] = x) \/ \E k \in DOMAIN c : i = 1 + k /\ r[i] = c[k]
  BY <1>2, <1>3
<1>5. x.do \notin Building \union Emptying \union {"mark", "begin", "commit"}
  BY DEF Building, Emptying
<1>6. \A i \in DOMAIN r : r[i].do \notin Emptying \union {"mark"}
  BY <1>4, <1>5 DEF Harmless
<1>7. Shaped(r)
  BY <1>1, <1>4 DEF Shaped
<1>8. Ready(u, r)
  <2>1. ASSUME NEW i \in DOMAIN r, r[i].do \in Building
        PROVE  /\ \A j \in DOMAIN r : j < i => r[j].do \notin Emptying
               /\ \/ Placed(u, Target(r[i]))
                  \/ \E j \in DOMAIN r :
                       j < i /\ r[j].do = "parents" /\ r[j].path = Target(r[i])
                  \/ \E j \in DOMAIN r :
                       /\ j < i /\ r[j].do = "mkdir"
                       /\ Len(Target(r[i])) > 1 /\ r[j].path = Parent(Target(r[i]))
    <3>1. PICK k \in DOMAIN c : i = 1 + k /\ r[i] = c[k]
      BY <2>1, <1>4, <1>5
    <3>2. \/ Placed(u, Target(c[k]))
          \/ \E j \in DOMAIN c :
               j < k /\ c[j].do = "parents" /\ c[j].path = Target(c[k])
          \/ \E j \in DOMAIN c :
               /\ j < k /\ c[j].do = "mkdir"
               /\ Len(Target(c[k])) > 1 /\ c[j].path = Parent(Target(c[k]))
      BY <2>1, <3>1, <1>1 DEF Ready
    <3>3. \A j \in DOMAIN c : j < k => 1 + j < i /\ 1 + j \in DOMAIN r /\ r[1 + j] = c[j]
      BY <3>1, <1>3
    <3>4. \A j \in DOMAIN r : j < i => r[j].do \notin Emptying
      BY <1>6
    <3>5. ASSUME NEW j \in DOMAIN c, j < k, c[j].do = "parents", c[j].path = Target(c[k])
          PROVE  \E l \in DOMAIN r : l < i /\ r[l].do = "parents" /\ r[l].path = Target(r[i])
      BY <3>1, <3>3, <3>5
    <3>6. ASSUME NEW j \in DOMAIN c, j < k, c[j].do = "mkdir", Len(Target(c[k])) > 1,
                 c[j].path = Parent(Target(c[k]))
          PROVE  \E l \in DOMAIN r : /\ l < i /\ r[l].do = "mkdir"
                                     /\ Len(Target(r[i])) > 1 /\ r[l].path = Parent(Target(r[i]))
      BY <3>1, <3>3, <3>6
    <3> QED BY <3>1, <3>2, <3>4, <3>5, <3>6
  <2> QED BY <2>1 DEF Ready
<1>9. Unmarks(ms, r)
  <2>1. ASSUME NEW i \in DOMAIN r, r[i].do \in Building
        PROVE  \/ Target(r[i]) \notin ms
               \/ \E j \in DOMAIN r : j < i /\ r[j].do = "clear" /\ r[j].path = Target(r[i])
    <3>1. PICK k \in DOMAIN c : i = 1 + k /\ r[i] = c[k]
      BY <2>1, <1>4, <1>5
    <3>2. \/ Target(c[k]) \notin ms
          \/ \E j \in DOMAIN c : j < k /\ c[j].do = "clear" /\ c[j].path = Target(c[k])
      BY <2>1, <3>1, <1>1 DEF Unmarks
    <3>3. \A j \in DOMAIN c : j < k => 1 + j < i
      BY <3>1, <1>3
    <3> QED BY <3>1, <3>2, <3>3, <1>3
  <2> QED BY <2>1 DEF Unmarks
<1>10. MarksLast(u, r)
  BY <1>6 DEF MarksLast
<1>11. Paired(r)
  <2>1. ASSUME NEW i \in DOMAIN r, NEW j \in DOMAIN r, r[i].do \in {"begin", "commit"}, r[j].do \in {"begin", "commit"}
        PROVE  \E k \in DOMAIN c, l \in DOMAIN c : i = 1 + k /\ j = 1 + l /\ r[i] = c[k] /\ r[j] = c[l]
    BY <2>1, <1>4, <1>5
  <2>2. ASSUME NEW i \in DOMAIN r, NEW j \in DOMAIN r, r[i].do = "commit", r[j].do = "commit", i # j
        PROVE  ~(r[i].entry.kind = r[j].entry.kind /\ r[i].entry.path = r[j].entry.path)
    <3>1. PICK k \in DOMAIN c, l \in DOMAIN c : i = 1 + k /\ j = 1 + l /\ r[i] = c[k] /\ r[j] = c[l]
      BY <2>1, <2>2
    <3>2. c[k].do = "commit" /\ c[l].do = "commit" /\ k # l
      BY <2>2, <3>1
    <3>3. ~(c[k].entry.kind = c[l].entry.kind /\ c[k].entry.path = c[l].entry.path)
      BY <3>2, <1>1 DEF Paired
    <3> QED BY <3>1, <3>3
  <2>3. ASSUME NEW i \in DOMAIN r, NEW j \in DOMAIN r, r[i].do = "begin", r[j].do = "commit",
               r[i].entry = r[j].entry
        PROVE  i < j
    <3>1. PICK k \in DOMAIN c, l \in DOMAIN c : i = 1 + k /\ j = 1 + l /\ r[i] = c[k] /\ r[j] = c[l]
      BY <2>1, <2>3
    <3>2. k < l
      BY <2>3, <3>1, <1>1 DEF Paired
    <3> QED BY <3>1, <3>2, <1>3
  <2> SUFFICES ASSUME NEW i \in DOMAIN r, NEW j \in DOMAIN r
               PROVE  /\ r[i].do = "commit" /\ r[j].do = "commit" /\ i # j =>
                           ~(r[i].entry.kind = r[j].entry.kind /\ r[i].entry.path = r[j].entry.path)
                      /\ r[i].do = "begin" /\ r[j].do = "commit" /\ r[i].entry = r[j].entry => i < j
    BY DEF Paired
  <2> QED BY <2>2, <2>3
<1>12. Matched(r)
  <2>1. ASSUME NEW j \in DOMAIN r, r[j].do = "commit"
        PROVE  \E i \in DOMAIN r : r[i].do = "begin" /\ r[i].entry = r[j].entry
    <3>1. PICK k \in DOMAIN c : r[j] = c[k]
      BY <2>1, <1>4, <1>5
    <3>2. PICK l \in DOMAIN c : c[l].do = "begin" /\ c[l].entry = c[k].entry
      BY <2>1, <3>1, <1>1 DEF Matched
    <3>3. 1 + l \in DOMAIN r /\ r[1 + l] = c[l]
      BY <1>3
    <3> QED BY <3>1, <3>2, <3>3
  <2> QED BY <2>1 DEF Matched
<1>13. Grown(u, ms, r)
  BY <1>2, <1>7, <1>8, <1>9, <1>10, <1>11, <1>12 DEF Grown
<1>14. Follows(c, r, x)
  <2>1. \A i \in DOMAIN r : r[i] = x \/ \E k \in DOMAIN c : r[i] = c[k]
    BY <1>4
  <2>2. \E i \in DOMAIN r : r[i] = x
    BY <1>2, <1>3
  <2>3. ASSUME NEW k \in DOMAIN c PROVE \E i \in DOMAIN r : r[i] = c[k]
    <3>1. 1 + k \in DOMAIN r /\ r[1 + k] = c[k] BY <1>3
    <3> QED BY <3>1
  <2> QED BY <2>1, <2>2, <2>3 DEF Follows
<1> QED BY <1>13, <1>14

\* A record around one step or two, as steps put one after the other.
LEMMA JournaledOne ==
  ASSUME NEW s \in Seq(Steps), NEW e, NEW m \in Steps,
         Do("begin", e.path, e) \in Steps, Do("commit", e.path, e) \in Steps
  PROVE  s \o Journaled(e, <<m>>)
           = ((s \o <<Do("begin", e.path, e)>>) \o <<m>>) \o <<Do("commit", e.path, e)>>
<1>1. PICK b \in Steps : b = Do("begin", e.path, e)
  OBVIOUS
<1>2. PICK k \in Steps : k = Do("commit", e.path, e)
  OBVIOUS
<1>3. <<b>> \in Seq(Steps) /\ <<m>> \in Seq(Steps) /\ <<k>> \in Seq(Steps)
  OBVIOUS
<1>4. <<b>> \o <<m>> \in Seq(Steps)
  BY <1>3, ConcatProperties
<1>5. s \o ((<<b>> \o <<m>>) \o <<k>>) = (s \o (<<b>> \o <<m>>)) \o <<k>>
  BY <1>3, <1>4, ConcatAssociative
<1>6. s \o (<<b>> \o <<m>>) = (s \o <<b>>) \o <<m>>
  BY <1>3, ConcatAssociative
<1>7. Journaled(e, <<m>>) = (<<b>> \o <<m>>) \o <<k>>
  BY <1>1, <1>2, Zenon DEF Journaled
<1> QED BY <1>1, <1>2, <1>5, <1>6, <1>7, Zenon

\* A journaled pair of steps, one step after the other.
LEMMA JournaledTwo ==
  ASSUME NEW s \in Seq(Steps), NEW e, NEW m \in Steps, NEW w \in Steps,
         Do("begin", e.path, e) \in Steps, Do("commit", e.path, e) \in Steps
  PROVE  s \o Journaled(e, <<m>> \o <<w>>)
           = (((s \o <<Do("begin", e.path, e)>>) \o <<m>>) \o <<w>>) \o <<Do("commit", e.path, e)>>
<1>1. PICK b \in Steps : b = Do("begin", e.path, e)
  OBVIOUS
<1>2. PICK k \in Steps : k = Do("commit", e.path, e)
  OBVIOUS
<1>3. <<b>> \in Seq(Steps) /\ <<m>> \in Seq(Steps) /\ <<w>> \in Seq(Steps) /\ <<k>> \in Seq(Steps)
  OBVIOUS
<1>4. <<b>> \o <<m>> \in Seq(Steps) /\ s \o <<b>> \in Seq(Steps)
  BY <1>3, ConcatProperties
<1>5. (<<b>> \o <<m>>) \o <<w>> \in Seq(Steps)
  BY <1>3, <1>4, ConcatProperties
<1>6. <<b>> \o (<<m>> \o <<w>>) = (<<b>> \o <<m>>) \o <<w>>
  BY <1>3, ConcatAssociative
<1>7. s \o (((<<b>> \o <<m>>) \o <<w>>) \o <<k>>) = (s \o ((<<b>> \o <<m>>) \o <<w>>)) \o <<k>>
  BY <1>3, <1>5, ConcatAssociative
<1>8. s \o ((<<b>> \o <<m>>) \o <<w>>) = (s \o (<<b>> \o <<m>>)) \o <<w>>
  BY <1>3, <1>4, ConcatAssociative
<1>9. s \o (<<b>> \o <<m>>) = (s \o <<b>>) \o <<m>>
  BY <1>3, ConcatAssociative
<1>10. Journaled(e, <<m>> \o <<w>>) = (<<b>> \o (<<m>> \o <<w>>)) \o <<k>>
  BY <1>1, <1>2, Zenon DEF Journaled
<1> QED BY <1>1, <1>2, <1>6, <1>7, <1>8, <1>9, <1>10, Zenon

\* r is s and then x.
Extends(s, r, x) ==
  /\ r # <<>> /\ r[Len(r)] = x /\ Len(r) \in DOMAIN r
  /\ s # <<>> => Len(r) >= 2 /\ r[Len(r) - 1] = s[Len(s)]
  /\ \A j \in DOMAIN r : r[j] = x \/ \E i \in DOMAIN s : r[j] = s[i]
  /\ \A i \in DOMAIN s : \E j \in DOMAIN r : r[j] = s[i]

\* A plan grown by a step keeps what it had.
LEMMA GrowsBy ==
  ASSUME NEW u, NEW ms, NEW s, Grown(u, ms, s), NEW x \in Steps, Fits(u, ms, s, x), NEW r, r = s \o <<x>>
  PROVE  Grown(u, ms, r) /\ Extends(s, r, x)
<1>0. s \in Seq(Steps)
  BY DEF Grown
<1>1. PICK n \in Nat :
           /\ n = Len(s) /\ r \in Seq(Steps) /\ Len(r) = n + 1
           /\ n + 1 \in DOMAIN r /\ r[n + 1] = x
           /\ \A i \in DOMAIN s : i \in DOMAIN r /\ r[i] = s[i] /\ i \in Nat /\ i >= 1 /\ i <= n
           /\ \A i \in DOMAIN r : i \in DOMAIN s \/ i = n + 1
  <2>1. AppendedAt(r, s, x) BY <1>0, AppendedPlaces
  <2> QED BY <2>1 DEF AppendedAt
<1>2. r # <<>> /\ r[Len(r)] = x /\ Len(r) \in DOMAIN r
  BY <1>1
<1>3. s # <<>> => Len(r) >= 2 /\ r[Len(r) - 1] = s[Len(s)]
  <2>1. s # <<>> => n \in DOMAIN s /\ n >= 1
    BY <1>0, <1>1
  <2> QED BY <2>1, <1>1
<1>4. /\ \A j \in DOMAIN r : r[j] = x \/ \E i \in DOMAIN s : r[j] = s[i]
      /\ \A i \in DOMAIN s : \E j \in DOMAIN r : r[j] = s[i]
  BY <1>1
<1>5. Grown(u, ms, r)
  BY Grows
<1> QED BY <1>2, <1>3, <1>4, <1>5 DEF Extends

\* A name a plan makes room for or unmarks is one in the grown plan.
LEMMA StillThere ==
  ASSUME NEW s, NEW r, NEW x, Extends(s, r, x), NEW u, NEW ms, NEW p
  PROVE  /\ IsMade(u, s, p) => IsMade(u, r, p)
         /\ IsUnmarked(ms, s, p) => IsUnmarked(ms, r, p)
BY DEF Extends, IsMade, IsUnmarked

\* A record of e, around a step of the given name, can follow s.
Recordable(u, ms, s, e, name) ==
  /\ e \in Entries /\ Apart(e) /\ name \in StepNames \ {"begin", "commit"}
  /\ \A j \in DOMAIN s : s[j].do \notin Emptying \union {"mark"}
  /\ \A j \in DOMAIN s : s[j].do = "commit" => ~(s[j].entry.kind = e.kind /\ s[j].entry.path = e.path)
  /\ name = "move" => e.kind = "rename"
  /\ name \in Building => /\ IsMade(u, s, IF name = "move" THEN e.dest ELSE e.path)
                          /\ IsUnmarked(ms, s, IF name = "move" THEN e.dest ELSE e.path)
  /\ name = "mark" => /\ u[e.path] = "absent"
                      /\ \A j \in DOMAIN s : s[j].do \in {"parents", "begin"} /\ s[j].path = e.path

\* A plan followed by one journaled operation, of one step or of a removal and its marker, is
\* a plan an operation may start with.
LEMMA RecordedSteps ==
  ASSUME NEW u, NEW ms, NEW s, Grown(u, ms, s), NEW e, NEW name, Recordable(u, ms, s, e, name),
         NEW steps,
         \/ steps = <<Do(name, e.path, e)>> /\ (e.kind = "mkdir" => name = "mkdir")
         \/ /\ steps = <<Do(name, e.path, e)>> \o <<Do("mark", e.path, e)>>
            /\ name \in {"remove", "move"} /\ e.kind # "mkdir",
         NEW r, r = s \o Journaled(e, steps)
  PROVE  r \in Seq(Steps) /\ Shaped(r) /\ Planned(u, ms, r) /\ Matched(r) /\ r # <<>>
<1>s. s \in Seq(Steps)
  BY DEF Grown
<1>e. /\ e \in Entries /\ e.path \in Paths /\ Apart(e) /\ name \in StepNames \ {"begin", "commit"}
      /\ name = "move" => e.kind = "rename"
  BY DEF Recordable, Entries
<1>n. "begin" \in StepNames /\ "commit" \in StepNames /\ "mark" \in StepNames
  BY DEF StepNames
<1>b. PICK b : b = Do("begin", e.path, e)
  OBVIOUS
<1>m. PICK m : m = Do(name, e.path, e)
  OBVIOUS
<1>w. PICK w : w = Do("mark", e.path, e)
  OBVIOUS
<1>k. PICK k : k = Do("commit", e.path, e)
  OBVIOUS
<1>t. b \in Steps /\ m \in Steps /\ w \in Steps /\ k \in Steps
  BY <1>b, <1>m, <1>w, <1>k, <1>e, <1>n DEF Do, Steps
<1>f. /\ b.do = "begin" /\ b.path = e.path /\ b.entry = e
      /\ m.do = name /\ m.path = e.path /\ m.entry = e
      /\ w.do = "mark" /\ w.path = e.path /\ w.entry = e
      /\ k.do = "commit" /\ k.path = e.path /\ k.entry = e
  BY <1>b, <1>m, <1>w, <1>k DEF Do
<1>g. Target(m) = IF name = "move" THEN e.dest ELSE e.path
  BY <1>f DEF Target
\* the record is begun
<1>1. PICK s1 : s1 = s \o <<b>>
  OBVIOUS
<1>2. Fits(u, ms, s, b)
  <2>1. "begin" \notin Building
    BY DEF Building
  <2> QED BY <2>1, <1>e, <1>f DEF Fits, Recordable, Apart
<1>3. Grown(u, ms, s1) /\ Extends(s, s1, b)
  BY <1>1, <1>2, <1>t, GrowsBy
<1>4. /\ \A j \in DOMAIN s1 : s1[j].do \notin Emptying \union {"mark"}
      /\ \A j \in DOMAIN s1 : s1[j].do = "commit" => ~(s1[j].entry.kind = e.kind /\ s1[j].entry.path = e.path)
      /\ \E j \in DOMAIN s1 : s1[j].do = "begin" /\ s1[j].entry = e
  <2>1. b.do \notin Emptying \union {"mark"}
    BY <1>f DEF Emptying
  <2>2. \A j \in DOMAIN s1 : s1[j] = b \/ \E i \in DOMAIN s : s1[j] = s[i]
    BY <1>3 DEF Extends
  <2>3. \E j \in DOMAIN s1 : s1[j] = b
    BY <1>3 DEF Extends
  <2> QED BY <2>1, <2>2, <2>3, <1>f DEF Recordable
\* the step is taken
<1>5. PICK s2 : s2 = s1 \o <<m>>
  OBVIOUS
<1>6. Fits(u, ms, s1, m)
  <2>1. m.do \in Building => IsMade(u, s1, Target(m)) /\ IsUnmarked(ms, s1, Target(m))
    <3>1. m.do \in Building => IsMade(u, s, Target(m)) /\ IsUnmarked(ms, s, Target(m))
      BY <1>f, <1>g DEF Recordable
    <3> QED BY <3>1, <1>3, StillThere
  <2>2. m.do = "mark" => IsGone(u, s1, m.path)
    <3>1. ASSUME m.do = "mark" PROVE IsGone(u, s1, m.path)
      <4>1. /\ u[e.path] = "absent"
            /\ \A j \in DOMAIN s : s[j].do \in {"parents", "begin"} /\ s[j].path = e.path
        BY <3>1, <1>f DEF Recordable
      <4>2. \A j \in DOMAIN s1 : s1[j] = b \/ \E i \in DOMAIN s : s1[j] = s[i]
        BY <1>3 DEF Extends
      <4>3. \A j \in DOMAIN s1 : s1[j].do \in {"parents", "begin"} /\ s1[j].path = e.path
        BY <4>1, <4>2, <1>f
      <4> QED BY <4>1, <4>3, <1>f DEF IsGone
    <3> QED BY <3>1
  <2>3. /\ \A j \in DOMAIN s1 : s1[j].do \notin Emptying
        /\ \A j \in DOMAIN s1 : s1[j].do # "mark"
    BY <1>4
  <2>4. m.do \notin {"begin", "commit"} /\ Apart(m.entry)
        /\ (m.do = "move" => m.entry.kind = "rename" /\ m.entry.path = m.path)
    BY <1>e, <1>f
  <2> QED BY <2>1, <2>2, <2>3, <2>4 DEF Fits
<1>7. Grown(u, ms, s2) /\ Extends(s1, s2, m)
  BY <1>3, <1>5, <1>6, <1>t, GrowsBy
<1>8. /\ \A j \in DOMAIN s2 : s2[j].do = "commit" => ~(s2[j].entry.kind = e.kind /\ s2[j].entry.path = e.path)
      /\ \E j \in DOMAIN s2 : s2[j].do = "begin" /\ s2[j].entry = e
      /\ name # "mark" => \A j \in DOMAIN s2 : s2[j].do # "mark"
      /\ s2 # <<>> /\ s2[Len(s2)] = m
  <2>1. /\ \A j \in DOMAIN s2 : s2[j] = m \/ \E i \in DOMAIN s1 : s2[j] = s1[i]
        /\ \A i \in DOMAIN s1 : \E j \in DOMAIN s2 : s2[j] = s1[i]
        /\ s2 # <<>> /\ s2[Len(s2)] = m
    BY <1>7 DEF Extends
  <2>2. m.do # "commit"
    BY <1>e, <1>f
  <2> QED BY <2>1, <2>2, <1>4, <1>f
\* and the record committed
<1>9. ASSUME NEW t, Grown(u, ms, t), t # <<>>,
             \A j \in DOMAIN t : t[j].do = "commit" => ~(t[j].entry.kind = e.kind /\ t[j].entry.path = e.path),
             \E j \in DOMAIN t : t[j].do = "begin" /\ t[j].entry = e,
             e.kind = "mkdir" => t[Len(t)].do = "mkdir" /\ t[Len(t)].path = e.path,
             r = t \o <<k>>
      PROVE  r \in Seq(Steps) /\ Shaped(r) /\ Planned(u, ms, r) /\ Matched(r) /\ r # <<>>
  <2>1. Fits(u, ms, t, k)
    <3>1. "commit" \notin Building
      BY DEF Building
    <3> QED BY <3>1, <1>9, <1>e, <1>f DEF Fits
  <2>2. Grown(u, ms, r) /\ Extends(t, r, k)
    BY <2>1, <1>9, <1>t, GrowsBy
  <2>3. r # <<>> /\ r[Len(r)] = k /\ Len(r) >= 2 /\ r[Len(r) - 1] = t[Len(t)]
    BY <2>2, <1>9 DEF Extends
  <2>4. MakesLast(u, ms, r)
    BY <2>3, <1>9, <1>f DEF MakesLast
  <2> QED BY <2>2, <2>3, <2>4 DEF Grown, Planned
<1>10. CASE steps = <<Do(name, e.path, e)>> /\ (e.kind = "mkdir" => name = "mkdir")
  <2>1. r = s2 \o <<k>>
    <3>1. Do("begin", e.path, e) \in Steps /\ Do("commit", e.path, e) \in Steps
      BY <1>t, <1>b, <1>k
    <3>2. s \o Journaled(e, <<m>>)
           = ((s \o <<Do("begin", e.path, e)>>) \o <<m>>) \o <<Do("commit", e.path, e)>>
      BY <3>1, <1>s, <1>t, JournaledOne
    <3> QED BY <3>2, <1>10, <1>1, <1>5, <1>b, <1>m, <1>k, Zenon
  <2>2. e.kind = "mkdir" => s2[Len(s2)].do = "mkdir" /\ s2[Len(s2)].path = e.path
    BY <1>8, <1>10, <1>f
  <2> QED BY <2>1, <2>2, <1>7, <1>8, <1>9
<1>11. CASE /\ steps = <<Do(name, e.path, e)>> \o <<Do("mark", e.path, e)>>
            /\ name \in {"remove", "move"} /\ e.kind # "mkdir"
  <2>1. PICK s3 : s3 = s2 \o <<w>>
    OBVIOUS
  <2>2. Fits(u, ms, s2, w)
    <3>1. "mark" \notin Building /\ name # "mark"
      BY <1>11 DEF Building
    <3>2. IsGone(u, s2, w.path)
      BY <1>8, <1>11, <1>f DEF IsGone
    <3> QED BY <3>1, <3>2, <1>8, <1>e, <1>f DEF Fits
  <2>3. Grown(u, ms, s3) /\ Extends(s2, s3, w)
    BY <2>1, <2>2, <1>7, <1>t, GrowsBy
  <2>4. /\ \A j \in DOMAIN s3 : s3[j].do = "commit" => ~(s3[j].entry.kind = e.kind /\ s3[j].entry.path = e.path)
        /\ \E j \in DOMAIN s3 : s3[j].do = "begin" /\ s3[j].entry = e
        /\ s3 # <<>>
    <3>1. /\ \A j \in DOMAIN s3 : s3[j] = w \/ \E i \in DOMAIN s2 : s3[j] = s2[i]
          /\ \A i \in DOMAIN s2 : \E j \in DOMAIN s3 : s3[j] = s2[i]
          /\ s3 # <<>>
      BY <2>3 DEF Extends
    <3>2. w.do # "commit"
      BY <1>f
    <3>3. ASSUME NEW j \in DOMAIN s3, s3[j].do = "commit"
          PROVE  ~(s3[j].entry.kind = e.kind /\ s3[j].entry.path = e.path)
      <4>1. PICK i \in DOMAIN s2 : s3[j] = s2[i]
        BY <3>1, <3>2, <3>3
      <4> QED BY <4>1, <3>3, <1>8
    <3>4. \E j \in DOMAIN s3 : s3[j].do = "begin" /\ s3[j].entry = e
      <4>1. PICK i \in DOMAIN s2 : s2[i].do = "begin" /\ s2[i].entry = e
        BY <1>8
      <4>2. PICK j \in DOMAIN s3 : s3[j] = s2[i]
        BY <3>1
      <4> QED BY <4>1, <4>2
    <3> QED BY <3>1, <3>3, <3>4
  <2>5. r = s3 \o <<k>>
    <3>1. Do("begin", e.path, e) \in Steps /\ Do("commit", e.path, e) \in Steps
      BY <1>t, <1>b, <1>k
    <3>2. s \o Journaled(e, <<m>> \o <<w>>)
           = (((s \o <<Do("begin", e.path, e)>>) \o <<m>>) \o <<w>>) \o <<Do("commit", e.path, e)>>
      BY <3>1, <1>s, <1>t, JournaledTwo, ZenonT(40)
    <3> QED BY <3>2, <2>1, <1>11, <1>1, <1>5, <1>b, <1>m, <1>w, <1>k, Zenon
  <2>6. e.kind # "mkdir"
    BY <1>11
  <2> QED BY <2>3, <2>4, <2>5, <2>6, <1>9
<1> QED BY <1>10, <1>11

-----------------------------------------------------------------------------
(* Overlay: the operations                                                 *)

\* An operation that begins with a plan that is one.
LEMMA BeginsKeepsOverlay ==
  ASSUME OverlayIInv, NEW s \in Sessions, NEW plan, NEW wanted, NEW named, Begins(s, plan, wanted, named),
         plan \in Seq(Steps), Shaped(plan), Planned(upper, marks, plan), Matched(plan)
  PROVE  OverlayIInv'
<1>1. /\ upper \in Trees /\ marks \in SUBSET Paths /\ Tree(upper, marks) /\ Typed
      /\ \A i \in DOMAIN pending : Apart(pending[i])
      /\ \A i \in DOMAIN replay : Apart(replay[i])
  BY AlwaysKnown
<1>2. /\ upper' = upper /\ marks' = marks /\ pending' = pending /\ up' = up /\ replay' = replay
      /\ holder' = s /\ phase' = "operation" /\ todo' = plan
  BY DEF Begins, treeVars
<1>3. s # "nobody"
  BY ConstantsAssumption DEF ConstantsAssumption
<1>4. Typed'
  BY <1>1, <1>2, <1>3 DEF Typed
<1>5. TypeOK'
  BY <1>1, <1>2, <1>4, TypesAreTreesNext
<1>6. Plans'
  BY <1>1, <1>2 DEF Plans
<1>7. \A e : ~Unfinished(plan, e)
  BY DEF Unfinished, Matched
<1>8. Recorded'
  BY <1>2, <1>7 DEF Recorded
<1>9. Unburied'
  <2>1. ASSUME Clean' PROVE \A p \in marks : upper[p] = "absent"
    <3>1. \A i \in DOMAIN pending : FALSE
      BY <2>1, <1>2, <1>7 DEF Clean
    <3>2. Clean
      BY <3>1 DEF Clean
    <3> QED BY <3>2 DEF OverlayIInv, Unburied
  <2> QED BY <2>1, <1>2 DEF Unburied
<1> QED BY <1>5, <1>6, <1>8, <1>9 DEF OverlayIInv

\* What is seen of a name is not marked; what is only below has no marker under it.
LEMMA SeenNames ==
  ASSUME OverlayIInv, NEW p \in Paths, View[p] # "absent"
  PROVE  /\ p \notin marks
         /\ upper[p] = "absent" => From[p] \intersect marks = {}
         /\ View[p] = "dir" => \/ upper[p] = "dir"
                               \/ upper[p] = "absent" /\ Lower[p] = "dir"
<1>1. upper \in Trees /\ marks \in SUBSET Paths /\ Tree(upper, marks)
  BY AlwaysKnown
<1>2. View[p] = Node(upper, marks, p) /\ ~Hidden(marks, p)
  BY DEF View, ViewOf, Node
<1>3. p \notin marks
  BY <1>2 DEF Hidden
<1>4. ASSUME upper[p] = "absent" PROVE From[p] \intersect marks = {}
  <2>1. \A q \in Below[p] : q \notin marks
    BY <1>1, <1>4, NothingBelow
  <2> QED BY <2>1, <1>3, Subsets
<1>5. View[p] = "dir" => \/ upper[p] = "dir"
                         \/ upper[p] = "absent" /\ Lower[p] = "dir"
  BY <1>2 DEF Node
<1> QED BY <1>3, <1>4, <1>5

\* A plan so far that takes nothing away and records nothing but copies.
Prepared(u, ms, c) ==
  /\ Grown(u, ms, c)
  /\ \A i \in DOMAIN c : /\ c[i].do \notin Emptying \union {"mark"}
                         /\ c[i].do = "commit" => c[i].entry.kind \in {"copy-up", "copy-up-dir"}

\* Every step of c is in r.
Keeps(c, r) == \A k \in DOMAIN c : \E i \in DOMAIN r : r[i] = c[k]

\* What a plan makes room for or unmarks, one that keeps its steps does as well.
LEMMA KeptThere ==
  ASSUME NEW c, NEW r, Keeps(c, r), NEW u, NEW ms, NEW p
  PROVE  /\ IsMade(u, c, p) => IsMade(u, r, p)
         /\ IsUnmarked(ms, c, p) => IsUnmarked(ms, r, p)
BY DEF Keeps, IsMade, IsUnmarked

\* The empty plan prepares an operation.
LEMMA NothingPrepared ==
  ASSUME NEW u, NEW ms
  PROVE  Prepared(u, ms, <<>>)
BY NothingGrown DEF Prepared

\* So does the copy of what the view shows, if the upper tree lacks it.
LEMMA CopiedUpPrepared ==
  ASSUME OverlayIInv, NEW p \in Paths, View[p] # "absent"
  PROVE  Prepared(upper, marks, CopiedUp(p))
<1>1. CASE upper[p] = "absent"
  <2>1. CopiedUp(p) = CopyUp[p]
    BY <1>1 DEF CopiedUp, IfThen
  <2>2. Copies(From[p], CopyUp[p])
    BY CopyUpCopies DEF CopiedBelow
  <2>3. From[p] \in SUBSET Paths /\ From[p] \intersect marks = {}
    BY <1>1, SeenNames, Subsets
  <2>4. PICK c : c = CopyUp[p]
    OBVIOUS
  <2>5. Prepared(upper, marks, c)
    BY <2>2, <2>3, <2>4, CopiesGrow DEF Prepared
  <2> QED BY <2>1, <2>4, <2>5
<1>2. CASE upper[p] # "absent"
  <2>1. CopiedUp(p) = <<>>
    BY <1>2 DEF CopiedUp, IfThen
  <2> QED BY <2>1, NothingPrepared
<1> QED BY <1>1, <1>2

\* So does a preparation after the marker of a name was removed, and the name is unmarked.
LEMMA ClearedPrepared ==
  ASSUME NEW u, NEW c, Prepared(u, marks, c), NEW p \in Paths, NEW e \in Entries, Apart(e),
         NEW r, r = Cleared(p, e) \o c
  PROVE  /\ Prepared(u, marks, r) /\ IsUnmarked(marks, r, p)
         /\ Keeps(c, r)
<1>0. c \in Seq(Steps) /\ Grown(u, marks, c)
  BY DEF Prepared, Grown
<1>1. CASE p \in marks
  <2>1. PICK x : x = Do("clear", p, e)
    OBVIOUS
  <2>2. x \in Steps /\ x.do = "clear" /\ x.path = p /\ x.entry = e
    BY <2>1 DEF Do, Steps, StepNames
  <2>3. r = <<x>> \o c
    BY <1>1, <2>1 DEF Cleared, IfThen
  <2>4. Grown(u, marks, r) /\ Follows(c, r, x)
    <3>1. Harmless(c)
      BY DEF Prepared, Harmless
    <3>2. Apart(x.entry)
      BY <2>2
    <3> QED BY <1>0, <2>2, <2>3, <3>1, <3>2, ClearGrows
  <2>5. x.do \notin Emptying \union {"mark", "commit"}
    BY <2>2 DEF Emptying
  <2>6. Prepared(u, marks, r)
    <3>1. ASSUME NEW i \in DOMAIN r
          PROVE  /\ r[i].do \notin Emptying \union {"mark"}
                 /\ r[i].do = "commit" => r[i].entry.kind \in {"copy-up", "copy-up-dir"}
      <4>1. CASE r[i] = x
        BY <4>1, <2>5
      <4>2. ASSUME NEW k \in DOMAIN c, r[i] = c[k]
            PROVE  /\ r[i].do \notin Emptying \union {"mark"}
                   /\ r[i].do = "commit" => r[i].entry.kind \in {"copy-up", "copy-up-dir"}
        BY <4>2 DEF Prepared
      <4> QED BY <2>4, <4>1, <4>2 DEF Follows
    <3> QED BY <2>4, <3>1 DEF Prepared
  <2>7. IsUnmarked(marks, r, p)
    BY <2>2, <2>4 DEF IsUnmarked, Follows
  <2>8. \A k \in DOMAIN c : \E i \in DOMAIN r : r[i] = c[k]
    BY <2>4 DEF Follows
  <2> QED BY <2>6, <2>7, <2>8 DEF Keeps
<1>2. CASE p \notin marks
  <2>1. Cleared(p, e) = <<>>
    BY <1>2 DEF Cleared, IfThen
  <2>2. r = c
    BY <1>0, <2>1, ConcatEmptySeq
  <2> QED BY <1>2, <2>2 DEF IsUnmarked, Keeps
<1> QED BY <1>1, <1>2

OnlyParents(r, p) == \A i \in DOMAIN r : r[i].do = "parents" /\ r[i].path = p

\* So does a preparation that then makes the directories above a name.
LEMMA ParentsPrepared ==
  ASSUME NEW u, NEW ms, NEW c, Prepared(u, ms, c), NEW p \in Paths, NEW e \in Entries, Apart(e),
         NEW r, r = c \o <<Do("parents", p, e)>>
  PROVE  /\ Prepared(u, ms, r) /\ IsMade(u, r, p)
         /\ Keeps(c, r)
         /\ c = <<>> => OnlyParents(r, p)
<1>1. PICK x : x = Do("parents", p, e)
  OBVIOUS
<1>2. x \in Steps /\ x.do = "parents" /\ x.path = p /\ x.entry = e
  BY <1>1 DEF Do, Steps, StepNames
<1>3. x.do \notin Building \union Emptying \union {"mark", "begin", "commit", "move"}
  BY <1>2 DEF Building, Emptying
<1>4. Fits(u, ms, c, x)
  BY <1>2, <1>3 DEF Fits, Prepared
<1>5. Grown(u, ms, r) /\ Extends(c, r, x)
  BY <1>1, <1>2, <1>4, GrowsBy DEF Prepared
<1>6. \A j \in DOMAIN r : r[j] = x \/ \E i \in DOMAIN c : r[j] = c[i]
  BY <1>5 DEF Extends
<1>7. Prepared(u, ms, r)
  <2>1. ASSUME NEW i \in DOMAIN r
        PROVE  /\ r[i].do \notin Emptying \union {"mark"}
               /\ r[i].do = "commit" => r[i].entry.kind \in {"copy-up", "copy-up-dir"}
    <3>1. CASE r[i] = x
      BY <3>1, <1>3
    <3>2. ASSUME NEW k \in DOMAIN c, r[i] = c[k]
          PROVE  /\ r[i].do \notin Emptying \union {"mark"}
                 /\ r[i].do = "commit" => r[i].entry.kind \in {"copy-up", "copy-up-dir"}
      BY <3>2 DEF Prepared
    <3> QED BY <1>6, <3>1, <3>2
  <2> QED BY <1>5, <2>1 DEF Prepared
<1>8. IsMade(u, r, p)
  BY <1>2, <1>5 DEF IsMade, Extends
<1>9. Keeps(c, r)
  BY <1>5 DEF Keeps, Extends
<1>10. c = <<>> => OnlyParents(r, p)
  BY <1>2, <1>6 DEF OnlyParents
<1> QED BY <1>7, <1>8, <1>9, <1>10

\* A journal record has the fields it was made with.
LEMMA EntriesAre ==
  ASSUME NEW kind \in Kinds, NEW p \in Paths, NEW dest \in Paths, NEW lower \in BOOLEAN
  PROVE  /\ Entry(kind, p, dest, lower) \in Entries
         /\ Entry(kind, p, dest, lower).kind = kind /\ Entry(kind, p, dest, lower).path = p
         /\ Entry(kind, p, dest, lower).dest = dest /\ Entry(kind, p, dest, lower).lower = lower
         /\ kind # "rename" => Apart(Entry(kind, p, dest, lower))
BY DEF Entry, Entries, Apart

\* Steps between their begin and their commit are a plan.
LEMMA JournaledIsSeq ==
  ASSUME NEW e \in Entries, NEW steps \in Seq(Steps)
  PROVE  Journaled(e, steps) \in Seq(Steps)
<1>1. PICK b \in Steps : b = Do("begin", e.path, e)
  BY DEF Do, Steps, StepNames, Entries
<1>2. PICK k \in Steps : k = Do("commit", e.path, e)
  BY DEF Do, Steps, StepNames, Entries
<1>3. <<b>> \in Seq(Steps) /\ <<k>> \in Seq(Steps)
  OBVIOUS
<1>4. <<b>> \o steps \in Seq(Steps)
  BY <1>3, ConcatProperties
<1>5. (<<b>> \o steps) \o <<k>> \in Seq(Steps)
  BY <1>3, <1>4, ConcatProperties
<1> QED BY <1>1, <1>2, <1>5, Zenon DEF Journaled

\* The plan of a record with its one step, or with a step and a marker.
LEMMA RecordedOperation ==
  ASSUME OverlayIInv, NEW c, Prepared(upper, marks, c), NEW e \in Entries, Apart(e),
         e.kind \notin {"copy-up", "copy-up-dir"},
         NEW name \in {"put", "mkdir", "move", "remove", "mark"},
         name = "move" => e.kind = "rename",
         name \in Building => /\ IsMade(upper, c, IF name = "move" THEN e.dest ELSE e.path)
                              /\ IsUnmarked(marks, c, IF name = "move" THEN e.dest ELSE e.path),
         name = "mark" => /\ upper[e.path] = "absent"
                          /\ OnlyParents(c, e.path),
         e.kind = "mkdir" => name = "mkdir",
         NEW steps,
         \/ steps = <<Do(name, e.path, e)>>
         \/ /\ steps = <<Do(name, e.path, e)>> \o <<Do("mark", e.path, e)>>
            /\ name \in {"remove", "move"},
         NEW plan, plan = c \o Journaled(e, steps),
         NEW s \in Sessions, NEW wanted, NEW named, Begins(s, plan, wanted, named)
  PROVE  OverlayIInv'
<1>1. Grown(upper, marks, c)
  BY DEF Prepared
<1>2. Recordable(upper, marks, c, e, name)
  <2>1. name \in StepNames \ {"begin", "commit"}
    BY DEF StepNames
  <2>2. \A j \in DOMAIN c : c[j].do \notin Emptying \union {"mark"}
    BY DEF Prepared
  <2>3. \A j \in DOMAIN c : c[j].do = "commit" => c[j].entry.kind # e.kind
    BY DEF Prepared
  <2>4. name = "mark" => \A j \in DOMAIN c : c[j].do \in {"parents", "begin"} /\ c[j].path = e.path
    BY DEF OnlyParents
  <2> QED BY <2>1, <2>2, <2>3, <2>4 DEF Recordable
<1>3. \/ steps = <<Do(name, e.path, e)>> /\ (e.kind = "mkdir" => name = "mkdir")
      \/ /\ steps = <<Do(name, e.path, e)>> \o <<Do("mark", e.path, e)>>
         /\ name \in {"remove", "move"} /\ e.kind # "mkdir"
  OBVIOUS
<1>4. plan \in Seq(Steps) /\ Shaped(plan) /\ Planned(upper, marks, plan) /\ Matched(plan) /\ plan # <<>>
  <2>1. PICK st : st = steps OBVIOUS
  <2> QED BY <1>1, <1>2, <1>3, RecordedSteps, Zenon
<1> QED BY <1>4, BeginsKeepsOverlay

\* A new file: its name is unmarked and has its directories before it is put.
LEMMA CreateKeepsOverlay ==
  ASSUME OverlayIInv, NEW s \in Sessions, NEW p \in Paths, Create(s, p)
  PROVE  OverlayIInv'
<1>1. PICK e \in Entries : e = Entry("create", p, p, FALSE) /\ e.kind = "create" /\ e.path = p /\ Apart(e)
  <2>1. "create" \in Kinds /\ FALSE \in BOOLEAN /\ "create" # "rename"
    BY DEF Kinds
  <2>2. PICK f : f = Entry("create", p, p, FALSE)
    OBVIOUS
  <2>3. f \in Entries /\ f.kind = "create" /\ f.path = p /\ Apart(f)
    BY <2>1, <2>2, EntriesAre
  <2> QED BY <2>2, <2>3
<1>2. PICK d : d = Cleared(p, e) \o <<>>
  OBVIOUS
<1>3. Prepared(upper, marks, d) /\ IsUnmarked(marks, d, p)
  BY <1>1, <1>2, NothingPrepared, ClearedPrepared
<1>4. d = Cleared(p, e)
  <2>1. Cleared(p, e) \in Seq(Steps)
    <3>1. Do("clear", p, e) \in Steps
      BY DEF Do, Steps, StepNames
    <3> QED BY <3>1 DEF Cleared, IfThen
  <2> QED BY <2>1, <1>2, ConcatEmptySeq
<1>5. PICK c : c = d \o <<Do("parents", p, e)>>
  OBVIOUS
<1>6. Prepared(upper, marks, c) /\ IsMade(upper, c, p) /\ IsUnmarked(marks, c, p)
  <2>1. Prepared(upper, marks, d) /\ Apart(e)
    BY <1>1, <1>3
  <2>2. Prepared(upper, marks, c) /\ IsMade(upper, c, p) /\ Keeps(d, c)
    BY <2>1, <1>5, ParentsPrepared
  <2> QED BY <2>2, <1>3, KeptThere
<1>7. PICK steps : steps = <<Do("put", e.path, e)>>
  OBVIOUS
<1>8. PICK plan : plan = c \o Journaled(e, steps)
  OBVIOUS
<1>9. CreatePlan(p) = plan
  BY <1>1, <1>4, <1>5, <1>7, <1>8, Zenon DEF CreatePlan
<1>10. PICK wanted : wanted = [View EXCEPT ![p] = Empty]
  OBVIOUS
<1>11. Begins(s, plan, wanted, p)
  BY <1>9, <1>10 DEF Create
<1> QED BY <1>1, <1>6, <1>7, <1>8, <1>11, RecordedOperation

\* open() and chmod(): the plan is a copy-up and nothing else.
LEMMA CopyKeepsOverlay ==
  ASSUME OverlayIInv, NEW s \in Sessions, NEW p \in Paths, View[p] # "absent",
         NEW wanted, Begins(s, CopiedUp(p), wanted, p)
  PROVE  OverlayIInv'
<1>1. CopiedUp(p) # <<>>
  BY DEF Begins
<1>2. upper[p] = "absent" /\ CopiedUp(p) = CopyUp[p]
  BY <1>1 DEF CopiedUp, IfThen
<1>3. PICK c : c = CopyUp[p]
  OBVIOUS
<1>4. Copies(From[p], c)
  BY <1>3, CopyUpCopies DEF CopiedBelow
<1>5. Grown(upper, marks, c)
  BY <1>2, <1>3, CopiedUpPrepared DEF Prepared
<1>6. c \in Seq(Steps) /\ c # <<>>
  BY <1>1, <1>2, <1>3, <1>5 DEF Grown
<1>7. c[Len(c)].entry.kind # "mkdir"
  <2>1. Len(c) \in DOMAIN c
    BY <1>6
  <2>2. c[Len(c)].path \in Paths /\ c[Len(c)].entry = CopyEntry(c[Len(c)].path)
    BY <2>1, <1>4, Subsets DEF Copies
  <2>3. CopyEntry(c[Len(c)].path).kind \in {"copy-up", "copy-up-dir"}
    BY <2>2, CopyEntryIsEntry DEF StepNames
  <2> QED BY <2>2, <2>3
<1>8. MakesLast(upper, marks, c)
  BY <1>7 DEF MakesLast
<1>9. Shaped(c) /\ Planned(upper, marks, c) /\ Matched(c)
  BY <1>5, <1>8 DEF Grown, Planned
<1>10. Begins(s, c, wanted, p)
  BY <1>2, <1>3
<1> QED BY <1>6, <1>9, <1>10, BeginsKeepsOverlay

\* The directory above a name that is to be made is in the upper tree, or copied up first.
LEMMA MkdirKeepsPlan ==
  ASSUME OverlayIInv, NEW s \in Sessions, NEW p \in Paths, Mkdir(s, p)
  PROVE  OverlayIInv'
<1>1. PICK e \in Entries : e = Entry("mkdir", p, p, FALSE) /\ e.kind = "mkdir" /\ e.path = p /\ Apart(e)
  <2>1. "mkdir" \in Kinds /\ FALSE \in BOOLEAN /\ "mkdir" # "rename"
    BY DEF Kinds
  <2>2. PICK f : f = Entry("mkdir", p, p, FALSE)
    OBVIOUS
  <2>3. f \in Entries /\ f.kind = "mkdir" /\ f.path = p /\ Apart(f)
    BY <2>1, <2>2, EntriesAre
  <2> QED BY <2>2, <2>3
<1>2. PICK d : d = IfThen(Len(p) > 1, CopiedUp(Parent(p)))
  OBVIOUS
<1>3. upper \in Trees /\ marks \in SUBSET Paths /\ Tree(upper, marks)
  BY AlwaysKnown
<1>4. Prepared(upper, marks, d) /\ IsMade(upper, d, p)
  <2>1. CASE ~(Len(p) > 1)
    <3>1. d = <<>>
      BY <2>1, <1>2 DEF IfThen
    <3>2. Above[p] = {}
      <4>1. Len(p) = 1
        <5>1. PICK n : n = Len(p)
          OBVIOUS
        <5>2. n \in Nat /\ n > 0 /\ ~(n > 1)
          BY <2>1, <5>1, PathIsSeq, Zenon
        <5> QED BY <5>1, <5>2
      <4> QED BY <4>1, ParentIsAbove
    <3>3. Placed(upper, p)
      BY <3>2 DEF Placed
    <3> QED BY <3>1, <3>3, NothingPrepared DEF IsMade
  <2>2. CASE Len(p) > 1
    <3>1. PICK q \in Paths : q = Parent(p) /\ Above[p] = Above[q] \union {q}
      BY <2>2, ParentIsAbove
    <3>2. View[q] = "dir"
      BY <2>2, <3>1 DEF Mkdir, HasParent
    <3>3. d = CopiedUp(q)
      BY <2>2, <3>1, <1>2 DEF IfThen
    <3>4. Prepared(upper, marks, d)
      BY <3>2, <3>3, CopiedUpPrepared
    <3>5. CASE upper[q] = "dir"
      <4>1. Placed(upper, q)
        BY <3>5, <1>3 DEF Tree
      <4>2. Placed(upper, p)
        BY <3>1, <3>5, <4>1 DEF Placed
      <4> QED BY <3>4, <4>2 DEF IsMade
    <3>6. CASE upper[q] = "absent" /\ Lower[q] = "dir"
      <4>1. d = CopyUp[q]
        BY <3>3, <3>6 DEF CopiedUp, IfThen
      <4>2. \E i \in DOMAIN d : d[i].do = "mkdir" /\ d[i].path = q
        BY <3>6, <4>1, CopyUpCopies DEF CopiedBelow
      <4> QED BY <3>1, <3>4, <4>2, <2>2 DEF IsMade
    <3> QED BY <3>2, <3>5, <3>6, SeenNames
  <2> QED BY <2>1, <2>2
<1>5. PICK c : c = Cleared(p, e) \o d
  OBVIOUS
<1>6. Prepared(upper, marks, c) /\ IsUnmarked(marks, c, p) /\ Keeps(d, c)
  BY <1>1, <1>4, <1>5, ClearedPrepared
<1>7. IsMade(upper, c, p)
  BY <1>4, <1>6, KeptThere
<1>8. PICK steps : steps = <<Do("mkdir", e.path, e)>>
  OBVIOUS
<1>9. PICK plan : plan = c \o Journaled(e, steps)
  OBVIOUS
<1>10. MkdirPlan(p) = plan
  BY <1>1, <1>2, <1>5, <1>8, <1>9, Zenon DEF MkdirPlan
<1>11. PICK wanted : wanted = IF Lower[p] = "dir" THEN NoView ELSE [View EXCEPT ![p] = "dir"]
  OBVIOUS
<1>12. Begins(s, plan, wanted, p)
  BY <1>10, <1>11 DEF Mkdir
<1> QED BY <1>1, <1>6, <1>7, <1>8, <1>9, <1>12, RecordedOperation

\* unlink() and rmdir().
LEMMA RemovalKeepsOverlay ==
  ASSUME OverlayIInv, NEW s \in Sessions, NEW p \in Paths, NEW kind \in {"unlink", "rmdir"},
         NEW wanted, Begins(s, RemovePlan(kind, p), wanted, p)
  PROVE  OverlayIInv'
<1>1. PICK e \in Entries : /\ e = Entry(kind, p, p, Lower[p] # "absent") /\ e.kind = kind /\ e.path = p
                           /\ Apart(e)
  <2>1. PICK l \in BOOLEAN : l = (Lower[p] # "absent")
    OBVIOUS
  <2>2. kind \in Kinds /\ kind # "rename"
    BY DEF Kinds
  <2>3. PICK f : f = Entry(kind, p, p, l)
    OBVIOUS
  <2>4. f \in Entries /\ f.kind = kind /\ f.path = p /\ Apart(f)
    BY <2>2, <2>3, EntriesAre
  <2> QED BY <2>1, <2>3, <2>4
<1>2. PICK w \in Entries : /\ w = Entry("whiteout", p, p, TRUE) /\ w.kind = "whiteout" /\ w.path = p
                           /\ Apart(w)
  <2>1. PICK l \in BOOLEAN : l = TRUE
    OBVIOUS
  <2>2. "whiteout" \in Kinds /\ "whiteout" # "rename"
    BY DEF Kinds
  <2>3. PICK f : f = Entry("whiteout", p, p, l)
    OBVIOUS
  <2>4. f \in Entries /\ f.kind = "whiteout" /\ f.path = p /\ Apart(f)
    BY <2>2, <2>3, EntriesAre
  <2> QED BY <2>1, <2>3, <2>4
<1>3. PICK m : m = Do("remove", e.path, e)
  OBVIOUS
<1>4. PICK x : x = Do("mark", e.path, e)
  OBVIOUS
<1>5. m \in Steps /\ x \in Steps /\ Do("mark", p, w) \in Steps
  BY <1>1, <1>2, <1>3, <1>4 DEF Do, Steps, StepNames
<1>6. <<m>> \in Seq(Steps) /\ <<x>> \in Seq(Steps) /\ <<m>> \o <<x>> \in Seq(Steps) /\ <<m>> \o <<>> = <<m>>
  <2>1. <<m>> \in Seq(Steps) /\ <<x>> \in Seq(Steps)
    BY <1>5
  <2> QED BY <2>1, ConcatProperties, ConcatEmptySeq
<1>7. CASE upper[p] # "absent"
  <2>1. PICK steps : steps = <<m>> \o IfThen(e.lower, <<x>>)
    OBVIOUS
  <2>2. steps = <<m>> \/ steps = <<m>> \o <<x>>
    BY <2>1, <1>6 DEF IfThen
  <2>3. steps \in Seq(Steps)
    BY <2>2, <1>6
  <2>4. PICK plan : plan = <<>> \o Journaled(e, steps)
    OBVIOUS
  <2>5. Journaled(e, steps) \in Seq(Steps)
    BY <2>3, JournaledIsSeq
  <2>6. plan = Journaled(e, steps)
    BY <2>4, <2>5, ConcatEmptySeq
  <2>7. RemovePlan(kind, p) = plan
    BY <1>1, <1>3, <1>4, <1>7, <2>1, <2>6, Zenon DEF RemovePlan
  <2>8. Begins(s, plan, wanted, p)
    BY <2>7
  <2>9. \/ steps = <<Do("remove", e.path, e)>>
        \/ steps = <<Do("remove", e.path, e)>> \o <<Do("mark", e.path, e)>>
    BY <2>2, <1>3, <1>4, Zenon
  <2>10. "remove" \notin Building /\ e.kind \notin {"copy-up", "copy-up-dir", "mkdir"}
    BY <1>1 DEF Building
  <2> QED BY <1>1, <2>4, <2>8, <2>9, <2>10, NothingPrepared, RecordedOperation
<1>8. CASE upper[p] = "absent"
  <2>1. PICK c : c = <<>> \o <<Do("parents", p, w)>>
    OBVIOUS
  <2>2. Prepared(upper, marks, c) /\ OnlyParents(c, p)
    BY <1>2, <2>1, NothingPrepared, ParentsPrepared
  <2>3. c = <<Do("parents", p, w)>>
    <3>1. Do("parents", p, w) \in Steps
      BY DEF Do, Steps, StepNames
    <3>2. <<Do("parents", p, w)>> \in Seq(Steps)
      BY <3>1
    <3> QED BY <3>2, <2>1, ConcatEmptySeq
  <2>4. PICK steps : steps = <<Do("mark", w.path, w)>>
    OBVIOUS
  <2>5. PICK plan : plan = c \o Journaled(w, steps)
    OBVIOUS
  <2>6. RemovePlan(kind, p) = plan
    BY <1>2, <1>8, <2>3, <2>4, <2>5, Zenon DEF RemovePlan
  <2>7. Begins(s, plan, wanted, p)
    BY <2>6
  <2>8. "mark" \notin Building /\ w.kind \notin {"copy-up", "copy-up-dir", "mkdir"} /\ upper[w.path] = "absent"
    BY <1>2, <1>8 DEF Building
  <2> QED BY <1>2, <2>2, <2>4, <2>5, <2>7, <2>8, RecordedOperation
<1> QED BY <1>7, <1>8

\* A rename: its source is copied up, its target has a directory and no marker.
LEMMA RenameKeepsOverlay ==
  ASSUME OverlayIInv, NEW s \in Sessions, NEW p \in Paths, NEW dest \in Paths, Rename(s, p, dest)
  PROVE  OverlayIInv'
<1>1. PICK e \in Entries : /\ e = Entry("rename", p, dest, Lower[p] # "absent") /\ e.kind = "rename"
                           /\ e.path = p /\ e.dest = dest
  <2>1. PICK l \in BOOLEAN : l = (Lower[p] # "absent")
    OBVIOUS
  <2>2. "rename" \in Kinds
    BY DEF Kinds
  <2>3. PICK f : f = Entry("rename", p, dest, l)
    OBVIOUS
  <2>4. f \in Entries /\ f.kind = "rename" /\ f.path = p /\ f.dest = dest
    BY <2>2, <2>3, EntriesAre
  <2> QED BY <2>1, <2>3, <2>4
<1>2. Apart(e)
  BY <1>1 DEF Rename, Apart
<1>3. PICK d : d = CopiedUp(p)
  OBVIOUS
<1>4. Prepared(upper, marks, d)
  <2>1. View[p] # "absent"
    BY DEF Rename
  <2> QED BY <2>1, <1>3, CopiedUpPrepared
<1>5. PICK b : b = Cleared(dest, e) \o d
  OBVIOUS
<1>6. Prepared(upper, marks, b) /\ IsUnmarked(marks, b, dest)
  BY <1>2, <1>4, <1>5, ClearedPrepared
<1>7. PICK c : c = b \o <<Do("parents", dest, e)>>
  OBVIOUS
<1>8. Prepared(upper, marks, c) /\ IsMade(upper, c, dest) /\ Keeps(b, c)
  BY <1>2, <1>6, <1>7, ParentsPrepared
<1>9. IsUnmarked(marks, c, dest)
  BY <1>6, <1>8, KeptThere
<1>10. PICK m : m = Do("move", e.path, e)
  OBVIOUS
<1>11. PICK x : x = Do("mark", e.path, e)
  OBVIOUS
<1>12. PICK steps : steps = <<m>> \o IfThen(e.lower, <<x>>)
  OBVIOUS
<1>13. steps = <<m>> \/ steps = <<m>> \o <<x>>
  <2>1. m \in Steps
    BY <1>1, <1>10 DEF Do, Steps, StepNames
  <2>2. <<m>> \in Seq(Steps)
    BY <2>1
  <2>3. <<m>> \o <<>> = <<m>>
    BY <2>2, ConcatEmptySeq
  <2> QED BY <2>3, <1>12 DEF IfThen
<1>14. \/ steps = <<Do("move", e.path, e)>>
       \/ steps = <<Do("move", e.path, e)>> \o <<Do("mark", e.path, e)>>
  BY <1>10, <1>11, <1>13, Zenon
<1>15. PICK plan : plan = c \o Journaled(e, steps)
  OBVIOUS
<1>16. RenamePlan(p, dest) = plan
  BY <1>1, <1>3, <1>5, <1>7, <1>10, <1>11, <1>12, <1>15, Zenon DEF RenamePlan
<1>17. \E wanted : Begins(s, plan, wanted, dest)
  BY <1>16 DEF Rename
<1>18. PICK wanted : Begins(s, plan, wanted, dest)
  BY <1>17
<1>19. "move" \in {"put", "mkdir", "move", "remove", "mark"} /\ "move" \in {"remove", "move"}
  OBVIOUS
<1>20. e.kind \notin {"copy-up", "copy-up-dir", "mkdir"}
  BY <1>1
<1> QED BY <1>1, <1>2, <1>8, <1>9, <1>14, <1>15, <1>18, <1>19, <1>20, RecordedOperation, ZenonT(40)

\* Every step keeps the invariant.
LEMMA NextKeepsOverlay == OverlayIInv /\ [Next]_vars => OverlayIInv'
<1> SUFFICES ASSUME OverlayIInv, [Next]_vars PROVE OverlayIInv'
  OBVIOUS
<1>1. ASSUME NEW s \in Sessions, Start(s) \/ Crash(s) PROVE OverlayIInv'
  BY <1>1, StartKeepsOverlay, CrashKeepsOverlay
<1>2. ASSUME NEW s \in Sessions, NEW p \in Paths,
             \/ Create(s, p) \/ OpenForWrite(s, p) \/ Chmod(s, p) \/ Write(s, p)
             \/ Mkdir(s, p) \/ Unlink(s, p) \/ Rmdir(s, p)
             \/ \E dest \in Paths : Rename(s, p, dest)
      PROVE  OverlayIInv'
  <2>1. CASE Create(s, p)
    BY <2>1, CreateKeepsOverlay
  <2>2. CASE OpenForWrite(s, p)
    <3>1. View[p] # "absent"
      BY <2>2, ConstantsAssumption DEF OpenForWrite, ConstantsAssumption
    <3> QED BY <2>2, <3>1, CopyKeepsOverlay DEF OpenForWrite
  <2>3. CASE Chmod(s, p)
    <3>1. View[p] # "absent"
      BY <2>3 DEF Chmod
    <3> QED BY <2>3, <3>1, CopyKeepsOverlay DEF Chmod
  <2>4. CASE Write(s, p)
    BY <2>4, WriteKeepsOverlay
  <2>5. CASE Mkdir(s, p)
    BY <2>5, MkdirKeepsPlan
  <2>6. CASE Unlink(s, p)
    BY <2>6, RemovalKeepsOverlay DEF Unlink
  <2>7. CASE Rmdir(s, p)
    BY <2>7, RemovalKeepsOverlay DEF Rmdir
  <2>8. CASE \E dest \in Paths : Rename(s, p, dest)
    BY <2>8, RenameKeepsOverlay
  <2> QED BY <1>2, <2>1, <2>2, <2>3, <2>4, <2>5, <2>6, <2>7, <2>8
<1>3. CASE Step
  BY <1>3, ClearKeepsOverlay, ParentsKeepOverlay, BeginKeepsOverlay, PutKeepsOverlay,
     MkdirKeepsOverlay, RemoveKeepsOverlay, RemoveTreeKeepsOverlay, MoveKeepsOverlay,
     MarkKeepsOverlay, CommitKeepsOverlay DEF Step
<1>4. CASE Fail
  BY <1>4, FailKeepsOverlay
<1>5. CASE Replay
  BY <1>5, ReplayKeepsOverlay
<1>6. CASE Started \/ StartFails
  BY <1>6, StartedKeepsOverlay
<1>7. CASE UNCHANGED vars
  BY <1>7 DEF vars, treeVars, historyVars, OverlayIInv, TypeOK, InPlace, Plans, Planned, Ready, MakesLast, Unmarks,
     MarksLast, Paired, Recorded, Unfinished, Unburied, Clean, Shaped
<1> QED BY <1>1, <1>2, <1>3, <1>4, <1>5, <1>6, <1>7 DEF Next

\* At every moment what an operation or a replay has still to do finds the tree it needs, the
\* journal has each intent that waits for its commit, and, when nothing else is in the journal,
\* no marker hides a node of the upper tree.
THEOREM OverlayIsPlanned == Spec => []OverlayIInv
<1>1. Init => OverlayIInv
  BY InitIsSound
<1>2. OverlayIInv /\ [Next]_vars => OverlayIInv'
  BY NextKeepsOverlay
<1> QED BY <1>1, <1>2, PTL DEF Spec

\* An idle overlay with an empty journal is clean, so nothing is buried.
LEMMA PlannedIsSound == OverlayIInv => TreesAreSound
<1> SUFFICES ASSUME OverlayIInv, phase = "idle", pending = <<>> PROVE \A p \in marks : upper[p] = "absent"
  BY DEF OverlayIInv, TreesAreSound, NothingBuried
<1>1. Clean
  BY DEF Clean
<1> QED BY <1>1 DEF OverlayIInv, Unburied

\* The upper tree is a tree and, with a clean journal, no deleted name comes back from under
\* its marker: for any names, lower tree, sessions and bound, however sessions fail or die.
THEOREM AlwaysSound == Spec => []TreesAreSound
BY OverlayIsPlanned, PlannedIsSound, PTL

-----------------------------------------------------------------------------
(* Overlay: nothing but what an operation names is seen to change          *)

\* What a plan is about: the names of its last record, and all below them.
Zone(s) == From[s[Len(s)].entry.path] \union From[s[Len(s)].entry.dest]

\* The upper tree has nothing else of q than a copy.
Faithful(u, q) == u[q] \in {"absent", Lower[q]}

\* A step changes what is seen in Z only: directories are made where there are some,
\* and what is put elsewhere is a copy.
Near(u, ms, Z, x) ==
  /\ x.do # "rmtree"
  /\ x.do \in {"clear", "remove", "move", "mark"} => x.path \in Z
  /\ x.do = "move" => x.entry.dest \in Z
  /\ x.do \in {"parents", "mark"} =>
       \A q \in Above[x.path] \ Z : u[q] = "dir" \/ Lower[q] = "dir"
  /\ x.do = "mkdir" /\ x.path \notin Z => Lower[x.path] = "dir"
  /\ x.do = "put" /\ x.path \notin Z => x.entry.kind = "copy-up" /\ Faithful(u, x.path)
  /\ x.entry.kind = "copy-up-dir" =>
       \A q \in From[x.path] \ Z : Faithful(u, q) /\ (q # x.path => q \notin ms)

AllNear(u, ms, Z, s) == s \in Seq(Steps) /\ \A i \in DOMAIN s : Near(u, ms, Z, s[i])

NearIInv ==
  /\ phase = "operation" => AllNear(upper, marks, Zone(todo), todo)
  /\ phase = "replay" => \A i \in DOMAIN todo : todo[i].path \in {todo[i].entry.path, todo[i].entry.dest}

\* Outside Z the two trees show the same.
Alike(u, ms, v, ns, Z) ==
  \A q \in Paths \ Z : /\ v[q] = u[q] \/ {u[q], v[q]} \subseteq {"absent", Lower[q]}
                       /\ q \in ns <=> q \in ms

\* Nothing in Z is above what is outside.
LEMMA ZoneIsClosed ==
  ASSUME NEW a \in Paths, NEW b \in Paths, NEW Z, Z = From[a] \union From[b]
  PROVE  /\ Z \subseteq Paths /\ a \in Z /\ b \in Z
         /\ \A q \in Paths \ Z : \A r \in Above[q] : r \in Paths \ Z
<1>1. Z \subseteq Paths /\ a \in Z /\ b \in Z
  BY Subsets
<1>2. ASSUME NEW q \in Paths \ Z, NEW r \in Above[q] PROVE r \in Paths \ Z
  <2>1. r \in Paths /\ q \in Below[r] BY <1>2, Subsets, AboveIsOrder
  <2>2. ASSUME NEW c \in Paths, r \in From[c] PROVE q \in From[c]
    <3>1. CASE r = c BY <2>1, <3>1, Subsets
    <3>2. CASE r # c
      <4>1. r \in Below[c] BY <2>2, <3>2, Subsets
      <4>2. c \in Above[r] BY <2>1, <4>1, AboveIsOrder
      <4> QED BY <2>1, <4>2, AboveIsOrder, Subsets
    <3> QED BY <3>1, <3>2
  <2> QED BY <2>1, <2>2
<1> QED BY <1>1, <1>2

\* Names outside Z are found as before.
LEMMA NodesStay ==
  ASSUME NEW u, NEW ms, NEW v, NEW ns, NEW Z, Alike(u, ms, v, ns, Z),
         \A q \in Paths \ Z : \A r \in Above[q] : r \in Paths \ Z
  PROVE  \A q \in Paths \ Z : Node(v, ns, q) = Node(u, ms, q)
<1>1. ASSUME NEW q \in Paths \ Z PROVE Node(v, ns, q) = Node(u, ms, q)
  <2>1. Hidden(ns, q) <=> Hidden(ms, q)
    BY <1>1 DEF Hidden, Alike
  <2>2. v[q] = u[q] \/ {u[q], v[q]} \subseteq {"absent", Lower[q]}
    BY <1>1 DEF Alike
  <2> QED BY <2>1, <2>2 DEF Node
<1> QED BY <1>1

\* What is seen outside Z is the same in trees that are alike.
LEMMA ViewStays ==
  ASSUME NEW u, NEW ms, NEW v, NEW ns, NEW Z, Alike(u, ms, v, ns, Z),
         \A q \in Paths \ Z : \A r \in Above[q] : r \in Paths \ Z
  PROVE  \A p \in Paths \ Z : ViewOf(v, ns)[p] = ViewOf(u, ms)[p]
<1>1. \A q \in Paths \ Z : Node(v, ns, q) = Node(u, ms, q)
  BY NodesStay
<1>2. ASSUME NEW p \in Paths \ Z PROVE ViewOf(v, ns)[p] = ViewOf(u, ms)[p]
  <2>1. \A q \in Above[p] : Node(v, ns, q) = Node(u, ms, q)
    BY <1>1, <1>2
  <2>2. Node(v, ns, p) = Node(u, ms, p)
    BY <1>1, <1>2
  <2> QED BY <1>2, <2>1, <2>2 DEF ViewOf
<1> QED BY <1>2

\* What is near Z stays near it when the trees change alike.
LEMMA NearGoesOn ==
  ASSUME NEW u, NEW ms, NEW v, NEW ns, NEW Z, Alike(u, ms, v, ns, Z),
         NEW x \in Steps, Near(u, ms, Z, x)
  PROVE  Near(v, ns, Z, x)
<1>0. x.path \in Paths
  BY DEF Steps
<1>1. \A q \in Paths \ Z : Faithful(u, q) => Faithful(v, q)
  BY DEF Alike, Faithful
<1>2. \A q \in Paths \ Z : u[q] = "dir" \/ Lower[q] = "dir" => v[q] = "dir" \/ Lower[q] = "dir"
  <2> SUFFICES ASSUME NEW q \in Paths \ Z, u[q] = "dir" PROVE v[q] = "dir" \/ Lower[q] = "dir"
    OBVIOUS
  <2> QED BY DEF Alike
<1>3. \A q \in Paths \ Z : q \notin ms => q \notin ns
  BY DEF Alike
<1>4. Above[x.path] \subseteq Paths /\ From[x.path] \subseteq Paths
  BY <1>0, Subsets
<1> QED BY <1>0, <1>1, <1>2, <1>3, <1>4 DEF Near

\* Plans near Z put together.
LEMMA NearJoin ==
  ASSUME NEW u, NEW ms, NEW Z, NEW s, AllNear(u, ms, Z, s), NEW t, AllNear(u, ms, Z, t),
         NEW r, r = s \o t
  PROVE  AllNear(u, ms, Z, r)
<1>1. s \in Seq(Steps) /\ t \in Seq(Steps)
  BY DEF AllNear
<1>2. /\ r \in Seq(Steps)
      /\ \A i \in DOMAIN s : i \in DOMAIN r /\ r[i] = s[i]
      /\ \A i \in DOMAIN t : Len(s) + i \in DOMAIN r /\ r[Len(s) + i] = t[i]
      /\ \A i \in DOMAIN r : i \in DOMAIN s \/ (i - Len(s) \in DOMAIN t /\ i = Len(s) + (i - Len(s)))
  BY <1>1, JoinedPlaces
<1>3. ASSUME NEW i \in DOMAIN r PROVE Near(u, ms, Z, r[i])
  <2>1. (\E j \in DOMAIN s : r[i] = s[j]) \/ \E j \in DOMAIN t : r[i] = t[j]
    BY <1>2, <1>3, Zenon
  <2> QED BY <2>1 DEF AllNear
<1> QED BY <1>2, <1>3 DEF AllNear

\* One step is a plan.
LEMMA NearOne ==
  ASSUME NEW u, NEW ms, NEW Z, NEW x \in Steps, Near(u, ms, Z, x)
  PROVE  AllNear(u, ms, Z, <<x>>)
<1>1. <<x>> \in Seq(Steps) /\ DOMAIN <<x>> = {1} /\ <<x>>[1] = x
  OBVIOUS
<1> QED BY <1>1 DEF AllNear

\* Nothing left to do is near to any names.
LEMMA NearNone ==
  ASSUME NEW u, NEW ms, NEW Z
  PROVE  AllNear(u, ms, Z, <<>>)
BY EmptySeq DEF AllNear

\* The names a plan is about are the same until it is over.
LEMMA ZoneOfPlan ==
  ASSUME NEW s \in Seq(Steps), s # <<>>
  PROVE  /\ Zone(s) \subseteq Paths
         /\ s[Len(s)].entry.path \in Zone(s) /\ s[Len(s)].entry.dest \in Zone(s)
         /\ \A q \in Paths \ Zone(s) : \A r \in Above[q] : r \in Paths \ Zone(s)
         /\ \A p \in Paths : p \in Zone(s) => From[p] \subseteq Zone(s)
         /\ Tail(s) # <<>> => Zone(Tail(s)) = Zone(s)
<1>1. Len(s) \in DOMAIN s
  BY TailFacts
<1>2. s[Len(s)] \in Steps
  BY <1>1
<1>3. PICK a \in Paths : a = s[Len(s)].entry.path
  BY <1>2 DEF Steps, Entries
<1>4. PICK b \in Paths : b = s[Len(s)].entry.dest
  BY <1>2 DEF Steps, Entries
<1>5. PICK Z : Z = Zone(s) /\ Z = From[a] \union From[b]
  BY <1>3, <1>4 DEF Zone
<1>6. /\ Z \subseteq Paths /\ a \in Z /\ b \in Z
      /\ \A q \in Paths \ Z : \A r \in Above[q] : r \in Paths \ Z
  BY <1>5, ZoneIsClosed
<1>7. ASSUME NEW p \in Paths, p \in Z, NEW q \in From[p] PROVE q \in Z
  <2>1. q \in Paths /\ (q = p \/ q \in Below[p])
    BY <1>7, Subsets
  <2>2. q = p \/ p \in Above[q]
    BY <2>1, AboveIsOrder
  <2> QED BY <1>6, <1>7, <2>1, <2>2
<1>8. ASSUME Tail(s) # <<>> PROVE Zone(Tail(s)) = Zone(s)
  <2>1. /\ Len(s) \in Nat /\ Len(s) > 0 /\ Len(Tail(s)) = Len(s) - 1 /\ Len(s) # 1
        /\ \A i \in 1 .. Len(s) - 1 : Tail(s)[i] = s[i + 1]
    BY <1>8, TailFacts
  <2>2. Len(s) - 1 \in 1 .. Len(s) - 1 /\ (Len(s) - 1) + 1 = Len(s)
    BY <2>1
  <2>3. Tail(s)[Len(Tail(s))] = s[Len(s)]
    BY <2>1, <2>2
  <2> QED BY <2>3 DEF Zone
<1> QED BY <1>3, <1>4, <1>5, <1>6, <1>7, <1>8, Zenon

\* What the first step of a plan near its names is.
LEMMA NearNow ==
  ASSUME OverlayIInv, NearIInv, todo # <<>>, phase = "operation"
  PROVE  /\ Near(upper, marks, Zone(todo), Current) /\ Current.path \in Paths
         /\ \A q \in Paths : q \in Zone(todo) => From[q] \subseteq Zone(todo)
<1>1. todo \in Seq(Steps) /\ 1 \in DOMAIN todo /\ Current = todo[1] /\ Current.path \in Paths
  BY Underway DEF Typed
<1>2. AllNear(upper, marks, Zone(todo), todo)
  BY DEF NearIInv
<1> QED BY <1>1, <1>2, ZoneOfPlan DEF AllNear

\* Directories that are made where there are some show nothing new.
LEMMA ParentsAreAlike ==
  ASSUME NEW u, NEW ms, NEW p \in Paths, NEW Z, NEW v, NEW ns,
         \A q \in Above[p] \ Z : u[q] = "dir" \/ Lower[q] = "dir",
         v = [q \in Paths |-> IF q \in Above[p] /\ u[q] = "absent" THEN "dir" ELSE u[q]],
         \A q \in Paths \ Z : q \in ns <=> q \in ms
  PROVE  Alike(u, ms, v, ns, Z)
<1>1. ASSUME NEW q \in Paths \ Z PROVE v[q] = u[q] \/ {u[q], v[q]} \subseteq {"absent", Lower[q]}
  <2>1. v[q] = IF q \in Above[p] /\ u[q] = "absent" THEN "dir" ELSE u[q]
    BY <1>1
  <2>2. CASE q \in Above[p] /\ u[q] = "absent"
    <3>1. v[q] = "dir" /\ Lower[q] = "dir" BY <2>1, <2>2, <1>1
    <3> QED BY <2>2, <3>1
  <2> QED BY <2>1, <2>2
<1> QED BY <1>1 DEF Alike

\* Each step of an operation leaves the rest of the tree alike.
LEMMA StepIsAlike ==
  ASSUME OverlayIInv, NearIInv, todo # <<>>, phase = "operation", Step
  PROVE  Alike(upper, marks, upper', marks', Zone(todo))
<1>1. /\ Near(upper, marks, Zone(todo), Current) /\ Current.path \in Paths
      /\ \A q \in Paths : q \in Zone(todo) => From[q] \subseteq Zone(todo)
  BY NearNow
<1>2. upper \in [Paths -> Nodes] /\ marks \in SUBSET Paths
  BY Underway DEF Trees
<1>3. Current.entry.dest \in Paths
  BY Underway
<1>4. CASE StepClear
  BY <1>1, <1>2, <1>4 DEF StepClear, Is, Near, Alike
<1>5. CASE StepParents
  <2>1. upper' = WithParents(Current.path) /\ marks' = marks /\ Current.do = "parents"
    BY <1>5 DEF StepParents, Is
  <2>2. \A q \in Above[Current.path] \ Zone(todo) : upper[q] = "dir" \/ Lower[q] = "dir"
    BY <1>1, <2>1 DEF Near
  <2> QED BY <1>1, <2>1, <2>2, ParentsAreAlike DEF WithParents
<1>6. CASE StepBegin \/ StepCommit
  BY <1>6 DEF StepBegin, StepCommit, treeVars, Alike
<1>7. CASE StepPut
  <2> DEFINE p == Current.path
  <2>1. /\ Current.do = "put" /\ marks' = marks
        /\ upper' = [upper EXCEPT ![p] = IF Current.entry.kind = "create" THEN Empty ELSE Lower[p]]
    BY <1>7 DEF StepPut, Is
  <2>2. p \notin Zone(todo) => Current.entry.kind = "copy-up" /\ upper[p] \in {"absent", Lower[p]}
    BY <1>1, <2>1 DEF Near, Faithful
  <2>3. \A q \in Paths : q # p => upper'[q] = upper[q]
    BY <1>2, <2>1
  <2>4. p \notin Zone(todo) => upper'[p] = Lower[p]
    BY <1>1, <1>2, <2>1, <2>2
  <2> HIDE DEF p
  <2> QED BY <2>1, <2>2, <2>3, <2>4 DEF Alike
<1>8. CASE StepMkdir
  <2> DEFINE p == Current.path
  <2>1. /\ Current.do = "mkdir" /\ marks' = marks /\ upper[p] = "absent"
        /\ upper' = [upper EXCEPT ![p] = "dir"]
    BY <1>8 DEF StepMkdir, Is
  <2>2. p \notin Zone(todo) => Lower[p] = "dir"
    BY <1>1, <2>1 DEF Near
  <2>3. upper'[p] = "dir" /\ \A q \in Paths : q # p => upper'[q] = upper[q]
    BY <1>1, <1>2, <2>1
  <2> HIDE DEF p
  <2> QED BY <2>1, <2>2, <2>3 DEF Alike
<1>9. CASE StepRemove
  BY <1>1, <1>2, <1>9 DEF StepRemove, Is, Near, Alike
<1>10. CASE StepRemoveTree
  BY <1>1, <1>10 DEF StepRemoveTree, Is, Near
<1>11. CASE StepMove
  <2> DEFINE p == Current.path
             dest == Current.entry.dest
  <2>1. p \in Zone(todo) /\ dest \in Zone(todo)
    BY <1>1, <1>11 DEF StepMove, Is, Near
  <2>2. From[p] \subseteq Zone(todo) /\ From[dest] \subseteq Zone(todo)
    BY <1>1, <1>3, <2>1
  <2>3. Below[p] \subseteq From[p] /\ Below[dest] \subseteq From[dest]
    BY <1>1, <1>3, Subsets
  <2>4. \A q \in Paths \ Zone(todo) : upper'[q] = upper[q]
    BY <1>11, <2>2 DEF StepMove
  <2>5. \A q \in Paths \ Zone(todo) : q \in marks' <=> q \in marks
    BY <1>11, <2>2, <2>3 DEF StepMove
  <2> QED BY <2>4, <2>5 DEF Alike
<1>12. CASE StepMark
  <2>1. /\ upper' = WithParents(Current.path) /\ marks' = marks \union {Current.path}
        /\ Current.do = "mark"
    BY <1>12 DEF StepMark, Is
  <2>2. /\ Current.path \in Zone(todo)
        /\ \A q \in Above[Current.path] \ Zone(todo) : upper[q] = "dir" \/ Lower[q] = "dir"
    BY <1>1, <2>1 DEF Near
  <2> QED BY <1>1, <2>1, <2>2, ParentsAreAlike DEF WithParents
<1> QED BY <1>4, <1>5, <1>6, <1>7, <1>8, <1>9, <1>10, <1>11, <1>12 DEF Step

\* What a failing operation undoes outside of its names was a copy.
LEMMA FailIsAlike ==
  ASSUME OverlayIInv, NearIInv, Fail
  PROVE  Alike(upper, marks, upper', marks', Zone(todo))
<1>1. todo # <<>> /\ phase = "operation" /\ todo \in Seq(Steps)
  BY Underway DEF Fail, Typed
<1>2. upper \in [Paths -> Nodes] /\ marks \in SUBSET Paths
  BY <1>1, Underway DEF Trees
<1>3. AllNear(upper, marks, Zone(todo), todo)
  BY <1>1 DEF NearIInv
<1>4. CASE upper' = upper /\ marks' = marks
  BY <1>4 DEF Alike
<1>5. CASE UndoCopy
  <2>1. SUFFICES ASSUME NEW i \in DOMAIN todo, todo[i].entry.kind = "copy-up-dir",
                        TreeRemoved(todo[i].path)
                 PROVE  Alike(upper, marks, upper', marks', Zone(todo))
    BY <1>4, <1>5 DEF UndoCopy, treeVars
  <2>2. PICK p \in Paths : p = todo[i].path
    <3>1. todo[i] \in Steps BY <1>1
    <3> QED BY <3>1 DEF Steps
  <2>3. \A q \in From[p] \ Zone(todo) :
          upper[q] \in {"absent", Lower[q]} /\ (q # p => q \notin marks)
    BY <1>3, <2>1, <2>2 DEF AllNear, Near, Faithful
  <2>4. /\ \A q \in Paths : upper'[q] = IF q \in From[p] THEN "absent" ELSE upper[q]
        /\ marks' = marks \ Below[p]
    BY <2>1, <2>2 DEF TreeRemoved
  <2>5. p \notin Below[p] /\ Below[p] \subseteq From[p]
    BY Subsets
  <2> QED BY <2>3, <2>4, <2>5 DEF Alike
<1>6. CASE UndoMkdir
  <2>1. LastEntry.path \in Zone(todo)
    BY <1>1, ZoneOfPlan DEF LastEntry
  <2> QED BY <1>2, <1>6, <2>1 DEF UndoMkdir, Alike
<1>7. CASE UndoRemove \/ UndoRename
  BY <1>4, <1>7 DEF UndoRemove, UndoRename, treeVars
<1> QED BY <1>5, <1>6, <1>7 DEF Fail

\* A plan that is gone is near to everything.
LEMMA StoppedIsNear ==
  ASSUME todo' = <<>>
  PROVE  NearIInv'
<1>1. AllNear(upper', marks', Zone(todo'), todo') /\ DOMAIN todo' = {}
  BY NearNone
<1> QED BY <1>1 DEF NearIInv

\* The rest of a plan, or of a replay, is near what it is about.
LEMMA StepKeepsNear ==
  ASSUME OverlayIInv, NearIInv, Step
  PROVE  NearIInv'
<1>1. todo # <<>> /\ Taken
  BY DEF Step, StepClear, StepParents, StepBegin, StepPut, StepMkdir, StepRemove, StepRemoveTree,
         StepMove, StepMark, StepCommit, Is
<1>2. todo \in Seq(Steps) /\ todo' = Tail(todo) /\ phase \in {"operation", "replay"}
  BY <1>1, Underway DEF Typed, Taken
<1>3. \A i \in DOMAIN Tail(todo) : i + 1 \in DOMAIN todo /\ Tail(todo)[i] = todo[i + 1]
  BY <1>1, <1>2, TailPlaces
<1>4. CASE phase = "operation"
  <2>1. CASE Tail(todo) = <<>>
    BY <1>2, <2>1, StoppedIsNear
  <2>2. CASE Tail(todo) # <<>>
    <3>1. Zone(todo') = Zone(todo) /\ Tail(todo) \in Seq(Steps) /\ Len(todo) # 1
      BY <1>1, <1>2, <2>2, ZoneOfPlan, TailFacts
    <3>2. phase' = "operation"
      BY <1>1, <1>4, <3>1 DEF Taken
    <3>3. Alike(upper, marks, upper', marks', Zone(todo))
      BY <1>1, <1>4, StepIsAlike
    <3>4. ASSUME NEW i \in DOMAIN Tail(todo)
          PROVE  Near(upper', marks', Zone(todo), Tail(todo)[i])
      <4>1. PICK x : x = todo[i + 1]
        OBVIOUS
      <4>2. x \in Steps /\ Near(upper, marks, Zone(todo), x)
        BY <1>2, <1>3, <1>4, <3>4, <4>1 DEF NearIInv, AllNear
      <4>3. Near(upper', marks', Zone(todo), x)
        BY <3>3, <4>2, NearGoesOn
      <4> QED BY <1>3, <4>1, <4>3
    <3>5. AllNear(upper', marks', Zone(todo'), todo')
      BY <1>2, <3>1, <3>4 DEF AllNear
    <3> QED BY <3>2, <3>5 DEF NearIInv
  <2> QED BY <2>1, <2>2
<1>5. CASE phase = "replay"
  <2>1. phase' = "replay"
    BY <1>1, <1>5 DEF Taken
  <2>2. \A i \in DOMAIN todo : todo[i].path \in {todo[i].entry.path, todo[i].entry.dest}
    BY <1>5 DEF NearIInv
  <2>3. \A i \in DOMAIN todo' : todo'[i].path \in {todo'[i].entry.path, todo'[i].entry.dest}
    BY <1>2, <1>3, <2>2
  <2> QED BY <2>1, <2>3 DEF NearIInv
<1> QED BY <1>2, <1>4, <1>5

\* Steps at the names of a record.
OfRecord(e, s) ==
  s \in Seq(Steps) /\ \A i \in DOMAIN s : s[i].entry = e /\ s[i].path \in {e.path, e.dest}

\* What a start does about a record it does at the names of the record.
LEMMA RedoIsOfRecord ==
  ASSUME NEW e \in Entries
  PROVE  OfRecord(e, Redo(e))
<1>1. OfRecord(e, <<>>)
  BY EmptySeq DEF OfRecord
<1>2. ASSUME NEW name \in StepNames, NEW p \in {e.path, e.dest} PROVE OfRecord(e, <<Do(name, p, e)>>)
  <2>1. PICK x : x = Do(name, p, e)
    OBVIOUS
  <2>2. x \in Steps /\ x.entry = e /\ x.path = p
    BY <2>1 DEF Do, Steps, Entries
  <2>3. <<x>> \in Seq(Steps) /\ DOMAIN <<x>> = {1} /\ <<x>>[1] = x
    BY <2>2
  <2> QED BY <2>1, <2>2, <2>3 DEF OfRecord
<1>3. ASSUME NEW s, OfRecord(e, s), NEW t, OfRecord(e, t), NEW r, r = s \o t PROVE OfRecord(e, r)
  <2>1. s \in Seq(Steps) /\ t \in Seq(Steps)
    BY <1>3 DEF OfRecord
  <2>2. /\ r \in Seq(Steps)
        /\ \A i \in DOMAIN r : (\E j \in DOMAIN s : r[i] = s[j]) \/ \E j \in DOMAIN t : r[i] = t[j]
    <3>1. /\ r \in Seq(Steps)
          /\ \A i \in DOMAIN s : i \in DOMAIN r /\ r[i] = s[i]
          /\ \A i \in DOMAIN t : Len(s) + i \in DOMAIN r /\ r[Len(s) + i] = t[i]
          /\ \A i \in DOMAIN r : i \in DOMAIN s \/ (i - Len(s) \in DOMAIN t /\ i = Len(s) + (i - Len(s)))
      BY <1>3, <2>1, JoinedPlaces
    <3> QED BY <3>1, Zenon
  <2> QED BY <1>3, <2>2 DEF OfRecord
<1>4. ASSUME NEW c \in BOOLEAN, NEW name \in StepNames, NEW p \in {e.path, e.dest}
      PROVE  OfRecord(e, IfThen(c, <<Do(name, p, e)>>))
  BY <1>1, <1>2, <1>4 DEF IfThen
<1>5. CASE e.kind = "rename"
  <2> DEFINE a == Do("parents", e.dest, e)
             b == Do("move", e.path, e)
             m == Do("mark", e.path, e)
  <2>1. OfRecord(e, <<a>>) /\ OfRecord(e, <<b>>) /\ a \in Steps /\ b \in Steps
    <3>1. OfRecord(e, <<a>>) /\ OfRecord(e, <<b>>)
      BY <1>2 DEF StepNames
    <3>2. a \in Steps /\ b \in Steps
      BY DEF Do, Steps, StepNames, Entries
    <3> QED BY <3>1, <3>2
  <2>2. <<a>> \o <<b>> = <<a, b>>
    <3> HIDE DEF a, b
    <3> QED BY <2>1, SmallPlans
  <2>3. OfRecord(e, <<a, b>>)
    <3> HIDE DEF a, b
    <3>1. PICK r : r = <<a, b>> /\ r = <<a>> \o <<b>> BY <2>2
    <3>2. OfRecord(e, r) BY <2>1, <3>1, <1>3
    <3> QED BY <3>1, <3>2
  <2>4. PICK s : s = IfThen(upper[e.path] # "absent", <<a, b>>)
    OBVIOUS
  <2>5. OfRecord(e, s)
    <3> HIDE DEF a, b
    <3> QED BY <2>3, <2>4, <1>1 DEF IfThen
  <2>6. e.lower \in BOOLEAN
    BY DEF Entries
  <2>7. PICK t : t = IfThen(e.lower, <<m>>)
    OBVIOUS
  <2>8. OfRecord(e, t)
    BY <1>4, <2>6, <2>7 DEF StepNames
  <2>9. Redo(e) = s \o t
    BY <1>5, <2>4, <2>7 DEF Redo
  <2> QED BY <1>3, <2>5, <2>8, <2>9
<1>6. CASE e.kind \in {"unlink", "rmdir"}
  <2>1. PICK s : s = IfThen(upper[e.path] # "absent", <<Do("remove", e.path, e)>>) /\ OfRecord(e, s)
    <3>1. PICK c \in BOOLEAN : c = (upper[e.path] # "absent") OBVIOUS
    <3> QED BY <3>1, <1>4 DEF StepNames
  <2>2. PICK t : t = IfThen(e.lower, <<Do("mark", e.path, e)>>) /\ OfRecord(e, t)
    <3>1. e.lower \in BOOLEAN BY DEF Entries
    <3> QED BY <3>1, <1>4 DEF StepNames
  <2>3. Redo(e) = s \o t
    BY <1>6, <2>1, <2>2 DEF Redo
  <2> QED BY <1>3, <2>1, <2>2, <2>3
<1>7. CASE e.kind \in {"create", "copy-up", "mkdir", "copy-up-dir", "whiteout"}
  <2>1. \/ Redo(e) = <<>> \/ Redo(e) = <<Do("remove", e.path, e)>>
        \/ Redo(e) = <<Do("rmtree", e.path, e)>> \/ Redo(e) = <<Do("mark", e.path, e)>>
    BY <1>7 DEF Redo, IfThen
  <2> QED BY <2>1, <1>1, <1>2 DEF StepNames
<1>8. e.kind \in Kinds
  BY DEF Entries
<1> QED BY <1>5, <1>6, <1>7, <1>8 DEF Kinds

\* A start replays each record at the names the record has.
LEMMA ReplayIsNear ==
  ASSUME OverlayIInv, Replay
  PROVE  NearIInv'
<1>1. replay \in Seq(Entries) /\ replay # <<>> /\ phase' = "replay"
  BY AlwaysKnown DEF Replay, Typed
<1>2. PICK e \in Entries : e = Head(replay) /\ todo' = Redo(e)
  BY <1>1 DEF Replay
<1>3. OfRecord(e, todo')
  BY <1>2, RedoIsOfRecord
<1> QED BY <1>1, <1>3 DEF NearIInv, OfRecord

\* A step of a replay: what it makes seem otherwise is at or below a name of its record, or
\* above one.
LEMMA ReplayIsLocal ==
  ASSUME OverlayIInv, NearIInv, todo # <<>>, phase = "replay", Step,
         NEW p \in Paths, ViewOf(upper', marks')[p] # View[p]
  PROVE  \E q \in {Current.entry.path, Current.entry.dest} : p \in From[q] \union Above[q]
<1> DEFINE x == Current
           Z == From[x.entry.path] \union From[x.entry.dest]
<1>1. /\ upper \in Trees /\ marks \in SUBSET Paths /\ Tree(upper, marks)
      /\ todo[1].do \in {"remove", "rmtree", "parents", "move", "mark"} /\ x = todo[1]
      /\ 1 \in DOMAIN todo /\ x.path \in Paths /\ x.entry.dest \in Paths /\ Shaped(todo)
      /\ x \in Steps
  BY Underway
<1>2. x.entry.path \in Paths /\ x.path \in {x.entry.path, x.entry.dest}
  BY <1>1 DEF Steps, Entries, NearIInv
<1>3. /\ Z \subseteq Paths /\ x.entry.path \in Z /\ x.entry.dest \in Z
      /\ \A q \in Paths \ Z : \A r \in Above[q] : r \in Paths \ Z
  <2>1. PICK a \in Paths : a = x.entry.path
    BY <1>2
  <2>2. PICK b \in Paths : b = x.entry.dest
    BY <1>1
  <2>3. PICK Y : Y = Z /\ Y = From[a] \union From[b]
    BY <2>1, <2>2
  <2>4. /\ Y \subseteq Paths /\ a \in Y /\ b \in Y
        /\ \A q \in Paths \ Y : \A r \in Above[q] : r \in Paths \ Y
    BY <2>3, ZoneIsClosed
  <2> HIDE DEF Z, x
  <2> QED BY <2>1, <2>2, <2>3, <2>4
<1>4. SUFFICES ASSUME p \notin Z, p \notin Above[x.path] PROVE FALSE
  BY <1>2
<1>5. Below[x.path] \subseteq Z /\ From[x.path] \subseteq Z /\ x.path \in Z
  BY <1>1, <1>2, Subsets
<1> HIDE DEF Z
<1>6. CASE Alike(upper, marks, upper', marks', Z)
  <2>1. \A q \in Paths \ Z : ViewOf(upper', marks')[q] = ViewOf(upper, marks)[q]
    BY <1>3, <1>6, ViewStays
  <2> QED BY <2>1, <1>4 DEF View
<1>7. CASE StepRemove
  <2>1. upper' = [upper EXCEPT ![x.path] = "absent"] /\ marks' = marks
    BY <1>7 DEF StepRemove
  <2>2. Alike(upper, marks, upper', marks', Z)
    BY <2>1, <1>1, <1>5 DEF Alike, Trees
  <2> QED BY <2>2, <1>6
<1>8. CASE StepRemoveTree
  <2>1. Alike(upper, marks, upper', marks', Z)
    BY <1>8, <1>5 DEF StepRemoveTree, TreeRemoved, Alike
  <2> QED BY <2>1, <1>6
<1>9. CASE StepMove
  <2>1. x.do = "move" /\ x.path = x.entry.path
    BY <1>1, <1>9 DEF StepMove, Is, Shaped
  <2>2. From[x.entry.dest] \subseteq Z /\ Below[x.entry.dest] \subseteq Z
    BY <1>1, Subsets DEF Z
  <2>3. \A q \in Paths \ Z : upper'[q] = upper[q]
    BY <1>9, <2>2, <1>5 DEF StepMove
  <2>4. \A q \in Paths \ Z : q \in marks' <=> q \in marks
    BY <1>9, <2>2, <1>5 DEF StepMove
  <2>5. Alike(upper, marks, upper', marks', Z)
    BY <2>3, <2>4 DEF Alike
  <2> QED BY <2>5, <1>6
<1>10. CASE StepParents \/ StepMark
  <2>1. /\ upper' = WithParents(x.path) /\ Markable(x.path)
        /\ marks' = marks \/ marks' = marks \union {x.path}
    BY <1>10 DEF StepParents, StepMark
  <2>2. \A q \in Above[x.path] : q \in Paths /\ q \notin marks /\ upper[q] \in {"absent", "dir"}
    BY <2>1, <1>1, Subsets DEF Markable
  <2>3. \A q \in Paths : upper'[q] = IF q \in Above[x.path] /\ upper[q] = "absent" THEN "dir" ELSE upper[q]
    BY <2>1 DEF WithParents
  <2>4. \A q \in Paths \ Z : Hidden(marks', q) <=> Hidden(marks, q)
    BY <2>1, <1>3, <1>5 DEF Hidden
  <2>5. Node(upper', marks', p) = Node(upper, marks, p)
    BY <2>3, <2>4, <1>4 DEF Node
  <2>6. PICK r \in Above[p] : Node(upper', marks', r) # Node(upper, marks, r)
    BY <2>5 DEF View, ViewOf
  <2>7. r \in Paths \ Z
    BY <2>6, <1>3, <1>4
  <2>8. r \in Above[x.path] /\ upper[r] = "absent" /\ Node(upper', marks', r) # Node(upper, marks, r)
    BY <2>3, <2>4, <2>6, <2>7 DEF Node
  <2>9. ~Hidden(marks', r) /\ upper'[r] = "dir" /\ Lower[r] # "dir"
    BY <2>3, <2>4, <2>7, <2>8 DEF Node
  <2>10. p \in Below[r]
    BY <2>6, <2>7, AboveIsOrder
  <2>11. upper[p] = "absent" /\ p \notin marks
    BY <1>1, <2>7, <2>8, <2>10, NothingBelow
  <2>12. Lower[p] = "absent"
    BY <2>6, <2>7, <2>9, ConstantsAssumption DEF ConstantsAssumption
  <2>13. Node(upper, marks, p) = "absent"
    BY <2>11, <2>12 DEF Node
  <2> QED BY <2>5, <2>13 DEF View, ViewOf
<1>11. x.do \in {"remove", "rmtree", "parents", "move", "mark"}
  BY <1>1
<1> QED BY <1>7, <1>8, <1>9, <1>10, <1>11 DEF Step, StepClear, StepBegin, StepPut, StepMkdir, StepCommit, Is

\* FlattenSeq of sequences has their steps and no other.
LEMMA FlattenedSteps ==
  ASSUME NEW s \in Seq(Seq(Steps)), NEW r, r = FlattenSeq(s)
  PROVE  /\ r \in Seq(Steps)
         /\ \A k \in DOMAIN r : \E i \in DOMAIN s : \E j \in DOMAIN s[i] : r[k] = s[i][j]
<1>1. Len(s) \in Nat /\ DOMAIN s = 1 .. Len(s) /\ \A i \in DOMAIN s : s[i] \in Seq(Steps)
  OBVIOUS
<1>2. CASE Len(s) = 0
  <2>1. FlattenSeq(s) = s
    BY <1>2, Zenon DEF FlattenSeq
  <2>2. r = <<>>
    BY <1>2, <2>1
  <2> QED BY <2>2, EmptySeq
<1>3. CASE Len(s) >= 1
  <2>1. PICK g \in [1 .. Len(s) -> Seq(Steps)] :
          /\ r = g[Len(s)] /\ g[1] = s[1]
          /\ \A i \in 2 .. Len(s) : g[i] = g[i - 1] \o s[i]
    BY <1>3, Flattening
  <2> DEFINE Made(q) == \A k \in DOMAIN q : \E i \in DOMAIN s : \E j \in DOMAIN s[i] : q[k] = s[i][j]
             T == {n \in Nat : n >= 1 => Made(g[n])}
  <2>2. 0 \in T
    OBVIOUS
  <2>3. ASSUME NEW n \in 1 .. Len(s), n - 1 \in T PROVE n \in T
    <3>1. n \in Nat /\ n >= 1 /\ n \in DOMAIN s
      BY <1>1
    <3>2. CASE n = 1
      <4>1. Made(s[1]) BY <3>1, <3>2
      <4>2. Made(g[1]) BY <4>1, <2>1
      <4> HIDE DEF Made
      <4> QED BY <3>1, <3>2, <4>2
    <3>3. CASE n # 1
      <4>1. n \in 2 .. Len(s) /\ n - 1 >= 1 /\ n - 1 \in Nat /\ n - 1 \in 1 .. Len(s)
        BY <3>1, <3>3, <1>1
      <4>2. PICK a \in Seq(Steps) : a = g[n - 1]
        BY <4>1, <2>1
      <4>3. PICK b \in Seq(Steps) : b = s[n]
        BY <3>1, <1>1
      <4>4. PICK c : c = g[n] /\ c = a \o b
        BY <4>1, <4>2, <4>3, <2>1
      <4>5. \A k \in DOMAIN c : k \in DOMAIN a \/ (k - Len(a) \in DOMAIN b /\ k = Len(a) + (k - Len(a)))
        BY <4>4, JoinedPlaces
      <4>6. /\ \A k \in DOMAIN a : c[k] = a[k]
            /\ \A k \in DOMAIN b : c[Len(a) + k] = b[k]
        BY <4>4, JoinedPlaces
      <4>7. Made(a)
        <5> HIDE DEF Made
        <5> QED BY <2>3, <4>1, <4>2
      <4>8. ASSUME NEW k \in DOMAIN c PROVE \E i \in DOMAIN s : \E j \in DOMAIN s[i] : c[k] = s[i][j]
        <5>1. CASE k \in DOMAIN a
          BY <5>1, <4>6, <4>7
        <5>2. CASE k - Len(a) \in DOMAIN b /\ k = Len(a) + (k - Len(a))
          <6>1. c[k] = b[k - Len(a)] BY <5>2, <4>6, Zenon
          <6> QED BY <6>1, <5>2, <4>3, <3>1
        <5> QED BY <5>1, <5>2, <4>5
      <4>9. Made(c)
        BY <4>8
      <4> HIDE DEF Made
      <4> QED BY <3>1, <4>4, <4>9
    <3> QED BY <3>2, <3>3
  <2>4. \A n \in 0 .. Len(s) : n \in T
    <3>1. \A n \in 1 .. Len(s) : n - 1 \in T => n \in T
      BY <2>3
    <3> HIDE DEF T
    <3> QED BY <1>1, <2>2, <3>1, Upto
  <2>5. Len(s) \in 0 .. Len(s) /\ Len(s) \in 1 .. Len(s)
    BY <1>1, <1>3
  <2>6. Made(g[Len(s)])
    <3> HIDE DEF Made
    <3> QED BY <2>4, <2>5, <1>3
  <2> QED BY <2>1, <2>5, <2>6
<1> QED BY <1>1, <1>2, <1>3

\* The steps of a copy-up make what the lower tree has.
Sourced(c) ==
  /\ c \in Seq(Steps)
  /\ \A i \in DOMAIN c : /\ Lower[c[i].path] # "absent"
                         /\ c[i].do = "mkdir" => Lower[c[i].path] = "dir"
                         /\ c[i].do = "put" => Lower[c[i].path] # "dir"

\* So they do when they are wrapped in the copy of a name, and the plan ends with its commit.
LEMMA WrappedSourced ==
  ASSUME NEW p \in Paths, Lower[p] # "absent", NEW s, Sourced(s), NEW name \in {"put", "mkdir"},
         name = "mkdir" <=> Lower[p] = "dir", NEW r, r = Wrapped(name, p, s)
  PROVE  Sourced(r) /\ r # <<>> /\ r[Len(r)].entry = CopyEntry(p)
<1>1. s \in Seq(Steps)
  BY DEF Sourced
<1>2. PICK n \in Nat :
           /\ n = Len(s) /\ r \in Seq(Steps) /\ DOMAIN r = 1 .. n + 4
           /\ At(r[1], "parents", p) /\ At(r[2], "begin", p)
           /\ At(r[3], name, p) /\ At(r[n + 4], "commit", p)
           /\ \A i \in 1 .. n : r[3 + i] = s[i]
  <2>1. WrappedAt(r, name, p, s) BY <1>1, WrappedPlaces
  <2> QED BY <2>1 DEF WrappedAt
<1>3. DOMAIN s = 1 .. n
  BY <1>1, <1>2
<1>4. \A i \in 1 .. n + 4 : i \in {1, 2, 3, n + 4} \/ (i - 3 \in 1 .. n /\ i = 3 + (i - 3))
  OBVIOUS
<1>5. ASSUME NEW i \in DOMAIN r
      PROVE  /\ Lower[r[i].path] # "absent"
             /\ r[i].do = "mkdir" => Lower[r[i].path] = "dir"
             /\ r[i].do = "put" => Lower[r[i].path] # "dir"
  <2>1. CASE i \in {1, 2, 3, n + 4}
    <3>1. r[i].path = p /\ r[i].do \in {"parents", "begin", name, "commit"}
      BY <2>1, <1>2 DEF At
    <3> QED BY <3>1
  <2>2. CASE i - 3 \in 1 .. n /\ i = 3 + (i - 3)
    <3>1. r[i] = s[i - 3] /\ i - 3 \in DOMAIN s
      BY <2>2, <1>2, <1>3, Zenon
    <3> QED BY <3>1 DEF Sourced
  <2> QED BY <2>1, <2>2, <1>2, <1>4
<1>6. Len(r) = n + 4 /\ r # <<>>
  <2>1. n + 4 \in Nat /\ n + 4 > 0 BY <1>2
  <2>2. Len(r) = n + 4 BY <2>1, <1>2
  <2> QED BY <2>1, <2>2, EmptySeq
<1>7. r[Len(r)].entry = CopyEntry(p)
  BY <1>2, <1>6 DEF At
<1> QED BY <1>2, <1>5, <1>6, <1>7 DEF Sourced

SourcedBelow(p) ==
  Lower[p] # "absent" =>
    Sourced(CopyUp[p]) /\ CopyUp[p] # <<>> /\ CopyUp[p][Len(CopyUp[p])].entry = CopyEntry(p)

\* The children that are copied are there in the lower tree.
LEMMA ChildrenAreThere ==
  ASSUME NEW p \in Paths
  PROVE  \A i \in DOMAIN ChildrenOf(p) : Lower[ChildrenOf(p)[i]] # "absent"
<1> DEFINE C == {q \in Children[p] : Lower[q] # "absent"}
<1>1. C \subseteq Paths
  BY Subsets DEF Children
<1>2. IsFiniteSet(C)
  BY <1>1, ConstantsAssumption, FS_Subset DEF ConstantsAssumption
<1>3. \A q \in C : Lower[q] # "absent"
  OBVIOUS
<1> HIDE DEF C
<1>4. SetToSeq(C) \in Seq(C)
  BY <1>2, SetToSeqLists
<1>5. ChildrenOf(p) = SetToSeq(C)
  BY Zenon DEF ChildrenOf, C
<1>6. \A i \in DOMAIN ChildrenOf(p) : ChildrenOf(p)[i] \in C
  BY <1>4, <1>5
<1> QED BY <1>3, <1>6

\* The copy of a name makes what the lower tree has, when the copies of its children do.
LEMMA SourcedStep ==
  ASSUME NEW p \in Paths, \A c \in Children[p] : SourcedBelow(c)
  PROVE  SourcedBelow(p)
<1> SUFFICES ASSUME Lower[p] # "absent"
             PROVE  /\ Sourced(CopyUp[p]) /\ CopyUp[p] # <<>>
                    /\ CopyUp[p][Len(CopyUp[p])].entry = CopyEntry(p)
  BY DEF SourcedBelow
<1>1. PICK g : g = CopyUp[p]
  OBVIOUS
<1>2. g = CopyBody(CopyUp, p)
  BY <1>1, CopyUpByBody
<1>3. CASE Lower[p] = "dir"
  <2> DEFINE l == ChildrenOf(p)
             s == ChildPlans(CopyUp, p)
  <2>1. l \in Seq(Paths) /\ \A i \in DOMAIN l : l[i] \in Children[p] /\ Lower[l[i]] # "absent"
    BY ChildrenListed, ChildrenAreThere
  <2>2. DOMAIN s = DOMAIN l /\ \A i \in DOMAIN l : s[i] = CopyUp[l[i]]
    BY DEF ChildPlans
  <2>3. \A i \in DOMAIN l : Sourced(CopyUp[l[i]])
    BY <2>1 DEF SourcedBelow
  <2>4. s \in Seq(Seq(Steps))
    <3>1. \A i \in DOMAIN l : s[i] \in Seq(Steps)
      BY <2>2, <2>3 DEF Sourced
    <3>2. DOMAIN l = 1 .. Len(l) /\ Len(l) \in Nat
      BY <2>1
    <3>3. s = [i \in 1 .. Len(l) |-> s[i]]
      BY <3>2, Zenon DEF ChildPlans
    <3> HIDE DEF l, s
    <3> QED BY <3>1, <3>2, <3>3, <2>2, IsASeq
  <2>5. PICK f : f = FlattenSeq(s)
    OBVIOUS
  <2>6. \A i \in DOMAIN s : Sourced(s[i])
    BY <2>2, <2>3
  <2>7. g = Wrapped("mkdir", p, f)
    BY <1>2, <1>3, <2>5, Zenon DEF CopyBody, s
  <2> HIDE DEF s, l
  <2>8. /\ f \in Seq(Steps)
        /\ \A k \in DOMAIN f : \E i \in DOMAIN s : \E j \in DOMAIN s[i] : f[k] = s[i][j]
    BY <2>4, <2>5, FlattenedSteps
  <2>9. Sourced(f)
    BY <2>6, <2>8 DEF Sourced
  <2> QED BY <1>1, <1>3, <2>7, <2>9, WrappedSourced
<1>4. CASE Lower[p] # "dir"
  <2> DEFINE e == CopyEntry(p)
  <2>1. <<Do("put", p, e)>> \o <<>> = <<Do("put", p, e)>>
    <3>1. Do("put", p, e) \in Steps
      BY CopyEntryIsEntry DEF StepNames
    <3> HIDE DEF e
    <3>2. <<Do("put", p, e)>> \in Seq(Steps)
      BY <3>1
    <3> QED BY <3>2, ConcatEmptySeq
  <2>2. g = Wrapped("put", p, <<>>)
    BY <1>2, <1>4, <2>1, Zenon DEF CopyBody, Wrapped
  <2>3. Sourced(<<>>)
    BY EmptySeq DEF Sourced
  <2>4. PICK f : f = <<>>
    OBVIOUS
  <2> QED BY <1>1, <1>4, <2>2, <2>3, <2>4, WrappedSourced
<1> QED BY <1>3, <1>4

\* Every copy-up makes what the lower tree has.
LEMMA CopyUpSourced == \A p \in Paths : SourcedBelow(p)
<1> DEFINE T == {n \in Nat : \A p \in Paths : Depth(p) < n => SourcedBelow(p)}
<1>1. 0 \in T
  BY ChildrenAreFewer
<1>2. ASSUME NEW n \in Nat, n \in T PROVE n + 1 \in T
  <2>1. ASSUME NEW p \in Paths, Depth(p) < n + 1 PROVE SourcedBelow(p)
    <3>1. \A c \in Children[p] : c \in Paths
      BY ChildIsBelow
    <3>2. \A c \in Children[p] : Depth(c) \in Nat /\ Depth(p) \in Nat /\ Depth(c) < Depth(p)
      BY <3>1, ChildrenAreFewer
    <3>3. \A c \in Children[p] : Depth(c) < n
      BY <3>2, <2>1
    <3>4. \A c \in Children[p] : SourcedBelow(c)
      BY <3>1, <3>3, <1>2
    <3> QED BY <3>4, SourcedStep
  <2> QED BY <2>1
<1>3. Nat \subseteq T
  <2>1. \A n \in Nat : n \in T => n + 1 \in T BY <1>2
  <2> HIDE DEF T
  <2> QED BY <1>1, <2>1, Induction
<1>4. ASSUME NEW p \in Paths PROVE SourcedBelow(p)
  <2>1. Depth(p) \in Nat
    BY ChildrenAreFewer
  <2>2. Depth(p) + 1 \in T
    <3> HIDE DEF T
    <3> QED BY <2>1, <1>3
  <2> QED BY <2>1, <2>2
<1> QED BY <1>4

\* All above a name that is seen, or that may be made, is a directory and has no marker.
LEMMA AboveIsSeen ==
  ASSUME NEW p \in Paths, View[p] # "absent" \/ HasParent(p)
  PROVE  /\ \A q \in Above[p] : Node(upper, marks, q) = "dir" /\ q \notin marks
         /\ View[p] = Node(upper, marks, p)
<1>1. \A q \in Above[p] : Node(upper, marks, q) = "dir"
  <2>1. CASE View[p] # "absent"
    BY <2>1 DEF View, ViewOf
  <2>2. CASE HasParent(p)
    <3>1. CASE Len(p) > 1
      <4>1. Parent(p) \in Paths /\ Above[p] = Above[Parent(p)] \union {Parent(p)}
        BY <3>1, ParentIsAbove
      <4>2. View[Parent(p)] = "dir"
        BY <2>2, <3>1 DEF HasParent
      <4>3. Node(upper, marks, Parent(p)) = "dir"
            /\ \A q \in Above[Parent(p)] : Node(upper, marks, q) = "dir"
        BY <4>1, <4>2 DEF View, ViewOf
      <4> QED BY <4>1, <4>3
    <3>2. CASE ~(Len(p) > 1)
      <4>1. PICK n : n = Len(p)
        OBVIOUS
      <4>2. n \in Nat /\ n > 0 /\ ~(n > 1)
        BY <3>2, <4>1, PathIsSeq, Zenon
      <4>3. Len(p) = 1
        BY <4>1, <4>2
      <4> QED BY <4>3, ParentIsAbove
    <3> QED BY <3>1, <3>2
  <2> QED BY <2>1, <2>2
<1>2. \A q \in Above[p] : q \notin marks
  BY <1>1 DEF Node, Hidden
<1>3. View[p] = Node(upper, marks, p)
  BY <1>1 DEF View, ViewOf
<1> QED BY <1>1, <1>2, <1>3

\* All above a name that is seen is a directory, of the upper tree or the lower.
LEMMA SeenAbove ==
  ASSUME NEW p \in Paths, View[p] # "absent" \/ HasParent(p)
  PROVE  \A q \in Above[p] : upper[q] = "dir" \/ Lower[q] = "dir"
<1>1. \A q \in Above[p] : Node(upper, marks, q) = "dir"
  BY AboveIsSeen
<1> QED BY <1>1 DEF Node

\* A copy-up shows nothing new anywhere.
LEMMA CopiedUpIsNear ==
  ASSUME OverlayIInv, NEW p \in Paths, View[p] # "absent", NEW Z
  PROVE  AllNear(upper, marks, Z, CopiedUp(p))
<1>1. CASE upper[p] = "absent"
  <2>1. PICK c : c = CopyUp[p] /\ CopiedUp(p) = c
    BY <1>1 DEF CopiedUp, IfThen
  <2>2. Lower[p] # "absent"
    BY <1>1 DEF View, ViewOf, Node
  <2>3. Copies(From[p], c) /\ Sourced(c)
    BY <2>1, <2>2, CopyUpCopies, CopyUpSourced DEF CopiedBelow, SourcedBelow
  <2>4. upper \in Trees /\ marks \in SUBSET Paths /\ Tree(upper, marks)
    BY AlwaysKnown
  <2>5. \A q \in Below[p] : upper[q] = "absent" /\ q \notin marks
    BY <1>1, <2>4, NothingBelow
  <2>6. \A q \in From[p] : q \in Paths /\ upper[q] = "absent"
    BY <1>1, <2>5, Subsets
  <2>7. ASSUME NEW i \in DOMAIN c PROVE Near(upper, marks, Z, c[i])
    <3>1. PICK x : x = c[i]
      OBVIOUS
    <3>2. PICK q \in From[p] : q = x.path
      BY <2>3, <3>1 DEF Copies
    <3>3. /\ x.do \in {"parents", "begin", "put", "mkdir", "commit"} /\ x.entry = CopyEntry(q)
          /\ Lower[q] # "absent"
          /\ x.do = "mkdir" => Lower[q] = "dir"
          /\ x.do = "put" => Lower[q] # "dir"
      BY <2>3, <3>1, <3>2 DEF Copies, Sourced
    <3>4. q \in Paths /\ upper[q] = "absent"
      BY <2>6
    <3>5. \A r \in Above[q] : r \in Paths /\ Lower[r] = "dir"
      BY <3>3, <3>4, Subsets, ConstantsAssumption DEF ConstantsAssumption
    <3>6. \A r \in From[q] : upper[r] = "absent" /\ (r # q => r \notin marks)
      <4>1. q = p \/ q \in Below[p]
        BY Subsets
      <4>2. CASE q = p
        BY <4>2, <2>5, <2>6, Subsets
      <4>3. CASE q \in Below[p]
        <5>1. p \in Above[q] BY <3>4, <4>3, AboveIsOrder
        <5>2. Below[q] \subseteq Below[p] BY <3>4, <5>1, AboveIsOrder
        <5> QED BY <3>4, <5>2, <2>5, Subsets
      <4> QED BY <4>1, <4>2, <4>3
    <3>7. Lower[q] # "dir" => x.entry.kind = "copy-up"
      BY <3>3 DEF CopyEntry, Entry
    <3> QED BY <3>1, <3>2, <3>3, <3>4, <3>5, <3>6, <3>7 DEF Near, Faithful
  <2> QED BY <2>1, <2>3, <2>7 DEF AllNear, Copies
<1>2. CASE upper[p] # "absent"
  <2>1. CopiedUp(p) = <<>>
    BY <1>2 DEF CopiedUp, IfThen
  <2> QED BY <2>1, NearNone
<1> QED BY <1>1, <1>2

\* A step at a name in Z, or one that makes the directories above it.
LEMMA StepIsNear ==
  ASSUME NEW u, NEW ms, NEW Z, NEW name \in StepNames \ {"rmtree"}, NEW p \in Paths, p \in Z,
         NEW e \in Entries, e.kind # "copy-up-dir", name = "move" => e.dest \in Z,
         name \in {"parents", "mark"} => \A q \in Above[p] : u[q] = "dir" \/ Lower[q] = "dir"
  PROVE  AllNear(u, ms, Z, <<Do(name, p, e)>>)
<1>1. PICK x : x = Do(name, p, e)
  OBVIOUS
<1>2. x \in Steps /\ x.do = name /\ x.path = p /\ x.entry = e
  BY <1>1 DEF Do, Steps
<1>3. Near(u, ms, Z, x)
  BY <1>2 DEF Near
<1> QED BY <1>1, <1>2, <1>3, NearOne

\* A record around steps near a name of the record.
LEMMA JournaledIsNear ==
  ASSUME NEW u, NEW ms, NEW Z, NEW e \in Entries, e.kind # "copy-up-dir", e.path \in Z,
         NEW c, AllNear(u, ms, Z, c), NEW steps, AllNear(u, ms, Z, steps),
         NEW j, j = Journaled(e, steps), NEW plan, plan = c \o j
  PROVE  AllNear(u, ms, Z, plan)
<1>1. e.path \in Paths
  BY DEF Entries
<1>2. PICK b : b = <<Do("begin", e.path, e)>>
  OBVIOUS
<1>3. PICK x : x = Do("commit", e.path, e)
  OBVIOUS
<1>4. PICK t : t = b \o steps
  OBVIOUS
<1>5. j = t \o <<x>>
  BY <1>2, <1>3, <1>4, Zenon DEF Journaled
<1>6. plan = c \o j
  OBVIOUS
<1>7. AllNear(u, ms, Z, b) /\ AllNear(u, ms, Z, <<x>>)
  BY <1>1, <1>2, <1>3, StepIsNear DEF StepNames
<1>8. AllNear(u, ms, Z, t)
  BY <1>4, <1>7, NearJoin
<1>9. AllNear(u, ms, Z, j)
  BY <1>5, <1>7, <1>8, NearJoin
<1> QED BY <1>6, <1>9, NearJoin

\* A plan that ends with a record is about the names of that record.
LEMMA JournaledIsAbout ==
  ASSUME NEW e \in Entries, NEW c \in Seq(Steps), NEW steps \in Seq(Steps),
         NEW j, j = Journaled(e, steps), NEW plan, plan = c \o j
  PROVE  Zone(plan) = From[e.path] \union From[e.dest]
<1>1. e.path \in Paths
  BY DEF Entries
<1>2. PICK b : b = <<Do("begin", e.path, e)>>
  OBVIOUS
<1>3. PICK x : x = Do("commit", e.path, e)
  OBVIOUS
<1>4. PICK t : t = b \o steps
  OBVIOUS
<1>5. j = t \o <<x>>
  BY <1>2, <1>3, <1>4, Zenon DEF Journaled
<1>6. plan = c \o j
  OBVIOUS
<1>11. x \in Steps /\ x.entry = e /\ b \in Seq(Steps)
  BY <1>1, <1>2, <1>3 DEF Do, Steps, StepNames
<1>12. t \in Seq(Steps) /\ j \in Seq(Steps)
  <2>1. t \in Seq(Steps)
    BY <1>4, <1>11
  <2> QED BY <1>5, <1>11, <2>1
<1>13. PICK n \in Nat : n = Len(t) /\ Len(j) = n + 1 /\ j[n + 1] = x
  <2>1. Len(t) \in Nat /\ Len(j) = Len(t) + 1 /\ j[Len(t) + 1] = x
    <3>1. x \in Steps /\ t \in Seq(Steps)
      BY <1>11, <1>12
    <3> QED BY <1>5, <3>1, Appended
  <2> QED BY <2>1
<1>14. PICK m \in Nat : m = Len(c) /\ Len(plan) = m + (n + 1) /\ plan[m + (n + 1)] = x
  <2>1. /\ Len(plan) = Len(c) + Len(j)
        /\ \A i \in DOMAIN j : Len(c) + i \in DOMAIN plan /\ plan[Len(c) + i] = j[i]
    BY <1>6, <1>12, JoinedPlaces
  <2>2. n + 1 \in DOMAIN j
    BY <1>12, <1>13
  <2>3. PICK m \in Nat : m = Len(c)
    OBVIOUS
  <2>4. Len(plan) = m + (n + 1) /\ plan[m + (n + 1)] = x
    BY <2>1, <2>2, <2>3, <1>13
  <2> QED BY <2>3, <2>4
<1>15. plan[Len(plan)].entry = e
  BY <1>11, <1>14
<1> QED BY <1>15 DEF Zone

\* An operation that begins with a plan near its names.
LEMMA BeginsIsNear ==
  ASSUME NEW s \in Sessions, NEW plan, NEW wanted, NEW named, Begins(s, plan, wanted, named),
         AllNear(upper, marks, Zone(plan), plan)
  PROVE  NearIInv'
BY DEF Begins, treeVars, NearIInv

\* What is cleared is a name in Z.
LEMMA ClearedIsNear ==
  ASSUME NEW u, NEW Z, NEW p \in Paths, p \in Z, NEW e \in Entries, e.kind # "copy-up-dir"
  PROVE  AllNear(u, marks, Z, Cleared(p, e))
<1>1. AllNear(u, marks, Z, <<Do("clear", p, e)>>)
  BY StepIsNear DEF StepNames
<1> QED BY <1>1, NearNone DEF Cleared, IfThen

\* The records of operations, with their names.
LEMMA RecordIs ==
  ASSUME NEW kind \in Kinds, NEW p \in Paths, NEW dest \in Paths, NEW lower, lower \in BOOLEAN
  PROVE  \E e \in Entries : /\ e = Entry(kind, p, dest, lower) /\ e.kind = kind /\ e.path = p
                            /\ e.dest = dest /\ e.lower = lower
BY EntriesAre

\* open() and chmod() show nothing new.
LEMMA CopyBeginsNear ==
  ASSUME OverlayIInv, NEW s \in Sessions, NEW p \in Paths, View[p] # "absent",
         NEW wanted, Begins(s, CopiedUp(p), wanted, p)
  PROVE  NearIInv'
<1>1. AllNear(upper, marks, Zone(CopiedUp(p)), CopiedUp(p))
  BY CopiedUpIsNear
<1> QED BY <1>1, BeginsIsNear

\* A new file is put at its name.
LEMMA CreateBeginsNear ==
  ASSUME OverlayIInv, NEW s \in Sessions, NEW p \in Paths, Create(s, p)
  PROVE  NearIInv'
<1>1. PICK e \in Entries : e = Entry("create", p, p, FALSE) /\ e.kind = "create" /\ e.path = p /\ e.dest = p
  <2>1. "create" \in Kinds /\ FALSE \in BOOLEAN
    BY DEF Kinds
  <2>2. PICK f : f = Entry("create", p, p, FALSE)
    OBVIOUS
  <2>3. f \in Entries /\ f.kind = "create" /\ f.path = p /\ f.dest = p
    BY <2>1, <2>2, EntriesAre
  <2> QED BY <2>2, <2>3
<1>2. PICK Z : Z = From[e.path] \union From[e.dest]
  OBVIOUS
<1>3. p \in Z
  BY <1>1, <1>2, Subsets
<1>4. \A q \in Above[p] : upper[q] = "dir" \/ Lower[q] = "dir"
  BY SeenAbove DEF Create
<1>5. PICK a : a = Cleared(p, e) /\ AllNear(upper, marks, Z, a)
  BY <1>1, <1>3, ClearedIsNear
<1>6. PICK b : b = <<Do("parents", p, e)>> /\ AllNear(upper, marks, Z, b)
  BY <1>1, <1>3, <1>4, StepIsNear DEF StepNames
<1>7. PICK c : c = a \o b /\ AllNear(upper, marks, Z, c)
  BY <1>5, <1>6, NearJoin
<1>8. PICK steps : steps = <<Do("put", p, e)>> /\ AllNear(upper, marks, Z, steps)
  BY <1>1, <1>3, StepIsNear DEF StepNames
<1>9. PICK j : j = Journaled(e, steps)
  OBVIOUS
<1>13. PICK plan : plan = c \o j
  OBVIOUS
<1>10. e.kind # "copy-up-dir"
  BY <1>1
<1>11. AllNear(upper, marks, Z, plan) /\ Zone(plan) = Z
  <2>1. AllNear(upper, marks, Z, c) /\ AllNear(upper, marks, Z, steps)
    BY <1>7, <1>8
  <2>2. e.kind # "copy-up-dir"
    BY <1>10
  <2>3. e \in Entries
    BY <1>1
  <2>6. c \in Seq(Steps) /\ steps \in Seq(Steps)
    BY <2>1 DEF AllNear
  <2>7. e.path \in Z
    BY <1>2, <2>3, Subsets DEF Entries
  <2>8. AllNear(upper, marks, Z, plan)
    BY <1>2, <1>9, <1>13, <2>1, <2>2, <2>3, <2>7, JournaledIsNear
  <2>9. Zone(plan) = Z
    BY <1>2, <1>9, <1>13, <2>1, <2>2, <2>3, <2>6, JournaledIsAbout
  <2> QED BY <2>8, <2>9
<1>12. CreatePlan(p) = plan
  BY <1>1, <1>5, <1>6, <1>7, <1>8, <1>9, <1>13, Zenon DEF CreatePlan
<1> QED BY <1>11, <1>12, BeginsIsNear DEF Create

\* A new directory is made at its name; the one above it is copied up with all it has.
LEMMA MkdirBeginsNear ==
  ASSUME OverlayIInv, NEW s \in Sessions, NEW p \in Paths, Mkdir(s, p)
  PROVE  NearIInv'
<1>1. PICK e \in Entries : e = Entry("mkdir", p, p, FALSE) /\ e.kind = "mkdir" /\ e.path = p /\ e.dest = p
  <2>1. "mkdir" \in Kinds /\ FALSE \in BOOLEAN
    BY DEF Kinds
  <2>2. PICK f : f = Entry("mkdir", p, p, FALSE)
    OBVIOUS
  <2>3. f \in Entries /\ f.kind = "mkdir" /\ f.path = p /\ f.dest = p
    BY <2>1, <2>2, EntriesAre
  <2> QED BY <2>2, <2>3
<1>2. PICK Z : Z = From[e.path] \union From[e.dest]
  OBVIOUS
<1>3. p \in Z
  BY <1>1, <1>2, Subsets
<1>4. PICK a : a = Cleared(p, e) /\ AllNear(upper, marks, Z, a)
  BY <1>1, <1>3, ClearedIsNear
<1>5. PICK b : b = IfThen(Len(p) > 1, CopiedUp(Parent(p))) /\ AllNear(upper, marks, Z, b)
  <2>1. CASE Len(p) > 1
    <3>1. PICK q \in Paths : q = Parent(p)
      BY <2>1, ParentIsAbove
    <3>2. View[q] # "absent"
      BY <2>1, <3>1 DEF Mkdir, HasParent
    <3>3. AllNear(upper, marks, Z, CopiedUp(q))
      BY <3>2, CopiedUpIsNear
    <3> QED BY <2>1, <3>1, <3>3 DEF IfThen
  <2>2. CASE ~(Len(p) > 1)
    BY <2>2, NearNone DEF IfThen
  <2> QED BY <2>1, <2>2
<1>6. PICK c : c = a \o b /\ AllNear(upper, marks, Z, c)
  BY <1>4, <1>5, NearJoin
<1>7. PICK steps : steps = <<Do("mkdir", p, e)>> /\ AllNear(upper, marks, Z, steps)
  BY <1>1, <1>3, StepIsNear DEF StepNames
<1>8. PICK j : j = Journaled(e, steps)
  OBVIOUS
<1>13. PICK plan : plan = c \o j
  OBVIOUS
<1>9. e.kind # "copy-up-dir"
  BY <1>1
<1>10. AllNear(upper, marks, Z, plan) /\ Zone(plan) = Z
  <2>1. AllNear(upper, marks, Z, c) /\ AllNear(upper, marks, Z, steps)
    BY <1>6, <1>7
  <2>2. e.kind # "copy-up-dir"
    BY <1>9
  <2>3. e \in Entries
    BY <1>1
  <2>6. c \in Seq(Steps) /\ steps \in Seq(Steps)
    BY <2>1 DEF AllNear
  <2>7. e.path \in Z
    BY <1>2, <2>3, Subsets DEF Entries
  <2>8. AllNear(upper, marks, Z, plan)
    BY <1>2, <1>8, <1>13, <2>1, <2>2, <2>3, <2>7, JournaledIsNear
  <2>9. Zone(plan) = Z
    BY <1>2, <1>8, <1>13, <2>1, <2>2, <2>3, <2>6, JournaledIsAbout
  <2> QED BY <2>8, <2>9
<1>11. MkdirPlan(p) = a \o b \o j
  BY <1>1, <1>4, <1>5, <1>7, <1>8, Zenon DEF MkdirPlan
<1>12. MkdirPlan(p) = plan
  BY <1>6, <1>11, <1>13, Zenon
<1> QED BY <1>10, <1>12, BeginsIsNear DEF Mkdir

\* unlink() and rmdir() remove and mark their name.
LEMMA RemovalBeginsNear ==
  ASSUME OverlayIInv, NEW s \in Sessions, NEW p \in Paths, View[p] # "absent", NEW kind \in {"unlink", "rmdir"},
         NEW wanted, Begins(s, RemovePlan(kind, p), wanted, p)
  PROVE  NearIInv'
<1>0. \A q \in Above[p] : upper[q] = "dir" \/ Lower[q] = "dir"
  BY SeenAbove
<1>1. PICK l \in BOOLEAN : l = (Lower[p] # "absent")
  OBVIOUS
<1>2. PICK e \in Entries : e = Entry(kind, p, p, l) /\ e.kind = kind /\ e.path = p /\ e.dest = p /\ e.lower = l
  BY RecordIs DEF Kinds
<1>3. PICK w \in Entries : w = Entry("whiteout", p, p, TRUE) /\ w.kind = "whiteout" /\ w.path = p /\ w.dest = p
  <2>1. PICK t \in BOOLEAN : t = TRUE
    OBVIOUS
  <2>4. "whiteout" \in Kinds
    BY DEF Kinds
  <2>2. PICK f : f = Entry("whiteout", p, p, t)
    OBVIOUS
  <2>3. f \in Entries /\ f.kind = "whiteout" /\ f.path = p /\ f.dest = p
    BY <2>2, <2>4, EntriesAre
  <2> QED BY <2>1, <2>2, <2>3
<1>4. PICK Z : Z = From[p] \union From[p]
  OBVIOUS
<1>5. p \in Z /\ e.kind # "copy-up-dir" /\ w.kind # "copy-up-dir"
  BY <1>2, <1>3, <1>4, Subsets
<1>6. CASE upper[p] # "absent"
  <2>1. PICK a : a = <<Do("remove", p, e)>> /\ AllNear(upper, marks, Z, a)
    BY <1>5, StepIsNear DEF StepNames
  <2>2. AllNear(upper, marks, Z, <<Do("mark", p, e)>>)
    BY <1>0, <1>5, StepIsNear DEF StepNames
  <2>3. PICK b : b = IfThen(e.lower, <<Do("mark", p, e)>>) /\ AllNear(upper, marks, Z, b)
    BY <2>2, NearNone DEF IfThen
  <2>4. PICK steps : steps = a \o b /\ AllNear(upper, marks, Z, steps)
    BY <2>1, <2>3, NearJoin
  <2>5. PICK j : j = Journaled(e, steps)
    OBVIOUS
  <2>6. PICK plan : plan = <<>> \o j
    OBVIOUS
  <2>7. AllNear(upper, marks, Z, plan) /\ Zone(plan) = Z
    <3>1. PICK c : c = <<>> /\ AllNear(upper, marks, Z, c)
      BY NearNone
    <3>2. AllNear(upper, marks, Z, c) /\ AllNear(upper, marks, Z, steps)
      BY <2>4, <3>1
    <3>3. Z = From[e.path] \union From[e.dest] /\ e.kind # "copy-up-dir"
      BY <1>2, <1>4, <1>5
    <3>5. e \in Entries
      BY <1>2
    <3>4. plan = c \o j
      BY <2>6, <3>1
    <3>6. c \in Seq(Steps) /\ steps \in Seq(Steps)
      BY <3>2 DEF AllNear
    <3>7. e.path \in Z
      BY <3>3, <3>5, Subsets DEF Entries
    <3>8. AllNear(upper, marks, Z, plan)
      BY <2>5, <3>2, <3>3, <3>4, <3>5, <3>7, JournaledIsNear
    <3>9. Zone(plan) = Z
      BY <2>5, <3>2, <3>3, <3>4, <3>5, <3>6, JournaledIsAbout
    <3> QED BY <3>8, <3>9
  <2>8. j \in Seq(Steps)
    BY <2>4, <2>5, JournaledIsSeq DEF AllNear
  <2>9. plan = j
    BY <2>6, <2>8, ConcatEmptySeq
  <2>10. RemovePlan(kind, p) = plan
    BY <1>1, <1>2, <1>6, <2>1, <2>3, <2>4, <2>5, <2>9, Zenon DEF RemovePlan
  <2> QED BY <2>7, <2>10, BeginsIsNear
<1>7. CASE upper[p] = "absent"
  <2>1. PICK c : c = <<Do("parents", p, w)>> /\ AllNear(upper, marks, Z, c)
    BY <1>0, <1>5, StepIsNear DEF StepNames
  <2>2. PICK steps : steps = <<Do("mark", p, w)>> /\ AllNear(upper, marks, Z, steps)
    BY <1>0, <1>5, StepIsNear DEF StepNames
  <2>3. PICK j : j = Journaled(w, steps)
    OBVIOUS
  <2>6. PICK plan : plan = c \o j
    OBVIOUS
  <2>4. AllNear(upper, marks, Z, plan) /\ Zone(plan) = Z
    <3>1. AllNear(upper, marks, Z, c) /\ AllNear(upper, marks, Z, steps)
      BY <2>1, <2>2
    <3>2. Z = From[w.path] \union From[w.dest] /\ w.kind # "copy-up-dir"
      BY <1>3, <1>4
    <3>3. w \in Entries
      BY <1>3
    <3>6. c \in Seq(Steps) /\ steps \in Seq(Steps)
      BY <3>1 DEF AllNear
    <3>7. w.path \in Z
      BY <3>2, <3>3, Subsets DEF Entries
    <3>8. AllNear(upper, marks, Z, plan)
      BY <2>3, <2>6, <3>1, <3>2, <3>3, <3>7, JournaledIsNear
    <3>9. Zone(plan) = Z
      BY <2>3, <2>6, <3>1, <3>2, <3>3, <3>6, JournaledIsAbout
    <3> QED BY <3>8, <3>9
  <2>5. RemovePlan(kind, p) = plan
    BY <1>3, <1>7, <2>1, <2>2, <2>3, <2>6, Zenon DEF RemovePlan
  <2> QED BY <2>4, <2>5, BeginsIsNear
<1> QED BY <1>6, <1>7

\* A rename takes from one of its names to the other.
LEMMA RenameBeginsNear ==
  ASSUME OverlayIInv, NEW s \in Sessions, NEW p \in Paths, NEW dest \in Paths, Rename(s, p, dest)
  PROVE  NearIInv'
<1>0. /\ \A q \in Above[p] : upper[q] = "dir" \/ Lower[q] = "dir"
      /\ \A q \in Above[dest] : upper[q] = "dir" \/ Lower[q] = "dir"
      /\ View[p] # "absent"
  BY SeenAbove DEF Rename
<1>1. PICK l \in BOOLEAN : l = (Lower[p] # "absent")
  OBVIOUS
<1>2. PICK e \in Entries : e = Entry("rename", p, dest, l) /\ e.kind = "rename" /\ e.path = p /\ e.dest = dest
                           /\ e.lower = l
  BY RecordIs DEF Kinds
<1>3. PICK Z : Z = From[e.path] \union From[e.dest]
  OBVIOUS
<1>4. p \in Z /\ dest \in Z /\ e.kind # "copy-up-dir"
  BY <1>2, <1>3, Subsets
<1>5. PICK a : a = Cleared(dest, e) /\ AllNear(upper, marks, Z, a)
  BY <1>4, ClearedIsNear
<1>6. PICK b : b = CopiedUp(p) /\ AllNear(upper, marks, Z, b)
  BY <1>0, CopiedUpIsNear
<1>7. PICK d : d = a \o b /\ AllNear(upper, marks, Z, d)
  BY <1>5, <1>6, NearJoin
<1>8. PICK f : f = <<Do("parents", dest, e)>> /\ AllNear(upper, marks, Z, f)
  BY <1>0, <1>4, StepIsNear DEF StepNames
<1>9. PICK c : c = d \o f /\ AllNear(upper, marks, Z, c)
  BY <1>7, <1>8, NearJoin
<1>10. PICK m : m = <<Do("move", p, e)>> /\ AllNear(upper, marks, Z, m)
  BY <1>2, <1>4, StepIsNear DEF StepNames
<1>11. AllNear(upper, marks, Z, <<Do("mark", p, e)>>)
  BY <1>0, <1>4, StepIsNear DEF StepNames
<1>12. PICK k : k = IfThen(e.lower, <<Do("mark", p, e)>>) /\ AllNear(upper, marks, Z, k)
  BY <1>11, NearNone DEF IfThen
<1>13. PICK steps : steps = m \o k /\ AllNear(upper, marks, Z, steps)
  BY <1>10, <1>12, NearJoin
<1>14. PICK j : j = Journaled(e, steps)
  OBVIOUS
<1>18. PICK plan : plan = c \o j
  OBVIOUS
<1>15. AllNear(upper, marks, Z, plan) /\ Zone(plan) = Z
  <2>1. AllNear(upper, marks, Z, c) /\ AllNear(upper, marks, Z, steps)
    BY <1>9, <1>13
  <2>2. e.kind # "copy-up-dir"
    BY <1>4
  <2>3. e \in Entries
    BY <1>2
  <2>6. c \in Seq(Steps) /\ steps \in Seq(Steps)
    BY <2>1 DEF AllNear
  <2>7. e.path \in Z
    BY <1>3, <2>3, Subsets DEF Entries
  <2>8. AllNear(upper, marks, Z, plan)
    BY <1>3, <1>14, <1>18, <2>1, <2>2, <2>3, <2>7, JournaledIsNear
  <2>9. Zone(plan) = Z
    BY <1>3, <1>14, <1>18, <2>1, <2>2, <2>3, <2>6, JournaledIsAbout
  <2> QED BY <2>8, <2>9
<1>16. RenamePlan(p, dest) = a \o b \o f \o j
  BY <1>1, <1>2, <1>5, <1>6, <1>8, <1>10, <1>12, <1>13, <1>14, Zenon DEF RenamePlan
<1>17. RenamePlan(p, dest) = plan
  BY <1>7, <1>9, <1>16, <1>18, Zenon
<1> QED BY <1>15, <1>17, BeginsIsNear DEF Rename

\* Every step keeps what is left to do near to its names.
LEMMA NextKeepsNear == OverlayIInv /\ NearIInv /\ [Next]_vars => NearIInv'
<1> SUFFICES ASSUME OverlayIInv, NearIInv, [Next]_vars PROVE NearIInv'
  OBVIOUS
<1>1. ASSUME UNCHANGED <<upper, marks, phase, todo>> PROVE NearIInv'
  BY <1>1 DEF NearIInv
<1>2. CASE \E s \in Sessions : Start(s) \/ Crash(s)
  <2>1. PICK s \in Sessions : Start(s) \/ Crash(s)
    BY <1>2
  <2>2. CASE Start(s)
    <3>1. todo' = <<>>
      BY <2>2, AlwaysKnown DEF Start
    <3> QED BY <3>1, StoppedIsNear
  <2>3. CASE Crash(s) /\ s = holder
    BY <2>3, StoppedIsNear DEF Crash
  <2>4. CASE Crash(s) /\ s # holder
    BY <2>4, <1>1 DEF Crash, treeVars
  <2> QED BY <2>1, <2>2, <2>3, <2>4
<1>3. ASSUME NEW s \in Sessions, NEW p \in Paths,
             \/ Create(s, p) \/ OpenForWrite(s, p) \/ Chmod(s, p) \/ Write(s, p)
             \/ Mkdir(s, p) \/ Unlink(s, p) \/ Rmdir(s, p)
             \/ \E dest \in Paths : Rename(s, p, dest)
      PROVE  NearIInv'
  <2>1. CASE Create(s, p)
    BY <2>1, CreateBeginsNear
  <2>2. CASE OpenForWrite(s, p)
    <3>1. View[p] # "absent"
      BY <2>2, ConstantsAssumption DEF OpenForWrite, ConstantsAssumption
    <3> QED BY <2>2, <3>1, CopyBeginsNear DEF OpenForWrite
  <2>3. CASE Chmod(s, p)
    <3>1. View[p] # "absent"
      BY <2>3 DEF Chmod
    <3> QED BY <2>3, <3>1, CopyBeginsNear DEF Chmod
  <2>4. CASE Write(s, p)
    <3>1. todo' = <<>>
      BY <2>4, AlwaysKnown DEF Write
    <3> QED BY <3>1, StoppedIsNear
  <2>5. CASE Mkdir(s, p)
    BY <2>5, MkdirBeginsNear
  <2>6. CASE Unlink(s, p)
    <3>1. View[p] # "absent"
      BY <2>6, ConstantsAssumption DEF Unlink, ConstantsAssumption
    <3> QED BY <2>6, <3>1, RemovalBeginsNear DEF Unlink
  <2>7. CASE Rmdir(s, p)
    <3>1. View[p] # "absent"
      BY <2>7 DEF Rmdir
    <3> QED BY <2>7, <3>1, RemovalBeginsNear DEF Rmdir
  <2>8. CASE \E dest \in Paths : Rename(s, p, dest)
    BY <2>8, RenameBeginsNear
  <2> QED BY <1>3, <2>1, <2>2, <2>3, <2>4, <2>5, <2>6, <2>7, <2>8
<1>4. CASE Step
  BY <1>4, StepKeepsNear
<1>5. CASE Fail \/ StartFails
  BY <1>5, StoppedIsNear DEF Fail, StartFails
<1>6. CASE Replay
  BY <1>6, ReplayIsNear
<1>7. CASE Started
  BY <1>7, StoppedIsNear DEF Started
<1>8. CASE UNCHANGED vars
  BY <1>1, <1>8 DEF vars, treeVars
<1> QED BY <1>2, <1>3, <1>4, <1>5, <1>6, <1>7, <1>8 DEF Next

\* What is still to be done is at all times near to what it is about.
LEMMA AlwaysNear == Spec => [](OverlayIInv /\ NearIInv)
<1>1. Init => OverlayIInv /\ NearIInv
  BY InitIsSound DEF Init, NearIInv
<1>2. OverlayIInv /\ NearIInv /\ [Next]_vars => (OverlayIInv /\ NearIInv)'
  BY NextKeepsOverlay, NextKeepsNear
<1> QED BY <1>1, <1>2, PTL DEF Spec

\* A change of what is seen, while something is under way, is at a name it concerns.
LEMMA ChangeIsNamed ==
  ASSUME OverlayIInv, NearIInv, [Next]_vars, todo # <<>>,
         NEW p \in Paths, ViewOf(upper', marks')[p] # View[p]
  PROVE  \E q \in Named : p \in Concerned(q)
<1>1. phase \in {"operation", "replay"} /\ todo \in Seq(Steps)
  BY Underway DEF Typed
<1>2. ~(upper' = upper /\ marks' = marks)
  BY DEF View
<1>3. Step \/ Fail
  <2>1. ~UNCHANGED vars
    BY <1>2 DEF vars, treeVars
  <2>2. ~(Replay \/ Started \/ StartFails)
    BY <1>2 DEF Replay, Started, StartFails, treeVars
  <2>3. ASSUME NEW s \in Sessions PROVE ~(Start(s) \/ Crash(s))
    BY <1>2 DEF Start, Crash, treeVars
  <2>4. ASSUME NEW s \in Sessions, NEW q \in Paths, NEW dest \in Paths
        PROVE  ~(\/ Create(s, q) \/ OpenForWrite(s, q) \/ Chmod(s, q) \/ Write(s, q)
                 \/ Mkdir(s, q) \/ Unlink(s, q) \/ Rmdir(s, q) \/ Rename(s, q, dest))
    <3>1. phase # "idle"
      BY <1>1
    <3>2. \A plan, wanted, named : ~Begins(s, plan, wanted, named)
      BY <3>1 DEF Begins
    <3> QED BY <3>1, <3>2, Zenon DEF Create, OpenForWrite, Chmod, Write, Mkdir, Unlink, Rmdir, Rename
  <2> QED BY <2>1, <2>2, <2>3, <2>4 DEF Next
<1>4. CASE phase = "operation"
  <2>1. Alike(upper, marks, upper', marks', Zone(todo))
    BY <1>3, <1>4, StepIsAlike, FailIsAlike
  <2>2. \A q \in Paths \ Zone(todo) : \A r \in Above[q] : r \in Paths \ Zone(todo)
    BY <1>1, ZoneOfPlan
  <2>3. p \in Zone(todo)
    BY <2>1, <2>2, ViewStays DEF View
  <2> QED BY <1>4, <2>3 DEF Zone, Named, Concerned, LastEntry
<1>5. CASE phase = "replay"
  <2>1. Step
    BY <1>3, <1>5 DEF Fail
  <2>2. \E q \in {Current.entry.path, Current.entry.dest} : p \in From[q] \union Above[q]
    BY <1>5, <2>1, ReplayIsLocal
  <2> QED BY <1>5, <2>2 DEF Named, Concerned
<1> QED BY <1>1, <1>4, <1>5

\* No step, failure or replay changes what is seen of a name it does not concern: for any names,
\* lower tree, sessions and bound.
THEOREM AlwaysLocal == Spec => ChangesStayLocal
<1>1. OverlayIInv /\ NearIInv /\ [Next]_vars =>
        [todo # <<>>
         => LET after == ViewOf(upper', marks')
            IN \A p \in Paths : after[p] # View[p] => \E q \in Named : p \in Concerned(q)]_vars
  BY ChangeIsNamed
<1> QED BY <1>1, AlwaysNear, PTL DEF Spec, ChangesStayLocal

-----------------------------------------------------------------------------
(* Overlay: where the steps of an operation lead                           *)

\* The tree u with the directories above p.
Opened(u, p) == [q \in Paths |-> IF q \in Above[p] /\ u[q] = "absent" THEN "dir" ELSE u[q]]

MovedTree(u, p, dest) ==
  [q \in Paths |->
    IF q \in From[dest]
    THEN IF Rebase(q, dest, p) \in Paths THEN u[Rebase(q, dest, p)] ELSE "absent"
    ELSE IF q \in From[p] THEN "absent" ELSE u[q]]

MovedMarks(ms, p, dest) == (ms \ Below[p]) \union {q \in Below[dest] : Rebase(q, dest, p) \in ms}

\* The step x makes the tree v and the markers ns of u and ms.
Takes(u, ms, x, v, ns) ==
  \/ x.do = "clear" /\ v = u /\ ns = ms \ {x.path}
  \/ x.do = "parents" /\ v = Opened(u, x.path) /\ ns = ms
  \/ x.do \in {"begin", "commit"} /\ v = u /\ ns = ms
  \/ /\ x.do = "put" /\ ns = ms
     /\ v = [u EXCEPT ![x.path] = IF x.entry.kind = "create" THEN Empty ELSE Lower[x.path]]
  \/ x.do = "mkdir" /\ u[x.path] = "absent" /\ v = [u EXCEPT ![x.path] = "dir"] /\ ns = ms
  \/ x.do = "remove" /\ v = [u EXCEPT ![x.path] = "absent"] /\ ns = ms
  \/ /\ x.do = "rmtree" /\ ns = ms \ Below[x.path]
     /\ v = [q \in Paths |-> IF q \in From[x.path] THEN "absent" ELSE u[q]]
  \/ /\ x.do = "move"
     /\ v = MovedTree(u, x.path, x.entry.dest) /\ ns = MovedMarks(ms, x.path, x.entry.dest)
     /\ u[x.entry.dest] = "dir" => \A q \in Below[x.entry.dest] : u[q] = "absent" /\ q \notin ms
  \/ x.do = "mark" /\ v = Opened(u, x.path) /\ ns = ms \union {x.path}

\* Taking the steps s, one after the other, makes v and ns of u and ms.
Leads(u, ms, s, v, ns) ==
  \E f, g :
    /\ f[0] = u /\ g[0] = ms /\ f[Len(s)] = v /\ g[Len(s)] = ns
    /\ \A i \in 1 .. Len(s) : Takes(f[i - 1], g[i - 1], s[i], f[i], g[i])

\* When an operation has taken its steps, the view is its goal.
Promise ==
  phase = "operation" /\ goal # NoView
  => \A v, ns : Leads(upper, marks, todo, v, ns) => ViewOf(v, ns) = goal

\* No steps lead nowhere else.
LEMMA LeadsNone ==
  ASSUME NEW u, NEW ms, NEW v, NEW ns
  PROVE  Leads(u, ms, <<>>, v, ns) <=> v = u /\ ns = ms
<1>1. Len(<<>>) = 0
  OBVIOUS
<1>2. ASSUME Leads(u, ms, <<>>, v, ns) PROVE v = u /\ ns = ms
  <2>1. PICK f, g : f[0] = u /\ g[0] = ms /\ f[Len(<<>>)] = v /\ g[Len(<<>>)] = ns
    BY <1>2 DEF Leads
  <2> QED BY <1>1, <2>1
<1>3. Leads(u, ms, <<>>, u, ms)
  <2>1. PICK f : f = [i \in {0} |-> u]
    OBVIOUS
  <2>2. PICK g : g = [i \in {0} |-> ms]
    OBVIOUS
  <2>3. f[0] = u /\ g[0] = ms /\ f[Len(<<>>)] = u /\ g[Len(<<>>)] = ms
    BY <1>1, <2>1, <2>2
  <2>4. \A i \in 1 .. Len(<<>>) : Takes(f[i - 1], g[i - 1], <<>>[i], f[i], g[i])
    <3>1. 1 .. Len(<<>>) = {}
      BY <1>1
    <3> QED BY <3>1
  <2> QED BY <2>3, <2>4 DEF Leads
<1> QED BY <1>2, <1>3

\* One step leads to what it makes.
LEMMA LeadsOne ==
  ASSUME NEW x, NEW u, NEW ms, NEW v, NEW ns, Leads(u, ms, <<x>>, v, ns)
  PROVE  Takes(u, ms, x, v, ns)
<1>1. Len(<<x>>) = 1 /\ <<x>>[1] = x
  OBVIOUS
<1>2. PICK f, g : /\ f[0] = u /\ g[0] = ms /\ f[Len(<<x>>)] = v /\ g[Len(<<x>>)] = ns
                  /\ \A i \in 1 .. Len(<<x>>) : Takes(f[i - 1], g[i - 1], <<x>>[i], f[i], g[i])
  BY DEF Leads
<1>3. 1 \in 1 .. Len(<<x>>) /\ 1 - 1 = 0
  BY <1>1
<1>4. Takes(f[1 - 1], g[1 - 1], <<x>>[1], f[1], g[1])
  BY <1>2, <1>3
<1> QED BY <1>1, <1>2, <1>3, <1>4

\* Steps after others lead on from where those led.
LEMMA LeadsOn ==
  ASSUME NEW s \in Seq(Steps), NEW t \in Seq(Steps), NEW r, r = s \o t,
         NEW u, NEW ms, NEW v, NEW ns, Leads(u, ms, r, v, ns)
  PROVE  \E w, os : Leads(u, ms, s, w, os) /\ Leads(w, os, t, v, ns)
<1>1. PICK f, g : /\ f[0] = u /\ g[0] = ms /\ f[Len(r)] = v /\ g[Len(r)] = ns
                  /\ \A i \in 1 .. Len(r) : Takes(f[i - 1], g[i - 1], r[i], f[i], g[i])
  BY DEF Leads
<1>2. PICK l \in Nat : l = Len(s)
  OBVIOUS
<1>3. PICK n \in Nat : n = Len(t)
  OBVIOUS
<1>4. /\ Len(r) = l + n /\ \A i \in 1 .. l : r[i] = s[i]
      /\ \A i \in 1 .. n : r[l + i] = t[i]
  <2>1. /\ Len(r) = Len(s) + Len(t)
        /\ \A i \in 1 .. Len(s) + Len(t) : r[i] = IF i <= Len(s) THEN s[i] ELSE t[i - Len(s)]
    BY ConcatProperties, Zenon
  <2>2. \A i \in 1 .. l + n : r[i] = IF i <= l THEN s[i] ELSE t[i - l]
    BY <2>1, <1>2, <1>3
  <2>3. ASSUME NEW i \in 1 .. n PROVE r[l + i] = t[i]
    <3>1. l + i \in 1 .. l + n /\ ~(l + i <= l) /\ (l + i) - l = i
      OBVIOUS
    <3> QED BY <2>2, <3>1
  <2>4. ASSUME NEW i \in 1 .. l PROVE r[i] = s[i]
    <3>1. i \in 1 .. l + n /\ i <= l
      OBVIOUS
    <3> QED BY <2>2, <3>1
  <2> QED BY <2>1, <2>3, <2>4, <1>2, <1>3
<1>5. Leads(u, ms, s, f[l], g[l])
  <2>1. ASSUME NEW i \in 1 .. l PROVE Takes(f[i - 1], g[i - 1], s[i], f[i], g[i])
    <3>1. i \in 1 .. Len(r)
      BY <1>4
    <3> QED BY <1>1, <1>4, <3>1
  <2> QED BY <1>1, <1>2, <2>1 DEF Leads
<1>6. Leads(f[l], g[l], t, v, ns)
  <2>1. PICK h : h = [i \in 0 .. n |-> f[l + i]]
    OBVIOUS
  <2>2. PICK k : k = [i \in 0 .. n |-> g[l + i]]
    OBVIOUS
  <2>3. h[0] = f[l] /\ k[0] = g[l] /\ h[n] = v /\ k[n] = ns
    BY <1>1, <1>4, <2>1, <2>2
  <2>4. ASSUME NEW i \in 1 .. n PROVE Takes(h[i - 1], k[i - 1], t[i], h[i], k[i])
    <3>1. l + i \in 1 .. Len(r) /\ (l + i) - 1 = l + (i - 1) /\ i - 1 \in 0 .. n /\ i \in 0 .. n
      BY <1>4
    <3>2. Takes(f[(l + i) - 1], g[(l + i) - 1], r[l + i], f[l + i], g[l + i])
      BY <1>1, <3>1
    <3>3. h[i - 1] = f[(l + i) - 1] /\ k[i - 1] = g[(l + i) - 1] /\ h[i] = f[l + i] /\ k[i] = g[l + i]
      BY <2>1, <2>2, <3>1
    <3> QED BY <1>4, <3>2, <3>3
  <2> QED BY <1>3, <2>3, <2>4 DEF Leads
<1> QED BY <1>5, <1>6

\* What is reached from where the first step leads is reached from before it.
LEMMA LeadsFirst ==
  ASSUME NEW s \in Seq(Steps), s # <<>>, NEW u, NEW ms, NEW v, NEW ns, NEW w, NEW os,
         Takes(u, ms, s[1], v, ns), Leads(v, ns, Tail(s), w, os)
  PROVE  Leads(u, ms, s, w, os)
<1>1. PICK f, g : /\ f[0] = v /\ g[0] = ns /\ f[Len(Tail(s))] = w /\ g[Len(Tail(s))] = os
                  /\ \A i \in 1 .. Len(Tail(s)) : Takes(f[i - 1], g[i - 1], Tail(s)[i], f[i], g[i])
  BY DEF Leads
<1>2. PICK n \in Nat : n + 1 = Len(s) /\ n = Len(Tail(s)) /\ \A i \in 1 .. n : Tail(s)[i] = s[i + 1]
  <2>1. /\ Len(s) \in Nat /\ Len(s) > 0 /\ Len(Tail(s)) = Len(s) - 1
        /\ \A i \in 1 .. Len(s) - 1 : Tail(s)[i] = s[i + 1]
    BY TailFacts
  <2>2. PICK l, t : l = Len(s) /\ t = Tail(s)
    OBVIOUS
  <2>3. l \in Nat /\ l > 0 /\ Len(t) = l - 1 /\ \A i \in 1 .. l - 1 : t[i] = s[i + 1]
    BY <2>1, <2>2, Zenon
  <2>4. PICK m \in Nat : m = l - 1 /\ m + 1 = l
    BY <2>3
  <2>5. m + 1 = l /\ m = Len(t) /\ \A i \in 1 .. m : t[i] = s[i + 1]
    BY <2>3, <2>4, Zenon
  <2> QED BY <2>2, <2>5, Zenon
<1>3. PICK h : h = [i \in 0 .. n + 1 |-> IF i = 0 THEN u ELSE f[i - 1]]
  OBVIOUS
<1>4. PICK k : k = [i \in 0 .. n + 1 |-> IF i = 0 THEN ms ELSE g[i - 1]]
  OBVIOUS
<1>5. h[0] = u /\ k[0] = ms /\ h[n + 1] = w /\ k[n + 1] = os
  <2>1. 0 \in 0 .. n + 1 /\ n + 1 \in 0 .. n + 1 /\ n + 1 # 0 /\ (n + 1) - 1 = n
    OBVIOUS
  <2> QED BY <1>1, <1>2, <1>3, <1>4, <2>1
<1>6. ASSUME NEW i \in 1 .. n + 1 PROVE Takes(h[i - 1], k[i - 1], s[i], h[i], k[i])
  <2>1. CASE i = 1
    <3>1. h[1 - 1] = u /\ k[1 - 1] = ms /\ h[1] = v /\ k[1] = ns
      <4>1. 0 \in 0 .. n + 1 /\ 1 \in 0 .. n + 1 /\ 1 # 0 /\ 1 - 1 = 0
        OBVIOUS
      <4> QED BY <1>1, <1>3, <1>4, <4>1
    <3> QED BY <2>1, <3>1
  <2>2. CASE i # 1
    <3>1. PICK j \in 1 .. n : i = j + 1
      <4>1. i - 1 \in 1 .. n /\ i = (i - 1) + 1
        BY <2>2
      <4> QED BY <4>1
    <3>2. j \in 0 .. n + 1 /\ j # 0 /\ i \in 0 .. n + 1 /\ i # 0 /\ i - 1 = j
      BY <3>1
    <3>3. h[i - 1] = f[j - 1] /\ k[i - 1] = g[j - 1] /\ h[i] = f[j] /\ k[i] = g[j] /\ s[i] = Tail(s)[j]
      BY <1>2, <1>3, <1>4, <3>1, <3>2
    <3>4. Takes(f[j - 1], g[j - 1], Tail(s)[j], f[j], g[j])
      BY <1>1, <1>2, <3>1
    <3> QED BY <3>3, <3>4
  <2> QED BY <2>1, <2>2
<1> QED BY <1>2, <1>5, <1>6 DEF Leads

\* Begin and commit of a record change nothing.
LEMMA LeadsJournaled ==
  ASSUME NEW e \in Entries, NEW steps \in Seq(Steps), NEW u, NEW ms, NEW v, NEW ns,
         Leads(u, ms, Journaled(e, steps), v, ns)
  PROVE  Leads(u, ms, steps, v, ns)
<1>1. PICK b : b = Do("begin", e.path, e)
  OBVIOUS
<1>2. PICK x : x = Do("commit", e.path, e)
  OBVIOUS
<1>3. b \in Steps /\ x \in Steps /\ b.do = "begin" /\ x.do = "commit"
  BY <1>1, <1>2 DEF Do, Steps, StepNames, Entries
<1>4. PICK t : t = <<b>> \o steps
  OBVIOUS
<1>5. <<b>> \in Seq(Steps) /\ <<x>> \in Seq(Steps) /\ t \in Seq(Steps)
  BY <1>3, <1>4
<1>6. PICK r : r = t \o <<x>> /\ Leads(u, ms, r, v, ns)
  BY <1>1, <1>2, <1>4, Zenon DEF Journaled
<1>7. PICK w, os : Leads(u, ms, t, w, os) /\ Leads(w, os, <<x>>, v, ns)
  BY <1>5, <1>6, LeadsOn
<1>8. PICK y, ps : Leads(u, ms, <<b>>, y, ps) /\ Leads(y, ps, steps, w, os)
  BY <1>4, <1>5, <1>7, LeadsOn
<1>9. Takes(u, ms, b, y, ps) /\ Takes(w, os, x, v, ns)
  BY <1>7, <1>8, LeadsOne
<1>10. y = u /\ ps = ms /\ v = w /\ ns = os
  BY <1>3, <1>9 DEF Takes
<1> QED BY <1>8, <1>10

-----------------------------------------------------------------------------
(* Overlay: a copy-up makes the tree that the lower one has there          *)

\* The upper tree with a copy of p and the directories above it.
CopiedTree(u, p) ==
  [q \in Paths |-> IF q \in From[p] THEN Lower[q]
                   ELSE IF q \in Above[p] /\ u[q] = "absent" THEN "dir" ELSE u[q]]

CopiesExactly(p) ==
  Lower[p] # "absent" =>
  \A u \in Trees : \A ms, v, ns :
    (\A q \in From[p] : u[q] = "absent") /\ Leads(u, ms, CopyUp[p], v, ns)
    => v = CopiedTree(u, p) /\ ns = ms

\* A sequence of all elements of a set has each of them.
LEMMA SetToSeqIsAll ==
  ASSUME NEW S, IsFiniteSet(S)
  PROVE  \A x \in S : \E i \in DOMAIN SetToSeq(S) : SetToSeq(S)[i] = x
<1> DEFINE n == Cardinality(S)
           s == CHOOSE f \in [1 .. n -> S] : IsInjective(f)
<1>1. n \in Nat /\ ExistsBijection(1 .. n, S)
  BY FS_CardinalityType
<1>2. \E f \in [1 .. n -> S] : IsInjective(f)
  BY <1>1 DEF ExistsBijection, Bijection, Injection, IsInjective
<1>3. s \in [1 .. n -> S] /\ IsInjective(s)
  BY <1>2
<1>4. SetToSeq(S) = s
  BY DEF SetToSeq
<1> HIDE DEF s
<1>5. s \in Injection(1 .. n, S)
  BY <1>3 DEF Injection, IsInjective
<1>6. Cardinality(1 .. n) = n
  <2> HIDE DEF n
  <2> QED BY <1>1, FS_Interval
<1>7. s \in Surjection(1 .. n, S)
  BY <1>5, <1>6, FS_Injection
<1> QED BY <1>3, <1>4, <1>7 DEF Surjection

\* All children the lower tree has are copied.
LEMMA ChildrenAreAll ==
  ASSUME NEW p \in Paths, NEW c \in Children[p], Lower[c] # "absent"
  PROVE  \E i \in DOMAIN ChildrenOf(p) : ChildrenOf(p)[i] = c
<1> DEFINE C == {q \in Children[p] : Lower[q] # "absent"}
<1>1. C \subseteq Paths
  BY Subsets DEF Children
<1>2. IsFiniteSet(C)
  BY <1>1, ConstantsAssumption, FS_Subset DEF ConstantsAssumption
<1>3. c \in C
  OBVIOUS
<1> HIDE DEF C
<1>4. ChildrenOf(p) = SetToSeq(C)
  BY Zenon DEF ChildrenOf, C
<1> QED BY <1>2, <1>3, <1>4, SetToSeqIsAll

\* What is below a directory is from one of its children.
LEMMA BelowIsFromChild ==
  ASSUME NEW p \in Paths, NEW q \in Below[p]
  PROVE  \E c \in Children[p] : q \in From[c]
<1>1. q \in Paths /\ Len(p) < Len(q) /\ \A i \in 1 .. Len(p) : p[i] = q[i]
  BY Subsets, AboveIsOrder, Reading, PrefixByPlace
<1>2. PICK n \in Nat : n = Len(p)
  BY PathIsSeq
<1>3. q \in Seq(Components) /\ Len(q) \in Nat
  BY <1>1, PathIsSeq
<1>4. n + 1 \in 1 .. Len(q)
  BY <1>1, <1>2, <1>3
<1>5. PICK c \in Paths : c = SubSeq(q, 1, n + 1)
  BY <1>1, <1>4, PrefixIsPath
<1>6. Len(c) = n + 1 /\ \A i \in 1 .. n + 1 : c[i] = q[i]
  BY <1>3, <1>4, <1>5
<1>7. IsPrefix(c, q)
  BY <1>1, <1>4, <1>6, PrefixByPlace
<1>8. IsPrefix(p, c) /\ p # c
  <2>1. Len(p) <= Len(c) /\ Len(p) # Len(c) /\ \A i \in 1 .. Len(p) : p[i] = c[i]
    BY <1>1, <1>2, <1>6
  <2> QED BY <2>1, PrefixByPlace
<1> QED BY <1>1, <1>2, <1>6, <1>7, <1>8, Reading DEF Children

\* Above a child is its directory and what is above that.
LEMMA AboveChild ==
  ASSUME NEW p \in Paths, NEW c \in Children[p]
  PROVE  Above[c] = Above[p] \union {p}
<1>1. c \in Paths /\ c \in Below[p] /\ Len(c) = Len(p) + 1 /\ p \in Above[c] /\ c \in From[p]
  BY ChildIsBelow, AboveIsOrder, Subsets
<1>2. Above[p] \subseteq Above[c]
  BY <1>1, AboveIsOrder
<1>3. ASSUME NEW r \in Above[c], r # p PROVE r \in Above[p]
  <2>1. r \in Paths /\ (r \in Above[p] \/ r \in From[p]) /\ Len(r) < Len(c)
    BY <1>1, <1>3, AboveFrom, AboveIsOrder
  <2>2. SUFFICES ASSUME r \in From[p] PROVE FALSE
    BY <2>1
  <2>3. r \in Below[p]
    BY <1>3, <2>2, Subsets
  <2>4. Len(p) < Len(r)
    BY <2>1, <2>3, AboveIsOrder
  <2>5. Len(p) \in Nat /\ Len(r) \in Nat
    BY <2>1, PathIsSeq
  <2> QED BY <1>1, <2>1, <2>4, <2>5
<1> QED BY <1>1, <1>2, <1>3

\* What two children of a directory have below them differs.
LEMMA ChildrenAreApart ==
  ASSUME NEW p \in Paths, NEW c \in Children[p], NEW d \in Children[p], c # d
  PROVE  From[c] \intersect From[d] = {}
<1>1. c \in Paths /\ d \in Paths /\ Len(c) = Len(d) /\ Len(c) \in Nat
  BY ChildIsBelow, PathIsSeq
<1>2. \A x \in Paths, y \in Paths : x \in From[y] /\ x # y => y \in Above[x]
  BY Subsets, AboveIsOrder
<1>3. c \notin Above[d] /\ d \notin Above[c]
  BY <1>1, AboveIsOrder
<1>4. c \notin From[d] /\ d \notin From[c]
  BY <1>1, <1>2, <1>3
<1>5. ASSUME NEW x, x \in From[c], x \in From[d] PROVE FALSE
  <2>1. x \in Paths
    BY <1>1, <1>5, Subsets
  <2>2. c \in From[d] \/ d \in From[c]
    BY <1>1, <1>5, <2>1, AboveIsLinear
  <2> QED BY <1>4, <2>2
<1> QED BY <1>5

\* The steps of a copied node: the directories above, the node, then what is below it.
LEMMA LeadsWrapped ==
  ASSUME NEW p \in Paths, NEW name \in {"put", "mkdir"}, NEW s \in Seq(Steps),
         NEW r, r = Wrapped(name, p, s),
         NEW u, NEW ms, NEW v, NEW ns, Leads(u, ms, r, v, ns)
  PROVE  \E w, os : /\ Takes(Opened(u, p), ms, Do(name, p, CopyEntry(p)), w, os)
                    /\ Leads(w, os, s, v, ns)
<1>0. name \in StepNames /\ "parents" \in StepNames
  BY DEF StepNames
<1>1. PICK e \in Entries : e = CopyEntry(p)
  BY <1>0, CopyEntryIsEntry
<1>2. PICK a \in Steps : a = Do("parents", p, e) /\ a.do = "parents" /\ a.path = p
  BY <1>0, <1>1, CopyEntryIsEntry
<1>3. PICK m \in Steps : m = Do(name, p, e)
  BY <1>0, <1>1, CopyEntryIsEntry
<1>4. PICK t : t = <<m>> \o s
  OBVIOUS
<1>5. <<a>> \in Seq(Steps) /\ <<m>> \in Seq(Steps) /\ t \in Seq(Steps)
  BY <1>4
<1>6. PICK j : j = Journaled(e, t)
  OBVIOUS
<1>7. j \in Seq(Steps)
  BY <1>5, <1>6, JournaledIsSeq
<1>8. r = <<a>> \o j
  BY <1>1, <1>2, <1>3, <1>4, <1>6, Zenon DEF Wrapped
<1>9. PICK x, xs : Leads(u, ms, <<a>>, x, xs) /\ Leads(x, xs, j, v, ns)
  BY <1>5, <1>7, <1>8, LeadsOn
<1>10. Takes(u, ms, a, x, xs)
  BY <1>9, LeadsOne
<1>11. x = Opened(u, p) /\ xs = ms
  BY <1>2, <1>10 DEF Takes
<1>12. Leads(x, xs, t, v, ns)
  BY <1>5, <1>6, <1>9, LeadsJournaled
<1>13. PICK w, os : Leads(x, xs, <<m>>, w, os) /\ Leads(w, os, s, v, ns)
  BY <1>4, <1>5, <1>12, LeadsOn
<1>14. Takes(x, xs, m, w, os)
  BY <1>13, LeadsOne
<1> QED BY <1>1, <1>3, <1>11, <1>13, <1>14

\* The copy of one child, once its directory is made.
LEMMA LeadsChild ==
  ASSUME NEW p \in Paths, NEW c \in Children[p], CopiesExactly(c), Lower[c] # "absent",
         NEW u \in Trees, u[p] = "dir", \A q \in Above[p] : u[q] # "absent",
         \A q \in From[c] : u[q] = "absent",
         NEW ms, NEW v, NEW ns, Leads(u, ms, CopyUp[c], v, ns)
  PROVE  v = [q \in Paths |-> IF q \in From[c] THEN Lower[q] ELSE u[q]] /\ ns = ms
<1>1. v = CopiedTree(u, c) /\ ns = ms
  BY DEF CopiesExactly
<1>2. Above[c] = Above[p] \union {p}
  BY AboveChild
<1>3. \A q \in Above[c] : u[q] # "absent"
  BY <1>2
<1> QED BY <1>1, <1>3 DEF CopiedTree

\* The plans of the children, one after the other, are a plan.
LEMMA ChildrenPlanned ==
  ASSUME NEW p \in Paths, NEW s, s = ChildPlans(CopyUp, p)
  PROVE  s \in Seq(Seq(Steps)) /\ Len(s) = Len(ChildrenOf(p)) /\ FlattenSeq(s) \in Seq(Steps)
<1>1. PICK l \in Seq(Paths) : l = ChildrenOf(p) /\ \A i \in DOMAIN l : l[i] \in Paths
  BY ChildrenListed
<1>4. DOMAIN s = DOMAIN l /\ \A i \in DOMAIN l : s[i] = CopyUp[l[i]]
  BY <1>1 DEF ChildPlans
<1>5. PICK n \in Nat : n = Len(l) /\ DOMAIN l = 1 .. n
  OBVIOUS
<1>6. s \in Seq(Seq(Steps)) /\ Len(s) = n
  <2>1. \A i \in DOMAIN l : s[i] \in Seq(Steps)
    BY <1>1, <1>4, CopyUpCopies DEF CopiedBelow, Copies
  <2>2. s = [i \in DOMAIN l |-> s[i]]
    BY <1>1, Zenon DEF ChildPlans
  <2>3. s = [i \in 1 .. n |-> s[i]]
    BY <2>2, <1>5
  <2>4. s \in Seq(Seq(Steps))
    BY <2>1, <2>3, <1>5, IsASeq
  <2>5. DOMAIN s = 1 .. Len(s) /\ Len(s) \in Nat
    BY <2>4
  <2>6. DOMAIN s = 1 .. n
    BY <1>4, <1>5
  <2>7. PICK m \in Nat : m = Len(s) /\ 1 .. m = 1 .. n
    BY <2>5, <2>6
  <2>8. m = n
    <3>1. m < n => n \in 1 .. n /\ n \notin 1 .. m
      OBVIOUS
    <3>2. n < m => m \in 1 .. m /\ m \notin 1 .. n
      OBVIOUS
    <3> QED BY <3>1, <3>2, <2>7
  <2> QED BY <2>4, <2>7, <2>8
<1>7. FlattenSeq(s) \in Seq(Steps)
  BY <1>6, FlattenedSteps
<1> QED BY <1>1, <1>5, <1>6, <1>7

\* The copies of the children make all that the lower tree has below the directory.
LEMMA LeadsChildren ==
  ASSUME NEW p \in Paths, \A c \in Children[p] : CopiesExactly(c),
         NEW u \in Trees, u[p] = "dir", \A q \in Above[p] : u[q] # "absent",
         \A q \in Below[p] : u[q] = "absent",
         NEW f, f = FlattenSeq(ChildPlans(CopyUp, p)),
         NEW ms, NEW v, NEW ns, Leads(u, ms, f, v, ns)
  PROVE  f \in Seq(Steps) /\ v = [q \in Paths |-> IF q \in Below[p] THEN Lower[q] ELSE u[q]] /\ ns = ms
<1> DEFINE Part(l, n) == [q \in Paths |-> IF \E i \in 1 .. n : q \in From[l[i]] THEN Lower[q] ELSE u[q]]
<1>1. PICK l \in Seq(Paths) : l = ChildrenOf(p)
  BY ChildrenListed
<1>2. /\ \A i \in DOMAIN l : l[i] \in Children[p] /\ Lower[l[i]] # "absent" /\ l[i] \in Paths
      /\ \A i \in DOMAIN l, j \in DOMAIN l : l[i] = l[j] => i = j
  BY <1>1, ChildrenListed, ChildrenAreThere
<1>3. PICK s : s = ChildPlans(CopyUp, p)
  OBVIOUS
<1>4. DOMAIN s = DOMAIN l /\ \A i \in DOMAIN l : s[i] = CopyUp[l[i]]
  BY <1>1, <1>3 DEF ChildPlans
<1>5. PICK n \in Nat : n = Len(l) /\ DOMAIN l = 1 .. n
  OBVIOUS
<1>6. s \in Seq(Seq(Steps)) /\ Len(s) = n
  BY <1>1, <1>3, <1>5, ChildrenPlanned
<1>7. f \in Seq(Steps)
  BY <1>3, ChildrenPlanned
<1>8. v = Part(l, n) /\ ns = ms
  <2>1. CASE n = 0
    <3>1. FlattenSeq(s) = s
      BY <1>6, <2>1, Zenon DEF FlattenSeq
    <3>2. f = <<>>
      BY <1>3, <1>6, <2>1, <3>1
    <3>3. v = u /\ ns = ms
      BY <3>2, LeadsNone
    <3>4. Part(l, n) = u
      <4>1. 1 .. n = {}
        BY <2>1
      <4> QED BY <4>1 DEF Trees
    <3> QED BY <3>3, <3>4
  <2>2. CASE n # 0
    <3>0. n >= 1 /\ n \in 1 .. n /\ n \in 0 .. n
      BY <2>2
    <3>1. PICK g \in [1 .. n -> Seq(Steps)] :
            f = g[n] /\ g[1] = s[1] /\ \A i \in 2 .. n : g[i] = g[i - 1] \o s[i]
      BY <1>3, <1>6, <3>0, Flattening
    <3> DEFINE Done(k) == \A w, os : Leads(u, ms, g[k], w, os) => w = Part(l, k) /\ os = ms
               T == {k \in Nat : k >= 1 => Done(k)}
    <3>2. 0 \in T
      OBVIOUS
    <3>3. ASSUME NEW k \in 1 .. n, k - 1 \in T PROVE k \in T
      <4>0. k \in Nat /\ k >= 1 /\ k \in DOMAIN l
        BY <1>5
      <4>1. ASSUME NEW w, NEW os, Leads(u, ms, g[k], w, os) PROVE w = Part(l, k) /\ os = ms
        <5>1. Part(l, k) = [q \in Paths |-> IF q \in From[l[k]] THEN Lower[q] ELSE Part(l, k - 1)[q]]
          <6>1. \A q : (\E i \in 1 .. k : q \in From[l[i]])
                       <=> q \in From[l[k]] \/ \E i \in 1 .. k - 1 : q \in From[l[i]]
            <7>1. \A i : i \in 1 .. k <=> i = k \/ i \in 1 .. k - 1
              BY <4>0
            <7> QED BY <7>1
          <6> QED BY <6>1
        <5>2. /\ Part(l, k - 1) \in Trees /\ Part(l, k - 1)[p] = "dir"
              /\ \A q \in Above[p] : Part(l, k - 1)[q] # "absent"
              /\ \A q \in From[l[k]] : Part(l, k - 1)[q] = "absent"
          <6>1. \A i \in 1 .. k - 1 : i \in DOMAIN l /\ i # k
            BY <1>5, <4>0
          <6>2. \A i \in 1 .. k - 1 : From[l[i]] \subseteq Below[p]
            BY <6>1, <1>2, ChildIsBelow
          <6>3. \A i \in 1 .. k - 1 : From[l[k]] \intersect From[l[i]] = {}
            BY <6>1, <4>0, <1>2, ChildrenAreApart
          <6>4. From[l[k]] \subseteq Below[p]
            BY <4>0, <1>2, ChildIsBelow
          <6>5. p \notin Below[p] /\ Above[p] \subseteq Paths /\ Below[p] \subseteq Paths
            BY Subsets
          <6>6. \A q \in Above[p] : q \notin Below[p]
            BY <6>5, Reading, AboveIsOrder, PathIsSeq
          <6>7. \A q \in Paths : q \notin Below[p] => Part(l, k - 1)[q] = u[q]
            BY <6>2
          <6>8. \A q \in From[l[k]] : Part(l, k - 1)[q] = u[q]
            BY <6>3, <6>4, <6>5
          <6>9. Part(l, k - 1) \in Trees
            BY ConstantsAssumption DEF Trees, Nodes, ConstantsAssumption
          <6> HIDE DEF Part
          <6> QED BY <6>4, <6>5, <6>6, <6>7, <6>8, <6>9
        <5>3. PICK y \in Trees : y = Part(l, k - 1)
          BY <5>2
        <5>11. PICK c \in Children[p] : c = l[k]
          BY <4>0, <1>2
        <5>12. Lower[c] # "absent" /\ CopiesExactly(c)
          BY <5>11, <4>0, <1>2
        <5>13. s[k] = CopyUp[c]
          BY <5>11, <4>0, <1>4
        <5>4. s[k] \in Seq(Steps)
          BY <4>0, <1>5, <1>6
        <5>5. Leads(y, ms, s[k], w, os)
          <6>1. CASE k = 1
            <7>1. Part(l, k - 1) = u
              <8>1. 1 .. k - 1 = {}
                BY <6>1
              <8> QED BY <8>1 DEF Trees
            <7> HIDE DEF Part
            <7> QED BY <7>1, <6>1, <5>3, <4>1, <3>1
          <6>2. CASE k # 1
            <7>1. k \in 2 .. n /\ k - 1 >= 1 /\ k - 1 \in Nat /\ k - 1 \in 1 .. n
              BY <6>2, <4>0
            <7>2. PICK a \in Seq(Steps) : a = g[k - 1]
              BY <7>1, <3>1
            <7>3. g[k] = a \o s[k]
              BY <7>1, <7>2, <3>1
            <7>4. PICK x, xs : Leads(u, ms, a, x, xs) /\ Leads(x, xs, s[k], w, os)
              BY <7>3, <5>4, <4>1, LeadsOn
            <7>5. x = Part(l, k - 1) /\ xs = ms
              <8> HIDE DEF Part
              <8> QED BY <7>1, <7>2, <7>4, <3>3
            <7> HIDE DEF Part
            <7> QED BY <7>4, <7>5, <5>3
          <6> QED BY <6>1, <6>2
        <5>6. /\ y[p] = "dir" /\ \A q \in Above[p] : y[q] # "absent"
              /\ \A q \in From[c] : y[q] = "absent"
          BY <5>2, <5>3, <5>11, Zenon
        <5>14. Leads(y, ms, CopyUp[c], w, os)
          BY <5>5, <5>13
        <5>7. w = [q \in Paths |-> IF q \in From[c] THEN Lower[q] ELSE y[q]] /\ os = ms
          BY <5>12, <5>14, <5>6, LeadsChild
        <5> HIDE DEF Part
        <5> QED BY <5>1, <5>3, <5>7, <5>11
      <4> HIDE DEF Part
      <4> QED BY <4>0, <4>1
    <3>4. \A k \in 0 .. n : k \in T
      <4>1. \A k \in 1 .. n : k - 1 \in T => k \in T
        BY <3>3
      <4> HIDE DEF T
      <4> QED BY <3>2, <4>1, Upto
    <3>5. Done(n)
      <4> HIDE DEF Done
      <4> QED BY <3>0, <3>4
    <3> QED BY <3>1, <3>5
  <2> QED BY <2>1, <2>2
<1>9. Part(l, n) = [q \in Paths |-> IF q \in Below[p] THEN Lower[q] ELSE u[q]]
  <2>1. ASSUME NEW q \in Paths, \E i \in 1 .. n : q \in From[l[i]] PROVE q \in Below[p]
    BY <2>1, <1>2, <1>5, ChildIsBelow
  <2>2. ASSUME NEW q \in Paths, q \in Below[p], ~\E i \in 1 .. n : q \in From[l[i]]
        PROVE  Lower[q] = "absent" /\ u[q] = "absent"
    <3>1. PICK c \in Children[p] : q \in From[c]
      BY <2>2, BelowIsFromChild
    <3>2. c \in Paths
      BY ChildIsBelow
    <3>3. SUFFICES ASSUME Lower[q] # "absent" PROVE FALSE
      BY <2>2
    <3>4. Lower[c] # "absent"
      <4>1. CASE c = q
        BY <4>1, <3>3
      <4>2. CASE c # q
        <5>1. c \in Above[q]
          BY <4>2, <3>1, <3>2, Subsets, AboveIsOrder
        <5> QED BY <5>1, <3>2, <3>3, ConstantsAssumption DEF ConstantsAssumption
      <4> QED BY <4>1, <4>2
    <3>5. PICK i \in DOMAIN l : l[i] = c
      BY <3>4, <1>1, ChildrenAreAll
    <3> QED BY <3>1, <3>5, <2>2, <1>5
  <2> QED BY <2>1, <2>2
<1> HIDE DEF Part
<1> QED BY <1>7, <1>8, <1>9

\* A copy makes what the lower tree has, when the copies of its children do.
LEMMA CopyUpExactStep ==
  ASSUME NEW p \in Paths, \A c \in Children[p] : CopiesExactly(c)
  PROVE  CopiesExactly(p)
<1> SUFFICES ASSUME Lower[p] # "absent", NEW u \in Trees, \A q \in From[p] : u[q] = "absent",
                    NEW ms, NEW v, NEW ns, Leads(u, ms, CopyUp[p], v, ns)
             PROVE  v = CopiedTree(u, p) /\ ns = ms
  BY DEF CopiesExactly
<1>1. PICK g : g = CopyUp[p] /\ Leads(u, ms, g, v, ns)
  OBVIOUS
<1>2. g = CopyBody(CopyUp, p)
  BY <1>1, CopyUpByBody
<1>3. PICK e \in Entries : e = CopyEntry(p) /\ e.kind \in {"copy-up", "copy-up-dir"}
  BY CopyEntryIsEntry DEF StepNames
<1>4. Above[p] \subseteq Paths /\ From[p] = Below[p] \union {p} /\ p \notin Below[p] /\ p \notin Above[p]
      /\ From[p] \subseteq Paths
  BY Subsets
<1>5. PICK o : o = Opened(u, p)
  OBVIOUS
<1>6. /\ o \in Trees /\ o[p] = "absent"
      /\ \A q \in Above[p] : o[q] # "absent"
      /\ \A q \in Paths : q \notin Above[p] => o[q] = u[q]
  BY <1>4, <1>5 DEF Opened, Trees, Nodes
<1>7. \A q \in From[p] : q \notin Above[p]
  BY <1>4, AboveIsOrder, PathIsSeq
<1>8. Lower[p] \in Nodes
  BY ConstantsAssumption DEF ConstantsAssumption, Nodes
<1>9. CASE Lower[p] = "dir"
  <2>1. PICK f : f = FlattenSeq(ChildPlans(CopyUp, p))
    OBVIOUS
  <2>2. g = Wrapped("mkdir", p, f)
    BY <1>2, <1>9, <2>1, Zenon DEF CopyBody
  <2>3. f \in Seq(Steps)
    BY <2>1, ChildrenPlanned
  <2>4. PICK w, os : Takes(o, ms, Do("mkdir", p, e), w, os) /\ Leads(w, os, f, v, ns)
    BY <1>1, <1>3, <1>5, <2>2, <2>3, LeadsWrapped
  <2>5. w = [o EXCEPT ![p] = "dir"] /\ os = ms
    BY <2>4 DEF Takes, Do
  <2>6. /\ w \in Trees /\ w[p] = "dir" /\ \A q \in Above[p] : w[q] # "absent"
        /\ \A q \in Below[p] : w[q] = "absent"
        /\ \A q \in Paths : q # p => w[q] = o[q]
    BY <1>4, <1>6, <1>7, <2>5 DEF Trees, Nodes
  <2>7. v = [q \in Paths |-> IF q \in Below[p] THEN Lower[q] ELSE w[q]] /\ ns = os
    BY <2>1, <2>4, <2>6, LeadsChildren
  <2>8. \A q \in Paths : v[q] = CopiedTree(u, p)[q]
    <3>1. \A q \in Paths : w[q] = IF q = p THEN "dir" ELSE IF q \in Above[p] /\ u[q] = "absent" THEN "dir" ELSE u[q]
      BY <1>5, <2>6 DEF Opened
    <3> QED BY <1>4, <1>9, <2>7, <3>1 DEF CopiedTree
  <2> QED BY <2>5, <2>7, <2>8 DEF CopiedTree
<1>10. CASE Lower[p] # "dir"
  <2>1. <<Do("put", p, e)>> \o <<>> = <<Do("put", p, e)>>
    <3>1. Do("put", p, e) \in Steps
      BY <1>3, CopyEntryIsEntry DEF StepNames
    <3>2. <<Do("put", p, e)>> \in Seq(Steps)
      BY <3>1
    <3> QED BY <3>2, ConcatEmptySeq
  <2>2. g = Wrapped("put", p, <<>>)
    BY <1>2, <1>3, <1>10, <2>1, Zenon DEF CopyBody, Wrapped
  <2>3. PICK f \in Seq(Steps) : f = <<>>
    BY EmptySeq
  <2>4. PICK w, os : Takes(o, ms, Do("put", p, e), w, os) /\ Leads(w, os, f, v, ns)
    BY <1>1, <1>3, <1>5, <2>2, <2>3, LeadsWrapped
  <2>5. w = [o EXCEPT ![p] = Lower[p]] /\ os = ms
    BY <1>3, <2>4 DEF Takes, Do
  <2>6. v = w /\ ns = os
    BY <2>3, <2>4, LeadsNone
  <2>7. \A q \in Below[p] : Lower[q] = "absent"
    <3>1. ASSUME NEW q \in Below[p] PROVE Lower[q] = "absent"
      <4>1. q \in Paths /\ p \in Above[q]
        BY <1>4, AboveIsOrder
      <4> QED BY <4>1, <1>10, ConstantsAssumption DEF ConstantsAssumption
    <3> QED BY <3>1
  <2>8. \A q \in Paths : v[q] = CopiedTree(u, p)[q]
    <3>1. ASSUME NEW q \in Paths PROVE v[q] = CopiedTree(u, p)[q]
      <4>1. CASE q = p
        BY <4>1, <1>4, <1>6, <2>5, <2>6 DEF CopiedTree, Trees
      <4>2. CASE q \in Below[p]
        BY <4>2, <1>4, <1>6, <1>7, <2>5, <2>6, <2>7 DEF CopiedTree, Trees
      <4>3. CASE q \notin From[p]
        BY <4>3, <1>4, <1>5, <2>5, <2>6 DEF CopiedTree, Opened
      <4> QED BY <4>1, <4>2, <4>3, <1>4
    <3> QED BY <3>1
  <2>9. v = [q \in Paths |-> v[q]]
    BY <1>6, <2>5, <2>6 DEF Trees
  <2>10. v = CopiedTree(u, p)
    BY <2>8, <2>9 DEF CopiedTree
  <2> QED BY <2>5, <2>6, <2>10
<1> QED BY <1>9, <1>10

\* Every copy-up makes the tree that the lower one has there.
LEMMA CopyUpExact == \A p \in Paths : CopiesExactly(p)
<1> DEFINE T == {n \in Nat : \A p \in Paths : Depth(p) < n => CopiesExactly(p)}
<1>1. 0 \in T
  BY ChildrenAreFewer
<1>2. ASSUME NEW n \in Nat, n \in T PROVE n + 1 \in T
  <2>1. ASSUME NEW p \in Paths, Depth(p) < n + 1 PROVE CopiesExactly(p)
    <3>1. \A c \in Children[p] : c \in Paths
      BY ChildIsBelow
    <3>2. \A c \in Children[p] : Depth(c) \in Nat /\ Depth(p) \in Nat /\ Depth(c) < Depth(p)
      BY <3>1, ChildrenAreFewer
    <3>3. \A c \in Children[p] : Depth(c) < n
      BY <3>2, <2>1
    <3>4. \A c \in Children[p] : CopiesExactly(c)
      BY <3>1, <3>3, <1>2
    <3> QED BY <3>4, CopyUpExactStep
  <2> QED BY <2>1
<1>3. Nat \subseteq T
  <2>1. \A n \in Nat : n \in T => n + 1 \in T BY <1>2
  <2> HIDE DEF T
  <2> QED BY <1>1, <2>1, Induction
<1>4. ASSUME NEW p \in Paths PROVE CopiesExactly(p)
  <2>1. Depth(p) \in Nat
    BY ChildrenAreFewer
  <2>2. Depth(p) + 1 \in T
    <3> HIDE DEF T
    <3> QED BY <2>1, <1>3
  <2> QED BY <2>1, <2>2
<1> QED BY <1>4

-----------------------------------------------------------------------------
(* Overlay: what each operation's steps lead to                            *)

\* What the first steps of a plan do: the marker of the name is taken away.
LEMMA LeadsCleared ==
  ASSUME NEW p \in Paths, NEW e \in Entries, NEW u, NEW v, NEW ns,
         Leads(u, marks, Cleared(p, e), v, ns)
  PROVE  v = u /\ ns = marks \ {p}
<1>1. CASE p \in marks
  <2>1. PICK x : x = Do("clear", p, e)
    OBVIOUS
  <2>2. Cleared(p, e) = <<x>>
    BY <1>1, <2>1, Zenon DEF Cleared, IfThen
  <2>3. Takes(u, marks, x, v, ns)
    BY <2>2, LeadsOne
  <2>4. x.do = "clear" /\ x.path = p
    BY <2>1 DEF Do
  <2> QED BY <2>3, <2>4 DEF Takes
<1>2. CASE p \notin marks
  <2>1. Cleared(p, e) = <<>>
    BY <1>2, Zenon DEF Cleared, IfThen
  <2>2. v = u /\ ns = marks
    BY <2>1, LeadsNone
  <2> QED BY <1>2, <2>2
<1> QED BY <1>1, <1>2

\* Only p changes, where nothing is seen below it and nothing comes up there.
LEMMA ViewAtOne ==
  ASSUME NEW p \in Paths, \A q \in Above[p] : Node(upper, marks, q) = "dir",
         NEW v, NEW ns, Alike(upper, marks, v, ns, From[p]),
         NEW c, Node(v, ns, p) = c,
         c = "dir" => \A q \in Below[p] : Node(v, ns, q) = "absent",
         \A q \in Below[p] : View[q] = "absent"
  PROVE  ViewOf(v, ns) = [View EXCEPT ![p] = c]
<1>1. \A q \in Paths \ From[p] : \A r \in Above[q] : r \in Paths \ From[p]
  <2>1. PICK Z : Z = From[p] \union From[p]
    OBVIOUS
  <2>2. Z = From[p]
    BY <2>1
  <2> QED BY <2>1, <2>2, ZoneIsClosed
<1>2. \A q \in Paths \ From[p] : ViewOf(v, ns)[q] = View[q] /\ Node(v, ns, q) = Node(upper, marks, q)
  BY <1>1, ViewStays, NodesStay DEF View
<1>3. \A q \in Above[p] : q \in Paths \ From[p]
  BY Subsets, AboveIsOrder
<1>4. ViewOf(v, ns)[p] = c
  BY <1>2, <1>3 DEF ViewOf
<1>5. ASSUME NEW q \in Below[p] PROVE ViewOf(v, ns)[q] = "absent"
  <2>1. q \in Paths /\ p \in Above[q]
    BY Subsets, AboveIsOrder
  <2>2. CASE c = "dir"
    BY <2>1, <2>2 DEF ViewOf
  <2>3. CASE c # "dir"
    BY <2>1, <2>3 DEF ViewOf
  <2> QED BY <2>2, <2>3
<1>6. \A q \in Paths : ViewOf(v, ns)[q] = [View EXCEPT ![p] = c][q]
  <2>1. \A q \in Paths : q = p \/ q \in Below[p] \/ q \in Paths \ From[p]
    BY Subsets
  <2>2. p \notin Below[p]
    BY Subsets
  <2>3. DOMAIN View = Paths
    BY DEF View, ViewOf
  <2>4. [View EXCEPT ![p] = c][p] = c /\ \A q \in Paths : q # p => [View EXCEPT ![p] = c][q] = View[q]
    BY <2>3
  <2>5. p \notin Paths \ From[p]
    BY Subsets
  <2> QED BY <2>1, <2>2, <2>4, <2>5, <1>2, <1>4, <1>5, Zenon
<1>7. ViewOf(v, ns) = [q \in Paths |-> ViewOf(v, ns)[q]]
  BY DEF ViewOf
<1>8. [View EXCEPT ![p] = c] = [q \in Paths |-> [View EXCEPT ![p] = c][q]]
  BY DEF View, ViewOf
<1> HIDE DEF View, ViewOf
<1> QED BY <1>6, <1>7, <1>8, Zenon

\* What a copy-up of a name that is seen makes.
LEMMA LeadsCopiedUp ==
  ASSUME OverlayIInv, NEW p \in Paths, View[p] # "absent",
         NEW ms, NEW v, NEW ns, Leads(upper, ms, CopiedUp(p), v, ns)
  PROVE  /\ ns = ms /\ v[p] = View[p]
         /\ upper[p] # "absent" => v = upper
         /\ upper[p] = "absent" => /\ v = CopiedTree(upper, p)
                                   /\ \A q \in From[p] : upper[q] = "absent" /\ q \notin marks
         /\ Alike(upper, marks, v, marks, {})
<1>0. upper \in Trees /\ marks \in SUBSET Paths /\ Tree(upper, marks)
  BY TypesAreTrees DEF OverlayIInv
<1>1. /\ p \notin marks /\ View[p] = Node(upper, marks, p)
      /\ ~Hidden(marks, p)
  BY SeenNames, AboveIsSeen DEF Node
<1>2. CASE upper[p] # "absent"
  <2>1. CopiedUp(p) = <<>>
    BY <1>2, Zenon DEF CopiedUp, IfThen
  <2>2. v = upper /\ ns = ms
    BY <2>1, LeadsNone
  <2>3. View[p] = upper[p]
    BY <1>1, <1>2 DEF Node
  <2> QED BY <1>2, <2>2, <2>3 DEF Alike
<1>3. CASE upper[p] = "absent"
  <2>1. CopiedUp(p) = CopyUp[p]
    BY <1>3, Zenon DEF CopiedUp, IfThen
  <2>2. View[p] = Lower[p]
    BY <1>1, <1>3 DEF Node
  <2>3. \A q \in From[p] : upper[q] = "absent" /\ q \notin marks
    <3>1. From[p] \intersect marks = {}
      BY <1>3, SeenNames
    <3>2. \A q \in Below[p] : upper[q] = "absent"
      BY <1>0, <1>3, NothingBelow
    <3> QED BY <3>1, <3>2, <1>3, Subsets
  <2>4. v = CopiedTree(upper, p) /\ ns = ms
    BY <1>0, <2>1, <2>2, <2>3, CopyUpExact DEF CopiesExactly
  <2>5. v[p] = View[p]
    BY <2>2, <2>4, Subsets DEF CopiedTree
  <2>6. Alike(upper, marks, v, marks, {})
    <3>1. ASSUME NEW q \in Paths PROVE v[q] = upper[q] \/ {upper[q], v[q]} \subseteq {"absent", Lower[q]}
      <4>1. q \in Above[p] => upper[q] = "dir" \/ Lower[q] = "dir"
        BY SeenAbove
      <4> QED BY <4>1, <2>3, <2>4 DEF CopiedTree
    <3> QED BY <3>1 DEF Alike
  <2> QED BY <1>3, <2>3, <2>4, <2>5, <2>6
<1> QED BY <1>2, <1>3

\* After a copy-up alone the view is what it was.
LEMMA CopyFulfils ==
  ASSUME OverlayIInv, NEW p \in Paths, View[p] # "absent",
         NEW v, NEW ns, Leads(upper, marks, CopiedUp(p), v, ns)
  PROVE  ViewOf(v, ns) = View
<1>1. ns = marks /\ Alike(upper, marks, v, marks, {})
  BY LeadsCopiedUp
<1>2. \A q \in Paths \ {} : ViewOf(v, ns)[q] = ViewOf(upper, marks)[q]
  <2>1. \A q \in Paths \ {} : \A r \in Above[q] : r \in Paths \ {}
    BY Subsets
  <2> QED BY <1>1, <2>1, ViewStays
<1>3. \A q \in Paths : ViewOf(v, ns)[q] = ViewOf(upper, marks)[q]
  BY <1>2
<1>4. ViewOf(v, ns) = [q \in Paths |-> ViewOf(v, ns)[q]]
      /\ ViewOf(upper, marks) = [q \in Paths |-> ViewOf(upper, marks)[q]]
  BY DEF ViewOf
<1> HIDE DEF ViewOf
<1> QED BY <1>3, <1>4, Zenon DEF View

\* The steps of a record follow what was prepared for it.
LEMMA LeadsRecorded ==
  ASSUME NEW e \in Entries, NEW c \in Seq(Steps), NEW steps \in Seq(Steps),
         NEW plan, plan = c \o Journaled(e, steps),
         NEW u, NEW ms, NEW v, NEW ns, Leads(u, ms, plan, v, ns)
  PROVE  \E w, os : Leads(u, ms, c, w, os) /\ Leads(w, os, steps, v, ns)
<1>1. PICK j : j = Journaled(e, steps) /\ j \in Seq(Steps)
  BY JournaledIsSeq
<1>2. PICK w, os : Leads(u, ms, c, w, os) /\ Leads(w, os, j, v, ns)
  BY <1>1, LeadsOn
<1>3. Leads(w, os, steps, v, ns)
  BY <1>1, <1>2, LeadsJournaled
<1> QED BY <1>2, <1>3

\* Two steps lead on from one to the other.
LEMMA LeadsTwo ==
  ASSUME NEW x \in Steps, NEW y \in Steps, NEW s, s = <<x>> \o <<y>>,
         NEW u, NEW ms, NEW v, NEW ns, Leads(u, ms, s, v, ns)
  PROVE  \E w, os : Takes(u, ms, x, w, os) /\ Takes(w, os, y, v, ns)
<1>1. <<x>> \in Seq(Steps) /\ <<y>> \in Seq(Steps)
  OBVIOUS
<1>2. PICK w, os : Leads(u, ms, <<x>>, w, os) /\ Leads(w, os, <<y>>, v, ns)
  BY <1>1, LeadsOn
<1>3. Takes(u, ms, x, w, os) /\ Takes(w, os, y, v, ns)
  BY <1>2, LeadsOne
<1> QED BY <1>3

\* A step of a record is marked, or stands alone, as the record says.
LEMMA MarkedIs ==
  ASSUME NEW x \in Steps, NEW y \in Steps, NEW e, NEW s, s = <<x>> \o IfThen(e.lower, <<y>>)
  PROVE  /\ s \in Seq(Steps)
         /\ e.lower => s = <<x>> \o <<y>>
         /\ ~e.lower => s = <<x>>
<1>1. <<x>> \in Seq(Steps) /\ <<y>> \in Seq(Steps)
  OBVIOUS
<1>2. CASE e.lower
  <2>1. s = <<x>> \o <<y>>
    BY <1>2, Zenon DEF IfThen
  <2> QED BY <1>1, <1>2, <2>1, ConcatProperties
<1>3. CASE ~e.lower
  <2>1. s = <<x>> \o <<>>
    BY <1>3, Zenon DEF IfThen
  <2>2. s = <<x>>
    BY <1>1, <2>1, ConcatEmptySeq
  <2> QED BY <1>1, <1>3, <2>2
<1> QED BY <1>2, <1>3

\* A step of an entry is a step.
LEMMA StepIs ==
  ASSUME NEW name \in StepNames, NEW p \in Paths, NEW e \in Entries
  PROVE  \E x \in Steps : x = Do(name, p, e) /\ x.do = name /\ x.path = p /\ x.entry = e
<1>1. PICK x : x = Do(name, p, e)
  OBVIOUS
<1>2. x \in Steps /\ x.do = name /\ x.path = p /\ x.entry = e
  BY <1>1 DEF Do, Steps
<1> QED BY <1>1, <1>2

\* Clearing a marker is a plan.
LEMMA ClearedIsSeq ==
  ASSUME NEW p \in Paths, NEW e \in Entries
  PROVE  Cleared(p, e) \in Seq(Steps)
<1>1. PICK x \in Steps : x = Do("clear", p, e)
  BY StepIs DEF StepNames
<1> QED BY <1>1 DEF Cleared, IfThen

\* A copy-up is a plan.
LEMMA CopiedUpIsSeq ==
  ASSUME NEW p \in Paths
  PROVE  CopiedUp(p) \in Seq(Steps)
<1>1. CopyUp[p] \in Seq(Steps)
  BY CopyUpCopies DEF CopiedBelow, Copies
<1> QED BY <1>1 DEF CopiedUp, IfThen

\* After a create the view has the new file, and nothing else is new.
LEMMA CreateFulfils ==
  ASSUME OverlayIInv, NEW p \in Paths, HasParent(p), View[p] = "absent",
         NEW v, NEW ns, Leads(upper, marks, CreatePlan(p), v, ns)
  PROVE  ViewOf(v, ns) = [View EXCEPT ![p] = Empty]
<1>0. upper \in Trees /\ marks \in SUBSET Paths /\ Tree(upper, marks)
  BY TypesAreTrees DEF OverlayIInv
<1>1. PICK e \in Entries : e = Entry("create", p, p, FALSE) /\ e.kind = "create" /\ e.path = p
  <2>1. PICK t \in BOOLEAN : t = FALSE
    OBVIOUS
  <2>2. PICK f \in Entries : f = Entry("create", p, p, t) /\ f.kind = "create" /\ f.path = p
    BY RecordIs DEF Kinds
  <2> QED BY <2>1, <2>2
<1>2. PICK a \in Seq(Steps) : a = Cleared(p, e)
  BY ClearedIsSeq
<1>3. PICK x \in Steps : x = Do("parents", p, e) /\ x.do = "parents" /\ x.path = p
  BY StepIs DEF StepNames
<1>4. PICK y \in Steps : y = Do("put", p, e) /\ y.do = "put" /\ y.path = p /\ y.entry = e
  BY StepIs DEF StepNames
<1>5. <<x>> \in Seq(Steps) /\ <<y>> \in Seq(Steps)
  OBVIOUS
<1>6. PICK c \in Seq(Steps) : c = a \o <<x>>
  BY <1>5, ConcatProperties
<1>7. CreatePlan(p) = c \o Journaled(e, <<y>>)
  BY <1>1, <1>2, <1>3, <1>4, <1>6, Zenon DEF CreatePlan
<1>8. PICK w, os : Leads(upper, marks, c, w, os) /\ Leads(w, os, <<y>>, v, ns)
  BY <1>5, <1>7, LeadsRecorded
<1>9. PICK t, ts : Leads(upper, marks, a, t, ts) /\ Leads(t, ts, <<x>>, w, os)
  BY <1>5, <1>6, <1>8, LeadsOn
<1>10. t = upper /\ ts = marks \ {p}
  BY <1>2, <1>9, LeadsCleared
<1>11. w = Opened(upper, p) /\ os = marks \ {p}
  <2>1. Takes(t, ts, x, w, os)
    BY <1>9, LeadsOne
  <2> QED BY <2>1, <1>3, <1>10 DEF Takes
<1>12. v = [w EXCEPT ![p] = Empty] /\ ns = marks \ {p}
  <2>1. Takes(w, os, y, v, ns)
    BY <1>8, LeadsOne
  <2> QED BY <2>1, <1>1, <1>4, <1>11 DEF Takes
<1>13. /\ \A q \in Above[p] : Node(upper, marks, q) = "dir" /\ q \notin marks
       /\ View[p] = Node(upper, marks, p)
  BY AboveIsSeen
<1>14. Alike(upper, marks, v, ns, From[p])
  <2>1. ASSUME NEW q \in Paths \ From[p]
        PROVE  /\ v[q] = upper[q] \/ {upper[q], v[q]} \subseteq {"absent", Lower[q]}
               /\ q \in ns <=> q \in marks
    <3>1. q # p
      BY <2>1, Subsets
    <3>2. v[q] = w[q]
      BY <1>11, <1>12, <3>1 DEF Opened
    <3>3. q \in Above[p] => upper[q] = "dir" \/ Lower[q] = "dir"
      BY SeenAbove
    <3> QED BY <1>11, <1>12, <3>1, <3>2, <3>3 DEF Opened
  <2> QED BY <2>1 DEF Alike
<1>15. Node(v, ns, p) = Empty
  <2>1. ~Hidden(ns, p)
    BY <1>12, <1>13 DEF Hidden
  <2>2. v[p] = Empty /\ Empty # "absent"
    BY <1>11, <1>12, ConstantsAssumption DEF Opened, ConstantsAssumption
  <2> QED BY <2>1, <2>2 DEF Node
<1>16. \A q \in Below[p] : View[q] = "absent"
  <2>1. ASSUME NEW q \in Below[p] PROVE View[q] = "absent"
    <3>1. q \in Paths /\ p \in Above[q]
      BY Subsets, AboveIsOrder
    <3>2. Node(upper, marks, p) # "dir"
      BY <1>13
    <3> QED BY <3>1, <3>2 DEF View, ViewOf
  <2> QED BY <2>1
<1>17. Empty # "dir"
  BY ConstantsAssumption DEF ConstantsAssumption
<1> QED BY <1>13, <1>14, <1>15, <1>16, <1>17, ViewAtOne

\* After a mkdir the view has the new directory, and nothing in it.
LEMMA MkdirFulfils ==
  ASSUME OverlayIInv, NEW p \in Paths, HasParent(p), View[p] = "absent", Lower[p] # "dir",
         NEW v, NEW ns, Leads(upper, marks, MkdirPlan(p), v, ns)
  PROVE  ViewOf(v, ns) = [View EXCEPT ![p] = "dir"]
<1>0. upper \in Trees /\ marks \in SUBSET Paths /\ Tree(upper, marks)
  BY TypesAreTrees DEF OverlayIInv
<1>1. PICK e \in Entries : e = Entry("mkdir", p, p, FALSE) /\ e.kind = "mkdir" /\ e.path = p
  <2>1. PICK t \in BOOLEAN : t = FALSE
    OBVIOUS
  <2>2. PICK f \in Entries : f = Entry("mkdir", p, p, t) /\ f.kind = "mkdir" /\ f.path = p
    BY RecordIs DEF Kinds
  <2> QED BY <2>1, <2>2
<1>2. PICK a \in Seq(Steps) : a = Cleared(p, e)
  BY ClearedIsSeq
<1>3. PICK b : b = IfThen(Len(p) > 1, CopiedUp(Parent(p)))
  OBVIOUS
<1>4. PICK y \in Steps : y = Do("mkdir", p, e) /\ y.do = "mkdir" /\ y.path = p
  BY StepIs DEF StepNames
<1>5. <<y>> \in Seq(Steps)
  OBVIOUS
<1>20. Len(p) > 1 => /\ Parent(p) \in Paths /\ Parent(p) \in Above[p] /\ View[Parent(p)] # "absent"
                     /\ b = CopiedUp(Parent(p))
  BY <1>3, ParentIsAbove DEF HasParent, IfThen
<1>21. ~(Len(p) > 1) => b = <<>>
  BY <1>3 DEF IfThen
<1>22. b \in Seq(Steps)
  <2>1. CASE Len(p) > 1
    BY <2>1, <1>20, CopiedUpIsSeq
  <2>2. CASE ~(Len(p) > 1)
    BY <2>2, <1>21
  <2> QED BY <2>1, <2>2
<1>6. PICK c \in Seq(Steps) : c = a \o b
  BY <1>22, ConcatProperties
<1>7. MkdirPlan(p) = c \o Journaled(e, <<y>>)
  BY <1>1, <1>2, <1>3, <1>4, <1>6, Zenon DEF MkdirPlan
<1>8. PICK w, os : Leads(upper, marks, c, w, os) /\ Leads(w, os, <<y>>, v, ns)
  BY <1>5, <1>7, LeadsRecorded
<1>9. PICK t, ts : Leads(upper, marks, a, t, ts) /\ Leads(t, ts, b, w, os)
  BY <1>22, <1>6, <1>8, LeadsOn
<1>10. t = upper /\ ts = marks \ {p}
  BY <1>2, <1>9, LeadsCleared
<1>11. /\ os = marks \ {p} /\ Alike(upper, marks, w, marks, {})
       /\ w \in Trees /\ \A q \in Below[p] : w[q] \in {upper[q], Lower[q]}
       /\ upper[p] = "absent" \/ w = upper
  <2>1. CASE Len(p) > 1
    <3>1. PICK d \in Paths : d = Parent(p) /\ d \in Above[p] /\ View[d] # "absent" /\ b = CopiedUp(d)
      BY <2>1, <1>20
    <3>2. Leads(upper, ts, CopiedUp(d), w, os)
      BY <3>1, <1>9, <1>10
    <3>3. /\ os = ts
          /\ upper[d] # "absent" => w = upper
          /\ upper[d] = "absent" => /\ w = CopiedTree(upper, d)
                                    /\ \A q \in From[d] : upper[q] = "absent" /\ q \notin marks
          /\ Alike(upper, marks, w, marks, {})
      BY <3>1, <3>2, LeadsCopiedUp
    <3>4. CASE upper[d] # "absent"
      BY <3>3, <3>4, <1>0, <1>10
    <3>5. CASE upper[d] = "absent"
      <4>1. p \in From[d] /\ Below[p] \subseteq From[d]
        BY <3>1, AboveIsOrder, Subsets
      <4>2. w \in Trees
        BY <3>3, <3>5, <1>0, ConstantsAssumption DEF CopiedTree, Trees, Nodes, ConstantsAssumption
      <4>3. \A q \in Below[p] : q \in Paths
        BY Subsets
      <4> QED BY <3>3, <3>5, <4>1, <4>2, <4>3, <1>10 DEF CopiedTree
    <3> QED BY <3>4, <3>5
  <2>2. CASE ~(Len(p) > 1)
    <3>1. w = upper /\ os = marks \ {p}
      BY <2>2, <1>9, <1>10, <1>21, LeadsNone
    <3> QED BY <3>1, <1>0 DEF Alike
  <2> QED BY <2>1, <2>2
<1>12. w[p] = "absent" /\ v = [w EXCEPT ![p] = "dir"] /\ ns = marks \ {p}
  <2>1. Takes(w, os, y, v, ns)
    BY <1>8, LeadsOne
  <2> QED BY <2>1, <1>4, <1>11 DEF Takes
<1>13. /\ \A q \in Above[p] : Node(upper, marks, q) = "dir" /\ q \notin marks
       /\ View[p] = Node(upper, marks, p)
  BY AboveIsSeen
<1>14. Alike(upper, marks, v, ns, From[p])
  <2>1. ASSUME NEW q \in Paths \ From[p]
        PROVE  /\ v[q] = upper[q] \/ {upper[q], v[q]} \subseteq {"absent", Lower[q]}
               /\ q \in ns <=> q \in marks
    <3>1. q # p
      BY <2>1, Subsets
    <3>2. v[q] = w[q]
      BY <1>11, <1>12, <3>1 DEF Trees
    <3> QED BY <1>11, <1>12, <3>1, <3>2 DEF Alike
  <2> QED BY <2>1 DEF Alike
<1>15. Node(v, ns, p) = "dir"
  <2>1. ~Hidden(ns, p)
    BY <1>12, <1>13 DEF Hidden
  <2>2. v[p] = "dir"
    BY <1>11, <1>12 DEF Trees
  <2> QED BY <2>1, <2>2 DEF Node
<1>16. \A q \in Below[p] : View[q] = "absent"
  <2>1. ASSUME NEW q \in Below[p] PROVE View[q] = "absent"
    <3>1. q \in Paths /\ p \in Above[q]
      BY Subsets, AboveIsOrder
    <3>2. Node(upper, marks, p) # "dir"
      BY <1>13
    <3> QED BY <3>1, <3>2 DEF View, ViewOf
  <2> QED BY <2>1
<1>17. \A q \in Below[p] : Node(v, ns, q) = "absent"
  <2>1. ASSUME NEW q \in Below[p] PROVE Node(v, ns, q) = "absent"
    <3>1. q \in Paths /\ p \in Above[q] /\ q # p
      BY Subsets, AboveIsOrder
    <3>2. Lower[q] = "absent"
      BY <3>1, ConstantsAssumption DEF ConstantsAssumption
    <3>3. upper[q] = "absent"
      BY <1>0, <1>11, <1>12, NothingBelow
    <3>4. v[q] = "absent"
      BY <1>11, <1>12, <3>1, <3>2, <3>3 DEF Trees
    <3> QED BY <3>2, <3>4 DEF Node
  <2> QED BY <2>1
<1> QED BY <1>13, <1>14, <1>15, <1>16, <1>17, ViewAtOne

\* The removal of a node of the upper tree, and of the lower one with it.
LEMMA LeadsRemoved ==
  ASSUME NEW p \in Paths, NEW kind \in Kinds, upper[p] # "absent",
         NEW v, NEW ns, Leads(upper, marks, RemovePlan(kind, p), v, ns)
  PROVE  /\ Lower[p] # "absent" => v = Opened([upper EXCEPT ![p] = "absent"], p) /\ ns = marks \union {p}
         /\ Lower[p] = "absent" => v = [upper EXCEPT ![p] = "absent"] /\ ns = marks
<1>1. PICK b \in BOOLEAN : b = (Lower[p] # "absent")
  OBVIOUS
<1>2. PICK e \in Entries : /\ e = Entry(kind, p, p, Lower[p] # "absent") /\ e.path = p
                           /\ e.lower = b
  <2>2. PICK f \in Entries : f = Entry(kind, p, p, b) /\ f.path = p /\ f.lower = b
    BY RecordIs
  <2>3. Entry(kind, p, p, b) = Entry(kind, p, p, Lower[p] # "absent")
    BY <1>1, Zenon
  <2> QED BY <2>2, <2>3, Zenon
<1>3. PICK x \in Steps : x = Do("remove", p, e) /\ x.do = "remove" /\ x.path = p
  BY StepIs DEF StepNames
<1>4. PICK y \in Steps : y = Do("mark", p, e) /\ y.do = "mark" /\ y.path = p
  BY StepIs DEF StepNames
<1>5. PICK s : s = <<x>> \o IfThen(e.lower, <<y>>)
  OBVIOUS
<1>6. RemovePlan(kind, p) = Journaled(e, s)
  BY <1>2, <1>3, <1>4, <1>5, Zenon DEF RemovePlan
<1>7. /\ s \in Seq(Steps)
      /\ e.lower => s = <<x>> \o <<y>>
      /\ ~e.lower => s = <<x>>
  BY <1>5, MarkedIs
<1>8. /\ Lower[p] # "absent" => s = <<x>> \o <<y>>
      /\ Lower[p] = "absent" => s = <<x>>
  BY <1>1, <1>2, <1>7
<1>9. Leads(upper, marks, s, v, ns)
  BY <1>6, <1>7, LeadsJournaled
<1>10. \A w, os : Takes(upper, marks, x, w, os) => w = [upper EXCEPT ![p] = "absent"] /\ os = marks
  BY <1>3 DEF Takes
<1>11. ASSUME Lower[p] # "absent"
       PROVE  v = Opened([upper EXCEPT ![p] = "absent"], p) /\ ns = marks \union {p}
  <2>1. PICK w, os : Takes(upper, marks, x, w, os) /\ Takes(w, os, y, v, ns)
    BY <1>8, <1>9, <1>11, LeadsTwo
  <2> QED BY <2>1, <1>4, <1>10 DEF Takes
<1>12. ASSUME Lower[p] = "absent" PROVE v = [upper EXCEPT ![p] = "absent"] /\ ns = marks
  <2>1. Takes(upper, marks, x, v, ns)
    BY <1>8, <1>9, <1>12, LeadsOne
  <2> QED BY <2>1, <1>10
<1> QED BY <1>11, <1>12

\* After a removal the name is gone, and nothing else.
LEMMA RemoveFulfils ==
  ASSUME OverlayIInv, NEW p \in Paths, View[p] # "absent", \A q \in Below[p] : View[q] = "absent",
         NEW kind \in {"unlink", "rmdir"},
         NEW v, NEW ns, Leads(upper, marks, RemovePlan(kind, p), v, ns)
  PROVE  ViewOf(v, ns) = [View EXCEPT ![p] = "absent"]
<1>0. upper \in Trees /\ marks \in SUBSET Paths /\ Tree(upper, marks)
  BY TypesAreTrees DEF OverlayIInv
<1>1. \A q \in Above[p] : Node(upper, marks, q) = "dir"
  BY AboveIsSeen
<1>2. \A q \in Above[p] : upper[q] = "dir" \/ Lower[q] = "dir"
  BY SeenAbove
<1>3. /\ Alike(upper, marks, v, ns, From[p])
      /\ p \in ns \/ (v[p] = "absent" /\ Lower[p] = "absent")
  <2>1. CASE upper[p] # "absent"
    <3>1. kind \in Kinds
      BY DEF Kinds
    <3>2. /\ Lower[p] # "absent" => v = Opened([upper EXCEPT ![p] = "absent"], p) /\ ns = marks \union {p}
          /\ Lower[p] = "absent" => v = [upper EXCEPT ![p] = "absent"] /\ ns = marks
      BY <2>1, <3>1, LeadsRemoved
    <3>3. \A q \in Paths \ From[p] : [upper EXCEPT ![p] = "absent"][q] = upper[q] /\ q # p
      BY <1>0, Subsets DEF Trees
    <3>4. CASE Lower[p] # "absent"
      <4>1. Alike(upper, marks, v, ns, From[p])
        BY <3>2, <3>3, <3>4, <1>2 DEF Alike, Opened
      <4>2. p \in ns
        BY <3>2, <3>4
      <4> QED BY <4>1, <4>2
    <3>5. CASE Lower[p] = "absent"
      <4>1. v[p] = "absent"
        BY <1>0, <3>2, <3>5 DEF Trees
      <4> QED BY <3>2, <3>3, <3>5, <4>1 DEF Alike
    <3> QED BY <3>4, <3>5
  <2>2. CASE upper[p] = "absent"
    <3>1. PICK e \in Entries : e = Entry("whiteout", p, p, TRUE) /\ e.path = p
      <4>1. PICK t \in BOOLEAN : t = TRUE
        OBVIOUS
      <4>2. PICK f \in Entries : f = Entry("whiteout", p, p, t) /\ f.path = p
        BY RecordIs DEF Kinds
      <4> QED BY <4>1, <4>2
    <3>2. PICK x \in Steps : x = Do("parents", p, e) /\ x.do = "parents" /\ x.path = p
      BY StepIs DEF StepNames
    <3>3. PICK y \in Steps : y = Do("mark", p, e) /\ y.do = "mark" /\ y.path = p
      BY StepIs DEF StepNames
    <3>4. <<x>> \in Seq(Steps) /\ <<y>> \in Seq(Steps)
      OBVIOUS
    <3>5. RemovePlan(kind, p) = <<x>> \o Journaled(e, <<y>>)
      BY <2>2, <3>1, <3>2, <3>3, Zenon DEF RemovePlan
    <3>6. PICK w, os : Leads(upper, marks, <<x>>, w, os) /\ Leads(w, os, <<y>>, v, ns)
      BY <3>4, <3>5, LeadsRecorded
    <3>7. Takes(upper, marks, x, w, os) /\ Takes(w, os, y, v, ns)
      BY <3>6, LeadsOne
    <3>8. w = Opened(upper, p) /\ os = marks
      BY <3>2, <3>7 DEF Takes
    <3>9. v = Opened(w, p) /\ ns = marks \union {p}
      BY <3>3, <3>7, <3>8 DEF Takes
    <3>10. \A q \in Paths \ From[p] : q # p
      BY Subsets
    <3>11. Alike(upper, marks, v, ns, From[p])
      BY <3>8, <3>9, <3>10, <1>2 DEF Alike, Opened
    <3>12. p \in ns
      BY <3>9
    <3> QED BY <3>11, <3>12
  <2> QED BY <2>1, <2>2
<1>4. Node(v, ns, p) = "absent"
  BY <1>3 DEF Node, Hidden
<1> QED BY <1>1, <1>3, <1>4, ViewAtOne

-----------------------------------------------------------------------------
(* Overlay: a rename                                                       *)

\* What is rebased stands below the other name, and can be rebased again to what it was.
LEMMA RebaseInverse ==
  ASSUME NEW p \in Paths, NEW dest \in Paths, NEW q \in From[dest], NEW m \in Paths, m = Rebase(q, dest, p)
  PROVE  m \in From[p] /\ Rebase(m, p, dest) = q /\ (m = p <=> q = dest)
<1>1. q \in Paths /\ Len(dest) <= Len(q) /\ \A i \in 1 .. Len(dest) : dest[i] = q[i]
  BY Subsets, Reading, PrefixByPlace
<1>2. /\ Len(p) \in Nat /\ Len(q) \in Nat /\ Len(dest) \in Nat /\ Len(m) \in Nat
      /\ q \in Seq(Components)
  BY <1>1, PathIsSeq
<1>3. Rebased(p, dest, q, m)
  BY RebaseByPlace
<1>4. m \in From[p]
  BY <1>3, Reading, PrefixByPlace DEF Rebased
<1>5. PICK k : k = Rebase(m, p, dest)
  OBVIOUS
<1>6. Rebased(dest, p, m, k)
  BY <1>4, <1>5, RebaseByPlace
<1>7. k \in Seq(Components) /\ Len(k) = Len(q)
  BY <1>2, <1>3, <1>6 DEF Rebased
<1>8. ASSUME NEW i \in 1 .. Len(q) PROVE k[i] = q[i]
  <2>1. CASE i <= Len(dest)
    <3>1. i \in 1 .. Len(dest)
      BY <2>1, <1>2
    <3> QED BY <3>1, <1>1, <1>6 DEF Rebased
  <2>2. CASE ~(i <= Len(dest))
    <3>1. PICK j : j = Len(p) + (i - Len(dest))
      OBVIOUS
    <3>2. i \in Len(dest) + 1 .. Len(k) /\ j \in Len(p) + 1 .. Len(m) /\ Len(dest) + (j - Len(p)) = i
      BY <2>2, <3>1, <1>2, <1>3, <1>7 DEF Rebased
    <3>3. k[i] = m[j]
      BY <3>1, <3>2, <1>6 DEF Rebased
    <3>4. m[j] = q[Len(dest) + (j - Len(p))]
      BY <3>2, <1>3 DEF Rebased
    <3> QED BY <3>2, <3>3, <3>4
  <2> QED BY <2>1, <2>2
<1>9. k = q
  BY <1>2, <1>7, <1>8, SeqEqual
<1>10. m = p <=> q = dest
  <2>1. ASSUME m = p PROVE q = dest
    <3>1. Len(q) = Len(dest)
      BY <2>1, <1>2, <1>3 DEF Rebased
    <3> QED BY <3>1, <1>1, SamePath
  <2>2. ASSUME q = dest PROVE m = p
    <3>1. Len(m) = Len(p)
      BY <2>2, <1>2, <1>3 DEF Rebased
    <3>2. \A i \in 1 .. Len(m) : m[i] = p[i]
      BY <3>1, <1>3 DEF Rebased
    <3> QED BY <3>1, <3>2, SamePath
  <2> QED BY <2>1, <2>2
<1> QED BY <1>4, <1>5, <1>9, <1>10

\* A name rebased on the other is the other.
LEMMA RebaseItself ==
  ASSUME NEW p \in Paths, NEW dest \in Paths
  PROVE  Rebase(dest, dest, p) = p
<1>1. dest \in From[dest]
  BY Subsets
<1>2. PICK m : m = Rebase(dest, dest, p)
  OBVIOUS
<1>3. Rebased(p, dest, dest, m)
  BY <1>1, <1>2, RebaseByPlace
<1>4. Len(p) \in Nat /\ Len(dest) \in Nat /\ p \in Seq(Components)
  BY PathIsSeq
<1>5. m \in Seq(Components) /\ Len(m) = Len(p) /\ \A i \in 1 .. Len(m) : m[i] = p[i]
  BY <1>3, <1>4 DEF Rebased
<1>6. m = p
  BY <1>4, <1>5, SeqEqual
<1> QED BY <1>2, <1>6

\* Where each name is found as the one it is rebased to, it is seen as that one.
LEMMA MovedIsSeen ==
  ASSUME NEW p \in Paths, NEW dest \in Paths, NEW u, NEW ms, NEW v, NEW ns,
         \A q \in Above[p] : Node(u, ms, q) = "dir",
         \A q \in Above[dest] : Node(v, ns, q) = "dir",
         \A q \in From[dest] : Node(v, ns, q) = IF Rebase(q, dest, p) \in Paths
                                                THEN Node(u, ms, Rebase(q, dest, p)) ELSE "absent"
  PROVE  \A q \in From[dest] : ViewOf(v, ns)[q] = IF Rebase(q, dest, p) \in Paths
                                                  THEN ViewOf(u, ms)[Rebase(q, dest, p)] ELSE "absent"
<1> SUFFICES ASSUME NEW q \in From[dest]
             PROVE  ViewOf(v, ns)[q] = IF Rebase(q, dest, p) \in Paths
                                       THEN ViewOf(u, ms)[Rebase(q, dest, p)] ELSE "absent"
  OBVIOUS
<1>0. q \in Paths
  BY Subsets
<1>1. CASE Rebase(q, dest, p) \notin Paths
  BY <1>0, <1>1 DEF ViewOf
<1>2. CASE Rebase(q, dest, p) \in Paths
  <2>1. PICK m \in Paths : m = Rebase(q, dest, p)
    BY <1>2
  <2>2. m \in From[p] /\ Rebase(m, p, dest) = q
    BY <2>1, RebaseInverse
  <2>3. Node(v, ns, q) = Node(u, ms, m)
    BY <2>1
  <2>4. ASSUME \A r \in Above[m] : Node(u, ms, r) = "dir", NEW r \in Above[q]
        PROVE  Node(v, ns, r) = "dir"
    <3>1. r \in Paths /\ (r \in Above[dest] \/ r \in From[dest])
      BY <2>4, AboveFrom
    <3>2. CASE r \in From[dest]
      <4>1. PICK k \in Paths : k = Rebase(r, dest, p) /\ k \in Above[m]
        BY <2>1, <2>4, <3>2, RebaseKeepsOrder
      <4> QED BY <4>1, <3>2, <2>4
    <3> QED BY <3>1, <3>2
  <2>5. ASSUME \A r \in Above[q] : Node(v, ns, r) = "dir", NEW k \in Above[m]
        PROVE  Node(u, ms, k) = "dir"
    <3>1. k \in Paths /\ (k \in Above[p] \/ k \in From[p])
      BY <2>2, <2>5, AboveFrom
    <3>2. CASE k \in From[p]
      <4>1. PICK r \in Paths : r = Rebase(k, p, dest) /\ r \in Above[q]
        BY <2>2, <2>5, <3>2, <1>0, RebaseKeepsOrder
      <4>2. r \in From[dest] /\ Rebase(r, dest, p) = k
        BY <4>1, <3>2, RebaseInverse
      <4> QED BY <4>1, <4>2, <3>1, <2>5
    <3> QED BY <3>1, <3>2
  <2>6. (\A r \in Above[q] : Node(v, ns, r) = "dir") <=> \A r \in Above[m] : Node(u, ms, r) = "dir"
    BY <2>4, <2>5
  <2> QED BY <1>0, <2>1, <2>3, <2>6 DEF ViewOf
<1> QED BY <1>1, <1>2

\* The source has been copied up in c, moved and, if it was of the lower tree, marked.
MovesFrom(p, dest, c, v, ns) ==
  /\ Leads(upper, marks \ {dest}, CopiedUp(p), c, marks \ {dest})
  /\ Opened(c, dest)[dest] = "dir"
     => \A q \in Below[dest] : Opened(c, dest)[q] = "absent" /\ q \notin marks \ {dest}
  /\ Lower[p] # "absent" => /\ v = Opened(MovedTree(Opened(c, dest), p, dest), p)
                            /\ ns = MovedMarks(marks \ {dest}, p, dest) \union {p}
  /\ Lower[p] = "absent" => /\ v = MovedTree(Opened(c, dest), p, dest)
                            /\ ns = MovedMarks(marks \ {dest}, p, dest)

\* A rename's plan leads to such a move.
LEMMA LeadsRenamed ==
  ASSUME OverlayIInv, NEW p \in Paths, NEW dest \in Paths, View[p] # "absent",
         NEW v, NEW ns, Leads(upper, marks, RenamePlan(p, dest), v, ns)
  PROVE  \E c : MovesFrom(p, dest, c, v, ns)
<1>1. PICK b \in BOOLEAN : b = (Lower[p] # "absent")
  OBVIOUS
<1>2. PICK e \in Entries : /\ e = Entry("rename", p, dest, Lower[p] # "absent") /\ e.path = p
                           /\ e.lower = b /\ e.dest = dest
  <2>2. PICK f \in Entries : f = Entry("rename", p, dest, b) /\ f.path = p /\ f.lower = b /\ f.dest = dest
    BY RecordIs DEF Kinds
  <2>3. Entry("rename", p, dest, b) = Entry("rename", p, dest, Lower[p] # "absent")
    BY <1>1, Zenon
  <2> QED BY <2>2, <2>3, Zenon
<1>3. PICK a \in Seq(Steps) : a = Cleared(dest, e)
  BY ClearedIsSeq
<1>4. PICK d \in Seq(Steps) : d = CopiedUp(p)
  BY CopiedUpIsSeq
<1>5. PICK x \in Steps : x = Do("parents", dest, e) /\ x.do = "parents" /\ x.path = dest
  BY StepIs DEF StepNames
<1>6. PICK y \in Steps : y = Do("move", p, e) /\ y.do = "move" /\ y.path = p /\ y.entry = e
  BY StepIs DEF StepNames
<1>7. PICK z \in Steps : z = Do("mark", p, e) /\ z.do = "mark" /\ z.path = p
  BY StepIs DEF StepNames
<1>8. PICK s : s = <<y>> \o IfThen(e.lower, <<z>>)
  OBVIOUS
<1>9. /\ s \in Seq(Steps)
      /\ e.lower => s = <<y>> \o <<z>>
      /\ ~e.lower => s = <<y>>
  BY <1>8, MarkedIs
<1>10. PICK h \in Seq(Steps) : h = a \o d
  BY <1>3, <1>4, ConcatProperties
<1>11. <<x>> \in Seq(Steps)
  OBVIOUS
<1>12. PICK k \in Seq(Steps) : k = h \o <<x>>
  BY <1>10, <1>11, ConcatProperties
<1>13. RenamePlan(p, dest) = k \o Journaled(e, s)
  BY <1>2, <1>3, <1>4, <1>5, <1>6, <1>7, <1>8, <1>10, <1>12, Zenon DEF RenamePlan
<1>14. PICK w, os : Leads(upper, marks, k, w, os) /\ Leads(w, os, s, v, ns)
  BY <1>9, <1>13, LeadsRecorded
<1>15. PICK t, ts : Leads(upper, marks, h, t, ts) /\ Leads(t, ts, <<x>>, w, os)
  BY <1>11, <1>12, <1>14, LeadsOn
<1>16. PICK r, rs : Leads(upper, marks, a, r, rs) /\ Leads(r, rs, d, t, ts)
  BY <1>10, <1>15, LeadsOn
<1>17. r = upper /\ rs = marks \ {dest}
  BY <1>3, <1>16, LeadsCleared
<1>18. Leads(upper, marks \ {dest}, CopiedUp(p), t, ts)
  BY <1>4, <1>16, <1>17
<1>19. ts = marks \ {dest}
  BY <1>18, LeadsCopiedUp
<1>20. w = Opened(t, dest) /\ os = marks \ {dest}
  <2>1. Takes(t, ts, x, w, os)
    BY <1>15, LeadsOne
  <2> QED BY <2>1, <1>5, <1>19 DEF Takes
<1>21. \A o, ps : Takes(w, os, y, o, ps)
         => /\ o = MovedTree(w, p, dest) /\ ps = MovedMarks(os, p, dest)
            /\ w[dest] = "dir" => \A q \in Below[dest] : w[q] = "absent" /\ q \notin os
  BY <1>2, <1>6 DEF Takes
<1>22. CASE Lower[p] # "absent"
  <2>1. s = <<y>> \o <<z>>
    BY <1>1, <1>2, <1>9, <1>22
  <2>2. PICK o, ps : Takes(w, os, y, o, ps) /\ Takes(o, ps, z, v, ns)
    BY <1>14, <2>1, LeadsTwo
  <2>3. v = Opened(o, p) /\ ns = ps \union {p}
    BY <1>7, <2>2 DEF Takes
  <2>4. MovesFrom(p, dest, t, v, ns)
    BY <1>18, <1>19, <1>20, <1>21, <1>22, <2>2, <2>3 DEF MovesFrom
  <2> QED BY <2>4
<1>23. CASE Lower[p] = "absent"
  <2>1. s = <<y>>
    BY <1>1, <1>2, <1>9, <1>23
  <2>2. Takes(w, os, y, v, ns)
    BY <1>14, <2>1, LeadsOne
  <2>3. MovesFrom(p, dest, t, v, ns)
    BY <1>18, <1>19, <1>20, <1>21, <1>23, <2>2 DEF MovesFrom
  <2> QED BY <2>3
<1> QED BY <1>22, <1>23

\* Names from one of two that are apart are neither from nor above the other.
LEMMA FromApart ==
  ASSUME NEW p \in Paths, NEW dest \in Paths, dest \notin From[p], p \notin From[dest],
         NEW q \in From[dest]
  PROVE  q \in Paths /\ q \notin From[p] /\ q \notin Above[p] /\ q # p
<1>1. q \in Paths
  BY Subsets
<1>2. q \notin From[p]
  BY <1>1, AboveIsLinear
<1>3. q \notin Above[p]
  BY ApartAbove
<1> QED BY <1>1, <1>2, <1>3, Subsets

\* A move whose source and destination are apart, of a path that is seen.
Moving(p, dest, c, v, ns) ==
  /\ dest \notin From[p] /\ p \notin From[dest]
  /\ View[p] # "absent" /\ HasParent(dest)
  /\ MovesFrom(p, dest, c, v, ns)

\* Before it is moved, the source is there, and the destination as it was.
LEMMA CopiedToMove ==
  ASSUME OverlayIInv, NEW p \in Paths, NEW dest \in Paths, NEW c, NEW v, NEW ns, Moving(p, dest, c, v, ns)
  PROVE  /\ Alike(upper, marks, c, marks, {})
         /\ c[p] = View[p] /\ c[p] # "absent"
         /\ upper[p] # "absent" => c = upper
         /\ upper[p] = "absent" => /\ c = CopiedTree(upper, p)
                                   /\ \A q \in From[p] : upper[q] = "absent" /\ q \notin marks
         /\ \A q \in From[p] : Opened(c, dest)[q] = c[q]
         /\ \A q \in From[dest] : Opened(c, dest)[q] = upper[q]
         /\ \A q \in Below[dest] : q \notin marks
<1>0. upper \in Trees /\ marks \in SUBSET Paths /\ Tree(upper, marks)
  BY TypesAreTrees DEF OverlayIInv
<1>1. /\ dest \notin From[p] /\ p \notin From[dest] /\ View[p] # "absent"
      /\ Leads(upper, marks \ {dest}, CopiedUp(p), c, marks \ {dest})
      /\ Opened(c, dest)[dest] = "dir" => \A q \in Below[dest] : q \notin marks \ {dest}
  BY DEF Moving, MovesFrom
<1>2. /\ c[p] = View[p]
      /\ upper[p] # "absent" => c = upper
      /\ upper[p] = "absent" => /\ c = CopiedTree(upper, p)
                                /\ \A q \in From[p] : upper[q] = "absent" /\ q \notin marks
      /\ Alike(upper, marks, c, marks, {})
  BY <1>1, LeadsCopiedUp
<1>3. \A q \in From[p] : Opened(c, dest)[q] = c[q]
  <2>1. \A q \in From[p] : q \in Paths /\ q \notin Above[dest]
    BY <1>1, FromApart
  <2> QED BY <2>1 DEF Opened
<1>4. \A q \in From[dest] : Opened(c, dest)[q] = upper[q]
  <2>1. \A q \in From[dest] : q \in Paths /\ q \notin Above[p] /\ q \notin From[p]
    BY <1>1, FromApart
  <2>2. \A q \in From[dest] : q \notin Above[dest]
    BY Subsets, AboveIsOrder, PathIsSeq
  <2>3. \A q \in From[dest] : c[q] = upper[q]
    BY <1>2, <2>1 DEF CopiedTree
  <2> QED BY <2>1, <2>2, <2>3 DEF Opened
<1>5. \A q \in Below[dest] : q \notin marks
  <2>1. CASE upper[dest] = "dir"
    <3>1. dest \in From[dest] /\ dest \notin Below[dest]
      BY Subsets
    <3> QED BY <1>1, <1>4, <2>1, <3>1
  <2>2. CASE upper[dest] # "dir"
    BY <1>0, <2>2, NothingBelow
  <2> QED BY <2>1, <2>2
<1> QED BY <1>1, <1>2, <1>3, <1>4, <1>5

\* A rename shows nothing new outside of its two names.
LEMMA MovingIsNear ==
  ASSUME OverlayIInv, NEW p \in Paths, NEW dest \in Paths, NEW c, NEW v, NEW ns, Moving(p, dest, c, v, ns)
  PROVE  Alike(upper, marks, v, ns, From[p] \union From[dest])
<1>1. Alike(upper, marks, c, marks, {})
  BY CopiedToMove
<1>2. /\ \A q \in Above[p] : upper[q] = "dir" \/ Lower[q] = "dir"
      /\ \A q \in Above[dest] : upper[q] = "dir" \/ Lower[q] = "dir"
  BY SeenAbove DEF Moving, MovesFrom
<1>3. ASSUME NEW q \in Paths \ (From[p] \union From[dest])
      PROVE  /\ v[q] = upper[q] \/ {upper[q], v[q]} \subseteq {"absent", Lower[q]}
             /\ q \in ns <=> q \in marks
  <2>1. PICK w : w = Opened(c, dest)
    OBVIOUS
  <2>2. PICK t : t = MovedTree(w, p, dest)
    OBVIOUS
  <2>3. q \in Paths /\ q \notin From[p] /\ q \notin From[dest] /\ q # p /\ q # dest
        /\ q \notin Below[p] /\ q \notin Below[dest]
    BY <1>3, Subsets
  <2>4. c[q] = upper[q] \/ {upper[q], c[q]} \subseteq {"absent", Lower[q]}
    BY <1>1, <2>3 DEF Alike
  <2>5. w[q] = IF q \in Above[dest] /\ c[q] = "absent" THEN "dir" ELSE c[q]
    BY <2>1, <2>3 DEF Opened
  <2>6. t[q] = w[q]
    BY <2>2, <2>3 DEF MovedTree
  <2>7. v[q] = t[q] \/ (q \in Above[p] /\ t[q] = "absent" /\ v[q] = "dir")
    BY <2>1, <2>2, <2>3 DEF Moving, MovesFrom, Opened
  <2>8. v[q] = upper[q] \/ {upper[q], v[q]} \subseteq {"absent", Lower[q]}
    BY <1>2, <2>4, <2>5, <2>6, <2>7
  <2>9. q \in MovedMarks(marks \ {dest}, p, dest) <=> q \in marks
    BY <2>3 DEF MovedMarks
  <2>10. q \in ns <=> q \in marks
    BY <2>3, <2>9 DEF Moving, MovesFrom
  <2> QED BY <2>8, <2>10
<1> QED BY <1>3 DEF Alike

\* What is at the destination, and which markers, when the rename is done.
LEMMA MovingArrives ==
  ASSUME OverlayIInv, NEW p \in Paths, NEW dest \in Paths, NEW c, NEW v, NEW ns, Moving(p, dest, c, v, ns),
         NEW q \in From[dest]
  PROVE  /\ v[q] = IF Rebase(q, dest, p) \in Paths THEN c[Rebase(q, dest, p)] ELSE "absent"
         /\ q \in ns <=> q # dest /\ Rebase(q, dest, p) \in marks
<1>0. marks \in SUBSET Paths
  BY TypesAreTrees DEF OverlayIInv
<1>1. dest \notin From[p] /\ p \notin From[dest]
  BY DEF Moving, MovesFrom
<1>2. q \in Paths /\ q \notin From[p] /\ q \notin Above[p] /\ q # p
  BY <1>1, FromApart
<1>3. q \in Below[dest] <=> q # dest
  BY Subsets
<1>4. Rebase(q, dest, p) \in Paths => Rebase(q, dest, p) \in From[p]
  BY RebaseInverse
<1>5. PICK w : w = Opened(c, dest)
  OBVIOUS
<1>6. PICK t : t = MovedTree(w, p, dest)
  OBVIOUS
<1>7. t[q] = IF Rebase(q, dest, p) \in Paths THEN w[Rebase(q, dest, p)] ELSE "absent"
  BY <1>2, <1>6 DEF MovedTree
<1>8. \A r \in From[p] : w[r] = c[r]
  BY <1>5, CopiedToMove
<1>9. v[q] = t[q]
  BY <1>2, <1>5, <1>6 DEF Moving, MovesFrom, Opened
<1>10. v[q] = IF Rebase(q, dest, p) \in Paths THEN c[Rebase(q, dest, p)] ELSE "absent"
  BY <1>4, <1>7, <1>8, <1>9
<1>11. q \in MovedMarks(marks \ {dest}, p, dest) <=> q # dest /\ Rebase(q, dest, p) \in marks
  <2>1. \A r \in Below[dest] : r \notin marks
    BY CopiedToMove
  <2>2. Rebase(q, dest, p) \in marks => Rebase(q, dest, p) # dest
    BY <1>0, <1>1, <1>4
  <2> QED BY <1>3, <2>1, <2>2 DEF MovedMarks
<1>12. q \in ns <=> q # dest /\ Rebase(q, dest, p) \in marks
  BY <1>2, <1>11 DEF Moving, MovesFrom
<1> QED BY <1>10, <1>12

\* The source is gone when the rename is done.
LEMMA MovingLeaves ==
  ASSUME OverlayIInv, NEW p \in Paths, NEW dest \in Paths, NEW c, NEW v, NEW ns, Moving(p, dest, c, v, ns)
  PROVE  Node(v, ns, p) = "absent"
<1>1. p \in From[p] /\ p \notin From[dest] /\ p \notin Above[p]
  BY Subsets DEF Moving, MovesFrom
<1>2. CASE Lower[p] # "absent"
  <2>1. p \in ns
    BY <1>2 DEF Moving, MovesFrom
  <2> QED BY <2>1 DEF Node, Hidden
<1>3. CASE Lower[p] = "absent"
  <2>1. v[p] = "absent"
    BY <1>1, <1>3 DEF Moving, MovesFrom, MovedTree
  <2> QED BY <1>3, <2>1 DEF Node
<1> QED BY <1>2, <1>3

\* All above either name is found as before the rename, and has no marker.
LEMMA MovingAbove ==
  ASSUME OverlayIInv, NEW p \in Paths, NEW dest \in Paths, NEW c, NEW v, NEW ns, Moving(p, dest, c, v, ns)
  PROVE  /\ \A q \in Paths \ (From[p] \union From[dest]) :
              /\ Node(v, ns, q) = Node(upper, marks, q)
              /\ ViewOf(v, ns)[q] = View[q]
         /\ \A q \in Above[p] : Node(upper, marks, q) = "dir" /\ Node(v, ns, q) = "dir" /\ q \notin marks
         /\ \A q \in Above[dest] : Node(v, ns, q) = "dir" /\ q \notin ns
         /\ View[p] = Node(upper, marks, p) /\ p \notin marks
<1>1. PICK Z : Z = From[p] \union From[dest]
  OBVIOUS
<1>2. \A q \in Paths \ Z : \A r \in Above[q] : r \in Paths \ Z
  BY <1>1, ZoneIsClosed
<1>3. Alike(upper, marks, v, ns, Z)
  BY <1>1, MovingIsNear
<1>4. \A q \in Paths \ Z : Node(v, ns, q) = Node(upper, marks, q)
  BY <1>2, <1>3, NodesStay
<1>5. \A q \in Paths \ Z : ViewOf(v, ns)[q] = View[q]
  BY <1>2, <1>3, ViewStays DEF View
<1>6. dest \notin From[p] /\ p \notin From[dest]
  BY DEF Moving, MovesFrom
<1>7. \A q \in Above[p] : q \in Paths \ Z
  BY <1>1, <1>6, ApartAbove
<1>8. \A q \in Above[dest] : q \in Paths \ Z
  BY <1>1, <1>6, ApartAbove
<1>9. /\ \A q \in Above[p] : Node(upper, marks, q) = "dir" /\ q \notin marks
      /\ View[p] = Node(upper, marks, p)
  BY AboveIsSeen DEF Moving, MovesFrom
<1>10. \A q \in Above[dest] : Node(upper, marks, q) = "dir" /\ q \notin marks
  BY AboveIsSeen DEF Moving, MovesFrom
<1>11. \A q \in Above[dest] : q \notin ns
  BY <1>3, <1>8, <1>10 DEF Alike
<1>12. p \notin marks
  BY SeenNames DEF Moving, MovesFrom
<1> QED BY <1>1, <1>4, <1>5, <1>7, <1>8, <1>9, <1>10, <1>11, <1>12

\* Everything of a directory that is found at its old name is found at the new one.
LEMMA MovingFinds ==
  ASSUME OverlayIInv, NEW p \in Paths, NEW dest \in Paths, NEW c, NEW v, NEW ns, Moving(p, dest, c, v, ns),
         upper[p] = "absent" \/ Lower[p] # "dir", Lower[dest] # "dir"
  PROVE  \A q \in From[dest] : Node(v, ns, q) = IF Rebase(q, dest, p) \in Paths
                                 THEN Node(upper, marks, Rebase(q, dest, p)) ELSE "absent"
<1>0. marks \in SUBSET Paths
  BY TypesAreTrees DEF OverlayIInv
<1>1. \A q \in From[dest] :
        /\ v[q] = IF Rebase(q, dest, p) \in Paths THEN c[Rebase(q, dest, p)] ELSE "absent"
        /\ q \in ns <=> q # dest /\ Rebase(q, dest, p) \in marks
  BY MovingArrives
<1>2. \A q \in Below[dest] : Lower[q] = "absent"
  <2>1. ASSUME NEW q \in Below[dest] PROVE Lower[q] = "absent"
    <3>1. q \in Paths /\ dest \in Above[q]
      BY Subsets, AboveIsOrder
    <3> QED BY <3>1, ConstantsAssumption DEF ConstantsAssumption
  <2> QED BY <2>1
<1>3. Rebase(dest, dest, p) = p
  BY RebaseItself
<1>4. \A q \in From[dest] : q \in Paths /\ (q = dest \/ q \in Below[dest])
  BY Subsets
<1>5. c[p] # "absent"
  BY CopiedToMove
<1>6. ASSUME NEW q \in From[dest], Rebase(q, dest, p) \notin Paths PROVE Node(v, ns, q) = "absent"
  <2>1. q \in Below[dest]
    BY <1>3, <1>4, <1>6
  <2>2. v[q] = "absent" /\ Lower[q] = "absent"
    BY <1>1, <1>2, <1>6, <2>1
  <2> QED BY <2>2 DEF Node
<1>7. ASSUME NEW q \in From[dest], NEW m \in Paths, m = Rebase(q, dest, p)
      PROVE  Node(v, ns, q) = Node(upper, marks, m)
  <2>1. m \in From[p] /\ Rebase(m, p, dest) = q /\ (m = p <=> q = dest)
    BY <1>7, RebaseInverse
  <2>2. v[q] = c[m]
    BY <1>1, <1>7
  <2>3. Hidden(ns, q) <=> Hidden(marks, m)
    <3>1. ASSUME NEW r \in Above[q] \union {q}, r \in ns PROVE Hidden(marks, m)
      <4>1. r \in Paths /\ (r \in Above[dest] \/ r \in From[dest])
        BY <1>4, AboveFrom
      <4>2. r \in From[dest] /\ r # dest /\ Rebase(r, dest, p) \in marks
        BY <1>1, <3>1, <4>1, MovingAbove
      <4>3. Rebase(r, dest, p) \in Above[m] \union {m}
        BY <1>7, <3>1, <4>2, RebaseKeepsOrder
      <4> QED BY <4>2, <4>3 DEF Hidden
    <3>2. ASSUME NEW k \in Above[m] \union {m}, k \in marks PROVE Hidden(ns, q)
      <4>1. k \in Paths /\ (k \in Above[p] \/ k \in From[p])
        BY <2>1, <3>2, AboveFrom
      <4>2. k \in From[p] /\ k # p
        BY <3>2, <4>1, MovingAbove
      <4>3. PICK r \in Paths : r = Rebase(k, p, dest) /\ r \in Above[q] \union {q}
        <5>1. CASE k = m
          BY <5>1, <2>1, <1>4
        <5>2. CASE k # m
          BY <5>2, <2>1, <3>2, <4>2, <1>4, RebaseKeepsOrder
        <5> QED BY <5>1, <5>2
      <4>4. r \in From[dest] /\ Rebase(r, dest, p) = k /\ r # dest
        BY <4>1, <4>2, <4>3, RebaseInverse
      <4>5. r \in ns
        BY <1>1, <3>2, <4>4
      <4> QED BY <4>3, <4>5 DEF Hidden
    <3> QED BY <3>1, <3>2 DEF Hidden
  <2>4. (IF c[m] # "absent" THEN c[m] ELSE Lower[q]) = IF upper[m] # "absent" THEN upper[m] ELSE Lower[m]
    <3>1. CASE upper[p] = "absent"
      <4>1. c[m] = Lower[m] /\ upper[m] = "absent"
        BY <2>1, <3>1, CopiedToMove DEF CopiedTree
      <4>2. q = dest => c[m] # "absent"
        BY <1>5, <2>1
      <4> QED BY <1>2, <1>4, <4>1, <4>2
    <3>2. CASE upper[p] # "absent"
      <4>1. c = upper /\ Lower[p] # "dir"
        BY <3>2, CopiedToMove
      <4>2. CASE q = dest
        BY <1>5, <2>1, <4>1, <4>2
      <4>3. CASE q # dest
        <5>1. m \in Below[p]
          BY <2>1, <4>3, Subsets
        <5>2. p \in Above[m]
          BY <5>1, AboveIsOrder
        <5>3. Lower[m] = "absent"
          BY <4>1, <5>2, ConstantsAssumption DEF ConstantsAssumption
        <5> QED BY <1>2, <1>4, <4>1, <4>3, <5>3
      <4> QED BY <4>2, <4>3
    <3> QED BY <3>1, <3>2
  <2> QED BY <2>2, <2>3, <2>4 DEF Node
<1> QED BY <1>6, <1>7

\* After a rename the view has the source at the destination.
LEMMA MovingFulfils ==
  ASSUME OverlayIInv, NEW p \in Paths, NEW dest \in Paths, NEW c, NEW v, NEW ns, Moving(p, dest, c, v, ns),
         \/ View[p] # "dir"
         \/ (upper[p] = "absent" \/ Lower[p] # "dir") /\ Lower[dest] # "dir"
  PROVE  ViewOf(v, ns) = Renamed(p, dest)
<1>0. dest \notin From[p] /\ p \notin From[dest]
  BY DEF Moving, MovesFrom
<1>1. /\ \A q \in Paths \ (From[p] \union From[dest]) : ViewOf(v, ns)[q] = View[q]
      /\ \A q \in Above[p] : Node(upper, marks, q) = "dir"
      /\ \A q \in Above[dest] : Node(v, ns, q) = "dir" /\ q \notin ns
      /\ View[p] = Node(upper, marks, p)
  BY MovingAbove
<1>2. \A q \in From[p] : ViewOf(v, ns)[q] = "absent"
  <2>1. ASSUME NEW q \in From[p] PROVE ViewOf(v, ns)[q] = "absent"
    <3>1. Node(v, ns, p) = "absent"
      BY MovingLeaves
    <3>2. q \in Paths /\ (q = p \/ p \in Above[q])
      BY Subsets, AboveIsOrder
    <3> QED BY <3>1, <3>2 DEF ViewOf
  <2> QED BY <2>1
<1>3. \A q \in From[dest] : ViewOf(v, ns)[q] = IF Rebase(q, dest, p) \in Paths
                                               THEN View[Rebase(q, dest, p)] ELSE "absent"
  <2>1. CASE (upper[p] = "absent" \/ Lower[p] # "dir") /\ Lower[dest] # "dir"
    BY <1>1, <2>1, MovingFinds, MovedIsSeen DEF View
  <2>2. CASE View[p] # "dir"
    <3>1. Rebase(dest, dest, p) = p /\ dest \in From[dest]
      BY RebaseItself, Subsets
    <3>2. Node(v, ns, dest) = View[p]
      <4>1. v[dest] = c[p] /\ dest \notin ns
        BY <3>1, MovingArrives
      <4>2. ~Hidden(ns, dest)
        BY <1>1, <4>1 DEF Hidden
      <4>3. c[p] = View[p] /\ c[p] # "absent"
        BY CopiedToMove
      <4> QED BY <4>1, <4>2, <4>3 DEF Node
    <3>3. ViewOf(v, ns)[dest] = View[p]
      BY <1>1, <3>2 DEF ViewOf
    <3>4. ASSUME NEW q \in Below[dest] PROVE ViewOf(v, ns)[q] = "absent"
      <4>1. q \in Paths /\ dest \in Above[q]
        BY Subsets, AboveIsOrder
      <4> QED BY <2>2, <3>2, <4>1 DEF ViewOf
    <3>5. ASSUME NEW q \in Below[dest], NEW m \in Paths, m = Rebase(q, dest, p)
          PROVE  View[m] = "absent"
      <4>1. q \in From[dest] /\ q # dest
        BY Subsets
      <4>2. m \in From[p] /\ m # p
        BY <3>5, <4>1, RebaseInverse
      <4>3. p \in Above[m]
        BY <4>2, Subsets, AboveIsOrder
      <4> QED BY <1>1, <2>2, <4>3 DEF View, ViewOf
    <3>6. \A q \in From[dest] : q = dest \/ q \in Below[dest]
      BY Subsets
    <3> QED BY <3>1, <3>3, <3>4, <3>5, <3>6
  <2> QED BY <2>1, <2>2
<1>4. \A q \in From[dest] : q \notin From[p]
  BY <1>0, FromApart
<1>5. \A q \in Paths : ViewOf(v, ns)[q] = Renamed(p, dest)[q]
  BY <1>1, <1>2, <1>3, <1>4 DEF Renamed
<1>6. ViewOf(v, ns) = [q \in Paths |-> ViewOf(v, ns)[q]]
      /\ Renamed(p, dest) = [q \in Paths |-> Renamed(p, dest)[q]]
  BY DEF ViewOf, Renamed
<1> HIDE DEF ViewOf, Renamed
<1> QED BY <1>5, <1>6, Zenon

\* After a rename the view is what was asked, where it is judged.
LEMMA RenameFulfils ==
  ASSUME OverlayIInv, NEW p \in Paths, NEW dest \in Paths, View[p] # "absent", HasParent(dest),
         dest \notin From[p], p \notin From[dest],
         \/ View[p] # "dir"
         \/ (upper[p] = "absent" \/ Lower[p] # "dir") /\ Lower[dest] # "dir",
         NEW v, NEW ns, Leads(upper, marks, RenamePlan(p, dest), v, ns)
  PROVE  ViewOf(v, ns) = Renamed(p, dest)
<1>1. PICK c : MovesFrom(p, dest, c, v, ns)
  BY LeadsRenamed
<1>2. Moving(p, dest, c, v, ns)
  BY <1>1 DEF Moving
<1> QED BY <1>2, MovingFulfils

-----------------------------------------------------------------------------
(* Overlay: what is still to be done leads to the goal                     *)

\* A step of a plan makes what Takes says.
LEMMA StepTakes ==
  ASSUME OverlayIInv, Step
  PROVE  todo # <<>> /\ Taken /\ Takes(upper, marks, todo[1], upper', marks')
<1>1. todo # <<>> /\ Taken
  BY DEF Step, StepClear, StepParents, StepBegin, StepPut, StepMkdir, StepRemove, StepRemoveTree,
         StepMove, StepMark, StepCommit, Is
<1>2. Current = todo[1]
  BY <1>1, Underway
<1>3. CASE StepClear
  BY <1>2, <1>3 DEF StepClear, Is, Takes
<1>4. CASE StepParents
  BY <1>2, <1>4 DEF StepParents, Is, Takes, Opened, WithParents
<1>5. CASE StepBegin
  BY <1>2, <1>5 DEF StepBegin, Is, Takes, treeVars
<1>6. CASE StepCommit
  BY <1>2, <1>6 DEF StepCommit, Is, Takes, treeVars
<1>7. CASE StepPut
  BY <1>2, <1>7 DEF StepPut, Is, Takes
<1>8. CASE StepMkdir
  BY <1>2, <1>8 DEF StepMkdir, Is, Takes
<1>9. CASE StepRemove
  BY <1>2, <1>9 DEF StepRemove, Is, Takes
<1>10. CASE StepRemoveTree
  BY <1>2, <1>10 DEF StepRemoveTree, TreeRemoved, Is, Takes
<1>11. CASE StepMove
  <2>1. /\ Current.do = "move" /\ Movable(Current.path, Current.entry.dest)
        /\ upper' = MovedTree(upper, Current.path, Current.entry.dest)
        /\ marks' = MovedMarks(marks, Current.path, Current.entry.dest)
    BY <1>11 DEF StepMove, Is, MovedTree, MovedMarks
  <2>2. upper[Current.entry.dest] = "dir"
        => \A q \in Below[Current.entry.dest] : upper[q] = "absent" /\ q \notin marks
    BY <2>1 DEF Movable, Bare
  <2> QED BY <1>1, <1>2, <2>1, <2>2 DEF Takes
<1>12. CASE StepMark
  BY <1>2, <1>12 DEF StepMark, Is, Takes, Opened, WithParents
<1>13. Takes(upper, marks, todo[1], upper', marks')
  BY <1>3, <1>4, <1>5, <1>6, <1>7, <1>8, <1>9, <1>10, <1>11, <1>12 DEF Step
<1> QED BY <1>1, <1>13

\* A step of a plan that leads to the goal leaves one that does.
LEMMA StepKeepsPromise ==
  ASSUME OverlayIInv, Promise, Step
  PROVE  Promise'
<1>1. todo # <<>> /\ Taken /\ Takes(upper, marks, todo[1], upper', marks')
  BY StepTakes
<1>2. todo \in Seq(Steps) /\ phase \in {"operation", "replay"}
  BY <1>1, Underway DEF Typed
<1>3. todo' = Tail(todo)
  BY <1>1 DEF Taken
<1>4. phase' = "idle" \/ (phase' = phase /\ goal' = goal)
  BY <1>1 DEF Taken
<1>5. CASE phase' = phase /\ goal' = goal /\ phase = "operation" /\ goal # NoView
  <2>1. ASSUME NEW v, NEW ns, Leads(upper', marks', todo', v, ns) PROVE ViewOf(v, ns) = goal'
    <3>1. Leads(upper, marks, todo, v, ns)
      BY <1>1, <1>2, <1>3, <2>1, LeadsFirst
    <3> QED BY <1>5, <3>1 DEF Promise
  <2> QED BY <2>1 DEF Promise
<1>6. CASE ~(phase' = "operation" /\ goal' # NoView)
  BY <1>6 DEF Promise
<1> QED BY <1>2, <1>4, <1>5, <1>6

\* A plan that leads to the goal is begun with it.
LEMMA BeginsPromise ==
  ASSUME NEW s, NEW plan, NEW wanted, NEW named, Begins(s, plan, wanted, named),
         wanted # NoView => \A v, ns : Leads(upper, marks, plan, v, ns) => ViewOf(v, ns) = wanted
  PROVE  Promise'
<1>1. upper' = upper /\ marks' = marks /\ todo' = plan /\ goal' = wanted
  BY DEF Begins, treeVars
<1>2. ASSUME goal' # NoView, NEW v, NEW ns, Leads(upper', marks', todo', v, ns)
      PROVE  ViewOf(v, ns) = goal'
  BY <1>1, <1>2
<1> QED BY <1>2 DEF Promise

\* Every operation begins with a plan that leads to its goal.
LEMMA OperationPromises ==
  ASSUME OverlayIInv, NEW s \in Sessions, NEW p \in Paths,
         \/ Create(s, p) \/ OpenForWrite(s, p) \/ Chmod(s, p)
         \/ Mkdir(s, p) \/ Unlink(s, p) \/ Rmdir(s, p)
         \/ \E dest \in Paths : Rename(s, p, dest)
  PROVE  Promise'
<1>0. "absent" \notin Contents /\ "dir" \notin Contents
  BY ConstantsAssumption DEF ConstantsAssumption
<1>1. CASE Create(s, p)
  <2>1. HasParent(p) /\ View[p] = "absent"
        /\ Begins(s, CreatePlan(p), [View EXCEPT ![p] = Empty], p)
    BY <1>1 DEF Create
  <2>2. \A v, ns : Leads(upper, marks, CreatePlan(p), v, ns) => ViewOf(v, ns) = [View EXCEPT ![p] = Empty]
    BY <2>1, CreateFulfils
  <2> QED BY <2>1, <2>2, BeginsPromise
<1>2. CASE OpenForWrite(s, p) \/ Chmod(s, p)
  <2>1. View[p] # "absent" /\ Begins(s, CopiedUp(p), View, p)
    BY <1>0, <1>2 DEF OpenForWrite, Chmod
  <2>2. \A v, ns : Leads(upper, marks, CopiedUp(p), v, ns) => ViewOf(v, ns) = View
    BY <2>1, CopyFulfils
  <2> QED BY <2>1, <2>2, BeginsPromise
<1>3. CASE Mkdir(s, p)
  <2>1. PICK wanted : /\ wanted = IF Lower[p] = "dir" THEN NoView ELSE [View EXCEPT ![p] = "dir"]
                      /\ HasParent(p) /\ View[p] = "absent" /\ Begins(s, MkdirPlan(p), wanted, p)
    BY <1>3 DEF Mkdir
  <2>2. ASSUME wanted # NoView, NEW v, NEW ns, Leads(upper, marks, MkdirPlan(p), v, ns)
        PROVE  ViewOf(v, ns) = wanted
    <3>1. Lower[p] # "dir" /\ wanted = [View EXCEPT ![p] = "dir"]
      BY <2>1, <2>2
    <3> QED BY <2>1, <2>2, <3>1, MkdirFulfils
  <2> QED BY <2>1, <2>2, BeginsPromise
<1>4. CASE Unlink(s, p)
  <2>1. View[p] \in Contents /\ Begins(s, RemovePlan("unlink", p), [View EXCEPT ![p] = "absent"], p)
    BY <1>4 DEF Unlink
  <2>2. \A q \in Below[p] : View[q] = "absent"
    <3>1. View[p] = Node(upper, marks, p)
      BY <1>0, <2>1, AboveIsSeen
    <3>2. ASSUME NEW q \in Below[p] PROVE View[q] = "absent"
      <4>1. q \in Paths /\ p \in Above[q]
        BY Subsets, AboveIsOrder
      <4>2. Node(upper, marks, p) # "dir"
        BY <1>0, <2>1, <3>1
      <4> QED BY <4>1, <4>2 DEF View, ViewOf
    <3> QED BY <3>2
  <2>3. View[p] # "absent"
    BY <1>0, <2>1
  <2>4. PICK kind \in {"unlink", "rmdir"} : kind = "unlink"
    OBVIOUS
  <2>5. \A v, ns : Leads(upper, marks, RemovePlan(kind, p), v, ns) => ViewOf(v, ns) = [View EXCEPT ![p] = "absent"]
    BY <2>2, <2>3, RemoveFulfils
  <2> QED BY <2>1, <2>4, <2>5, BeginsPromise
<1>5. CASE Rmdir(s, p)
  <2>1. PICK wanted : /\ wanted = IF \A q \in Below[p] : View[q] = "absent"
                                  THEN [View EXCEPT ![p] = "absent"] ELSE NoView
                      /\ View[p] = "dir" /\ Begins(s, RemovePlan("rmdir", p), wanted, p)
    BY <1>5 DEF Rmdir
  <2>2. PICK kind \in {"unlink", "rmdir"} : kind = "rmdir"
    OBVIOUS
  <2>3. ASSUME wanted # NoView, NEW v, NEW ns, Leads(upper, marks, RemovePlan(kind, p), v, ns)
        PROVE  ViewOf(v, ns) = wanted
    <3>1. (\A q \in Below[p] : View[q] = "absent") /\ wanted = [View EXCEPT ![p] = "absent"]
      BY <2>1, <2>3
    <3>2. View[p] # "absent"
      BY <2>1
    <3> QED BY <2>3, <3>1, <3>2, RemoveFulfils
  <2> QED BY <2>1, <2>2, <2>3, BeginsPromise
<1>6. CASE \E dest \in Paths : Rename(s, p, dest)
  <2>1. PICK dest \in Paths : Rename(s, p, dest)
    BY <1>6
  <2>2. PICK wanted : /\ wanted = IF View[p] # "dir"
                                     \/ ((upper[p] = "absent" \/ Lower[p] # "dir") /\ Lower[dest] # "dir")
                                  THEN Renamed(p, dest) ELSE NoView
                      /\ View[p] # "absent" /\ HasParent(dest)
                      /\ dest \notin From[p] /\ p \notin From[dest]
                      /\ Begins(s, RenamePlan(p, dest), wanted, dest)
    BY <2>1 DEF Rename
  <2>3. ASSUME wanted # NoView, NEW v, NEW ns, Leads(upper, marks, RenamePlan(p, dest), v, ns)
        PROVE  ViewOf(v, ns) = wanted
    <3>1. /\ View[p] # "dir" \/ ((upper[p] = "absent" \/ Lower[p] # "dir") /\ Lower[dest] # "dir")
          /\ wanted = Renamed(p, dest)
      BY <2>2, <2>3
    <3> QED BY <2>2, <2>3, <3>1, RenameFulfils
  <2> QED BY <2>2, <2>3, BeginsPromise
<1> QED BY <1>1, <1>2, <1>3, <1>4, <1>5, <1>6

\* Every step keeps the promise.
LEMMA NextKeepsPromise == OverlayIInv /\ Promise /\ [Next]_vars => Promise'
<1> SUFFICES ASSUME OverlayIInv, Promise, [Next]_vars PROVE Promise'
  OBVIOUS
<1>1. ASSUME UNCHANGED <<upper, marks, phase, todo, goal>> PROVE Promise'
  BY <1>1 DEF Promise
<1>2. ASSUME phase' # "operation" PROVE Promise'
  BY <1>2 DEF Promise
<1>3. CASE \E s \in Sessions : Start(s) \/ Crash(s)
  <2>1. PICK s \in Sessions : Start(s) \/ Crash(s)
    BY <1>3
  <2>2. CASE Start(s)
    BY <1>2, <2>2 DEF Start
  <2>3. CASE Crash(s) /\ s = holder
    BY <1>2, <2>3 DEF Crash
  <2>4. CASE Crash(s) /\ s # holder
    BY <1>1, <2>4 DEF Crash, treeVars
  <2> QED BY <2>1, <2>2, <2>3, <2>4
<1>4. ASSUME NEW s \in Sessions, NEW p \in Paths, Write(s, p) PROVE Promise'
  BY <1>2, <1>4 DEF Write
<1>5. ASSUME NEW s \in Sessions, NEW p \in Paths,
             \/ Create(s, p) \/ OpenForWrite(s, p) \/ Chmod(s, p)
             \/ Mkdir(s, p) \/ Unlink(s, p) \/ Rmdir(s, p)
             \/ \E dest \in Paths : Rename(s, p, dest)
      PROVE  Promise'
  BY <1>5, OperationPromises
<1>6. CASE Step
  BY <1>6, StepKeepsPromise
<1>7. CASE Fail \/ StartFails \/ Started \/ Replay
  BY <1>2, <1>7 DEF Fail, StartFails, Started, Replay
<1>8. CASE UNCHANGED vars
  BY <1>1, <1>8 DEF vars, treeVars
<1> QED BY <1>3, <1>4, <1>5, <1>6, <1>7, <1>8 DEF Next

\* What is still to be done leads to the goal at all times.
LEMMA AlwaysPromised == Spec => [](OverlayIInv /\ Promise)
<1>1. Init => OverlayIInv /\ Promise
  BY InitIsSound DEF Init, Promise
<1>2. OverlayIInv /\ Promise /\ [Next]_vars => (OverlayIInv /\ Promise)'
  BY NextKeepsOverlay, NextKeepsPromise
<1> QED BY <1>1, <1>2, PTL DEF Spec

\* The last step of a judged operation leaves its goal.
LEMMA LastFulfils ==
  ASSUME OverlayIInv, Promise, StepCommit, Len(todo) = 1, goal # NoView
  PROVE  ViewOf(upper', marks') = goal
<1>1. todo # <<>> /\ Current.do = "commit"
  BY DEF StepCommit, Is
<1>2. todo \in Seq(Steps) /\ phase = "operation"
  BY <1>1, Underway DEF Typed
<1>3. Takes(upper, marks, todo[1], upper', marks')
  BY StepTakes DEF Step
<1>4. Leads(upper', marks', Tail(todo), upper', marks')
  <2>1. Tail(todo) = <<>>
    BY <1>1, <1>2, TailFacts
  <2>2. PICK v, ns : v = upper' /\ ns = marks'
    OBVIOUS
  <2>3. Leads(v, ns, <<>>, v, ns)
    BY LeadsNone
  <2> QED BY <2>1, <2>2, <2>3
<1>5. Leads(upper, marks, todo, upper', marks')
  BY <1>1, <1>2, <1>3, <1>4, LeadsFirst
<1> QED BY <1>2, <1>5 DEF Promise

\* An operation that reports success has made the view that was asked of it: for any names,
\* lower tree, sessions and bound.
THEOREM AlwaysExact == Spec => CompletesExactly
<1>1. OverlayIInv /\ Promise /\ [Next]_vars =>
        [StepCommit /\ Len(todo) = 1 /\ goal # NoView => ViewOf(upper', marks') = goal]_vars
  BY LastFulfils
<1> QED BY <1>1, AlwaysPromised, PTL DEF Spec, CompletesExactly

=============================================================================
