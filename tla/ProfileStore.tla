---------------------------- MODULE ProfileStore ----------------------------
(***************************************************************************)
(* The file of one profile and the commands that change it.                *)
(*                                                                         *)
(*   profile_lifecycle.py   ProfileStore: create, import, edit, seal,      *)
(*       unseal, archive, and the commit of a learning run, each in the    *)
(*       process of one command                                            *)
(*   learner.py             ProfileLearner.run()                           *)
(*   profile.py             validate_profile()                             *)
(*                                                                         *)
(* Commands share nothing but the file and its flock; one that is killed   *)
(* loses the lock.  An edit and a learning run stay open for long after    *)
(* they read the file.  Rules are atoms; of what a rule says only which    *)
(* pairs may not stand in one profile is kept.                             *)
(*                                                                         *)
(* Bounds: MaxRevision and MaxBirths limit what the guards let happen.     *)
(***************************************************************************)
EXTENDS Naturals, FiniteSets

CONSTANTS
  Commands,     \* processes that run one command after the other
  Rules,        \* the rules profiles are made of
  Conflicts,    \* sets of two rules that validation rejects together
  Learnable,    \* exact rules a learning run can draft
  MaxRevision,  \* bound: the highest revision written
  MaxBirths     \* bound: how often the profile is created or imported

ASSUME ProfileAssumption ==
  /\ Learnable \subseteq Rules
  /\ \A p \in Conflicts : p \subseteq Rules /\ Cardinality(p) = 2
  /\ MaxRevision \in Nat \ {0}
  /\ MaxBirths \in Nat
  /\ "nobody" \notin Commands

VARIABLES
  present,  \* the file: absent, torn while it is first written, or whole
  file,     \* what it says, with a history field: which creation it stems from
  births,   \* history: how often it was created or imported
  lock,     \* who holds the flock
  doing,    \* the command each process runs
  pc,       \* how far it is
  base,     \* the profile it read, or is about to create
  draft     \* the rules and seal it is about to save

profileVars == <<present, file, births, lock, doing, pc, base, draft>>
storeVars == <<present, file, births>>

Saves == {"edit", "learn", "seal", "unseal", "archive"}

Profiles == [birth : Nat, revision : Nat \ {0}, sealed : BOOLEAN, rules : SUBSET Rules]
Drafts == [sealed : BOOLEAN, rules : SUBSET Rules]

\* validate_profile(): no overlapping writable roots, no two modes for one path.
Valid(rs) == \A p \in Conflicts : ~(p \subseteq rs)

\* load(): a torn file and one that does not validate are both rejected.
Loadable == present = "whole" /\ Valid(file.rules)

NewProfile == [birth |-> births + 1, revision |-> 1, sealed |-> FALSE, rules |-> {}]

Blank == [birth |-> 0, revision |-> 1, sealed |-> FALSE, rules |-> {}]
NoDraft == [sealed |-> FALSE, rules |-> {}]

ProfileInit ==
  /\ present = "absent" /\ births = 0 /\ lock = "nobody"
  /\ file = Blank
  /\ doing = [a \in Commands |-> "nothing"]
  /\ pc = [a \in Commands |-> "idle"]
  /\ base = [a \in Commands |-> Blank]
  /\ draft = [a \in Commands |-> NoDraft]

Runs(a, what, where) ==
  /\ doing' = [doing EXCEPT ![a] = what]
  /\ pc' = [pc EXCEPT ![a] = where]

\* The process ends; what it had read and drafted goes with it.
Ends(a) ==
  /\ Runs(a, "nothing", "idle")
  /\ base' = [base EXCEPT ![a] = Blank]
  /\ draft' = [draft EXCEPT ![a] = NoDraft]

-----------------------------------------------------------------------------
(* create and import: an exclusive open, then one write, and no lock       *)

OpenNew(a, p) ==
  /\ pc[a] = "idle" /\ present = "absent"
  /\ births < MaxBirths /\ births' = births + 1
  /\ present' = "torn"
  /\ base' = [base EXCEPT ![a] = p]
  /\ Runs(a, "create", "working")
  /\ UNCHANGED <<file, lock, draft>>

CreateProfile(a) == OpenNew(a, NewProfile)

\* The imported file was validated; its revision and its seal are kept.
ImportProfile(a) ==
  \E r \in 1..MaxRevision, s \in BOOLEAN, rs \in SUBSET Rules :
    /\ Valid(rs)
    /\ OpenNew(a, [birth |-> births + 1, revision |-> r, sealed |-> s, rules |-> rs])

WriteNew(a) ==
  /\ doing[a] = "create"
  /\ present' = "whole" /\ file' = base[a]
  /\ Ends(a)
  /\ UNCHANGED <<births, lock>>

-----------------------------------------------------------------------------
(* edit and learn: the file is read long before it is saved                *)

\* Neither command starts on a sealed profile.
Open(a, what) ==
  /\ pc[a] = "idle" /\ Loadable /\ ~file.sealed
  /\ base' = [base EXCEPT ![a] = file]
  /\ Runs(a, what, "working")
  /\ UNCHANGED <<storeVars, lock, draft>>

OpenEditor(a) == Open(a, "edit")

StartLearning(a) == Open(a, "learn")

\* The editor leaves any valid profile behind, the seal included.
CloseEditor(a) ==
  /\ doing[a] = "edit" /\ pc[a] = "working"
  /\ \E s \in BOOLEAN, rs \in SUBSET Rules :
       Valid(rs) /\ draft' = [draft EXCEPT ![a] = [sealed |-> s, rules |-> rs]]
  /\ Runs(a, "edit", "ready")
  /\ UNCHANGED <<storeVars, lock, base>>

\* What the run's profile says nothing about, and so the operator is asked.
Unknown(rs) == {r \in Learnable : r \notin rs /\ \A q \in rs : {r, q} \notin Conflicts}

\* The command ended well, and operators allowed some unknown paths.
EndLearning(a) ==
  /\ doing[a] = "learn" /\ pc[a] = "working"
  /\ \E rs \in SUBSET Unknown(base[a].rules) \ {{}} :
       draft' = [draft EXCEPT ![a] = [sealed |-> FALSE, rules |-> rs]]
  /\ Runs(a, "learn", "ready")
  /\ UNCHANGED <<storeVars, lock, base>>

-----------------------------------------------------------------------------
(* Saving under the lock                                                   *)

\* seal, unseal and archive read the file under the lock only.
Ask(a, what) ==
  /\ pc[a] = "idle"
  /\ Runs(a, what, "ready")
  /\ UNCHANGED <<storeVars, lock, base, draft>>

\* Mutant of LockIsFree: the transaction takes no lock.
NoLock == TRUE

LockIsFree == lock = "nobody"

ReadIsCurrent(a) == file.revision = base[a].revision

\* Mutant of AcceptsLearning: the seal is checked when learning starts only.
LearningStarted == TRUE

AcceptsLearning == ~file.sealed

\* The lock is taken, the file is read again, and the command may go on.
Lock(a) ==
  /\ pc[a] = "ready" /\ LockIsFree /\ Loadable
  /\ \/ doing[a] = "edit" /\ ReadIsCurrent(a) /\ UNCHANGED base
     \/ /\ \/ doing[a] = "learn" /\ AcceptsLearning
           \/ doing[a] = "seal" /\ ~file.sealed
           \/ doing[a] = "unseal" /\ file.sealed
           \/ doing[a] = "archive"
        /\ base' = [base EXCEPT ![a] = file]
  /\ lock' = a
  /\ Runs(a, doing[a], "locked")
  /\ UNCHANGED <<storeVars, draft>>

\* The profile a command writes: the next revision of the one it read.
Saved(a) ==
  [birth |-> file.birth,
   revision |-> base[a].revision + 1,
   sealed |-> CASE doing[a] = "edit" -> draft[a].sealed
                [] doing[a] = "seal" -> TRUE
                [] doing[a] \in {"unseal", "learn"} -> FALSE,
   rules |-> CASE doing[a] = "edit" -> draft[a].rules
               [] doing[a] = "learn" -> base[a].rules \cup draft[a].rules
               [] doing[a] \in {"seal", "unseal"} -> base[a].rules]

\* The rename, and the end of the transaction.
Replace(a) ==
  /\ pc[a] = "locked" /\ doing[a] # "archive"
  /\ base[a].revision < MaxRevision
  /\ file' = Saved(a)
  /\ lock' = "nobody"
  /\ Ends(a)
  /\ UNCHANGED <<present, births>>

Archive(a) ==
  /\ pc[a] = "locked" /\ doing[a] = "archive"
  /\ present' = "absent"
  /\ lock' = "nobody"
  /\ Ends(a)
  /\ UNCHANGED <<file, births>>

\* A command is refused, fails or is killed: its lock is gone, and the file a
\* creation has not written yet stays.
Stop(a) ==
  /\ pc[a] # "idle"
  /\ lock' = IF lock = a THEN "nobody" ELSE lock
  /\ Ends(a)
  /\ UNCHANGED storeVars

-----------------------------------------------------------------------------
ProfileNext ==
  \E a \in Commands :
    \/ CreateProfile(a) \/ ImportProfile(a) \/ WriteNew(a)
    \/ OpenEditor(a) \/ CloseEditor(a)
    \/ StartLearning(a) \/ EndLearning(a)
    \/ \E what \in {"seal", "unseal", "archive"} : Ask(a, what)
    \/ Lock(a) \/ Replace(a) \/ Archive(a)
    \/ Stop(a)

ProfileSpec == ProfileInit /\ [][ProfileNext]_profileVars

-----------------------------------------------------------------------------
(* Properties                                                              *)

\* Every variable keeps its type.
ProfileTypes ==
  /\ present \in {"absent", "torn", "whole"}
  /\ file \in Profiles
  /\ births \in Nat
  /\ lock \in Commands \cup {"nobody"}
  /\ doing \in [Commands -> Saves \cup {"nothing", "create"}]
  /\ pc \in [Commands -> {"idle", "working", "ready", "locked"}]
  /\ base \in [Commands -> Profiles]
  /\ draft \in [Commands -> Drafts]

\* The same profile before and after the step, not another one of its name.
SameProfile ==
  present = "whole" /\ present' = "whole" /\ file'.birth = file.birth

\* An editor whose profile was archived and made anew meanwhile: the revision,
\* which starts again, cannot tell it, and the properties below except its save.
Outdated(a) == doing[a] = "edit" /\ base[a].birth # file.birth

NobodyOutdated == \A a \in Commands : lock = a => ~Outdated(a)

\* No step repeats, skips or takes back a revision.
RevisionAdvances == SameProfile => file' = file \/ file'.revision = file.revision + 1

\* A rule leaves the profile only by an editor that had it on the screen.
UnseenRulesStay ==
  SameProfile /\ NobodyOutdated =>
    \A r \in file.rules \ file'.rules :
      \E a \in Commands : /\ doing[a] = "edit" /\ pc[a] = "locked"
                          /\ r \in base[a].rules /\ r \notin draft[a].rules

\* "Sealed profiles cannot be edited or learned": whenever a command read the
\* profile, it does not change the rules of one that has been sealed since.
SealedIsFrozen ==
  [][SameProfile /\ NobodyOutdated /\ file.sealed => file'.rules = file.rules]_profileVars

\* "Per-profile transactions serialize revision validation and replacement" while
\* "preserving concurrent learning rules": one save builds on another, in its
\* number and in what it holds.
SavesStack == [][RevisionAdvances /\ UnseenRulesStay]_profileVars
=============================================================================
