--------------------------- MODULE ProfileDecision ---------------------------
(***************************************************************************)
(* The decision a profile makes about a path and an operation              *)
(* (profile.py).  A path is a sequence of names, the profile's rules are a *)
(* sequence as in its file.                                                *)
(***************************************************************************)
EXTENDS Naturals, Sequences, SequencesExt

ReadOps == {"lookup", "stat", "list", "read"}
WriteOps == {"create", "write", "truncate", "rename", "unlink", "mkdir", "rmdir"}
Operations == ReadOps \cup {"execute"} \cup WriteOps
Writable == {"private-rw", "overlay-rw"}
Modes == {"deny", "host-ro", "host-rx"} \cup Writable

Rule(p, s, m, l) == [path |-> p, scope |-> s, mode |-> m, list |-> l]

\* Rule.matches()
Matches(r, p) == r.path = p \/ (r.scope = "subtree" /\ IsPrefix(r.path, p))

\* Rule.allows()
Allows(r, op) ==
  /\ r.mode # "deny"
  /\ op \in ReadOps => (op = "list" => r.list)
  /\ op = "execute" => r.mode = "host-rx"
  /\ op \in WriteOps => r.mode \in Writable

\* The sort key of decision(): exact, then longest, then deny.
ComesBefore(r, s) ==
  \/ r.scope = "exact" /\ s.scope = "subtree"
  \/ r.scope = s.scope /\ Len(r.path) > Len(s.path)
  \/ r.scope = s.scope /\ Len(r.path) = Len(s.path) /\ r.mode = "deny" /\ s.mode # "deny"

NoRule == Rule(<<>>, "exact", "deny", FALSE)

\* The first candidate of the stable sort.
Decider(rules, p) ==
  LET candidates == {i \in 1..Len(rules) : Matches(rules[i], p)}
      best == {i \in candidates : \A j \in candidates :
                 /\ ~ComesBefore(rules[j], rules[i])
                 /\ j < i => ComesBefore(rules[i], rules[j])}
  IN  IF candidates = {} THEN NoRule ELSE rules[CHOOSE i \in best : TRUE]

Allowed(rules, p, op) == Allows(Decider(rules, p), op)

\* "opaque ancestor traversal": no rule matches, one lies below.
OpaqueAncestor(rules, p) ==
  /\ Decider(rules, p) = NoRule
  /\ \E i \in 1..Len(rules) : IsStrictPrefix(p, rules[i].path)

\* validate_profile()
ValidRules(rules) ==
  \A i, j \in 1..Len(rules) : i < j =>
    LET r == rules[i]
        s == rules[j]
    IN  /\ r.mode \in Writable /\ s.mode \in Writable
             => ~Matches(r, s.path) /\ ~Matches(s, r.path)
        /\ r.path = s.path /\ r.scope = s.scope /\ r.mode # s.mode
             => "deny" \in {r.mode, s.mode}
=============================================================================
