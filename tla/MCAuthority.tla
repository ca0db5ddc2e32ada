----------------------------- MODULE MCAuthority -----------------------------
\* Two exportable sources, a third above a forbidden root, and a directory on
\* another file system that has the inode of the first.  The worker's bound on a
\* plan is as small as makes a second long target one too many.
EXTENDS Authority

CONSTANTS p1, p2

Symmetry == Permutations(Pids)

A == <<"srv", "a">>
B == <<"srv", "b">>
C == <<"srv", "c">>

W == <<"w">>
R == <<"r">>
Nested == <<"w", "x">>
OldRoot == <<"oldroot">>
Long == <<"z">>

MCSources == {A, B, C}
MCObjects == {"oa", "ob", "oc", "new"}
MCIno == [o \in MCObjects |-> CASE o = "oa" -> 1 [] o = "ob" -> 2 [] o = "oc" -> 3
                                [] o = "new" -> 1]
MCKind == [o \in MCObjects |-> "directory"]
MCFirstAt == [s \in MCSources |-> CASE s = A -> "oa" [] s = B -> "ob" [] s = C -> "oc"]
MCUnfit == {"new"}

MCRoots == {[path |-> <<"srv">>, access |-> "rw", kinds |-> {"directory", "file"}]}
MCForbidden == {<<"srv", "c", "keys">>}
MCTargetOrder == <<OldRoot, R, W, Nested, Long>>
MCTargetBytes == [t \in ToSet(MCTargetOrder) |-> IF t = Long THEN 4096 ELSE 8]
MCPlannerReserved == {<<"dev">>, <<"etc">>}
MCWorkerReserved == {<<"dev">>, <<"etc">>, <<"oldroot">>}
MCExtras == {{6, 7}}

Export(source, target, access, ino) ==
  [source |-> source, target |-> target, access |-> access, kind |-> "directory",
   ino |-> ino]

Enrolled == [host |-> "host", as |-> "enrolled"]
Rekeyed == [host |-> "host", as |-> "rekeyed"]

G(id, binding, until, exports, features) ==
  [id |-> id, binding |-> binding, window |-> [from |-> 0, until |-> until],
   exports |-> exports, features |-> features, policy |-> "none", extensions |-> {}]

Both == <<Export(A, W, "rw", 1), Export(B, R, "ro", 2)>>

MCProposals ==
  { G("g1", Enrolled, 1, Both, {"sftp"}),
    G("g2", Enrolled, 2, <<Export(A, W, "rw", 1), Export(B, Long, "ro", 2)>>, {}),
    G("g3", Enrolled, 3, <<Export(A, W, "rw", 1), Export(B, R, "rw", 2)>>, {}),
    G("g4", Enrolled, 4, <<Export(A, W, "rw", 1), Export(B, Nested, "ro", 2)>>, {}),
    G("g5", Rekeyed, 5, <<Export(C, R, "ro", 3)>>, {}),
    G("g6", Enrolled, 6, <<Export(B, OldRoot, "ro", 2)>>, {}) }

MCForeign == {g \in MCProposals : g.id = "g1"}
=============================================================================
