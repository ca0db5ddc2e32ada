------------------------------ MODULE MCOverlay ------------------------------
(* Overlay on a small home: a directory d with a file x, and a free name g   *)
(* that can become a file or a directory with a file of its own.            *)
EXTENDS Overlay, TLC

CONSTANTS s1, s2   \* sessions

MCPaths == {<<"d">>, <<"d", "x">>, <<"g">>, <<"g", "x">>}
MCContents == {"old", "empty"}
MCLower ==
  [p \in MCPaths |-> IF p = <<"d", "x">> THEN "old"
                     ELSE IF p = <<"d">> THEN "dir" ELSE "absent"]
MCEmpty == "empty"
SessionSymmetry == Permutations(Sessions)
=============================================================================
