--------------------------- MODULE MCProjectedHome ---------------------------
(* ProjectedHome with a private and an overlay subtree and a host file.     *)
EXTENDS ProjectedHome, TLC
CONSTANTS pn, an, bn, on, hn
Interchangeable == Permutations({an, bn})
P == <<pn>>
PA == <<pn, an>>
PB == <<pn, bn>>
O == <<on>>
H == <<hn>>
Plain == <<Rule(P, "subtree", "private-rw", TRUE), Rule(O, "subtree", "overlay-rw", FALSE),
           Rule(H, "exact", "host-ro", FALSE)>>
FlatPaths == {P, PA, PB, O, H}
\* Left out of the view: the size of an object that neither a name nor a handle
\* to write by leads to, and where a file ends that can not be appended to, until
\* it is set anew.
Written == {h \in DOMAIN held : held[h].flag # "read" /\ handles[h].tree = "private"}
LiveObjects == Files(tree["private"]) \cup {handles[h].object : h \in Written}
LiveEnds ==
  {held[h].inode : h \in {g \in Written : held[g].flag = "append"}} \cup
  (IF opened < MaxHandle THEN DOMAIN known ELSE {})
LiveState ==
  <<tree, Restrict(size, LiveObjects), table, inodes, handles, opened, known, held,
    Restrict(ends, LiveEnds), request>>
HostHome == {H}
=============================================================================
