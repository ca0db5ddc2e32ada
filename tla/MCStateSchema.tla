--------------------------- MODULE MCStateSchema ---------------------------
\* Two openers of the new release and one of the one before it.
EXTENDS StateSchema, TLC

CONSTANTS o1, o2, o3

MCKnown == [o \in {o1, o2, o3} |-> IF o = o3 THEN 1 ELSE 2]
MCDestructive == {2}

\* The openers of one release are alike.
MCAlike == Permutations({o1, o2})
=============================================================================
