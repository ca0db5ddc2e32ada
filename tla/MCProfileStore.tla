--------------------------- MODULE MCProfileStore ---------------------------
(***************************************************************************)
(* Small instances of ProfileStore: a path that is readable or executable, *)
(* which are two rules that conflict, and a rule of another path.          *)
(***************************************************************************)
EXTENDS ProfileStore, TLC

CONSTANTS a1, a2, a3, ro, rx, other

TwoCommands == {a1, a2}
ThreeCommands == {a1, a2, a3}
TheRules == {ro, rx, other}
OneConflict == {{ro, rx}}

\* The projected home asks for reads and never for execution.
Readable == {ro, other}

Symmetric == Permutations(Commands)
=============================================================================
