---------------------------- MODULE MCMountDaemon ----------------------------
(* MountDaemon on small instances: the validity windows.                    *)
EXTENDS MountDaemon

CONSTANTS g1, g2

\* Both grants are valid from the start, g1 ends first.
MCNotBefore == [g \in Grants |-> 0]
MCExpiry == [g \in Grants |-> IF g = g1 THEN 1 ELSE 2]
=============================================================================
