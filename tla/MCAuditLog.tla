---------------------------- MODULE MCAuditLog ----------------------------
(* AuditLog with two processes, two generations and a retention of two,    *)
(* once without and once with a size limit of two lines.                   *)
EXTENDS AuditLog
CONSTANTS p1, p2
Both == {p1, p2}
NoneAndTwo == {0, 2}
=============================================================================
