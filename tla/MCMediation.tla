----------------------------- MODULE MCMediation -----------------------------
(* Mediation for TLC: three operations on an ordinary path and a credential, *)
(* of which two share the path or share the credential.                      *)
EXTENDS Mediation

CONSTANTS c1, c2, c3, path, credential, o1

PathShared == [c \in Callers |-> IF c = c3 THEN credential ELSE path]
CredentialShared == [c \in Callers |-> IF c = c1 THEN path ELSE credential]
=============================================================================
