--------------------------- MODULE MCRemoteSession ---------------------------
(* RemoteSession on three channels: a1 and a2 carry the same request, a1 and *)
(* a3 the same session identifier under another nonce.                      *)
EXTENDS RemoteSession

CONSTANTS a1, a2, a3, s1, k1, k2

MCSid == [a \in Attempts |-> s1]
MCKey == [a \in Attempts |-> IF a = a3 THEN k2 ELSE k1]
MCExpiry == [a \in Attempts |-> 1]
=============================================================================
