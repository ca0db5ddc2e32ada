------------------------------- MODULE Channel -------------------------------
(***************************************************************************)
(* What a relay promises the two ends of an SFTP stream: each side gets    *)
(* what the other sent, in order and once; a side is told of the end only  *)
(* after it got everything, unless something on the way was lost.          *)
(***************************************************************************)
EXTENDS Naturals

VARIABLES
  sent,   \* messages sent, by direction
  got,    \* the last message that arrived, by direction
  told,   \* the directions whose reader was told of the end
  cut     \* something was lost

Directions == {"up", "down"}

Init ==
  /\ sent = [d \in Directions |-> 0] /\ got = [d \in Directions |-> 0]
  /\ told = {} /\ cut = FALSE

Send(d) == sent' = [sent EXCEPT ![d] = @ + 1] /\ UNCHANGED got

Deliver(d) ==
  /\ got[d] < sent[d] /\ d \notin told
  /\ got' = [got EXCEPT ![d] = @ + 1] /\ UNCHANGED sent

Next ==
  /\ \/ \E d \in Directions : Send(d) \/ Deliver(d)
     \/ UNCHANGED <<sent, got>>
  /\ told \subseteq told' /\ told' \subseteq Directions
  /\ cut => cut'
  /\ \A d \in told' \ told : got'[d] = sent'[d] \/ cut'

Spec == Init /\ [][Next]_<<sent, got, told, cut>>
=============================================================================
