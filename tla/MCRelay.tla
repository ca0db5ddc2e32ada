------------------------------- MODULE MCRelay -------------------------------
(* Relay with pipes of one chunk and a client that sends ahead.             *)
EXTENDS Relay
=============================================================================
