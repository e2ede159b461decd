----------------------------- MODULE MCEventHub -----------------------------
(* Instance of EventHub for TLC.                                           *)
EXTENDS EventHub, TLC

CONSTANTS c1, c2

MCClients == {c1, c2}
============================================================================
