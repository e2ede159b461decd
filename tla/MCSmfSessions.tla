--------------------------- MODULE MCSmfSessions ---------------------------
(* Instance of SmfSessions for TLC.                                        *)
EXTENDS SmfSessions

CONSTANTS h1, h2, alice, bob

MCHandlers == {h1, h2}
MCSupis    == {alice, bob}
============================================================================
