--------------------------- MODULE MCUpfSessions ---------------------------
(* Instance of UpfSessions for TLC.                                        *)
EXTENDS UpfSessions, TLC

CONSTANTS s1, s2

MCSessions == {s1, s2}
============================================================================
