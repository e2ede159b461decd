--------------------------- MODULE MCUeSupervisor ---------------------------
(* Instance of UeSupervisor for TLC.                                       *)
EXTENDS UeSupervisor, TLC

CONSTANTS user

MCUsers == {user}
============================================================================
