----------------------------- MODULE MCGnbRelay -----------------------------
(* Instance of GnbRelay for TLC: every bound is a number.                  *)
EXTENDS GnbRelay, TLC
============================================================================
