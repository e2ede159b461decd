----------------------------- MODULE MCN2Attach -----------------------------
(* Instances of N2Attach for TLC.                                          *)
EXTENDS N2Attach, TLC

CONSTANTS alice, bob, gnb1, gnb2

MCUEs == {alice, bob}

\* One gNB per UE.
TwoGnbs   == {gnb1, gnb2}
OwnGnb    == (alice :> gnb1) @@ (bob :> gnb2)

\* One gNB for all.
OneGnb    == {gnb1}
SharedGnb == [u \in MCUEs |-> gnb1]
=============================================================================
