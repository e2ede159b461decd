------------------------------ MODULE MCN2Setup ------------------------------
EXTENDS N2Setup

CONSTANTS g1, g2

PLMN5 == <<0, 0, 1, 0, 1>>
PLMN6 == <<3, 1, 0, 4, 1, 0>>

\* 4660 is 0x1234, the default id; the other is the largest number of 27 bits.
MCGnbConfig ==
  (g1 :> [id |-> 4660, name |-> "gnb-01", plmn |-> PLMN5, tac |-> 1])
  @@ (g2 :> [id |-> 134217727, name |-> "gnb-02", plmn |-> PLMN6, tac |-> 16777215])

Amf(plmn, set, pointer, encodable) ==
  [name |-> "amf", plmn |-> plmn, region |-> 255, set |-> set, pointer |-> pointer,
   encodable |-> encodable]

MCAmfConfigs == {Amf(PLMN5, 1, 0, FALSE), Amf(PLMN6, 255, 63, TRUE)}

MCSupis == {PLMN5 \o <<0, 0, 0, 0, 0, 0, 0, 0, 0, 1>>, PLMN5 \o <<9, 8, 7, 6, 5, 4, 3, 2, 1, 0>>}

\* Not given, and "ims".
MCDnns == {<<>>, <<105, 109, 115>>}
MCSlices == {<<Broadband>>, <<[sst |-> 1, sd |-> 66051], Broadband>>}
MCAddresses == {<<10, 0, 0, 255>>, <<192, 168, 1, 0>>}
MCTeids == {1, 16777472, 2147483647}
MCTmsis == {0, 16909060}
==============================================================================
