----------------------------- MODULE NgapCodec ------------------------------
(***************************************************************************)
(* NGAP messages as gNB and AMF build and read them.  A PDU is the record  *)
(* the ASN.1 library is given and gives back; what the code packs into     *)
(* octets is octets here, and criticalities and QoS constants are left     *)
(* out.  A reader gives what the handler extracts.                         *)
(***************************************************************************)
EXTENDS NasCodec

Initiating == 1   \* NGAPPDUPresent of a request
Successful == 2   \* and of its positive answer

PDU(procedure, present, ies) == [procedure |-> procedure, present |-> present, ies |-> ies]

\* What handlerKey distinguishes.
HandlerKey(pdu) == <<pdu.procedure, pdu.present>>

AmfHandlers ==
  {<<"NGSetup", Initiating>>, <<"InitialUEMessage", Initiating>>,
   <<"UplinkNASTransport", Initiating>>, <<"PDUSessionResourceSetup", Successful>>}

\* The handler of NGSetupFailure is left out: no AMF of the program sends one.
GnbHandlers ==
  {<<"NGSetup", Successful>>, <<"DownlinkNASTransport", Initiating>>,
   <<"PDUSessionResourceSetup", Initiating>>}

----------------------------------------------------------------------------
(* NG Setup.                                                               *)

\* 28 bits, the first in the top of four octets.
GnbIdBits(id) == BigEndian(id * 16, 4)

BuildNGSetupRequest(c) ==
  PDU("NGSetup", Initiating,
      [ranNodeId |-> [plmn |-> EncodePLMN(c.plmn), bits |-> GnbIdBits(c.id)],
       name |-> c.name,
       tas |-> <<[tac |-> BigEndian(c.tac, 3), plmns |-> <<EncodePLMN(c.plmn)>>]>>])

\* The RAN context HandleNGSetupRequest makes of it.
RAN(pdu) ==
  [id |-> pdu.ies.ranNodeId.bits, name |-> pdu.ies.name,
   tacs |-> [i \in 1..Len(pdu.ies.tas) |-> pdu.ies.tas[i].tac]]

\* Set and pointer are bit strings of 10 and 6 bits.
BuildNGSetupResponse(c) ==
  PDU("NGSetup", Successful,
      [name |-> c.name,
       guami |-> [plmn |-> EncodePLMN(c.plmn), region |-> c.region,
                  set |-> <<c.set \div 4, (c.set % 4) * 64>>, pointer |-> (c.pointer * 4) % 256],
       capacity |-> 255,
       plmns |-> <<EncodePLMN(c.plmn)>>])

\* What HandleNGSetupResponse learns; of the set it reads one octet.
AMFContext(pdu) ==
  [name |-> pdu.ies.name, region |-> pdu.ies.guami.region, set |-> pdu.ies.guami.set[1],
   pointer |-> pdu.ies.guami.pointer \div 4, capacity |-> pdu.ies.capacity,
   plmns |-> [i \in 1..Len(pdu.ies.plmns) |-> DecodePLMN(pdu.ies.plmns[i])]]

----------------------------------------------------------------------------
(* UE-associated messages.                                                 *)

InitialUEMessage(ran, nas, c) ==
  PDU("InitialUEMessage", Initiating,
      [ran |-> ran, nas |-> nas, tac |-> BigEndian(c.tac, 3), plmn |-> EncodePLMN(c.plmn)])

UplinkNASTransport(amf, ran, nas) ==
  PDU("UplinkNASTransport", Initiating, [amf |-> amf, ran |-> ran, nas |-> nas])

DownlinkNASTransport(amf, ran, nas) ==
  PDU("DownlinkNASTransport", Initiating, [amf |-> amf, ran |-> ran, nas |-> nas])

Tunnel(ip, teid) == [address |-> ip, teid |-> BigEndian(teid, 4)]

BuildPDUSessionResourceSetupRequest(amf, ran, id, ip, ulTeid) ==
  PDU("PDUSessionResourceSetup", Initiating,
      [amf |-> amf, ran |-> ran, sessions |-> <<[id |-> id, transfer |-> Tunnel(ip, ulTeid)]>>])

\* The session's id is always 1.
BuildPDUSessionResourceSetupResponse(amf, ran, ip, dlTeid) ==
  PDU("PDUSessionResourceSetup", Successful,
      [amf |-> amf, ran |-> ran, sessions |-> <<[id |-> 1, transfer |-> Tunnel(ip, dlTeid)]>>])

\* extractUPFFTEID and DecodePDUSessionResourceSetupResponse.
FTEID(sessions) ==
  [ip |-> SubSeq(sessions[1].transfer.address, 1, 4), teid |-> Number(sessions[1].transfer.teid)]
============================================================================
