------------------------------ MODULE NasCodec ------------------------------
(***************************************************************************)
(* NAS messages and their bytes, as UE and AMF build and read them.  A     *)
(* builder takes the record of a message, a reader gives the record of     *)
(* what it extracts; Failed is an error, and a field that is not there is  *)
(* Absent.  SUPIs and PLMNs are their digits, DNNs their codes; the MNC,   *)
(* MCC and the security capability of a request are constants of the code. *)
(***************************************************************************)
EXTENDS Octets, SequencesExt

Failed == [kind |-> "failed"]
Absent == <<-1>>

MM == 126   \* EPD5GSMobilityManagement
SM == 46    \* EPD5GSSessionManagement

RegistrationRequest == 65
RegistrationAccept == 66
RegistrationComplete == 67
ULNASTransport == 103
DLNASTransport == 104
PDUSessionEstablishmentRequest == 193
PDUSessionEstablishmentAccept == 194
PDUSessionEstablishmentReject == 195

NotSet == 16777215   \* SD of a slice without differentiator

----------------------------------------------------------------------------
(* Information elements.                                                   *)

(* The last element of a message is not read.                              *)
ElementsButLast(data, from) ==
  LET upFrom[o \in 1..(Len(data) + 1)] ==
        IF o >= Len(data) \/ o + 1 + data[o + 1] >= Len(data) THEN <<>>
        ELSE <<[iei |-> data[o], value |-> SubSeq(data, o + 2, o + 1 + data[o + 1])]>>
               \o upFrom[o + 2 + data[o + 1]]
  IN IF from > Len(data) THEN <<>> ELSE upFrom[from]

\* Identifier, length, value, until one does not fit in the rest.
Elements(data, from) ==
  LET upFrom[o \in 1..(Len(data) + 1)] ==
        IF o >= Len(data) \/ o + 1 + data[o + 1] > Len(data) THEN <<>>
        ELSE <<[iei |-> data[o], value |-> SubSeq(data, o + 2, o + 1 + data[o + 1])]>>
               \o upFrom[o + 2 + data[o + 1]]
  IN IF from > Len(data) THEN <<>> ELSE upFrom[from]

\* The last of several values is the one that stays, if it has its least length.
Value(elements, iei, least) ==
  LET found == {k \in DOMAIN elements : elements[k].iei = iei /\ Len(elements[k].value) >= least}
  IN IF found = {} THEN Absent ELSE elements[Max(found)].value

EncodeMSIN(digits) ==
  [i \in 1..((Len(digits) + 1) \div 2) |->
     digits[2 * i - 1] + 16 * (IF 2 * i <= Len(digits) THEN digits[2 * i] ELSE Filler)]

\* Half an octet that is no digit is passed over.
Digit(n) == IF n <= 9 THEN <<n>> ELSE <<>>

DecodeMSIN(bytes) ==
  FlattenSeq([i \in 1..Len(bytes) |-> Digit(bytes[i] % 16) \o Digit(bytes[i] \div 16)])

\* PLMN 001-01, routing indicator, scheme and key of a concealed identity, and
\* the last ten digits.
EncodeSUPI(supi) ==
  LET msin == IF Len(supi) > 10 THEN SubSeq(supi, Len(supi) - 9, Len(supi)) ELSE supi
  IN <<1, 0, 241, 16, 0, 0, 0, 0>> \o EncodeMSIN(msin)

DecodeSUPIFromMobileIdentity(identity) ==
  LET msin == DecodeMSIN(SubSeq(identity, 9, Len(identity)))
  IN IF Len(identity) < 9 \/ identity[1] % 8 # 1 \/ msin = <<>> THEN Absent
     ELSE <<0, 0, 1, 0, 1>> \o msin

\* Region, set of 10 bits and pointer of 6 share three bytes.
EncodeGUTI(g) ==
  <<246>> \o EncodePLMN(g.plmn) \o <<g.region, g.set \div 4, (g.set % 4) * 64 + (g.pointer % 64)>>
    \o BigEndian(g.tmsi, 4)

DecodeGUTI(b) ==
  IF b = Absent \/ Len(b) < 10 THEN Absent
  ELSE [plmn |-> DecodePLMN(SubSeq(b, 2, 4)), region |-> b[5],
        set |-> ((b[6] * 4) % 256) + (b[7] \div 64), pointer |-> b[7] % 64,
        tmsi |-> Number(SubSeq(b, 8, 11))]

EncodeNSSAI(slices) ==
  FlattenSeq([i \in 1..Len(slices) |->
    IF slices[i].sd \in {0, NotSet} THEN <<1, slices[i].sst>>
    ELSE <<4, slices[i].sst>> \o BigEndian(slices[i].sd, 3)])

DecodeNSSAI(data) ==
  LET Slice(entry) == [sst |-> IF entry = <<>> THEN 0 ELSE entry[1],
                       sd |-> IF Len(entry) < 4 THEN NotSet ELSE Number(SubSeq(entry, 2, 4))]
      upFrom[o \in 1..(Len(data) + 1)] ==
        IF o > Len(data) \/ o + data[o] > Len(data) THEN <<>>
        ELSE <<Slice(SubSeq(data, o + 1, o + data[o]))>> \o upFrom[o + 1 + data[o]]
  IN IF data = Absent THEN <<>> ELSE upFrom[1]

DecodeDNN(b) ==
  IF b = Absent \/ b = <<>> \/ b[1] + 1 > Len(b) THEN <<>> ELSE SubSeq(b, 2, 1 + b[1])

DnnElement(dnn) == IF dnn = <<>> THEN <<>> ELSE <<37>> \o Prefixed(Prefixed(dnn))

----------------------------------------------------------------------------
(* Registration.                                                           *)

BuildRegistrationRequest(m) ==
  <<MM, 0, RegistrationRequest, (m.type % 8) + Bit(m.followOn, 8), 14>>
    \o Prefixed(EncodeSUPI(m.supi))
    \o <<46, 2, 192, 192>>
    \o <<47>> \o Prefixed(<<1, 1>>)

DecodeRegistrationRequest(payload) ==
  LET fits == Len(payload) > 2 /\ 3 + payload[3] <= Len(payload)
      identity == IF fits THEN SubSeq(payload, 4, 3 + payload[3]) ELSE <<>>
      elements == Elements(payload, IF fits THEN 4 + payload[3] ELSE 4)
  IN IF Len(payload) < 2 THEN Failed
     ELSE [kind |-> "registration request",
           type |-> payload[1] % 8, followOn |-> Has(payload[1], 8),
           supi |-> DecodeSUPIFromMobileIdentity(identity),
           slices |-> DecodeNSSAI(Value(elements, 47, 0))]

\* The AMF always assigns a GUTI.
BuildRegistrationAccept(m) ==
  <<MM, 0, RegistrationAccept, m.result>>
    \o <<119>> \o Prefixed(EncodeGUTI(m.guti))
    \o (IF m.slices = <<>> THEN <<>> ELSE <<21>> \o Prefixed(EncodeNSSAI(m.slices)))
    \o <<94>> \o Prefixed(<<45>>)

DecodeRegistrationAccept(payload) ==
  IF payload = <<>> THEN Failed
  ELSE LET elements == Elements(payload, 2)
       IN [kind |-> "registration accept", result |-> payload[1] % 8,
           guti |-> DecodeGUTI(Value(elements, 119, 0)),
           slices |-> DecodeNSSAI(Value(elements, 21, 0)),
           t3512 |-> Value(elements, 94, 1)]

BuildRegistrationComplete == <<MM, 0, RegistrationComplete>>

----------------------------------------------------------------------------
(* Sessions: an SM message in an MM message.                               *)

Transport(type, id, sm) ==
  <<MM, 0, type, 1>> \o BigEndian(Len(sm) % 65536, 2) \o sm \o <<18, id>>

BuildULNASTransportMM(id, sm) == Transport(ULNASTransport, id, sm)
BuildDLNASTransportMM(id, sm) == Transport(DLNASTransport, id, sm)

\* Both readers: the AMF's on the payload, the UE's on the whole message.
Container(msg) ==
  LET length == Number(SubSeq(msg, 5, 6))
  IN IF Len(msg) < 6 \/ 6 + length > Len(msg) THEN <<>> ELSE SubSeq(msg, 7, 6 + length)

\* IPv4 and SSC mode 1, and the slice for broadband.
BuildPDUSessionEstablishmentRequest(m) ==
  <<SM, m.id, 1, PDUSessionEstablishmentRequest, 17>> \o DnnElement(m.dnn)
    \o <<34>> \o Prefixed(<<1, 1>>)

DecodePDUSessionEstablishmentRequest(data) ==
  IF Len(data) < 5 THEN Failed
  ELSE [kind |-> "session request", id |-> data[2],
        dnn |-> DecodeDNN(Value(Elements(data, 6), 37, 0))]

DefaultQoSRules == <<1, 0, 6, 49, 1, 1, 1, 1, 1>>
SessionAMBR == <<6, 6, 0, 100, 6, 0, 100>>

BuildPDUSessionEstablishmentAccept(m) ==
  <<SM, m.id, 1, PDUSessionEstablishmentAccept, 1>>
    \o BigEndian(Len(DefaultQoSRules), 2) \o DefaultQoSRules \o SessionAMBR
    \o (IF m.ip = Absent THEN <<>> ELSE <<41>> \o Prefixed(<<1>> \o m.ip))
    \o DnnElement(m.dnn)

AppendDownlinkTEID(msg, teid) ==
  IF teid = 0 THEN msg ELSE msg \o <<120>> \o Prefixed(BigEndian(teid, 4))

\* Of IPv4, behind the type; the last of several.
Address(elements) ==
  LET found == {k \in DOMAIN elements : elements[k].iei = 41
                  /\ Len(elements[k].value) >= 5 /\ elements[k].value[1] = 1}
  IN IF found = {} THEN Absent ELSE SubSeq(elements[Max(found)].value, 2, 5)

DecodePDUSessionEstablishmentAccept(data) ==
  IF Len(data) < 5 THEN Failed
  ELSE LET ambr == 8 + Number(SubSeq(data, 6, 7))
           elements == IF Len(data) < 7 \/ ambr > Len(data) THEN <<>>
                       ELSE Elements(data, ambr + 1 + data[ambr])
           teid == Value(elements, 120, 4)
       IN [kind |-> "session accept", id |-> data[2],
           ip |-> Address(elements),
           dnn |-> DecodeDNN(Value(elements, 37, 0)),
           dlTeid |-> IF teid = Absent THEN 0 ELSE Number(SubSeq(teid, 1, 4))]

BuildPDUSessionEstablishmentReject(m) ==
  <<SM, m.id, 1, PDUSessionEstablishmentReject, m.cause>>

----------------------------------------------------------------------------
(* What a receiver takes a message for.                                    *)

\* handleULNASTransportSM: the AMF knows one SM message.
AmfReadsSession(sm) ==
  IF Len(sm) < 4 \/ sm[4] # PDUSessionEstablishmentRequest THEN Failed
  ELSE DecodePDUSessionEstablishmentRequest(sm)

\* routeNASMessage.
AmfReads(nas) ==
  IF Len(nas) < 3 THEN Failed
  ELSE CASE nas[3] = RegistrationRequest  -> DecodeRegistrationRequest(SubSeq(nas, 4, Len(nas)))
         [] nas[3] = RegistrationComplete -> [kind |-> "registration complete"]
         [] nas[3] = ULNASTransport       -> AmfReadsSession(Container(nas))
         [] OTHER                         -> Failed

\* handleDLNASTransport.
UeReadsSession(sm) ==
  IF Len(sm) < 4 THEN Failed
  ELSE CASE sm[4] = PDUSessionEstablishmentAccept -> DecodePDUSessionEstablishmentAccept(sm)
         [] sm[4] = PDUSessionEstablishmentReject /\ Len(sm) > 4 ->
              [kind |-> "session reject", cause |-> sm[5]]
         [] OTHER -> Failed

\* handleNAS; a Registration Reject is none of the messages the UE knows.
UeReads(nas) ==
  IF Len(nas) < 3 THEN Failed
  ELSE CASE nas[3] = RegistrationAccept -> DecodeRegistrationAccept(SubSeq(nas, 4, Len(nas)))
         [] nas[3] = DLNASTransport     -> UeReadsSession(Container(nas))
         [] OTHER                       -> Failed
============================================================================
