------------------------------- MODULE N2Setup ------------------------------
(***************************************************************************)
(* How a gNB comes to serve UEs: it dials the AMF, exchanges NG Setup with *)
(* it and gives up after a number of attempts or a time.  The AMF has a    *)
(* goroutine per association.  Then one message of a UE crosses N2 in one  *)
(* direction or the other, octet by octet, to its reader at the other end; *)
(* what the messages do there is in N2Attach.                              *)
(*                                                                         *)
(* rans is keyed by the remote address; each gNB process dials from an     *)
(* address of its own.  A gNB that is started again is another member of   *)
(* Gnbs.  The AMF may crash and be started again, and an association may   *)
(* break.                                                                  *)
(***************************************************************************)
EXTENDS NgapCodec, FiniteSets

CONSTANTS
  Gnbs,         \* gNB processes
  GnbConfig,    \* Config of each
  AmfConfigs,   \* possible Configs of the AMF
  MaxAttempts,  \* 15 in the code
  Supis, Dnns, Slices, Addresses, Teids, Tmsis,   \* bound: what messages carry
  None

\* The identity of a gNB is 28 bits, its tracking area 3 bytes, the pointer of an
\* AMF 6 bits, and a PLMN has five or six digits.
ASSUME SetupAssumption ==
  /\ MaxAttempts \in Nat \ {0}
  /\ \A g \in Gnbs : GnbConfig[g].id \in 0..(2 ^ 28 - 1) /\ GnbConfig[g].tac \in 0..(2 ^ 24 - 1)
  /\ \A c \in AmfConfigs :
       /\ c.region \in 0..255 /\ c.set \in 0..255 /\ c.pointer \in 0..63
       /\ c.plmn \in Seq(0..9) /\ Len(c.plmn) \in {5, 6}

\* What messages carry: a SUPI of PLMN 001-01, which encodeSUPI writes for all; a
\* name and slices that fit the length in front of them, no slice with SD 0, which
\* is written like none; addresses of four octets and numbers of 32 bits.
ASSUME MessageAssumption ==
  /\ \A supi \in Supis :
       supi \in Seq(0..9) /\ Len(supi) = 15 /\ SubSeq(supi, 1, 5) = <<0, 0, 1, 0, 1>>
  /\ \A dnn \in Dnns : dnn \in Seq(0..255) /\ Len(dnn) < 255
  /\ \A slices \in Slices :
       slices \in Seq([sst : 0..255, sd : 1..NotSet]) /\ Len(EncodeNSSAI(slices)) < 256
  /\ \A ip \in Addresses : ip \in Seq(0..255) /\ Len(ip) = 4
  /\ \A n \in Teids \cup Tmsis : n \in Nat /\ n \div (256 * 256) < 256 * 256

VARIABLES
  phase,      \* gNB: how far Start has come
  attempts,   \* gNB: failed dials
  amf,        \* gNB: AMFContext, set when setupDone is closed
  amfUp,      \* the AMF runs
  config,     \* AMF: Config; "encodable" if the ASN.1 library takes its names
  rans,       \* AMF: the RAN of each address
  replying,   \* AMF: associations whose goroutine has yet to answer the set-up
  open,       \* the association is there
  toAmf, toGnb,   \* messages on it
  said,       \* the UE message that was sent
  heard       \* what its receiver read

gnbVars   == <<phase, attempts, amf>>
amfVars   == <<amfUp, config, rans, replying>>
assocVars == <<open, toAmf, toGnb>>
ueVars    == <<said, heard>>
vars == <<phase, attempts, amf, amfUp, config, rans, replying, open, toAmf, toGnb,
          said, heard>>

TypeOK ==
  /\ phase \in [Gnbs -> {"off", "dialing", "connected", "waiting", "up", "dead"}]
  /\ attempts \in [Gnbs -> 0..MaxAttempts]
  /\ config \in AmfConfigs
  /\ \A g \in Gnbs :
       /\ open[g] => phase[g] \in {"connected", "waiting", "up"} /\ amfUp
       /\ Len(toAmf[g]) <= 1 /\ Len(toGnb[g]) <= 1
       /\ Len(toAmf[g]) + Len(toGnb[g]) > 0 => open[g]
       /\ replying[g] => rans[g] # None
       /\ amf[g] # None => phase[g] \in {"waiting", "up", "dead"}

Init ==
  /\ phase = [g \in Gnbs |-> "off"]
  /\ attempts = [g \in Gnbs |-> 0]
  /\ amf = [g \in Gnbs |-> None]
  /\ amfUp = FALSE
  /\ config \in AmfConfigs
  /\ rans = [g \in Gnbs |-> None]
  /\ replying = [g \in Gnbs |-> FALSE]
  /\ open = [g \in Gnbs |-> FALSE]
  /\ toAmf = [g \in Gnbs |-> <<>>]
  /\ toGnb = [g \in Gnbs |-> <<>>]
  /\ said = None
  /\ heard = None

Send(queue, g, pdu) == queue' = [queue EXCEPT ![g] = Append(@, pdu)]
Receive(queue, g)   == queue' = [queue EXCEPT ![g] = Tail(@)]
Closed(lost) ==
  /\ open'  = [g \in Gnbs |-> open[g] /\ g \notin lost]
  /\ toAmf' = [g \in Gnbs |-> IF g \in lost THEN <<>> ELSE toAmf[g]]
  /\ toGnb' = [g \in Gnbs |-> IF g \in lost THEN <<>> ELSE toGnb[g]]

----------------------------------------------------------------------------
(* The gNB.                                                                *)

Start(g) ==
  /\ phase[g] = "off"
  /\ phase' = [phase EXCEPT ![g] = "dialing"]
  /\ UNCHANGED <<attempts, amf, amfVars, assocVars, ueVars>>

Connect(g) ==
  /\ phase[g] = "dialing"
  /\ amfUp
  /\ phase' = [phase EXCEPT ![g] = "connected"]
  /\ open' = [open EXCEPT ![g] = TRUE]
  /\ UNCHANGED <<attempts, amf, amfVars, toAmf, toGnb, ueVars>>

ConnectFails(g) ==
  /\ phase[g] = "dialing"
  /\ attempts' = [attempts EXCEPT ![g] = @ + 1]
  /\ phase' = [phase EXCEPT ![g] = IF attempts'[g] = MaxAttempts THEN "dead" ELSE @]
  /\ UNCHANGED <<amf, amfVars, assocVars, ueVars>>

\* SetConn and sendNGSetupRequest; a write to a broken association ends Start.
SendNGSetupRequest(g) ==
  /\ phase[g] = "connected"
  /\ IF open[g]
     THEN /\ phase' = [phase EXCEPT ![g] = "waiting"]
          /\ Send(toAmf, g, BuildNGSetupRequest(GnbConfig[g]))
     ELSE /\ phase' = [phase EXCEPT ![g] = "dead"]
          /\ UNCHANGED toAmf
  /\ UNCHANGED <<attempts, amf, amfVars, open, toGnb, ueVars>>

HandleNGSetupResponse(g) ==
  /\ toGnb[g] # <<>>
  /\ HandlerKey(Head(toGnb[g])) = <<"NGSetup", Successful>>
  /\ amf' = [amf EXCEPT ![g] = AMFContext(Head(toGnb[g]))]
  /\ Receive(toGnb, g)
  /\ UNCHANGED <<phase, attempts, amfVars, open, toAmf, ueVars>>

\* WaitForSetup sees setupDone, and UEs are let in.
SetupDone(g) ==
  /\ phase[g] = "waiting"
  /\ amf[g] # None
  /\ phase' = [phase EXCEPT ![g] = "up"]
  /\ UNCHANGED <<attempts, amf, amfVars, assocVars, ueVars>>

(* No timeout: the gNB waits as long as the association is there.         *)
SetupTimedOutWhenClosed(g) == phase[g] = "waiting" /\ ~open[g]

\* After 10 s, whether or not setupDone has been closed by then, or because the
\* port of the GTP relay is taken.
SetupTimedOut(g) == phase[g] = "waiting"

(* Start returns, but the association stays.                              *)
GiveUpConnected(g) ==
  /\ SetupTimedOut(g)
  /\ phase' = [phase EXCEPT ![g] = "dead"]
  /\ UNCHANGED <<attempts, amf, amfVars, assocVars, ueVars>>

GiveUp(g) ==
  /\ SetupTimedOut(g)
  /\ phase' = [phase EXCEPT ![g] = "dead"]
  /\ Closed({g})
  /\ UNCHANGED <<attempts, amf, amfVars, ueVars>>

----------------------------------------------------------------------------
(* The AMF.                                                                *)

AmfStart ==
  /\ ~amfUp
  /\ amfUp' = TRUE
  /\ UNCHANGED <<gnbVars, config, rans, replying, assocVars, ueVars>>

AmfCrash ==
  /\ amfUp
  /\ amfUp' = FALSE
  /\ rans' = [g \in Gnbs |-> None]
  /\ replying' = [g \in Gnbs |-> FALSE]
  /\ Closed(Gnbs)
  /\ UNCHANGED <<gnbVars, config, ueVars>>

NextForAmf(g) == amfUp /\ ~replying[g] /\ toAmf[g] # <<>>

\* AddRAN.
HandleNGSetupRequest(g) ==
  /\ NextForAmf(g)
  /\ HandlerKey(Head(toAmf[g])) = <<"NGSetup", Initiating>>
  /\ rans' = [rans EXCEPT ![g] = RAN(Head(toAmf[g]))]
  /\ replying' = [replying EXCEPT ![g] = TRUE]
  /\ Receive(toAmf, g)
  /\ UNCHANGED <<gnbVars, amfUp, config, open, toGnb, ueVars>>

(* The RAN is removed whether or not the answer could be sent.            *)
SendNGSetupResponseRemoving(g) ==
  /\ replying[g]
  /\ replying' = [replying EXCEPT ![g] = FALSE]
  /\ rans' = [rans EXCEPT ![g] = None]
  /\ IF config.encodable /\ open[g]
     THEN Send(toGnb, g, BuildNGSetupResponse(config))
     ELSE UNCHANGED toGnb
  /\ UNCHANGED <<gnbVars, amfUp, config, open, toAmf, ueVars>>

\* An answer that cannot be built leaves the RAN, one that cannot be sent
\* removes it.
SendNGSetupResponse(g) ==
  /\ replying[g]
  /\ replying' = [replying EXCEPT ![g] = FALSE]
  /\ IF config.encodable /\ open[g]
     THEN Send(toGnb, g, BuildNGSetupResponse(config))
     ELSE UNCHANGED toGnb
  /\ rans' = IF config.encodable /\ ~open[g] THEN [rans EXCEPT ![g] = None] ELSE rans
  /\ UNCHANGED <<gnbVars, amfUp, config, open, toAmf, ueVars>>

Break(g) ==
  /\ open[g]
  /\ Closed({g})
  /\ UNCHANGED <<gnbVars, amfVars, ueVars>>

----------------------------------------------------------------------------
(* A message of a UE.  Its ids at the AMF and the gNB differ.              *)

AmfId == 7
RanId == 1

Broadband == [sst |-> 1, sd |-> NotSet]

Request(supi) ==
  [kind |-> "registration request", type |-> 1, followOn |-> TRUE, supi |-> supi,
   slices |-> <<Broadband>>]
Complete == [kind |-> "registration complete"]
SessionRequest(dnn) == [kind |-> "session request", id |-> 1, dnn |-> dnn]
TunnelEnd(kind, ip, teid) == [kind |-> kind, ip |-> ip, teid |-> teid]
TunnelEnds(kind) == {TunnelEnd(kind, ip, teid) : ip \in Addresses, teid \in Teids}

UplinkMessages ==
  {Request(supi) : supi \in Supis} \cup {Complete} \cup {SessionRequest(dnn) : dnn \in Dnns}
    \cup TunnelEnds("downlink tunnel")

Guti(c, tmsi) ==
  [plmn |-> c.plmn, region |-> c.region, set |-> c.set, pointer |-> c.pointer, tmsi |-> tmsi]

Accept(c, tmsi, slices) ==
  [kind |-> "registration accept", result |-> 1, guti |-> Guti(c, tmsi), slices |-> slices,
   t3512 |-> <<45>>]
Accepts(c) == {Accept(c, tmsi, slices) : tmsi \in Tmsis, slices \in Slices}
SessionAccept(ip, dnn, teid) ==
  [kind |-> "session accept", id |-> 1, ip |-> ip, dnn |-> dnn, dlTeid |-> teid]
SessionAccepts ==
  {SessionAccept(ip, dnn, teid) :
     ip \in Addresses \cup {Absent}, dnn \in Dnns \ {<<>>}, teid \in Teids}
SessionReject == [kind |-> "session reject", cause |-> 26]

DownlinkMessages(c) ==
  Accepts(c) \cup SessionAccepts \cup {SessionReject} \cup TunnelEnds("uplink tunnel")

UplinkNas(m) ==
  CASE m.kind = "registration request"  -> BuildRegistrationRequest(m)
    [] m.kind = "registration complete" -> BuildRegistrationComplete
    [] m.kind = "session request" ->
         BuildULNASTransportMM(m.id, BuildPDUSessionEstablishmentRequest(m))

\* relayUplinkNAS, and the answer to a resource setup.
UplinkPDU(g, m) ==
  IF m.kind = "downlink tunnel"
  THEN BuildPDUSessionResourceSetupResponse(AmfId, RanId, m.ip, m.teid)
  ELSE IF m.kind = "registration request"
  THEN InitialUEMessage(RanId, UplinkNas(m), GnbConfig[g])
  ELSE UplinkNASTransport(AmfId, RanId, UplinkNas(m))

DownlinkNas(m) ==
  CASE m.kind = "registration accept" -> BuildRegistrationAccept(m)
    [] m.kind = "session accept" ->
         BuildDLNASTransportMM(m.id,
           AppendDownlinkTEID(BuildPDUSessionEstablishmentAccept(m), m.dlTeid))
    [] m.kind = "session reject" ->
         BuildDLNASTransportMM(1, BuildPDUSessionEstablishmentReject([id |-> 1, cause |-> m.cause]))

\* sendDownlinkNASTransport and sendPDUSessionResourceSetupRequest.
DownlinkPDU(m) ==
  IF m.kind = "uplink tunnel"
  THEN BuildPDUSessionResourceSetupRequest(AmfId, RanId, 1, m.ip, m.teid)
  ELSE DownlinkNASTransport(AmfId, RanId, DownlinkNas(m))

\* The receiver's id of the UE, and the message.
Read(id, m) == [id |-> id, m |-> m]
Dropped == Read(0, [kind |-> "dropped"])

UplinkId(m) == IF m.kind = "registration request" THEN RanId ELSE AmfId

\* None is no context and no message.
ASSUME NoneAssumption ==
  /\ \A g \in Gnbs : None # RAN(BuildNGSetupRequest(GnbConfig[g]))
  /\ \A m \in UplinkMessages : None # Read(UplinkId(m), m)
  /\ \A c \in AmfConfigs :
       /\ None # AMFContext(BuildNGSetupResponse(c))
       /\ \A m \in DownlinkMessages(c) : None # Read(RanId, m)

TunnelRead(kind, id, pdu) ==
  Read(id, TunnelEnd(kind, FTEID(pdu.ies.sessions).ip, FTEID(pdu.ies.sessions).teid))

AmfRead(pdu) ==
  CASE HandlerKey(pdu) \notin AmfHandlers     -> Dropped
    [] pdu.procedure = "InitialUEMessage"        -> Read(pdu.ies.ran, AmfReads(pdu.ies.nas))
    [] pdu.procedure = "UplinkNASTransport"      -> Read(pdu.ies.amf, AmfReads(pdu.ies.nas))
    [] pdu.procedure = "PDUSessionResourceSetup" -> TunnelRead("downlink tunnel", pdu.ies.amf, pdu)

\* What the UE reads of the NAS message, or the gNB of the tunnel.
GnbRead(pdu) ==
  CASE HandlerKey(pdu) \notin GnbHandlers     -> Dropped
    [] pdu.procedure = "DownlinkNASTransport"    -> Read(pdu.ies.ran, UeReads(pdu.ies.nas))
    [] pdu.procedure = "PDUSessionResourceSetup" -> TunnelRead("uplink tunnel", pdu.ies.ran, pdu)

SendUplink(g) ==
  /\ phase[g] = "up" /\ open[g] /\ said = None
  /\ \E m \in UplinkMessages :
       /\ Send(toAmf, g, UplinkPDU(g, m))
       /\ said' = Read(UplinkId(m), m)
  /\ UNCHANGED <<gnbVars, amfVars, open, toGnb, heard>>

\* The AMF turns to a UE after a message of it: its gNB is up.
SendDownlink(g) ==
  /\ phase[g] = "up" /\ open[g] /\ said = None /\ amfUp /\ ~replying[g]
  /\ \E m \in DownlinkMessages(config) :
       /\ Send(toGnb, g, DownlinkPDU(m))
       /\ said' = Read(RanId, m)
  /\ UNCHANGED <<gnbVars, amfVars, open, toAmf, heard>>

\* Messages of an unknown RAN are dropped; the resource setup response is not
\* looked up there.
ReceiveUplink(g) ==
  /\ NextForAmf(g)
  /\ LET pdu == Head(toAmf[g])
     IN /\ HandlerKey(pdu) # <<"NGSetup", Initiating>>
        /\ heard' = IF rans[g] = None /\ pdu.procedure # "PDUSessionResourceSetup"
                    THEN Dropped ELSE AmfRead(pdu)
  /\ Receive(toAmf, g)
  /\ UNCHANGED <<gnbVars, amfVars, open, toGnb, said>>

ReceiveDownlink(g) ==
  /\ toGnb[g] # <<>>
  /\ HandlerKey(Head(toGnb[g])) # <<"NGSetup", Successful>>
  /\ heard' = GnbRead(Head(toGnb[g]))
  /\ Receive(toGnb, g)
  /\ UNCHANGED <<gnbVars, amfVars, open, toAmf, said>>

----------------------------------------------------------------------------

GnbStep(g) ==
  \/ Connect(g) \/ ConnectFails(g) \/ SendNGSetupRequest(g)
  \/ SetupDone(g) \/ GiveUp(g)

AmfStep(g) == HandleNGSetupRequest(g) \/ SendNGSetupResponse(g)

UeStep(g) == SendUplink(g) \/ SendDownlink(g) \/ ReceiveUplink(g) \/ ReceiveDownlink(g)

Next ==
  \/ AmfStart \/ AmfCrash
  \/ \E g \in Gnbs : Start(g) \/ GnbStep(g) \/ HandleNGSetupResponse(g)
                       \/ AmfStep(g) \/ Break(g) \/ UeStep(g)

Spec == Init /\ [][Next]_vars

\* Start goes on: dials return, and its sleeps and its wait end.
FairSpec == Spec /\ \A g \in Gnbs : WF_vars(GnbStep(g))

----------------------------------------------------------------------------
(* Properties.                                                             *)

\* While a gNB that serves UEs has its association, the AMF knows it by its
\* identity, name and tracking area, and it knows the AMF's name, PLMN, region,
\* pointer and the first eight bits of its set; otherwise the AMF would drop the
\* messages of its UEs.
SetupAgreement ==
  \A g \in Gnbs : phase[g] = "up" /\ open[g] =>
    /\ rans[g] # None
    /\ Number(rans[g].id) = 16 * GnbConfig[g].id
    /\ rans[g].name = GnbConfig[g].name
    /\ Len(rans[g].tacs) = 1 /\ Number(rans[g].tacs[1]) = GnbConfig[g].tac
    /\ amf[g].name = config.name
    /\ amf[g].plmns = <<config.plmn>>
    /\ amf[g].region = config.region /\ amf[g].pointer = config.pointer
    /\ amf[g].set = config.set \div 4

\* What a receiver reads is what was sent, under the id it knows the UE by: no
\* message is without handler, of an unknown RAN, or other than it was through
\* NAS and NGAP encoding and decoding.
AsSent == heard # None => heard = said

\* A gNB that dials ends up serving UEs or exits, whatever AMF and network do.
SetupEnds == \A g \in Gnbs : (phase[g] = "dialing") ~> (phase[g] \in {"up", "dead"})
============================================================================
