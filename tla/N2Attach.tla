------------------------------ MODULE N2Attach ------------------------------
(***************************************************************************)
(* Registration and PDU session establishment across UE, gNB and AMF.      *)
(*                                                                         *)
(*   UE  --- SCTP, raw NAS ---  gNB  --- SCTP, NGAP ---  AMF  --- HTTP --- *)
(*                                                     UDM and SMF         *)
(*                                                                         *)
(* Every SCTP association is a FIFO.  The AMF serves one gNB connection    *)
(* after the other message in one goroutine, so a handler of it is one     *)
(* action: while it waits for the UDM or the SMF nothing else touches what *)
(* it reads.  The gNB has a goroutine per UE connection and one loop for   *)
(* the AMF's messages; that loop opens tunnels and waits for the UPF       *)
(* between two messages, and has a program counter.                        *)
(*                                                                         *)
(* Session n of the SMF stands for its n-th address and its n-th uplink    *)
(* TEID, which SmfSessions shows to be its own.  A SUPI is the UE itself.  *)
(* Associations between gNB and AMF stay up here, and a write on one       *)
(* succeeds: N2Setup is about those that break.                            *)
(***************************************************************************)
EXTENDS Naturals, Sequences, FiniteSets

CONSTANTS
  UEs,
  Gnbs,
  Home,     \* the gNB each UE is configured with
  MaxRan,   \* bound: connections a gNB accepts in a behaviour
  MaxConns, \* bound: connections all gNBs accept in a behaviour
  None      \* no connection, session, tunnel or accept

ASSUME N2Assumption ==
  /\ IsFiniteSet(Gnbs)
  /\ Home \in [UEs -> Gnbs]
  /\ MaxRan \in Nat \ {0}
  /\ MaxConns \in Nat

\* Bound: a connection brings at most one registration and one session request.
MaxIds == Cardinality(Gnbs) * MaxRan

RanIds   == 1..MaxRan
Sessions == 1..MaxIds

\* The AMF passes this RAN-UE-NGAP-ID with every session message.
SessionRanId == 1

VARIABLES
  ue,          \* each UE: phase, RAN id of its connection, identity, address, DL TEID
  nextRan,     \* gNB: nextRanID
  conns,       \* gNB: uesByRanID, with the two queues of the UE's association
  loop,        \* gNB: where its AMF read loop is, and the handler's locals
  nextDl,      \* gNB: nextDLTEID
  tunnels,     \* gNB: DL TEIDs with an open UPF-facing socket
  ueSessions,  \* gNB: ueSessions, by RAN id
  broken,      \* gNB: DL TEIDs that got no tunnel (logged only)
  silent,      \* gNB: sessions whose resource setup was not answered (logged only)
  toAmf,       \* NGAP messages from each gNB
  toGnb,       \* NGAP messages to each gNB
  contexts,    \* AMF: byNgapID; the AMF-UE-NGAP-ID is the index
  smf,         \* SMF: the subscriber of each session it ever created
  peer         \* UPF: where each session's downlink goes

ueVars  == <<ue>>
gnbVars == <<nextRan, conns, loop, nextDl, tunnels, ueSessions, broken, silent>>
amfVars == <<contexts, smf>>
n2      == <<toAmf, toGnb>>
vars    == <<ue, nextRan, conns, loop, nextDl, tunnels, ueSessions, broken, silent,
             toAmf, toGnb, contexts, smf, peer>>

Phases == {"off", "registering", "registered", "active"}

UplinkNas ==
  [nas : {"regRequest"}, supi : UEs] \cup [nas : {"regComplete", "pduRequest"}]

DownlinkNas ==
  [nas : {"regAccept"}, guti : Sessions]
    \cup [nas : {"pduAccept"}, ip : Sessions, dl : 0..MaxIds]
    \cup [nas : {"regReject", "pduReject"}]

UplinkNgap ==
  [type : {"initialUE"}, ran : RanIds, pdu : UplinkNas]
    \cup [type : {"uplinkNAS"}, amf : 0..MaxIds, ran : RanIds, pdu : UplinkNas]
    \cup [type : {"setupResponse"}, amf : Sessions, dl : Sessions]

DownlinkNgap ==
  [type : {"downlinkNAS"}, amf : 0..MaxIds, ran : RanIds, pdu : DownlinkNas]
    \cup [type : {"setupRequest"}, amf : Sessions, ran : RanIds, ul : Sessions]

Connection == [ue : UEs, open : BOOLEAN, first : BOOLEAN, amf : 0..MaxIds,
               up : Seq(UplinkNas), down : Seq(DownlinkNas)]

ASSUME NoneAssumption == None \notin Connection

Context == [supi : UEs, gnb : Gnbs, ran : RanIds, state : {"registering", "registered"},
            session : 0..MaxIds, pending : 0..MaxIds]

TypeOK ==
  /\ ue \in [UEs -> [phase : Phases, ran : 0..MaxRan, guti : 0..MaxIds,
                     ip : 0..MaxIds, dl : 0..MaxIds, refused : BOOLEAN]]
  /\ nextRan \in [Gnbs -> 0..MaxRan]
  /\ conns \in [Gnbs -> [RanIds -> Connection \cup {None}]]
  /\ loop \in [Gnbs -> [pc : {"read", "open", "notify"}, ran : 0..MaxRan,
                        ul : 0..MaxIds, dl : 0..MaxIds]]
  /\ nextDl \in [Gnbs -> 1..(MaxIds + 1)]
  /\ tunnels \in [Gnbs -> SUBSET Sessions]
  /\ ueSessions \in [Gnbs -> [RanIds -> [ul : Sessions, dl : Sessions] \cup {None}]]
  /\ broken \in [Gnbs -> SUBSET Sessions]
  /\ silent \in [Gnbs -> SUBSET Sessions]
  /\ toAmf \in [Gnbs -> Seq(UplinkNgap)]
  /\ toGnb \in [Gnbs -> Seq(DownlinkNgap)]
  /\ contexts \in Seq(Context) /\ Len(contexts) <= MaxIds
  /\ smf \in Seq(UEs) /\ Len(smf) <= MaxIds
  /\ peer \in [Sessions -> [gnb : Gnbs, dl : Sessions] \cup {None}]

UeOff   == [phase |-> "off", ran |-> 0, guti |-> 0, ip |-> 0, dl |-> 0, refused |-> FALSE]
Reading == [pc |-> "read", ran |-> 0, ul |-> 0, dl |-> 0]

Init ==
  /\ ue = [u \in UEs |-> UeOff]
  /\ nextRan = [g \in Gnbs |-> 0]
  /\ conns = [g \in Gnbs |-> [r \in RanIds |-> None]]
  /\ loop = [g \in Gnbs |-> Reading]
  /\ nextDl = [g \in Gnbs |-> 1]
  /\ tunnels = [g \in Gnbs |-> {}]
  /\ ueSessions = [g \in Gnbs |-> [r \in RanIds |-> None]]
  /\ broken = [g \in Gnbs |-> {}]
  /\ silent = [g \in Gnbs |-> {}]
  /\ toAmf = [g \in Gnbs |-> <<>>]
  /\ toGnb = [g \in Gnbs |-> <<>>]
  /\ contexts = <<>>
  /\ smf = <<>>
  /\ peer = [n \in Sessions |-> None]

----------------------------------------------------------------------------
(* UE: Run, receiveLoop and the NAS handlers.                              *)

\* Head of what the gNB has sent UE u on its connection.
Received(u, kind) ==
  LET c == conns[Home[u]][ue[u].ran] IN
  /\ ue[u].phase # "off"
  /\ c # None
  /\ c.down # <<>>
  /\ Head(c.down).nas = kind

\* The connections the gNBs have accepted so far.
Accepted == {p \in Gnbs \X RanIds : p[2] <= nextRan[p[1]]}

Inbox(u) == Head(conns[Home[u]][ue[u].ran].down)

\* The UE takes the head of its inbox and sends the messages of reply.
Exchange(u, reply) ==
  LET c == conns[Home[u]][ue[u].ran] IN
  conns' = [conns EXCEPT ![Home[u]][ue[u].ran] =
              [c EXCEPT !.down = Tail(c.down), !.up = c.up \o reply]]

(* A gNB that numbers connections by how many it has at the moment.        *)
UeStartReusingId(u) ==
  LET g == Home[u]
      r == Cardinality({x \in RanIds : conns[g][x] # None}) + 1
  IN
  /\ ue[u].phase = "off"
  /\ nextRan[g] < MaxRan /\ Cardinality(Accepted) < MaxConns
  /\ nextRan' = [nextRan EXCEPT ![g] = @ + 1]
  /\ conns' = [conns EXCEPT ![g][r] =
                 [ue |-> u, open |-> TRUE, first |-> TRUE, amf |-> 0,
                  up |-> <<[nas |-> "regRequest", supi |-> u]>>, down |-> <<>>]]
  /\ ue' = [ue EXCEPT ![u] = [UeOff EXCEPT !.phase = "registering", !.ran = r]]
  /\ UNCHANGED <<loop, nextDl, tunnels, ueSessions, broken, silent, n2, amfVars, peer>>

\* Run: connect, be accepted by the gNB's UE listener, send Registration Request.
UeStart(u) ==
  LET g == Home[u] IN
  /\ ue[u].phase = "off"
  /\ nextRan[g] < MaxRan /\ Cardinality(Accepted) < MaxConns
  /\ nextRan' = [nextRan EXCEPT ![g] = @ + 1]
  /\ conns' = [conns EXCEPT ![g][nextRan'[g]] =
                 [ue |-> u, open |-> TRUE, first |-> TRUE, amf |-> 0,
                  up |-> <<[nas |-> "regRequest", supi |-> u]>>, down |-> <<>>]]
  /\ ue' = [ue EXCEPT ![u] = [UeOff EXCEPT !.phase = "registering", !.ran = nextRan'[g]]]
  /\ UNCHANGED <<loop, nextDl, tunnels, ueSessions, broken, silent, n2, amfVars, peer>>

\* handleRegistrationAccept: Registration Complete, and the session request at once.
UeRegistrationAccept(u) ==
  /\ Received(u, "regAccept")
  /\ Exchange(u, <<[nas |-> "regComplete"], [nas |-> "pduRequest"]>>)
  /\ ue' = [ue EXCEPT ![u].phase = "registered", ![u].guti = Inbox(u).guti]
  /\ UNCHANGED <<nextRan, loop, nextDl, tunnels, ueSessions, broken, silent, n2, amfVars, peer>>

\* handlePDUSessionAccept: takes the address and the DL TEID, if it is told one.
\* The data plane may fail to come up; the addresses stay.
UePduAccept(u) ==
  /\ Received(u, "pduAccept")
  /\ Exchange(u, <<>>)
  /\ \E phase \in {"active", ue[u].phase} :
        ue' = [ue EXCEPT ![u].phase = phase, ![u].ip = Inbox(u).ip,
                         ![u].dl = IF Inbox(u).dl = 0 THEN @ ELSE Inbox(u).dl]
  /\ UNCHANGED <<nextRan, loop, nextDl, tunnels, ueSessions, broken, silent, n2, amfVars, peer>>

\* A Registration Reject is an unhandled type, a session reject is printed: the
\* UE stays in its phase ("refused" is what its log shows).
UeReject(u) ==
  /\ Received(u, "regReject") \/ Received(u, "pduReject")
  /\ Exchange(u, <<>>)
  /\ ue' = [ue EXCEPT ![u].refused = TRUE]
  /\ UNCHANGED <<nextRan, loop, nextDl, tunnels, ueSessions, broken, silent, n2, amfVars, peer>>

\* The UE is stopped or dies: its association closes.
UeStop(u) ==
  LET c == conns[Home[u]][ue[u].ran] IN
  /\ ue[u].phase # "off"
  /\ ue' = [ue EXCEPT ![u] = UeOff]
  /\ conns' = [conns EXCEPT ![Home[u]][ue[u].ran] = [c EXCEPT !.open = FALSE, !.down = <<>>]]
  /\ UNCHANGED <<nextRan, loop, nextDl, tunnels, ueSessions, broken, silent, n2, amfVars, peer>>

----------------------------------------------------------------------------
(* gNB.                                                                    *)

(* A relay that sends the AMF every message of the UE twice.               *)
GnbRelayUplinkTwice(g, r) ==
  LET c == conns[g][r]
      Ngap(pdu) == IF c.first THEN [type |-> "initialUE", ran |-> r, pdu |-> pdu]
                              ELSE [type |-> "uplinkNAS", amf |-> c.amf, ran |-> r, pdu |-> pdu]
  IN
  /\ c # None
  /\ c.up # <<>>
  /\ conns' = [conns EXCEPT ![g][r] = [c EXCEPT !.up = Tail(c.up), !.first = FALSE]]
  /\ toAmf' = [toAmf EXCEPT ![g] = @ \o <<Ngap(Head(c.up)), Ngap(Head(c.up))>>]
  /\ UNCHANGED <<ueVars, nextRan, loop, nextDl, tunnels, ueSessions, broken, silent, toGnb, amfVars, peer>>

\* handleUEConn and relayUplinkNAS: the UE's first message opens the association
\* with the AMF, later ones carry the AMF id last seen for this connection.
GnbRelayUplink(g, r) ==
  LET c == conns[g][r]
      Ngap(pdu) == IF c.first THEN [type |-> "initialUE", ran |-> r, pdu |-> pdu]
                              ELSE [type |-> "uplinkNAS", amf |-> c.amf, ran |-> r, pdu |-> pdu]
  IN
  /\ c # None
  /\ c.up # <<>>
  /\ conns' = [conns EXCEPT ![g][r] = [c EXCEPT !.up = Tail(c.up), !.first = FALSE]]
  /\ toAmf' = [toAmf EXCEPT ![g] = Append(@, Ngap(Head(c.up)))]
  /\ UNCHANGED <<ueVars, nextRan, loop, nextDl, tunnels, ueSessions, broken, silent, toGnb, amfVars, peer>>

\* handleUEConn ends: the read fails, what the UE still had under way may be lost.
GnbUeGone(g, r) ==
  /\ conns[g][r] # None
  /\ ~conns[g][r].open
  /\ conns' = [conns EXCEPT ![g][r] = None]
  /\ UNCHANGED <<ueVars, nextRan, loop, nextDl, tunnels, ueSessions, broken, silent, n2, amfVars, peer>>

\* The gNB's read loop is free and its next message from the AMF is of this type.
Reads(g, type) ==
  /\ loop[g].pc = "read"
  /\ toGnb[g] # <<>>
  /\ Head(toGnb[g]).type = type

(* A relay that leaves the AMF id of the connection alone.                 *)
GnbRelayDownlinkNoId(g) ==
  LET m == Head(toGnb[g])
      c == conns[g][m.ran]
  IN
  /\ Reads(g, "downlinkNAS")
  /\ c # None
  /\ conns' = [conns EXCEPT ![g][m.ran].down = IF c.open THEN Append(@, m.pdu) ELSE @]
  /\ toGnb' = [toGnb EXCEPT ![g] = Tail(@)]
  /\ UNCHANGED <<ueVars, nextRan, loop, nextDl, tunnels, ueSessions, broken, silent, toAmf, amfVars, peer>>

\* HandleDownlinkNASTransport to a connected UE: relayDownlinkNAS adopts the AMF
\* id of the message, and writes to the UE (in vain when it has gone).
GnbRelayDownlink(g) ==
  LET m == Head(toGnb[g])
      c == conns[g][m.ran]
  IN
  /\ Reads(g, "downlinkNAS")
  /\ c # None
  /\ conns' = [conns EXCEPT ![g][m.ran] =
                 [c EXCEPT !.amf = m.amf,
                           !.down = IF c.open THEN Append(c.down, m.pdu) ELSE c.down]]
  /\ toGnb' = [toGnb EXCEPT ![g] = Tail(@)]
  /\ UNCHANGED <<ueVars, nextRan, loop, nextDl, tunnels, ueSessions, broken, silent, toAmf, amfVars, peer>>

\* HandleDownlinkNASTransport without a connection of that RAN id: dropped.
GnbDropDownlink(g) ==
  /\ Reads(g, "downlinkNAS")
  /\ conns[g][Head(toGnb[g]).ran] = None
  /\ toGnb' = [toGnb EXCEPT ![g] = Tail(@)]
  /\ UNCHANGED <<ueVars, gnbVars, toAmf, amfVars, peer>>

(* The response leaves and the loop reads on: the tunnel is opened later.  *)
GnbSetupRequestAsync(g) ==
  LET m == Head(toGnb[g]) IN
  /\ Reads(g, "setupRequest")
  /\ nextDl' = [nextDl EXCEPT ![g] = @ + 1]
  /\ toGnb' = [toGnb EXCEPT ![g] = Tail(@)]
  /\ toAmf' = [toAmf EXCEPT ![g] =
                 Append(@, [type |-> "setupResponse", amf |-> m.amf, dl |-> nextDl[g]])]
  /\ UNCHANGED <<ueVars, nextRan, conns, loop, tunnels, ueSessions, broken, silent, amfVars, peer>>

(* Every session of the gNB gets the same DL TEID.                         *)
GnbSetupRequestSameTeid(g) ==
  LET m == Head(toGnb[g]) IN
  /\ Reads(g, "setupRequest")
  /\ loop' = [loop EXCEPT ![g] = [pc |-> "open", ran |-> m.ran, ul |-> m.ul, dl |-> nextDl[g]]]
  /\ toGnb' = [toGnb EXCEPT ![g] = Tail(@)]
  /\ toAmf' = [toAmf EXCEPT ![g] =
                 Append(@, [type |-> "setupResponse", amf |-> m.amf, dl |-> nextDl[g]])]
  /\ UNCHANGED <<ueVars, nextRan, conns, nextDl, tunnels, ueSessions, broken, silent, amfVars, peer>>

\* HandlePDUSessionResourceSetupRequest: allocates the DL TEID and answers; the
\* tunnel is opened after the answer has left.
GnbSetupRequest(g) ==
  LET m == Head(toGnb[g]) IN
  /\ Reads(g, "setupRequest")
  /\ nextDl' = [nextDl EXCEPT ![g] = @ + 1]
  /\ loop' = [loop EXCEPT ![g] = [pc |-> "open", ran |-> m.ran, ul |-> m.ul, dl |-> nextDl[g]]]
  /\ toGnb' = [toGnb EXCEPT ![g] = Tail(@)]
  /\ toAmf' = [toAmf EXCEPT ![g] =
                 Append(@, [type |-> "setupResponse", amf |-> m.amf, dl |-> nextDl[g]])]
  /\ UNCHANGED <<ueVars, nextRan, conns, tunnels, ueSessions, broken, silent, amfVars, peer>>

\* The same, and the request cannot be read or the answer not be built: the
\* handler returns, before or after it took a DL TEID, and tells nobody.
GnbSetupFails(g) ==
  /\ Reads(g, "setupRequest")
  /\ \/ /\ nextDl' = [nextDl EXCEPT ![g] = @ + 1]
        /\ broken' = [broken EXCEPT ![g] = @ \cup {nextDl[g]}]
     \/ UNCHANGED <<nextDl, broken>>
  /\ silent' = [silent EXCEPT ![g] = @ \cup {Head(toGnb[g]).ul}]
  /\ toGnb' = [toGnb EXCEPT ![g] = Tail(@)]
  /\ UNCHANGED <<ueVars, nextRan, conns, loop, tunnels, ueSessions, toAmf, amfVars, peer>>

\* SetupUserPlane: opens the tunnel and registers the session by its RAN id.
GnbOpenTunnel(g) ==
  LET s == loop[g] IN
  /\ s.pc = "open"
  /\ tunnels' = [tunnels EXCEPT ![g] = @ \cup {s.dl}]
  /\ ueSessions' = [ueSessions EXCEPT ![g][s.ran] = [ul |-> s.ul, dl |-> s.dl]]
  /\ loop' = [loop EXCEPT ![g].pc = "notify"]
  /\ UNCHANGED <<ueVars, nextRan, conns, nextDl, broken, silent, n2, amfVars, peer>>

\* SetupUserPlane fails on its socket, or is skipped for want of a UL TEID or of
\* the UPF's address: logged, after the AMF was told all is well.
GnbOpenFails(g) ==
  /\ loop[g].pc = "open"
  /\ broken' = [broken EXCEPT ![g] = @ \cup {loop[g].dl}]
  /\ loop' = [loop EXCEPT ![g] = Reading]
  /\ UNCHANGED <<ueVars, nextRan, conns, nextDl, tunnels, ueSessions, silent, n2, amfVars, peer>>

\* notifyUPFOfGNBTunnel returns; the UPF has taken the peer, or not.
GnbNotifyUpf(g) ==
  LET s == loop[g] IN
  /\ s.pc = "notify"
  /\ loop' = [loop EXCEPT ![g] = Reading]
  /\ \/ peer' = [peer EXCEPT ![s.ul] = [gnb |-> g, dl |-> s.dl]]
     \/ UNCHANGED peer
  /\ UNCHANGED <<ueVars, nextRan, conns, nextDl, tunnels, ueSessions, broken, silent, n2, amfVars>>

----------------------------------------------------------------------------
(* AMF: one goroutine per gNB connection.                                  *)

\* The AMF takes the head of g's messages and sends g the messages of out.
AmfTurn(g, out) ==
  /\ toAmf' = [toAmf EXCEPT ![g] = Tail(@)]
  /\ toGnb' = [toGnb EXCEPT ![g] = @ \o out]
  /\ UNCHANGED <<ueVars, gnbVars, peer>>

AmfMessage(g, type) == toAmf[g] # <<>> /\ Head(toAmf[g]).type = type

\* A NAS message of a UE whose AMF id is known.
AmfUplink(g, nas) ==
  /\ AmfMessage(g, "uplinkNAS")
  /\ Head(toAmf[g]).amf \in DOMAIN contexts
  /\ Head(toAmf[g]).pdu.nas = nas

DownlinkNAS(amf, ran, pdu) == [type |-> "downlinkNAS", amf |-> amf, ran |-> ran, pdu |-> pdu]

(* Answers with the RAN id the session messages use.                       *)
AmfAcceptHardcoded(g) ==
  LET m == Head(toAmf[g])
      k == Len(contexts) + 1
  IN
  /\ AmfMessage(g, "initialUE")
  /\ m.pdu.nas = "regRequest"
  /\ contexts' = Append(contexts, [supi |-> m.pdu.supi, gnb |-> g, ran |-> m.ran,
                                   state |-> "registering", session |-> 0, pending |-> 0])
  /\ AmfTurn(g, <<DownlinkNAS(k, SessionRanId, [nas |-> "regAccept", guti |-> k])>>)
  /\ UNCHANGED smf

\* handleRegistrationRequest, the UDM has confirmed: a new context, also for a
\* subscriber that has one, and Registration Accept.
AmfAccept(g) ==
  LET m == Head(toAmf[g])
      k == Len(contexts) + 1
  IN
  /\ AmfMessage(g, "initialUE")
  /\ m.pdu.nas = "regRequest"
  /\ contexts' = Append(contexts, [supi |-> m.pdu.supi, gnb |-> g, ran |-> m.ran,
                                   state |-> "registering", session |-> 0, pending |-> 0])
  /\ AmfTurn(g, <<DownlinkNAS(k, m.ran, [nas |-> "regAccept", guti |-> k])>>)
  /\ UNCHANGED smf

\* handleRegistrationRequest, the UDM refuses or fails: Registration Reject.
AmfReject(g) ==
  LET m == Head(toAmf[g]) IN
  /\ AmfMessage(g, "initialUE")
  /\ m.pdu.nas = "regRequest"
  /\ AmfTurn(g, <<DownlinkNAS(0, m.ran, [nas |-> "regReject"])>>)
  /\ UNCHANGED amfVars

\* handleRegistrationComplete.
AmfComplete(g) ==
  /\ AmfUplink(g, "regComplete")
  /\ contexts' = [contexts EXCEPT ![Head(toAmf[g]).amf].state = "registered"]
  /\ AmfTurn(g, <<>>)
  /\ UNCHANGED smf

(* Any context will do, whichever gNB it came through.                     *)
CandidatesOfAnyGnb(g) == DOMAIN contexts

\* handleULNASTransportSM goes on with any context of the gNB the message came
\* from: the first one a map iteration yields.
Candidates(g) == {k \in DOMAIN contexts : contexts[k].gnb = g}

PduReject(k) == DownlinkNAS(k, SessionRanId, [nas |-> "pduReject"])

\* HandlePDUSessionEstablishmentRequest, the SMF has created a session: the
\* accept is kept until the gNB has answered the resource setup.
AmfPduCreated(g) ==
  LET n == Len(smf) + 1 IN
  /\ AmfUplink(g, "pduRequest")
  /\ \E k \in Candidates(g) :
       /\ smf' = Append(smf, contexts[k].supi)
       /\ contexts' = [contexts EXCEPT ![k].session = n, ![k].pending = n]
       /\ AmfTurn(g, <<[type |-> "setupRequest", amf |-> k, ran |-> SessionRanId, ul |-> n]>>)

\* The same, and the resource setup request cannot be built, the SMF having named
\* no IPv4 address of a UPF: the accept goes to the UE at once, without a DL TEID.
AmfPduDirect(g) ==
  LET n == Len(smf) + 1 IN
  /\ AmfUplink(g, "pduRequest")
  /\ \E k \in Candidates(g) :
       /\ smf' = Append(smf, contexts[k].supi)
       /\ contexts' = [contexts EXCEPT ![k].session = n, ![k].pending = 0]
       /\ AmfTurn(g, <<DownlinkNAS(k, SessionRanId, [nas |-> "pduAccept", ip |-> n, dl |-> 0])>>)

\* The same, and the data network name is not allowed or the SMF refuses.
AmfPduRefused(g) ==
  /\ AmfUplink(g, "pduRequest")
  /\ \E k \in Candidates(g) : AmfTurn(g, <<PduReject(k)>>)
  /\ UNCHANGED amfVars

\* The same, and the SMF's answer does not arrive in 10s: its session stays.
AmfPduLost(g) ==
  /\ AmfUplink(g, "pduRequest")
  /\ \E k \in Candidates(g) :
       /\ smf' = Append(smf, contexts[k].supi)
       /\ AmfTurn(g, <<PduReject(k)>>)
  /\ UNCHANGED contexts

(* The accept is forgotten with the request that caused it.                *)
AmfSetupResponseForgotten(g) ==
  LET m == Head(toAmf[g]) IN
  /\ AmfMessage(g, "setupResponse")
  /\ m.amf \in DOMAIN contexts
  /\ contexts' = [contexts EXCEPT ![m.amf].pending = 0]
  /\ AmfTurn(g, <<>>)
  /\ UNCHANGED smf

\* HandlePDUSessionResourceSetupResponse: delivers the accept kept, with the DL
\* TEID of this response; without one the response is ignored.
AmfSetupResponse(g) ==
  LET m == Head(toAmf[g])
      n == contexts[m.amf].pending
  IN
  /\ AmfMessage(g, "setupResponse")
  /\ m.amf \in DOMAIN contexts
  /\ contexts' = [contexts EXCEPT ![m.amf].pending = 0]
  /\ AmfTurn(g, IF n = 0 THEN <<>>
                ELSE <<DownlinkNAS(m.amf, SessionRanId, [nas |-> "pduAccept", ip |-> n, dl |-> m.dl])>>)
  /\ UNCHANGED smf

----------------------------------------------------------------------------
UeReceives(u) == UeRegistrationAccept(u) \/ UePduAccept(u) \/ UeReject(u)

GnbReads(g) ==
  GnbRelayDownlink(g) \/ GnbDropDownlink(g) \/ GnbSetupRequest(g) \/ GnbSetupFails(g)

GnbOpens(g) == GnbOpenTunnel(g) \/ GnbOpenFails(g)

AmfReads(g) ==
  \/ AmfAccept(g) \/ AmfReject(g) \/ AmfComplete(g)
  \/ AmfPduCreated(g) \/ AmfPduDirect(g) \/ AmfPduRefused(g) \/ AmfPduLost(g)
  \/ AmfSetupResponse(g)

Next ==
  \/ \E u \in UEs : UeStart(u) \/ UeReceives(u) \/ UeStop(u)
  \/ \E g \in Gnbs : GnbReads(g) \/ GnbOpens(g) \/ GnbNotifyUpf(g) \/ AmfReads(g)
  \/ \E g \in Gnbs, r \in RanIds : GnbRelayUplink(g, r) \/ GnbUeGone(g, r)

Spec == Init /\ [][Next]_vars

\* Every read loop is a goroutine that goes on as long as there is input, and
\* the AMF's calls to UDM and SMF end in 10s.  The gNB's call to the UPF has no
\* timeout, so GnbNotifyUpf is owed nothing.
Fairness ==
  /\ \A u \in UEs : WF_vars(UeReceives(u))
  /\ \A g \in Gnbs : WF_vars(GnbReads(g)) /\ WF_vars(GnbOpens(g)) /\ WF_vars(AmfReads(g))
  /\ \A g \in Gnbs, r \in RanIds : WF_vars(GnbRelayUplink(g, r))

FairSpec == Spec /\ Fairness
-----------------------------------------------------------------------------
(* Properties.                                                             *)

\* A UE that has been accepted is known to the AMF as itself, through its own
\* gNB and connection: the accepts of UEs that register at the same time, or of
\* a UE's earlier connection, are never mixed up.
RegisteredAsSelf ==
  \A u \in UEs : ue[u].guti # 0 =>
    LET k == ue[u].guti IN
    /\ k \in DOMAIN contexts
    /\ contexts[k].supi = u
    /\ contexts[k].gnb = Home[u]
    /\ contexts[k].ran = ue[u].ran

\* A connection has one context at the AMF at most, over all reconnections: the
\* AMF forgets none, so a RAN id used twice would make two.
ContextsApart ==
  \A j, k \in DOMAIN contexts :
    (contexts[j].gnb = contexts[k].gnb /\ contexts[j].ran = contexts[k].ran) => j = k

\* What a gNB relays to the AMF under an AMF id finds a context, and one of that
\* gNB.  (So neither of the AMF's "unknown id" branches is ever taken.)
UplinkKnown ==
  \A g \in Gnbs : \A i \in DOMAIN toAmf[g] :
    LET m == toAmf[g][i] IN
    m.type # "initialUE" => m.amf \in DOMAIN contexts /\ contexts[m.amf].gnb = g

\* The gNB answers the AMF before it opens the tunnel it announces.  Still no UE
\* has a DL TEID before the gNB listens on it or has logged that it cannot.
TunnelBeforeAccept ==
  \A u \in UEs : ue[u].dl # 0 => ue[u].dl \in tunnels[Home[u]] \cup broken[Home[u]]

\* The UPF never sends the downlink of two sessions into one tunnel, and only
\* into tunnels that are open, whatever the order the sessions are set up in.
PeersApart ==
  /\ \A n \in Sessions : peer[n] # None => peer[n].dl \in tunnels[peer[n].gnb]
  /\ \A m, n \in Sessions : (peer[m] = peer[n] /\ peer[m] # None) => m = n

\* With one UE per gNB, the four parties agree on a UE's session: the SMF made it
\* for this subscriber and the AMF has it in the UE's context.  With a DL TEID, the
\* gNB forwards between the session's two TEIDs, or has logged that it cannot, and
\* the UPF sends nowhere else; without one, neither gNB nor UPF knows of a session.
SessionAgreement ==
  \A u \in UEs : ue[u].ip # 0 =>
    LET g == Home[u]
        n == ue[u].ip
        dl == ue[u].dl
    IN
    /\ n \in DOMAIN smf /\ smf[n] = u
    /\ contexts[ue[u].guti].session = n
    /\ dl # 0 =>
         /\ dl \in broken[g] \/ ueSessions[g][ue[u].ran] = [ul |-> n, dl |-> dl]
         /\ peer[n] \in {None, [gnb |-> g, dl |-> dl]}
    /\ dl = 0 => ueSessions[g][ue[u].ran] = None /\ peer[n] = None

\* With one UE per gNB, unless the UE is stopped or its gNB waits for the UPF for
\* ever: every connection of it is accepted or refused, and on the one with the
\* RAN id of the session messages the accepted UE gets an address or a reject, or
\* its gNB has dropped the resource setup with no more than a log line.  (A UE
\* that comes back has another RAN id, and then waits for an address for ever.)
Served ==
  \A u \in UEs :
    []<>(loop[Home[u]].pc # "notify") =>
      /\ (ue[u].phase = "registering") ~> (ue[u].phase # "registering" \/ ue[u].refused)
      /\ (ue[u].phase = "registered" /\ ue[u].ran = SessionRanId) ~>
           \/ ue[u].phase # "registered" \/ ue[u].refused \/ ue[u].ip # 0
           \/ contexts[ue[u].guti].session \in silent[Home[u]]

\* "relayDownlinkNAS forwards a NAS payload from the AMF to the correct UE
\* connection": the address a UE takes was given to its own subscription.
AcceptToOwner ==
  \A u \in UEs : ue[u].ip # 0 => smf[ue[u].ip] = u

\* handleDownlinkPacket "looks the session up by DL TEID (so that this path also
\* works if the gNB hosts multiple PDU sessions)": what the UPF sends into a
\* tunnel of the gNB finds a session there.
DownlinkRoutable ==
  \A n \in Sessions : peer[n] # None =>
    \E r \in RanIds :
      /\ ueSessions[peer[n].gnb][r] # None
      /\ ueSessions[peer[n].gnb][r].dl = peer[n].dl
=============================================================================
