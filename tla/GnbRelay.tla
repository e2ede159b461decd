------------------------------ MODULE GnbRelay ------------------------------
(***************************************************************************)
(* User packets between the UE, the gNB's GTP-U relay and the UPF.         *)
(*                                                                         *)
(*   UE socket n --> gNB :2153 --> gNB socket n --> UPF :2152 --> N6       *)
(*                                                                         *)
(* The AMF names every session by RAN-UE-NGAP-ID 1 (N2Attach), so all the  *)
(* gNB's sessions share one entry of ueSessions and all accepts go to the  *)
(* UE with that id: session n is the n-th one the gNB sets up, and its     *)
(* accept gives that UE a further data plane, with a socket of its own.    *)
(* Session n stands for its address, uplink and downlink TEID too.         *)
(*                                                                         *)
(* A datagram is lost or delivered, in any order: each has a goroutine of  *)
(* its own at the receiver.  Its bytes are those of GtpuCodec.             *)
(***************************************************************************)
EXTENDS GtpuCodec, FiniteSets

CONSTANTS
  MaxSessions,   \* bound: sessions the gNB sets up
  MaxApps,       \* bound: packets the applications of the UE's host send
  None           \* unbound session

Sessions == 1..MaxSessions

ASSUME RelayAssumption ==
  /\ MaxSessions \in Nat /\ MaxApps \in Nat
  /\ MaxSessions \div (256 * 256) < 256 * 256   \* a TEID has 32 bits
  /\ None \notin Sessions

VARIABLES
  mode,        \* UE: EffectiveDataPlaneMode
  taken,       \* UE: the latest session accept it has handled
  ip,          \* UE: allocatedIP
  tunnel,      \* UE: the plane whose socket u.tunnel is
  virtual,     \* UE: userPlaneVirtual
  kernelTun,   \* UE: the plane that reads and writes the TUN device
  ping,        \* UE: the connectivity test of each plane
  arrived,     \* UE: packets its downlink handlers were called with
  apps,        \* packets sent by applications
  slot,        \* gNB: the session in ueSessions
  src,         \* gNB: UESrcAddr of each UETunnelSession
  notifying,   \* gNB: the UPF has yet to be told of that session
  jobs,        \* gNB: downlink handlers past lookupUESessionByDLTEID
  told,        \* UPF: who has registered each session
  kernelN6,    \* UPF: the N6 TUN is up
  net,         \* datagrams in flight
  lost         \* one of them was lost

ueVars   == <<mode, taken, ip, tunnel, virtual, kernelTun, ping, arrived, apps>>
gnbVars  == <<slot, src, notifying, jobs>>
upfVars  == <<told, kernelN6>>
vars     == <<mode, taken, ip, tunnel, virtual, kernelTun, ping, arrived, apps,
              slot, src, notifying, jobs, told, kernelN6, net, lost>>

DN == 0   \* the host in the data network

Inner == [src : Sessions, dst : {DN}, kind : {"request"}]
           \cup [src : {DN}, dst : Sessions, kind : {"reply"}]

Relay       == <<"gnb:2153", 0>>
UpfSocket   == <<"upf:2152", 0>>
N6          == <<"n6", 0>>
Host        == <<"host", 0>>
UeSocket(n)  == <<"ue", n>>
GnbSocket(n) == <<"gnb", n>>

\* What travels: the bytes of G-PDUs, and plain packets beyond the UPF.
Bytes    == [w \in Sessions \X Inner |-> Encode(NewGPDU(w[1], <<w[2]>>))]
Contents == {Bytes[w] : w \in Sessions \X Inner} \cup {<<p>> : p \in Inner}
Decoded  == [data \in Contents |-> Decode(data)]
Ends     == {Relay, UpfSocket, N6, Host} \cup {UeSocket(n) : n \in Sessions}
              \cup {GnbSocket(n) : n \in Sessions}

TypeOK ==
  /\ mode \in {"auto", "fabric", "standalone"}
  /\ taken \in 0..slot /\ ip \in 0..slot /\ tunnel \in 0..slot /\ kernelTun \in 0..slot
  /\ virtual \in BOOLEAN /\ notifying \in BOOLEAN /\ kernelN6 \in BOOLEAN /\ lost \in BOOLEAN
  /\ ping \in [Sessions -> {"none", "sent", "passed", "failed", "external"}]
  /\ arrived \subseteq [plane : Sessions, packet : Inner, written : BOOLEAN]
  /\ apps \in 0..MaxApps
  /\ slot \in 0..MaxSessions
  /\ src \in [Sessions -> Sessions \cup {None}]
  /\ jobs \subseteq [session : Sessions, packet : Inner]
  /\ told \in [Sessions -> SUBSET {"smf", "gnb"}]
  /\ net \subseteq [from : Ends, to : Ends, data : Contents]

Init ==
  /\ mode \in {"auto", "fabric", "standalone"}
  /\ taken = 0 /\ ip = 0 /\ tunnel = 0 /\ kernelTun = 0
  /\ virtual = FALSE
  /\ ping = [n \in Sessions |-> "none"]
  /\ arrived = {}
  /\ apps = 0
  /\ slot = 0
  /\ src = [n \in Sessions |-> None]
  /\ notifying = FALSE
  /\ jobs = {}
  /\ told = [n \in Sessions |-> {}]
  /\ kernelN6 \in BOOLEAN
  /\ net = {}
  /\ lost = FALSE

SendGPDU(from, to, teid, p) ==
  [from |-> from, to |-> to, data |-> Bytes[<<teid, p>>]]

Received(d) == Decoded[d.data]
Packet(d)   == Received(d).payload[1]
IsGPDU(d)   == Received(d).outcome = "packet" /\ Received(d).type = GPDU

----------------------------------------------------------------------------
(* The gNB sets up a session: the AMF's messages are handled one by one.   *)

\* SetupUserPlane: tunnel and table.  The SMF has told the UPF, or failed to.
RegisterUESession ==
  /\ ~notifying
  /\ slot < MaxSessions
  /\ slot' = slot + 1
  /\ notifying' = TRUE
  /\ \E known \in {{}, {"smf"}} : told' = [told EXCEPT ![slot'] = known]
  /\ UNCHANGED <<ueVars, src, jobs, kernelN6, net, lost>>

\* notifyUPFOfGNBTunnel; that it failed is logged only.
NotifyUpf ==
  /\ notifying
  /\ notifying' = FALSE
  /\ \E ok \in BOOLEAN :
       told' = IF ok THEN [told EXCEPT ![slot] = @ \cup {"gnb"}] ELSE told
  /\ UNCHANGED <<ueVars, slot, src, jobs, kernelN6, net, lost>>

----------------------------------------------------------------------------
(* The UE.                                                                 *)

\* The NAS loop is in runConnectivityTest.
Testing == \E n \in Sessions : ping[n] \in {"sent", "external"}

Request(n) == [src |-> n, dst |-> DN, kind |-> "request"]

(* The accept overtakes the setup of its session at the gNB.              *)
AcceptEarly(n) == n = taken + 1 /\ n <= slot + 1 /\ n \in Sessions /\ ~Testing

\* The accept is relayed to the UE after the session was set up.
AcceptReady(n) ==
  /\ n = taken + 1
  /\ n < slot \/ (n = slot /\ ~notifying)
  /\ ~Testing

Accepted(n) == taken' = n /\ ip' = n

\* setupKernelTUN opens the device, which there is one of.
AcceptKernel(n) ==
  /\ AcceptReady(n)
  /\ mode # "standalone"
  /\ kernelTun = 0
  /\ Accepted(n)
  /\ kernelTun' = n /\ tunnel' = n /\ virtual' = FALSE
  /\ ping' = [ping EXCEPT ![n] = "external"]
  /\ UNCHANGED <<mode, arrived, apps, gnbVars, upfVars, net, lost>>

\* The userspace plane, by itself or where there is no TUN to be had, and the
\* synthetic ping.  The UE sends under TEID 1, its PDU session id.
AcceptVirtual(n) ==
  /\ AcceptReady(n)
  /\ mode # "fabric"
  /\ Accepted(n)
  /\ tunnel' = n /\ virtual' = TRUE
  /\ ping' = [ping EXCEPT ![n] = "sent"]
  /\ net' = net \cup {SendGPDU(UeSocket(n), Relay, 1, Request(ip'))}
  /\ UNCHANGED <<mode, kernelTun, arrived, apps, gnbVars, upfVars, lost>>

\* setupKernelTUN fails and the mode allows no other plane.
AcceptFails(n) ==
  /\ AcceptReady(n)
  /\ mode = "fabric"
  /\ Accepted(n)
  /\ UNCHANGED <<mode, tunnel, virtual, kernelTun, ping, arrived, apps, gnbVars,
                 upfVars, net, lost>>

\* runSyntheticPing after 8 s, or the ping and HTTP tests over the TUN end.
TestEnds(n) ==
  /\ ping[n] \in {"sent", "external"}
  /\ ping' = [ping EXCEPT ![n] = "failed"]
  /\ UNCHANGED <<mode, taken, ip, tunnel, virtual, kernelTun, arrived, apps,
                 gnbVars, upfVars, net, lost>>

\* packetUplinkLoop: only packets from the plane's own address pass; the socket
\* is the one u.tunnel is now.
AppSends ==
  /\ kernelTun # 0
  /\ apps < MaxApps
  /\ apps' = apps + 1
  /\ net' = net \cup {SendGPDU(UeSocket(tunnel), Relay, 1, Request(kernelTun))}
  /\ UNCHANGED <<mode, taken, ip, tunnel, virtual, kernelTun, ping, arrived,
                 gnbVars, upfVars, lost>>

(* Any echo reply ends the test.                                          *)
IsAnyEchoReply(p) == p.kind = "reply"

IsICMPEchoReply(p) == p.kind = "reply" /\ p.dst = ip

\* The TEID registered on the plane's socket is its session's downlink TEID.
HandlerFor(m, teid) == teid = m

UeReceives(d) ==
  /\ d.to \in {UeSocket(m) : m \in Sessions}
  /\ net' = net \ {d}
  /\ LET m == d.to[2] IN
       IF IsGPDU(d) /\ HandlerFor(m, Received(d).teid)
       THEN /\ arrived' = arrived \cup
                 {[plane |-> m, packet |-> Packet(d),
                  written |-> ~virtual /\ m = kernelTun]}
            /\ ping' = IF IsICMPEchoReply(Packet(d))
                       THEN [n \in Sessions |-> IF ping[n] = "sent" THEN "passed" ELSE ping[n]]
                       ELSE ping
       ELSE UNCHANGED <<arrived, ping>>
  /\ UNCHANGED <<mode, taken, ip, tunnel, virtual, kernelTun, apps, gnbVars,
                 upfVars, lost>>

----------------------------------------------------------------------------
(* The gNB relays.                                                         *)

Bound(socket) == slot # 0 /\ src[slot] = socket

(* The latest sender takes the session over.                              *)
ClaimableByAny == slot # 0

Claimable == slot # 0 /\ src[slot] = None

\* resolveSessionForUplink: by UDP source, or the session no one has claimed.
ResolveSessionForUplink(socket) == IF Bound(socket) \/ Claimable THEN slot ELSE 0

PlausibleUEIPv4(p) == p.src \in Sessions

HandleUplinkFromUE(d) ==
  /\ d.to = Relay
  /\ LET p == Packet(d)
         socket == d.from[2]
         n == IF IsGPDU(d) /\ PlausibleUEIPv4(p) THEN ResolveSessionForUplink(socket) ELSE 0
     IN IF n = 0
        THEN net' = net \ {d} /\ UNCHANGED src
        ELSE /\ src' = IF Claimable THEN [src EXCEPT ![n] = socket] ELSE src
             /\ net' = (net \ {d}) \cup {SendGPDU(GnbSocket(n), UpfSocket, n, p)}
  /\ UNCHANGED <<ueVars, slot, notifying, jobs, upfVars, lost>>

HandleDownlinkPacket(d) ==
  /\ d.to \in {GnbSocket(m) : m \in Sessions}
  /\ net' = net \ {d}
  /\ jobs' = IF IsGPDU(d) /\ Received(d).teid = d.to[2] /\ slot = Received(d).teid
             THEN jobs \cup {[session |-> slot, packet |-> Packet(d)]}
             ELSE jobs
  /\ UNCHANGED <<ueVars, slot, src, notifying, upfVars, lost>>

(* TEID 1 in both directions.                                             *)
DownlinkTeidOne(j) == 1

DownlinkTeid(j) == j.session

RelayDownlinkToUE(j) ==
  /\ jobs' = jobs \ {j}
  /\ net' = IF src[j.session] = None
            THEN net
            ELSE net \cup {SendGPDU(Relay, UeSocket(src[j.session]), DownlinkTeid(j), j.packet)}
  /\ UNCHANGED <<ueVars, slot, src, notifying, upfVars, lost>>

----------------------------------------------------------------------------
(* The UPF and the data network.                                           *)

Reply(p) == [src |-> p.dst, dst |-> p.src, kind |-> "reply"]

UpfHandleUplink(d) ==
  /\ d.to = UpfSocket
  /\ LET n == Received(d).teid
         p == Packet(d)
         sends ==
           IF ~IsGPDU(d) \/ told[n] = {} THEN {}
           ELSE IF kernelN6 THEN {[from |-> N6, to |-> Host, data |-> <<p>>]}
           ELSE IF p.kind = "request" /\ "gnb" \in told[n]
           THEN {SendGPDU(UpfSocket, GnbSocket(n), n, Reply(p))}
           ELSE {}
     IN net' = (net \ {d}) \cup sends
  /\ UNCHANGED <<ueVars, gnbVars, upfVars, lost>>

HostReplies(d) ==
  /\ d.to = Host
  /\ net' = (net \ {d}) \cup {[from |-> Host, to |-> N6, data |-> <<Reply(d.data[1])>>]}
  /\ UNCHANGED <<ueVars, gnbVars, upfVars, lost>>

(* The packet goes to the gNB under the TEID of the latest session.       *)
RouteToLatest(n) == slot

\* sessionsByUEIP: the session of the destination address.
Route(n) == n

HandleN6Packet(d) ==
  /\ d.to = N6
  /\ LET n == Route(d.data[1].dst)
         sends == IF told[n] = {"smf", "gnb"}
                  THEN {SendGPDU(UpfSocket, GnbSocket(n), n, d.data[1])}
                  ELSE {}
     IN net' = (net \ {d}) \cup sends
  /\ UNCHANGED <<ueVars, gnbVars, upfVars, lost>>

Lose(d) ==
  /\ net' = net \ {d}
  /\ lost' = TRUE
  /\ UNCHANGED <<ueVars, gnbVars, upfVars>>

----------------------------------------------------------------------------

UeStep == \E n \in Sessions : AcceptKernel(n) \/ AcceptVirtual(n) \/ AcceptFails(n) \/ TestEnds(n)

Deliver ==
  \/ \E d \in net : UeReceives(d) \/ HandleUplinkFromUE(d) \/ HandleDownlinkPacket(d)
                      \/ UpfHandleUplink(d) \/ HostReplies(d) \/ HandleN6Packet(d)
  \/ \E j \in jobs : RelayDownlinkToUE(j)

Next ==
  \/ RegisterUESession \/ NotifyUpf
  \/ UeStep \/ AppSends
  \/ Deliver
  \/ \E d \in net : Lose(d)

Spec == Init /\ [][Next]_vars

\* Goroutines that have a datagram run, and no datagram is delayed for ever.
FairSpec == Spec /\ WF_vars(Deliver)

----------------------------------------------------------------------------
(* Properties.                                                             *)

\* What the UE writes to its TUN device is addressed to the plane that has the
\* device, although that UE is given the sessions of others, its planes share
\* u.tunnel and the gNB's table forgets sessions.
DeliveredToOwner ==
  \A a \in arrived : a.written => a.packet.dst = a.plane

\* A synthetic ping passes on the reply to the address it was sent from, never
\* on the late reply to the test of an earlier plane.
PassedOnOwnReply ==
  \A n \in Sessions : ping[n] = "passed" =>
    \E a \in arrived : a.plane = n /\ a.packet.dst = n

\* A session is claimed by the socket of its own plane or of an earlier one: the
\* socket that could be next is not open before the next session has the table.
ClaimedByOwnerOrEarlier ==
  \A n \in Sessions : src[n] # None => src[n] <= n

\* A session keeps the UDP source that claimed it, and what reaches the UPF under
\* its TEID came from that source.
BindingIsStable ==
  [][/\ \A n \in Sessions : src[n] # None => src'[n] = src[n]
     /\ \A d \in net' \ net : d.to = UpfSocket =>
          \E c \in net \ net' : c.to = Relay /\ c.from = UeSocket(src'[d.from[2]])
    ]_vars

\* The reply to a synthetic ping arrives at its plane unless a datagram was lost,
\* the UPF was not told, or the gNB's one table entry has gone to another session
\* or to the socket of an earlier plane.
PingAnswered ==
  \A n \in Sessions :
    (ping[n] = "sent") ~>
      \/ \E a \in arrived : a.plane = n /\ a.packet.dst = n
      \/ lost
      \/ told[n] # {"smf", "gnb"}
      \/ slot # n
      \/ src[n] \notin {None, n}
============================================================================
