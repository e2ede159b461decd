--------------------------- MODULE GnbRelayProofs ---------------------------
(***************************************************************************)
(* Proofs about GnbRelay: its types, and that a packet reaches the plane   *)
(* it is addressed to, however sessions, sockets and planes are mixed up.  *)
(*                                                                         *)
(* The invariant says what each datagram under way may be, by the hop it   *)
(* is on (Shape).  Two facts are carried from hop to hop: what came from a *)
(* plane's socket has the address of that plane or of the one with the TUN *)
(* device, and what goes under a session's TEID came from the socket that  *)
(* claimed it.  They outlast every step as taken, kernelTun and src, once  *)
(* set, stay (Grown).                                                      *)
(***************************************************************************)
EXTENDS GnbRelay, GtpuCodecProofs

Response(x) == [src |-> DN, dst |-> x, kind |-> "reply"]

\* Addresses in what comes from the socket of plane m.
Sends(m, x) == x = m \/ x = kernelTun

\* Addresses in what comes back under the TEID of session n.
Concerns(n, x) == x = n \/ (src[n] # None /\ Sends(src[n], x))

----------------------------------------------------------------------------
(* What a datagram may be on each hop.                                     *)

FromUe(d) ==
  \E m, x \in Sessions :
    m <= taken /\ Sends(m, x) /\ d = SendGPDU(UeSocket(m), Relay, 1, Request(x))

ToUpf(d) ==
  \E n, x \in Sessions :
    /\ src[n] # None /\ Sends(src[n], x)
    /\ d = SendGPDU(GnbSocket(n), UpfSocket, n, Request(x))

ToHost(d) ==
  \E x \in Sessions : d = [from |-> N6, to |-> Host, data |-> <<Request(x)>>]

ToN6(d) ==
  \E x \in Sessions : d = [from |-> Host, to |-> N6, data |-> <<Response(x)>>]

ToGnb(d) ==
  \E n, x \in Sessions :
    Concerns(n, x) /\ d = SendGPDU(UpfSocket, GnbSocket(n), n, Response(x))

ToUe(d) ==
  \E n, x \in Sessions :
    /\ src[n] # None /\ Concerns(n, x)
    /\ d = SendGPDU(Relay, UeSocket(src[n]), n, Response(x))

Shape(d) == FromUe(d) \/ ToUpf(d) \/ ToHost(d) \/ ToN6(d) \/ ToGnb(d) \/ ToUe(d)

NetOK == \A d \in net : Shape(d)

JobOK(j) ==
  \E n, x \in Sessions : Concerns(n, x) /\ j = [session |-> n, packet |-> Response(x)]

JobsOK == \A j \in jobs : JobOK(j)

ArrivalOK(a) ==
  /\ a.plane \in Sessions /\ a.packet.dst \in Sessions /\ Sends(a.plane, a.packet.dst)
  /\ a.written => a.plane = kernelTun

ArrivedOK == \A a \in arrived : ArrivalOK(a)

\* The planes of the UE: one test at a time, of the latest plane, and the plane
\* with the device is none that sends synthetic pings.
PlanesOK ==
  /\ kernelTun <= taken /\ tunnel <= taken
  /\ kernelTun # 0 => tunnel # 0 /\ ping[kernelTun] \in {"external", "failed"}
  /\ \A n \in Sessions : ping[n] \in {"sent", "external"} => n = taken /\ n = ip

Types ==
  /\ mode \in {"auto", "fabric", "standalone"}
  /\ taken \in 0..slot /\ ip \in 0..slot /\ tunnel \in 0..slot /\ kernelTun \in 0..slot
  /\ virtual \in BOOLEAN /\ notifying \in BOOLEAN /\ kernelN6 \in BOOLEAN /\ lost \in BOOLEAN
  /\ ping \in [Sessions -> {"none", "sent", "passed", "failed", "external"}]
  /\ arrived \subseteq [plane : Sessions, packet : Inner, written : BOOLEAN]
  /\ apps \in 0..MaxApps
  /\ slot \in 0..MaxSessions
  /\ src \in [Sessions -> Sessions \cup {None}]
  /\ told \in [Sessions -> SUBSET {"smf", "gnb"}]

IInv ==
  /\ Types /\ PlanesOK
  /\ NetOK /\ JobsOK /\ ArrivedOK
  /\ PassedOnOwnReply /\ ClaimedByOwnerOrEarlier

----------------------------------------------------------------------------
(* Packets and hops.                                                       *)

\* No hop is mistaken for another.
LEMMA EndsApart ==
  /\ Relay # UpfSocket /\ Relay # N6 /\ Relay # Host /\ UpfSocket # N6 /\ UpfSocket # Host
  /\ N6 # Host
  /\ \A n : /\ UeSocket(n) \notin {Relay, UpfSocket, N6, Host}
            /\ GnbSocket(n) \notin {Relay, UpfSocket, N6, Host}
            /\ UeSocket(n)[2] = n /\ GnbSocket(n)[2] = n
            /\ \A m : UeSocket(n) # GnbSocket(m)
BY DEF Relay, UpfSocket, N6, Host, UeSocket, GnbSocket

\* The packets that travel.
LEMMA PacketFacts ==
  ASSUME NEW x \in Sessions
  PROVE  /\ Request(x) \in Inner /\ Request(x).src = x /\ Request(x).kind = "request"
         /\ Response(x) \in Inner /\ Response(x).dst = x /\ Response(x).kind = "reply"
         /\ Reply(Request(x)) = Response(x)
BY DEF Inner, Request, Response, Reply

\* No session is number 0 or None.
LEMMA SessionFacts ==
  /\ Sessions \subseteq Nat \ {0} /\ None \notin Sessions /\ MaxSessions \in Nat
  /\ Sessions = 1..MaxSessions
BY RelayAssumption DEF Sessions

\* The number of a session is a TEID.
LEMMA SessionIsTeid == Sessions \subseteq Numbers32
<1>1. ASSUME NEW t \in Sessions PROVE t \in Numbers32
  <2>1. MaxSessions \in Nat /\ t \in Nat /\ t <= MaxSessions
    BY SessionFacts
  <2>2. MaxSessions \div (256 * 256) < 256 * 256
    BY RelayAssumption
  <2>3. t \div (256 * 256) < 256 * 256
    BY ONLY <2>1, <2>2, SMT
  <2> QED BY <2>1, <2>3 DEF Numbers32
<1> QED BY <1>1

\* What the bytes of a G-PDU say.
LEMMA BytesFacts ==
  ASSUME NEW t \in Sessions, NEW p \in Inner
  PROVE  /\ Decode(Bytes[<<t, p>>]).outcome = "packet" /\ Decode(Bytes[<<t, p>>]).type = GPDU
         /\ Decode(Bytes[<<t, p>>]).teid = t /\ Decode(Bytes[<<t, p>>]).payload = <<p>>
<1>1. t \in Numbers32
  BY SessionIsTeid
<1>2. PICK q : q = NewGPDU(t, <<p>>)
  OBVIOUS
<1>3. /\ q.teid = t /\ q.payload = <<p>> /\ q.type = GPDU
      /\ q.ext = FALSE /\ q.seqFlag = FALSE /\ q.npduFlag = FALSE
  BY <1>2 DEF NewGPDU
<1>4. q \in Packets(Inner)
  <2>1. <<p>> \in Seq(Inner)
    OBVIOUS
  <2>2. 0 \in Numbers16
    BY ONLY SMT DEF Numbers16
  <2>3. 255 \in 0..255 /\ 0 \in 0..255
    OBVIOUS
  <2> QED BY <1>1, <1>2, <2>1, <2>2, <2>3 DEF NewGPDU, Packets, GPDU
<1>5. Fits(q)
  <2>1. Len(<<p>>) = 1
    OBVIOUS
  <2>2. 1 + 4 < 256 * 256
    BY ONLY SMT
  <2> QED BY <1>3, <2>1, <2>2 DEF Fits
<1>6. Bytes[<<t, p>>] = Encode(q)
  <2>1. PICK w : w = <<t, p>>
    OBVIOUS
  <2>2. w \in Sessions \X Inner /\ w[1] = t /\ w[2] = p
    BY <2>1
  <2>3. Bytes[w] = Encode(NewGPDU(w[1], <<w[2]>>))
    BY <2>2 DEF Bytes
  <2> QED BY <2>1, <2>2, <2>3, <1>2
<1>7. Decode(Encode(q)) =
        [outcome |-> "packet", ext |-> q.ext, seqFlag |-> q.seqFlag,
         npduFlag |-> q.npduFlag, type |-> q.type, teid |-> q.teid,
         seq |-> IF Extended(q) THEN q.seq ELSE 0,
         npdu |-> IF Extended(q) THEN q.npdu ELSE 0,
         next |-> IF Extended(q) THEN q.next ELSE 0, payload |-> q.payload]
  BY <1>4, <1>5, DecodeUndoesEncode
<1>8. PICK r : r = Decode(Encode(q))
  OBVIOUS
<1>9. /\ r.outcome = "packet" /\ r.type = q.type /\ r.teid = q.teid /\ r.payload = q.payload
  BY ONLY <1>7, <1>8
<1> QED BY <1>3, <1>6, <1>8, <1>9

LEMMA GpduFacts ==
  ASSUME NEW t \in Sessions, NEW p \in Inner, NEW d, d.data = Bytes[<<t, p>>]
  PROVE  IsGPDU(d) /\ Received(d).teid = t /\ Packet(d) = p /\ d.data \in Contents
<1>1. PICK b : b = Bytes[<<t, p>>]
  OBVIOUS
<1>2. b \in Contents
  <2>1. b \in {Bytes[w] : w \in Sessions \X Inner}
    BY ONLY <1>1, t \in Sessions, p \in Inner
  <2> QED BY <2>1 DEF Contents
<1>3. Decoded[b] = Decode(b)
  BY ONLY <1>2 DEF Decoded
<1>4. /\ Decode(b).outcome = "packet" /\ Decode(b).type = GPDU /\ Decode(b).teid = t
      /\ Decode(b).payload = <<p>>
  BY ONLY <1>1, t \in Sessions, p \in Inner, BytesFacts
<1>5. d.data = b
  BY <1>1
<1>6. Received(d) = Decode(b)
  BY ONLY <1>3, <1>5 DEF Received
<1>7. Packet(d) = <<p>>[1]
  BY ONLY <1>4, <1>6 DEF Packet
<1> QED BY ONLY <1>2, <1>4, <1>5, <1>6, <1>7 DEF IsGPDU

\* The parts of a datagram.
LEMMA SendFacts ==
  ASSUME NEW from, NEW to, NEW t, NEW p
  PROVE  /\ SendGPDU(from, to, t, p).from = from /\ SendGPDU(from, to, t, p).to = to
         /\ SendGPDU(from, to, t, p).data = Bytes[<<t, p>>]
BY DEF SendGPDU

\* Where a datagram goes says which one it is.
LEMMA HopFacts ==
  ASSUME NEW d, Shape(d)
  PROVE  /\ d.to = Relay => FromUe(d)
         /\ d.to = UpfSocket => ToUpf(d)
         /\ d.to = Host => ToHost(d)
         /\ d.to = N6 => ToN6(d)
         /\ \A m : d.to = GnbSocket(m) => ToGnb(d)
         /\ \A m : d.to = UeSocket(m) => ToUe(d)
<1>1. CASE FromUe(d)
  <2>1. PICK m \in Sessions, x \in Sessions : d = SendGPDU(UeSocket(m), Relay, 1, Request(x))
    BY <1>1 DEF FromUe
  <2>2. d.to = Relay
    BY ONLY <2>1 DEF SendGPDU
  <2> QED BY <1>1, <2>2, EndsApart
<1>2. CASE ToUpf(d)
  <2>1. PICK n \in Sessions, x \in Sessions : d = SendGPDU(GnbSocket(n), UpfSocket, n, Request(x))
    BY <1>2 DEF ToUpf
  <2>2. d.to = UpfSocket
    BY ONLY <2>1 DEF SendGPDU
  <2> QED BY <1>2, <2>2, EndsApart
<1>3. CASE ToHost(d)
  <2>1. d.to = Host
    BY <1>3 DEF ToHost
  <2> QED BY <1>3, <2>1, EndsApart
<1>4. CASE ToN6(d)
  <2>1. d.to = N6
    BY <1>4 DEF ToN6
  <2> QED BY <1>4, <2>1, EndsApart
<1>5. CASE ToGnb(d)
  <2>1. PICK n \in Sessions, x \in Sessions : d = SendGPDU(UpfSocket, GnbSocket(n), n, Response(x))
    BY <1>5 DEF ToGnb
  <2>2. d.to = GnbSocket(n)
    BY ONLY <2>1 DEF SendGPDU
  <2> QED BY <1>5, <2>2, EndsApart
<1>6. CASE ToUe(d)
  <2>1. PICK n \in Sessions, x \in Sessions : d = SendGPDU(Relay, UeSocket(src[n]), n, Response(x))
    BY <1>6 DEF ToUe
  <2>2. d.to = UeSocket(src[n])
    BY ONLY <2>1 DEF SendGPDU
  <2> QED BY <1>6, <2>2, EndsApart
<1> QED BY <1>1, <1>2, <1>3, <1>4, <1>5, <1>6 DEF Shape

\* What the receiver of a G-PDU makes of it.
LEMMA SentFacts ==
  ASSUME NEW from, NEW to, NEW t \in Sessions, NEW p \in Inner, NEW d,
         d = SendGPDU(from, to, t, p)
  PROVE  /\ d.from = from /\ d.to = to
         /\ IsGPDU(d) /\ Received(d).teid = t /\ Packet(d) = p /\ d.data \in Contents
<1>1. d.from = from /\ d.to = to /\ d.data = Bytes[<<t, p>>]
  BY SendFacts
<1> QED BY ONLY <1>1, t \in Sessions, p \in Inner, GpduFacts

\* Where there is a session there is a session 1.
LEMMA FirstSession == ASSUME NEW n \in Sessions PROVE 1 \in Sessions
BY SessionFacts

\* What each receiver gets.
LEMMA RelayGets ==
  ASSUME NEW d, Shape(d), d.to = Relay
  PROVE  \E m, x \in Sessions :
           /\ m <= taken /\ Sends(m, x)
           /\ d.from = UeSocket(m) /\ d.from[2] = m /\ IsGPDU(d) /\ Packet(d) = Request(x)
<1>1. FromUe(d)
  BY HopFacts
<1>2. PICK m \in Sessions, x \in Sessions :
        m <= taken /\ Sends(m, x) /\ d = SendGPDU(UeSocket(m), Relay, 1, Request(x))
  BY <1>1 DEF FromUe
<1>3. 1 \in Sessions /\ Request(x) \in Inner
  BY FirstSession, PacketFacts
<1>4. d.from = UeSocket(m) /\ IsGPDU(d) /\ Packet(d) = Request(x)
  BY ONLY <1>2, <1>3, SentFacts
<1> QED BY <1>2, <1>4, EndsApart

LEMMA UpfGets ==
  ASSUME NEW d, Shape(d), d.to = UpfSocket
  PROVE  \E n, x \in Sessions :
           /\ src[n] # None /\ Sends(src[n], x)
           /\ IsGPDU(d) /\ Received(d).teid = n /\ Packet(d) = Request(x)
<1>1. ToUpf(d)
  BY HopFacts
<1>2. PICK n \in Sessions, x \in Sessions :
        /\ src[n] # None /\ Sends(src[n], x)
        /\ d = SendGPDU(GnbSocket(n), UpfSocket, n, Request(x))
  BY <1>1 DEF ToUpf
<1>3. Request(x) \in Inner
  BY PacketFacts
<1>4. IsGPDU(d) /\ Received(d).teid = n /\ Packet(d) = Request(x)
  BY ONLY <1>2, <1>3, SentFacts
<1> QED BY <1>2, <1>4

LEMMA GnbGets ==
  ASSUME NEW d, Shape(d), NEW m, d.to = GnbSocket(m)
  PROVE  \E n, x \in Sessions :
           Concerns(n, x) /\ IsGPDU(d) /\ Received(d).teid = n /\ Packet(d) = Response(x)
<1>1. ToGnb(d)
  BY HopFacts
<1>2. PICK n \in Sessions, x \in Sessions :
        Concerns(n, x) /\ d = SendGPDU(UpfSocket, GnbSocket(n), n, Response(x))
  BY <1>1 DEF ToGnb
<1>3. Response(x) \in Inner
  BY PacketFacts
<1>4. IsGPDU(d) /\ Received(d).teid = n /\ Packet(d) = Response(x)
  BY ONLY <1>2, <1>3, SentFacts
<1> QED BY <1>2, <1>4

LEMMA UeGets ==
  ASSUME NEW d, Shape(d), NEW m, d.to = UeSocket(m)
  PROVE  \E n, x \in Sessions :
           /\ src[n] = m /\ src[n] # None /\ Concerns(n, x)
           /\ IsGPDU(d) /\ Received(d).teid = n /\ Packet(d) = Response(x)
<1>1. ToUe(d)
  BY HopFacts
<1>2. PICK n \in Sessions, x \in Sessions :
        /\ src[n] # None /\ Concerns(n, x)
        /\ d = SendGPDU(Relay, UeSocket(src[n]), n, Response(x))
  BY <1>1 DEF ToUe
<1>3. Response(x) \in Inner
  BY PacketFacts
<1>4. /\ d.to = UeSocket(src[n])
      /\ IsGPDU(d) /\ Received(d).teid = n /\ Packet(d) = Response(x)
  BY ONLY <1>2, <1>3, SentFacts
<1>5. src[n] = m
  BY ONLY <1>4, d.to = UeSocket(m) DEF UeSocket
<1> QED BY <1>2, <1>4, <1>5

----------------------------------------------------------------------------
(* What outlasts a step.                                                   *)

Grown ==
  /\ taken <= taken'
  /\ kernelTun # 0 => kernelTun' = kernelTun
  /\ \A n \in Sessions : src[n] # None => src'[n] = src[n]

LEMMA ConcernsGrown ==
  ASSUME Types, Grown, NEW n \in Sessions, NEW x \in Sessions
  PROVE  /\ Sends(n, x) => Sends(n, x)'
         /\ src[n] # None => src'[n] = src[n] /\ src[n] \in Sessions
         /\ Concerns(n, x) => Concerns(n, x)'
<1>1. ASSUME NEW m \in Sessions, Sends(m, x) PROVE Sends(m, x)'
  <2>1. x # 0
    BY SessionFacts
  <2> QED BY <1>1, <2>1 DEF Sends, Grown
<1>2. src[n] # None => src'[n] = src[n] /\ src[n] \in Sessions
  BY DEF Grown, Types
<1>3. ASSUME Concerns(n, x) PROVE Concerns(n, x)'
  <2>1. CASE x = n
    BY <2>1 DEF Concerns
  <2>2. CASE src[n] # None /\ Sends(src[n], x)
    <3>1. PICK m \in Sessions : m = src[n] /\ m = src'[n]
      BY <2>2, <1>2
    <3>2. Sends(m, x)'
      BY <3>1, <2>2, <1>1
    <3>3. src'[n] # None
      BY <3>1, <2>2
    <3> QED BY <3>1, <3>2, <3>3 DEF Concerns, Sends
  <2> QED BY <1>3, <2>1, <2>2 DEF Concerns
<1> QED BY <1>1, <1>2, <1>3

\* A datagram that may be under way may be so ever after.
LEMMA ShapeGrown ==
  ASSUME Types, Types', Grown, NEW d, Shape(d)
  PROVE  Shape(d)'
<1>1. CASE FromUe(d)
  <2>1. PICK m \in Sessions, x \in Sessions :
          m <= taken /\ Sends(m, x) /\ d = SendGPDU(UeSocket(m), Relay, 1, Request(x))
    BY <1>1 DEF FromUe
  <2>2. m <= taken'
    <3>1. m \in Nat /\ taken \in Nat /\ taken' \in Nat /\ taken <= taken'
      BY SessionFacts DEF Types, Grown
    <3> QED BY <2>1, <3>1
  <2>3. Sends(m, x)'
    BY <2>1, ConcernsGrown
  <2>4. FromUe(d)'
    BY <2>1, <2>2, <2>3 DEF FromUe
  <2> QED BY <2>4 DEF Shape
<1>2. CASE ToUpf(d)
  <2>1. PICK n \in Sessions, x \in Sessions :
          /\ src[n] # None /\ Sends(src[n], x)
          /\ d = SendGPDU(GnbSocket(n), UpfSocket, n, Request(x))
    BY <1>2 DEF ToUpf
  <2>2. PICK m \in Sessions : m = src[n] /\ m = src'[n]
    BY <2>1, ConcernsGrown
  <2>3. Sends(m, x)'
    BY <2>1, <2>2, ConcernsGrown
  <2>4. src'[n] # None /\ Sends(src[n], x)'
    BY <2>1, <2>2, <2>3 DEF Sends
  <2>5. ToUpf(d)'
    BY <2>1, <2>4 DEF ToUpf
  <2> QED BY <2>5 DEF Shape
<1>3. CASE ToHost(d) \/ ToN6(d)
  BY <1>3 DEF Shape, ToHost, ToN6
<1>4. CASE ToGnb(d)
  <2>1. PICK n \in Sessions, x \in Sessions :
          Concerns(n, x) /\ d = SendGPDU(UpfSocket, GnbSocket(n), n, Response(x))
    BY <1>4 DEF ToGnb
  <2>2. Concerns(n, x)'
    BY <2>1, ConcernsGrown
  <2>3. ToGnb(d)'
    BY <2>1, <2>2 DEF ToGnb
  <2> QED BY <2>3 DEF Shape
<1>5. CASE ToUe(d)
  <2>1. PICK n \in Sessions, x \in Sessions :
          /\ src[n] # None /\ Concerns(n, x)
          /\ d = SendGPDU(Relay, UeSocket(src[n]), n, Response(x))
    BY <1>5 DEF ToUe
  <2>2. Concerns(n, x)' /\ src'[n] = src[n]
    BY <2>1, ConcernsGrown
  <2>3. ToUe(d)'
    BY <2>1, <2>2 DEF ToUe
  <2> QED BY <2>3 DEF Shape
<1> QED BY <1>1, <1>2, <1>3, <1>4, <1>5 DEF Shape

\* So a step needs to account for nothing but what it adds.
LEMMA Carried ==
  ASSUME IInv, Types', Grown,
         \A d \in net' \ net : Shape(d)',
         \A j \in jobs' \ jobs : JobOK(j)',
         \A a \in arrived' \ arrived : ArrivalOK(a)'
  PROVE  NetOK' /\ JobsOK' /\ ArrivedOK'
<1>1. Types /\ NetOK /\ JobsOK /\ ArrivedOK
  BY DEF IInv
<1>2. ASSUME NEW d \in net' PROVE Shape(d)'
  BY <1>1, ShapeGrown DEF NetOK
<1>3. ASSUME NEW j \in jobs' PROVE JobOK(j)'
  <2>1. CASE j \notin jobs
    BY <2>1
  <2>2. CASE j \in jobs
    <3>1. PICK n \in Sessions, x \in Sessions :
            Concerns(n, x) /\ j = [session |-> n, packet |-> Response(x)]
      BY <2>2, <1>1 DEF JobsOK, JobOK
    <3>2. Concerns(n, x)'
      BY <3>1, <1>1, ConcernsGrown
    <3> QED BY <3>1, <3>2 DEF JobOK
  <2> QED BY <2>1, <2>2
<1>4. ASSUME NEW a \in arrived' PROVE ArrivalOK(a)'
  <2>1. CASE a \notin arrived
    BY <2>1
  <2>2. CASE a \in arrived
    <3>1. ArrivalOK(a)
      BY <2>2, <1>1 DEF ArrivedOK
    <3>2. a.plane # 0 /\ a.packet.dst # 0
      BY <3>1, SessionFacts DEF ArrivalOK
    <3> QED BY <3>1, <3>2 DEF ArrivalOK, Sends, Grown
  <2> QED BY <2>1, <2>2
<1> QED BY <1>2, <1>3, <1>4 DEF NetOK, JobsOK, ArrivedOK

----------------------------------------------------------------------------
(* Every step keeps the invariant and the bindings.                        *)

Stable ==
  /\ \A n \in Sessions : src[n] # None => src'[n] = src[n]
  /\ \A d \in net' \ net : d.to = UpfSocket =>
       \E c \in net \ net' : c.to = Relay /\ c.from = UeSocket(src'[d.from[2]])

\* A step that sends nothing to the UPF.
LEMMA Preserves ==
  ASSUME IInv, Types', Grown, PlanesOK', PassedOnOwnReply', ClaimedByOwnerOrEarlier',
         \A d \in net' \ net : Shape(d)' /\ d.to # UpfSocket,
         \A j \in jobs' \ jobs : JobOK(j)',
         \A a \in arrived' \ arrived : ArrivalOK(a)'
  PROVE  IInv' /\ Stable
<1>1. NetOK' /\ JobsOK' /\ ArrivedOK'
  BY Carried
<1>2. IInv'
  BY <1>1 DEF IInv
<1>3. Stable
  BY DEF Stable, Grown
<1> QED BY <1>2, <1>3

\* A step that leaves the UE alone.
LEMMA UeAlone ==
  ASSUME IInv, UNCHANGED ueVars, slot' \in 0..MaxSessions, slot <= slot'
  PROVE  /\ PlanesOK' /\ PassedOnOwnReply'
         /\ mode' \in {"auto", "fabric", "standalone"}
         /\ taken' \in 0..slot' /\ ip' \in 0..slot' /\ tunnel' \in 0..slot'
         /\ kernelTun' \in 0..slot' /\ virtual' \in BOOLEAN /\ apps' \in 0..MaxApps
         /\ ping' \in [Sessions -> {"none", "sent", "passed", "failed", "external"}]
         /\ arrived' \subseteq [plane : Sessions, packet : Inner, written : BOOLEAN]
         /\ arrived' = arrived
<1>1. Types /\ PlanesOK /\ PassedOnOwnReply
  BY DEF IInv
<1>2. /\ mode' = mode /\ taken' = taken /\ ip' = ip /\ tunnel' = tunnel /\ virtual' = virtual
      /\ kernelTun' = kernelTun /\ ping' = ping /\ arrived' = arrived /\ apps' = apps
  BY DEF ueVars
<1>3. slot \in 0..MaxSessions /\ MaxSessions \in Nat
  BY <1>1, RelayAssumption DEF Types
<1>4. /\ taken' \in 0..slot' /\ ip' \in 0..slot' /\ tunnel' \in 0..slot'
      /\ kernelTun' \in 0..slot'
  BY <1>1, <1>2, <1>3 DEF Types
<1>5. PlanesOK'
  BY <1>1, <1>2 DEF PlanesOK
<1>6. PassedOnOwnReply'
  BY <1>1, <1>2 DEF PassedOnOwnReply
<1> QED BY <1>1, <1>2, <1>4, <1>5, <1>6 DEF Types

\* Such a step that leaves the table of sessions alone too.
LEMMA UeAndTableAlone ==
  ASSUME IInv, UNCHANGED <<ueVars, slot, src, notifying, upfVars>>, lost' \in BOOLEAN,
         \A d \in net' \ net : Shape(d)' /\ d.to # UpfSocket,
         \A j \in jobs' \ jobs : JobOK(j)'
  PROVE  IInv' /\ Stable
<1>1. Types /\ ClaimedByOwnerOrEarlier
  BY DEF IInv
<1>2. slot' = slot /\ src' = src /\ notifying' = notifying /\ told' = told /\ kernelN6' = kernelN6
  BY DEF upfVars
<1>3. slot' \in 0..MaxSessions /\ slot <= slot'
  BY <1>1, <1>2, RelayAssumption DEF Types
<1>4. UNCHANGED ueVars
  OBVIOUS
<1>5. Types'
  BY <1>1, <1>2, <1>3, <1>4, UeAlone DEF Types
<1>6. Grown
  <2>1. taken' = taken /\ kernelTun' = kernelTun
    BY <1>4 DEF ueVars
  <2>2. taken \in Nat
    BY <1>1, <1>3, RelayAssumption DEF Types
  <2> QED BY <1>2, <2>1, <2>2 DEF Grown
<1>7. ClaimedByOwnerOrEarlier'
  BY <1>1, <1>2 DEF ClaimedByOwnerOrEarlier
<1>8. PlanesOK' /\ PassedOnOwnReply' /\ arrived' = arrived
  BY <1>3, <1>4, UeAlone
<1> QED BY <1>5, <1>6, <1>7, <1>8, Preserves

LEMMA RegisterKeeps == ASSUME IInv, RegisterUESession PROVE IInv' /\ Stable
<1>1. Types /\ ClaimedByOwnerOrEarlier
  BY DEF IInv
<1>2. /\ slot < MaxSessions /\ slot' = slot + 1 /\ notifying' = TRUE
      /\ UNCHANGED ueVars /\ src' = src /\ jobs' = jobs /\ kernelN6' = kernelN6
      /\ net' = net /\ lost' = lost
  BY DEF RegisterUESession
<1>3. slot' \in 0..MaxSessions /\ slot <= slot'
  BY <1>1, <1>2, RelayAssumption DEF Types
<1>4. told' \in [Sessions -> SUBSET {"smf", "gnb"}]
  <2>1. PICK known \in {{}, {"smf"}} : told' = [told EXCEPT ![slot'] = known]
    BY DEF RegisterUESession
  <2>2. known \in SUBSET {"smf", "gnb"}
    BY <2>1
  <2> QED BY <1>1, <2>1, <2>2 DEF Types
<1>5. Types'
  BY <1>1, <1>2, <1>3, <1>4, UeAlone DEF Types
<1>6. Grown
  <2>1. taken' = taken /\ kernelTun' = kernelTun
    BY <1>2 DEF ueVars
  <2>2. taken \in Nat
    BY <1>1, RelayAssumption DEF Types
  <2> QED BY <1>2, <2>1, <2>2 DEF Grown
<1>7. ClaimedByOwnerOrEarlier'
  BY <1>1, <1>2 DEF ClaimedByOwnerOrEarlier
<1>8. PlanesOK' /\ PassedOnOwnReply' /\ arrived' = arrived
  BY <1>2, <1>3, UeAlone
<1> QED BY <1>2, <1>5, <1>6, <1>7, <1>8, Preserves

LEMMA NotifyKeeps == ASSUME IInv, NotifyUpf PROVE IInv' /\ Stable
<1>1. Types /\ ClaimedByOwnerOrEarlier
  BY DEF IInv
<1>2. /\ notifying' = FALSE /\ UNCHANGED ueVars /\ slot' = slot /\ src' = src /\ jobs' = jobs
      /\ kernelN6' = kernelN6 /\ net' = net /\ lost' = lost
  BY DEF NotifyUpf
<1>3. slot' \in 0..MaxSessions /\ slot <= slot'
  BY <1>1, <1>2, RelayAssumption DEF Types
<1>4. told' \in [Sessions -> SUBSET {"smf", "gnb"}]
  <2>1. told \in [Sessions -> SUBSET {"smf", "gnb"}]
    BY <1>1 DEF Types
  <2>2. told' = [told EXCEPT ![slot] = @ \cup {"gnb"}] \/ told' = told
    BY DEF NotifyUpf
  <2> QED BY <2>1, <2>2
<1>5. Types'
  BY <1>1, <1>2, <1>3, <1>4, UeAlone DEF Types
<1>6. Grown
  <2>1. taken' = taken /\ kernelTun' = kernelTun
    BY <1>2 DEF ueVars
  <2>2. taken \in Nat
    BY <1>1, RelayAssumption DEF Types
  <2> QED BY <1>2, <2>1, <2>2 DEF Grown
<1>7. ClaimedByOwnerOrEarlier'
  BY <1>1, <1>2 DEF ClaimedByOwnerOrEarlier
<1>8. PlanesOK' /\ PassedOnOwnReply' /\ arrived' = arrived
  BY <1>2, <1>3, UeAlone
<1> QED BY <1>2, <1>5, <1>6, <1>7, <1>8, Preserves

----------------------------------------------------------------------------
(* The steps of the UE.                                                    *)

\* What an accept needs and leaves alone.
LEMMA AcceptFacts ==
  ASSUME IInv, NEW n \in Sessions, AcceptReady(n), Accepted(n)
  PROVE  /\ n \in 0..slot /\ taken' = n /\ ip' = n /\ taken < n /\ taken \in Nat
         /\ \A m \in Sessions : ping[m] \notin {"sent", "external"}
         /\ kernelTun \in 0..taken /\ tunnel \in 0..taken
         /\ kernelTun \in Nat /\ tunnel \in Nat /\ n \in Nat /\ n # 0
<1>1. Types /\ PlanesOK
  BY DEF IInv
<1>2. taken \in Nat /\ slot \in Nat /\ kernelTun \in Nat /\ tunnel \in Nat
  BY <1>1, RelayAssumption DEF Types
<1>3. n \in Nat \ {0}
  BY SessionFacts
<1>4. n = taken + 1 /\ n <= slot
  BY <1>2, <1>3 DEF AcceptReady
<1>5. \A m \in Sessions : ping[m] \notin {"sent", "external"}
  BY DEF AcceptReady, Testing
<1>6. taken' = n /\ ip' = n
  BY DEF Accepted
<1>7. kernelTun <= taken /\ tunnel <= taken
  BY <1>1 DEF PlanesOK
<1> QED BY <1>2, <1>3, <1>4, <1>5, <1>6, <1>7

LEMMA AcceptKernelKeeps ==
  ASSUME IInv, NEW n \in Sessions, AcceptKernel(n) PROVE IInv' /\ Stable
<1>1. Types /\ PlanesOK /\ PassedOnOwnReply /\ ClaimedByOwnerOrEarlier
  BY DEF IInv
<1>2. /\ AcceptReady(n) /\ Accepted(n) /\ kernelTun = 0
      /\ kernelTun' = n /\ tunnel' = n /\ virtual' = FALSE
      /\ ping' = [ping EXCEPT ![n] = "external"]
      /\ mode' = mode /\ arrived' = arrived /\ apps' = apps
      /\ slot' = slot /\ src' = src /\ notifying' = notifying /\ jobs' = jobs
      /\ told' = told /\ kernelN6' = kernelN6 /\ net' = net /\ lost' = lost
  BY DEF AcceptKernel, gnbVars, upfVars
<1>3. /\ n \in 0..slot /\ taken' = n /\ ip' = n /\ taken < n /\ taken \in Nat
      /\ \A m \in Sessions : ping[m] \notin {"sent", "external"}
      /\ n \in Nat /\ n # 0
  BY <1>2, AcceptFacts
<1>4. ping' \in [Sessions -> {"none", "sent", "passed", "failed", "external"}]
  <2>1. "external" \in {"none", "sent", "passed", "failed", "external"}
    OBVIOUS
  <2> QED BY <1>1, <1>2, <2>1 DEF Types
<1>5. ping'[n] = "external" /\ \A m \in Sessions : m # n => ping'[m] = ping[m]
  BY <1>1, <1>2 DEF Types
<1>6. Types'
  BY <1>1, <1>2, <1>3, <1>4 DEF Types
<1>7. Grown
  BY <1>2, <1>3 DEF Grown
<1>8. PlanesOK'
  <2>1. kernelTun' <= taken' /\ tunnel' <= taken'
    BY <1>2, <1>3
  <2>2. kernelTun' # 0 => tunnel' # 0 /\ ping'[kernelTun'] \in {"external", "failed"}
    BY <1>2, <1>3, <1>5
  <2>3. \A m \in Sessions : ping'[m] \in {"sent", "external"} => m = taken' /\ m = ip'
    BY <1>3, <1>5
  <2> QED BY <2>1, <2>2, <2>3 DEF PlanesOK
<1>9. PassedOnOwnReply'
  BY <1>1, <1>2, <1>5 DEF PassedOnOwnReply
<1>10. ClaimedByOwnerOrEarlier'
  BY <1>1, <1>2 DEF ClaimedByOwnerOrEarlier
<1> QED BY <1>2, <1>6, <1>7, <1>8, <1>9, <1>10, Preserves

LEMMA AcceptVirtualKeeps ==
  ASSUME IInv, NEW n \in Sessions, AcceptVirtual(n) PROVE IInv' /\ Stable
<1>1. Types /\ PlanesOK /\ PassedOnOwnReply /\ ClaimedByOwnerOrEarlier
  BY DEF IInv
<1>2. PICK s : s = SendGPDU(UeSocket(n), Relay, 1, Request(ip'))
  OBVIOUS
<1>3. /\ AcceptReady(n) /\ Accepted(n)
      /\ tunnel' = n /\ virtual' = TRUE
      /\ ping' = [ping EXCEPT ![n] = "sent"]
      /\ net' = net \cup {s}
      /\ mode' = mode /\ kernelTun' = kernelTun /\ arrived' = arrived /\ apps' = apps
      /\ slot' = slot /\ src' = src /\ notifying' = notifying /\ jobs' = jobs
      /\ told' = told /\ kernelN6' = kernelN6 /\ lost' = lost
  BY <1>2 DEF AcceptVirtual, gnbVars, upfVars
<1>4. /\ n \in 0..slot /\ taken' = n /\ ip' = n /\ taken < n /\ taken \in Nat
      /\ \A m \in Sessions : ping[m] \notin {"sent", "external"}
      /\ kernelTun \in 0..taken /\ kernelTun \in Nat /\ n \in Nat /\ n # 0
  BY <1>3, AcceptFacts
<1>5. ping' \in [Sessions -> {"none", "sent", "passed", "failed", "external"}]
  <2>1. "sent" \in {"none", "sent", "passed", "failed", "external"}
    OBVIOUS
  <2> QED BY <1>1, <1>3, <2>1 DEF Types
<1>6. ping'[n] = "sent" /\ \A m \in Sessions : m # n => ping'[m] = ping[m]
  BY <1>1, <1>3 DEF Types
<1>7. Types'
  <2>1. kernelTun' \in 0..slot'
    BY <1>1, <1>3 DEF Types
  <2> QED BY <1>1, <1>3, <1>4, <1>5, <2>1 DEF Types
<1>8. Grown
  BY <1>3, <1>4 DEF Grown
<1>9. PlanesOK'
  <2>1. kernelTun' <= taken' /\ tunnel' <= taken'
    BY <1>3, <1>4
  <2>2. ASSUME kernelTun' # 0
        PROVE  tunnel' # 0 /\ ping'[kernelTun'] \in {"external", "failed"}
    <3>1. kernelTun # n /\ kernelTun # 0
      BY <1>3, <1>4, <2>2
    <3>2. ping[kernelTun] \in {"external", "failed"}
      BY <1>1, <3>1 DEF PlanesOK
    <3>3. kernelTun \in Sessions
      BY <1>1, <3>1, <1>4, SessionFacts DEF Types
    <3> QED BY <1>3, <1>4, <1>6, <3>1, <3>2, <3>3
  <2>3. \A m \in Sessions : ping'[m] \in {"sent", "external"} => m = taken' /\ m = ip'
    BY <1>4, <1>6
  <2> QED BY <2>1, <2>2, <2>3 DEF PlanesOK
<1>10. PassedOnOwnReply'
  BY <1>1, <1>3, <1>6 DEF PassedOnOwnReply
<1>11. ClaimedByOwnerOrEarlier'
  BY <1>1, <1>3 DEF ClaimedByOwnerOrEarlier
<1>12. Shape(s)' /\ s.to # UpfSocket
  <2>1. n <= taken' /\ Sends(n, n)' /\ s = SendGPDU(UeSocket(n), Relay, 1, Request(n))
    BY <1>2, <1>4 DEF Sends
  <2>2. FromUe(s)'
    BY <2>1 DEF FromUe
  <2>3. s.to = Relay
    BY ONLY <2>1 DEF SendGPDU
  <2> QED BY <2>2, <2>3, EndsApart DEF Shape
<1>13. \A d \in net' \ net : Shape(d)' /\ d.to # UpfSocket
  BY <1>3, <1>12
<1> QED BY <1>3, <1>7, <1>8, <1>9, <1>10, <1>11, <1>13, Preserves

LEMMA AcceptFailsKeeps ==
  ASSUME IInv, NEW n \in Sessions, AcceptFails(n) PROVE IInv' /\ Stable
<1>1. Types /\ PlanesOK /\ PassedOnOwnReply /\ ClaimedByOwnerOrEarlier
  BY DEF IInv
<1>2. /\ AcceptReady(n) /\ Accepted(n)
      /\ mode' = mode /\ tunnel' = tunnel /\ virtual' = virtual /\ kernelTun' = kernelTun
      /\ ping' = ping /\ arrived' = arrived /\ apps' = apps
      /\ slot' = slot /\ src' = src /\ notifying' = notifying /\ jobs' = jobs
      /\ told' = told /\ kernelN6' = kernelN6 /\ net' = net /\ lost' = lost
  BY DEF AcceptFails, gnbVars, upfVars
<1>3. /\ n \in 0..slot /\ taken' = n /\ ip' = n /\ taken < n /\ taken \in Nat
      /\ \A m \in Sessions : ping[m] \notin {"sent", "external"}
      /\ kernelTun \in 0..taken /\ tunnel \in 0..taken
      /\ n \in Nat /\ kernelTun \in Nat /\ tunnel \in Nat
  BY <1>2, AcceptFacts
<1>4. Types'
  BY <1>1, <1>2, <1>3 DEF Types
<1>5. Grown
  BY <1>2, <1>3 DEF Grown
<1>6. PlanesOK'
  BY <1>1, <1>2, <1>3 DEF PlanesOK
<1>7. PassedOnOwnReply' /\ ClaimedByOwnerOrEarlier'
  BY <1>1, <1>2 DEF PassedOnOwnReply, ClaimedByOwnerOrEarlier
<1> QED BY <1>2, <1>4, <1>5, <1>6, <1>7, Preserves

LEMMA TestEndsKeeps ==
  ASSUME IInv, NEW n \in Sessions, TestEnds(n) PROVE IInv' /\ Stable
<1>1. Types /\ PlanesOK /\ PassedOnOwnReply /\ ClaimedByOwnerOrEarlier
  BY DEF IInv
<1>2. /\ ping' = [ping EXCEPT ![n] = "failed"]
      /\ mode' = mode /\ taken' = taken /\ ip' = ip /\ tunnel' = tunnel /\ virtual' = virtual
      /\ kernelTun' = kernelTun /\ arrived' = arrived /\ apps' = apps
      /\ slot' = slot /\ src' = src /\ notifying' = notifying /\ jobs' = jobs
      /\ told' = told /\ kernelN6' = kernelN6 /\ net' = net /\ lost' = lost
  BY DEF TestEnds, gnbVars, upfVars
<1>3. ping' \in [Sessions -> {"none", "sent", "passed", "failed", "external"}]
  <2>1. "failed" \in {"none", "sent", "passed", "failed", "external"}
    OBVIOUS
  <2> QED BY <1>1, <1>2, <2>1 DEF Types
<1>4. ping'[n] = "failed" /\ \A m \in Sessions : m # n => ping'[m] = ping[m]
  BY <1>1, <1>2 DEF Types
<1>5. Types'
  BY <1>1, <1>2, <1>3 DEF Types
<1>6. taken \in Nat /\ kernelTun \in 0..MaxSessions
  BY <1>1, RelayAssumption DEF Types
<1>7. Grown
  BY <1>2, <1>6 DEF Grown
<1>8. PlanesOK'
  <2>1. kernelTun' # 0 => tunnel' # 0 /\ ping'[kernelTun'] \in {"external", "failed"}
    <3>1. kernelTun # 0 => kernelTun \in Sessions
      BY <1>6, SessionFacts
    <3> QED BY <1>1, <1>2, <1>4, <3>1 DEF PlanesOK
  <2>2. \A m \in Sessions : ping'[m] \in {"sent", "external"} => m = taken' /\ m = ip'
    BY <1>1, <1>2, <1>4 DEF PlanesOK
  <2> QED BY <1>1, <1>2, <2>1, <2>2 DEF PlanesOK
<1>9. PassedOnOwnReply'
  BY <1>1, <1>2, <1>4 DEF PassedOnOwnReply
<1>10. ClaimedByOwnerOrEarlier'
  BY <1>1, <1>2 DEF ClaimedByOwnerOrEarlier
<1> QED BY <1>2, <1>5, <1>7, <1>8, <1>9, <1>10, Preserves

LEMMA AppSendsKeeps == ASSUME IInv, AppSends PROVE IInv' /\ Stable
<1>1. Types /\ PlanesOK /\ PassedOnOwnReply /\ ClaimedByOwnerOrEarlier
  BY DEF IInv
<1>2. PICK s : s = SendGPDU(UeSocket(tunnel), Relay, 1, Request(kernelTun))
  OBVIOUS
<1>3. /\ kernelTun # 0 /\ apps < MaxApps /\ apps' = apps + 1 /\ net' = net \cup {s}
      /\ mode' = mode /\ taken' = taken /\ ip' = ip /\ tunnel' = tunnel /\ virtual' = virtual
      /\ kernelTun' = kernelTun /\ ping' = ping /\ arrived' = arrived
      /\ slot' = slot /\ src' = src /\ notifying' = notifying /\ jobs' = jobs
      /\ told' = told /\ kernelN6' = kernelN6 /\ lost' = lost
  BY <1>2 DEF AppSends, gnbVars, upfVars
<1>4. apps' \in 0..MaxApps
  <2>1. apps \in 0..MaxApps /\ MaxApps \in Nat
    BY <1>1, RelayAssumption DEF Types
  <2> QED BY <1>3, <2>1
<1>5. Types'
  BY <1>1, <1>3, <1>4 DEF Types
<1>6. /\ taken \in Nat /\ kernelTun \in Sessions /\ tunnel \in Sessions
      /\ tunnel <= taken
  <2>1. kernelTun \in 0..slot /\ tunnel \in 0..slot /\ slot \in 0..MaxSessions /\ taken \in 0..slot
    BY <1>1 DEF Types
  <2>2. tunnel # 0 /\ tunnel <= taken
    BY <1>1, <1>3 DEF PlanesOK
  <2> QED BY <1>3, <2>1, <2>2, SessionFacts
<1>7. Grown
  BY <1>3, <1>6 DEF Grown
<1>8. PlanesOK' /\ PassedOnOwnReply' /\ ClaimedByOwnerOrEarlier'
  BY <1>1, <1>3 DEF PlanesOK, PassedOnOwnReply, ClaimedByOwnerOrEarlier
<1>9. Shape(s)' /\ s.to # UpfSocket
  <2>1. tunnel <= taken' /\ Sends(tunnel, kernelTun)'
    BY <1>3, <1>6 DEF Sends
  <2>2. FromUe(s)'
    <3>1. PICK m \in Sessions, x \in Sessions : m = tunnel /\ x = kernelTun
      BY <1>6
    <3>2. m <= taken' /\ Sends(m, x)' /\ s = SendGPDU(UeSocket(m), Relay, 1, Request(x))
      BY <1>2, <1>3, <2>1, <3>1 DEF Sends
    <3> QED BY <3>2 DEF FromUe
  <2>3. s.to = Relay
    BY ONLY <1>2 DEF SendGPDU
  <2> QED BY <2>2, <2>3, EndsApart DEF Shape
<1>10. \A d \in net' \ net : Shape(d)' /\ d.to # UpfSocket
  BY <1>3, <1>9
<1> QED BY <1>3, <1>5, <1>7, <1>8, <1>10, Preserves

\* A reply is for the plane whose socket it arrives at or for the one with the
\* device; and no plane with the device waits for the reply to a synthetic ping.
LEMMA UeReceivesKeeps ==
  ASSUME IInv, NEW d \in net, UeReceives(d) PROVE IInv' /\ Stable
<1>1. Types /\ PlanesOK /\ PassedOnOwnReply /\ ClaimedByOwnerOrEarlier /\ NetOK
  BY DEF IInv
<1>2. /\ net' = net \ {d}
      /\ mode' = mode /\ taken' = taken /\ ip' = ip /\ tunnel' = tunnel /\ virtual' = virtual
      /\ kernelTun' = kernelTun /\ apps' = apps
      /\ slot' = slot /\ src' = src /\ notifying' = notifying /\ jobs' = jobs
      /\ told' = told /\ kernelN6' = kernelN6 /\ lost' = lost
  BY DEF UeReceives, gnbVars, upfVars
<1>3. PICK m \in Sessions : d.to = UeSocket(m)
  BY DEF UeReceives
<1>4. d.to[2] = m
  BY ONLY <1>3 DEF UeSocket
<1>5. PICK n \in Sessions, x \in Sessions :
        /\ src[n] = m /\ src[n] # None /\ Concerns(n, x)
        /\ IsGPDU(d) /\ Received(d).teid = n /\ Packet(d) = Response(x)
  BY <1>1, <1>3, UeGets DEF NetOK
<1>6. taken \in Nat
  BY <1>1, RelayAssumption DEF Types
<1>7. Grown
  BY <1>2, <1>6 DEF Grown
<1>8. ClaimedByOwnerOrEarlier'
  BY <1>1, <1>2 DEF ClaimedByOwnerOrEarlier
<1>9. CASE n # m
  <2>1. arrived' = arrived /\ ping' = ping
    BY <1>4, <1>5, <1>9 DEF UeReceives, HandlerFor
  <2>2. Types'
    BY <1>1, <1>2, <2>1 DEF Types
  <2>3. PlanesOK' /\ PassedOnOwnReply'
    BY <1>1, <1>2, <2>1 DEF PlanesOK, PassedOnOwnReply
  <2> QED BY <1>2, <1>7, <1>8, <2>1, <2>2, <2>3, Preserves
<1>10. CASE n = m
  <2>1. PICK a : a = [plane |-> m, packet |-> Response(x), written |-> ~virtual /\ m = kernelTun]
    OBVIOUS
  <2>2. /\ arrived' = arrived \cup {a}
        /\ ping' = IF IsICMPEchoReply(Response(x))
                   THEN [k \in Sessions |-> IF ping[k] = "sent" THEN "passed" ELSE ping[k]]
                   ELSE ping
    BY <1>4, <1>5, <1>10, <2>1 DEF UeReceives, HandlerFor
  <2>3. Sends(m, x)
    BY <1>5, <1>10 DEF Concerns, Sends
  <2>4. Response(x) \in Inner /\ Response(x).dst = x
    BY PacketFacts
  <2>5. a.plane = m /\ a.packet = Response(x) /\ (a.written => m = kernelTun)
    BY <2>1
  <2>6. a \in [plane : Sessions, packet : Inner, written : BOOLEAN]
    BY <2>1, <2>4
  <2>7. ArrivalOK(a)'
    BY <1>2, <2>3, <2>4, <2>5 DEF ArrivalOK, Sends
  <2>8. \A k \in Sessions :
          \/ ping'[k] = ping[k]
          \/ ping[k] = "sent" /\ ping'[k] = "passed" /\ x = ip
    BY <2>2, <2>4 DEF IsICMPEchoReply
  <2>9. ping' \in [Sessions -> {"none", "sent", "passed", "failed", "external"}]
    <3>1. ping \in [Sessions -> {"none", "sent", "passed", "failed", "external"}]
      BY <1>1 DEF Types
    <3>2. ping' = ping \/
          ping' = [k \in Sessions |-> IF ping[k] = "sent" THEN "passed" ELSE ping[k]]
      BY <2>2
    <3>3. [k \in Sessions |-> IF ping[k] = "sent" THEN "passed" ELSE ping[k]]
            \in [Sessions -> {"none", "sent", "passed", "failed", "external"}]
      BY <3>1
    <3> QED BY <3>1, <3>2, <3>3
  <2>10. Types'
    BY <1>1, <1>2, <2>2, <2>6, <2>9 DEF Types
  <2>11. kernelTun # 0 => kernelTun \in Sessions
    BY <1>1, SessionFacts DEF Types
  <2>12. PlanesOK'
    <3>1. kernelTun' # 0 => tunnel' # 0 /\ ping'[kernelTun'] \in {"external", "failed"}
      BY <1>1, <1>2, <2>8, <2>11 DEF PlanesOK
    <3>2. \A k \in Sessions : ping'[k] \in {"sent", "external"} => k = taken' /\ k = ip'
      BY <1>1, <1>2, <2>8 DEF PlanesOK
    <3> QED BY <1>1, <1>2, <3>1, <3>2 DEF PlanesOK
  <2>13. PassedOnOwnReply'
    <3>1. ASSUME NEW k \in Sessions, ping'[k] = "passed"
          PROVE  \E b \in arrived' : b.plane = k /\ b.packet.dst = k
      <4>1. CASE ping'[k] = ping[k]
        BY <1>1, <2>2, <3>1, <4>1 DEF PassedOnOwnReply
      <4>2. CASE ping[k] = "sent" /\ x = ip
        <5>1. k = x
          BY <1>1, <4>2 DEF PlanesOK
        <5>2. k # kernelTun
          BY <1>1, <4>2, <2>11, SessionFacts DEF PlanesOK
        <5>3. m = k
          BY <2>3, <5>1, <5>2 DEF Sends
        <5> QED BY <2>2, <2>4, <2>5, <5>1, <5>3
      <4> QED BY <2>8, <3>1, <4>1, <4>2
    <3> QED BY <3>1 DEF PassedOnOwnReply
  <2> QED BY <1>2, <1>7, <1>8, <2>2, <2>7, <2>10, <2>12, <2>13, Preserves
<1> QED BY <1>9, <1>10

----------------------------------------------------------------------------
(* The steps of the gNB.                                                   *)

\* What goes up under a session's TEID comes from the socket it is bound to, and
\* a session is first bound to the socket of a plane the UE has by then.
LEMMA HandleUplinkKeeps ==
  ASSUME IInv, NEW d \in net, HandleUplinkFromUE(d) PROVE IInv' /\ Stable
<1>1. Types /\ ClaimedByOwnerOrEarlier /\ NetOK
  BY DEF IInv
<1>2. /\ UNCHANGED ueVars /\ slot' = slot /\ notifying' = notifying /\ jobs' = jobs
      /\ told' = told /\ kernelN6' = kernelN6 /\ lost' = lost /\ d.to = Relay
  BY DEF HandleUplinkFromUE, upfVars
<1>3. PICK m \in Sessions, x \in Sessions :
        /\ m <= taken /\ Sends(m, x)
        /\ d.from = UeSocket(m) /\ d.from[2] = m /\ IsGPDU(d) /\ Packet(d) = Request(x)
  BY <1>1, <1>2, RelayGets DEF NetOK
<1>4. Request(x).src \in Sessions /\ Request(x) \in Inner
  BY PacketFacts
<1>5. PICK n : n = ResolveSessionForUplink(m)
  OBVIOUS
<1>6. PICK s : s = SendGPDU(GnbSocket(n), UpfSocket, n, Request(x))
  OBVIOUS
<1>7. IF n = 0
      THEN net' = net \ {d} /\ src' = src
      ELSE /\ src' = IF Claimable THEN [src EXCEPT ![n] = m] ELSE src
           /\ net' = (net \ {d}) \cup {s}
  BY <1>3, <1>4, <1>5, <1>6 DEF HandleUplinkFromUE, PlausibleUEIPv4
<1>8. slot' \in 0..MaxSessions /\ slot <= slot' /\ taken \in 0..slot
  BY <1>1, <1>2, RelayAssumption DEF Types
<1>9. /\ PlanesOK' /\ PassedOnOwnReply' /\ arrived' = arrived
      /\ taken' = taken /\ kernelTun' = kernelTun
  BY <1>2, <1>8, UeAlone DEF ueVars
<1>10. CASE n = 0
  <2>1. net' = net \ {d} /\ src' = src
    BY <1>7, <1>10
  <2> QED BY <1>2, <1>8, <2>1, UeAndTableAlone, <1>1 DEF upfVars, Types
<1>11. CASE n # 0
  <2>1. /\ src' = IF Claimable THEN [src EXCEPT ![n] = m] ELSE src
        /\ net' = (net \ {d}) \cup {s}
    BY <1>7, <1>11
  <2>2. n = slot /\ (src[n] = m \/ Claimable)
    BY <1>5, <1>11 DEF ResolveSessionForUplink, Bound
  <2>3. n \in Sessions
    BY <1>1, <1>11, <2>2, SessionFacts DEF Types
  <2>4. src \in [Sessions -> Sessions \cup {None}]
    BY <1>1 DEF Types
  <2>5. Claimable => src[n] = None
    BY <2>2 DEF Claimable
  <2>6. src' \in [Sessions -> Sessions \cup {None}]
    BY <2>1, <2>3, <2>4
  <2>7. src'[n] = m /\ m # None
    BY <2>1, <2>2, <2>3, <2>4, SessionFacts
  <2>8. \A k \in Sessions : src[k] # None => src'[k] = src[k]
    BY <2>1, <2>3, <2>4, <2>5
  <2>9. \A k \in Sessions : k # n => src'[k] = src[k]
    BY <2>1, <2>3, <2>4
  <2>10. Types'
    BY <1>1, <1>2, <1>8, <2>6, UeAlone DEF Types
  <2>11. Grown
    BY <1>8, <1>9, <2>8, RelayAssumption DEF Grown
  <2>12. ClaimedByOwnerOrEarlier'
    <3>1. m <= n
      <4>1. m \in Nat /\ taken \in Nat /\ taken <= slot
        BY <1>1, <1>8, SessionFacts DEF Types
      <4>2. slot \in Nat
        BY <1>1, RelayAssumption DEF Types
      <4> QED BY <1>3, <2>2, <4>1, <4>2
    <3>2. ASSUME NEW k \in Sessions, src'[k] # None PROVE src'[k] <= k
      BY <1>1, <2>7, <2>9, <3>1, <3>2 DEF ClaimedByOwnerOrEarlier
    <3> QED BY <3>2 DEF ClaimedByOwnerOrEarlier
  <2>13. s.from = GnbSocket(n) /\ s.to = UpfSocket
    BY ONLY <1>6 DEF SendGPDU
  <2>14. Shape(s)'
    <3>1. Sends(m, x)'
      BY <1>3, <1>9 DEF Sends
    <3>2. src'[n] # None /\ Sends(src[n], x)'
      BY <2>7, <3>1 DEF Sends
    <3>3. ToUpf(s)'
      BY <1>6, <2>3, <3>2 DEF ToUpf
    <3> QED BY <3>3 DEF Shape
  <2>15. NetOK' /\ JobsOK' /\ ArrivedOK'
    BY <1>2, <1>9, <2>1, <2>10, <2>11, <2>14, Carried
  <2>16. IInv'
    BY <1>9, <2>10, <2>12, <2>15 DEF IInv
  <2>17. Stable
    <3>1. d \in net \ net' /\ d.to = Relay
      BY <1>2, <2>1, <2>13, EndsApart
    <3>2. s.from[2] = n
      BY <2>13, EndsApart
    <3>3. d.from = UeSocket(src'[s.from[2]])
      BY <1>3, <2>7, <3>2
    <3> QED BY <2>1, <2>8, <3>1, <3>3 DEF Stable
  <2> QED BY <2>16, <2>17
<1> QED BY <1>10, <1>11

LEMMA HandleDownlinkKeeps ==
  ASSUME IInv, NEW d \in net, HandleDownlinkPacket(d) PROVE IInv' /\ Stable
<1>1. Types /\ NetOK
  BY DEF IInv
<1>2. /\ net' = net \ {d} /\ UNCHANGED <<ueVars, slot, src, notifying, upfVars>> /\ lost' = lost
  BY DEF HandleDownlinkPacket
<1>3. PICK m \in Sessions : d.to = GnbSocket(m)
  BY DEF HandleDownlinkPacket
<1>4. PICK n \in Sessions, x \in Sessions :
        Concerns(n, x) /\ IsGPDU(d) /\ Received(d).teid = n /\ Packet(d) = Response(x)
  BY <1>1, <1>3, GnbGets DEF NetOK
<1>5. jobs' = jobs \/ jobs' = jobs \cup {[session |-> n, packet |-> Response(x)]}
  BY <1>4 DEF HandleDownlinkPacket
<1>6. Concerns(n, x)'
  BY <1>2, <1>4 DEF Concerns, Sends, ueVars
<1>7. JobOK([session |-> n, packet |-> Response(x)])'
  BY <1>6 DEF JobOK
<1>8. lost' \in BOOLEAN
  BY <1>1, <1>2 DEF Types
<1> QED BY <1>2, <1>5, <1>7, <1>8, UeAndTableAlone

LEMMA RelayDownlinkKeeps ==
  ASSUME IInv, NEW j \in jobs, RelayDownlinkToUE(j) PROVE IInv' /\ Stable
<1>1. Types /\ JobsOK
  BY DEF IInv
<1>2. jobs' = jobs \ {j} /\ UNCHANGED <<ueVars, slot, src, notifying, upfVars>> /\ lost' = lost
  BY DEF RelayDownlinkToUE
<1>3. PICK n \in Sessions, x \in Sessions :
        Concerns(n, x) /\ j = [session |-> n, packet |-> Response(x)]
  BY <1>1 DEF JobsOK, JobOK
<1>4. PICK s : s = SendGPDU(Relay, UeSocket(src[n]), n, Response(x))
  OBVIOUS
<1>5. net' = IF src[n] = None THEN net ELSE net \cup {s}
  <2>1. j.session = n /\ j.packet = Response(x)
    BY <1>3
  <2> QED BY <1>4, <2>1 DEF RelayDownlinkToUE, DownlinkTeid
<1>6. Concerns(n, x)' /\ src' = src
  BY <1>2, <1>3 DEF Concerns, Sends, ueVars
<1>7. src[n] # None => Shape(s)'
  BY <1>4, <1>6 DEF Shape, ToUe
<1>8. s.to # UpfSocket
  <2>1. s.to = UeSocket(src[n])
    BY ONLY <1>4 DEF SendGPDU
  <2> QED BY <2>1, EndsApart
<1>9. \A d \in net' \ net : Shape(d)' /\ d.to # UpfSocket
  BY <1>5, <1>7, <1>8
<1>10. lost' \in BOOLEAN
  BY <1>1, <1>2 DEF Types
<1> QED BY <1>2, <1>9, <1>10, UeAndTableAlone

----------------------------------------------------------------------------
(* The steps of the UPF and the data network.                              *)

LEMMA UpfKeeps ==
  ASSUME IInv, NEW d \in net, UpfHandleUplink(d) PROVE IInv' /\ Stable
<1>1. Types /\ NetOK
  BY DEF IInv
<1>2. /\ UNCHANGED <<ueVars, slot, src, notifying, upfVars>> /\ jobs' = jobs /\ lost' = lost
      /\ d.to = UpfSocket
  BY DEF UpfHandleUplink, gnbVars
<1>3. PICK n \in Sessions, x \in Sessions :
        /\ src[n] # None /\ Sends(src[n], x)
        /\ IsGPDU(d) /\ Received(d).teid = n /\ Packet(d) = Request(x)
  BY <1>1, <1>2, UpfGets DEF NetOK
<1>4. PICK s : s = SendGPDU(UpfSocket, GnbSocket(n), n, Response(x))
  OBVIOUS
<1>5. PICK h : h = [from |-> N6, to |-> Host, data |-> <<Request(x)>>]
  OBVIOUS
<1>6. \A e \in net' \ net : e = s \/ e = h
  BY <1>3, <1>4, <1>5, PacketFacts DEF UpfHandleUplink
<1>7. Concerns(n, x)'
  BY <1>2, <1>3 DEF Concerns, Sends, ueVars
<1>8. Shape(s)' /\ s.to # UpfSocket
  <2>1. s.to = GnbSocket(n)
    BY ONLY <1>4 DEF SendGPDU
  <2> QED BY <1>4, <1>7, <2>1, EndsApart DEF Shape, ToGnb
<1>9. Shape(h)' /\ h.to # UpfSocket
  BY <1>5, EndsApart DEF Shape, ToHost
<1>10. lost' \in BOOLEAN
  BY <1>1, <1>2 DEF Types
<1> QED BY <1>2, <1>6, <1>8, <1>9, <1>10, UeAndTableAlone

LEMMA HostKeeps ==
  ASSUME IInv, NEW d \in net, HostReplies(d) PROVE IInv' /\ Stable
<1>1. Types /\ NetOK
  BY DEF IInv
<1>2. PICK s : s = [from |-> Host, to |-> N6, data |-> <<Reply(d.data[1])>>]
  OBVIOUS
<1>3. /\ UNCHANGED <<ueVars, slot, src, notifying, upfVars>> /\ jobs' = jobs /\ lost' = lost
      /\ d.to = Host /\ net' = (net \ {d}) \cup {s}
  BY <1>2 DEF HostReplies, gnbVars
<1>4. PICK x \in Sessions : d = [from |-> N6, to |-> Host, data |-> <<Request(x)>>]
  BY <1>1, <1>3, HopFacts DEF NetOK, ToHost
<1>5. Reply(d.data[1]) = Response(x)
  BY <1>4, PacketFacts
<1>6. Shape(s)' /\ s.to # UpfSocket
  BY <1>2, <1>5, EndsApart DEF Shape, ToN6
<1>7. lost' \in BOOLEAN
  BY <1>1, <1>3 DEF Types
<1> QED BY <1>3, <1>6, <1>7, UeAndTableAlone

LEMMA N6Keeps ==
  ASSUME IInv, NEW d \in net, HandleN6Packet(d) PROVE IInv' /\ Stable
<1>1. Types /\ NetOK
  BY DEF IInv
<1>2. /\ UNCHANGED <<ueVars, slot, src, notifying, upfVars>> /\ jobs' = jobs /\ lost' = lost
      /\ d.to = N6
  BY DEF HandleN6Packet, gnbVars
<1>3. PICK x \in Sessions : d = [from |-> Host, to |-> N6, data |-> <<Response(x)>>]
  BY <1>1, <1>2, HopFacts DEF NetOK, ToN6
<1>4. PICK s : s = SendGPDU(UpfSocket, GnbSocket(x), x, Response(x))
  OBVIOUS
<1>5. d.data[1] = Response(x) /\ Route(d.data[1].dst) = x
  BY <1>3, PacketFacts DEF Route
<1>6. \A e \in net' \ net : e = s
  BY <1>4, <1>5 DEF HandleN6Packet
<1>7. Shape(s)' /\ s.to # UpfSocket
  <2>1. s.to = GnbSocket(x)
    BY ONLY <1>4 DEF SendGPDU
  <2> QED BY <1>4, <2>1, EndsApart DEF Shape, ToGnb, Concerns
<1>8. lost' \in BOOLEAN
  BY <1>1, <1>2 DEF Types
<1> QED BY <1>2, <1>6, <1>7, <1>8, UeAndTableAlone

LEMMA LoseKeeps == ASSUME IInv, NEW d \in net, Lose(d) PROVE IInv' /\ Stable
<1>1. /\ UNCHANGED <<ueVars, slot, src, notifying, upfVars>> /\ jobs' = jobs
      /\ lost' \in BOOLEAN /\ net' = net \ {d}
  BY DEF Lose, gnbVars
<1> QED BY <1>1, UeAndTableAlone

----------------------------------------------------------------------------
(* The theorems.                                                           *)

LEMMA Initially == Init => IInv
<1> SUFFICES ASSUME Init PROVE IInv
  OBVIOUS
<1>1. Types
  <2>1. /\ taken \in 0..slot /\ ip \in 0..slot /\ tunnel \in 0..slot /\ kernelTun \in 0..slot
        /\ slot \in 0..MaxSessions /\ apps \in 0..MaxApps
    BY RelayAssumption DEF Init
  <2>2. ping \in [Sessions -> {"none", "sent", "passed", "failed", "external"}]
    BY DEF Init
  <2>3. src \in [Sessions -> Sessions \cup {None}]
    BY DEF Init
  <2>4. told \in [Sessions -> SUBSET {"smf", "gnb"}]
    BY DEF Init
  <2>5. mode \in {"auto", "fabric", "standalone"} /\ arrived = {}
    BY DEF Init
  <2>6. virtual \in BOOLEAN /\ notifying \in BOOLEAN /\ kernelN6 \in BOOLEAN /\ lost \in BOOLEAN
    BY DEF Init
  <2> QED BY <2>1, <2>2, <2>3, <2>4, <2>5, <2>6 DEF Types
<1>2. PlanesOK
  BY DEF Init, PlanesOK
<1>3. NetOK /\ JobsOK /\ ArrivedOK
  BY DEF Init, NetOK, JobsOK, ArrivedOK
<1>4. PassedOnOwnReply /\ ClaimedByOwnerOrEarlier
  BY DEF Init, PassedOnOwnReply, ClaimedByOwnerOrEarlier
<1> QED BY <1>1, <1>2, <1>3, <1>4 DEF IInv

LEMMA Step == IInv /\ [Next]_vars => IInv' /\ [Stable]_vars
<1> SUFFICES ASSUME IInv, [Next]_vars PROVE IInv' /\ [Stable]_vars
  OBVIOUS
<1>1. CASE RegisterUESession
  BY <1>1, RegisterKeeps
<1>2. CASE NotifyUpf
  BY <1>2, NotifyKeeps
<1>3. CASE UeStep
  <2>1. PICK n \in Sessions : AcceptKernel(n) \/ AcceptVirtual(n) \/ AcceptFails(n) \/ TestEnds(n)
    BY <1>3 DEF UeStep
  <2> QED BY <2>1, AcceptKernelKeeps, AcceptVirtualKeeps, AcceptFailsKeeps, TestEndsKeeps
<1>4. CASE AppSends
  BY <1>4, AppSendsKeeps
<1>5. CASE Deliver
  <2>1. CASE \E j \in jobs : RelayDownlinkToUE(j)
    BY <2>1, RelayDownlinkKeeps
  <2>2. ASSUME NEW d \in net,
               UeReceives(d) \/ HandleUplinkFromUE(d) \/ HandleDownlinkPacket(d)
                 \/ UpfHandleUplink(d) \/ HostReplies(d) \/ HandleN6Packet(d)
        PROVE  IInv' /\ Stable
    BY <2>2, UeReceivesKeeps, HandleUplinkKeeps, HandleDownlinkKeeps, UpfKeeps, HostKeeps, N6Keeps
  <2> QED BY <1>5, <2>1, <2>2 DEF Deliver
<1>6. CASE \E d \in net : Lose(d)
  BY <1>6, LoseKeeps
<1>7. CASE UNCHANGED vars
  <2>1. /\ UNCHANGED <<ueVars, slot, src, notifying, upfVars>> /\ jobs' = jobs
        /\ net' = net /\ lost' = lost
    BY <1>7 DEF vars, ueVars, upfVars
  <2>2. lost' \in BOOLEAN
    BY <2>1 DEF IInv, Types
  <2>3. IInv'
    BY <2>1, <2>2, UeAndTableAlone
  <2> QED BY <1>7, <2>3
<1> QED BY <1>1, <1>2, <1>3, <1>4, <1>5, <1>6, <1>7 DEF Next

\* Every reachable state of the relay has the datagrams, jobs and bindings that
\* IInv describes.
THEOREM Invariance == Spec => []IInv
BY Initially, Step, PTL DEF Spec

\* A session keeps the UDP source that claimed it, and the relay sends nothing to
\* the UPF under its TEID but what came from that source.
THEOREM BindingsStable == Spec => BindingIsStable
<1>1. [Stable]_vars => [/\ \A n \in Sessions : src[n] # None => src'[n] = src[n]
                        /\ \A d \in net' \ net : d.to = UpfSocket =>
                             \E c \in net \ net' : c.to = Relay /\ c.from = UeSocket(src'[d.from[2]])
                       ]_vars
  BY DEF Stable
<1> QED BY Initially, Step, <1>1, PTL DEF Spec, BindingIsStable

\* What the UE writes to its TUN device is addressed to the plane that has it.
THEOREM WrittenToOwner == Spec => []DeliveredToOwner
<1>1. IInv => DeliveredToOwner
  BY DEF IInv, ArrivedOK, ArrivalOK, Sends, DeliveredToOwner
<1> QED BY <1>1, Invariance, PTL

\* A synthetic ping passes on the reply to the address it was sent from.
THEOREM PassedOnOwn == Spec => []PassedOnOwnReply
<1>1. IInv => PassedOnOwnReply
  BY DEF IInv
<1> QED BY <1>1, Invariance, PTL

\* No session is claimed by the socket of a later one.
THEOREM ClaimedInTime == Spec => []ClaimedByOwnerOrEarlier
<1>1. IInv => ClaimedByOwnerOrEarlier
  BY DEF IInv
<1> QED BY <1>1, Invariance, PTL

\* The state has its types: no datagram under way is other than the bytes of one
\* of the model's packets, between two of its sockets.
THEOREM TypeCorrect == Spec => []TypeOK
<1>1. ASSUME IInv PROVE TypeOK
  <2>1. Types /\ NetOK /\ JobsOK
    BY <1>1 DEF IInv
  <2>2. jobs \subseteq [session : Sessions, packet : Inner]
    <3>1. ASSUME NEW j \in jobs PROVE j \in [session : Sessions, packet : Inner]
      <4>1. PICK n \in Sessions, x \in Sessions : j = [session |-> n, packet |-> Response(x)]
        BY <2>1 DEF JobsOK, JobOK
      <4> QED BY <4>1, PacketFacts
    <3> QED BY <3>1
  <2>3. net \subseteq [from : Ends, to : Ends, data : Contents]
    <3>1. ASSUME NEW d \in net PROVE d \in [from : Ends, to : Ends, data : Contents]
      <4>1. ASSUME NEW from \in Ends, NEW to \in Ends, NEW t \in Sessions, NEW p \in Inner,
                   d = SendGPDU(from, to, t, p)
            PROVE  d \in [from : Ends, to : Ends, data : Contents]
        <5>1. PICK b : b = Bytes[<<t, p>>]
          OBVIOUS
        <5>2. d = [from |-> from, to |-> to, data |-> b]
          BY ONLY <4>1, <5>1 DEF SendGPDU
        <5>3. d.data \in Contents
          BY ONLY <4>1, t \in Sessions, p \in Inner, SentFacts
        <5>4. d.data = b
          BY ONLY <5>2
        <5> QED BY ONLY <5>2, <5>3, <5>4, from \in Ends, to \in Ends
      <4>2. /\ Relay \in Ends /\ UpfSocket \in Ends /\ N6 \in Ends /\ Host \in Ends
            /\ \A n \in Sessions : UeSocket(n) \in Ends /\ GnbSocket(n) \in Ends
        BY DEF Ends
      <4>3. \A x \in Sessions : <<Request(x)>> \in Contents /\ <<Response(x)>> \in Contents
        BY PacketFacts DEF Contents
      <4>4. \A n \in Sessions : src[n] # None => src[n] \in Sessions
        BY <2>1 DEF Types
      <4>5. CASE FromUe(d)
        <5>1. PICK m \in Sessions, x \in Sessions :
                d = SendGPDU(UeSocket(m), Relay, 1, Request(x))
          BY <4>5 DEF FromUe
        <5>2. Request(x) \in Inner /\ 1 \in Sessions
          BY PacketFacts, FirstSession
        <5> QED BY <4>1, <4>2, <5>1, <5>2
      <4>6. CASE ToUpf(d)
        <5>1. PICK n \in Sessions, x \in Sessions :
                d = SendGPDU(GnbSocket(n), UpfSocket, n, Request(x))
          BY <4>6 DEF ToUpf
        <5> QED BY <4>1, <4>2, <5>1, PacketFacts
      <4>7. CASE ToHost(d)
        <5>1. PICK x \in Sessions : d = [from |-> N6, to |-> Host, data |-> <<Request(x)>>]
          BY <4>7 DEF ToHost
        <5>2. PICK b : b = <<Request(x)>>
          OBVIOUS
        <5>3. b \in Contents
          BY <4>3, <5>2
        <5>4. d = [from |-> N6, to |-> Host, data |-> b]
          BY <5>1, <5>2
        <5> QED BY ONLY <4>2, <5>3, <5>4
      <4>8. CASE ToN6(d)
        <5>1. PICK x \in Sessions : d = [from |-> Host, to |-> N6, data |-> <<Response(x)>>]
          BY <4>8 DEF ToN6
        <5>2. PICK b : b = <<Response(x)>>
          OBVIOUS
        <5>3. b \in Contents
          BY <4>3, <5>2
        <5>4. d = [from |-> Host, to |-> N6, data |-> b]
          BY <5>1, <5>2
        <5> QED BY ONLY <4>2, <5>3, <5>4
      <4>9. CASE ToGnb(d)
        <5>1. PICK n \in Sessions, x \in Sessions :
                d = SendGPDU(UpfSocket, GnbSocket(n), n, Response(x))
          BY <4>9 DEF ToGnb
        <5> QED BY <4>1, <4>2, <5>1, PacketFacts
      <4>10. CASE ToUe(d)
        <5>1. PICK n \in Sessions, x \in Sessions :
                src[n] # None /\ d = SendGPDU(Relay, UeSocket(src[n]), n, Response(x))
          BY <4>10 DEF ToUe
        <5>2. PICK m \in Sessions : m = src[n]
          BY <4>4, <5>1
        <5>3. d = SendGPDU(Relay, UeSocket(m), n, Response(x))
          BY <5>1, <5>2
        <5> QED BY <4>1, <4>2, <5>3, PacketFacts
      <4> QED BY <2>1, <4>5, <4>6, <4>7, <4>8, <4>9, <4>10 DEF NetOK, Shape
    <3> QED BY <3>1
  <2> QED BY <2>1, <2>2, <2>3 DEF Types, TypeOK
<1> QED BY <1>1, Invariance, PTL

=============================================================================
